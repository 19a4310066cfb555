------------------------- MODULE RemediationProofs -------------------------
(***************************************************************************)
(* What holds of plans and reductions for every listing, directory, set of *)
(* weights and language model.                                             *)
(***************************************************************************)
EXTENDS Remediation, FiniteSetTheorems, TLAPS

\* The weights in force, when none of them is negative.  The code checks only
\* that they are integers and sum to 100.
NonNegativeWeights ==
    /\ Weights \in [Factors -> Nat]
    /\ Weights["s"] + Weights["d"] + Weights["m"] + Weights["b"] = 100

-----------------------------------------------------------------------------
(* Decisions. *)

\* What a decision may do to the listing and the plan.
LEMMA DecisionFacts ==
    ASSUME [Next]_vars
    PROVE  /\ listing' = listing
           /\ \/ plan' = plan /\ last' = last
              \/ \E a \in plan.actions : \E text :
                    plan' = Replan(a, Chosen(a, text)) /\ last' = Reduction(a, text)
<1>1. ASSUME NEW a \in plan.actions, Reduce(a)
      PROVE  /\ listing' = listing
             /\ \E text : plan' = Replan(a, Chosen(a, text)) /\ last' = Reduction(a, text)
  BY <1>1, Zenon DEF Reduce
<1>2. ASSUME NEW a \in plan.actions, Keep(a) \/ Approve(a) \/ Defer(a)
      PROVE  UNCHANGED <<listing, plan, last>>
  BY <1>2 DEF Keep, Approve, Defer
<1>3. CASE UNCHANGED vars
  BY <1>3 DEF vars
<1> QED BY <1>1, <1>2, <1>3 DEF Next

-----------------------------------------------------------------------------
(* Risk. *)

\* A larger product has the larger quotient.
LEMMA Monotone ==
    ASSUME NEW w \in Int, w >= 0, NEW x \in Int, NEW y \in Int, x <= y
    PROVE  w * x <= w * y
<1>1. y - x >= 0 /\ w * (y - x) >= 0
  OBVIOUS
<1>2. w * (y - x) = w * y - w * x
  OBVIOUS
<1> QED BY <1>1, <1>2

\* Each weighted factor is at most its weight times the full scale.
LEMMA Share ==
    ASSUME NEW w \in Int, w >= 0, NEW x \in 0..10000
    PROVE  w * x \in Int /\ 0 <= w * x /\ w * x <= 10000 * w
<1>1. w * 0 <= w * x /\ w * x <= w * 10000
  BY Monotone
<1> QED BY <1>1

\* The weights as numbers.
LEMMA WeightFacts ==
    ASSUME NonNegativeWeights
    PROVE  /\ Weights["s"] \in Nat /\ Weights["d"] \in Nat
           /\ Weights["m"] \in Nat /\ Weights["b"] \in Nat
           /\ Weights["s"] + Weights["d"] + Weights["m"] + Weights["b"] = 100
BY DEF NonNegativeWeights, Factors

\* With weights that are not negative, four factors on the scale make a score
\* on the scale: no entitlement is refused by select_tier (tiers.py:70).
THEOREM RiskInRange ==
    ASSUME NonNegativeWeights,
           NEW s \in 0..10000, NEW d \in 0..10000, NEW m \in 0..10000, NEW b \in 0..10000
    PROVE  Risk(s, d, m, b) \in 0..10000
<1> DEFINE ws == Weights["s"]
           wd == Weights["d"]
           wm == Weights["m"]
           wb == Weights["b"]
           p  == ws * s
           q  == wd * d
           r  == wm * m
           t  == wb * b
<1>1. ws \in Int /\ wd \in Int /\ wm \in Int /\ wb \in Int
  BY WeightFacts
<1>2. ws >= 0 /\ wd >= 0 /\ wm >= 0 /\ wb >= 0 /\ ws + wd + wm + wb = 100
  BY WeightFacts
<1>3. Risk(s, d, m, b) = (p + q + r + t) \div 100
  BY DEF Risk
<1> HIDE DEF ws, wd, wm, wb
<1>4. p \in Int /\ 0 <= p /\ p <= 10000 * ws
  BY <1>1, <1>2, Share
<1>5. q \in Int /\ 0 <= q /\ q <= 10000 * wd
  BY <1>1, <1>2, Share
<1>6. r \in Int /\ 0 <= r /\ r <= 10000 * wm
  BY <1>1, <1>2, Share
<1>7. t \in Int /\ 0 <= t /\ t <= 10000 * wb
  BY <1>1, <1>2, Share
<1> HIDE DEF p, q, r, t
<1>8. p + q + r + t \in Int /\ 0 <= p + q + r + t /\ p + q + r + t <= 1000000
  BY <1>1, <1>2, <1>4, <1>5, <1>6, <1>7
<1> DEFINE total == p + q + r + t
<1>9. total \in Int /\ 0 <= total /\ total <= 1000000
  BY <1>8
<1>10. Risk(s, d, m, b) = total \div 100
  BY <1>3
<1> HIDE DEF total
<1>11. total \div 100 \in Int /\ 0 <= total \div 100 /\ total \div 100 <= 10000
  BY <1>9
<1> DEFINE quotient == total \div 100
<1>12. quotient \in Int /\ 0 <= quotient /\ quotient <= 10000
  BY <1>11
<1>13. Risk(s, d, m, b) = quotient
  BY <1>10
<1> HIDE DEF quotient
<1> QED BY <1>12, <1>13

\* A factor that grows does not lower the risk.
LEMMA RiskMonotone ==
    ASSUME NonNegativeWeights
    PROVE  \A s, d, m, b, s2, d2, m2, b2 \in Int :
             s <= s2 /\ d <= d2 /\ m <= m2 /\ b <= b2 =>
                /\ Risk(s, d, m, b) \in Int /\ Risk(s2, d2, m2, b2) \in Int
                /\ Risk(s, d, m, b) <= Risk(s2, d2, m2, b2)
<1> TAKE s, d, m, b, s2, d2, m2, b2 \in Int
<1> HAVE s <= s2 /\ d <= d2 /\ m <= m2 /\ b <= b2
<1> DEFINE ws == Weights["s"]
           wd == Weights["d"]
           wm == Weights["m"]
           wb == Weights["b"]
<1>1. /\ ws \in Int /\ wd \in Int /\ wm \in Int /\ wb \in Int
      /\ ws >= 0 /\ wd >= 0 /\ wm >= 0 /\ wb >= 0
  BY WeightFacts
<1>2. ws * s <= ws * s2 /\ wd * d <= wd * d2 /\ wm * m <= wm * m2 /\ wb * b <= wb * b2
  BY <1>1, Monotone
<1>3. /\ ws * s \in Int /\ wd * d \in Int /\ wm * m \in Int /\ wb * b \in Int
      /\ ws * s2 \in Int /\ wd * d2 \in Int /\ wm * m2 \in Int /\ wb * b2 \in Int
  BY <1>1
<1>4. /\ Risk(s, d, m, b) = (ws * s + wd * d + wm * m + wb * b) \div 100
      /\ Risk(s2, d2, m2, b2) = (ws * s2 + wd * d2 + wm * m2 + wb * b2) \div 100
  BY DEF Risk
<1> HIDE DEF ws, wd, wm, wb
<1>5. /\ ws * s + wd * d + wm * m + wb * b \in Int
      /\ ws * s2 + wd * d2 + wm * m2 + wb * b2 \in Int
      /\ ws * s + wd * d + wm * m + wb * b <= ws * s2 + wd * d2 + wm * m2 + wb * b2
  BY <1>2, <1>3
<1>6. \A x, y \in Int : x <= y =>
        x \div 100 \in Int /\ y \div 100 \in Int /\ x \div 100 <= y \div 100
  OBVIOUS
<1> QED BY <1>4, <1>5, <1>6

\* The factors of a finding are integers.
LEMMA FactorTypes ==
    ASSUME RiskPolicyAssumption, NEW e \in Entitlements
    PROVE  /\ Severity(e.scope) \in Int /\ Dormancy(e.days) \in Int
           /\ RoleMismatch(e) \in Int /\ BlastRadius(e.place) \in Int
<1>1. Severity(e.scope) \in Int
  BY DEF Severity
<1>2. RoleMismatch(e) \in Int
  BY DEF RoleMismatch
<1>3. e.days \in Int /\ DecadesOf[e.place] \in Nat
  <2>1. e.days \in Nat \union {Never} /\ e.place \in Places
    BY DEF Entitlements
  <2>2. DecadesOf \in [Places -> Nat]
    BY DEF RiskPolicyAssumption
  <2>3. \A x \in Nat \union {Never} : x \in Int
    BY DEF Never
  <2>4. e.days \in Int
    BY <2>1, <2>3, Zenon
  <2>5. DecadesOf[e.place] \in Nat
    BY <2>1, <2>2
  <2> QED BY <2>4, <2>5
<1>4. Dormancy(e.days) \in Int
  BY <1>3 DEF Dormancy, AtMostFull
<1>5. BlastRadius(e.place) \in Int
  BY <1>3 DEF BlastRadius, AtMostFull
<1> QED BY <1>1, <1>2, <1>4, <1>5

\* A higher score of the same identity is not in a lower tier.
LEMMA TierMonotone ==
    ASSUME NEW x \in Int, NEW y \in Int, x <= y, NEW i
    PROVE  SelectTier(x, i) <= SelectTier(y, i)
BY DEF SelectTier, BreakGlass

\* More reachable identities do not make the smaller blast radius.
LEMMA BlastMonotone ==
    ASSUME RiskPolicyAssumption
    PROVE  \A p, q \in Places :
              DecadesOf[p] <= DecadesOf[q] => BlastRadius(p) <= BlastRadius(q)
<1>1. DecadesOf \in [Places -> Nat]
  BY DEF RiskPolicyAssumption
<1>2. \A x, y \in Nat : x <= y => AtMostFull(2500 * x) <= AtMostFull(2500 * y)
  BY DEF AtMostFull
<1> TAKE p, q \in Places
<1> HAVE DecadesOf[p] <= DecadesOf[q]
<1>3. DecadesOf[p] \in Nat /\ DecadesOf[q] \in Nat
  BY <1>1
<1> DEFINE x == DecadesOf[p]
           y == DecadesOf[q]
<1>4. x \in Nat /\ y \in Nat /\ x <= y
  BY <1>3
<1> HIDE DEF x, y
<1>5. AtMostFull(2500 * x) <= AtMostFull(2500 * y)
  BY <1>2, <1>4
<1> QED BY <1>5 DEF BlastRadius, x, y

\* Of two findings of one identity, the one that is worse in every factor has
\* the higher score.
LEMMA ScoreMonotone ==
    ASSUME RiskPolicyAssumption, NonNegativeWeights,
           NEW e \in Entitlements, NEW f \in Entitlements,
           Severity(f.scope) <= Severity(e.scope), Dormancy(f.days) <= Dormancy(e.days),
           RoleMismatch(f) <= RoleMismatch(e), DecadesOf[f.place] <= DecadesOf[e.place]
    PROVE  ScoreOf(f) \in Int /\ ScoreOf(e) \in Int /\ ScoreOf(f) <= ScoreOf(e)
<1>1. BlastRadius(f.place) <= BlastRadius(e.place)
  <2>1. e.place \in Places /\ f.place \in Places
    BY DEF Entitlements
  <2> DEFINE p == f.place
             q == e.place
  <2>2. p \in Places /\ q \in Places /\ DecadesOf[p] <= DecadesOf[q]
    BY <2>1
  <2> HIDE DEF p, q
  <2>3. BlastRadius(p) <= BlastRadius(q)
    BY <2>2, BlastMonotone
  <2> QED BY <2>3 DEF p, q
<1>2. /\ Severity(e.scope) \in Int /\ Dormancy(e.days) \in Int
      /\ RoleMismatch(e) \in Int /\ BlastRadius(e.place) \in Int
      /\ Severity(f.scope) \in Int /\ Dormancy(f.days) \in Int
      /\ RoleMismatch(f) \in Int /\ BlastRadius(f.place) \in Int
  BY FactorTypes
<1> QED BY <1>1, <1>2, RiskMonotone, Zenon DEF ScoreOf

\* WorseIsNotLower, of every listing.
THEOREM RemediationWorseIsNotLower ==
    ASSUME RiskPolicyAssumption, RemediationAssumption, NonNegativeWeights
    PROVE  Spec => []WorseIsNotLower
<1> DEFINE Listed == listing \in Seq(Entitlements)
<1>1. Init => Listed
  BY DEF Init, RemediationAssumption
<1>2. Listed /\ [Next]_vars => Listed'
  BY DecisionFacts
<1>3. Listed => WorseIsNotLower
  <2> SUFFICES ASSUME Listed, NEW i \in DOMAIN listing, NEW j \in DOMAIN listing,
                      listing[i].holder = listing[j].holder,
                      listing[i].revocable, listing[j].revocable,
                      Severity(listing[i].scope) >= Severity(listing[j].scope),
                      Dormancy(listing[i].days) >= Dormancy(listing[j].days),
                      RoleMismatch(listing[i]) >= RoleMismatch(listing[j]),
                      DecadesOf[listing[i].place] >= DecadesOf[listing[j].place]
               PROVE  TierOf(listing[i]) >= TierOf(listing[j])
    BY DEF WorseIsNotLower
  <2> DEFINE e == listing[i]
             f == listing[j]
  <2>1. e \in Entitlements /\ f \in Entitlements
    OBVIOUS
  <2>2. /\ Severity(f.scope) <= Severity(e.scope) /\ Dormancy(f.days) <= Dormancy(e.days)
        /\ RoleMismatch(f) <= RoleMismatch(e) /\ DecadesOf[f.place] <= DecadesOf[e.place]
        /\ e.holder = f.holder /\ e.revocable /\ f.revocable
    OBVIOUS
  <2> HIDE DEF e, f
  <2>3. ScoreOf(f) \in Int /\ ScoreOf(e) \in Int /\ ScoreOf(f) <= ScoreOf(e)
    BY <2>1, <2>2, ScoreMonotone
  <2>4. SelectTier(ScoreOf(f), Identity(f.holder)) <= SelectTier(ScoreOf(e), Identity(f.holder))
    BY <2>3, TierMonotone
  <2>5. /\ TierOf(e) = SelectTier(ScoreOf(e), Identity(e.holder))
        /\ TierOf(f) = SelectTier(ScoreOf(f), Identity(f.holder))
    BY <2>2 DEF TierOf
  <2>6. /\ SelectTier(ScoreOf(f), Identity(f.holder)) \in Int
        /\ SelectTier(ScoreOf(e), Identity(f.holder)) \in Int
    BY DEF SelectTier
  <2> QED BY <2>2, <2>4, <2>5, <2>6 DEF e, f
<1> QED BY <1>1, <1>2, <1>3, PTL DEF Spec

-----------------------------------------------------------------------------
(* Reductions. *)

Targets == Scopes \union {NoAccess}
ActionFields == {"seq", "place", "scope", "to", "verb", "finding", "score", "tier", "key"}

\* An action as the planner and the negotiator make them.
Narrowing(a) ==
    /\ DOMAIN a = ActionFields
    /\ a.scope \in Scopes
    /\ a.to \in Targets
    /\ a.verb = VerbTo(a.to)
    /\ a.tier \in 1..3
    /\ Severity(a.to) < Severity(a.scope)

NarrowInv ==
    /\ listing \in Listings
    /\ \A a \in plan.actions : Narrowing(a)

\* The severities of the scopes.
LEMMA Severities ==
    /\ \A x \in Targets : Severity(x) \in Nat
    /\ \A x \in Scopes : Severity(x) > Severity(NoAccess)
    /\ \A x \in Scopes : x # "read" => Severity("read") < Severity(x)
    /\ NoAccess \notin Scopes /\ "read" \in Scopes
BY DEF Severity, Scopes, Targets, NoAccess

\* A set of scopes has one that is the widest, and the last of those by name.
LEMMA WidestExists ==
    ASSUME NEW S \in SUBSET Scopes, S # {}
    PROVE  \E x \in S : \A t \in S :
              \/ Severity(t) < Severity(x)
              \/ Severity(t) = Severity(x) /\ NameOrder[t] <= NameOrder[x]
<1>1. CASE "secrets" \in S
  BY <1>1 DEF Severity, Scopes, NameOrder
<1>2. CASE "secrets" \notin S /\ "iam" \in S
  BY <1>2 DEF Severity, Scopes, NameOrder
<1>3. CASE S \subseteq {"read", "write", "admin", "billing"} /\ "billing" \in S
  BY <1>3 DEF Severity, Scopes, NameOrder
<1>4. CASE S \subseteq {"read", "write", "admin"} /\ "admin" \in S
  BY <1>4 DEF Severity, Scopes, NameOrder
<1>5. CASE S \subseteq {"read", "write"} /\ "write" \in S
  BY <1>5 DEF Severity, Scopes, NameOrder
<1>6. CASE S \subseteq {"read"}
  BY <1>6 DEF Severity, Scopes, NameOrder
<1> QED BY <1>1, <1>2, <1>3, <1>4, <1>5, <1>6 DEF Scopes

\* next_lowest_scope returns a scope of the closed set below the current one,
\* or no access.
LEMMA NextLowestIsLower ==
    ASSUME NEW scope \in Scopes, NEW closed \in SUBSET Scopes
    PROVE  /\ NextLowestScope(scope, closed) \in closed \union {NoAccess}
           /\ Severity(NextLowestScope(scope, closed)) < Severity(scope)
<1> DEFINE below == {s \in closed : Severity(s) < Severity(scope)}
<1>1. CASE below = {}
  <2>1. NextLowestScope(scope, closed) = NoAccess
    BY <1>1 DEF NextLowestScope
  <2> QED BY <2>1, Severities
<1>2. CASE below # {}
  <2> DEFINE Widest(s) == \A t \in below :
                \/ Severity(t) < Severity(s)
                \/ Severity(t) = Severity(s) /\ NameOrder[t] <= NameOrder[s]
  <2>1. \E s \in below : Widest(s)
    BY <1>2, WidestExists
  <2>2. NextLowestScope(scope, closed) = CHOOSE s \in below : Widest(s)
    BY <1>2 DEF NextLowestScope
  <2> QED BY <2>1, <2>2
<1> QED BY <1>1, <1>2

\* The scope a reduction ends with is below the one the holder has, whatever
\* the model says.
LEMMA ChosenIsLower ==
    ASSUME RemediationAssumption, listing \in Listings, NEW a, Narrowing(a), NEW text
    PROVE  /\ Chosen(a, text) \in Targets
           /\ Severity(Chosen(a, text)) < Severity(a.scope)
<1>1. GraphScopes \subseteq Scopes
  <2>1. listing \in Seq(Entitlements)
    BY DEF RemediationAssumption
  <2>2. \A i \in DOMAIN listing : listing[i] \in Entitlements
    BY <2>1
  <2> QED BY <2>2 DEF GraphScopes, Entitlements
<1>2. a.scope \in Scopes
  BY DEF Narrowing
<1>3. CASE Accepted(a, text)
  BY <1>1, <1>3 DEF Chosen, Accepted, Targets
<1>4. CASE ~Accepted(a, text)
  BY <1>1, <1>2, <1>4, NextLowestIsLower DEF Chosen, Targets
<1> QED BY <1>3, <1>4

\* What build makes of a finding narrows.
LEMMA BuiltNarrows ==
    ASSUME NEW e \in Entitlements, Actionable(e), NEW seq
    PROVE  Narrowing(ActionFor(e, seq))
<1>1. e.scope \in Scopes
  BY DEF Entitlements
<1>2. TierOf(e) \in 1..3
  BY DEF Actionable, TierOf, SelectTier
<1>3. TargetScope(e) \in Targets /\ Severity(TargetScope(e)) < Severity(e.scope)
  BY <1>1, Severities DEF TargetScope, Targets
<1> QED BY <1>1, <1>2, <1>3 DEF Narrowing, ActionFor, ActionFields

\* Keys do not matter for the access an action leaves.
LEMMA KeyedNarrows ==
    ASSUME NEW actions, \A a \in actions : Narrowing(a)
    PROVE  \A a \in Keyed(actions) : Narrowing(a)
BY DEF Keyed, Narrowing, ActionFields

\* Every action of a built plan narrows.
LEMMA PlanNarrows ==
    ASSUME NEW list \in Seq(Entitlements)
    PROVE  \A a \in Build(list).actions : Narrowing(a)
<1> DEFINE position == Position(list)
           actions  == {ActionFor(list[i], position[i]) : i \in DOMAIN position}
<1>1. DOMAIN position = {i \in DOMAIN list : Actionable(list[i])}
  BY DEF Position, Sorted, Planned
<1>2. \A i \in DOMAIN position : list[i] \in Entitlements /\ Actionable(list[i])
  BY <1>1
<1>3. \A a \in actions : Narrowing(a)
  BY <1>2, BuiltNarrows
<1>4. Build(list).actions = Keyed(actions)
  BY DEF Build
<1> HIDE DEF actions
<1> QED BY <1>3, <1>4, KeyedNarrows

\* A reduction leaves a plan that narrows.
LEMMA ReducedNarrows ==
    ASSUME RemediationAssumption, NarrowInv, NEW a \in plan.actions, NEW text
    PROVE  \A b \in Replan(a, Chosen(a, text)).actions : Narrowing(b)
<1> DEFINE to      == Chosen(a, text)
           updated == [a EXCEPT !.to = to, !.verb = VerbTo(to), !.key = None]
           actions == {IF c.seq = a.seq THEN updated ELSE c : c \in plan.actions}
<1>1. to \in Targets /\ Severity(to) < Severity(a.scope)
  BY ChosenIsLower DEF NarrowInv
<1> HIDE DEF to
<1>2. Narrowing(updated)
  BY <1>1 DEF NarrowInv, Narrowing, ActionFields
<1>3. \A c \in actions : Narrowing(c)
  BY <1>2 DEF NarrowInv
<1>4. Replan(a, to).actions = Keyed(actions)
  BY DEF Replan
<1> HIDE DEF actions
<1> QED BY <1>3, <1>4, KeyedNarrows DEF to

\* The plan narrows from the start and after every decision.
LEMMA NarrowInductive ==
    ASSUME RemediationAssumption
    PROVE  (Init => NarrowInv) /\ (NarrowInv /\ [Next]_vars => NarrowInv')
<1>1. Init => NarrowInv
  BY PlanNarrows DEF Init, NarrowInv, RemediationAssumption
<1>2. ASSUME NarrowInv, [Next]_vars PROVE NarrowInv'
  <2>1. \A b \in plan'.actions : Narrowing(b)
    BY <1>2, DecisionFacts, ReducedNarrows DEF NarrowInv
  <2> QED BY <1>2, <2>1, DecisionFacts DEF NarrowInv, Narrowing
<1> QED BY <1>1, <1>2

\* No plan widens access and no replanning raises, whatever the model answers.
THEOREM RemediationNeverWidens ==
    ASSUME RemediationAssumption
    PROVE  Spec => []NeverWidens
<1>1. NarrowInv => NeverWidens
  <2> SUFFICES ASSUME NarrowInv, NEW a \in plan.actions
               PROVE  Reduces(a) /\ Severity(a.to) < Severity(a.scope)
    BY DEF NeverWidens
  <2>1. Severity(a.to) < Severity(a.scope) /\ a.to \in Targets /\ a.scope \in Targets
    BY DEF NarrowInv, Narrowing, Targets
  <2>2. a.verb = "revoke" => a.to = NoAccess
    BY DEF NarrowInv, Narrowing, VerbTo
  <2> QED BY <2>1, <2>2, Severities DEF Reduces
<1> QED BY <1>1, NarrowInductive, PTL DEF Spec

\* A reduction changes the action it is about and no other one.
THEOREM RemediationOneActionChanges == Spec => OneActionChanges
<1> DEFINE Kept == \A a \in plan.actions :
              a.seq # last'.seq => [a EXCEPT !.key = None] \in Body(plan'.actions)
<1>1. ASSUME NEW action \in plan.actions, NEW text,
             plan' = Replan(action, Chosen(action, text)), last' = Reduction(action, text)
      PROVE  Kept
  <2>1. last'.seq = action.seq
    BY <1>1 DEF Reduction
  <2> DEFINE to      == Chosen(action, text)
             updated == [action EXCEPT !.to = to, !.verb = VerbTo(to), !.key = None]
             actions == {IF c.seq = action.seq THEN updated ELSE c : c \in plan.actions}
  <2>2. plan'.actions = Keyed(actions)
    BY <1>1 DEF Replan
  <2> SUFFICES ASSUME NEW a \in plan.actions, a.seq # action.seq
               PROVE  [a EXCEPT !.key = None] \in Body(plan'.actions)
    BY <2>1
  <2>3. a \in actions
    OBVIOUS
  <2> HIDE DEF actions
  <2>4. PICK k : [a EXCEPT !.key = k] \in Keyed(actions)
    BY <2>3 DEF Keyed
  <2>5. [[a EXCEPT !.key = k] EXCEPT !.key = None] = [a EXCEPT !.key = None]
    OBVIOUS
  <2> QED BY <2>2, <2>4, <2>5 DEF Body
<1>2. ASSUME plan' = plan PROVE Kept
  BY <1>2 DEF Body
<1>3. [Next]_vars => Kept
  BY <1>1, <1>2, DecisionFacts
<1> QED BY <1>3, PTL DEF Spec, OneActionChanges

-----------------------------------------------------------------------------
(* Numbers and keys. *)

Triples    == Int \X Int \X Int
Quadruples == Int \X Int \X Int \X Int

\* Lexicographic is a strict total order of the keys.
Ordered(keys) ==
    \A a, b, c \in keys :
        /\ ~Lexicographic(a, a)
        /\ a = b \/ Lexicographic(a, b) \/ Lexicographic(b, a)
        /\ Lexicographic(a, b) /\ Lexicographic(b, c) => Lexicographic(a, c)

\* What it means that one triple precedes another.
LEMMA LexicographicTriple ==
    ASSUME NEW a \in Triples, NEW b \in Triples
    PROVE  Lexicographic(a, b) <=> \/ a[1] < b[1]
                                   \/ a[1] = b[1] /\ a[2] < b[2]
                                   \/ a[1] = b[1] /\ a[2] = b[2] /\ a[3] < b[3]
<1>1. DOMAIN a = 1..3 /\ DOMAIN b = 1..3
  BY DEF Triples
<1>2. Lexicographic(a, b) <=> \/ a[1] < b[1] /\ \A j \in 1..0 : a[j] = b[j]
                              \/ a[2] < b[2] /\ \A j \in 1..1 : a[j] = b[j]
                              \/ a[3] < b[3] /\ \A j \in 1..2 : a[j] = b[j]
  BY <1>1 DEF Lexicographic
<1>3. (\A j \in 1..1 : a[j] = b[j]) <=> a[1] = b[1]
  OBVIOUS
<1>4. (\A j \in 1..2 : a[j] = b[j]) <=> a[1] = b[1] /\ a[2] = b[2]
  OBVIOUS
<1> QED BY <1>2, <1>3, <1>4

\* The same of two quadruples.
LEMMA LexicographicQuadruple ==
    ASSUME NEW a \in Quadruples, NEW b \in Quadruples
    PROVE  Lexicographic(a, b) <=>
              \/ a[1] < b[1]
              \/ a[1] = b[1] /\ a[2] < b[2]
              \/ a[1] = b[1] /\ a[2] = b[2] /\ a[3] < b[3]
              \/ a[1] = b[1] /\ a[2] = b[2] /\ a[3] = b[3] /\ a[4] < b[4]
<1>1. DOMAIN a = 1..4 /\ DOMAIN b = 1..4
  BY DEF Quadruples
<1>2. Lexicographic(a, b) <=> \/ a[1] < b[1] /\ \A j \in 1..0 : a[j] = b[j]
                              \/ a[2] < b[2] /\ \A j \in 1..1 : a[j] = b[j]
                              \/ a[3] < b[3] /\ \A j \in 1..2 : a[j] = b[j]
                              \/ a[4] < b[4] /\ \A j \in 1..3 : a[j] = b[j]
  BY <1>1 DEF Lexicographic
<1>3. (\A j \in 1..1 : a[j] = b[j]) <=> a[1] = b[1]
  OBVIOUS
<1>4. (\A j \in 1..2 : a[j] = b[j]) <=> a[1] = b[1] /\ a[2] = b[2]
  OBVIOUS
<1>5. (\A j \in 1..3 : a[j] = b[j]) <=> a[1] = b[1] /\ a[2] = b[2] /\ a[3] = b[3]
  OBVIOUS
<1> QED BY <1>2, <1>3, <1>4, <1>5

\* Triples and quadruples of numbers are ordered.
LEMMA KeysOrdered == Ordered(Triples) /\ Ordered(Quadruples)
<1>1. Ordered(Triples)
  <2>1. \A a \in Triples : a[1] \in Int /\ a[2] \in Int /\ a[3] \in Int
    BY DEF Triples
  <2>2. \A a, b \in Triples : a[1] = b[1] /\ a[2] = b[2] /\ a[3] = b[3] => a = b
    BY DEF Triples
  <2> QED BY <2>1, <2>2, LexicographicTriple DEF Ordered
<1>2. Ordered(Quadruples)
  <2>1. \A a \in Quadruples : a[1] \in Int /\ a[2] \in Int /\ a[3] \in Int /\ a[4] \in Int
    BY DEF Quadruples
  <2>2. \A a, b \in Quadruples :
           a[1] = b[1] /\ a[2] = b[2] /\ a[3] = b[3] /\ a[4] = b[4] => a = b
    BY DEF Quadruples
  <2> QED BY <2>1, <2>2, LexicographicQuadruple DEF Ordered
<1> QED BY <1>1, <1>2

\* Two elements of a total order differ in how many precede them.
LEMMA CountsDiffer ==
    ASSUME NEW I, IsFiniteSet(I), NEW R,
           \A i \in I : <<i, i>> \notin R,
           \A i, j \in I : i = j \/ <<i, j>> \in R \/ <<j, i>> \in R,
           \A h, i, j \in I : <<h, i>> \in R /\ <<i, j>> \in R => <<h, j>> \in R,
           NEW i \in I, NEW j \in I, i # j
    PROVE  Cardinality({h \in I : <<h, i>> \in R}) # Cardinality({h \in I : <<h, j>> \in R})
<1> DEFINE Below(k) == {h \in I : <<h, k>> \in R}
<1>1. ASSUME NEW x \in I, NEW y \in I, <<x, y>> \in R
      PROVE  Cardinality(Below(x)) # Cardinality(Below(y))
  <2>1. IsFiniteSet(Below(y))
    BY FS_Subset
  <2>2. Below(x) \in SUBSET Below(y) /\ Below(x) # Below(y)
    BY <1>1
  <2> QED BY <2>1, <2>2, FS_Subset
<1> QED BY <1>1

\* Different elements have different numbers.
Injective(f) == \A i, j \in DOMAIN f : f[i] = f[j] => i = j

Sortable(I, key, before) ==
    /\ IsFiniteSet(I)
    /\ \E keys : Ordered(keys) /\ key \in [I -> keys]
    /\ \A i \in I : before[i] \in Int
    /\ \A i, j \in I : before[i] = before[j] => i = j

\* So do two elements of a list that is sorted by keys and an order before.
LEMMA SortedDiffer ==
    ASSUME NEW I, NEW key, NEW before, Sortable(I, key, before)
    PROVE  Sorted(I, key, before) \in [I -> Nat] /\ Injective(Sorted(I, key, before))
<1> DEFINE Less(i, j) == \/ Lexicographic(key[i], key[j])
                         \/ key[i] = key[j] /\ before[i] < before[j]
           R == {p \in I \X I : Less(p[1], p[2])}
           Below(i) == {j \in I : Less(j, i)}
<1>1. \A i, j \in I : <<i, j>> \in R <=> Less(i, j)
  OBVIOUS
<1>2. PICK keys : Ordered(keys) /\ key \in [I -> keys]
  BY DEF Sortable
<1>3. \A h, i, j \in I :
        /\ ~Lexicographic(key[i], key[i])
        /\ \/ key[i] = key[j]
           \/ Lexicographic(key[i], key[j])
           \/ Lexicographic(key[j], key[i])
        /\ Lexicographic(key[h], key[i]) /\ Lexicographic(key[i], key[j])
              => Lexicographic(key[h], key[j])
  BY <1>2 DEF Ordered
<1>4. \A i \in I : ~Less(i, i)
  BY <1>3 DEF Sortable
<1>5. \A i, j \in I : i = j \/ Less(i, j) \/ Less(j, i)
  BY <1>3 DEF Sortable
<1>6. \A h, i, j \in I : Less(h, i) /\ Less(i, j) => Less(h, j)
  BY <1>3 DEF Sortable
<1> HIDE DEF Less, R
<1>7. \A i \in I : Below(i) = {h \in I : <<h, i>> \in R}
  BY <1>1
<1>8. \A i, j \in I : i # j => Cardinality(Below(i)) # Cardinality(Below(j))
  <2> SUFFICES ASSUME NEW i \in I, NEW j \in I, i # j
               PROVE  Cardinality(Below(i)) # Cardinality(Below(j))
    OBVIOUS
  <2>1. /\ \A h \in I : <<h, h>> \notin R
        /\ \A h, k \in I : h = k \/ <<h, k>> \in R \/ <<k, h>> \in R
        /\ \A g, h, k \in I : <<g, h>> \in R /\ <<h, k>> \in R => <<g, k>> \in R
    BY <1>1, <1>4, <1>5, <1>6
  <2>2. Cardinality({h \in I : <<h, i>> \in R}) # Cardinality({h \in I : <<h, j>> \in R})
    <3>1. IsFiniteSet(I)
      BY DEF Sortable
    <3> QED BY <2>1, <3>1, CountsDiffer
  <2> QED BY <2>2, <1>7
<1>9. \A i \in I : Cardinality(Below(i)) \in Nat
  BY FS_Subset, FS_CardinalityType DEF Sortable
<1>10. \A i \in I : Preceding(I, key, before, i) = Below(i)
  BY DEF Preceding, Less
<1> HIDE DEF Below
<1> QED BY <1>8, <1>9, <1>10 DEF Sorted, Injective

\* A score is a number.
LEMMA ScoreIsNumber ==
    ASSUME RiskPolicyAssumption, NEW e \in Entitlements
    PROVE  ScoreOf(e) \in Int
<1> DEFINE s == Severity(e.scope)
           d == Dormancy(e.days)
           m == RoleMismatch(e)
           b == BlastRadius(e.place)
<1>1. s \in Int /\ d \in Int /\ m \in Int /\ b \in Int
  BY FactorTypes
<1>2. /\ Weights["s"] \in Int /\ Weights["d"] \in Int
      /\ Weights["m"] \in Int /\ Weights["b"] \in Int
  BY DEF RiskPolicyAssumption, Factors
<1> HIDE DEF s, d, m, b
<1>3. /\ Weights["s"] * s \in Int /\ Weights["d"] * d \in Int
      /\ Weights["m"] * m \in Int /\ Weights["b"] * b \in Int
  BY <1>1, <1>2
<1>4. Risk(s, d, m, b) \in Int
  BY <1>3 DEF Risk
<1> QED BY <1>4 DEF ScoreOf, s, d, m, b

\* What lists are sorted by is numbers.
LEMMA KeyTypes ==
    ASSUME RiskPolicyAssumption, NEW e \in Entitlements
    PROVE  /\ -ScoreOf(e) \in Int /\ e.place \in Int /\ NameOrder[e.scope] \in Int
           /\ RemediationAssumption =>
                 HashOrder[e.holder] \in Int /\ HolderOrder[e.holder] \in Int
<1>1. e.place \in Places /\ e.scope \in Scopes /\ e.holder \in Holders
  BY DEF Entitlements
<1>2. e.place \in Int
  <2>1. \A x \in Places : x \in Nat
    BY DEF RiskPolicyAssumption
  <2>2. e.place \in Nat
    BY <1>1, <2>1, Zenon
  <2> QED BY <2>2
<1>3. NameOrder[e.scope] \in Int
  BY <1>1 DEF NameOrder
<1>4. RemediationAssumption => HashOrder[e.holder] \in Int /\ HolderOrder[e.holder] \in Int
  BY <1>1 DEF RemediationAssumption
<1>5. -ScoreOf(e) \in Int
  BY ScoreIsNumber
<1> QED BY <1>2, <1>3, <1>4, <1>5

\* The findings of a list have different places, also if it repeats itself.
LEMMA DetectedDiffer ==
    ASSUME RiskPolicyAssumption, RemediationAssumption, NEW list \in Seq(Entitlements)
    PROVE  Detected(list) \in [DOMAIN list -> Nat] /\ Injective(Detected(list))
<1>1. DOMAIN list = 1..Len(list) /\ \A i \in DOMAIN list : list[i] \in Entitlements
  OBVIOUS
<1>2. \A i \in DOMAIN list :
         <<-ScoreOf(list[i]), list[i].place, NameOrder[list[i].scope],
           HolderOrder[list[i].holder]>> \in Quadruples
  BY <1>1, KeyTypes DEF Quadruples
<1>3. DetectionKey(list) \in [DOMAIN list -> Quadruples]
  BY <1>2 DEF DetectionKey
<1> DEFINE before == [i \in DOMAIN list |-> i]
<1>4. Sortable(DOMAIN list, DetectionKey(list), before)
  BY <1>1, <1>3, KeysOrdered, FS_Interval DEF Sortable
<1>5. Detected(list) = Sorted(DOMAIN list, DetectionKey(list), before)
  BY DEF Detected
<1> HIDE DEF before
<1> QED BY <1>4, <1>5, SortedDiffer

\* The actions of a plan have different numbers.
LEMMA PositionsDiffer ==
    ASSUME RiskPolicyAssumption, RemediationAssumption, NEW list \in Seq(Entitlements)
    PROVE  Position(list) \in [Planned(list) -> Nat] /\ Injective(Position(list))
<1>1. IsFiniteSet(Planned(list)) /\ \A i \in Planned(list) : list[i] \in Entitlements
  <2>1. DOMAIN list = 1..Len(list) /\ Len(list) \in Nat
    OBVIOUS
  <2>2. IsFiniteSet(1..Len(list))
    BY <2>1, FS_Interval
  <2>3. Planned(list) \subseteq DOMAIN list
    BY DEF Planned
  <2>4. IsFiniteSet(Planned(list))
    BY <2>1, <2>2, <2>3, FS_Subset
  <2> QED BY <2>3, <2>4
<1>2. \A i \in Planned(list) :
         <<list[i].place, NameOrder[list[i].scope], HashOrder[list[i].holder]>> \in Triples
  BY <1>1, KeyTypes DEF Triples
<1>3. PlanKey(list) \in [Planned(list) -> Triples]
  BY <1>2 DEF PlanKey
<1>4. \A i \in Planned(list) : Detected(list)[i] \in Int
  BY DetectedDiffer DEF Planned
<1>5. \A i, j \in Planned(list) : Detected(list)[i] = Detected(list)[j] => i = j
  BY DetectedDiffer DEF Planned, Injective
<1>6. Sortable(Planned(list), PlanKey(list), Detected(list))
  BY <1>1, <1>3, <1>4, <1>5, KeysOrdered DEF Sortable
<1> QED BY <1>6, SortedDiffer DEF Position

-----------------------------------------------------------------------------
(* Keys and repetitions. *)

Distinct(actions) == \A a, b \in actions : a.seq = b.seq => a = b

\* Keying actions changes neither their body nor their numbers.
LEMMA KeyedFacts ==
    ASSUME NEW actions, \A a \in actions : Narrowing(a) /\ a.seq \in Nat, Distinct(actions)
    PROVE  /\ Body(Keyed(actions)) = Body(actions)
           /\ Distinct(Keyed(actions))
           /\ \A a \in Keyed(actions) :
                 /\ a.key = <<Body(actions), a.seq, a.place, a.scope>>
                 /\ a.seq \in Nat
<1> DEFINE keyed(a) == [a EXCEPT !.key = <<Body(actions), a.seq, a.place, a.scope>>]
<1>1. Keyed(actions) = {keyed(a) : a \in actions}
  BY DEF Keyed
<1>2. \A a \in actions : [keyed(a) EXCEPT !.key = None] = [a EXCEPT !.key = None]
  OBVIOUS
<1>3. Body(Keyed(actions)) = Body(actions)
  <2>1. Body(Keyed(actions)) = {[keyed(a) EXCEPT !.key = None] : a \in actions}
    BY <1>1 DEF Body
  <2> QED BY <1>2, <2>1 DEF Body
<1>4. \A a \in actions :
         /\ keyed(a).key = <<Body(actions), a.seq, a.place, a.scope>>
         /\ keyed(a).seq = a.seq /\ keyed(a).place = a.place /\ keyed(a).scope = a.scope
  BY DEF Narrowing, ActionFields
<1> HIDE DEF keyed
<1>5. Distinct(Keyed(actions))
  BY <1>1, <1>4 DEF Distinct
<1> QED BY <1>1, <1>3, <1>4, <1>5

\* Every action is known by its number and by its key, and the last reduction,
\* if the model's answer was refused, went as far as the rules go.
KeyInv ==
    /\ NarrowInv
    /\ plan.hash = Body(plan.actions)
    /\ \A a \in plan.actions : /\ a.key = <<plan.hash, a.seq, a.place, a.scope>>
                               /\ a.seq \in Nat
    /\ Distinct(plan.actions)
    /\ (last.seq # None /\ ~last.accepted) =>
          \A a \in plan.actions :
              a.seq = last.seq => a.to = NextLowestScope(a.scope, GraphScopes)

\* What build makes of a listing.
LEMMA BuiltKeys ==
    ASSUME RiskPolicyAssumption, RemediationAssumption, NEW list \in Seq(Entitlements)
    PROVE  /\ Build(list).hash = Body(Build(list).actions)
           /\ Distinct(Build(list).actions)
           /\ \A a \in Build(list).actions :
                 /\ a.key = <<Build(list).hash, a.seq, a.place, a.scope>>
                 /\ a.seq \in Nat
<1> DEFINE position == Position(list)
           actions  == {ActionFor(list[i], position[i]) : i \in DOMAIN position}
<1>1. \A i \in DOMAIN position : list[i] \in Entitlements /\ Actionable(list[i])
  BY DEF Position, Sorted, Planned
<1>2. \A i \in DOMAIN position : position[i] \in Nat
  BY PositionsDiffer
<1>3. \A i, j \in DOMAIN position : position[i] = position[j] => i = j
  BY PositionsDiffer DEF Injective
<1>4. \A i \in DOMAIN position : ActionFor(list[i], position[i]).seq = position[i]
  BY DEF ActionFor
<1>5. \A i \in DOMAIN position : Narrowing(ActionFor(list[i], position[i]))
  BY <1>1, BuiltNarrows
<1> HIDE DEF position
<1>6. Distinct(actions) /\ \A a \in actions : Narrowing(a) /\ a.seq \in Nat
  BY <1>2, <1>3, <1>4, <1>5 DEF Distinct
<1>7. Build(list).actions = Keyed(actions) /\ Build(list).hash = Body(actions)
  BY DEF Build, position
<1> HIDE DEF actions
<1> QED BY <1>6, <1>7, KeyedFacts

\* A reduction numbers and keys the new plan like the one before.
LEMMA ReducedKeys ==
    ASSUME RemediationAssumption, KeyInv, NEW a \in plan.actions, NEW text,
           NEW p, p = Replan(a, Chosen(a, text))
    PROVE  /\ p.hash = Body(p.actions)
           /\ Distinct(p.actions)
           /\ \A b \in p.actions : /\ b.key = <<p.hash, b.seq, b.place, b.scope>>
                                   /\ b.seq \in Nat
           /\ \A b \in p.actions :
                 b.seq = a.seq => b.to = Chosen(a, text) /\ b.scope = a.scope
<1> DEFINE to      == Chosen(a, text)
           updated == [a EXCEPT !.to = to, !.verb = VerbTo(to), !.key = None]
           changed(c) == IF c.seq = a.seq THEN updated ELSE c
           actions == {IF c.seq = a.seq THEN updated ELSE c : c \in plan.actions}
<1>1. to \in Targets /\ Severity(to) < Severity(a.scope)
  BY ChosenIsLower DEF KeyInv, NarrowInv
<1> HIDE DEF to
<1>2. /\ Narrowing(updated) /\ updated.seq = a.seq /\ updated.to = to
      /\ updated.scope = a.scope
  BY <1>1 DEF KeyInv, NarrowInv, Narrowing, ActionFields
<1>3. a.seq \in Nat
  BY DEF KeyInv
<1> HIDE DEF updated
<1>4. \A c \in actions : Narrowing(c) /\ c.seq \in Nat
  BY <1>2, <1>3 DEF KeyInv, NarrowInv
<1>5. Distinct(actions)
  BY <1>2 DEF KeyInv, Distinct
<1>6. \A c \in actions : c.seq = a.seq => c = updated
  OBVIOUS
<1>7. p.actions = Keyed(actions) /\ p.hash = Body(actions)
  BY DEF Replan, updated, to
<1> HIDE DEF actions
<1>8. \A b \in Keyed(actions) : \E c \in actions :
         b.seq = c.seq /\ b.to = c.to /\ b.scope = c.scope
  BY <1>4 DEF Keyed, Narrowing, ActionFields
<1>9. \A b \in p.actions : b.seq = a.seq => b.to = to /\ b.scope = a.scope
  BY <1>2, <1>6, <1>7, <1>8
<1> QED BY <1>4, <1>5, <1>7, <1>9, KeyedFacts DEF to

\* Numbers and keys survive every decision.
LEMMA KeyInductive ==
    ASSUME RiskPolicyAssumption, RemediationAssumption
    PROVE  (Init => KeyInv) /\ (KeyInv /\ [Next]_vars => KeyInv')
<1>1. ASSUME Init PROVE KeyInv
  <2>1. NarrowInv /\ listing \in Seq(Entitlements)
    BY <1>1, NarrowInductive DEF NarrowInv, RemediationAssumption
  <2>2. plan = Build(listing) /\ last.seq = None
    BY <1>1 DEF Init, NoReduction
  <2> QED BY <2>1, <2>2, BuiltKeys DEF KeyInv
<1>2. ASSUME KeyInv, [Next]_vars PROVE KeyInv'
  <2>1. NarrowInv' /\ listing' = listing /\ GraphScopes' = GraphScopes
    BY <1>2, NarrowInductive, DecisionFacts DEF KeyInv, GraphScopes
  <2>2. CASE plan' = plan /\ last' = last
    <3>1. /\ plan'.hash = Body(plan.actions) /\ Distinct(plan'.actions)
          /\ \A b \in plan'.actions : /\ b.key = <<plan'.hash, b.seq, b.place, b.scope>>
                                      /\ b.seq \in Nat
      BY <1>2, <2>2 DEF KeyInv
    <3>2. ASSUME last'.seq # None, ~last'.accepted, NEW b \in plan'.actions, b.seq = last'.seq
          PROVE  b.to = NextLowestScope(b.scope, GraphScopes')
      BY <1>2, <2>1, <2>2, <3>2 DEF KeyInv
    <3> QED BY <2>1, <2>2, <3>1, <3>2 DEF KeyInv, Distinct, Body
  <2>3. ASSUME NEW a \in plan.actions, NEW text,
               plan' = Replan(a, Chosen(a, text)), last' = Reduction(a, text)
        PROVE  KeyInv'
    <3>1. /\ plan'.hash = Body(plan'.actions)
          /\ Distinct(plan'.actions)
          /\ \A b \in plan'.actions : /\ b.key = <<plan'.hash, b.seq, b.place, b.scope>>
                                      /\ b.seq \in Nat
          /\ \A b \in plan'.actions :
                b.seq = a.seq => b.to = Chosen(a, text) /\ b.scope = a.scope
      BY <1>2, <2>3, ReducedKeys
    <3>2. last'.seq = a.seq /\ last'.accepted = Accepted(a, text)
      BY <2>3 DEF Reduction
    <3>3. ~Accepted(a, text) => Chosen(a, text) = NextLowestScope(a.scope, GraphScopes)
      BY DEF Chosen
    <3>4. ASSUME ~last'.accepted, NEW b \in plan'.actions, b.seq = last'.seq
          PROVE  b.to = NextLowestScope(b.scope, GraphScopes')
      <4>1. b.to = Chosen(a, text) /\ b.scope = a.scope
        BY <3>1, <3>2, <3>4
      <4>2. Chosen(a, text) = NextLowestScope(a.scope, GraphScopes)
        BY <3>2, <3>3, <3>4
      <4> QED BY <4>1, <4>2, <2>1
    <3> QED BY <2>1, <3>1, <3>4 DEF KeyInv, Distinct, Body
  <2> QED BY <1>2, <2>2, <2>3, DecisionFacts
<1> QED BY <1>1, <1>2

\* The pre-image keys of a plan are always those of its own hash and differ
\* from action to action, after any number of reductions.
THEOREM RemediationKeysAreItsOwn ==
    ASSUME RiskPolicyAssumption, RemediationAssumption
    PROVE  Spec => []KeysAreItsOwn
<1>1. KeyInv => KeysAreItsOwn
  <2> SUFFICES ASSUME KeyInv PROVE KeysAreItsOwn
    OBVIOUS
  <2>1. \A a \in plan.actions : a.key[1] = plan.hash /\ a.key[2] = a.seq
    BY DEF KeyInv
  <2>2. \A a, b \in plan.actions : a.key = b.key => a = b
    BY <2>1 DEF KeyInv, Distinct
  <2> QED BY <2>1, <2>2 DEF KeysAreItsOwn, KeyInv
<1> QED BY <1>1, KeyInductive, PTL DEF Spec

\* A reduction that the rules refused may be asked for again, whatever the
\* model answers and whatever was listed: the plan stays what it was.
THEOREM RemediationRefusedAgainIsHarmless ==
    ASSUME RiskPolicyAssumption, RemediationAssumption
    PROVE  Spec => RefusedAgainIsHarmless
<1> DEFINE Harmless == ( /\ plan'.attempt > plan.attempt /\ last'.seq = last.seq
                         /\ ~last.accepted /\ ~last'.accepted )
                       => plan'.hash = plan.hash
<1>1. ASSUME KeyInv, NEW a \in plan.actions, NEW text,
             plan' = Replan(a, Chosen(a, text)), last' = Reduction(a, text),
             last'.seq = last.seq, ~last.accepted, ~last'.accepted
      PROVE  plan'.hash = plan.hash
  <2> DEFINE to      == Chosen(a, text)
             updated == [a EXCEPT !.to = to, !.verb = VerbTo(to), !.key = None]
             actions == {IF c.seq = a.seq THEN updated ELSE c : c \in plan.actions}
  <2>1. last'.seq = a.seq /\ ~Accepted(a, text) /\ last.seq = a.seq
    BY <1>1 DEF Reduction
  <2>2. a.seq # None
    BY <1>1 DEF KeyInv, RemediationAssumption
  <2>3. to = NextLowestScope(a.scope, GraphScopes)
    BY <2>1 DEF Chosen
  <2>4. a.to = to
    BY <1>1, <2>1, <2>2, <2>3 DEF KeyInv
  <2>5. a.verb = VerbTo(to) /\ DOMAIN a = ActionFields
    BY <1>1, <2>4 DEF KeyInv, NarrowInv, Narrowing
  <2> HIDE DEF to
  <2>6. [updated EXCEPT !.key = None] = [a EXCEPT !.key = None]
    <3>1. DOMAIN updated = DOMAIN a
      OBVIOUS
    <3>2. \A x \in DOMAIN a : x # "key" => updated[x] = a[x]
      BY <2>4, <2>5 DEF ActionFields
    <3> HIDE DEF updated
    <3> QED BY <3>1, <3>2
  <2>7. plan'.hash = Body(actions)
    BY <1>1 DEF Replan, to
  <2>8. \A c \in plan.actions : c.seq = a.seq => c = a
    BY <1>1 DEF KeyInv, Distinct
  <2> HIDE DEF updated
  <2> DEFINE bare(c) == [c EXCEPT !.key = None]
  <2>9. Body(actions) = {bare(c) : c \in actions}
        /\ Body(plan.actions) = {bare(c) : c \in plan.actions}
    BY DEF Body
  <2>10. bare(updated) = bare(a)
    BY <2>6
  <2> HIDE DEF bare
  <2>11. \A c \in actions : \E d \in plan.actions : bare(c) = bare(d)
    BY <2>10
  <2>12. \A d \in plan.actions : \E c \in actions : bare(c) = bare(d)
    <3> TAKE d \in plan.actions
    <3>1. CASE d.seq = a.seq
      <4>1. d = a /\ updated \in actions
        BY <2>8, <3>1
      <4> QED BY <2>10, <4>1
    <3>2. CASE d.seq # a.seq
      <4>1. d \in actions
        BY <3>2
      <4> QED BY <4>1
    <3> QED BY <3>1, <3>2
  <2> HIDE DEF actions
  <2>13. Body(actions) = Body(plan.actions)
    BY <2>9, <2>11, <2>12
  <2> QED BY <1>1, <2>7, <2>13 DEF KeyInv
<1>2. ASSUME KeyInv, [Next]_vars PROVE Harmless
  BY <1>1, <1>2, DecisionFacts
<1> HIDE DEF Harmless
<1>3. Spec => [][Harmless]_vars
  BY <1>2, KeyInductive, PTL DEF Spec
<1> QED BY <1>3, PTL DEF RefusedAgainIsHarmless, Harmless

-----------------------------------------------------------------------------
(* Where actions come from. *)

\* The listed entitlement an action of tier 1 is about may be taken away
\* without an answer.
SafelyAutomatic(list, a) ==
    \E i \in DOMAIN list :
        /\ a.finding = <<list[i].holder, list[i].place, list[i].scope>>
        /\ list[i].reversible /\ list[i].revocable
        /\ SignalsOf[list[i].holder] \intersect {"oncall", "group", "incident_tag"} = {}

SafeInv ==
    /\ NarrowInv
    /\ \A a \in plan.actions : a.tier = 1 => SafelyAutomatic(listing, a)

\* Keys do not matter for where an action comes from.
LEMMA KeyedIsSafe ==
    ASSUME NEW list, NEW actions,
           \A a \in actions : Narrowing(a) /\ (a.tier = 1 => SafelyAutomatic(list, a))
    PROVE  \A a \in Keyed(actions) : a.tier = 1 => SafelyAutomatic(list, a)
<1>1. \A b \in Keyed(actions) : \E a \in actions : b.tier = a.tier /\ b.finding = a.finding
  BY DEF Keyed, Narrowing, ActionFields
<1> QED BY <1>1 DEF SafelyAutomatic

\* The tier policy protects whom the identity record protects.
LEMMA BuiltIsSafe ==
    ASSUME NEW list \in Seq(Entitlements)
    PROVE  \A a \in Build(list).actions : a.tier = 1 => SafelyAutomatic(list, a)
<1> DEFINE position == Position(list)
           actions  == {ActionFor(list[i], position[i]) : i \in DOMAIN position}
<1>1. \A i \in DOMAIN position :
         i \in DOMAIN list /\ list[i] \in Entitlements /\ Actionable(list[i])
  BY DEF Position, Sorted, Planned
<1>2. ASSUME NEW i \in DOMAIN position, NEW seq
      PROVE  /\ Narrowing(ActionFor(list[i], seq))
             /\ ActionFor(list[i], seq).tier = 1 => SafelyAutomatic(list, ActionFor(list[i], seq))
  <2> DEFINE e == list[i]
  <2>1. e \in Entitlements /\ Actionable(e)
    BY <1>1
  <2> HIDE DEF e
  <2>2. Narrowing(ActionFor(e, seq))
    BY <2>1, BuiltNarrows
  <2>3. /\ ActionFor(e, seq).tier = TierOf(e)
        /\ ActionFor(e, seq).finding = <<e.holder, e.place, e.scope>>
    BY DEF ActionFor
  <2>4. TierOf(e) = 1 => e.revocable /\ e.reversible
    BY <2>1 DEF Actionable
  <2>5. TierOf(e) = 1 => Identity(e.holder) = {}
    BY DEF TierOf, SelectTier, BreakGlass
  <2> QED BY <1>1, <2>2, <2>3, <2>4, <2>5 DEF SafelyAutomatic, Identity, e
<1>3. \A a \in actions : Narrowing(a) /\ (a.tier = 1 => SafelyAutomatic(list, a))
  BY <1>2
<1>4. Build(list).actions = Keyed(actions)
  BY DEF Build
<1> HIDE DEF actions
<1> QED BY <1>3, <1>4, KeyedIsSafe

\* No action that proceeds without an answer concerns somebody on call, in a
\* protected group or with an incident tag, nor a right that cannot be given
\* back; no reduction brings one in.
THEOREM RemediationAutomaticIsSafe ==
    ASSUME RemediationAssumption
    PROVE  Spec => []AutomaticIsSafe
<1>1. Init => SafeInv
  <2> SUFFICES ASSUME Init PROVE SafeInv
    OBVIOUS
  <2>1. NarrowInv /\ listing \in Seq(Entitlements)
    BY NarrowInductive DEF NarrowInv, RemediationAssumption
  <2> QED BY <2>1, BuiltIsSafe DEF SafeInv, Init
<1>2. ASSUME SafeInv, [Next]_vars PROVE SafeInv'
  <2>1. NarrowInv' /\ listing' = listing
    BY <1>2, NarrowInductive, DecisionFacts DEF SafeInv
  <2>2. ASSUME NEW a \in plan.actions, NEW text, plan' = Replan(a, Chosen(a, text))
        PROVE  \A b \in plan'.actions : b.tier = 1 => SafelyAutomatic(listing, b)
    <3> DEFINE to      == Chosen(a, text)
               updated == [a EXCEPT !.to = to, !.verb = VerbTo(to), !.key = None]
               actions == {IF c.seq = a.seq THEN updated ELSE c : c \in plan.actions}
    <3>1. to \in Targets /\ Severity(to) < Severity(a.scope)
      BY <1>2, ChosenIsLower DEF SafeInv, NarrowInv
    <3> HIDE DEF to
    <3>2. Narrowing(updated) /\ updated.tier = a.tier /\ updated.finding = a.finding
      BY <1>2, <3>1 DEF SafeInv, NarrowInv, Narrowing, ActionFields
    <3>3. \A c \in actions : Narrowing(c) /\ (c.tier = 1 => SafelyAutomatic(listing, c))
      BY <1>2, <3>2 DEF SafeInv, NarrowInv, SafelyAutomatic
    <3>4. plan'.actions = Keyed(actions)
      BY <2>2 DEF Replan, to
    <3> HIDE DEF actions
    <3> QED BY <3>3, <3>4, KeyedIsSafe
  <2>3. \A b \in plan'.actions : b.tier = 1 => SafelyAutomatic(listing, b)
    BY <1>2, <2>2, DecisionFacts DEF SafeInv
  <2> QED BY <2>1, <2>3 DEF SafeInv, SafelyAutomatic
<1>3. SafeInv => AutomaticIsSafe
  BY DEF SafeInv, SafelyAutomatic, AutomaticIsSafe
<1> QED BY <1>1, <1>2, <1>3, PTL DEF Spec

-----------------------------------------------------------------------------
(* Types. *)

AuditInv ==
    /\ \E S : audit \in Seq(S)
    /\ plan.attempt \in 0..Len(audit)
    /\ last.accepted \in BOOLEAN

\* A replanning counts one attempt, for which the trail has one record more.
LEMMA AttemptFacts ==
    ASSUME AuditInv, NEW action \in plan.actions,
           Reduce(action) \/ Keep(action) \/ Approve(action) \/ Defer(action)
    PROVE  AuditInv'
<1>1. PICK S : audit \in Seq(S)
  BY DEF AuditInv
<1>2. PICK r : audit' = Append(audit, r)
  BY DEF Reduce, Keep, Approve, Defer
<1>3. audit \in Seq(S \union {r})
  BY <1>1
<1>4. (\E T : audit' \in Seq(T)) /\ Len(audit') = Len(audit) + 1 /\ Len(audit) \in Nat
  BY <1>2, <1>3
<1>5. \/ plan' = plan /\ last' = last
      \/ \E text : plan'.attempt = plan.attempt + 1 /\ last' = Reduction(action, text)
  <2>1. CASE Reduce(action)
    <3>1. PICK text : /\ plan' = Replan(action, Chosen(action, text))
                      /\ last' = Reduction(action, text)
      BY <2>1, Zenon DEF Reduce
    <3>2. plan'.attempt = plan.attempt + 1
      BY <3>1 DEF Replan
    <3> QED BY <3>1, <3>2
  <2>2. CASE Keep(action) \/ Approve(action) \/ Defer(action)
    BY <2>2 DEF Keep, Approve, Defer
  <2> QED BY <2>1, <2>2
<1>6. plan'.attempt \in 0..Len(audit')
  BY <1>4, <1>5 DEF AuditInv
<1>7. last'.accepted \in BOOLEAN
  <2>1. \A text : Reduction(action, text).accepted \in BOOLEAN
    <3> TAKE text
    <3>1. Accepted(action, text) \in BOOLEAN
      BY Zenon DEF Accepted
    <3>2. Reduction(action, text).accepted = Accepted(action, text)
      BY DEF Reduction
    <3> QED BY <3>1, <3>2, Zenon
  <2>2. ASSUME NEW text, last' = Reduction(action, text) PROVE last'.accepted \in BOOLEAN
    BY <2>1, <2>2, Zenon
  <2>3. CASE last' = last
    BY <2>3, Zenon DEF AuditInv
  <2> QED BY <1>5, <2>2, <2>3, Zenon
<1> QED BY <1>4, <1>6, <1>7 DEF AuditInv

\* A plan starts with no attempt and an empty trail.
LEMMA AuditStarts == Init => AuditInv
<1> SUFFICES ASSUME Init PROVE AuditInv
  OBVIOUS
<1>1. audit \in Seq({}) /\ Len(audit) = 0
  BY DEF Init
<1>2. plan.attempt = 0 /\ last.accepted \in BOOLEAN
  BY DEF Init, Build, NoReduction
<1>3. (\E S : audit \in Seq(S)) /\ plan.attempt \in 0..Len(audit)
  BY <1>1, <1>2
<1> QED BY <1>2, <1>3 DEF AuditInv

\* The attempts stay within the trail.
LEMMA AuditContinues == AuditInv /\ [Next]_vars => AuditInv'
<1>1. ASSUME AuditInv, Next PROVE AuditInv'
  BY <1>1, AttemptFacts DEF Next
<1>2. ASSUME AuditInv, UNCHANGED vars PROVE AuditInv'
  BY <1>2 DEF AuditInv, vars
<1> QED BY <1>1, <1>2

\* Types, and as many replannings as decisions at most.
THEOREM RemediationTypeOK ==
    ASSUME RemediationAssumption
    PROVE  Spec => []TypeOK
<1>1. NarrowInv /\ AuditInv => TypeOK
  BY DEF NarrowInv, Narrowing, AuditInv, TypeOK, Targets
<1> QED BY <1>1, AuditStarts, AuditContinues, NarrowInductive, PTL DEF Spec

-----------------------------------------------------------------------------
(* The order of a listing. *)

\* Elements in the order of their keys, in whatever order those with equal keys
\* are: below gives the elements before each.
InOrder(I, key, below) ==
    /\ IsFiniteSet(I)
    /\ key \in [I -> Quadruples]
    /\ below \in [I -> SUBSET I]
    /\ \A i, j \in I : Lexicographic(key[j], key[i]) => j \in below[i]
    /\ \A i, j \in I : j \in below[i] => i # j /\ ~Lexicographic(key[i], key[j])
    /\ \A i, j \in I : Cardinality(below[i]) = Cardinality(below[j]) => i = j

\* The numbers of n elements in order are all those below n.
LEMMA EveryNumber ==
    ASSUME NEW I, NEW key, NEW below, InOrder(I, key, below),
           NEW k \in Nat, k < Cardinality(I)
    PROVE  \E i \in I : Cardinality(below[i]) = k
<1> DEFINE n == Cardinality(I)
           f == [i \in I |-> Cardinality(below[i])]
<1>1. IsFiniteSet(I) /\ n \in Nat
  BY FS_CardinalityType DEF InOrder
<1>2. \A i \in I : Cardinality(below[i]) \in 0..(n - 1)
  <2> SUFFICES ASSUME NEW i \in I PROVE Cardinality(below[i]) \in 0..(n - 1)
    OBVIOUS
  <2>1. below[i] \in SUBSET I /\ i \notin below[i]
    BY DEF InOrder
  <2>2. /\ IsFiniteSet(below[i]) /\ Cardinality(below[i]) <= n
        /\ n = Cardinality(below[i]) => I = below[i]
    BY <1>1, <2>1, FS_Subset
  <2>3. Cardinality(below[i]) \in Nat
    BY <2>2, FS_CardinalityType
  <2> QED BY <1>1, <2>1, <2>2, <2>3
<1>3. f \in Injection(I, 0..(n - 1))
  <2>1. f \in [I -> 0..(n - 1)]
    BY <1>2
  <2>2. \A i, j \in I : f[i] = f[j] => i = j
    BY DEF InOrder
  <2> HIDE DEF f
  <2> QED BY <2>1, <2>2 DEF Injection, IsInjective
<1>4. IsFiniteSet(0..(n - 1)) /\ Cardinality(0..(n - 1)) = n
  <2> HIDE DEF n
  <2>1. 0 \in Int /\ n - 1 \in Int
    BY <1>1
  <2>2. /\ IsFiniteSet(0..(n - 1))
        /\ Cardinality(0..(n - 1)) = IF 0 > n - 1 THEN 0 ELSE (n - 1) - 0 + 1
    BY <2>1, FS_Interval
  <2> QED BY <1>1, <2>2
<1>5. f \in Surjection(I, 0..(n - 1))
  <2> HIDE DEF f, n
  <2> QED BY <1>3, <1>4, FS_Injection DEF n
<1>6. k \in 0..(n - 1)
  BY <1>1
<1>7. PICK i \in I : f[i] = k
  <2> HIDE DEF f, n
  <2> QED BY <1>5, <1>6 DEF Surjection
<1> QED BY <1>7

\* Two sets that are the same up to their names: p renames the elements of the
\* one to those of the other and keeps their keys.
Renames(p, I, key, J, other) ==
    /\ p \in [I -> J]
    /\ \A i, j \in I : p[i] = p[j] => i = j
    /\ \A j \in J : \E i \in I : p[i] = j
    /\ \A i \in I : key[i] = other[p[i]]

\* They have as many elements with a key in a set of keys.
LEMMA AsMany ==
    ASSUME NEW I, NEW key, NEW J, NEW other, NEW p, Renames(p, I, key, J, other),
           IsFiniteSet(I), NEW keys
    PROVE  Cardinality({i \in I : key[i] \in keys}) = Cardinality({j \in J : other[j] \in keys})
<1> DEFINE A == {i \in I : key[i] \in keys}
           B == {j \in J : other[j] \in keys}
           f == [i \in A |-> p[i]]
<1>1. f \in [A -> B]
  BY DEF Renames
<1>2. \A i, j \in A : f[i] = f[j] => i = j
  BY DEF Renames
<1>3. \A j \in B : \E i \in A : f[i] = j
  BY DEF Renames
<1>4. IsFiniteSet(A)
  BY FS_Subset
<1> HIDE DEF A, B, f
<1>5. f \in Bijection(A, B)
  BY <1>1, <1>2, <1>3 DEF Bijection, Injection, Surjection, IsInjective
<1>6. Cardinality(B) = Cardinality(A)
  BY <1>4, <1>5, FS_Bijection DEF ExistsBijection
<1> QED BY <1>6 DEF A, B

\* If both are in order, the elements with one number have one key.
LEMMA SameNumberSameKey ==
    ASSUME NEW I, NEW key, NEW below, InOrder(I, key, below),
           NEW J, NEW other, NEW under, InOrder(J, other, under),
           NEW p, Renames(p, I, key, J, other),
           NEW i \in I, NEW j \in J, Cardinality(below[i]) = Cardinality(under[j])
    PROVE  key[i] = other[j]
<1>1. /\ IsFiniteSet(I) /\ IsFiniteSet(J)
      /\ key[i] \in Quadruples /\ other[j] \in Quadruples
      /\ \A k \in I : key[k] \in Quadruples
      /\ \A k \in J : other[k] \in Quadruples
  BY DEF InOrder
<1>2. /\ below[i] \in SUBSET I /\ i \notin below[i]
      /\ under[j] \in SUBSET J /\ j \notin under[j]
  BY DEF InOrder
<1>3. /\ IsFiniteSet(below[i]) /\ Cardinality(below[i]) \in Nat
      /\ IsFiniteSet(under[j]) /\ Cardinality(under[j]) \in Nat
  BY <1>1, <1>2, FS_Subset, FS_CardinalityType
<1> DEFINE UpTo(q) == {k \in Quadruples : k = q \/ Lexicographic(k, q)}
<1>4. ASSUME Lexicographic(key[i], other[j]) PROVE FALSE
  <2> DEFINE A == {k \in I : key[k] \in UpTo(key[i])}
             B == {k \in J : other[k] \in UpTo(key[i])}
  <2>1. Cardinality(A) = Cardinality(B)
    <3> DEFINE keys == UpTo(key[i])
    <3> HIDE DEF keys, UpTo
    <3>1. Cardinality({k \in I : key[k] \in keys}) = Cardinality({k \in J : other[k] \in keys})
      BY <1>1, AsMany
    <3> QED BY <3>1 DEF keys
  <2>2. below[i] \union {i} \subseteq A
    <3>1. \A k \in below[i] : k \in I /\ ~Lexicographic(key[i], key[k])
      BY DEF InOrder
    <3> QED BY <1>1, <3>1, KeysOrdered DEF Ordered
  <2>3. B \subseteq under[j]
    <3>1. \A k \in J : other[k] \in UpTo(key[i]) => Lexicographic(other[k], other[j])
      BY <1>1, <1>4, KeysOrdered DEF Ordered
    <3> QED BY <3>1 DEF InOrder
  <2> HIDE DEF A, B
  <2>4. IsFiniteSet(B) /\ Cardinality(B) <= Cardinality(under[j])
    BY <1>3, <2>3, FS_Subset
  <2>5. IsFiniteSet(A)
    BY <1>1, FS_Subset DEF A
  <2>6. Cardinality(below[i] \union {i}) = Cardinality(below[i]) + 1
    BY <1>2, <1>3, FS_AddElement
  <2>7. Cardinality(below[i] \union {i}) <= Cardinality(A)
    BY <2>2, <2>5, FS_Subset
  <2> QED BY <1>3, <2>1, <2>4, <2>5, <2>6, <2>7, FS_CardinalityType
<1>5. ASSUME Lexicographic(other[j], key[i]) PROVE FALSE
  <2> DEFINE A == {k \in I : key[k] \in UpTo(other[j])}
             B == {k \in J : other[k] \in UpTo(other[j])}
  <2>1. Cardinality(A) = Cardinality(B)
    <3> DEFINE keys == UpTo(other[j])
    <3> HIDE DEF keys, UpTo
    <3>1. Cardinality({k \in I : key[k] \in keys}) = Cardinality({k \in J : other[k] \in keys})
      BY <1>1, AsMany
    <3> QED BY <3>1 DEF keys
  <2>2. under[j] \union {j} \subseteq B
    <3>1. \A k \in under[j] : k \in J /\ ~Lexicographic(other[j], other[k])
      BY DEF InOrder
    <3> QED BY <1>1, <3>1, KeysOrdered DEF Ordered
  <2>3. A \subseteq below[i]
    <3>1. \A k \in I : key[k] \in UpTo(other[j]) => Lexicographic(key[k], key[i])
      BY <1>1, <1>5, KeysOrdered DEF Ordered
    <3> QED BY <3>1 DEF InOrder
  <2> HIDE DEF A, B
  <2>4. IsFiniteSet(A) /\ Cardinality(A) <= Cardinality(below[i])
    BY <1>3, <2>3, FS_Subset
  <2>5. IsFiniteSet(B)
    BY <1>1, FS_Subset DEF B
  <2>6. Cardinality(under[j] \union {j}) = Cardinality(under[j]) + 1
    BY <1>2, <1>3, FS_AddElement
  <2>7. Cardinality(under[j] \union {j}) <= Cardinality(B)
    BY <2>2, <2>5, FS_Subset
  <2> QED BY <1>3, <2>1, <2>4, <2>5, <2>6, <2>7, FS_CardinalityType
<1> QED BY <1>1, <1>4, <1>5, KeysOrdered DEF Ordered

\* What the actions of a plan are sorted by in the end: the right, the holder
\* and, among findings about one holder's right, the score.
FullKey(list) ==
    [i \in Planned(list) |->
        <<list[i].place, NameOrder[list[i].scope], HashOrder[list[i].holder],
          -ScoreOf(list[i])>>]

\* The elements that stand before each action.
Earlier(list) ==
    [i \in Planned(list) |-> Preceding(Planned(list), PlanKey(list), Detected(list), i)]

\* A finding with the higher score is detected first.
LEMMA HigherFirst ==
    ASSUME RiskPolicyAssumption, RemediationAssumption, NEW list \in Seq(Entitlements),
           NEW i \in DOMAIN list, NEW j \in DOMAIN list,
           -ScoreOf(list[j]) < -ScoreOf(list[i])
    PROVE  Detected(list)[j] < Detected(list)[i]
<1> DEFINE I      == DOMAIN list
           before == [k \in I |-> k]
           key    == DetectionKey(list)
           Below(k) == Preceding(I, key, before, k)
<1>1. I = 1..Len(list) /\ Len(list) \in Nat /\ \A k \in I : list[k] \in Entitlements
  OBVIOUS
<1>2. IsFiniteSet(I) /\ \A k \in I : before[k] \in Int
  BY <1>1, FS_Interval
<1>3. \A k \in I : key[k] \in Quadruples /\ key[k][1] = -ScoreOf(list[k])
  BY <1>1, KeyTypes DEF DetectionKey, Quadruples
<1>4. \A k \in I : Detected(list)[k] = Cardinality(Below(k))
  BY DEF Detected, Sorted
<1> HIDE DEF I, before, key
<1>5. Lexicographic(key[j], key[i])
  BY <1>3, LexicographicQuadruple DEF I
<1>6. \A k \in Below(j) : k \in I /\ (Lexicographic(key[k], key[j]) \/ key[k] = key[j])
  BY DEF Preceding
<1>7. Below(j) \subseteq Below(i)
  <2>1. \A k \in Below(j) : Lexicographic(key[k], key[i])
    BY <1>3, <1>5, <1>6, KeysOrdered DEF Ordered, I
  <2> QED BY <1>6, <2>1 DEF Preceding
<1>8. j \in Below(i)
  BY <1>5 DEF Preceding, I
<1>9. j \notin Below(j)
  BY <1>2, <1>3, KeysOrdered DEF Preceding, Ordered, I
<1>10. IsFiniteSet(Below(i))
  BY <1>2, FS_Subset DEF Preceding
<1> HIDE DEF Below
<1>11. /\ Cardinality(Below(j)) <= Cardinality(Below(i))
       /\ Cardinality(Below(j)) # Cardinality(Below(i))
  BY <1>7, <1>8, <1>9, <1>10, FS_Subset
<1>12. Cardinality(Below(i)) \in Nat /\ Cardinality(Below(j)) \in Nat
  BY <1>7, <1>10, FS_Subset, FS_CardinalityType
<1> QED BY <1>4, <1>11, <1>12 DEF I

\* A triple is its components.
LEMMA TriplesEqual ==
    ASSUME NEW a \in Triples, NEW b \in Triples, a[1] = b[1], a[2] = b[2], a[3] = b[3]
    PROVE  a = b
BY DEF Triples

\* The actions of a plan are in the order of their full keys.
LEMMA PlanInOrder ==
    ASSUME RiskPolicyAssumption, RemediationAssumption, NEW list \in Seq(Entitlements)
    PROVE  /\ InOrder(Planned(list), FullKey(list), Earlier(list))
           /\ \A i \in Planned(list) : Position(list)[i] = Cardinality(Earlier(list)[i])
<1> DEFINE I    == Planned(list)
           full == FullKey(list)
           key  == PlanKey(list)
           seen == Detected(list)
<1>1. IsFiniteSet(I) /\ \A i \in I : i \in DOMAIN list /\ list[i] \in Entitlements
  <2>1. DOMAIN list = 1..Len(list) /\ Len(list) \in Nat
    OBVIOUS
  <2>2. IsFiniteSet(1..Len(list))
    BY <2>1, FS_Interval
  <2>3. I \subseteq DOMAIN list
    BY DEF Planned
  <2> QED BY <2>1, <2>2, <2>3, FS_Subset
<1>2. \A i \in I : full[i] \in Quadruples /\ key[i] \in Triples
  BY <1>1, KeyTypes DEF FullKey, PlanKey, Quadruples, Triples
<1>3. \A i \in I : /\ full[i][1] = key[i][1] /\ full[i][2] = key[i][2]
                   /\ full[i][3] = key[i][3] /\ full[i][4] = -ScoreOf(list[i])
  BY DEF FullKey, PlanKey
<1>4. \A i \in I : seen[i] \in Nat
  BY <1>1, DetectedDiffer
<1>5. Position(list) \in [I -> Nat] /\ Injective(Position(list))
  BY PositionsDiffer
<1>6. \A i \in I : /\ Position(list)[i] = Cardinality(Earlier(list)[i])
                   /\ Earlier(list)[i] = Preceding(I, key, seen, i)
  BY DEF Position, Sorted, Earlier
<1>7. \A i, j \in I : full[j][4] < full[i][4] => seen[j] < seen[i]
  BY <1>1, <1>3, HigherFirst
<1>8. full \in [I -> Quadruples]
  BY <1>2 DEF FullKey
<1>9. Earlier(list) \in [I -> SUBSET I]
  BY DEF Earlier, Preceding
<1>10. \A i, j \in I :
          /\ j \in Earlier(list)[i] <=>
                \/ Lexicographic(key[j], key[i])
                \/ key[j] = key[i] /\ seen[j] < seen[i]
  BY <1>6 DEF Preceding
<1> HIDE DEF I, full, key, seen
<1>11. \A i, j \in I : (full[i][1] = full[j][1] /\ full[i][2] = full[j][2] /\
                        full[i][3] = full[j][3]) => key[i] = key[j]
  <2> SUFFICES ASSUME NEW i \in I, NEW j \in I, full[i][1] = full[j][1],
                      full[i][2] = full[j][2], full[i][3] = full[j][3]
               PROVE  key[i] = key[j]
    OBVIOUS
  <2>1. /\ key[i] \in Triples /\ key[j] \in Triples
        /\ key[i][1] = key[j][1] /\ key[i][2] = key[j][2] /\ key[i][3] = key[j][3]
    BY <1>2, <1>3
  <2> QED BY <2>1, TriplesEqual
<1>12. \A i, j \in I : Lexicographic(full[j], full[i]) => j \in Earlier(list)[i]
  <2> SUFFICES ASSUME NEW i \in I, NEW j \in I, Lexicographic(full[j], full[i])
               PROVE  j \in Earlier(list)[i]
    OBVIOUS
  <2>1. \/ Lexicographic(key[j], key[i])
        \/ key[j] = key[i] /\ full[j][4] < full[i][4]
    <3>1. \/ full[j][1] < full[i][1]
          \/ full[j][1] = full[i][1] /\ full[j][2] < full[i][2]
          \/ /\ full[j][1] = full[i][1] /\ full[j][2] = full[i][2]
             /\ full[j][3] < full[i][3]
          \/ /\ full[j][1] = full[i][1] /\ full[j][2] = full[i][2]
             /\ full[j][3] = full[i][3] /\ full[j][4] < full[i][4]
      <4> DEFINE a == full[j]
                 b == full[i]
      <4>1. a \in Quadruples /\ b \in Quadruples /\ Lexicographic(a, b)
        BY <1>2
      <4> HIDE DEF a, b
      <4>2. \/ a[1] < b[1]
            \/ a[1] = b[1] /\ a[2] < b[2]
            \/ a[1] = b[1] /\ a[2] = b[2] /\ a[3] < b[3]
            \/ a[1] = b[1] /\ a[2] = b[2] /\ a[3] = b[3] /\ a[4] < b[4]
        BY <4>1, LexicographicQuadruple
      <4> QED BY <4>2 DEF a, b
    <3>2. Lexicographic(key[j], key[i]) <=>
             \/ key[j][1] < key[i][1]
             \/ key[j][1] = key[i][1] /\ key[j][2] < key[i][2]
             \/ /\ key[j][1] = key[i][1] /\ key[j][2] = key[i][2]
                /\ key[j][3] < key[i][3]
      BY <1>2, LexicographicTriple
    <3> QED BY <1>3, <1>11, <3>1, <3>2
  <2> QED BY <1>7, <1>10, <2>1
<1>13. \A i, j \in I : j \in Earlier(list)[i] => i # j /\ ~Lexicographic(full[i], full[j])
  <2> SUFFICES ASSUME NEW i \in I, NEW j \in I, j \in Earlier(list)[i]
               PROVE  i # j /\ ~Lexicographic(full[i], full[j])
    OBVIOUS
  <2>1. i # j
    <3>1. ~Lexicographic(key[i], key[i])
      BY <1>2, KeysOrdered DEF Ordered
    <3>2. ~(seen[i] < seen[i])
      BY <1>4
    <3> QED BY <1>10, <3>1, <3>2
  <2>2. ASSUME Lexicographic(full[i], full[j]) PROVE FALSE
    <3>1. i \in Earlier(list)[j]
      BY <1>12, <2>2
    <3>2. \/ Lexicographic(key[i], key[j])
          \/ key[i] = key[j] /\ seen[i] < seen[j]
      BY <1>10, <3>1
    <3>3. \/ Lexicographic(key[j], key[i])
          \/ key[j] = key[i] /\ seen[j] < seen[i]
      BY <1>10
    <3> QED BY <1>2, <1>4, <3>2, <3>3, KeysOrdered DEF Ordered
  <2> QED BY <2>1, <2>2
<1>14. \A i, j \in I :
          Cardinality(Earlier(list)[i]) = Cardinality(Earlier(list)[j]) => i = j
  BY <1>5, <1>6 DEF Injective
<1> QED BY <1>1, <1>6, <1>8, <1>9, <1>12, <1>13, <1>14 DEF InOrder, I, full

\* The order of the scopes tells them apart.
LEMMA NamesDiffer == \A s, t \in Scopes : NameOrder[s] = NameOrder[t] => s = t
BY DEF Scopes, NameOrder

\* Findings with one full key become the same action.
LEMMA SameKeySameAction ==
    ASSUME RiskPolicyAssumption, RemediationAssumption,
           NEW e \in Entitlements, NEW f \in Entitlements, Actionable(e), Actionable(f),
           e.place = f.place, NameOrder[e.scope] = NameOrder[f.scope],
           HashOrder[e.holder] = HashOrder[f.holder], -ScoreOf(e) = -ScoreOf(f), NEW k
    PROVE  ActionFor(e, k) = ActionFor(f, k)
<1>1. e.scope \in Scopes /\ f.scope \in Scopes /\ e.holder \in Holders /\ f.holder \in Holders
  BY DEF Entitlements
<1>2. e.scope = f.scope /\ e.holder = f.holder
  BY <1>1, NamesDiffer DEF RemediationAssumption
<1>3. ScoreOf(e) = ScoreOf(f)
  BY ScoreIsNumber
<1>4. TierOf(e) = TierOf(f)
  BY <1>2, <1>3 DEF TierOf, Actionable
<1>5. TargetScope(e) = TargetScope(f)
  BY <1>2, <1>4 DEF TargetScope
<1> QED BY <1>2, <1>3, <1>4, <1>5 DEF ActionFor

\* A reordering reaches every row of the other listing.
Permutes(p, l, m) ==
    /\ p \in [DOMAIN l -> DOMAIN m]
    /\ \A i, j \in DOMAIN l : p[i] = p[j] => i = j
    /\ \A j \in DOMAIN m : \E i \in DOMAIN l : p[i] = j
    /\ \A i \in DOMAIN l : l[i] = m[p[i]]

\* A reordering can be undone.
LEMMA SameUpToSymmetric ==
    ASSUME NEW l \in Seq(Entitlements), NEW m \in Seq(Entitlements), SameUpTo(l, m)
    PROVE  SameUpTo(m, l) /\ \E p : Permutes(p, l, m)
<1> DEFINE I == DOMAIN l
<1>1. PICK p \in [I -> DOMAIN m] :
        /\ Len(l) = Len(m)
        /\ \A i, j \in I : p[i] = p[j] => i = j
        /\ \A i \in I : l[i] = m[p[i]]
  BY DEF SameUpTo
<1>2. DOMAIN m = I /\ I = 1..Len(l) /\ Len(l) \in Nat
  BY <1>1
<1>3. IsFiniteSet(I)
  BY <1>2, FS_Interval
<1> HIDE DEF I
<1>4. p \in Injection(I, I)
  BY <1>1, <1>2 DEF Injection, IsInjective
<1>5. p \in Surjection(I, I)
  BY <1>3, <1>4, FS_Injection
<1>6. \A j \in I : \E i \in I : p[i] = j
  BY <1>5 DEF Surjection
<1> DEFINE q == [j \in I |-> CHOOSE i \in I : p[i] = j]
<1>7. \A j \in I : q[j] \in I /\ p[q[j]] = j
  BY <1>6
<1>8. q \in [I -> I]
  BY <1>7
<1> HIDE DEF q
<1>9. \A i, j \in I : q[i] = q[j] => i = j
  BY <1>7, Zenon
<1>10. \A j \in I : m[j] = l[q[j]]
  BY <1>1, <1>7
<1>11. SameUpTo(m, l)
  BY <1>1, <1>2, <1>8, <1>9, <1>10 DEF SameUpTo, I
<1>12. Permutes(p, l, m)
  BY <1>1, <1>2, <1>6 DEF Permutes, I
<1> QED BY <1>11, <1>12

\* What a plan says of one of two listings, that of the other says as well.
LEMMA SamePlan ==
    ASSUME RiskPolicyAssumption, RemediationAssumption,
           NEW l \in Seq(Entitlements), NEW m \in Seq(Entitlements), SameUpTo(l, m),
           NEW i \in Planned(l)
    PROVE  \E j \in Planned(m) :
              ActionFor(l[i], Position(l)[i]) = ActionFor(m[j], Position(m)[j])
<1> DEFINE I == Planned(l)
           J == Planned(m)
<1>1. PICK r : Permutes(r, l, m)
  BY SameUpToSymmetric
<1> DEFINE p == [h \in I |-> r[h]]
<1>2. Renames(p, I, FullKey(l), J, FullKey(m))
  <2>1. \A h \in DOMAIN l : h \in I <=> r[h] \in J
    <3> SUFFICES ASSUME NEW h \in DOMAIN l PROVE h \in I <=> r[h] \in J
      OBVIOUS
    <3>1. r[h] \in DOMAIN m
      BY <1>1 DEF Permutes
    <3>2. l[h] = m[r[h]]
      BY <1>1 DEF Permutes
    <3> QED BY <3>1, <3>2 DEF Planned
  <2>2. I \subseteq DOMAIN l /\ J \subseteq DOMAIN m
    BY DEF Planned
  <2>3. \A h \in I : FullKey(l)[h] = FullKey(m)[r[h]]
    BY <1>1, <2>1, <2>2 DEF FullKey, Permutes
  <2>4. p \in [I -> J] /\ \A h, k \in I : p[h] = p[k] => h = k
    BY <1>1, <2>1, <2>2 DEF Permutes
  <2>5. \A k \in J : \E h \in I : p[h] = k
    BY <1>1, <2>1, <2>2 DEF Permutes
  <2> QED BY <2>3, <2>4, <2>5 DEF Renames
<1> HIDE DEF p
<1>3. InOrder(I, FullKey(l), Earlier(l)) /\ InOrder(J, FullKey(m), Earlier(m))
  BY PlanInOrder
<1>4. /\ Position(l)[i] = Cardinality(Earlier(l)[i])
      /\ \A j \in J : Position(m)[j] = Cardinality(Earlier(m)[j])
  BY PlanInOrder
<1>5. Cardinality(J) = Cardinality(I) /\ IsFiniteSet(I)
  <2>1. IsFiniteSet(I)
    BY <1>3 DEF InOrder
  <2> HIDE DEF I, J
  <2>2. p \in Bijection(I, J)
    BY <1>2 DEF Renames, Bijection, Injection, Surjection, IsInjective
  <2> QED BY <2>1, <2>2, FS_Bijection DEF ExistsBijection
<1>6. Position(l)[i] \in Nat /\ Position(l)[i] < Cardinality(J)
  <2>1. Earlier(l)[i] \in SUBSET I /\ i \notin Earlier(l)[i]
    BY <1>3 DEF InOrder
  <2>2. /\ IsFiniteSet(Earlier(l)[i])
        /\ Cardinality(Earlier(l)[i]) <= Cardinality(I)
        /\ Cardinality(I) = Cardinality(Earlier(l)[i]) => I = Earlier(l)[i]
    BY <1>5, <2>1, FS_Subset
  <2>3. Cardinality(Earlier(l)[i]) \in Nat /\ Cardinality(I) \in Nat
    BY <1>5, <2>2, FS_CardinalityType
  <2> QED BY <1>4, <1>5, <2>1, <2>2, <2>3
<1>7. PICK j \in J : Cardinality(Earlier(m)[j]) = Position(l)[i]
  BY <1>3, <1>6, EveryNumber
<1>8. FullKey(l)[i] = FullKey(m)[j]
  BY <1>2, <1>3, <1>4, <1>7, SameNumberSameKey
<1>9. /\ l[i] \in Entitlements /\ Actionable(l[i])
      /\ m[j] \in Entitlements /\ Actionable(m[j])
  BY DEF Planned
<1>10. /\ l[i].place = m[j].place /\ NameOrder[l[i].scope] = NameOrder[m[j].scope]
       /\ HashOrder[l[i].holder] = HashOrder[m[j].holder]
       /\ -ScoreOf(l[i]) = -ScoreOf(m[j])
  BY <1>8 DEF FullKey
<1>11. ActionFor(l[i], Position(l)[i]) = ActionFor(m[j], Position(l)[i])
  <2> DEFINE e == l[i]
             f == m[j]
             n == Position(l)[i]
  <2>1. /\ e \in Entitlements /\ Actionable(e) /\ f \in Entitlements /\ Actionable(f)
        /\ e.place = f.place /\ NameOrder[e.scope] = NameOrder[f.scope]
        /\ HashOrder[e.holder] = HashOrder[f.holder] /\ -ScoreOf(e) = -ScoreOf(f)
    BY <1>9, <1>10
  <2> HIDE DEF e, f, n
  <2>2. ActionFor(e, n) = ActionFor(f, n)
    BY <2>1, SameKeySameAction
  <2> QED BY <2>2 DEF e, f, n
<1> QED BY <1>4, <1>7, <1>11

\* All actions that are planned for one listing are planned for the other.
Covers(m, l) ==
    \A i \in Planned(l) : \E j \in Planned(m) :
        ActionFor(l[i], Position(l)[i]) = ActionFor(m[j], Position(m)[j])

OneHash(l, m) == Build(l).hash = Build(m).hash

\* Plans that cover each other have one hash.
LEMMA SameBody ==
    ASSUME NEW l, NEW m, Covers(m, l), Covers(l, m)
    PROVE  OneHash(l, m)
<1> DEFINE A == {ActionFor(l[i], Position(l)[i]) : i \in Planned(l)}
           B == {ActionFor(m[j], Position(m)[j]) : j \in Planned(m)}
<1>1. Build(l).hash = Body(A) /\ Build(m).hash = Body(B)
  BY DEF Build, Position, Sorted
<1>2. \A a \in A : a \in B
  BY DEF Covers
<1>3. \A b \in B : b \in A
  BY DEF Covers
<1> HIDE DEF A, B
<1>4. A = B
  BY <1>2, <1>3
<1> QED BY <1>1, <1>4 DEF OneHash

\* The hash of a plan does not depend on the order of the listing.
LEMMA SameHash ==
    ASSUME RiskPolicyAssumption, RemediationAssumption,
           NEW l \in Seq(Entitlements), NEW m \in Seq(Entitlements), SameUpTo(l, m)
    PROVE  OneHash(l, m)
<1>1. SameUpTo(m, l)
  BY SameUpToSymmetric
<1>2. Covers(m, l)
  BY SamePlan DEF Covers
<1>3. Covers(l, m)
  BY <1>1, SamePlan DEF Covers
<1> QED BY <1>2, <1>3, SameBody

\* The same entitlements in another order, repeated rows included, give a plan
\* with the same hash, for every directory, set of weights and pool of listings.
THEOREM RemediationOrderDoesNotMatter ==
    ASSUME RiskPolicyAssumption, RemediationAssumption
    PROVE  Spec => []OrderDoesNotMatter
<1> DEFINE Fresh == listing \in Listings /\ (audit = <<>> => plan = Build(listing))
<1>1. Init => AuditInv /\ Fresh
  BY AuditStarts DEF Init
<1>2. AuditInv /\ Fresh /\ [Next]_vars => AuditInv' /\ Fresh'
  <2> SUFFICES ASSUME AuditInv, Fresh, [Next]_vars PROVE AuditInv' /\ Fresh'
    OBVIOUS
  <2>1. AuditInv'
    BY AuditContinues
  <2>2. CASE UNCHANGED vars
    BY <2>1, <2>2 DEF vars
  <2>3. CASE Next
    <3>1. PICK r : audit' = Append(audit, r)
      BY <2>3 DEF Next, Reduce, Keep, Approve, Defer
    <3>2. PICK S : audit \in Seq(S)
      BY DEF AuditInv
    <3>3. audit \in Seq(S \union {r})
      BY <3>2
    <3>4. Len(audit') = Len(audit) + 1 /\ Len(audit) \in Nat
      BY <3>1, <3>3
    <3>5. audit' # <<>>
      BY <3>4
    <3> QED BY <2>1, <3>5, DecisionFacts
  <2> QED BY <2>2, <2>3
<1>3. Fresh => OrderDoesNotMatter
  <2> SUFFICES ASSUME Fresh, audit = <<>>, NEW other \in Listings, SameUpTo(listing, other)
               PROVE  Build(other).hash = plan.hash
    BY DEF OrderDoesNotMatter
  <2>1. listing \in Seq(Entitlements) /\ other \in Seq(Entitlements)
    BY DEF RemediationAssumption
  <2>2. OneHash(listing, other)
    BY <2>1, SameHash
  <2> QED BY <2>2 DEF OneHash
<1> QED BY <1>1, <1>2, <1>3, PTL DEF Spec
=============================================================================
