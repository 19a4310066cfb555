---------------------------- MODULE Remediation ----------------------------
(***************************************************************************)
(* From a listing of entitlements to a plan, and what approvers and the    *)
(* model may make of the plan: deadbolt.engine.drift.detect,               *)
(* deadbolt.plan.builder and deadbolt.broker.negotiate.                    *)
(*                                                                         *)
(* The actions of a plan are a set of records that carry their position    *)
(* (seq).  The hash of a plan is the value it is computed from: the set of *)
(* its actions without their pre-image keys.  The language model is        *)
(* outside: it answers anything, or fails.                                 *)
(***************************************************************************)
EXTENDS RiskPolicy, FiniteSets, Sequences

CONSTANTS
    Listings,     \* what the providers may list: sequences of entitlements
    HolderOrder,  \* the UTF-8 order of the holders
    HashOrder,    \* the order of the finding ids of two holders of one right
    Models,       \* the language models that can be asked
    Fallback,     \* the model asked in place of one that is not available
    MaxDecisions, \* bound on the decisions about one plan
    None

Texts    == Scopes \union {"none", "prose"}   \* what a model says
Errors   == {"unavailable", "throttled", "empty"}
Outcomes == Texts \union Errors

ASSUME RemediationAssumption ==
    /\ \A listing \in Listings : listing \in Seq(Entitlements)
    /\ HolderOrder \in [Holders -> Nat]
    /\ HashOrder \in [Holders -> Nat]
    /\ \A h, g \in Holders : HashOrder[h] = HashOrder[g] => h = g
    /\ {"lite", "haiku"} \subseteq Models
    /\ Fallback \in Models \union {None}
    /\ None \notin Models \union Nat
    /\ MaxDecisions \in Nat

VARIABLES
    listing,     \* the entitlements, in the order the providers listed them
    plan,        \* the current plan: its actions, hash and attempt
    proposals,   \* template amendments that await ratification
    audit,       \* the audit records of the decisions so far
    last         \* history: the last reduction

vars == <<listing, plan, proposals, audit, last>>

-----------------------------------------------------------------------------
(* Detection and planning. *)

\* UTF-8 order of the names of the scopes.
NameOrder == [scope \in Scopes |->
    CASE scope = "admin" -> 1 [] scope = "billing" -> 2 [] scope = "iam" -> 3
      [] scope = "read" -> 4 [] scope = "secrets" -> 5 [] OTHER -> 6]

Lexicographic(a, b) ==
    \E i \in DOMAIN a : a[i] < b[i] /\ \A j \in 1..(i - 1) : a[j] = b[j]

\* The elements that come before i when I is sorted by key; equal keys keep
\* the order before.
Preceding(I, key, before, i) ==
    {j \in I : \/ Lexicographic(key[j], key[i])
               \/ key[j] = key[i] /\ before[j] < before[i]}

Sorted(I, key, before) ==
    [i \in I |-> Cardinality(Preceding(I, key, before, i))]

\* Where detect puts the finding of each listed entitlement.
DetectionKey(list) ==
    [i \in DOMAIN list |->
        <<-ScoreOf(list[i]), list[i].place, NameOrder[list[i].scope],
          HolderOrder[list[i].holder]>>]

Detected(list) == Sorted(DOMAIN list, DetectionKey(list), [i \in DOMAIN list |-> i])

Planned(list) == {i \in DOMAIN list : Actionable(list[i])}

\* Faulty variant of Position, for checking: the actions stay in the order of
\* the findings.
PositionUnsorted(list) ==
    [i \in Planned(list) |-> Cardinality({j \in Planned(list) : j < i})]

\* The sequence numbers build gives the actions.
PlanKey(list) ==
    [i \in Planned(list) |->
        <<list[i].place, NameOrder[list[i].scope], HashOrder[list[i].holder]>>]

Position(list) == Sorted(Planned(list), PlanKey(list), Detected(list))

Body(actions) ==
    {[a EXCEPT !.key = None] : a \in actions}

\* The pre-image key of an action names the plan hash and the right.
Keyed(actions) ==
    {[a EXCEPT !.key = <<Body(actions), a.seq, a.place, a.scope>>] : a \in actions}

\* Faulty variant of ActionFor, for checking: a T1 finding loses all access.
ActionForRevokes(e, seq) ==
    [seq |-> seq, place |-> e.place, scope |-> e.scope, to |-> TargetScope(e),
     verb |-> "revoke", finding |-> <<e.holder, e.place, e.scope>>,
     score |-> ScoreOf(e), tier |-> TierOf(e), key |-> None]

ActionFor(e, seq) ==
    [seq |-> seq, place |-> e.place, scope |-> e.scope, to |-> TargetScope(e),
     verb |-> VerbTo(TargetScope(e)), finding |-> <<e.holder, e.place, e.scope>>,
     score |-> ScoreOf(e), tier |-> TierOf(e), key |-> None]

Build(list) ==
    LET position == Position(list)
        actions  == {ActionFor(list[i], position[i]) : i \in DOMAIN position}
    IN  [actions |-> Keyed(actions), hash |-> Body(actions), attempt |-> 0]

-----------------------------------------------------------------------------
(* Negotiation. *)

\* The scopes the entitlement graph knows.
GraphScopes == {listing[i].scope : i \in DOMAIN listing}

\* What the model port returns after the first and perhaps a second call.
Complete(model, first, second) ==
    IF first = "unavailable" /\ Fallback # None /\ Fallback # model THEN second ELSE first

\* The texts a model port may return; if it raises instead, the decision fails
\* and changes nothing.
Answers(model) ==
    {Complete(model, first, second) : first \in Outcomes, second \in Outcomes} \ Errors

\* Faulty variant of NextLowestScope, for checking: the current scope counts.
NextLowestOrSame(scope, closed) ==
    LET below == {s \in closed : Severity(s) <= Severity(scope)}
    IN  IF below = {} THEN NoAccess
        ELSE CHOOSE s \in below : \A t \in below : Severity(t) <= Severity(s)

NextLowestScope(scope, closed) ==
    LET below == {s \in closed : Severity(s) < Severity(scope)}
    IN  IF below = {} THEN NoAccess
        ELSE CHOOSE s \in below : \A t \in below :
                \/ Severity(t) < Severity(s)
                \/ Severity(t) = Severity(s) /\ NameOrder[t] <= NameOrder[s]

Accepted(action, text) ==
    text \in GraphScopes /\ Severity(text) < Severity(action.scope)

\* Faulty variant of Chosen, for checking: it goes on from the scope the plan
\* already proposes.
ChosenBelowProposal(action, text) ==
    IF Accepted(action, text) THEN text ELSE NextLowestScope(action.to, GraphScopes)

Chosen(action, text) ==
    IF Accepted(action, text) THEN text ELSE NextLowestScope(action.scope, GraphScopes)

Reduction(action, text) ==
    [seq |-> action.seq, scope |-> Chosen(action, text),
     accepted |-> Accepted(action, text)]

\* Faulty variant of Replan, for checking: only the changed action is keyed anew.
ReplanOneKey(action, to) ==
    LET updated == [action EXCEPT !.to = to, !.verb = VerbTo(to), !.key = None]
        actions == (plan.actions \ {action}) \union {updated}
    IN  [actions |-> (plan.actions \ {action})
                       \union {a \in Keyed(actions) : a.seq = action.seq},
         hash |-> Body(actions), attempt |-> plan.attempt + 1]

\* Faulty variant of Replan, for checking: the action is found by its right.
ReplanByRight(action, to) ==
    LET updated(a) == [a EXCEPT !.to = to, !.verb = VerbTo(to), !.key = None]
        actions == {IF a.place = action.place /\ a.scope = action.scope
                    THEN updated(a) ELSE a : a \in plan.actions}
    IN  [actions |-> Keyed(actions), hash |-> Body(actions),
         attempt |-> plan.attempt + 1]

Replan(action, to) ==
    LET updated == [action EXCEPT !.to = to, !.verb = VerbTo(to), !.key = None]
        actions == {IF a.seq = action.seq THEN updated ELSE a : a \in plan.actions}
    IN  [actions |-> Keyed(actions), hash |-> Body(actions),
         attempt |-> plan.attempt + 1]

\* The record of a decision names the plan it was made about.
Record(decision, action, acted) ==
    [decision |-> decision, finding |-> action.finding, hash |-> plan.hash,
     acted |-> acted]

-----------------------------------------------------------------------------
NoReduction == [seq |-> None, scope |-> NoAccess, accepted |-> FALSE]

Init ==
    /\ listing \in {l \in Listings : \A i \in DOMAIN l : Scorable(l[i])}
    /\ plan = Build(listing)
    /\ proposals = {}
    /\ audit = <<>>
    /\ last = NoReduction

Reduce(action) ==
    /\ \E text \in Answers("lite") :
          /\ plan' = Replan(action, Chosen(action, text))
          /\ last' = Reduction(action, text)
    /\ audit' = Append(audit, Record("Reduce further", action, TRUE))
    /\ UNCHANGED <<listing, proposals>>

Keep(action) ==
    /\ Answers("haiku") # {}
    /\ proposals' = proposals \union
          {[id |-> Cardinality(proposals) + 1, finding |-> action.finding,
            scope |-> action.scope, hash |-> plan.hash,
            status |-> "pending_human_ratification"]}
    /\ audit' = Append(audit, Record("Keep, with reason", action, FALSE))
    /\ UNCHANGED <<listing, plan, last>>

Approve(action) ==
    /\ audit' = Append(audit, Record("Approve", action, TRUE))
    /\ UNCHANGED <<listing, plan, proposals, last>>

Defer(action) ==
    /\ audit' = Append(audit, Record("Defer 30 days", action, FALSE))
    /\ UNCHANGED <<listing, plan, proposals, last>>

Next ==
    /\ Len(audit) < MaxDecisions
    /\ \E action \in plan.actions :
          Reduce(action) \/ Keep(action) \/ Approve(action) \/ Defer(action)

Spec == Init /\ [][Next]_vars

-----------------------------------------------------------------------------
(* Properties. *)

TypeOK ==
    /\ listing \in Listings
    /\ plan.attempt \in 0..Len(audit)
    /\ \A a \in plan.actions :
          /\ a.scope \in Scopes
          /\ a.to \in Scopes \union {NoAccess}
          /\ a.verb = VerbTo(a.to)
          /\ a.tier \in 1..3
    /\ last.accepted \in BOOLEAN

\* Whatever the model answers and however often an action is reduced, every
\* action takes access away from what its holder has, in the terms the
\* constructor of an action checks: replanning never raises, and no plan
\* widens access (builder.py:57, negotiate.py:289).
NeverWidens == \A a \in plan.actions : Reduces(a) /\ Severity(a.to) < Severity(a.scope)

\* After any number of reductions the pre-image keys of a plan are those of
\* its own hash and differ from action to action, so that one action never
\* restores what another one saved (negotiate.py:219).
KeysAreItsOwn ==
    /\ plan.hash = Body(plan.actions)
    /\ \A a \in plan.actions : a.key[1] = plan.hash
    /\ \A a, b \in plan.actions : a.key = b.key => a = b

\* The same entitlements in another order give the same plan hash, repeated
\* rows included (builder.py:174, prompts/m3.md:32).
SameUpTo(l, m) ==
    \E p \in [DOMAIN l -> DOMAIN m] :
        /\ Len(l) = Len(m)
        /\ \A i, j \in DOMAIN l : p[i] = p[j] => i = j
        /\ \A i \in DOMAIN l : l[i] = m[p[i]]

OrderDoesNotMatter ==
    audit = <<>> =>
        \A other \in Listings :
            SameUpTo(listing, other) => Build(other).hash = plan.hash

\* Tier 1 proceeds without an answer when its window closes.  No such action
\* is about somebody on call, in a protected group or with an incident tag,
\* nor about a right that cannot be given back (tiers.py:80, builder.py:150).
AutomaticIsSafe ==
    \A a \in plan.actions : a.tier = 1 =>
        \E i \in DOMAIN listing :
            /\ a.finding = <<listing[i].holder, listing[i].place, listing[i].scope>>
            /\ listing[i].reversible /\ listing[i].revocable
            /\ SignalsOf[listing[i].holder]
                  \intersect {"oncall", "group", "incident_tag"} = {}

\* The same with every signal the tier policy knows: what the documentation
\* promises (prompts/m2.md:26, tests/unit/test_m2.py:160) and the code does not
\* keep: MCIncident is the instance that shows it.
ProtectedNeverAutomatic ==
    \A a \in plan.actions : a.tier = 1 => SignalsOf[a.finding[1]] = {}

\* Of two entitlements of one holder, the one that is wider, longer unused,
\* further outside the template and closer to others is not in a lower tier
\* (scoring.py:135, tiers.py:68).
WorseIsNotLower ==
    \A i, j \in DOMAIN listing :
        LET e == listing[i]
            f == listing[j]
        IN  ( /\ e.holder = f.holder /\ e.revocable /\ f.revocable
              /\ Severity(e.scope) >= Severity(f.scope)
              /\ Dormancy(e.days) >= Dormancy(f.days)
              /\ RoleMismatch(e) >= RoleMismatch(f)
              /\ DecadesOf[e.place] >= DecadesOf[f.place] )
            => TierOf(e) >= TierOf(f)

\* A reduction changes one action: all others keep their right, their target
\* and their number, also those about another holder of the same right
\* (negotiate.py:212).
OneActionChanges ==
    [][\A a \in plan.actions :
          a.seq # last'.seq =>
              [a EXCEPT !.key = None] \in Body(plan'.actions)]_vars

\* A browser repeats a request whose answer it did not see.  A reduction that
\* was refused by the rules and is asked for again leaves the plan as it was
\* (negotiate.py:284).
RefusedAgainIsHarmless ==
    [][( /\ plan'.attempt > plan.attempt /\ last'.seq = last.seq
         /\ ~last.accepted /\ ~last'.accepted )
       => plan'.hash = plan.hash]_vars
=============================================================================
