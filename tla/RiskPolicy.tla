----------------------------- MODULE RiskPolicy -----------------------------
(***************************************************************************)
(* How an entitlement becomes a finding and a finding becomes an action:   *)
(* deadbolt.engine.scoring, .tiers and .drift, and the first half of       *)
(* deadbolt.plan.builder.  Everything here is a function of its arguments. *)
(*                                                                         *)
(* Scores are basis points.  Time is the number of whole days since an     *)
(* entitlement was last used.  The number of identities reachable from a   *)
(* place is given in decades: 10^k - 1 identities make k decades, the only *)
(* counts whose logarithm the code's division yields as a whole.           *)
(***************************************************************************)
EXTENDS Integers

CONSTANTS
    Holders,     \* identities
    Places,      \* (system, resource) pairs, numbered in their UTF-8 order
    SignalsOf,   \* what the directory says of a holder that protects it
    TemplateOf,  \* the scopes of the role template of a holder
    DecadesOf,   \* decades of identities reachable from a place
    Weights      \* the risk weights in force

Scopes   == {"read", "write", "admin", "billing", "secrets", "iam"}
NoAccess == "none"
Never    == -1
Signals  == {"oncall", "group", "incident_tag",
             "protected", "protected_group", "incident_active"}
Factors  == {"s", "d", "m", "b"}

Entitlements == [holder : Holders, place : Places, scope : Scopes,
                 revocable : BOOLEAN, reversible : BOOLEAN,
                 days : Nat \union {Never}]

ASSUME RiskPolicyAssumption ==
    /\ Places \subseteq Nat
    /\ SignalsOf \in [Holders -> SUBSET Signals]
    /\ TemplateOf \in [Holders -> SUBSET Scopes]
    /\ DecadesOf \in [Places -> Nat]
    /\ Weights \in [Factors -> Int]
    /\ Weights["s"] + Weights["d"] + Weights["m"] + Weights["b"] = 100

-----------------------------------------------------------------------------
(* Scoring. *)
Severity(scope) ==
    CASE scope = "none"  -> 0
      [] scope = "read"  -> 1000
      [] scope = "write" -> 5000
      [] scope = "admin" -> 9000
      [] OTHER           -> 10000

AtMostFull(points) == IF points > 10000 THEN 10000 ELSE points

Dormancy(days) == IF days = Never THEN 10000 ELSE AtMostFull((10000 * days) \div 90)

RoleMismatch(e) == IF e.scope \in TemplateOf[e.holder] THEN 0 ELSE 10000

BlastRadius(place) == AtMostFull(2500 * DecadesOf[place])

Risk(s, d, m, b) ==
    (Weights["s"] * s + Weights["d"] * d + Weights["m"] * m + Weights["b"] * b) \div 100

ScoreOf(e) ==
    Risk(Severity(e.scope), Dormancy(e.days), RoleMismatch(e), BlastRadius(e.place))

\* A score outside the scale is refused, which fails the whole detection.
Scorable(e) == ~e.revocable \/ ScoreOf(e) \in 0..10000

-----------------------------------------------------------------------------
(* Tiers, as numbers 0 to 3. *)

\* Faulty variant of BreakGlass, for checking: being on call does not protect.
OffDuty(identity) == identity \ {"oncall"} # {}

\* The identity a directory entry is turned into keeps three of its signals.
Identity(holder) == SignalsOf[holder] \intersect {"oncall", "group", "incident_tag"}

BreakGlass(identity) == identity # {}

\* Faulty variant of SelectTier, for checking: the boundary of T2 is compared
\* before the one of T3 and the other way round.
SelectTierUpsideDown(score, identity) ==
    CASE score < 3000 -> 0
      [] 3000 <= score /\ score < 6000 -> IF BreakGlass(identity) THEN 2 ELSE 1
      [] 6000 <= score /\ score < 8500 -> 3
      [] OTHER -> 2

SelectTier(score, identity) ==
    CASE score < 3000 -> 0
      [] 3000 <= score /\ score < 6000 -> IF BreakGlass(identity) THEN 2 ELSE 1
      [] 6000 <= score /\ score < 8500 -> 2
      [] OTHER -> 3

TierOf(e) == IF ~e.revocable THEN 0 ELSE SelectTier(ScoreOf(e), Identity(e.holder))

-----------------------------------------------------------------------------
(* Actions. *)

\* Whether a plan contains an action for a finding.
Actionable(e) ==
    /\ e.revocable
    /\ TierOf(e) # 0
    /\ ~(TierOf(e) = 1 /\ ~e.reversible)

\* The access an action leaves its holder with.
TargetScope(e) == IF TierOf(e) = 1 /\ e.scope # "read" THEN "read" ELSE NoAccess

VerbTo(scope) == IF scope = NoAccess THEN "revoke" ELSE "downgrade"

\* What the constructor of an action accepts.
Reduces(action) ==
    /\ Severity(action.to) <= Severity(action.scope)
    /\ action.verb = "revoke" => action.to = NoAccess
    /\ action.verb = "downgrade" => Severity(action.to) < Severity(action.scope)
=============================================================================
