--------------------------- MODULE MCRemediation ---------------------------
(* Instances of Remediation for TLC. *)
EXTENDS Remediation

MCPlaces     == {1, 2}
MCSignals    == [alice |-> {"oncall"}, bob |-> {}]
MCTemplates  == [alice |-> {"read"}, bob |-> {"read", "write"}]
MCDecades    == <<1, 4>>
MCWeights    == [s |-> 40, d |-> 25, m |-> 20, b |-> 15]
MCHolderOrder == [alice |-> 1, bob |-> 2]
MCHashOrder  == [alice |-> 2, bob |-> 1]

Right(holder, place, scope, days) ==
    [holder |-> holder, place |-> place, scope |-> scope, revocable |-> TRUE,
     reversible |-> TRUE, days |-> days]

\* Rights of every tier, two holders of one right, one right listed twice with
\* different dates, and rights that cannot be revoked or given back.
Pool ==
    {Right("bob", 1, "read", 0),       Right("alice", 1, "read", 89),
     Right("alice", 2, "write", 0),    Right("bob", 2, "write", 45),
     Right("bob", 2, "write", Never),  Right("bob", 1, "admin", 45),
     Right("alice", 1, "secrets", Never), Right("bob", 1, "iam", Never),
     [Right("bob", 2, "read", 90) EXCEPT !.reversible = FALSE],
     [Right("alice", 2, "iam", Never) EXCEPT !.revocable = FALSE]}

\* All lists of one and two of them, and a few of three.
Triples ==
    {<<Right("bob", 2, "write", 45), Right("alice", 2, "write", 0), Right("bob", 1, "admin", 45)>>,
     <<Right("bob", 1, "admin", 45), Right("bob", 2, "write", 45), Right("alice", 2, "write", 0)>>,
     <<Right("alice", 2, "write", 0), Right("bob", 1, "admin", 45), Right("bob", 2, "write", 45)>>,
     <<Right("alice", 1, "read", 89), Right("bob", 1, "admin", 45), Right("bob", 2, "write", 45)>>}

MCListings == {<<e>> : e \in Pool} \union {<<e, f>> : e \in Pool, f \in Pool} \union Triples

\* Findings of the same holders when the directory reports an active incident.
MCIncident == [alice |-> {"incident_active"}, bob |-> {}]
=============================================================================
