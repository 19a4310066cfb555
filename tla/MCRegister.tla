----------------------------- MODULE MCRegister -----------------------------
(* Instances of Register for TLC. *)
EXTENDS Register, TLC

Right(holder, place, scope) == [holder |-> holder, place |-> place, scope |-> scope]

Admin   == Right("bob", "repo", "admin")
Shared  == Right("alice", "repo", "admin")
Read    == Right("alice", "repo", "read")
Service == Right("bob", "team", "write")

MCFindings  == {Admin, Shared, Read, Service}
\* The team right cannot be revoked.
MCTarget    == (Admin :> "none") @@ (Shared :> "write") @@ (Read :> "none")
MCObserve   == {Service}
MCOrder     == [alice |-> 1, bob |-> 2]
MCBoot      == <<Shared, Read>>
MCListings  == {<<Admin, Shared, Read>>, <<Read, Service>>}
MCEntries   == [a |-> 3, b |-> 3, mcp |-> 2]

\* The MCP server shares nothing with the dashboard: one of the two works.  The
\* register sees of a request only the step that promotes its scan: other
\* requests work, and requests overlap, while no decision is pending or told,
\* and scans that come between decisions find one saved configuration.  Nothing is
\* scanned or repeated once a page that was overtaken has had its effect; and a
\* decision waits for its repetition only as long as the log has room for it.
Active == {r \in Requests : pc[r] \notin {"idle", "done"}}

MCApart ==
    /\ \/ log["mcp"].count = 1 /\ preview["mcp"] = None
       \/ log["a"].count = 1 /\ Active = {}
    /\ \/ unanswered = None /\ \A f \in Findings : told[f] = {}
       \/ /\ Cardinality(Active) <= 1
          /\ \A r \in Active : local[r].op = "scan"
          /\ writes = 1
          /\ asked = {1}
    /\ mistaken # {} => unanswered = None /\ Active = {}
    /\ (unanswered # None /\ restarts = MaxRestarts) =>
          \E i \in Durable : log[i].count < MaxEntries[i]

MCSymmetry  == Permutations(Requests)
=============================================================================
