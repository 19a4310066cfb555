---------------------------- MODULE MCAuditChain ----------------------------
(* Instances of AuditChain for TLC. *)
EXTENDS AuditChain, TLC

CONSTANTS w1, w2, w3

OnePage(R) == R

\* A plan of three actions is executed in order, one of them is rolled back
\* twice and the others once.
PlanThenRollback == w1 :> <<0, 1, 2, None, None, None, None>>
\* Action 0 is rolled back before action 1 is executed.
RollbackBetween  == w1 :> <<0, None, 1>>
\* Deliveries of actions 0 and 1, each followed by a rollback, and one of
\* action 2 that follows a rollback.
Crowd            == w1 :> <<0, None>> @@ w2 :> <<1, None>> @@ w3 :> <<None, 2>>
=============================================================================
