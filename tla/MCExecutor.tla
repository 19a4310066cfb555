----------------------------- MODULE MCExecutor -----------------------------
(* Instances of Executor for TLC. *)
EXTENDS Executor, TLC

CONSTANTS alice, bob, wiki, vault

\* One action, on a right that alice holds.
OneRight   == [a \in Actions |-> wiki]
\* Action 0 revokes alice's wiki access, action 1 bob's vault access.
TwoRights  == [a \in Actions |-> IF a = 0 THEN wiki ELSE vault]
AboutAlice == [a \in Actions |-> alice]
AboutBoth  == [a \in Actions |-> IF a = 0 THEN alice ELSE bob]

AliceOnly  == {<<alice, wiki>>}
AliceBob   == {<<alice, wiki>>, <<bob, vault>>}
BothOnWiki == {<<alice, wiki>>, <<bob, wiki>>}

Interchangeable == Permutations(Deliveries)
=============================================================================
