----------------------------- MODULE Providers -----------------------------
(***************************************************************************)
(* Everything that works on the systems of the providers: a remediation    *)
(* through an adapter, an administrator's agent with the GitHub tools, the *)
(* fan-out that copies rights into the graph table, and everybody else.    *)
(***************************************************************************)
EXTENDS GitHubOnboarding, GraphSnapshot

vars == <<worldVars, left, adapterVars, onboardingVars, graphVars>>

Init == AdaptersInit /\ OnboardingInit /\ GraphInit

Next ==
    \/ (Remediation \/ \E p \in Places : Touch(p)) /\ UNCHANGED <<onboardingVars, graphVars>>
    \/ Onboarding /\ UNCHANGED graphVars
    \/ FanOut /\ UNCHANGED onboardingVars

\* A process that has begun goes on: requests end, answered or not.
Fairness ==
    /\ WF_vars(AdapterStep /\ UNCHANGED <<onboardingVars, graphVars>>)
    /\ WF_vars(OnboardingStep /\ UNCHANGED graphVars)
    /\ WF_vars(GraphStep /\ UNCHANGED onboardingVars)

Spec == Init /\ [][Next]_vars /\ Fairness

-----------------------------------------------------------------------------
(* Properties. *)

\* A place has one of the things it may hold, whoever changed it last and in
\* whatever form it was restored, and nothing if it is deleted; a process knows
\* what it works on (github.py:605, mcp_server.py:139).
TypeOK == AdaptersTypeOK /\ OnboardingTypeOK /\ GraphTypeOK

\* Every call of an adapter and every tool ends, even if no request is ever
\* answered: repetitions are bounded (github.py:138, store.py:129).
EveryCallEnds ==
    /\ (pc \in Running) ~> (pc \in Ended)
    /\ (call.at = "asking") ~> (call.at \in {"applied", "failed"})
=============================================================================
