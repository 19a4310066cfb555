---------------------------- MODULE MCProviders ----------------------------
(* Instances of Providers for TLC. *)
EXTENDS Providers, TLC

\* Two organizations with a repository, a membership and a team each.
MCKind ==
    [repo1 |-> "collaborator", repo2 |-> "collaborator",
     member1 |-> "membership", member2 |-> "membership", team1 |-> "team", team2 |-> "team",
     managed |-> "managed", inline |-> "inline", assignment |-> "assignment",
     object1 |-> "object", object2 |-> "object", key |-> "deploy-key", saml |-> "saml",
     group |-> "group", fixture |-> "fixture"]

MCPlaces == DOMAIN MCKind

MCGrants ==
    [p \in MCPlaces |->
        CASE MCKind[p] = "collaborator" -> {"pull", "push", "maintain"}
          [] MCKind[p] = "inline" -> {"document", "another"}
          [] OTHER -> {"member"}]

\* The user of the agent has nothing at first but what is in the other repository.
MCStart ==
    [p \in MCPlaces |->
        CASE p \in {"repo2", "member1", "member2", "team1", "team2", "object2"} -> "nothing"
          [] MCKind[p] = "collaborator" -> "maintain"
          [] MCKind[p] = "inline" -> "document"
          [] OTHER -> "member"]

MCInitially == {MCStart}

MCMembership == [one |-> "member1", two |-> "member2"]
MCTeam       == [one |-> "team1", two |-> "team2"]
MCLists      == {<<"repo2", "repo1">>}

\* Two permission sets give the same right.
MCRow == [p \in MCPlaces |-> IF p = "object2" THEN "object1" ELSE p]

MCSystems == <<"salesforce", "workday">>

Budget(remediations, changes, calls, runs) ==
    [remediations |-> remediations, changes |-> changes, calls |-> calls, runs |-> runs]

\* Remediations among others' changes and beside an agent, agents, the fan-out.
MCBudgets ==
    {Budget(1, 2, 0, 0), Budget(1, 0, 2, 0), Budget(0, 1, 2, 0), Budget(0, 0, 3, 0),
     Budget(0, 1, 0, 2)}
=============================================================================
