-------------------------- MODULE GitHubOnboarding --------------------------
(***************************************************************************)
(* The GitHub tools of the MCP server: an agent previews a plan for one    *)
(* user and confirms it by its hash: deadbolt.mcp_server.  Every request   *)
(* of a plan is a step; the first that fails ends the call, and what was   *)
(* done stays.  The operator may connect another organization between      *)
(* calls.  An invitation counts as the access it invites to.               *)
(***************************************************************************)
EXTENDS ProviderAdapters, Sequences, Functions

CONSTANTS
    Orgs,            \* organizations an operator may connect
    Membership,      \* the place of the user in each organization
    Team,            \* the place of the user in a team of the same name in each
    RepositoryLists  \* the lists of repositories an agent may give

ASSUME OnboardingAssumption ==
    /\ Membership \in [Orgs -> Places]
    /\ Team \in [Orgs -> Places]
    /\ \A o \in Orgs :
          /\ Kind[Membership[o]] = "membership" /\ "member" \in Grants[Membership[o]]
          /\ Kind[Team[o]] = "team" /\ "member" \in Grants[Team[o]]
    /\ \A list \in RepositoryLists :
          /\ list \in Seq(Places) /\ IsInjective(list)
          /\ \A p \in Range(list) : Kind[p] = "collaborator"

VARIABLES
    org,       \* the organization that is connected
    previewed, \* the plans an agent saw, with the organization
    call       \* the variables of the confirmed call

onboardingVars == <<org, previewed, call>>

Permissions == {"pull", "triage", "push", "maintain", "admin"}

NoCall == [at |-> "idle", plan |-> None, org |-> None, todo |-> <<>>,
           tries |-> MaxRetries, since |-> [p \in Places |-> 0]]

OnboardingInit ==
    /\ org \in Orgs
    /\ previewed = {}
    /\ call = NoCall

-----------------------------------------------------------------------------
(* Plans.  The hash of a plan is the plan: which repositories, not in which *)
(* order.                                                                   *)

\* Faulty variant of OnboardPlan, for checking: the plan of any organization.
OnboardPlanAnywhere(o, repos, permission, team) ==
    [op |-> "onboard", org |-> None, repos |-> Range(repos),
     permission |-> permission, team |-> team]

OnboardPlan(o, repos, permission, team) ==
    [op |-> "onboard", org |-> o, repos |-> Range(repos),
     permission |-> permission, team |-> team]

\* The plan of a removal does not name the organization.
RemovalPlan(what) == [op |-> "remove", what |-> what]

Seen(plan) == \E preview \in previewed : preview.plan = plan

Preview(plan) ==
    /\ Spend("calls")
    /\ previewed' = previewed \union {[plan |-> plan, org |-> org]}
    /\ UNCHANGED <<org, call>>

\* What is granted, in the order of the requests.
Steps(o, repos, team) ==
    <<Membership[o]>> \o repos \o (IF team THEN <<Team[o]>> ELSE <<>>)

Wanted(plan, p) == IF Kind[p] = "collaborator" THEN plan.permission ELSE "member"

Begin(plan, todo) ==
    /\ call.at \in {"idle", "applied", "failed"}
    /\ Seen(plan)
    /\ Spend("calls")
    /\ call' = [NoCall EXCEPT !.at = "asking", !.plan = plan, !.org = org, !.todo = todo]
    /\ UNCHANGED <<org, previewed>>

-----------------------------------------------------------------------------
(* Applying. *)

\* Faulty variant of After, for checking: a failing request is skipped.
AfterSkipping(answer) ==
    LET rest == IF Len(call.todo) = 1 THEN "applied" ELSE "asking"
    IN  IF answer = "lost" /\ Again("membership", call.tries) THEN "again" ELSE rest

\* Where a call is after an answer; every place is the GitHub client's.
After(answer) ==
    LET rest == IF Len(call.todo) = 1 THEN "applied" ELSE "asking"
    IN  AfterAnswer("membership", call.tries, answer, "again", rest, "failed")

\* One request for the first thing that is left to do.
Ask(after) ==
    LET p == Head(call.todo)
    IN  \E answer \in Answers :
            /\ Sent(after, answer)
            /\ touched' = [touched EXCEPT ![p] = @ + Changes]
            /\ call' = CASE After(answer) = "again" ->
                                [call EXCEPT !.tries = IF @ > 0 THEN @ - 1 ELSE MaxRetries]
                         [] After(answer) = "failed" -> [call EXCEPT !.at = "failed"]
                         [] OTHER -> [call EXCEPT !.at = After(answer), !.todo = Tail(@),
                                                  !.tries = MaxRetries,
                                                  !.since[p] = touched'[p]]
            /\ UNCHANGED <<gone, left, org, previewed>>

\* Nothing can be granted in a repository or team that is deleted.
Grant ==
    LET p == Head(call.todo)
    IN  /\ call.at = "asking"
        /\ call.plan.op = "onboard"
        /\ IF p \in gone
           THEN /\ call' = [call EXCEPT !.at = "failed"]
                /\ UNCHANGED <<worldVars, left, org, previewed>>
           ELSE Ask(Given(p, Wanted(call.plan, p)))

\* GitHub may answer that there is nothing to remove.
RemoveAccess ==
    /\ call.at = "asking"
    /\ call.plan.op = "remove"
    /\ Ask(Taken(Head(call.todo)))

OnboardingStep == (Grant \/ RemoveAccess) /\ UNCHANGED adapterVars

OnboardUser(repos, permission, team) ==
    LET plan == OnboardPlan(org, repos, permission, team)
    IN  Preview(plan) \/ Begin(plan, Steps(org, repos, team))

RemoveRepositoryAccess(p) == Preview(RemovalPlan(p)) \/ Begin(RemovalPlan(p), <<p>>)

RemoveTeamAccess ==
    Preview(RemovalPlan("team")) \/ Begin(RemovalPlan("team"), <<Team[org]>>)

RemoveOrganizationMember ==
    Preview(RemovalPlan("membership")) \/ Begin(RemovalPlan("membership"), <<Membership[org]>>)

\* The operator connects another organization; that matters while an agent works.
Connect(o) ==
    /\ left["calls"] > 0
    /\ o # org
    /\ org' = o
    /\ UNCHANGED <<previewed, call, left>>

Repositories == UNION {Range(list) : list \in RepositoryLists}

Tools ==
    /\ \/ \E repos \in RepositoryLists, permission \in Permissions, team \in BOOLEAN :
              /\ \A p \in Range(repos) : permission \in Grants[p]
              /\ OnboardUser(repos, permission, team)
       \/ \E p \in Repositories : RemoveRepositoryAccess(p)
       \/ RemoveTeamAccess \/ RemoveOrganizationMember
       \/ \E o \in Orgs : Connect(o)
    /\ UNCHANGED <<worldVars, adapterVars>>

Onboarding == OnboardingStep \/ Tools

-----------------------------------------------------------------------------
(* Properties. *)

Plans ==
    [op : {"onboard"}, org : Orgs, repos : SUBSET Places, permission : Permissions, team : BOOLEAN]
    \union [op : {"remove"}, what : Places \union {"team", "membership"}]

Calls ==
    [at : {"idle", "asking", "applied", "failed"}, plan : Plans \union {None},
     org : Orgs \union {None}, todo : Seq(Places), tries : Nat, since : [Places -> Nat]]

OnboardingTypeOK ==
    /\ org \in Orgs
    /\ previewed \subseteq [plan : Plans, org : Orgs]
    /\ call \in Calls
    /\ call.at # "idle" => Seen(call.plan)
    /\ call.at = "asking" => call.todo # <<>>
    /\ (call.at = "asking" /\ call.plan.op = "onboard") =>
          call.todo \in Seq({p \in Places : Wanted(call.plan, p) \in Grants[p]})

\* A call that says it was applied granted everything the plan lists, the
\* repetitions after lost answers included: what nobody changed since is as
\* the plan wants it (mcp_server.py:178).
AppliedIsComplete ==
    (call.at = "applied" /\ call.plan.op = "onboard") =>
        \A p \in {Membership[call.org]} \union call.plan.repos
                   \union (IF call.plan.team THEN {Team[call.org]} ELSE {}) :
            \/ world[p].what = Wanted(call.plan, p)
            \/ touched[p] # call.since[p]

\* Whatever a tool grants was previewed with the same plan, and for the
\* organization that gets the member, though the operator may connect another
\* one after the preview (mcp_server.py:175).  It rests on an agent's knowing
\* a hash from a preview only (Seen): the tool compares the hash and keeps no
\* previews, so that an agent which computes it would be served as well.
\* Removals, whose hash does not name the organization, are not part of it.
GrantsWerePreviewed ==
    (call.at # "idle" /\ call.plan.op = "onboard") =>
        [plan |-> call.plan, org |-> call.org] \in previewed
=============================================================================
