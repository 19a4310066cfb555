-------------------------- MODULE ProviderAdapters --------------------------
(***************************************************************************)
(* One remediation through the adapter of a provider: list the right, ask  *)
(* for a dry run, apply, restore: deadbolt.providers.github, aws_iam,      *)
(* salesforce, github_enterprise, workday and fixtures.  Everybody else    *)
(* may change the provider between two requests, and every request may be  *)
(* answered, refused or lost, with or without effect.                      *)
(*                                                                         *)
(* A place is a right that somebody may hold; world says what is there,    *)
(* a permission or a policy document, and how often it was granted.        *)
(* Identifiers that a provider invents are that number.                    *)
(***************************************************************************)
EXTENDS Naturals

CONSTANTS
    Places,     \* rights that may be held
    Kind,       \* what an adapter calls a right, of each place
    Grants,     \* what may be held at each place
    Initially,  \* what may be there at the start, of all places
    MaxRetries, \* how often the GitHub client repeats a request
    Budgets,    \* bounds on how often each part works, one of which holds
    Absent,     \* nothing is held
    Empty,      \* the document of a policy that is gone
    None

GitHub     == {"collaborator", "token", "team", "membership"}
Aws        == {"managed", "inline"}
Salesforce == {"assignment", "object"}
Enterprise == {"pat", "saml", "deploy-key"}
Workday    == {"group"}
Kinds      == GitHub \union Aws \union Salesforce \union Enterprise \union Workday
                     \union {"fixture"}

ASSUME AdaptersAssumption ==
    /\ Kind \in [Places -> Kinds]
    /\ MaxRetries \in Nat
    /\ Budgets \subseteq [{"remediations", "changes", "calls", "runs"} -> Nat]
    /\ \A p \in Places :
          /\ {Absent, Empty} \intersect Grants[p] = {}
          /\ Kind[p] = "collaborator" => {"pull", "push"} \subseteq Grants[p]
    /\ \A start \in Initially, p \in Places : start[p] \in Grants[p] \union {Absent}
    /\ Absent # Empty
    /\ None \notin Places

VARIABLES
    world,   \* what the provider holds
    gone,    \* the places whose holder, team or repository is deleted
    touched, \* history: how often each place was changed
    left,    \* what is left of the bounds
    pc,      \* where the remediation is
    job      \* its variables

adapterVars == <<pc, job>>
worldVars   == <<world, gone, touched>>

Held(p) == world[p].what # Absent

Given(p, what) ==
    [world EXCEPT ![p] = [what |-> what, id |-> @.id + (IF Held(p) THEN 0 ELSE 1)]]

Taken(p) == [world EXCEPT ![p].what = Absent]

NoJob == [place |-> None, seen |-> None, since |-> 0, pre |-> None,
          tries |-> MaxRetries, asked |-> FALSE]

AdaptersInit ==
    /\ \E start \in Initially : world = [p \in Places |-> [what |-> start[p], id |-> 1]]
    /\ gone = {}
    /\ touched = [p \in Places |-> 0]
    /\ left \in Budgets
    /\ pc = "idle"
    /\ job = NoJob

Spend(part) == left[part] > 0 /\ left' = [left EXCEPT ![part] = @ - 1]

-----------------------------------------------------------------------------
(* Requests. *)

Answers == {"answered", "refused", "lost"}

\* A request that would lead to the world after.  Being turned away by a rate
\* limit is the same as being lost; a server that fails may have obeyed.
Sent(after, answer) ==
    world' \in IF answer = "answered" THEN {after} ELSE {world, after}

\* Faulty variant of Again, for checking: a lost request is always repeated.
AgainAlways(kind, tries) == kind \in GitHub

\* The GitHub client repeats a request that is not answered.
Again(kind, tries) == kind \in GitHub /\ tries > 0

\* Faulty variant of AfterAnswer, for checking: a last loss counts as done.
LossIsDone(kind, tries, answer, here, done, failed) ==
    CASE answer = "lost" /\ Again(kind, tries) -> here
      [] answer = "refused" -> failed
      [] OTHER -> done

\* Where a caller is after a request.
AfterAnswer(kind, tries, answer, here, done, failed) ==
    CASE answer = "answered" -> done
      [] answer = "lost" /\ Again(kind, tries) -> here
      [] OTHER -> failed

\* One more, if a request changed what is there.
Changes == IF world' # world THEN 1 ELSE 0

\* The request of the remediation, which keeps count of its own changes.
Request(after, done, failed) ==
    \E answer \in Answers :
        LET kind == Kind[job.place]
            next == AfterAnswer(kind, job.tries, answer, pc, done, failed)
        IN  /\ kind = "fixture" => answer = "answered"
            /\ Sent(after, answer)
            /\ pc' = next
            /\ touched' = [touched EXCEPT ![job.place] = @ + Changes]
            /\ job' = [job EXCEPT !.asked = TRUE, !.since = @ + Changes,
                                  !.tries = IF next = pc /\ @ > 0 THEN @ - 1 ELSE MaxRetries]
            /\ UNCHANGED <<gone, left>>

-----------------------------------------------------------------------------
(* Listing: snapshot. *)

Ended == {"refused", "removed", "lowered", "unknown", "restored", "not restored"}

\* The membership of an organization is no entitlement.
Listable(p) == Held(p) /\ Kind[p] # "membership"

List(p) ==
    /\ pc \in {"idle"} \union Ended
    /\ Listable(p)
    /\ Spend("remediations")
    /\ job' = [NoJob EXCEPT !.place = p, !.seen = world[p], !.since = touched[p]]
    /\ pc' = IF Kind[p] = "inline" THEN "document" ELSE "dry run"
    /\ UNCHANGED worldVars

\* The names of the inline policies were listed first.
ReadDocument ==
    /\ pc = "document"
    /\ \/ /\ job' = [job EXCEPT !.seen.what =
                        IF Held(job.place) THEN world[job.place].what ELSE Empty]
          /\ pc' = "dry run"
       \/ pc' = "refused" /\ UNCHANGED job
    /\ UNCHANGED <<worldVars, left>>

-----------------------------------------------------------------------------
(* Revoking. *)

ScopeOf(permission) ==
    CASE permission = "admin" -> "admin"
      [] permission \in {"push", "maintain", "triage", "write"} -> "write"
      [] OTHER -> "read"

\* Faulty variant of PermissionOf, for checking: the scope is sent.
PermissionIsScope(scope) == scope

PermissionOf(scope) ==
    CASE scope = "read" -> "pull" [] scope = "write" -> "push" [] scope = "admin" -> "admin"

\* The adapter answers that it cannot do it.
NotRevocable(kind) == kind \in {"token", "team", "object", "group"}

\* Faulty variant of PreImage, for checking: the scope is kept, not the permission.
PreImageOfScope ==
    [form |-> "adapter", id |-> job.seen.id,
     what |-> IF Kind[job.place] = "collaborator" THEN PermissionOf(ScopeOf(job.seen.what))
              ELSE job.seen.what]

\* What the adapter needs to find the right again and to restore it.
PreImage == [form |-> "adapter", what |-> job.seen.what, id |-> job.seen.id]

\* The executor keeps the entitlement instead.
Wire == [PreImage EXCEPT !.form = "entitlement"]

DryRun ==
    /\ pc = "dry run"
    /\ \/ /\ ~NotRevocable(Kind[job.place])
          /\ job' = [job EXCEPT !.pre = PreImage]
          /\ pc' = "apply"
       \* a simulation may fail
       \/ /\ NotRevocable(Kind[job.place]) \/ Kind[job.place] = "inline"
          /\ pc' = "refused"
          /\ UNCHANGED job
    /\ UNCHANGED <<worldVars, left>>

\* Rights that are addressed by an identifier.
ById(kind) == kind \in {"assignment"} \union Enterprise

Found(p) == Held(p) /\ (ById(Kind[p]) => world[p].id = job.seen.id)

\* What an adapter makes of the answer that there is no such right.  GitHub may
\* also answer as if there were one.
MissingMeans(kind) ==
    CASE kind \in Aws \union {"fixture"} -> {"removed"}
      [] kind \in GitHub -> {"removed", "unknown"}
      [] OTHER -> {"unknown"}

Revoke ==
    /\ pc = "apply"
    /\ \/ Found(job.place) /\ Request(Taken(job.place), "removed", "unknown")
       \/ /\ ~Found(job.place)
          /\ \E means \in MissingMeans(Kind[job.place]) : Request(world, means, "unknown")

\* To give a permission to somebody who is not there only invites.
Permitted(p, what) == IF Held(p) THEN {Given(p, what)} ELSE {Given(p, what), world}

Downgrade(scope) ==
    /\ pc = "apply"
    /\ Kind[job.place] = "collaborator"
    /\ scope # ScopeOf(job.seen.what)
    /\ job.place \notin gone
    /\ \E after \in Permitted(job.place, PermissionOf(scope)) :
          Request(after, "lowered", "unknown")

-----------------------------------------------------------------------------
(* Restoring. *)

Irreversible(kind) == kind \in {"pat", "saml"}

\* Only the fixtures restore an entitlement.
Accepts(kind, pre) ==
    ~Irreversible(kind) /\ (kind = "fixture" \/ pre.form = "adapter")

\* A caller that knows what to restore: the adapter's own, or the executor's.
BeginRestore ==
    /\ pc \in {"removed", "lowered", "unknown"}
    /\ \E pre \in {PreImage, Wire} :
          /\ job' = [job EXCEPT !.pre = pre, !.asked = FALSE]
          /\ pc' = IF Accepts(Kind[job.place], pre) THEN "restore" ELSE "not restored"
    /\ UNCHANGED <<worldVars, left>>

\* Rights that are created anew: there cannot be two.
Creates(kind) == kind \in {"assignment", "deploy-key"}

\* Adapters that look whether the right is back.
Verifies(kind) == kind \in {"collaborator"} \union Aws

\* What it needs to succeed.  An empty document is no policy.
Possible(p, pre) ==
    /\ p \notin gone
    /\ pre.what # Empty
    /\ Creates(Kind[p]) => ~Held(p)

PutBack(p, pre) ==
    IF Kind[p] = "collaborator" THEN Permitted(p, pre.what) ELSE {Given(p, pre.what)}

\* A user of AWS who is gone counts as restored.
Restore ==
    LET p == job.place  kind == Kind[p]
    IN  /\ pc = "restore"
        /\ IF Possible(p, job.pre)
           THEN \E after \in PutBack(p, job.pre) :
                    Request(after, IF Verifies(kind) THEN "verify" ELSE "restored", "not restored")
           ELSE Request(world, IF p \in gone /\ kind \in Aws THEN "restored" ELSE "not restored",
                        "not restored")

Verify ==
    LET back == world[job.place].what = job.pre.what
    IN  pc = "verify" /\ Request(world, IF back THEN "restored" ELSE "not restored", "not restored")

-----------------------------------------------------------------------------
(* Everybody else. *)

Touch(p) ==
    /\ Spend("changes")
    /\ touched' = [touched EXCEPT ![p] = @ + 1]
    /\ \/ /\ p \notin gone
          /\ \E what \in Grants[p] \ {world[p].what} : world' = Given(p, what)
          /\ UNCHANGED gone
       \/ Held(p) /\ world' = Taken(p) /\ UNCHANGED gone
       \/ world' = Taken(p) /\ gone' = gone \union {p}
    /\ UNCHANGED adapterVars

AdapterStep ==
    \/ ReadDocument \/ DryRun
    \/ Revoke \/ \E scope \in {"read", "write"} : Downgrade(scope)
    \/ Restore \/ Verify

Remediation == AdapterStep \/ BeginRestore \/ \E p \in Places : List(p)

-----------------------------------------------------------------------------
(* Properties. *)

Running == {"document", "dry run", "apply", "restore", "verify"}

Things == {Absent, Empty} \union UNION {Grants[p] : p \in Places}

Jobs ==
    [place : Places, seen : [what : Things, id : Nat], since : Nat, tries : Nat, asked : BOOLEAN,
     pre : [form : {"adapter", "entitlement"}, what : Things, id : Nat] \union {None}]

AdaptersTypeOK ==
    /\ world \in [Places -> [what : Things, id : Nat]]
    /\ \A p \in Places : world[p].what \in Grants[p] \union {Absent}
    /\ \A p \in gone : p \in Places /\ ~Held(p)
    /\ touched \in [Places -> Nat]
    /\ pc \in {"idle"} \union Running \union Ended
    /\ pc # "idle" => /\ job \in Jobs
                      /\ job.seen.what \in Grants[job.place] \union {Empty}
    /\ pc \in {"restore", "verify", "restored"} => job.pre.what = job.seen.what

TellsTheTruth ==
    LET p == job.place
    IN  /\ (pc # "removed" /\ pc' = "removed") => world'[p].what = Absent
        /\ (pc # "restored" /\ pc' = "restored") =>
              \/ world'[p].what = job.pre.what
              \/ p \in gone /\ Kind[p] \in Aws

\* What an adapter reports is true when it reports it: a removed right is not
\* there, a restored one is as it was found, however often the client had to
\* ask and whatever the others do; unless the AWS user is gone
\* (github.py:144, 585; aws_iam.py:462, 525).
SuccessIsTrue == [][TellsTheTruth]_<<worldVars, adapterVars>>

\* If nobody else touched a right since it was listed, a restore that succeeds
\* leaves the very permission that was removed or lowered, not one of the same
\* scope (github.py:578).
RestoredIsExact ==
    (pc = "restored" /\ touched[job.place] = job.since) =>
        world[job.place].what = job.seen.what

\* A right that an adapter removed and can restore is at least asked back when
\* its remediation is rolled back (run.py:118, 295 and 387, rollback.py:73).
RollbackAsks ==
    (pc = "not restored" /\ ~Irreversible(Kind[job.place])) => job.asked
=============================================================================
