------------------------------ MODULE Register ------------------------------
(***************************************************************************)
(* The register that the dashboard and the MCP server work on:             *)
(* deadbolt.api.DemoApi, behind deadbolt.handlers.api on several Lambda    *)
(* instances, and deadbolt.mcp_server.                                     *)
(*                                                                         *)
(* Every process keeps a register of its own in memory, which it restores  *)
(* when it starts.  The registers of the processes in Durable are stored   *)
(* in one item, whole, after each change.  A request changes memory and    *)
(* stores under the lock of its process, so that it is one step, except a  *)
(* scan, which works on the connection first (module Connections).         *)
(*                                                                         *)
(* A finding is the right it is about; its number is its position in the   *)
(* list.  A browser decides on the list it shows, its page, and sends the  *)
(* number alone: the process looks it up in the list it has then.          *)
(*                                                                         *)
(* The hash of a plan is the plan.  The language model is that of the      *)
(* dashboard, which always proposes read; module Remediation has the       *)
(* others, the audit records of decisions and the template proposals.      *)
(***************************************************************************)
EXTENDS Connections, FiniteSets

CONSTANTS
    Findings,    \* [holder, place, scope] records
    Target,      \* the access a plan leaves, of each finding that has an action
    ObserveOnly, \* findings about rights that cannot be revoked
    HolderOrder, \* the order of the actions for one right in a plan
    Durable,     \* the processes that store the register
    BootList,    \* the findings a process starts with if nothing is stored
    BootCaptured,\* whether these come from a capture
    MaxEntries,  \* bound on the entries of the log of each process
    MaxRestarts  \* bound on the restarts

Actions == {"Approve", "Reduce further", "Keep, with reason", "Defer 30 days"}
Stages  == {"Approval", "Verified", "Planned", "Rolled back"}
Scopes  == {"read", "write", "admin"}
NoAccess   == "none"

Elements(list) == {list[n] : n \in DOMAIN list}

Lists == {BootList} \union Listings

ASSUME RegisterAssumption ==
    /\ \A f \in Findings : f.scope \in Scopes
    /\ DOMAIN Target \subseteq Findings
    /\ \A f \in DOMAIN Target : Target[f] \in Scopes \union {NoAccess}
    /\ ObserveOnly \subseteq Findings \ DOMAIN Target
    /\ \A f \in Findings : HolderOrder[f.holder] \in Nat
    /\ Durable \subseteq Servers
    /\ \A list \in Lists :
          /\ list \in Seq(Findings)
          /\ \A m, n \in DOMAIN list : list[m] = list[n] => m = n
    /\ BootCaptured \in BOOLEAN
    /\ \A i \in Servers : MaxEntries[i] \in Nat
    /\ MaxRestarts \in Nat
    /\ None \notin Findings
    /\ None \notin [list : Lists, stages : UNION {[S -> Stages] : S \in SUBSET Findings}]

VARIABLES
    memory,     \* the register of each process
    log,        \* the newest audit entry each process keeps, and their number
    stored,     \* the stored register, None without one
    preview,    \* the plan an agent saw, at the processes that are MCP servers
    unanswered, \* the decision whose answer a browser did not see
    restarts,   \* restarts so far
    shown,      \* the lists that browsers got, and may still show
    told,       \* history: the stages a finding may have, once one was told
    approved,   \* history: the findings somebody saw and approved
    mistaken    \* history: the findings approved from a page that was overtaken

decisions == <<approved, mistaken>>
registerVars == <<memory, log, stored, preview, unanswered, restarts, shown, told, decisions>>
vars == <<connectionVars, registerVars>>

McpServers == Servers \ Durable

-----------------------------------------------------------------------------
(* A register: the findings in detected order, whether they come from a    *)
(* capture, their stages and the plan.                                     *)

PlanOf(list) == [f \in Elements(list) \intersect DOMAIN Target |-> Target[f]]

\* The second finding is shown as verified when nothing is known of it.
BootStage(list, f) ==
    IF Len(list) >= 2 /\ f = list[2] THEN "Verified" ELSE "Approval"

Restored(item) ==
    [list |-> item.list, captured |-> TRUE, plan |-> PlanOf(item.list),
     stages |-> [f \in Elements(item.list) |->
                    IF f \in DOMAIN item.stages THEN item.stages[f]
                    ELSE BootStage(item.list, f)]]

Boot ==
    [list |-> BootList, captured |-> BootCaptured, plan |-> PlanOf(BootList),
     stages |-> [f \in Elements(BootList) |-> BootStage(BootList, f)]]

\* What a process starts with.
Start(i) == IF i \in Durable /\ stored # None THEN Restored(stored) ELSE Boot

\* Faulty variant of Promoted, for checking: a scan starts from nothing.
PromotedAnew(register, list) ==
    [list |-> list, captured |-> TRUE, plan |-> PlanOf(list),
     stages |-> [f \in Elements(list) |-> "Approval"]]

\* Faulty variant of Promoted, for checking: stages stay with the numbers.
PromotedByNumber(register, list) ==
    [list |-> list, captured |-> TRUE, plan |-> PlanOf(list),
     stages |-> [f \in Elements(list) |->
        LET n == CHOOSE n \in DOMAIN list : list[n] = f
        IN  IF n \in DOMAIN register.list THEN register.stages[register.list[n]]
            ELSE "Approval"]]

\* A scan replaces everything but the stages of the findings that stay.
Promoted(register, list) ==
    [list |-> list, captured |-> TRUE, plan |-> PlanOf(list),
     stages |-> [f \in Elements(list) |->
                    IF f \in DOMAIN register.stages THEN register.stages[f]
                    ELSE "Approval"]]

\* The action of a plan for a finding: the first one for its right, whoever
\* holds it.
ActionFor(register, f) ==
    LET same == {g \in DOMAIN register.plan : g.place = f.place /\ g.scope = f.scope}
    IN  IF same = {} THEN None
        ELSE CHOOSE g \in same : \A h \in same :
                HolderOrder[g.holder] <= HolderOrder[h.holder]

Severity(scope) ==
    CASE scope = "none" -> 0 [] scope = "read" -> 1 [] scope = "write" -> 2
      [] scope = "admin" -> 3

\* Faulty variant of Narrowed, for checking: below the scope proposed so far.
NarrowedAgain(register, g) ==
    LET below == {s \in Scopes : Severity(s) < Severity(register.plan[g])}
    IN  IF below = {} THEN NoAccess
        ELSE CHOOSE s \in below : \A t \in below : Severity(t) <= Severity(s)

\* The scope the broker accepts for an action: read if it is narrower and
\* anybody has it, else the next lowest scope that anybody has.
Narrowed(register, g) ==
    LET below == {s \in {f.scope : f \in Elements(register.list)} :
                     Severity(s) < Severity(g.scope)}
    IN  CASE below = {} -> NoAccess
          [] "read" \in below -> "read"
          [] OTHER -> CHOOSE s \in below : \A t \in below : Severity(t) <= Severity(s)

\* Decisions that raise and change nothing.  A finding without an action can
\* be deferred only if the plan has a single action, which then stands in.
Refused(register, f, action) ==
    /\ ActionFor(register, f) = None
    /\ CASE action \in {"Approve", "Reduce further"} -> TRUE
         [] action = "Keep, with reason" -> f \notin ObserveOnly
         [] OTHER -> Cardinality(DOMAIN register.plan) # 1

StageAfter(register, f, action) ==
    CASE action = "Approve" -> "Verified"
      [] action = "Defer 30 days" -> "Planned"
      [] /\ action = "Reduce further" /\ f.scope = "read"
         /\ Narrowed(register, ActionFor(register, f)) = NoAccess -> "Verified"
      [] OTHER -> register.stages[f]

PlanAfter(register, f, action) ==
    IF action # "Reduce further" THEN register.plan
    ELSE [register.plan EXCEPT ![ActionFor(register, f)] =
             Narrowed(register, ActionFor(register, f))]

Decided(register, f, action) ==
    [register EXCEPT !.stages[f] = StageAfter(register, f, action),
                     !.plan = PlanAfter(register, f, action)]

-----------------------------------------------------------------------------
(* What every change does. *)

Entry(count, register) == [count |-> count, hash |-> register.plan]

Item(register) == [list |-> register.list, stages |-> register.stages]

\* Fixture data is not stored.
Persists(i, register) ==
    i \in Durable /\ register.captured /\ register.list # <<>>

\* put_item may fail, with or without effect, after memory was changed.
Persist(i, register) ==
    \/ /\ stored' = IF Persists(i, register) THEN Item(register) ELSE stored
       /\ UNCHANGED faults
    \/ /\ Persists(i, register)
       /\ faults < MaxFaults
       /\ faults' = faults + 1
       /\ stored' \in {stored, Item(register)}

Change(i, register) ==
    /\ log[i].count < MaxEntries[i]
    /\ memory' = [memory EXCEPT ![i] = register]
    /\ log' = [log EXCEPT ![i] = Entry(@.count + 1, register)]
    /\ Persist(i, register)

\* Whoever is told a stage relies on it; a change that was not confirmed may
\* have happened.
Tell(i, f, stage, answered) ==
    LET kept == Persists(i, memory'[i])
        confirmed == answered /\ faults' = faults
    IN  told' = [told EXCEPT ![f] =
           CASE kept /\ confirmed -> {stage}
             [] kept /\ ~confirmed /\ told[f] # {} -> @ \union {stage}
             [] OTHER -> @]

\* The decisions that end a right: below read nothing is left to reduce to.
Revokes(f, action) ==
    action = "Approve" \/ (action = "Reduce further" /\ f.scope = "read")

\* What the person saw counts as approved.  What the number stands for by now
\* may be another finding, if the page is no longer the list of the process.
Approve(i, n, page, action) ==
    LET f == memory[i].list[n]
    IN  /\ approved' = IF Revokes(page[n], action) THEN approved \union {page[n]} ELSE approved
        /\ mistaken' = IF page # memory[i].list /\ Revokes(f, action)
                       THEN mistaken \union {f} ELSE mistaken

\* decision, by the number of a finding on the page.
HandleDecision(i, n, page, action, answered) ==
    LET f == memory[i].list[n]
        after == Decided(memory[i], f, action)
    IN  /\ n \in DOMAIN page
        /\ n \in DOMAIN memory[i].list
        /\ ~Refused(memory[i], f, action)
        /\ Change(i, after)
        /\ Tell(i, f, after.stages[f], answered)
        /\ Approve(i, n, page, action)

\* rollback asks neither for a plan nor for a decision.
HandleRollback(i, n) ==
    LET f == memory[i].list[n]
    IN  /\ n \in DOMAIN memory[i].list
        /\ Change(i, [memory[i] EXCEPT !.stages[f] = "Rolled back"])
        /\ Tell(i, f, "Rolled back", TRUE)
        /\ UNCHANGED decisions

onlyConnection == <<store, pc, local, writes, asked>>

-----------------------------------------------------------------------------
(* The dashboard. *)

Init ==
    /\ ConnectionsInit
    /\ memory = [i \in Servers |-> Boot]
    /\ log = [i \in Servers |-> Entry(1, Boot)]
    /\ stored = None
    /\ preview = [i \in McpServers |-> None]
    /\ unanswered = None
    /\ restarts = 0
    /\ shown = {BootList}
    /\ told = [f \in Findings |-> {}]
    /\ approved = {f \in Findings : Len(BootList) >= 2 /\ f = BootList[2]}
    /\ mistaken = {}

\* From any page; a browser that loses the connection may not see the answer.
Decide(i, n, action) ==
    /\ i \in Durable
    /\ \E page \in shown :
          \/ HandleDecision(i, n, page, action, TRUE) /\ UNCHANGED unanswered
          \/ /\ unanswered = None
             /\ HandleDecision(i, n, page, action, FALSE)
             /\ unanswered' = [number |-> n, page |-> page, action |-> action, server |-> i,
                               register |-> memory'[i]]
    /\ UNCHANGED <<onlyConnection, preview, restarts, shown>>

\* It sends the decision once more, to any instance.
Repeat(i) ==
    /\ i \in Durable
    /\ unanswered # None
    /\ HandleDecision(i, unanswered.number, unanswered.page, unanswered.action, TRUE)
    /\ unanswered' = None
    /\ UNCHANGED <<onlyConnection, preview, restarts, shown>>

Rollback(i, n) ==
    /\ i \in Durable
    /\ HandleRollback(i, n)
    /\ UNCHANGED <<onlyConnection, preview, unanswered, restarts, shown>>

\* Faulty variant of Rebuilt, for checking: rerun plans for what it booted with.
RebuiltFromBoot(register) == [register EXCEPT !.plan = PlanOf(BootList)]

Rebuilt(register) == [register EXCEPT !.plan = PlanOf(register.list)]

\* rerun builds the plan anew and stores nothing.
Rerun(i) ==
    /\ memory[i].list # <<>>
    /\ log[i].count < MaxEntries[i]
    /\ memory' = [memory EXCEPT ![i] = Rebuilt(memory[i])]
    /\ log' = [log EXCEPT ![i] = Entry(@.count + 1, memory'[i])]
    /\ UNCHANGED <<connectionVars, stored, preview, unanswered, restarts, shown, told, decisions>>

\* The second half of scan: what the provider listed becomes the register.
Promote(r) ==
    LET i == local[r].server
        after == Promoted(memory[i], local[r].records)
    IN  /\ pc[r] = "promote"
        /\ Change(i, after)
        /\ Leave(r)
        /\ told' = [f \in Findings |->
                       IF f \in Elements(after.list) THEN told[f] ELSE {}]
        /\ shown' = shown \union {after.list}
        /\ UNCHANGED <<store, writes, asked, preview, unanswered, restarts, decisions>>

\* A process ends and a new one starts; its requests are lost.
Restart(i) ==
    /\ i \in Durable
    /\ restarts < MaxRestarts
    /\ restarts' = restarts + 1
    /\ memory' = [memory EXCEPT ![i] = Start(i)]
    /\ log' = [log EXCEPT ![i] = Entry(1, Start(i))]
    /\ pc' = [r \in Requests |-> IF local[r].server = i THEN "done" ELSE pc[r]]
    /\ local' = [r \in Requests |-> IF local[r].server = i THEN NoLocal ELSE local[r]]
    /\ UNCHANGED <<store, writes, asked, faults, stored, preview, unanswered, shown, told,
                   decisions>>

-----------------------------------------------------------------------------
(* The MCP server: agents act on a finding under the hash of its plan.  It *)
(* never scans, so that they all were shown the list it starts with.       *)

GetPlan(i) ==
    /\ memory[i].list # <<>>
    /\ preview' = [preview EXCEPT ![i] = memory[i].plan]
    /\ UNCHANGED <<connectionVars, memory, log, stored, unanswered, restarts, shown, told,
                   decisions>>

ApproveOrReduce(i, n, action) ==
    /\ action \in {"Approve", "Reduce further"}
    /\ preview[i] = memory[i].plan
    /\ HandleDecision(i, n, BootList, action, TRUE)

RecordDecision(i, n, action) ==
    /\ action \in {"Keep, with reason", "Defer 30 days"}
    /\ HandleDecision(i, n, BootList, action, TRUE)

RollbackFinding(i, n) ==
    /\ preview[i] = memory[i].plan
    /\ HandleRollback(i, n)

\* On Lambda every request is served by a new server.
Fresh(i) ==
    /\ memory' = [memory EXCEPT ![i] = Start(i)]
    /\ log' = [log EXCEPT ![i] = Entry(1, Start(i))]
    /\ UNCHANGED <<connectionVars, stored, preview, unanswered, restarts, shown, told, decisions>>

McpTool(i, n) ==
    /\ \/ \E action \in Actions : ApproveOrReduce(i, n, action) \/ RecordDecision(i, n, action)
       \/ RollbackFinding(i, n)
    /\ UNCHANGED <<onlyConnection, preview, unanswered, restarts, shown>>

-----------------------------------------------------------------------------
Numbers == 1..Cardinality(Findings)

Connection ==
    /\ \E r \in Requests :
          ConnectionStep(r) \/ \E i \in Durable : ConnectionRequest(r, i)
    /\ UNCHANGED registerVars

Dashboard ==
    \/ \E i \in Durable :
          \/ \E n \in Numbers : Rollback(i, n) \/ \E action \in Actions : Decide(i, n, action)
          \/ Repeat(i) \/ Restart(i)
    \/ \E r \in Requests : Promote(r)

Mcp == \E i \in McpServers : GetPlan(i) \/ Fresh(i) \/ \E n \in Numbers : McpTool(i, n)

Next ==
    \/ Connection
    \/ Dashboard
    \/ Mcp
    \/ \E i \in Servers : Rerun(i)

Spec == Init /\ [][Next]_vars

-----------------------------------------------------------------------------
(* Properties. *)

\* Finding by finding, a register has a stage for each, an action for each
\* that calls for one, and nothing else; the stored register too.  The newest
\* log entry of a process names the plan in force (api.py:357, 575).
Fits(list, stages) ==
    /\ list \in Lists
    /\ stages \in [Elements(list) -> Stages]

TypeOK ==
    /\ \A i \in Servers :
          /\ Fits(memory[i].list, memory[i].stages)
          /\ DOMAIN memory[i].plan = Elements(memory[i].list) \intersect DOMAIN Target
          /\ memory[i].captured \in BOOLEAN
          /\ log[i].hash = memory[i].plan
    /\ stored # None => Fits(stored.list, stored.stages)
    /\ shown \subseteq Lists
    /\ told \in [Findings -> SUBSET Stages]
    /\ approved \subseteq Findings /\ mistaken \subseteq Findings
    /\ store \in Configurations

\* What a browser was told of a finding stays so, through restarts, failing
\* writes and scans, until a later request changes it or a scan no longer
\* lists the finding: every process shows it and it is stored
\* (api.py:344, 533, 570).
DecisionSurvives ==
    \A f \in Findings : told[f] # {} =>
        /\ stored # None
        /\ f \in DOMAIN stored.stages
        /\ stored.stages[f] \in told[f]
        /\ \A i \in Durable :
              f \in DOMAIN memory[i].stages => memory[i].stages[f] \in told[f]

\* What any process shows as verified, or the store has, is one of these.
VerifiedAmong(findings) ==
    /\ \A i \in Servers : \A f \in DOMAIN memory[i].stages :
          memory[i].stages[f] = "Verified" => f \in findings
    /\ stored # None =>
          \A f \in DOMAIN stored.stages :
              stored.stages[f] = "Verified" => f \in findings

\* A finding that is shown or stored as verified was seen and approved, through
\* restarts, failing writes and scans that reorder the list, unless somebody
\* decided on a page that a scan has overtaken: the number it sends stands for
\* another finding by now (api.ts:123-134, api.py:486, 517, 574).  The second
\* finding of the first list counts as approved (api.py:370, 584).
OnlyOvertakenVerifies == VerifiedAmong(approved \union mistaken)

\* If nothing happened since, a browser that repeats a decision leaves findings
\* and plan as the first attempt did (src/frontend/src/lib/api.ts:92).  The log
\* has a second entry, and a proposal for a kept finding is not part of this.
RepeatIsHarmless ==
    [][( /\ unanswered # None /\ unanswered' = None
         /\ memory[unanswered.server] = unanswered.register )
       => memory'[unanswered.server] = unanswered.register]_vars

-----------------------------------------------------------------------------
(* What does not hold. *)

\* "Approval actions require an explicit review decision" (README.md:48): what
\* is verified, somebody saw and approved.  A decision that a scan overtakes
\* verifies the finding that moved to its number.
VerifiedWasApproved == VerifiedAmong(approved)
=============================================================================
