------------------------------ MODULE Executor ------------------------------
(***************************************************************************)
(* The executor of an approved plan: deadbolt.executor.run (one delivery   *)
(* of one action), deadbolt.executor.idempotency (the DynamoDB lock and    *)
(* the action record) and deadbolt.executor.rollback.                      *)
(*                                                                         *)
(* A delivery is one call of Executor.execute, a rollback one call of      *)
(* RollbackExecutor.rollback.  Each of their remote calls (DynamoDB, S3,   *)
(* the provider, the audit writer) is one action, so calls of different    *)
(* deliveries and rollbacks interleave everywhere the code lets them.  A   *)
(* call that raises may or may not have taken effect on the remote side.   *)
(***************************************************************************)
EXTENDS Naturals

CONSTANTS
    Plans,       \* plan ids; they share one body, hence one plan hash
    Actions,     \* sequence numbers of the actions in that body
    Identities,  \* holders of entitlements
    Rights,      \* (system, resource, scope) triples
    RightOf,     \* the right each action revokes
    SubjectOf,   \* the identity of the finding each action was built from
    Keyed,       \* the actions that carry a pre-image key
    InitialGrants,
    Deliveries,  \* calls of Executor.execute
    Rollbacks,   \* calls of RollbackExecutor.rollback
    Events,      \* the kinds of trouble that may happen
    MaxFaults,   \* how many of them a behaviour may contain
    None

Jobs    == Plans \X Actions
Entries == Identities \X Rights
EventKinds == {"dynamo", "s3", "provider", "audit", "crash", "expiry", "admin"}

ASSUME ExecutorAssumption ==
    /\ Actions \subseteq Nat
    /\ RightOf \in [Actions -> Rights]
    /\ SubjectOf \in [Actions -> Identities]
    /\ Keyed \subseteq Actions
    /\ InitialGrants \subseteq Entries
    /\ Events \subseteq EventKinds
    /\ MaxFaults \in Nat
    /\ None \notin Identities
    /\ None \notin Jobs
    /\ None \notin Plans

VARIABLES
    grants,      \* the provider's live entitlements
    locks,       \* LOCK items, by job
    actions,     \* the jobs that have a PLAN#/ACT# record
    preimages,   \* S3: whose entitlement the pre-image object describes
    audit,       \* <<job, status>> of the execute records written so far
    pc, job, target, applied, recovering, undone, reply,  \* a delivery's locals
    rpc, rplan, rtodo, rimage, rany, rfailed,             \* a rollback's locals
    faults,      \* troubles so far
    applies,     \* history: non-dry-run provider.revoke calls per job
    removed,     \* history: <<job, identity>> of the grants those calls removed
    withdrawn    \* history: the entitlements an administrator revoked by hand

store    == <<locks, actions>>
locals   == <<job, target, applied, recovering, undone, reply>>
rollback == <<rpc, rplan, rtodo, rimage, rany, rfailed>>
history  == <<applies, removed, withdrawn>>
vars == <<grants, store, preimages, audit, pc, locals, rollback, faults, history>>

-----------------------------------------------------------------------------
Results   == {"none", "ok", "failed"}
Absent    == [status |-> "absent", result |-> "none"]
Pending   == [status |-> "pending", result |-> "none"]
LockItems == [status : {"absent", "pending", "complete"}, result : Results]
Replies   == [ok : BOOLEAN, result : Results, duplicate : BOOLEAN]
Statuses  == {"dry_run_failed", "apply_failed", "completed", "rolled_back",
              "rollback_failed", "completed_after_provider_error"}
NoReply   == [ok |-> FALSE, result |-> "none", duplicate |-> FALSE]

\* Where a delivery that claimed the lock still is while it runs.
BeforeApply == {"record", "target", "store", "dryrun", "dryfail", "dryaudit",
                "release", "apply"}
AfterApply  == {"refuse", "refuseaudit", "verify", "restore", "reverify", "final",
                "finalaudit", "audit", "complete", "completeunaudited", "settle",
                "settleaudit"}
Targeted    == {"store", "dryrun", "apply"} \union AfterApply
Holding     == BeforeApply \union AfterApply
Stopped     == {"done", "raised", "dead"}
Points      == {"idle", "wait"} \union Holding \union Stopped
RollbackPoints == {"idle", "read", "restore", "verify", "audit", "done"}

RemoteOK ==
    /\ grants \subseteq Entries
    /\ locks \in [Jobs -> LockItems]
    /\ actions \subseteq Jobs
    /\ preimages \in [Actions -> Identities \union {None}]
    /\ audit \subseteq Jobs \X Statuses

DeliveryOK ==
    /\ pc \in [Deliveries -> Points]
    /\ job \in [Deliveries -> Jobs \union {None}]
    /\ \A d \in Deliveries : pc[d] # "idle" => job[d] \in Jobs
    /\ target \in [Deliveries -> Identities \union {None}]
    /\ applied \in [Deliveries -> {"none", "raised", "ok", "failed"}]
    /\ recovering \in [Deliveries -> BOOLEAN]
    /\ undone \in [Deliveries -> BOOLEAN]
    /\ reply \in [Deliveries -> Replies]
    /\ \A d \in Deliveries : pc[d] \in Targeted => target[d] \in Identities
    /\ \A d \in Deliveries :
          \/ pc[d] \in {"audit", "complete", "completeunaudited"}
          \/ pc[d] = "verify" /\ ~recovering[d]
          => applied[d] = "ok"

RollbackOK ==
    /\ rpc \in [Rollbacks -> RollbackPoints]
    /\ rplan \in [Rollbacks -> Plans \union {None}]
    /\ rtodo \in [Rollbacks -> SUBSET Actions]
    /\ rimage \in [Rollbacks -> Identities \union {None}]
    /\ rany \in [Rollbacks -> BOOLEAN]
    /\ rfailed \in [Rollbacks -> BOOLEAN]
    /\ \A r \in Rollbacks : rpc[r] \in {"restore", "verify"} => rimage[r] \in Identities

HistoryOK ==
    /\ faults \in 0..MaxFaults
    /\ applies \in [Jobs -> Nat]
    /\ removed \subseteq Jobs \X Identities
    /\ withdrawn \subseteq Entries

TypeOK == RemoteOK /\ DeliveryOK /\ RollbackOK /\ HistoryOK

Init ==
    /\ grants = InitialGrants
    /\ locks = [j \in Jobs |-> Absent]
    /\ actions = {}
    /\ preimages = [a \in Actions |-> None]
    /\ audit = {}
    /\ pc = [d \in Deliveries |-> "idle"]
    /\ job = [d \in Deliveries |-> None]
    /\ target = [d \in Deliveries |-> None]
    /\ applied = [d \in Deliveries |-> "none"]
    /\ recovering = [d \in Deliveries |-> FALSE]
    /\ undone = [d \in Deliveries |-> FALSE]
    /\ reply = [d \in Deliveries |-> NoReply]
    /\ rpc = [r \in Rollbacks |-> "idle"]
    /\ rplan = [r \in Rollbacks |-> None]
    /\ rtodo = [r \in Rollbacks |-> {}]
    /\ rimage = [r \in Rollbacks |-> None]
    /\ rany = [r \in Rollbacks |-> FALSE]
    /\ rfailed = [r \in Rollbacks |-> FALSE]
    /\ faults = 0
    /\ applies = [j \in Jobs |-> 0]
    /\ removed = {}
    /\ withdrawn = {}

-----------------------------------------------------------------------------
(* Trouble and control flow.                                               *)

NoFault == UNCHANGED faults

Fault(kind) ==
    /\ kind \in Events
    /\ faults < MaxFaults
    /\ faults' = faults + 1

Goto(d, p) == pc' = [pc EXCEPT ![d] = p]

Seq(d)    == job[d][2]
Entry(d)  == <<target[d], RightOf[Seq(d)]>>

\* provider.snapshot() restricted to one (system, resource, scope).
Holders(right) == {i \in Identities : <<i, right>> \in grants}

\* Faulty variants of Recover: the exception is simply passed on, or it
\* releases the lock without asking whether apply was entered.
RecoverByRaising(d) == Goto(d, "raised") /\ UNCHANGED recovering
RecoverByRelease(d) == Goto(d, "release") /\ UNCHANGED recovering

\* Where an exception takes the delivery once apply was entered: the first
\* one to the inspection of the live state, one raised there to the caller.
Recover(d) ==
    IF recovering[d]
    THEN Goto(d, "raised") /\ UNCHANGED recovering
    ELSE Goto(d, "verify") /\ recovering' = [recovering EXCEPT ![d] = TRUE]

Return(d, ok, result) ==
    /\ Goto(d, "done")
    /\ reply' = [reply EXCEPT ![d] = [ok |-> ok, result |-> result, duplicate |-> FALSE]]

-----------------------------------------------------------------------------
(* IdempotencyStore.acquire                                                *)

\* Faulty variant of LockFree: a pending lock is taken over.
LockNotComplete(j) == locks[j].status # "complete"

LockFree(j) == locks[j].status = "absent"

\* The conditional put of the LOCK item.  When the put took effect but its
\* answer was lost, the client either reports the error or repeats the put
\* and meets its own item.
Claim(d, j) ==
    /\ pc[d] = "idle"
    /\ job' = [job EXCEPT ![d] = j]
    /\ \/ /\ NoFault
          /\ LockFree(j)
          /\ locks' = [locks EXCEPT ![j] = Pending]
          /\ Goto(d, "record")
       \/ /\ NoFault
          /\ ~LockFree(j)
          /\ Goto(d, "wait")
          /\ UNCHANGED locks
       \/ /\ Fault("dynamo")
          /\ LockFree(j)
          /\ locks' = [locks EXCEPT ![j] = Pending]
          /\ Goto(d, "raised") \/ Goto(d, "wait")
       \/ /\ Fault("dynamo")
          /\ Goto(d, "raised")
          /\ UNCHANGED locks
    /\ UNCHANGED <<grants, actions, preimages, audit, target, applied, recovering, undone,
                   reply, rollback, history>>

\* The unconditional put of the action record; an error leaves the lock.
RecordAction(d) ==
    /\ pc[d] = "record"
    /\ \/ NoFault /\ actions' = actions \union {job[d]} /\ Goto(d, "target")
       \/ Fault("dynamo") /\ actions' \in {actions, actions \union {job[d]}} /\ Goto(d, "raised")
    /\ UNCHANGED <<grants, locks, preimages, audit, locals, rollback, history>>

\* A duplicate finds the published result.
ReturnPrior(d) ==
    /\ pc[d] = "wait"
    /\ locks[job[d]].status = "complete"
    /\ NoFault
    /\ LET prior == locks[job[d]].result
       IN  reply' = [reply EXCEPT ![d] = [ok |-> prior = "ok", result |-> prior,
                                          duplicate |-> TRUE]]
    /\ Goto(d, "done")
    /\ UNCHANGED <<grants, store, preimages, audit, job, target, applied, recovering,
                   undone, rollback, history>>

\* A duplicate reaches its deadline, or its read fails.
GiveUpWaiting(d) ==
    /\ pc[d] = "wait"
    /\ \/ NoFault /\ locks[job[d]].status # "complete"
       \/ Fault("dynamo")
    /\ Goto(d, "raised")
    /\ UNCHANGED <<grants, store, preimages, audit, locals, rollback, history>>

\* IdempotencyStore.complete: an update without condition.
Complete(d, result) ==
    locks' = [locks EXCEPT ![job[d]] = [status |-> "complete", result |-> result]]

\* A call of complete that raises: the update may have been made.
CompleteFails(d, result) == Fault("dynamo") /\ (Complete(d, result) \/ UNCHANGED locks)

\* AuditWriter.write, and a write that raises.
Write(d, status) == audit' = audit \union {<<job[d], status>>}
WriteFails(d, status) == Fault("audit") /\ (Write(d, status) \/ UNCHANGED audit)

\* Faulty variant of Unlocked: the delete misses the item.
UnlockedNothing(d) == locks

Unlocked(d) == [locks EXCEPT ![job[d]] = Absent]

\* IdempotencyStore.release; the exception that led here is raised again.
Release(d) ==
    /\ pc[d] = "release"
    /\ \/ NoFault /\ locks' = Unlocked(d)
       \/ Fault("dynamo") /\ locks' \in {locks, Unlocked(d)}
    /\ Goto(d, "raised")
    /\ UNCHANGED <<grants, actions, preimages, audit, locals, rollback, history>>

-----------------------------------------------------------------------------
(* Executor.execute, before the mutation.                                  *)

\* The action needs a pre-image key and exactly one live entitlement.
Resolvable(a, i) == a \in Keyed /\ Holders(RightOf[a]) = {i}

ResolveTarget(d) ==
    /\ pc[d] = "target"
    /\ \/ /\ NoFault
          /\ \E i \in Identities :
                /\ Resolvable(Seq(d), i)
                /\ target' = [target EXCEPT ![d] = i]
          /\ Goto(d, "store")
       \/ /\ NoFault
          /\ \A i \in Identities : ~Resolvable(Seq(d), i)
          /\ Goto(d, "release")
          /\ UNCHANGED target
       \/ Fault("provider") /\ Goto(d, "release") /\ UNCHANGED target
    /\ UNCHANGED <<grants, store, preimages, audit, job, applied, recovering, undone,
                   reply, rollback, history>>

\* Faulty variant of StorePreimage: an error of the put is swallowed.
StorePreimageUnchecked(d) ==
    /\ pc[d] = "store"
    /\ \/ NoFault /\ preimages' = [preimages EXCEPT ![Seq(d)] = target[d]]
       \/ Fault("s3") /\ UNCHANGED preimages
    /\ Goto(d, "dryrun")
    /\ UNCHANGED <<grants, store, audit, locals, rollback, history>>

StorePreimage(d) ==
    LET written == [preimages EXCEPT ![Seq(d)] = target[d]]
    IN  /\ pc[d] = "store"
        /\ \/ NoFault /\ preimages' = written /\ Goto(d, "dryrun")
           \/ Fault("s3") /\ preimages' \in {preimages, written} /\ Goto(d, "release")
        /\ UNCHANGED <<grants, store, audit, locals, rollback, history>>

DryRun(d) ==
    /\ pc[d] = "dryrun"
    /\ \/ NoFault /\ (Goto(d, "apply") \/ Goto(d, "dryfail"))
       \/ Fault("provider") /\ Goto(d, "release")
    /\ UNCHANGED <<grants, store, preimages, audit, locals, rollback, history>>

CompleteDryRun(d) ==
    /\ pc[d] = "dryfail"
    /\ \/ NoFault /\ Complete(d, "failed") /\ Goto(d, "dryaudit")
       \/ CompleteFails(d, "failed") /\ Goto(d, "release")
    /\ UNCHANGED <<grants, actions, preimages, audit, locals, rollback, history>>

AuditDryRun(d) ==
    /\ pc[d] = "dryaudit"
    /\ \/ NoFault /\ Write(d, "dry_run_failed") /\ Return(d, FALSE, "failed")
       \/ WriteFails(d, "dry_run_failed") /\ Goto(d, "release") /\ UNCHANGED reply
    /\ UNCHANGED <<grants, store, preimages, job, target, applied, recovering, undone,
                   rollback, history>>

-----------------------------------------------------------------------------
(* Executor.execute, the mutation and what follows it.                     *)

\* provider.revoke(target, dry_run=False).  It may revoke, refuse, report a
\* success that had no effect, or raise before or after the effect.
Apply(d) ==
    LET revoked == grants \ {Entry(d)}
    IN  /\ pc[d] = "apply"
        /\ applies' = [applies EXCEPT ![job[d]] = @ + 1]
        /\ \/ /\ (NoFault /\ grants' = revoked) \/ (Fault("provider") /\ grants' = grants)
              /\ applied' = [applied EXCEPT ![d] = "ok"]
              /\ Goto(d, "verify")
              /\ UNCHANGED recovering
           \/ /\ NoFault
              /\ grants' = grants
              /\ applied' = [applied EXCEPT ![d] = "failed"]
              /\ Goto(d, "refuse")
              /\ UNCHANGED recovering
           \/ /\ Fault("provider")
              /\ grants' \in {grants, revoked}
              /\ applied' = [applied EXCEPT ![d] = "raised"]
              /\ Recover(d)
        /\ removed' = removed \union
                      {je \in Jobs \X Identities : /\ je[1] = job[d]
                                                   /\ <<je[2], RightOf[Seq(d)]>> \in grants \ grants'}
        /\ UNCHANGED <<store, preimages, audit, job, target, undone, reply, rollback, withdrawn>>

CompleteRefusal(d) ==
    /\ pc[d] = "refuse"
    /\ \/ NoFault /\ Complete(d, "failed") /\ Goto(d, "refuseaudit") /\ UNCHANGED recovering
       \/ CompleteFails(d, "failed") /\ Recover(d)
    /\ UNCHANGED <<grants, actions, preimages, audit, job, target, applied, undone, reply,
                   rollback, history>>

AuditRefusal(d) ==
    /\ pc[d] = "refuseaudit"
    /\ \/ /\ NoFault
          /\ Write(d, "apply_failed")
          /\ Return(d, FALSE, "failed")
          /\ UNCHANGED recovering
       \/ WriteFails(d, "apply_failed") /\ Recover(d) /\ UNCHANGED reply
    /\ UNCHANGED <<grants, store, preimages, job, target, applied, undone, rollback, history>>

\* Faulty variant of StillLive: the provider's reply is taken at its word.
NotReportedRevoked(d) == applied[d] # "ok"

StillLive(d) == Entry(d) \in grants

\* verify_revoked, after an apply that reported success and again, on the
\* live state, after an exception.
Verify(d) ==
    /\ pc[d] = "verify"
    /\ \/ /\ NoFault
          /\ Goto(d, IF StillLive(d) THEN "restore"
                     ELSE IF recovering[d] THEN "settle" ELSE "audit")
          /\ UNCHANGED recovering
       \/ Fault("provider") /\ Recover(d)
    /\ UNCHANGED <<grants, store, preimages, audit, job, target, applied, undone, reply,
                   rollback, history>>

\* The automatic rollback restores the pre-image the delivery captured.
Restore(d) ==
    LET restored == grants \union {Entry(d)}
    IN  /\ pc[d] = "restore"
        /\ \/ /\ NoFault
              /\ grants' = restored
              /\ Goto(d, "reverify")
              /\ UNCHANGED <<undone, recovering>>
           \/ /\ Fault("provider")
              /\ undone' = [undone EXCEPT ![d] = FALSE]
              /\ Goto(d, "final")
              /\ UNCHANGED <<grants, recovering>>
           \/ /\ Fault("provider")
              /\ grants' \in {grants, restored}
              /\ Recover(d)
              /\ UNCHANGED undone
        /\ UNCHANGED <<store, preimages, audit, job, target, applied, reply, rollback, history>>

VerifyRestored(d) ==
    /\ pc[d] = "reverify"
    /\ \/ /\ NoFault
          /\ undone' = [undone EXCEPT ![d] = Entry(d) \in grants]
          /\ Goto(d, "final")
          /\ UNCHANGED recovering
       \/ Fault("provider") /\ Recover(d) /\ UNCHANGED undone
    /\ UNCHANGED <<grants, store, preimages, audit, job, target, applied, reply, rollback,
                   history>>

CompleteRollback(d) ==
    /\ pc[d] = "final"
    /\ \/ NoFault /\ Complete(d, "failed") /\ Goto(d, "finalaudit") /\ UNCHANGED recovering
       \/ CompleteFails(d, "failed") /\ Recover(d)
    /\ UNCHANGED <<grants, actions, preimages, audit, job, target, applied, undone, reply,
                   rollback, history>>

\* The lock keeps the failure, the caller is handed the provider's result.
AuditRollback(d) ==
    LET status == IF undone[d] THEN "rolled_back" ELSE "rollback_failed"
        result == IF applied[d] = "raised" THEN "none" ELSE applied[d]
    IN  /\ pc[d] = "finalaudit"
        /\ \/ NoFault /\ Write(d, status) /\ Return(d, FALSE, result) /\ UNCHANGED recovering
           \/ WriteFails(d, status) /\ Recover(d) /\ UNCHANGED reply
        /\ UNCHANGED <<grants, store, preimages, job, target, applied, undone, rollback, history>>

AuditCompleted(d) ==
    /\ pc[d] = "audit"
    /\ \/ NoFault /\ Write(d, "completed") /\ Goto(d, "complete")
       \/ WriteFails(d, "completed") /\ Goto(d, "completeunaudited")
    /\ UNCHANGED <<grants, store, preimages, locals, rollback, history>>

CompleteApplied(d) ==
    /\ pc[d] \in {"complete", "completeunaudited"}
    /\ \/ /\ NoFault
          /\ Complete(d, applied[d])
          /\ \/ pc[d] = "complete" /\ Return(d, TRUE, applied[d])
             \/ pc[d] = "completeunaudited" /\ Return(d, FALSE, applied[d])
          /\ UNCHANGED recovering
       \/ CompleteFails(d, applied[d]) /\ Recover(d) /\ UNCHANGED reply
    /\ UNCHANGED <<grants, actions, preimages, audit, job, target, applied, undone, rollback,
                   history>>

\* Faulty variant of Settlement: there may be no applied result to publish.
AppliedAsIs(d) == applied[d]

\* After an exception the entitlement is gone: the action counts as done.
Settlement(d) == IF applied[d] = "raised" THEN "ok" ELSE applied[d]

CompleteSettled(d) ==
    /\ pc[d] = "settle"
    /\ \/ NoFault /\ Complete(d, Settlement(d)) /\ Goto(d, "settleaudit")
       \/ CompleteFails(d, Settlement(d)) /\ Goto(d, "raised")
    /\ UNCHANGED <<grants, actions, preimages, audit, locals, rollback, history>>

AuditSettled(d) ==
    /\ pc[d] = "settleaudit"
    /\ \/ /\ NoFault
          /\ Write(d, "completed_after_provider_error")
          /\ Return(d, TRUE, Settlement(d))
       \/ /\ WriteFails(d, "completed_after_provider_error")
          /\ Goto(d, "raised")
          /\ UNCHANGED reply
    /\ UNCHANGED <<grants, store, preimages, job, target, applied, recovering, undone,
                   rollback, history>>

-----------------------------------------------------------------------------
(* RollbackExecutor.rollback: of one recorded action, or of all of them.   *)

Recorded(p) == {a \in Actions : <<p, a>> \in actions}

StartRollback(r) ==
    /\ rpc[r] = "idle"
    /\ \E p \in Plans :
          /\ Recorded(p) # {}
          /\ rplan' = [rplan EXCEPT ![r] = p]
          /\ \E todo \in {Recorded(p)} \union {{a} : a \in Recorded(p)} :
                rtodo' = [rtodo EXCEPT ![r] = todo]
    /\ rpc' = [rpc EXCEPT ![r] = "read"]
    /\ NoFault
    /\ UNCHANGED <<grants, store, preimages, audit, pc, locals, rimage, rany, rfailed, history>>

\* The action in hand: sequences are rolled back in ascending order.
InHand(r, a) == a \in rtodo[r] /\ \A b \in rtodo[r] : a <= b

\* An exception inside _rollback_one is noted and the loop goes on.
Skip(r, a) ==
    /\ rtodo' = [rtodo EXCEPT ![r] = @ \ {a}]
    /\ rfailed' = [rfailed EXCEPT ![r] = TRUE]
    /\ rpc' = [rpc EXCEPT ![r] = "read"]

\* Faulty variant of Readable: a missing object counts as an empty pre-image.
ReadableIfKeyed(a) == a \in Keyed

Readable(a) == a \in Keyed /\ preimages[a] # None

ReadPreimage(r, a) ==
    /\ rpc[r] = "read"
    /\ InHand(r, a)
    /\ \/ /\ NoFault
          /\ Readable(a)
          /\ rimage' = [rimage EXCEPT ![r] = preimages[a]]
          /\ rpc' = [rpc EXCEPT ![r] = "restore"]
          /\ UNCHANGED <<rtodo, rfailed>>
       \/ /\ (NoFault /\ ~Readable(a)) \/ Fault("s3")
          /\ Skip(r, a)
          /\ UNCHANGED rimage
    /\ UNCHANGED <<grants, store, preimages, audit, pc, locals, rplan, rany, history>>

\* provider.restore; when it refuses, nothing is verified.
RestorePreimage(r, a) ==
    LET restored == grants \union {<<rimage[r], RightOf[a]>>}
    IN  /\ rpc[r] = "restore"
        /\ InHand(r, a)
        /\ \/ /\ NoFault
              /\ grants' = restored
              /\ rpc' = [rpc EXCEPT ![r] = "verify"]
              /\ UNCHANGED <<rtodo, rfailed>>
           \/ /\ Fault("provider")
              /\ rfailed' = [rfailed EXCEPT ![r] = TRUE]
              /\ rpc' = [rpc EXCEPT ![r] = "audit"]
              /\ UNCHANGED <<grants, rtodo>>
           \/ /\ Fault("provider")
              /\ grants' \in {grants, restored}
              /\ Skip(r, a)
        /\ UNCHANGED <<store, preimages, audit, pc, locals, rplan, rimage, rany, history>>

VerifyPreimage(r, a) ==
    /\ rpc[r] = "verify"
    /\ InHand(r, a)
    /\ \/ /\ NoFault
          /\ rfailed' = [rfailed EXCEPT ![r] = @ \/ <<rimage[r], RightOf[a]>> \notin grants]
          /\ rpc' = [rpc EXCEPT ![r] = "audit"]
          /\ UNCHANGED rtodo
       \/ Fault("provider") /\ Skip(r, a)
    /\ UNCHANGED <<grants, store, preimages, audit, pc, locals, rplan, rimage, rany, history>>

\* The rollback record goes to the plan's audit chain (module AuditChain);
\* only a failure to write it matters here.
AuditPreimage(r, a) ==
    /\ rpc[r] = "audit"
    /\ InHand(r, a)
    /\ \/ /\ NoFault
          /\ rany' = [rany EXCEPT ![r] = TRUE]
          /\ rtodo' = [rtodo EXCEPT ![r] = @ \ {a}]
          /\ rpc' = [rpc EXCEPT ![r] = "read"]
          /\ UNCHANGED rfailed
       \/ Fault("audit") /\ Skip(r, a) /\ UNCHANGED rany
    /\ UNCHANGED <<grants, store, preimages, audit, pc, locals, rplan, rimage, history>>

EndRollback(r) ==
    /\ rpc[r] = "read"
    /\ rtodo[r] = {}
    /\ rpc' = [rpc EXCEPT ![r] = "done"]
    /\ NoFault
    /\ UNCHANGED <<grants, store, preimages, audit, pc, locals, rplan, rtodo, rimage, rany,
                   rfailed, history>>

RollbackSucceeded(r) == rpc[r] = "done" /\ rany[r] /\ ~rfailed[r]

-----------------------------------------------------------------------------
(* What happens around the executor.                                       *)

Running(d) == pc[d] \in Holding \union {"wait"}

\* The process dies, for example at the Lambda timeout of 30 seconds.
Crash(d) ==
    /\ Running(d)
    /\ Fault("crash")
    /\ Goto(d, "dead")
    /\ UNCHANGED <<grants, store, preimages, audit, locals, rollback, history>>

\* DynamoDB drops an item after its ttl of 24 hours, which outlives every
\* process that could still be executing under it.
ExpireLock(j) ==
    /\ ~LockFree(j)
    /\ \A d \in Deliveries : pc[d] \in Holding => job[d] # j
    /\ Fault("expiry")
    /\ locks' = [locks EXCEPT ![j] = Absent]
    /\ UNCHANGED <<grants, actions, preimages, audit, pc, locals, rollback, history>>

ExpireAction(j) ==
    /\ j \in actions
    /\ \A d \in Deliveries : pc[d] \in Holding => job[d] # j
    /\ Fault("expiry")
    /\ actions' = actions \ {j}
    /\ UNCHANGED <<grants, locks, preimages, audit, pc, locals, rollback, history>>

\* Somebody grants or revokes an entitlement outside deadbolt.
Administer(e) ==
    /\ Fault("admin")
    /\ grants' = IF e \in grants THEN grants \ {e} ELSE grants \union {e}
    /\ withdrawn' = IF e \in grants THEN withdrawn \union {e} ELSE withdrawn
    /\ UNCHANGED <<store, preimages, audit, pc, locals, rollback, applies, removed>>

-----------------------------------------------------------------------------
Deliver(d) == \E j \in Jobs : Claim(d, j)

Execute(d) ==
    \/ RecordAction(d) \/ ReturnPrior(d) \/ GiveUpWaiting(d) \/ Release(d)
    \/ ResolveTarget(d) \/ StorePreimage(d) \/ DryRun(d) \/ CompleteDryRun(d) \/ AuditDryRun(d)
    \/ Apply(d) \/ CompleteRefusal(d) \/ AuditRefusal(d)
    \/ Verify(d) \/ Restore(d) \/ VerifyRestored(d) \/ CompleteRollback(d) \/ AuditRollback(d)
    \/ AuditCompleted(d) \/ CompleteApplied(d) \/ CompleteSettled(d) \/ AuditSettled(d)

RollbackStep(r, a) ==
    ReadPreimage(r, a) \/ RestorePreimage(r, a) \/ VerifyPreimage(r, a) \/ AuditPreimage(r, a)

Environment ==
    \/ \E d \in Deliveries : Crash(d)
    \/ \E j \in Jobs : ExpireLock(j) \/ ExpireAction(j)
    \/ \E e \in Entries : Administer(e)

Next ==
    \/ \E d \in Deliveries : Deliver(d) \/ Execute(d)
    \/ \E r \in Rollbacks : StartRollback(r) \/ EndRollback(r)
    \/ \E r \in Rollbacks, a \in Actions : RollbackStep(r, a)
    \/ Environment

Spec == Init /\ [][Next]_vars

\* A call that has started runs on: execute is one synchronous function.
FairSpec == Spec /\ \A d \in Deliveries : WF_vars(Execute(d))

-----------------------------------------------------------------------------
(* Properties.                                                             *)

\* Two deliveries never work under the lock of the same action at once,
\* although complete and release carry no owner token: the conditional put,
\* and a ttl longer than any process, have to be enough.
LeaseExclusive ==
    \A d, e \in Deliveries :
        pc[d] \in Holding /\ pc[e] \in Holding /\ job[d] = job[e] => d = e

\* However often an action is delivered, the provider is asked at most once
\* to carry it out, as long as the lock does not expire: what releases the
\* lock (a failed dry run, an error before apply) must come before apply.
AtMostOneApply == \A j \in Jobs : applies[j] <= 1

\* Whatever an apply removed can be put back: the action is recorded and the
\* pre-image that its key leads to describes the identity that lost access.
Reversible ==
    \A je \in removed : je[1] \in actions /\ preimages[je[1][2]] = je[2]

\* An action whose apply was entered ends as a completed action (revoked and
\* published as ok) or a completed rollback (live and published as failed).
NeverNeither ==
    \A d \in Deliveries :
        pc[d] \in Stopped /\ applied[d] # "none" =>
            /\ locks[job[d]].status = "complete"
            /\ locks[job[d]].result = "ok" <=> Entry(d) \notin grants

\* An execute record that claims completion never stands against a live
\* entitlement, and a delivery that returned success left such a record.
AuditTellsTheTruth ==
    LET claimed(j) == \E s \in {"completed", "completed_after_provider_error"} : <<j, s>> \in audit
    IN  /\ \A j \in Jobs : claimed(j) => Holders(RightOf[j[2]]) = {}
        /\ \A d \in Deliveries : reply[d].ok /\ ~reply[d].duplicate => claimed(job[d])

\* The entitlements that applies removed.
Taken == {<<je[2], RightOf[je[1][2]]>> : je \in removed}

\* Neither the automatic nor the requested rollback grants an entitlement
\* that nobody had before, whoever moves entitlements meanwhile: an apply had
\* removed it, or an administrator.  That the latter is undone too, when the
\* right of an action that was never applied was revoked by hand, is not
\* excluded (UndoesOnlyItsOwn, below).
OnlyReturnsWhatItTook ==
    [][\A e \in grants' \ grants : e \in Taken \union withdrawn \/ Administer(e)]_vars

\* The lock of an action that is being executed is released or completed,
\* so that duplicates are not turned away for the rest of its ttl.
LockSettles ==
    \A j \in Jobs : locks[j].status = "pending" ~> locks[j].status # "pending"

-----------------------------------------------------------------------------
(* What the documentation promises and the code does not keep; section 5   *)
(* of the README names the instances that show it.                         *)

\* The audit chain of a plan numbers its records by action, so that it can
\* hold one execute record of each (module AuditChain: equal numbers break it).
OneRecordPerAction == \A r, q \in audit : r[1] = q[1] => r = q

\* The entitlement an action removes belongs to the identity its finding was
\* about: ambiguity fails closed, an identity is never guessed.
RevokesTheSubject == \A je \in removed : je[2] = SubjectOf[je[1][2]]

\* A rollback undoes what deadbolt did: it grants nothing but what an apply
\* removed.  It restores every pre-image of the plan, also that of an action
\* which was never applied and whose right somebody else has revoked since.
UndoesOnlyItsOwn == [][\A e \in grants' \ grants : e \in Taken \/ Administer(e)]_vars

\* Once a delivery of an action has returned a result, no later delivery of
\* it reaches the provider with a mutation.
DuplicateIsNoOp ==
    [][\A d \in Deliveries, j \in Jobs :
            pc[d] = "done" /\ job[d] = j => applies'[j] = applies[j]]_vars
=============================================================================
