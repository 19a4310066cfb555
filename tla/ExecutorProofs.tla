--------------------------- MODULE ExecutorProofs ---------------------------
(***************************************************************************)
(* What holds of the executor for every number of plans, actions,          *)
(* deliveries, rollbacks and faults.                                       *)
(***************************************************************************)
EXTENDS Executor, TLAPS

-----------------------------------------------------------------------------
(* Type correctness, one lemma for each part of TypeOK.                    *)

\* The lock items and the replies the code builds are well-formed.
LEMMA ItemShapes ==
    /\ Absent \in LockItems /\ Pending \in LockItems
    /\ {"none", "ok", "failed"} \subseteq Results
    /\ \A x \in Results : [status |-> "complete", result |-> x] \in LockItems
    /\ \A x \in LockItems : x.result \in Results
    /\ NoReply \in Replies
    /\ \A b, c \in BOOLEAN, x \in Results : [ok |-> b, result |-> x, duplicate |-> c] \in Replies
BY DEF Absent, Pending, LockItems, Results, NoReply, Replies

\* A delivery works on a job, and what it publishes is a result.
LEMMA DeliveryFacts ==
    ASSUME DeliveryOK, NEW d \in Deliveries, pc[d] # "idle"
    PROVE  /\ job[d] \in Jobs
           /\ Seq(d) \in Actions
           /\ job[d] = <<job[d][1], Seq(d)>>
           /\ job[d][1] \in Plans
           /\ Settlement(d) \in Results
           /\ applied[d] # "raised" => applied[d] \in Results
BY DEF DeliveryOK, Seq, Jobs, Settlement, Results

\* complete and its failures leave well-formed locks.
LEMMA CompleteShapes ==
    ASSUME RemoteOK, NEW d \in Deliveries, job[d] \in Jobs, NEW x \in Results,
           Complete(d, x) \/ CompleteFails(d, x)
    PROVE  locks' \in [Jobs -> LockItems]
BY ItemShapes DEF RemoteOK, Complete, CompleteFails

\* write and its failures leave well-formed records.
LEMMA WriteShapes ==
    ASSUME RemoteOK, NEW d \in Deliveries, job[d] \in Jobs, NEW s \in Statuses,
           Write(d, s) \/ WriteFails(d, s)
    PROVE  audit' \subseteq Jobs \X Statuses
BY DEF RemoteOK, Write, WriteFails

\* A step of a delivery leaves well-formed items on the remote sides.
LEMMA RemoteExecute ==
    ASSUME ExecutorAssumption, RemoteOK, DeliveryOK, NEW d \in Deliveries, Execute(d)
    PROVE  RemoteOK'
<1>1. pc[d] # "idle"
  BY DEF Execute, RecordAction, ReturnPrior, GiveUpWaiting, Release, ResolveTarget, StorePreimage,
         DryRun, CompleteDryRun, AuditDryRun, Apply, CompleteRefusal, AuditRefusal, Verify,
         Restore, VerifyRestored, CompleteRollback, AuditRollback, AuditCompleted,
         CompleteApplied, CompleteSettled, AuditSettled
<1>2. job[d] \in Jobs /\ Seq(d) \in Actions /\ Settlement(d) \in Results
  BY <1>1, DeliveryFacts
<1>3. pc[d] \in Targeted => Entry(d) \in Entries
  BY <1>2 DEF Entry, Entries, DeliveryOK, ExecutorAssumption
<1>4. CASE RecordAction(d)
  BY <1>2, <1>4 DEF RecordAction, RemoteOK
<1>5. CASE ReturnPrior(d) \/ GiveUpWaiting(d) \/ ResolveTarget(d) \/ DryRun(d)
           \/ Verify(d) \/ VerifyRestored(d)
  BY <1>5 DEF ReturnPrior, GiveUpWaiting, ResolveTarget, DryRun, Verify, VerifyRestored, store,
              RemoteOK
<1>6. CASE Release(d)
  BY <1>2, <1>6, ItemShapes DEF Release, Unlocked, RemoteOK
<1>7. CASE StorePreimage(d)
  BY <1>2, <1>7 DEF StorePreimage, store, RemoteOK, DeliveryOK
<1>8. CASE CompleteDryRun(d) \/ CompleteRefusal(d) \/ CompleteRollback(d)
  <2>1. locks' \in [Jobs -> LockItems]
    BY <1>2, <1>8, CompleteShapes, ItemShapes
       DEF CompleteDryRun, CompleteRefusal, CompleteRollback
  <2> QED
    BY <1>8, <2>1 DEF CompleteDryRun, CompleteRefusal, CompleteRollback, RemoteOK
<1>9. CASE CompleteSettled(d)
  <2>1. locks' \in [Jobs -> LockItems]
    BY <1>2, <1>9, CompleteShapes DEF CompleteSettled
  <2> QED
    BY <1>9, <2>1 DEF CompleteSettled, RemoteOK
<1>10. CASE CompleteApplied(d)
  <2>1. applied[d] \in Results
    BY <1>10, ItemShapes DEF CompleteApplied, DeliveryOK
  <2>2. locks' \in [Jobs -> LockItems]
    BY <1>2, <1>10, <2>1, CompleteShapes DEF CompleteApplied
  <2> QED
    BY <1>10, <2>2 DEF CompleteApplied, RemoteOK
<1>11. CASE AuditDryRun(d) \/ AuditRefusal(d) \/ AuditRollback(d) \/ AuditCompleted(d)
            \/ AuditSettled(d)
  <2>1. audit' \subseteq Jobs \X Statuses
    BY <1>2, <1>11, WriteShapes
       DEF AuditDryRun, AuditRefusal, AuditRollback, AuditCompleted, AuditSettled, Statuses
  <2> QED
    BY <1>11, <2>1 DEF AuditDryRun, AuditRefusal, AuditRollback, AuditCompleted, AuditSettled,
                       store, RemoteOK
<1>12. CASE Apply(d)
  BY <1>12 DEF Apply, store, RemoteOK
<1>13. CASE Restore(d)
  <2>1. Entry(d) \in Entries
    BY <1>3, <1>13 DEF Restore, Targeted, AfterApply
  <2>2. grants' \subseteq Entries
    BY <1>13, <2>1 DEF Restore, RemoteOK
  <2> QED
    BY <1>13, <2>2 DEF Restore, store, RemoteOK
<1> QED
  BY <1>4, <1>5, <1>6, <1>7, <1>8, <1>9, <1>10, <1>11, <1>12, <1>13 DEF Execute

\* A step of a delivery leaves well-formed locals.
LEMMA LocalsExecute ==
    ASSUME RemoteOK, DeliveryOK, NEW d \in Deliveries, Execute(d)
    PROVE  DeliveryOK'
<1> USE DEF Execute, RecordAction, ReturnPrior, GiveUpWaiting, Release, ResolveTarget,
            StorePreimage, DryRun, CompleteDryRun, AuditDryRun, Apply, CompleteRefusal,
            AuditRefusal, Verify, Restore, VerifyRestored, CompleteRollback, AuditRollback,
            AuditCompleted, CompleteApplied, CompleteSettled, AuditSettled, Recover, locals, Goto
<1>1. pc[d] # "idle" /\ job' = job
  OBVIOUS
<1>2. \E p \in Points \ {"idle"} : pc' = [pc EXCEPT ![d] = p]
  BY DEF Return, Points, Holding, BeforeApply, AfterApply, Stopped
<1>3. pc' \in [Deliveries -> Points]
  BY <1>2 DEF DeliveryOK
<1>4. \A e \in Deliveries : pc'[e] # "idle" => job'[e] \in Jobs
  BY <1>1, <1>2 DEF DeliveryOK
<1>5. \A e \in Deliveries : pc'[e] \in Targeted => target'[e] \in Identities
  BY DEF DeliveryOK, Return, Targeted, AfterApply
<1>6. \A e \in Deliveries :
          \/ pc'[e] \in {"audit", "complete", "completeunaudited"}
          \/ pc'[e] = "verify" /\ ~recovering'[e]
          => applied'[e] = "ok"
  BY DEF DeliveryOK, Return
<1>7. target' \in [Deliveries -> Identities \union {None}]
  BY DEF DeliveryOK
<1>8. applied' \in [Deliveries -> {"none", "raised", "ok", "failed"}]
  BY DEF DeliveryOK
<1>9. recovering' \in [Deliveries -> BOOLEAN]
  BY DEF DeliveryOK
<1>10. undone' \in [Deliveries -> BOOLEAN]
  <2>1. \/ undone' = undone
        \/ undone' = [undone EXCEPT ![d] = FALSE]
        \/ undone' = [undone EXCEPT ![d] = TRUE]
    <3>1. CASE VerifyRestored(d) /\ Entry(d) \in grants
      BY <3>1
    <3>2. CASE VerifyRestored(d) /\ Entry(d) \notin grants
      BY <3>2
    <3> QED BY <3>1, <3>2 DEF Return
  <2> QED BY <2>1 DEF DeliveryOK
<1>11. reply' \in [Deliveries -> Replies]
  <2>1. ASSUME NEW b \in BOOLEAN, NEW x \in Results, Return(d, b, x)
        PROVE  reply' \in [Deliveries -> Replies]
    BY <2>1, ItemShapes DEF Return, DeliveryOK
  <2>2. applied[d] # "raised" => applied[d] \in Results
    BY <1>1, DeliveryFacts
  <2>3. CASE ReturnPrior(d)
    BY <2>3, ItemShapes DEF RemoteOK, DeliveryOK
  <2>4. CASE AuditRollback(d)
    BY <2>1, <2>2, <2>4, ItemShapes DEF DeliveryOK
  <2>5. CASE AuditSettled(d)
    BY <1>1, <2>1, <2>5, DeliveryFacts DEF DeliveryOK
  <2>6. CASE CompleteApplied(d)
    BY <2>1, <2>2, <2>6, ItemShapes DEF DeliveryOK
  <2>7. CASE AuditDryRun(d)
    BY <2>1, <2>7, ItemShapes DEF DeliveryOK
  <2>8. CASE AuditRefusal(d)
    BY <2>1, <2>8, ItemShapes DEF DeliveryOK
  <2> QED BY <2>3, <2>4, <2>5, <2>6, <2>7, <2>8 DEF DeliveryOK
<1>12. job' \in [Deliveries -> Jobs \union {None}]
  BY <1>1 DEF DeliveryOK
<1> QED
  BY <1>3, <1>4, <1>5, <1>6, <1>7, <1>8, <1>9, <1>10, <1>11, <1>12 DEF DeliveryOK

\* Claiming, or failing to claim, the lock of a job.
LEMMA DeliverShapes ==
    ASSUME ExecutorAssumption, RemoteOK, DeliveryOK, NEW d \in Deliveries, Deliver(d)
    PROVE  RemoteOK' /\ DeliveryOK'
<1>1. PICK j \in Jobs : Claim(d, j)
  BY DEF Deliver
<1>2. RemoteOK'
  BY <1>1, ItemShapes DEF Claim, RemoteOK
<1>3. PICK p \in {"record", "wait", "raised"} : pc' = [pc EXCEPT ![d] = p]
  BY <1>1 DEF Claim, Goto
<1>4. pc' \in [Deliveries -> Points]
  BY <1>3 DEF DeliveryOK, Points, Holding, BeforeApply, Stopped
<1>5. /\ job' \in [Deliveries -> Jobs \union {None}]
      /\ \A e \in Deliveries : pc'[e] # "idle" => job'[e] \in Jobs
  BY <1>1, <1>3 DEF Claim, DeliveryOK
<1>6. \A e \in Deliveries : pc'[e] \in Targeted => target'[e] \in Identities
  BY <1>1, <1>3 DEF Claim, DeliveryOK, Targeted, AfterApply
<1>7. \A e \in Deliveries :
          \/ pc'[e] \in {"audit", "complete", "completeunaudited"}
          \/ pc'[e] = "verify" /\ ~recovering'[e]
          => applied'[e] = "ok"
  BY <1>1, <1>3 DEF Claim, DeliveryOK
<1>8. UNCHANGED <<target, applied, recovering, undone, reply>>
  BY <1>1 DEF Claim
<1> QED
  BY <1>2, <1>4, <1>5, <1>6, <1>7, <1>8 DEF DeliveryOK

\* Deliveries do not touch the locals of rollbacks.
LEMMA RollbackApart ==
    ASSUME RollbackOK, NEW d \in Deliveries, Deliver(d) \/ Execute(d)
    PROVE  RollbackOK'
<1>1. UNCHANGED rollback
  BY DEF Deliver, Claim, Execute, RecordAction, ReturnPrior, GiveUpWaiting, Release,
         ResolveTarget, StorePreimage, DryRun, CompleteDryRun, AuditDryRun, Apply,
         CompleteRefusal, AuditRefusal, Verify, Restore, VerifyRestored, CompleteRollback,
         AuditRollback, AuditCompleted, CompleteApplied, CompleteSettled, AuditSettled
<1> QED
  BY <1>1 DEF rollback, RollbackOK

\* A step of a delivery counts its fault and its apply.
LEMMA HistoryDeliver ==
    ASSUME ExecutorAssumption, HistoryOK, DeliveryOK, NEW d \in Deliveries,
           Deliver(d) \/ Execute(d)
    PROVE  HistoryOK'
<1>1. faults' \in 0..MaxFaults
  <2>1. faults' = faults \/ (faults < MaxFaults /\ faults' = faults + 1)
    BY DEF Deliver, Claim, Execute, RecordAction, ReturnPrior, GiveUpWaiting, Release,
           ResolveTarget, StorePreimage, DryRun, CompleteDryRun, AuditDryRun, Apply,
           CompleteRefusal, AuditRefusal, Verify, Restore, VerifyRestored, CompleteRollback,
           AuditRollback, AuditCompleted, CompleteApplied, CompleteSettled, AuditSettled,
           NoFault, Fault, CompleteFails, WriteFails
  <2> QED
    BY <2>1 DEF HistoryOK, ExecutorAssumption
<1>2. CASE Apply(d)
  <2>1. applies' \in [Jobs -> Nat]
    <3>1. applies' = [applies EXCEPT ![job[d]] = @ + 1]
      BY <1>2 DEF Apply
    <3>2. job[d] \in Jobs
      BY <1>2, DeliveryFacts DEF Apply
    <3>3. applies[job[d]] + 1 \in Nat
      BY <3>2 DEF HistoryOK
    <3> QED
      BY <3>1, <3>2, <3>3 DEF HistoryOK
  <2>2. removed' \subseteq Jobs \X Identities
    BY <1>2 DEF Apply, HistoryOK
  <2> QED
    BY <1>1, <1>2, <2>1, <2>2 DEF Apply, HistoryOK
<1>3. CASE ~Apply(d)
  <2>1. UNCHANGED history
    BY <1>3 DEF Deliver, Claim, Execute, RecordAction, ReturnPrior, GiveUpWaiting, Release,
           ResolveTarget, StorePreimage, DryRun, CompleteDryRun, AuditDryRun,
           CompleteRefusal, AuditRefusal, Verify, Restore, VerifyRestored, CompleteRollback,
           AuditRollback, AuditCompleted, CompleteApplied, CompleteSettled, AuditSettled
  <2> QED
    BY <1>1, <2>1 DEF history, HistoryOK
<1> QED
  BY <1>2, <1>3
\* A step of a rollback: it moves only the live entitlements and its own locals.
LEMMA RollbackShapes ==
    ASSUME ExecutorAssumption, TypeOK, NEW r \in Rollbacks,
           \/ StartRollback(r) \/ EndRollback(r)
           \/ \E a \in Actions : RollbackStep(r, a)
    PROVE  TypeOK'
<1> USE DEF StartRollback, EndRollback, RollbackStep, ReadPreimage, RestorePreimage,
            VerifyPreimage, AuditPreimage, TypeOK
<1>1. UNCHANGED <<store, preimages, audit, pc, locals, history>>
  OBVIOUS
<1>2. grants' \subseteq Entries
  <2>1. ASSUME NEW a \in Actions, RestorePreimage(r, a)
        PROVE  grants' \subseteq Entries
    <3>1. <<rimage[r], RightOf[a]>> \in Entries
      BY <2>1 DEF RollbackOK, ExecutorAssumption, Entries
    <3> QED
      BY <2>1, <3>1 DEF RemoteOK, Skip
  <2> QED
    BY <2>1 DEF RemoteOK
<1>3. RemoteOK' /\ DeliveryOK'
  BY <1>1, <1>2 DEF RemoteOK, DeliveryOK, store, locals, history
<1>4. HistoryOK'
  <2>1. faults' = faults \/ (faults < MaxFaults /\ faults' = faults + 1)
    BY DEF NoFault, Fault
  <2> QED
    BY <1>1, <2>1 DEF HistoryOK, history, ExecutorAssumption
<1>5. rpc' \in [Rollbacks -> RollbackPoints]
  BY DEF RollbackOK, RollbackPoints, Skip
<1>6. rplan' \in [Rollbacks -> Plans \union {None}]
  BY DEF RollbackOK
<1>7. rtodo' \in [Rollbacks -> SUBSET Actions]
  <2>1. rtodo' = rtodo \/ \E todo \in SUBSET Actions : rtodo' = [rtodo EXCEPT ![r] = todo]
    <3>1. CASE StartRollback(r)
      <4>1. PICK p \in Plans : \E todo \in {Recorded(p)} \union {{a} : a \in Recorded(p)} :
                rtodo' = [rtodo EXCEPT ![r] = todo]
        BY <3>1
      <4>2. Recorded(p) \subseteq Actions
        BY DEF Recorded
      <4> QED
        BY <4>1, <4>2
    <3>2. ASSUME NEW a \in Actions, RollbackStep(r, a)
          PROVE  rtodo' = rtodo \/ rtodo' = [rtodo EXCEPT ![r] = rtodo[r] \ {a}]
      BY <3>2 DEF Skip
    <3>3. rtodo[r] \subseteq Actions
      BY DEF RollbackOK
    <3> QED
      BY <3>1, <3>2, <3>3
  <2> QED
    BY <2>1 DEF RollbackOK
<1>8. rimage' \in [Rollbacks -> Identities \union {None}]
  <2>1. \/ rimage' = rimage
        \/ \E a \in Actions : rimage' = [rimage EXCEPT ![r] = preimages[a]]
    OBVIOUS
  <2>2. \A a \in Actions : preimages[a] \in Identities \union {None}
    BY DEF RemoteOK
  <2> QED
    BY <2>1, <2>2 DEF RollbackOK
<1>9. rany' \in [Rollbacks -> BOOLEAN]
  BY DEF RollbackOK
<1>10. rfailed' \in [Rollbacks -> BOOLEAN]
  BY DEF RollbackOK, Skip
<1>11. \A q \in Rollbacks : rpc'[q] \in {"restore", "verify"} => rimage'[q] \in Identities
  <2>1. \A q \in Rollbacks \ {r} : rpc'[q] = rpc[q] /\ rimage'[q] = rimage[q]
    BY DEF RollbackOK, Skip
  <2>2. rpc'[r] \in {"restore", "verify"} => rimage'[r] \in Identities
    <3>1. CASE rpc[r] = "restore"
      BY <3>1 DEF RollbackOK, Skip
    <3>2. CASE rpc[r] # "restore"
      BY <3>2 DEF RollbackOK, RemoteOK, Readable, Skip
    <3> QED
      BY <3>1, <3>2
  <2> QED
    BY <2>1, <2>2 DEF RollbackOK
<1> QED
  BY <1>3, <1>4, <1>5, <1>6, <1>7, <1>8, <1>9, <1>10, <1>11 DEF RollbackOK

\* What happens around the executor leaves the shapes alone.
LEMMA EnvironmentShapes ==
    ASSUME ExecutorAssumption, TypeOK, Environment
    PROVE  TypeOK'
<1> USE DEF TypeOK
<1>1. ASSUME NEW d \in Deliveries, Crash(d)
      PROVE  TypeOK'
  <2>1. pc' = [pc EXCEPT ![d] = "dead"] /\ pc[d] # "idle"
    BY <1>1 DEF Crash, Goto, Running, Holding, BeforeApply, AfterApply
  <2>2. DeliveryOK'
    BY <1>1, <2>1 DEF Crash, DeliveryOK, locals, Points, Stopped, Targeted, AfterApply
  <2> QED
    BY <1>1, <2>2 DEF Crash, Fault, RemoteOK, RollbackOK, HistoryOK, store, rollback, history,
                      ExecutorAssumption
<1>2. ASSUME NEW j \in Jobs, ExpireLock(j) \/ ExpireAction(j)
      PROVE  TypeOK'
  <2>1. locks' \in [Jobs -> LockItems] /\ actions' \subseteq Jobs
    BY <1>2, ItemShapes DEF ExpireLock, ExpireAction, RemoteOK
  <2>2. UNCHANGED <<grants, preimages, audit, pc, locals, rollback, history>>
    BY <1>2 DEF ExpireLock, ExpireAction
  <2>3. faults' \in 0..MaxFaults
    BY <1>2 DEF ExpireLock, ExpireAction, Fault, HistoryOK, ExecutorAssumption
  <2> QED
    BY <2>1, <2>2, <2>3 DEF RemoteOK, DeliveryOK, RollbackOK, HistoryOK, locals, rollback, history
<1>3. ASSUME NEW e \in Entries, Administer(e)
      PROVE  TypeOK'
  <2>1. grants' \subseteq Entries
    BY <1>3 DEF Administer, RemoteOK
  <2>2. UNCHANGED <<store, preimages, audit, pc, locals, rollback, applies, removed>>
        /\ withdrawn' \in {withdrawn, withdrawn \union {e}}
    BY <1>3 DEF Administer
  <2>3. faults' \in 0..MaxFaults
    BY <1>3 DEF Administer, Fault, HistoryOK, ExecutorAssumption
  <2> QED
    BY <2>1, <2>2, <2>3 DEF RemoteOK, DeliveryOK, RollbackOK, HistoryOK, store, locals, rollback
<1> QED
  BY <1>1, <1>2, <1>3 DEF Environment

\* The store, the provider, the audit and every process keep to their types.
THEOREM ExecutorTypeOK == Spec => []TypeOK
<1> USE ExecutorAssumption
<1>1. Init => TypeOK
  BY ItemShapes DEF Init, TypeOK, RemoteOK, DeliveryOK, RollbackOK, HistoryOK, Points, Targeted,
                    AfterApply, RollbackPoints, ExecutorAssumption, Jobs
<1>2. TypeOK /\ [Next]_vars => TypeOK'
  <2> SUFFICES ASSUME TypeOK, [Next]_vars
               PROVE  TypeOK'
    OBVIOUS
  <2>1. ASSUME NEW d \in Deliveries, Deliver(d) \/ Execute(d)
        PROVE  TypeOK'
    BY <2>1, RemoteExecute, LocalsExecute, DeliverShapes, RollbackApart, HistoryDeliver DEF TypeOK
  <2>2. CASE UNCHANGED vars
    BY <2>2 DEF vars, store, locals, rollback, history, TypeOK, RemoteOK, DeliveryOK, RollbackOK,
                HistoryOK
  <2> QED
    BY <2>1, <2>2, RollbackShapes, EnvironmentShapes DEF Next
<1> QED
  BY <1>1, <1>2, PTL DEF Spec
-----------------------------------------------------------------------------
(* One delivery at a time works under a lock.                              *)

\* What a step of a delivery does to the lock and to its place in the code.
LEMMA ExecuteEffects ==
    ASSUME TypeOK, NEW d \in Deliveries, Execute(d)
    PROVE  /\ pc[d] # "idle" /\ job' = job /\ job[d] \in Jobs
           /\ \A e \in Deliveries : e # d => pc'[e] = pc[e]
           /\ pc'[d] \in Holding => pc[d] \in Holding
           /\ pc'[d] \in BeforeApply => pc[d] \in BeforeApply
           /\ pc[d] \notin Holding => locks' = locks
           /\ \A j \in Jobs : j # job[d] => locks'[j] = locks[j]
           /\ pc'[d] \in Holding /\ ~LockFree(job[d]) => ~LockFree(job[d])'
           /\ pc[d] \notin BeforeApply /\ ~LockFree(job[d]) => ~LockFree(job[d])'
<1> USE DEF Execute, RecordAction, ReturnPrior, GiveUpWaiting, Release, ResolveTarget,
            StorePreimage, DryRun, CompleteDryRun, AuditDryRun, Apply, CompleteRefusal,
            AuditRefusal, Verify, Restore, VerifyRestored, CompleteRollback, AuditRollback,
            AuditCompleted, CompleteApplied, CompleteSettled, AuditSettled, Recover, locals,
            store, Goto, Return, TypeOK
<1>1. pc[d] # "idle" /\ job' = job
  OBVIOUS
<1>2. job[d] \in Jobs
  BY <1>1, DeliveryFacts
<1>3. \E p \in Points : pc' = [pc EXCEPT ![d] = p]
  BY DEF Points, Holding, BeforeApply, AfterApply, Stopped
<1>4. pc' \in [Deliveries -> Points] /\ \A e \in Deliveries : e # d => pc'[e] = pc[e]
  BY <1>3 DEF DeliveryOK
<1>5. pc'[d] \in Holding => pc[d] \in Holding
  BY DEF Holding, BeforeApply, AfterApply, DeliveryOK
<1>6. pc'[d] \in BeforeApply => pc[d] \in BeforeApply
  BY DEF BeforeApply, DeliveryOK
<1>7. \/ locks' = locks
      \/ pc[d] \in Holding /\ \E x \in {"none", "raised", "ok", "failed"} : Complete(d, x)
      \/ pc[d] = "release" /\ locks' = Unlocked(d)
  BY DEF CompleteFails, Holding, BeforeApply, AfterApply, DeliveryOK, Settlement
<1>8. pc[d] = "release" => pc'[d] \notin Holding
  BY <1>3 DEF DeliveryOK, Holding, BeforeApply, AfterApply
<1>9. ASSUME NEW x, Complete(d, x)
      PROVE  /\ \A j \in Jobs : j # job[d] => locks'[j] = locks[j]
             /\ ~LockFree(job[d])'
  BY <1>1, <1>2, <1>9 DEF Complete, LockFree, RemoteOK
<1>10. ASSUME locks' = Unlocked(d)
       PROVE  \A j \in Jobs : j # job[d] => locks'[j] = locks[j]
  BY <1>2, <1>10 DEF Unlocked, RemoteOK
<1>11. ASSUME locks' = locks
       PROVE  ~LockFree(job[d]) => ~LockFree(job[d])'
  BY <1>1, <1>11 DEF LockFree
<1>12. \A j \in Jobs : j # job[d] => locks'[j] = locks[j]
  BY <1>7, <1>9, <1>10
<1>13. pc[d] \notin Holding => locks' = locks
  BY <1>7 DEF Holding, BeforeApply
<1>14. pc'[d] \in Holding /\ ~LockFree(job[d]) => ~LockFree(job[d])'
  BY <1>7, <1>8, <1>9, <1>11
<1>15. pc[d] \notin BeforeApply /\ ~LockFree(job[d]) => ~LockFree(job[d])'
  BY <1>7, <1>9, <1>11 DEF BeforeApply
<1> QED
  BY <1>1, <1>2, <1>4, <1>5, <1>6, <1>12, <1>13, <1>14, <1>15

\* The strengthening of LeaseExclusive: who works holds a lock, so a put that
\* succeeds because there is none finds nobody working.
LeaseInv ==
    /\ LeaseExclusive
    /\ \A d \in Deliveries : pc[d] \in Holding => ~LockFree(job[d])

\* A claim that succeeds.
LEMMA LeaseDeliver ==
    ASSUME TypeOK, LeaseInv, NEW d \in Deliveries, Deliver(d)
    PROVE  LeaseInv'
<1>1. PICK j \in Jobs : Claim(d, j)
  BY DEF Deliver
<1>2. PICK p \in {"record", "wait", "raised"} : pc' = [pc EXCEPT ![d] = p]
  BY <1>1 DEF Claim, Goto
<1>3. \A e \in Deliveries : e # d => pc'[e] = pc[e] /\ job'[e] = job[e]
  BY <1>1, <1>2 DEF Claim, TypeOK, DeliveryOK
<1>4. pc'[d] = p /\ job'[d] = j
  BY <1>1, <1>2 DEF Claim, TypeOK, DeliveryOK
<1>5. CASE LockFree(j) /\ locks' = [locks EXCEPT ![j] = Pending]
  <2>1. \A e \in Deliveries : pc[e] \in Holding => job[e] # j
    BY <1>5 DEF LeaseInv
  <2>2. \A k \in Jobs : LockFree(k)' => LockFree(k) /\ k # j
    BY <1>5 DEF LockFree, Pending, TypeOK, RemoteOK
  <2>3. LeaseExclusive'
    BY <1>3, <1>4, <2>1 DEF LeaseInv, LeaseExclusive
  <2>4. \A e \in Deliveries : pc'[e] \in Holding => ~LockFree(job[e])'
    <3> SUFFICES ASSUME NEW e \in Deliveries, pc'[e] \in Holding
                 PROVE  ~(locks'[job'[e]].status = "absent")
      BY DEF LockFree
    <3>1. CASE e = d
      BY <1>4, <2>2, <3>1 DEF LockFree
    <3>2. CASE e # d
      <4>1. pc[e] \in Holding /\ job'[e] = job[e]
        BY <1>3, <3>2
      <4>2. job[e] \in Jobs
        BY <4>1 DEF TypeOK, DeliveryOK, Holding, BeforeApply, AfterApply
      <4> QED
        BY <2>2, <4>1, <4>2 DEF LockFree, LeaseInv
    <3> QED
      BY <3>1, <3>2
  <2> QED
    BY <2>3, <2>4 DEF LeaseInv
<1>6. CASE p # "record" /\ locks' = locks
  <2>1. pc'[d] \notin Holding
    BY <1>4, <1>6, <1>2 DEF Holding, BeforeApply, AfterApply
  <2> QED
    BY <1>3, <1>6, <2>1 DEF LeaseInv, LeaseExclusive, LockFree
<1>7. p = "record" => LockFree(j) /\ locks' = [locks EXCEPT ![j] = Pending]
  BY <1>1, <1>4 DEF Claim, Goto, TypeOK, DeliveryOK
<1> QED
  BY <1>1, <1>5, <1>6, <1>7 DEF Claim

\* A step under the lock, or of a waiter.
LEMMA LeaseExecute ==
    ASSUME TypeOK, LeaseInv, NEW d \in Deliveries, Execute(d)
    PROVE  LeaseInv'
<1>1. LeaseExclusive'
  BY ExecuteEffects DEF LeaseInv, LeaseExclusive
<1>2. ASSUME NEW e \in Deliveries, pc'[e] \in Holding
      PROVE  ~LockFree(job[e])'
  <2>1. CASE e = d
    BY <1>2, <2>1, ExecuteEffects DEF LeaseInv
  <2>2. CASE e # d
    <3>1. pc[e] \in Holding /\ job'[e] = job[e] /\ ~LockFree(job[e])
      BY <1>2, <2>2, ExecuteEffects DEF LeaseInv
    <3>2. job[e] \in Jobs
      BY <3>1 DEF TypeOK, DeliveryOK, Holding, BeforeApply, AfterApply
    <3>3. locks'[job[e]] = locks[job[e]]
      BY <2>2, <3>1, <3>2, ExecuteEffects DEF LeaseInv, LeaseExclusive
    <3> QED
      BY <3>1, <3>3 DEF LockFree
  <2> QED
    BY <2>1, <2>2
<1> QED
  BY <1>1, <1>2 DEF LeaseInv

\* Whatever the other processes and the environment do, no delivery starts
\* to work and only the lock of a job nobody works on goes away.
LEMMA LeaseOther ==
    ASSUME TypeOK, LeaseInv,
           \/ \E r \in Rollbacks : StartRollback(r) \/ EndRollback(r)
           \/ \E r \in Rollbacks, a \in Actions : RollbackStep(r, a)
           \/ Environment
           \/ UNCHANGED vars
    PROVE  LeaseInv'
<1>1. CASE UNCHANGED <<locks, pc, job>>
  BY <1>1 DEF LeaseInv, LeaseExclusive, LockFree
<1>2. ASSUME NEW d \in Deliveries, Crash(d)
      PROVE  LeaseInv'
  <2>1. pc' = [pc EXCEPT ![d] = "dead"] /\ locks' = locks /\ job' = job
    BY <1>2 DEF Crash, Goto, store, locals
  <2>2. \A e \in Deliveries : pc'[e] \in Holding => pc[e] \in Holding
    BY <2>1 DEF TypeOK, DeliveryOK, Holding, BeforeApply, AfterApply
  <2> QED
    BY <2>1, <2>2 DEF LeaseInv, LeaseExclusive, LockFree
<1>3. ASSUME NEW j \in Jobs, ExpireLock(j)
      PROVE  LeaseInv'
  <2>1. pc' = pc /\ job' = job /\ locks' = [locks EXCEPT ![j] = Absent]
    BY <1>3 DEF ExpireLock, locals
  <2>2. ASSUME NEW d \in Deliveries, pc[d] \in Holding
        PROVE  locks'[job[d]] = locks[job[d]]
    BY <1>3, <2>1, <2>2 DEF ExpireLock, TypeOK, RemoteOK
  <2> QED
    BY <2>1, <2>2 DEF LeaseInv, LeaseExclusive, LockFree
<1> QED
  BY <1>1, <1>2, <1>3
     DEF Environment, ExpireAction, Administer, StartRollback, EndRollback, RollbackStep,
         ReadPreimage, RestorePreimage, VerifyPreimage, AuditPreimage, vars, store, locals

\* Two deliveries of one action never work at the same time, whatever fails,
\* crashes or expires.
THEOREM ExecutorLeaseExclusive == Spec => []LeaseExclusive
<1>1. Init => LeaseInv
  BY DEF Init, LeaseInv, LeaseExclusive, Holding, BeforeApply, AfterApply
<1>2. TypeOK /\ LeaseInv /\ [Next]_vars => LeaseInv'
  BY LeaseDeliver, LeaseExecute, LeaseOther DEF Next
<1>3. LeaseInv => LeaseExclusive
  BY DEF LeaseInv
<1> QED
  BY <1>1, <1>2, <1>3, ExecutorTypeOK, PTL DEF Spec
-----------------------------------------------------------------------------
(* An action is applied at most once as long as no lock expires.           *)

\* The strengthening of AtMostOneApply: after an apply the lock stays, since
\* nobody is left who could release it.
OnceInv ==
    /\ AtMostOneApply
    /\ \A j \in Jobs : applies[j] # 0 =>
          /\ ~LockFree(j)
          /\ \A d \in Deliveries : pc[d] \in BeforeApply => job[d] # j

\* What a step of a delivery does to the count of applies.
LEMMA ApplyCounts ==
    ASSUME TypeOK, NEW d \in Deliveries, Execute(d)
    PROVE  \/ applies' = applies
           \/ /\ pc[d] = "apply" /\ pc'[d] \notin BeforeApply
              /\ applies' = [applies EXCEPT ![job[d]] = @ + 1]
              /\ locks' = locks
<1>1. CASE Apply(d)
  <2>1. \E p \in {"verify", "refuse", "raised"} : pc' = [pc EXCEPT ![d] = p]
    BY <1>1 DEF Apply, Recover, Goto
  <2>2. pc'[d] \notin BeforeApply
    BY <2>1 DEF TypeOK, DeliveryOK, BeforeApply
  <2> QED
    BY <1>1, <2>2 DEF Apply, store
<1>2. CASE ~Apply(d)
  BY <1>2 DEF Execute, RecordAction, ReturnPrior, GiveUpWaiting, Release, ResolveTarget,
              StorePreimage, DryRun, CompleteDryRun, AuditDryRun, CompleteRefusal, AuditRefusal,
              Verify, Restore, VerifyRestored, CompleteRollback, AuditRollback, AuditCompleted,
              CompleteApplied, CompleteSettled, AuditSettled, history
<1> QED
  BY <1>1, <1>2

\* Only a delivery that runs alone under its lock comes to its apply.
LEMMA OnceExecute ==
    ASSUME TypeOK, LeaseInv, OnceInv, NEW d \in Deliveries, Execute(d)
    PROVE  OnceInv'
<1>1. /\ pc[d] # "idle" /\ job' = job /\ job[d] \in Jobs
      /\ \A e \in Deliveries : pc'[e] \in BeforeApply => pc[e] \in BeforeApply
      /\ \A j \in Jobs : j # job[d] => locks'[j] = locks[j]
      /\ pc[d] \notin BeforeApply /\ ~LockFree(job[d]) => ~LockFree(job[d])'
  BY ExecuteEffects
<1>2. CASE applies' = applies
  <2>1. AtMostOneApply'
    BY <1>2 DEF OnceInv, AtMostOneApply
  <2>2. ASSUME NEW j \in Jobs, applies[j] # 0
        PROVE  ~LockFree(j)'
    <3>1. ~LockFree(j) /\ (job[d] = j => pc[d] \notin BeforeApply)
      BY <2>2 DEF OnceInv
    <3>2. CASE job[d] = j
      BY <1>1, <3>1, <3>2 DEF LockFree
    <3>3. CASE job[d] # j
      BY <1>1, <3>1, <3>3 DEF LockFree
    <3> QED
      BY <3>2, <3>3
  <2> QED
    BY <1>1, <1>2, <2>1, <2>2 DEF OnceInv
<1>3. CASE /\ pc[d] = "apply" /\ pc'[d] \notin BeforeApply
           /\ applies' = [applies EXCEPT ![job[d]] = @ + 1]
           /\ locks' = locks
  <2>1. pc[d] \in BeforeApply /\ pc[d] \in Holding
    BY <1>3 DEF Holding, BeforeApply
  <2>2. applies[job[d]] = 0 /\ applies'[job[d]] = 1
    BY <1>1, <1>3, <2>1 DEF OnceInv, TypeOK, HistoryOK
  <2>3. \A j \in Jobs : j # job[d] => applies'[j] = applies[j]
    BY <1>3 DEF TypeOK, HistoryOK
  <2>4. AtMostOneApply'
    BY <2>2, <2>3 DEF OnceInv, AtMostOneApply
  <2>5. ~LockFree(job[d])' /\ \A e \in Deliveries : pc'[e] \in BeforeApply => job[e] # job[d]
    BY <1>1, <1>3, <2>1 DEF LeaseInv, LeaseExclusive, LockFree, Holding
  <2> QED
    BY <1>1, <1>3, <2>3, <2>4, <2>5 DEF OnceInv, LockFree
<1> QED
  BY <1>2, <1>3, ApplyCounts

\* The lock keeps new deliveries of an applied action away from it.
LEMMA OnceDeliver ==
    ASSUME TypeOK, OnceInv, NEW d \in Deliveries, Deliver(d)
    PROVE  OnceInv'
<1>1. PICK j \in Jobs : Claim(d, j)
  BY DEF Deliver
<1>2. PICK p \in {"record", "wait", "raised"} : pc' = [pc EXCEPT ![d] = p]
  BY <1>1 DEF Claim, Goto
<1>3. /\ \A e \in Deliveries : e # d => pc'[e] = pc[e] /\ job'[e] = job[e]
      /\ pc'[d] = p /\ job'[d] = j
  BY <1>1, <1>2 DEF Claim, TypeOK, DeliveryOK
<1>4. p = "record" => LockFree(j)
  BY <1>1, <1>3 DEF Claim, Goto, TypeOK, DeliveryOK
<1>5. locks' = locks \/ locks' = [locks EXCEPT ![j] = Pending]
  BY <1>1 DEF Claim
<1>6. applies' = applies
  BY <1>1 DEF Claim, history
<1>7. \A k \in Jobs : ~LockFree(k) => ~LockFree(k)'
  BY <1>5 DEF LockFree, Pending, TypeOK, RemoteOK
<1>8. ASSUME NEW e \in Deliveries, pc'[e] \in BeforeApply, applies[job'[e]] # 0, job'[e] \in Jobs
      PROVE  FALSE
  BY <1>2, <1>3, <1>4, <1>8 DEF OnceInv, BeforeApply
<1> QED
  BY <1>6, <1>7, <1>8 DEF OnceInv, AtMostOneApply

\* The rest of the system neither applies nor, without expiry, unlocks.
LEMMA OnceOther ==
    ASSUME "expiry" \notin Events, TypeOK, OnceInv,
           \/ \E r \in Rollbacks : StartRollback(r) \/ EndRollback(r)
           \/ \E r \in Rollbacks, a \in Actions : RollbackStep(r, a)
           \/ Environment
           \/ UNCHANGED vars
    PROVE  OnceInv'
<1>1. CASE UNCHANGED <<locks, pc, job, applies>>
  BY <1>1 DEF OnceInv, AtMostOneApply, LockFree
<1>2. ASSUME NEW d \in Deliveries, Crash(d)
      PROVE  OnceInv'
  <2>1. /\ pc' = [pc EXCEPT ![d] = "dead"]
        /\ locks' = locks /\ job' = job /\ applies' = applies
    BY <1>2 DEF Crash, Goto, store, locals, history
  <2>2. \A e \in Deliveries : pc'[e] \in BeforeApply => pc[e] \in BeforeApply
    BY <2>1 DEF TypeOK, DeliveryOK, BeforeApply
  <2> QED
    BY <2>1, <2>2 DEF OnceInv, AtMostOneApply, LockFree
<1> QED
  BY <1>1, <1>2
     DEF Environment, ExpireLock, ExpireAction, Administer, Fault, StartRollback, EndRollback,
         RollbackStep, ReadPreimage, RestorePreimage, VerifyPreimage, AuditPreimage, vars, store,
         locals, history

\* However many deliveries, faults and crashes there are, the provider is
\* asked at most once to carry out an action whose lock does not expire.
THEOREM ExecutorAppliesOnce ==
    ASSUME "expiry" \notin Events
    PROVE  Spec => []AtMostOneApply
<1>1. Init => LeaseInv /\ OnceInv
  BY DEF Init, LeaseInv, LeaseExclusive, Holding, BeforeApply, AfterApply, OnceInv, AtMostOneApply
<1>2. TypeOK /\ LeaseInv /\ OnceInv /\ [Next]_vars => LeaseInv' /\ OnceInv'
  BY LeaseDeliver, LeaseExecute, LeaseOther, OnceDeliver, OnceExecute, OnceOther DEF Next
<1>3. OnceInv => AtMostOneApply
  BY DEF OnceInv
<1> QED
  BY <1>1, <1>2, <1>3, ExecutorTypeOK, PTL DEF Spec
-----------------------------------------------------------------------------
(* What an apply removed can be put back.                                  *)

\* The strengthening of Reversible: the record and the pre-image precede the
\* apply, and after it nobody works on the action who could overwrite them.
ReversibleInv ==
    /\ Reversible
    /\ \A d \in Deliveries : pc[d] \in Holding \ {"record"} => job[d] \in actions
    /\ \A d \in Deliveries : pc[d] \in {"dryrun", "apply"} => preimages[Seq(d)] = target[d]
    /\ \A je \in removed : applies[je[1]] # 0

\* What a step of a delivery does to the record, the pre-image and what was removed.
LEMMA KeepsakeEffects ==
    ASSUME TypeOK, NEW d \in Deliveries, Execute(d)
    PROVE  /\ actions \subseteq actions'
           /\ pc'[d] \in Holding \ {"record"} => pc[d] # "record" \/ job[d] \in actions'
           /\ \A a \in Actions : (a = Seq(d) /\ pc[d] = "store") \/ preimages'[a] = preimages[a]
           /\ pc'[d] = "dryrun" => pc[d] = "store" /\ preimages'[Seq(d)] = target'[d]
           /\ pc'[d] = "apply" => pc[d] = "dryrun" /\ UNCHANGED <<preimages, target>>
           /\ \A e \in Deliveries : e # d => target'[e] = target[e]
           /\ \A je \in removed' : \/ je \in removed
                                    \/ /\ pc[d] = "apply"
                                       /\ je \in Jobs \X Identities
                                       /\ je[1] = job[d]
                                       /\ je[2] = target[d]
                                       /\ applies' = [applies EXCEPT ![job[d]] = @ + 1]
<1> USE DEF Execute, RecordAction, ReturnPrior, GiveUpWaiting, Release, ResolveTarget,
            StorePreimage, DryRun, CompleteDryRun, AuditDryRun, Apply, CompleteRefusal,
            AuditRefusal, Verify, Restore, VerifyRestored, CompleteRollback, AuditRollback,
            AuditCompleted, CompleteApplied, CompleteSettled, AuditSettled, Recover, locals,
            store, history, Goto, Return, TypeOK
<1>1. actions \subseteq actions'
  OBVIOUS
<1>2. pc'[d] \in Holding \ {"record"} => pc[d] # "record" \/ job[d] \in actions'
  BY DEF Holding, BeforeApply, AfterApply, DeliveryOK
<1>3. Seq(d) \in Actions
  BY DeliveryFacts
<1>4. \A a \in Actions : (a = Seq(d) /\ pc[d] = "store") \/ preimages'[a] = preimages[a]
  BY <1>3 DEF RemoteOK
<1>5. pc'[d] = "dryrun" => pc[d] = "store" /\ preimages'[Seq(d)] = target'[d]
  BY <1>3 DEF RemoteOK, DeliveryOK
<1>6. pc'[d] = "apply" => pc[d] = "dryrun" /\ UNCHANGED <<preimages, target>>
  BY DEF DeliveryOK
<1>7. \A e \in Deliveries : e # d => target'[e] = target[e]
  BY DEF DeliveryOK
<1>8. ASSUME NEW je \in removed', je \notin removed
      PROVE  /\ pc[d] = "apply"
             /\ je \in Jobs \X Identities
             /\ je[1] = job[d]
             /\ je[2] = target[d]
             /\ applies' = [applies EXCEPT ![job[d]] = @ + 1]
  <2>1. Apply(d)
    BY <1>8
  <2>2. grants \ grants' \subseteq {Entry(d)}
    BY <2>1
  <2>3. /\ je \in Jobs \X Identities /\ je[1] = job[d]
        /\ <<je[2], RightOf[Seq(d)]>> \in grants \ grants'
    BY <1>8, <2>1
  <2>4. <<je[2], RightOf[Seq(d)]>> = <<target[d], RightOf[Seq(d)]>>
    BY <2>2, <2>3 DEF Entry
  <2> QED
    BY <2>1, <2>3, <2>4
<1> QED
  BY <1>1, <1>2, <1>4, <1>5, <1>6, <1>7, <1>8

\* A delivery records and copies what it is about to remove, and it alone.
LEMMA ReversibleExecute ==
    ASSUME \A p, q \in Plans : p = q,
           TypeOK, LeaseInv, OnceInv, ReversibleInv, NEW d \in Deliveries, Execute(d)
    PROVE  ReversibleInv'
<1>1. /\ pc[d] # "idle" /\ job' = job /\ job[d] \in Jobs
      /\ \A e \in Deliveries : e # d => pc'[e] = pc[e]
      /\ pc'[d] \in Holding => pc[d] \in Holding
  BY ExecuteEffects
<1>2. \A j, k \in Jobs : j[2] = k[2] => j = k
  BY DEF Jobs
<1>3. \A e \in Deliveries : Seq(e)' = Seq(e)
  BY <1>1 DEF Seq
<1>4. \A e \in Deliveries : pc'[e] \in Holding \ {"record"} => job'[e] \in actions'
  BY <1>1, KeepsakeEffects DEF ReversibleInv
<1>5. ASSUME NEW e \in Deliveries, pc'[e] \in {"dryrun", "apply"}
      PROVE  preimages'[Seq(e)] = target'[e]
  <2>1. CASE e = d
    BY <1>5, <2>1, KeepsakeEffects DEF ReversibleInv
  <2>2. CASE e # d
    <3>1. pc[e] \in {"dryrun", "apply"} /\ pc[e] \in Holding
      BY <1>1, <1>5, <2>2 DEF Holding, BeforeApply
    <3>2. job[e] \in Jobs /\ Seq(e) \in Actions
      BY <3>1, DeliveryFacts DEF TypeOK
    <3>3. pc[d] = "store" => Seq(e) # Seq(d)
      BY <1>1, <1>2, <2>2, <3>1, <3>2
         DEF LeaseInv, LeaseExclusive, Holding, BeforeApply, Seq
    <3> QED
      BY <2>2, <3>1, <3>2, <3>3, KeepsakeEffects DEF ReversibleInv
  <2> QED
    BY <2>1, <2>2
<1>6. ASSUME NEW je \in removed'
      PROVE  /\ applies'[je[1]] # 0
             /\ je[1] \in actions' /\ preimages'[je[1][2]] = je[2]
  <2>1. CASE je \in removed
    <3>1. /\ je[1] \in Jobs /\ applies[je[1]] # 0
          /\ je[1] \in actions /\ preimages[je[1][2]] = je[2]
      BY <2>1 DEF ReversibleInv, Reversible, TypeOK, HistoryOK
    <3>2. applies'[je[1]] # 0
      BY <1>1, <3>1, ApplyCounts DEF TypeOK, HistoryOK
    <3>3. je[1][2] \in Actions
      BY <3>1 DEF Jobs
    <3>4. pc[d] = "store" => job[d] # je[1]
      BY <3>1 DEF OnceInv, BeforeApply
    <3>5. pc[d] = "store" => Seq(d) # je[1][2]
      BY <1>1, <1>2, <3>1, <3>4 DEF Seq
    <3> QED
      BY <3>1, <3>2, <3>3, <3>5, KeepsakeEffects
  <2>2. CASE je \notin removed
    <3>1. /\ pc[d] = "apply" /\ je \in Jobs \X Identities
          /\ je[1] = job[d] /\ je[2] = target[d]
          /\ applies' = [applies EXCEPT ![job[d]] = @ + 1]
      BY <2>2, KeepsakeEffects
    <3>2. applies'[je[1]] # 0
      BY <1>1, <3>1 DEF TypeOK, HistoryOK
    <3>3. job[d] \in actions /\ preimages[Seq(d)] = target[d] /\ Seq(d) \in Actions
      BY <1>1, <3>1, DeliveryFacts DEF ReversibleInv, Holding, BeforeApply, TypeOK
    <3>4. preimages'[Seq(d)] = preimages[Seq(d)] /\ actions \subseteq actions'
      BY <3>1, <3>3, KeepsakeEffects
    <3> QED
      BY <3>1, <3>2, <3>3, <3>4 DEF Seq
  <2> QED
    BY <2>1, <2>2
<1> QED
  BY <1>4, <1>5, <1>6, <1>3 DEF ReversibleInv, Reversible

\* The others leave records and pre-images alone, as long as none expires.
LEMMA ReversibleOther ==
    ASSUME "expiry" \notin Events, TypeOK, ReversibleInv,
           \/ \E d \in Deliveries : Deliver(d)
           \/ \E r \in Rollbacks : StartRollback(r) \/ EndRollback(r)
           \/ \E r \in Rollbacks, a \in Actions : RollbackStep(r, a)
           \/ Environment
           \/ UNCHANGED vars
    PROVE  ReversibleInv'
<1>1. CASE UNCHANGED <<actions, preimages, pc, job, target, applies, removed>>
  BY <1>1 DEF ReversibleInv, Reversible, Seq
<1>2. ASSUME NEW d \in Deliveries, Crash(d)
      PROVE  ReversibleInv'
  <2>1. /\ pc' = [pc EXCEPT ![d] = "dead"]
        /\ UNCHANGED <<actions, preimages, job, target, history>>
    BY <1>2 DEF Crash, Goto, store, locals
  <2>2. \A e \in Deliveries : pc'[e] = pc[e] \/ pc'[e] = "dead"
    BY <2>1 DEF TypeOK, DeliveryOK
  <2> QED
    BY <2>1, <2>2 DEF ReversibleInv, Reversible, Seq, history, Holding, BeforeApply, AfterApply
<1>3. ASSUME NEW d \in Deliveries, Deliver(d)
      PROVE  ReversibleInv'
  <2>1. PICK j \in Jobs : Claim(d, j)
    BY <1>3 DEF Deliver
  <2>2. PICK p \in {"record", "wait", "raised"} : pc' = [pc EXCEPT ![d] = p]
    BY <2>1 DEF Claim, Goto
  <2>3. \A e \in Deliveries : e # d => pc'[e] = pc[e] /\ job'[e] = job[e]
    BY <2>1, <2>2 DEF Claim, TypeOK, DeliveryOK
  <2>4. pc'[d] = p
    BY <2>2 DEF TypeOK, DeliveryOK
  <2>5. UNCHANGED <<actions, preimages, target, history>>
    BY <2>1 DEF Claim
  <2> QED
    BY <2>2, <2>3, <2>4, <2>5
       DEF ReversibleInv, Reversible, Seq, history, Holding, BeforeApply, AfterApply
<1> QED
  BY <1>1, <1>2, <1>3
     DEF Environment, ExpireLock, ExpireAction, Administer, Fault, StartRollback, EndRollback,
         RollbackStep, ReadPreimage, RestorePreimage, VerifyPreimage, AuditPreimage, vars, store,
         locals, history

\* With a plan hash of its own and no expiry, every entitlement an apply took
\* away stays recorded with a pre-image that names who lost it.
THEOREM ExecutorReversible ==
    ASSUME "expiry" \notin Events, \A p, q \in Plans : p = q
    PROVE  Spec => []Reversible
<1> DEFINE Inv == LeaseInv /\ OnceInv /\ ReversibleInv
<1>1. Init => Inv
  BY DEF Init, LeaseInv, LeaseExclusive, Holding, BeforeApply, AfterApply, OnceInv, AtMostOneApply,
         ReversibleInv, Reversible
<1>2. TypeOK /\ Inv /\ [Next]_vars => Inv'
  BY LeaseDeliver, LeaseExecute, LeaseOther, OnceDeliver, OnceExecute, OnceOther,
     ReversibleExecute, ReversibleOther DEF Next
<1>3. Inv => Reversible
  BY DEF ReversibleInv
<1> QED
  BY <1>1, <1>2, <1>3, ExecutorTypeOK, PTL DEF Spec
=============================================================================
