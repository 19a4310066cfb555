------------------------ MODULE ExecutorOutcomeProofs ------------------------
(***************************************************************************)
(* What deliveries and rollbacks leave behind at the provider, in the lock *)
(* and in the audit trail: nothing is granted that was not taken, no       *)
(* record claims what is not so, and where one remote call fails at most,  *)
(* no action ends half done.                                               *)
(***************************************************************************)
EXTENDS ExecutorProofs

-----------------------------------------------------------------------------
(* Nothing is granted that was not taken.                                  *)

\* What is live, or was removed by an apply or an administrator.
OnceHeld == grants \union Taken \union withdrawn

\* The strengthening of OnlyReturnsWhatItTook: whatever a delivery found, a
\* pre-image describes or a rollback read was live once, and what was live is
\* live or was removed by one or the other.
KnownInv ==
    /\ \A d \in Deliveries : pc[d] \in Targeted => Entry(d) \in OnceHeld
    /\ \A a \in Actions : preimages[a] # None => <<preimages[a], RightOf[a]>> \in OnceHeld
    /\ \A r \in Rollbacks, a \in Actions :
          rpc[r] \in {"restore", "verify"} /\ InHand(r, a) =>
              <<rimage[r], RightOf[a]>> \in OnceHeld

\* Where a step moves the live entitlements of a delivery.
LEMMA GrantsExecute ==
    ASSUME TypeOK, NEW d \in Deliveries, Execute(d)
    PROVE  /\ grants' \subseteq grants \union {Entry(d)}
           /\ grants \subseteq grants' \union {Entry(d)}
           /\ pc[d] \notin {"apply", "restore"} => grants' = grants
           /\ pc[d] # "apply" => grants \subseteq grants' /\ removed' = removed
           /\ pc[d] = "apply" => grants' \subseteq grants
           /\ removed \subseteq removed' /\ withdrawn' = withdrawn
           /\ grants \ grants' \subseteq Taken'
<1> USE DEF Execute, RecordAction, ReturnPrior, GiveUpWaiting, Release, ResolveTarget,
            StorePreimage, DryRun, CompleteDryRun, AuditDryRun, CompleteRefusal,
            AuditRefusal, Verify, Restore, VerifyRestored, CompleteRollback, AuditRollback,
            AuditCompleted, CompleteApplied, CompleteSettled, AuditSettled, history
<1>1. CASE Apply(d)
  <2>1. /\ pc[d] = "apply"
        /\ grants' \in {grants, grants \ {Entry(d)}}
        /\ removed' = removed \union
              {je \in Jobs \X Identities : /\ je[1] = job[d]
                                           /\ <<je[2], RightOf[Seq(d)]>> \in grants \ grants'}
        /\ withdrawn' = withdrawn
    BY <1>1 DEF Apply
  <2>2. job[d] \in Jobs /\ target[d] \in Identities
    BY <2>1, DeliveryFacts DEF TypeOK, DeliveryOK, Targeted
  <2>3. ASSUME Entry(d) \in grants \ grants'
        PROVE  Entry(d) \in Taken'
    <3>1. <<job[d], target[d]>> \in removed'
      BY <2>1, <2>2, <2>3 DEF Entry
    <3> QED BY <3>1 DEF Taken, Entry, Seq
  <2> QED BY <2>1, <2>3
<1>2. CASE ~Apply(d)
  <2>1. removed' = removed /\ withdrawn' = withdrawn
    BY <1>2
  <2>2. pc[d] # "apply"
    BY <1>2
  <2>3. grants' \in {grants, grants \union {Entry(d)}}
    BY <1>2
  <2>4. pc[d] # "restore" => grants' = grants
    BY <1>2
  <2> QED BY <2>1, <2>2, <2>3, <2>4
<1> QED BY <1>1, <1>2

\* What was live once stays known.
LEMMA OnceHeldGrows ==
    ASSUME TypeOK, [Next]_vars
    PROVE  OnceHeld \subseteq OnceHeld'
<1>1. ASSUME NEW d \in Deliveries, Execute(d)
      PROVE  OnceHeld \subseteq OnceHeld'
  <2>1. Taken \subseteq Taken'
    BY <1>1, GrantsExecute DEF Taken
  <2> QED BY <1>1, <2>1, GrantsExecute DEF OnceHeld
<1>2. CASE UNCHANGED <<grants, removed, withdrawn>>
  BY <1>2 DEF OnceHeld, Taken
<1>3. ASSUME NEW r \in Rollbacks, NEW a \in Actions, RestorePreimage(r, a)
      PROVE  OnceHeld \subseteq OnceHeld'
  <2>1. grants \subseteq grants' /\ removed' = removed /\ withdrawn' = withdrawn
    BY <1>3 DEF RestorePreimage, history
  <2> QED BY <2>1 DEF OnceHeld, Taken
<1>4. ASSUME NEW e \in Entries, Administer(e)
      PROVE  OnceHeld \subseteq OnceHeld'
  BY <1>4 DEF Administer, OnceHeld, Taken
<1> QED
  BY <1>1, <1>2, <1>3, <1>4
     DEF Next, Deliver, Claim, Environment, Crash, ExpireLock, ExpireAction, Fault, StartRollback,
         EndRollback, RollbackStep, ReadPreimage, VerifyPreimage, AuditPreimage, vars, history

\* A delivery targets what is live and keeps its target.
LEMMA TargetsExecute ==
    ASSUME TypeOK, NEW d \in Deliveries, Execute(d)
    PROVE  /\ job' = job
           /\ \A e \in Deliveries : e # d => pc'[e] = pc[e] /\ target'[e] = target[e]
           /\ pc'[d] \in Targeted => \/ pc[d] \in Targeted /\ target' = target
                                     \/ Entry(d)' \in grants /\ grants' = grants
           /\ pc'[d] \in Targeted => target'[d] \in Identities
           /\ \/ preimages' = preimages
              \/ pc[d] = "store" /\ preimages' = [preimages EXCEPT ![Seq(d)] = target[d]]
<1> USE DEF Execute, RecordAction, ReturnPrior, GiveUpWaiting, Release, ResolveTarget,
            StorePreimage, DryRun, CompleteDryRun, AuditDryRun, Apply, CompleteRefusal,
            AuditRefusal, Verify, Restore, VerifyRestored, CompleteRollback, AuditRollback,
            AuditCompleted, CompleteApplied, CompleteSettled, AuditSettled, Recover, locals, Goto,
            Return
<1>1. job' = job
  OBVIOUS
<1>2. \A e \in Deliveries : e # d => pc'[e] = pc[e] /\ target'[e] = target[e]
  BY DEF TypeOK, DeliveryOK
<1>3. \/ preimages' = preimages
      \/ pc[d] = "store" /\ preimages' = [preimages EXCEPT ![Seq(d)] = target[d]]
  OBVIOUS
<1>4. pc'[d] \in Targeted => target'[d] \in Identities
  BY LocalsExecute DEF TypeOK, DeliveryOK
<1>5. CASE ResolveTarget(d)
  <2>1. ASSUME pc'[d] \in Targeted
        PROVE  Entry(d)' \in grants /\ grants' = grants
    <3>1. PICK i \in Identities : /\ Resolvable(Seq(d), i)
                                  /\ target' = [target EXCEPT ![d] = i]
      BY <1>5, <2>1 DEF TypeOK, DeliveryOK, Targeted, AfterApply
    <3>2. <<i, RightOf[Seq(d)]>> \in grants
      BY <3>1 DEF Resolvable, Holders
    <3>3. target'[d] = i
      BY <3>1 DEF TypeOK, DeliveryOK
    <3> QED BY <1>1, <1>5, <3>2, <3>3 DEF Entry, Seq
  <2> QED BY <1>1, <1>2, <1>3, <1>4, <2>1
<1>6. CASE ~ResolveTarget(d)
  <2>1. target' = target
    BY <1>6
  <2>2. pc'[d] \in Targeted => pc[d] \in Targeted
    BY <1>6 DEF TypeOK, DeliveryOK, Targeted, AfterApply
  <2> QED BY <1>1, <1>2, <1>3, <1>4, <2>1, <2>2
<1> QED BY <1>5, <1>6

\* A step of a delivery keeps what is targeted, copied or in hand known.
LEMMA KnownExecute ==
    ASSUME ExecutorAssumption, TypeOK, KnownInv,
           NEW d \in Deliveries, Execute(d)
    PROVE  KnownInv'
<1>1. OnceHeld \subseteq OnceHeld'
  BY OnceHeldGrows DEF Next
<1>2. pc[d] # "idle" /\ Seq(d) \in Actions
  BY ExecuteEffects, DeliveryFacts DEF TypeOK
<1>3. ASSUME NEW e \in Deliveries, pc'[e] \in Targeted
      PROVE  Entry(e)' \in OnceHeld'
  <2>1. CASE pc[e] \in Targeted /\ target'[e] = target[e]
    <3>1. Entry(e)' = Entry(e)
      BY <2>1, TargetsExecute DEF Entry, Seq
    <3> QED BY <1>1, <2>1, <3>1 DEF KnownInv
  <2>2. CASE e = d /\ Entry(d)' \in grants /\ grants' = grants
    BY <2>2 DEF OnceHeld
  <2> QED BY <1>3, <2>1, <2>2, TargetsExecute
<1>4. ASSUME NEW a \in Actions, preimages'[a] # None
      PROVE  <<preimages'[a], RightOf[a]>> \in OnceHeld'
  <2>1. CASE preimages'[a] = preimages[a]
    BY <1>1, <1>4, <2>1 DEF KnownInv
  <2>2. CASE preimages'[a] # preimages[a]
    <3>1. pc[d] = "store" /\ preimages' = [preimages EXCEPT ![Seq(d)] = target[d]]
      BY <2>2, TargetsExecute
    <3>2. a = Seq(d) /\ preimages'[a] = target[d]
      BY <1>2, <2>2, <3>1 DEF TypeOK, RemoteOK
    <3>3. <<preimages'[a], RightOf[a]>> = Entry(d)
      BY <3>2 DEF Entry
    <3>4. pc[d] \in Targeted
      BY <3>1 DEF Targeted
    <3> QED BY <1>1, <3>3, <3>4 DEF KnownInv
  <2> QED BY <2>1, <2>2
<1>5. UNCHANGED rollback
  BY DEF Execute, RecordAction, ReturnPrior, GiveUpWaiting, Release, ResolveTarget,
         StorePreimage, DryRun, CompleteDryRun, AuditDryRun, Apply, CompleteRefusal,
         AuditRefusal, Verify, Restore, VerifyRestored, CompleteRollback, AuditRollback,
         AuditCompleted, CompleteApplied, CompleteSettled, AuditSettled
<1>6. ASSUME NEW r \in Rollbacks, NEW a \in Actions,
             rpc'[r] \in {"restore", "verify"}, InHand(r, a)'
      PROVE  <<rimage'[r], RightOf[a]>> \in OnceHeld'
  BY <1>1, <1>5, <1>6 DEF KnownInv, rollback, InHand
<1> QED BY <1>3, <1>4, <1>6 DEF KnownInv

\* A step of a rollback reads what is known and restores what it read.
LEMMA KnownRollback ==
    ASSUME ExecutorAssumption, TypeOK, KnownInv, NEW r \in Rollbacks,
           \/ StartRollback(r) \/ EndRollback(r)
           \/ \E a \in Actions : RollbackStep(r, a)
    PROVE  KnownInv'
<1>1. OnceHeld \subseteq OnceHeld'
  BY OnceHeldGrows DEF Next
<1>2. UNCHANGED <<pc, job, target, preimages>>
  BY DEF StartRollback, EndRollback, RollbackStep, ReadPreimage, RestorePreimage,
         VerifyPreimage, AuditPreimage, locals
<1>3. \A e \in Deliveries : pc'[e] \in Targeted => Entry(e)' \in OnceHeld'
  BY <1>1, <1>2 DEF KnownInv, Entry, Seq
<1>4. \A a \in Actions : preimages'[a] # None => <<preimages'[a], RightOf[a]>> \in OnceHeld'
  BY <1>1, <1>2 DEF KnownInv
<1>5. ASSUME NEW q \in Rollbacks, NEW a \in Actions,
             rpc'[q] \in {"restore", "verify"}, InHand(q, a)'
      PROVE  <<rimage'[q], RightOf[a]>> \in OnceHeld'
  <2>1. CASE rpc[q] \in {"restore", "verify"} /\ rtodo'[q] = rtodo[q] /\ rimage'[q] = rimage[q]
    BY <1>1, <1>5, <2>1 DEF KnownInv, InHand
  <2>2. CASE q # r
    <3>1. rpc'[q] = rpc[q] /\ rtodo'[q] = rtodo[q] /\ rimage'[q] = rimage[q]
      BY <2>2 DEF StartRollback, EndRollback, RollbackStep, ReadPreimage, RestorePreimage,
                  VerifyPreimage, AuditPreimage, Skip, TypeOK, RollbackOK
    <3> QED BY <1>5, <2>1, <3>1
  <2>3. CASE q = r
    <3>1. ASSUME NEW b \in Actions, ReadPreimage(r, b)
          PROVE  <<rimage'[q], RightOf[a]>> \in OnceHeld'
      <4>1. /\ InHand(r, b) /\ Readable(b)
            /\ rimage'[r] = preimages[b] /\ rtodo' = rtodo
        BY <1>5, <2>3, <3>1 DEF ReadPreimage, Skip, TypeOK, RollbackOK
      <4>2. a <= b /\ b <= a
        BY <1>5, <2>3, <4>1 DEF InHand
      <4>3. a \in Nat /\ b \in Nat
        BY DEF ExecutorAssumption
      <4>4. a = b
        BY <4>2, <4>3
      <4> QED BY <1>1, <2>3, <4>1, <4>4 DEF KnownInv, Readable
    <3>2. ASSUME NEW b \in Actions, RestorePreimage(r, b)
          PROVE  <<rimage'[q], RightOf[a]>> \in OnceHeld'
      <4>1. rpc[r] = "restore" /\ rimage' = rimage /\ rtodo' = rtodo
        BY <1>5, <2>3, <3>2 DEF RestorePreimage, Skip, TypeOK, RollbackOK
      <4> QED BY <2>1, <2>3, <4>1
    <3>3. ASSUME NEW b \in Actions,
                 VerifyPreimage(r, b) \/ AuditPreimage(r, b) \/ StartRollback(r) \/ EndRollback(r)
          PROVE  FALSE
      BY <1>5, <2>3, <3>3 DEF VerifyPreimage, AuditPreimage, StartRollback, EndRollback, Skip,
                              TypeOK, RollbackOK
    <3> QED BY <1>5, <3>1, <3>2, <3>3 DEF RollbackStep
  <2> QED BY <2>2, <2>3
<1> QED BY <1>3, <1>4, <1>5 DEF KnownInv

\* Claims, crashes, expiries and administrators target, copy and read nothing.
LEMMA KnownOther ==
    ASSUME TypeOK, KnownInv,
           (\E d \in Deliveries : Deliver(d)) \/ Environment \/ UNCHANGED vars
    PROVE  KnownInv'
<1>1. CASE UNCHANGED <<grants, removed, withdrawn, preimages, pc, job, target, rollback>>
  BY <1>1 DEF KnownInv, OnceHeld, Taken, Entry, Seq, InHand, rollback
<1>2. ASSUME NEW d \in Deliveries, Deliver(d) \/ Crash(d)
      PROVE  KnownInv'
  <2>1. /\ UNCHANGED <<grants, removed, withdrawn, preimages, target, rollback>>
        /\ \E p \in {"record", "wait", "raised", "dead"} : pc' = [pc EXCEPT ![d] = p]
    BY <1>2 DEF Deliver, Claim, Crash, Goto, locals, history
  <2>2. \A e \in Deliveries : pc'[e] \in Targeted => pc[e] \in Targeted /\ e # d
    BY <2>1 DEF TypeOK, DeliveryOK, Targeted, AfterApply
  <2>3. \A e \in Deliveries : e # d => job'[e] = job[e]
    BY <1>2 DEF Deliver, Claim, Crash, locals, TypeOK, DeliveryOK
  <2> QED
    BY <2>1, <2>2, <2>3 DEF KnownInv, OnceHeld, Taken, Entry, Seq, InHand, rollback
<1>3. ASSUME NEW e \in Entries, Administer(e)
      PROVE  KnownInv'
  <2>1. OnceHeld \subseteq OnceHeld'
    BY <1>3, OnceHeldGrows DEF Next, Environment
  <2>2. UNCHANGED <<preimages, pc, job, target, rollback>>
    BY <1>3 DEF Administer, locals
  <2> QED
    BY <2>1, <2>2 DEF KnownInv, Entry, Seq, InHand, rollback
<1> QED
  BY <1>1, <1>2, <1>3 DEF Environment, ExpireLock, ExpireAction, Fault, vars, locals, history

\* Whatever deadbolt grants back, in an automatic or a requested rollback and
\* however they interleave with executions and with administrators, is what
\* one of its applies, or an administrator, took away: nobody gets access that
\* he did not have before.
THEOREM ExecutorOnlyReturnsWhatItTook == Spec => OnlyReturnsWhatItTook
<1> USE ExecutorAssumption
<1>1. Init => KnownInv
  BY DEF Init, KnownInv, Targeted, AfterApply
<1>2. TypeOK /\ KnownInv /\ [Next]_vars => KnownInv'
  BY KnownExecute, KnownRollback, KnownOther DEF Next
<1>3. ASSUME TypeOK, KnownInv, [Next]_vars
      PROVE  [\A e \in grants' \ grants : e \in Taken \union withdrawn \/ Administer(e)]_vars
  <2> DEFINE Returned == grants' \ grants \subseteq Taken \union withdrawn
  <2>1. SUFFICES Returned \/ \E e \in Entries : Administer(e)
    BY <2>1 DEF Administer
  <2>2. ASSUME NEW d \in Deliveries, Execute(d)
        PROVE  Returned
    <3>1. CASE pc[d] = "restore"
      <4>1. Entry(d) \in OnceHeld
        BY <1>3, <3>1 DEF KnownInv, Targeted, AfterApply
      <4> QED BY <1>3, <2>2, <4>1, GrantsExecute DEF OnceHeld
    <3>2. CASE pc[d] # "restore"
      BY <1>3, <2>2, <3>2, GrantsExecute
    <3> QED BY <3>1, <3>2
  <2>3. ASSUME NEW r \in Rollbacks, NEW a \in Actions, RestorePreimage(r, a)
        PROVE  Returned
    <3>1. <<rimage[r], RightOf[a]>> \in OnceHeld
      BY <1>3, <2>3 DEF KnownInv, RestorePreimage
    <3>2. grants' \subseteq grants \union {<<rimage[r], RightOf[a]>>}
      BY <2>3 DEF RestorePreimage
    <3> QED BY <3>1, <3>2 DEF OnceHeld
  <2>4. CASE grants' = grants
    BY <2>4
  <2> QED
    BY <1>3, <2>2, <2>3, <2>4
       DEF Next, Deliver, Claim, Environment, Crash, ExpireLock, ExpireAction, Fault,
           StartRollback, EndRollback, RollbackStep, ReadPreimage, VerifyPreimage, AuditPreimage,
           vars
<1> QED
  BY <1>1, <1>2, <1>3, ExecutorTypeOK, PTL DEF Spec, OnlyReturnsWhatItTook


-----------------------------------------------------------------------------
(* What the trail claims.                                                  *)

\* The records that claim completion.
Claims     == {"completed", "completed_after_provider_error"}
Claimed(j) == \E s \in Claims : <<j, s>> \in audit

Gone(d) == Entry(d) \notin grants

\* Where a delivery has found its entitlement gone, and where it has not
\* looked yet, or found it live.
Finding == {"audit", "complete", "completeunaudited", "settle", "settleaudit"}
Pursuit == Targeted \ (Finding \union {"verify"})

\* What a delivery knows of the right of its job.
Truth(d) ==
    /\ pc[d] \in Targeted => Holders(RightOf[Seq(d)]) \subseteq {target[d]}
    /\ pc[d] \in Finding => Gone(d)
    /\ pc[d] \in Pursuit => ~Claimed(job[d])
    /\ pc[d] = "complete" => Claimed(job[d])
    /\ reply[d].ok /\ ~reply[d].duplicate => pc[d] = "done" /\ Claimed(job[d])

\* The strengthening of AuditTellsTheTruth.
TruthInv ==
    /\ \A d \in Deliveries : Truth(d)
    /\ \A j \in Jobs : Claimed(j) => Holders(RightOf[j[2]]) = {}

\* Where the trail is promised to tell the truth: entitlements are moved by
\* deliveries only, and no two jobs are about the same right.
OnlyDeliveries ==
    /\ "admin" \notin Events
    /\ Rollbacks = {}
    /\ \A j, k \in Jobs : RightOf[j[2]] = RightOf[k[2]] => j = k

\* The locals a step of a delivery leaves alone, and what only grows.
LEMMA StepEffects ==
    ASSUME TypeOK, NEW d \in Deliveries, Execute(d)
    PROVE  /\ job' = job
           /\ \A e \in Deliveries : e # d =>
                 /\ pc'[e] = pc[e] /\ target'[e] = target[e] /\ applied'[e] = applied[e]
                 /\ recovering'[e] = recovering[e] /\ reply'[e] = reply[e]
           /\ audit \subseteq audit'
           /\ faults' = faults \/ (faults < MaxFaults /\ faults' = faults + 1)
<1> USE DEF Execute, RecordAction, ReturnPrior, GiveUpWaiting, Release, ResolveTarget,
            StorePreimage, DryRun, CompleteDryRun, AuditDryRun, Apply, CompleteRefusal,
            AuditRefusal, Verify, Restore, VerifyRestored, CompleteRollback, AuditRollback,
            AuditCompleted, CompleteApplied, CompleteSettled, AuditSettled, Recover, locals, Goto,
            Return, TypeOK, DeliveryOK
<1>1. job' = job
  OBVIOUS
<1>2. \A e \in Deliveries : e # d => pc'[e] = pc[e] /\ target'[e] = target[e]
  BY TargetsExecute
<1>3. \A e \in Deliveries : e # d => applied'[e] = applied[e]
  OBVIOUS
<1>4. \A e \in Deliveries : e # d => recovering'[e] = recovering[e]
  OBVIOUS
<1>5. \A e \in Deliveries : e # d => reply'[e] = reply[e]
  OBVIOUS
<1>6. audit \subseteq audit'
  BY DEF Write, WriteFails
<1>7. faults' = faults \/ (faults < MaxFaults /\ faults' = faults + 1)
  BY DEF NoFault, Fault, CompleteFails, WriteFails
<1> QED BY <1>1, <1>2, <1>3, <1>4, <1>5, <1>6, <1>7

\* Deliveries that hold locks work on different rights.
LEMMA HoldersApart ==
    ASSUME OnlyDeliveries, TypeOK, LeaseInv,
           NEW d \in Deliveries, pc[d] \in Holding, NEW e \in Deliveries, pc[e] \in Holding, e # d
    PROVE  job[e] # job[d] /\ RightOf[Seq(e)] # RightOf[Seq(d)]
<1>1. job[d] \in Jobs /\ job[e] \in Jobs
  BY DEF TypeOK, DeliveryOK, Holding, BeforeApply, AfterApply
<1>2. job[d] # job[e]
  BY DEF LeaseInv, LeaseExclusive
<1> QED BY <1>1, <1>2 DEF OnlyDeliveries, Seq

\* What a step of a delivery makes of the holders of a right.
LEMMA HoldersExecute ==
    ASSUME TypeOK, NEW d \in Deliveries, Execute(d)
    PROVE  /\ \A x : x # RightOf[Seq(d)] => Holders(x)' = Holders(x)
           /\ Holders(RightOf[Seq(d)])' \subseteq Holders(RightOf[Seq(d)]) \union {target[d]}
           /\ pc[d] # "restore" => \A x : Holders(x)' \subseteq Holders(x)
           /\ pc[d] \notin Holding => grants' = grants
<1>1. /\ grants' \subseteq grants \union {Entry(d)}
      /\ grants \subseteq grants' \union {Entry(d)}
      /\ pc[d] # "restore" => grants' \subseteq grants
      /\ pc[d] \notin Holding => grants' = grants
  BY GrantsExecute DEF Holding, BeforeApply, AfterApply
<1>2. \A x : x # RightOf[Seq(d)] => Holders(x)' = Holders(x)
  BY <1>1 DEF Holders, Entry
<1>3. Holders(RightOf[Seq(d)])' \subseteq Holders(RightOf[Seq(d)]) \union {target[d]}
  <2> DEFINE x == RightOf[Seq(d)]
  <2>1. Seq(d)' = Seq(d)
    BY StepEffects DEF Seq
  <2>2. \A i \in Identities : <<i, x>> \in grants' => <<i, x>> \in grants \/ i = target[d]
    BY <1>1 DEF Entry
  <2> QED BY <2>1, <2>2 DEF Holders
<1>4. pc[d] # "restore" => \A x : Holders(x)' \subseteq Holders(x)
  BY <1>1 DEF Holders
<1> QED BY <1>1, <1>2, <1>3, <1>4

\* Only two steps write a record that claims completion.
LEMMA NewClaim ==
    ASSUME TypeOK, NEW d \in Deliveries, Execute(d), NEW j, Claimed(j)', ~Claimed(j)
    PROVE  pc[d] \in {"audit", "settleaudit"} /\ j = job[d]
<1>1. PICK s \in Claims : <<j, s>> \in audit' \ audit
  BY DEF Claimed
<1>2. PICK t \in Statuses :
          /\ audit' = audit \union {<<job[d], t>>}
          /\ t \in Claims => pc[d] \in {"audit", "settleaudit"}
  BY <1>1 DEF Claims, Statuses, Write, WriteFails, Execute, RecordAction, ReturnPrior,
       GiveUpWaiting, Release, ResolveTarget, StorePreimage, DryRun, CompleteDryRun,
       AuditDryRun, Apply, CompleteRefusal, AuditRefusal, Verify, Restore, VerifyRestored,
       CompleteRollback, AuditRollback, AuditCompleted, CompleteApplied, CompleteSettled,
       AuditSettled
<1> QED BY <1>1, <1>2

\* A claim that stands, or is made, is about a right that nobody holds.
LEMMA ClaimsExecute ==
    ASSUME OnlyDeliveries, TypeOK, TruthInv,
           NEW d \in Deliveries, Execute(d), NEW j \in Jobs, Claimed(j)'
    PROVE  Holders(RightOf[j[2]])' = {}
<1>1. CASE Claimed(j)
  <2>1. Holders(RightOf[j[2]]) = {}
    BY <1>1 DEF TruthInv
  <2>2. CASE pc[d] = "restore"
    <3>1. job[d] \in Jobs /\ ~Claimed(job[d])
      BY <2>2, ExecuteEffects DEF TruthInv, Truth, Pursuit, Targeted, AfterApply, Finding
    <3>2. CASE RightOf[j[2]] # RightOf[Seq(d)]
      BY <2>1, <3>2, HoldersExecute
    <3>3. CASE RightOf[j[2]] = RightOf[Seq(d)]
      <4>1. j = job[d]
        BY <3>1, <3>3 DEF OnlyDeliveries, Seq
      <4> QED BY <1>1, <3>1, <4>1
    <3> QED BY <3>2, <3>3
  <2>3. CASE pc[d] # "restore"
    BY <2>1, <2>3, HoldersExecute
  <2> QED BY <2>2, <2>3
<1>2. CASE ~Claimed(j)
  <2>1. pc[d] \in {"audit", "settleaudit"} /\ j = job[d]
    BY <1>2, NewClaim
  <2>2. Gone(d) /\ Holders(RightOf[Seq(d)]) \subseteq {target[d]}
    BY <2>1 DEF TruthInv, Truth, Finding, Targeted, AfterApply
  <2>3. Holders(RightOf[Seq(d)]) = {}
    BY <2>2 DEF Gone, Entry, Holders
  <2> QED BY <2>1, <2>3, HoldersExecute DEF Seq
<1> QED BY <1>1, <1>2

\* What a step of a delivery means for the others.
LEMMA TruthOthers ==
    ASSUME OnlyDeliveries, TypeOK, LeaseInv, TruthInv,
           NEW d \in Deliveries, Execute(d), NEW e \in Deliveries, e # d
    PROVE  Truth(e)'
<1>1. /\ job' = job /\ pc'[e] = pc[e] /\ target'[e] = target[e] /\ reply'[e] = reply[e]
      /\ audit \subseteq audit'
  BY StepEffects
<1>2. Truth(e)
  BY DEF TruthInv
<1>3. Claimed(job[e]) => Claimed(job[e])'
  BY <1>1 DEF Claimed
<1>4. Seq(e)' = Seq(e) /\ Entry(e)' = Entry(e)
  BY <1>1 DEF Seq, Entry
<1>5. ASSUME pc[e] \in Targeted
      PROVE  /\ Holders(RightOf[Seq(e)])' = Holders(RightOf[Seq(e)])
             /\ Gone(e)' <=> Gone(e)
             /\ Claimed(job[e])' => Claimed(job[e])
  <2>1. pc[e] \in Holding /\ target[e] \in Identities
    BY <1>5 DEF Targeted, Holding, BeforeApply, TypeOK, DeliveryOK
  <2>2. CASE pc[d] \in Holding
    <3>1. job[e] # job[d] /\ RightOf[Seq(e)] # RightOf[Seq(d)]
      BY <2>1, <2>2, HoldersApart
    <3>2. Claimed(job[e])' => Claimed(job[e])
      BY <1>1, <3>1, NewClaim DEF Claimed
    <3>3. Holders(RightOf[Seq(e)])' = Holders(RightOf[Seq(e)])
      BY <1>4, <3>1, HoldersExecute
    <3>4. Entry(e) # Entry(d)
      BY <3>1 DEF Entry
    <3>5. Gone(e)' <=> Gone(e)
      BY <1>4, <3>4, GrantsExecute DEF Gone
    <3> QED BY <3>2, <3>3, <3>5
  <2>3. CASE pc[d] \notin Holding
    <3>1. grants' = grants /\ pc[d] \notin {"audit", "settleaudit"}
      BY <2>3, HoldersExecute DEF Holding, AfterApply
    <3>2. Claimed(job[e])' => Claimed(job[e])
      BY <1>1, <3>1, NewClaim DEF Claimed
    <3> QED BY <1>4, <3>1, <3>2 DEF Holders, Gone
  <2> QED BY <2>2, <2>3
<1>6. Pursuit \subseteq Targeted /\ Finding \subseteq Targeted
  BY DEF Pursuit, Finding, Targeted, AfterApply
<1> QED BY <1>1, <1>2, <1>3, <1>4, <1>5, <1>6 DEF Truth, Claimed

\* Where a step leads a delivery that has its target.
LEMMA TargetedMoves ==
    ASSUME TypeOK, NEW d \in Deliveries, Execute(d), pc[d] \in Targeted
    PROVE  /\ target' = target /\ job' = job
           /\ pc'[d] \in Pursuit => pc[d] \in Pursuit \/ (pc[d] = "verify" /\ ~Gone(d))
           /\ pc'[d] \in Finding =>
                 (pc[d] \in Finding \/ (pc[d] = "verify" /\ Gone(d))) /\ grants' = grants
           /\ pc'[d] = "complete" => Claimed(job[d])'
           /\ \/ reply' = reply
              \/ pc'[d] = "done" /\ (reply'[d].ok => pc[d] = "complete" \/ Claimed(job[d])')
<1> USE DEF Execute, RecordAction, ReturnPrior, GiveUpWaiting, Release, ResolveTarget,
            StorePreimage, DryRun, CompleteDryRun, AuditDryRun, Apply, CompleteRefusal,
            AuditRefusal, Verify, Restore, VerifyRestored, CompleteRollback, AuditRollback,
            AuditCompleted, CompleteApplied, CompleteSettled, AuditSettled, Recover, locals, Goto,
            Return, TypeOK, DeliveryOK, Targeted, AfterApply
<1>1. target' = target /\ job' = job
  OBVIOUS
<1>2. pc'[d] \in Pursuit => pc[d] \in Pursuit \/ (pc[d] = "verify" /\ ~Gone(d))
  BY DEF Pursuit, Finding, StillLive, Gone
<1>3. pc'[d] \in Finding => pc[d] \in Finding \/ (pc[d] = "verify" /\ Gone(d))
  BY DEF Finding, StillLive, Gone
<1>4. pc'[d] \in Finding => grants' = grants
  BY DEF Finding
<1>5. pc'[d] = "complete" => <<job[d], "completed">> \in audit'
  BY DEF Write
<1>6. \/ reply' = reply
      \/ pc'[d] = "done" /\ (reply'[d].ok => pc[d] \in {"complete", "settleaudit"})
  OBVIOUS
<1>7. pc[d] = "settleaudit" /\ reply' # reply
         => <<job[d], "completed_after_provider_error">> \in audit'
  BY DEF Write
<1> QED BY <1>1, <1>2, <1>3, <1>4, <1>5, <1>6, <1>7 DEF Claimed, Claims

\* Where a step leads a delivery that has no target yet.
LEMMA UntargetedMoves ==
    ASSUME TypeOK, NEW d \in Deliveries, Execute(d), pc[d] \notin Targeted
    PROVE  /\ grants' = grants /\ audit' \subseteq audit \union ({job[d]} \X {"dry_run_failed"})
           /\ pc'[d] \in Targeted =>
                 pc'[d] = "store" /\ Holders(RightOf[Seq(d)]) = {target'[d]}
           /\ pc[d] # "done"
           /\ reply' = reply \/ ~reply'[d].ok \/ reply'[d].duplicate
<1> USE DEF Execute, RecordAction, ReturnPrior, GiveUpWaiting, Release, ResolveTarget,
            StorePreimage, DryRun, CompleteDryRun, AuditDryRun, Apply, CompleteRefusal,
            AuditRefusal, Verify, Restore, VerifyRestored, CompleteRollback, AuditRollback,
            AuditCompleted, CompleteApplied, CompleteSettled, AuditSettled, locals, Goto,
            Return, TypeOK, DeliveryOK, Targeted, AfterApply
<1>1. grants' = grants /\ pc[d] # "done"
  OBVIOUS
<1>2. audit' \subseteq audit \union ({job[d]} \X {"dry_run_failed"})
  BY DEF Write, WriteFails
<1>3. pc'[d] \in Targeted => pc'[d] = "store" /\ Holders(RightOf[Seq(d)]) = {target'[d]}
  BY DEF Resolvable
<1>4. reply' = reply \/ ~reply'[d].ok \/ reply'[d].duplicate
  OBVIOUS
<1> QED BY <1>1, <1>2, <1>3, <1>4

\* What a step of a delivery means for itself.
LEMMA TruthExecute ==
    ASSUME TypeOK, TruthInv, NEW d \in Deliveries, Execute(d)
    PROVE  Truth(d)'
<1>1. Truth(d) /\ job' = job /\ job[d] \in Jobs /\ audit \subseteq audit'
  BY ExecuteEffects, StepEffects DEF TruthInv
<1>2. Claimed(job[d]) => Holders(RightOf[Seq(d)]) = {}
  BY <1>1 DEF TruthInv, Seq
<1>3. CASE pc[d] \in Targeted
  <2>1. /\ target' = target
        /\ pc'[d] \in Pursuit => pc[d] \in Pursuit \/ (pc[d] = "verify" /\ ~Gone(d))
        /\ pc'[d] \in Finding =>
              (pc[d] \in Finding \/ (pc[d] = "verify" /\ Gone(d))) /\ grants' = grants
        /\ pc'[d] = "complete" => Claimed(job[d])'
        /\ \/ reply' = reply
           \/ pc'[d] = "done" /\ (reply'[d].ok => pc[d] = "complete" \/ Claimed(job[d])')
    BY <1>3, TargetedMoves
  <2>2. Seq(d)' = Seq(d) /\ Entry(d)' = Entry(d) /\ target[d] \in Identities
    BY <1>1, <1>3, <2>1 DEF Seq, Entry, TypeOK, DeliveryOK
  <2>3. Holders(RightOf[Seq(d)])' \subseteq {target'[d]}
    BY <1>1, <1>3, <2>1, HoldersExecute DEF Truth
  <2>4. pc'[d] \in Finding => Gone(d)'
    BY <1>1, <2>1, <2>2 DEF Truth, Gone
  <2>5. pc'[d] \in Pursuit => ~Claimed(job[d])
    <3>1. ~Gone(d) => Holders(RightOf[Seq(d)]) # {}
      BY <2>2 DEF Gone, Entry, Holders
    <3> QED BY <1>1, <1>2, <2>1, <3>1 DEF Truth
  <2>6. pc'[d] \in Pursuit => ~Claimed(job[d])'
    <3>1. pc[d] \in {"audit", "settleaudit"} => pc[d] \notin Pursuit /\ pc[d] # "verify"
      BY DEF Pursuit, Finding
    <3>2. SUFFICES ASSUME pc'[d] \in Pursuit PROVE ~Claimed(job[d])'
      OBVIOUS
    <3>3. ~Claimed(job[d]) /\ pc[d] \notin {"audit", "settleaudit"}
      BY <2>1, <2>5, <3>1, <3>2
    <3>4. \A j : ~(Claimed(j)' /\ ~Claimed(j))
      BY <3>3, NewClaim
    <3> QED BY <1>1, <3>3, <3>4 DEF Claimed
  <2>7. reply'[d].ok /\ ~reply'[d].duplicate => pc'[d] = "done" /\ Claimed(job[d])'
    <3>1. pc[d] # "done"
      BY <1>3 DEF Targeted, AfterApply
    <3>2. Claimed(job[d]) => Claimed(job[d])'
      BY <1>1 DEF Claimed
    <3> QED BY <1>1, <2>1, <3>1, <3>2 DEF Truth
  <2> QED BY <1>1, <2>1, <2>3, <2>4, <2>6, <2>7 DEF Truth, Claimed
<1>4. CASE pc[d] \notin Targeted
  <2>1. /\ grants' = grants /\ audit' \subseteq audit \union ({job[d]} \X {"dry_run_failed"})
        /\ pc'[d] \in Targeted =>
              pc'[d] = "store" /\ Holders(RightOf[Seq(d)]) = {target'[d]}
        /\ pc[d] # "done"
        /\ reply' = reply \/ ~reply'[d].ok \/ reply'[d].duplicate
    BY <1>4, UntargetedMoves
  <2>2. \A j : Claimed(j)' <=> Claimed(j)
    BY <1>1, <2>1 DEF Claimed, Claims
  <2>3. pc'[d] \in Targeted => pc'[d] = "store" /\ ~Claimed(job[d])'
    <3>1. pc'[d] \in Targeted => pc'[d] = "store" /\ ~Claimed(job[d])
      BY <1>2, <2>1
    <3> QED BY <1>1, <2>2, <3>1 DEF Claimed
  <2>4. Holders(RightOf[Seq(d)])' = Holders(RightOf[Seq(d)])
    BY <1>1, <2>1 DEF Holders, Seq
  <2>5. "store" \notin Finding /\ Finding \subseteq Targeted /\ Pursuit \subseteq Targeted
    BY DEF Finding, Pursuit, Targeted, AfterApply
  <2>6. ~(reply'[d].ok /\ ~reply'[d].duplicate)
    BY <1>1, <2>1 DEF Truth
  <2>7. "complete" \in Finding
    BY DEF Finding
  <2> QED BY <1>1, <2>1, <2>2, <2>3, <2>4, <2>5, <2>6, <2>7 DEF Truth, Claimed
<1> QED BY <1>3, <1>4

\* A step that moves no entitlement and no delivery with a target.
LEMMA TruthStays ==
    ASSUME TypeOK, TruthInv, UNCHANGED <<grants, audit, target, reply>>,
           \A d \in Deliveries : \/ pc'[d] = pc[d] /\ job'[d] = job[d]
                                 \/ pc'[d] \notin Targeted /\ pc[d] # "done"
    PROVE  TruthInv'
<1>1. \A j : Claimed(j)' <=> Claimed(j)
  BY DEF Claimed
<1>2. \A x : Holders(x)' = Holders(x)
  BY DEF Holders
<1>3. Finding \subseteq Targeted /\ Pursuit \subseteq Targeted /\ "complete" \in Targeted
  BY DEF Finding, Pursuit, Targeted, AfterApply
<1>4. ASSUME NEW d \in Deliveries PROVE Truth(d)'
  <2>1. Truth(d)
    BY DEF TruthInv
  <2>2. CASE pc'[d] = pc[d] /\ job'[d] = job[d]
    <3>1. Seq(d)' = Seq(d) /\ Entry(d)' = Entry(d)
      BY <2>2 DEF Seq, Entry
    <3> QED BY <1>1, <1>2, <2>1, <2>2, <3>1 DEF Truth, Gone, Claimed
  <2>3. CASE pc'[d] \notin Targeted /\ pc[d] # "done"
    BY <1>3, <2>1, <2>3 DEF Truth
  <2> QED BY <2>2, <2>3
<1> QED BY <1>1, <1>2, <1>4 DEF TruthInv

\* The trail never claims what is not so, however many calls fail, processes
\* die and locks expire: a record that claims completion stands against no
\* live entitlement, and success is never reported without one.
THEOREM ExecutorAuditTellsTheTruth ==
    ASSUME OnlyDeliveries
    PROVE  Spec => []AuditTellsTheTruth
<1> USE ExecutorAssumption
<1>1. Init => LeaseInv /\ TruthInv
  BY DEF Init, LeaseInv, LeaseExclusive, Holding, BeforeApply, AfterApply, TruthInv, Truth,
         Targeted, Finding, Pursuit, NoReply, Claimed, Claims
<1>2. TypeOK /\ LeaseInv /\ [Next]_vars => LeaseInv'
  BY LeaseDeliver, LeaseExecute, LeaseOther DEF Next
<1>3. TypeOK /\ LeaseInv /\ TruthInv /\ [Next]_vars => TruthInv'
  <2> SUFFICES ASSUME TypeOK, LeaseInv, TruthInv, [Next]_vars PROVE TruthInv'
    OBVIOUS
  <2>1. CASE UNCHANGED vars
    BY <2>1, TruthStays DEF vars, locals
  <2>2. ASSUME NEW d \in Deliveries, Execute(d) PROVE TruthInv'
    BY <2>2, TruthOthers, TruthExecute, ClaimsExecute DEF TruthInv
  <2>3. ASSUME NEW d \in Deliveries, Deliver(d) PROVE TruthInv'
    <3>1. PICK j \in Jobs : Claim(d, j)
      BY <2>3 DEF Deliver
    <3>2. /\ UNCHANGED <<grants, audit, target, reply>> /\ pc[d] = "idle"
          /\ \A e \in Deliveries : e # d => pc'[e] = pc[e] /\ job'[e] = job[e]
          /\ pc'[d] \notin Targeted
      BY <3>1 DEF Claim, Goto, Targeted, AfterApply, TypeOK, DeliveryOK
    <3> QED BY <3>2, TruthStays
  <2>4. CASE Environment
    <3>1. ASSUME NEW d \in Deliveries, Crash(d) PROVE TruthInv'
      <4>1. /\ UNCHANGED <<grants, audit, target, reply, job>> /\ pc[d] # "done"
            /\ pc' = [pc EXCEPT ![d] = "dead"]
        BY <3>1 DEF Crash, Goto, locals, Running, Holding, BeforeApply, AfterApply
      <4> QED BY <4>1, TruthStays DEF TypeOK, DeliveryOK, Targeted, AfterApply
    <3>2. ASSUME NEW j \in Jobs, ExpireLock(j) \/ ExpireAction(j) PROVE TruthInv'
      BY <3>2, TruthStays DEF ExpireLock, ExpireAction, locals
    <3>3. \A e \in Entries : ~Administer(e)
      BY DEF Administer, Fault, OnlyDeliveries
    <3> QED BY <2>4, <3>1, <3>2, <3>3 DEF Environment
  <2>5. ~(\E r \in Rollbacks : TRUE)
    BY DEF OnlyDeliveries
  <2> QED BY <2>1, <2>2, <2>3, <2>4, <2>5 DEF Next
<1>4. TruthInv => AuditTellsTheTruth
  BY DEF TruthInv, Truth, AuditTellsTheTruth, Claimed, Claims
<1> QED BY <1>1, <1>2, <1>3, <1>4, ExecutorTypeOK, PTL DEF Spec

-----------------------------------------------------------------------------
(* What one fault cannot do.                                               *)

Published(d, result) == locks[job[d]] = [status |-> "complete", result |-> result]

\* Where a delivery has an entitlement in sight that no apply took yet.
Aiming == {"store", "dryrun", "apply"}

\* What a delivery that entered apply has done, by where it is.
Outcome(d) ==
    /\ applied[d] = "failed" => ~Gone(d)
    /\ recovering[d] => faults = 1
    /\ pc[d] \in {"refuse", "refuseaudit"} => applied[d] = "failed"
    /\ pc[d] = "verify" /\ ~recovering[d] /\ ~Gone(d) => faults = 1
    /\ pc[d] \in {"restore", "reverify", "final", "finalaudit"} => ~Gone(d) /\ faults = 1
    /\ pc[d] \in {"settle", "settleaudit"} => Gone(d) /\ recovering[d]
    /\ pc[d] \in {"audit", "complete", "completeunaudited"} => Gone(d) /\ ~recovering[d]
    /\ pc[d] = "completeunaudited" => faults = 1
    /\ pc[d] \in {"refuseaudit", "finalaudit"} => Published(d, "failed")
    /\ pc[d] = "settleaudit" => Published(d, "ok")
    /\ pc[d] = "done" => IF Gone(d) THEN Published(d, "ok") ELSE Published(d, "failed")

\* What holds of each delivery.
Fate(d) ==
    /\ pc[d] \in AfterApply \/ recovering[d] => applied[d] # "none"
    /\ applied[d] # "none" =>
          /\ pc[d] \in AfterApply \union {"done"}
          /\ applies[job[d]] # 0
          /\ Outcome(d)
    /\ pc[d] \in Aiming => ~Gone(d)

\* One delivery of a job at most entered apply.
Alone ==
    \A d, e \in Deliveries :
        applied[d] # "none" /\ applied[e] # "none" /\ job[d] = job[e] => d = e

\* The strengthening of NeverNeither.
OutcomeInv ==
    /\ \A d \in Deliveries : Fate(d)
    /\ Alone

\* Where NeverNeither is promised: one remote call fails at most, no process
\* dies, no lock expires and, as above, only deliveries move entitlements.
OneFault ==
    /\ MaxFaults <= 1
    /\ Events \cap {"crash", "expiry"} = {}
    /\ OnlyDeliveries

\* A fault that happened is the only one.
LEMMA FaultsGrow ==
    ASSUME ExecutorAssumption, OneFault, TypeOK,
           faults' = faults \/ (faults < MaxFaults /\ faults' = faults + 1)
    PROVE  /\ faults = 1 => faults' = 1 /\ \A k : ~Fault(k)
           /\ \A k : Fault(k) => faults' = 1
<1>1. faults \in 0..MaxFaults /\ MaxFaults \in Nat /\ MaxFaults <= 1
  BY DEF TypeOK, HistoryOK, ExecutorAssumption, OneFault
<1> QED BY <1>1 DEF Fault

\* Under OneFault a step of a delivery grants nothing, and takes only in apply.
LEMMA GrantsShrink ==
    ASSUME TypeOK, NEW d \in Deliveries, Fate(d), Execute(d)
    PROVE  /\ grants' \subseteq grants
           /\ pc[d] # "apply" => grants' = grants
           /\ grants \ grants' \subseteq {Entry(d)}
<1>1. CASE pc[d] = "restore"
  <2>1. pc[d] \in AfterApply
    BY <1>1 DEF AfterApply
  <2>2. Entry(d) \in grants
    BY <1>1, <2>1 DEF Fate, Outcome, Gone
  <2> QED BY <1>1, <2>2, GrantsExecute
<1>2. CASE pc[d] # "restore"
  BY <1>2, GrantsExecute
<1> QED BY <1>1, <1>2

\* Who else entered apply, or is about to, works on something else.
LEMMA OthersApart ==
    ASSUME OneFault, TypeOK, LeaseInv, OnceInv, OutcomeInv,
           NEW d \in Deliveries, pc[d] \in Holding, NEW e \in Deliveries, e # d,
           applied[e] # "none" \/ pc[e] \in Aiming
    PROVE  /\ job[e] \in Jobs /\ job[d] \in Jobs /\ job[e] # job[d]
           /\ RightOf[Seq(e)] # RightOf[Seq(d)]
<1>1. pc[e] # "idle" /\ pc[d] # "idle"
  BY DEF OutcomeInv, Fate, AfterApply, Aiming, Holding, BeforeApply
<1>2. job[e] \in Jobs /\ job[d] \in Jobs
  BY <1>1 DEF TypeOK, DeliveryOK
<1>3. CASE pc[e] \in Aiming
  <2>1. pc[e] \in Holding
    BY <1>3 DEF Aiming, Holding, BeforeApply
  <2>2. job[e] # job[d]
    BY <2>1 DEF LeaseInv, LeaseExclusive
  <2> QED BY <1>2, <2>2 DEF OneFault, OnlyDeliveries, Seq
<1>4. CASE applied[e] # "none"
  <2>1. applies[job[e]] # 0
    BY <1>4 DEF OutcomeInv, Fate
  <2>2. pc[d] \in BeforeApply => job[d] # job[e]
    BY <1>2, <2>1 DEF OnceInv
  <2>3. pc[d] \in AfterApply => job[d] # job[e]
    BY <1>4 DEF OutcomeInv, Fate, Alone
  <2> QED BY <1>2, <2>2, <2>3 DEF OneFault, OnlyDeliveries, Seq, Holding
<1> QED BY <1>3, <1>4

\* What a step of a delivery means for the others.
LEMMA FateOthers ==
    ASSUME ExecutorAssumption, OneFault, TypeOK, LeaseInv, OnceInv, OutcomeInv,
           NEW d \in Deliveries, Execute(d), NEW e \in Deliveries, e # d
    PROVE  Fate(e)'
<1>1. /\ job' = job /\ pc'[e] = pc[e] /\ target'[e] = target[e] /\ applied'[e] = applied[e]
      /\ recovering'[e] = recovering[e]
      /\ faults = 1 => faults' = 1
  BY StepEffects, FaultsGrow
<1>2. Fate(e) /\ Fate(d)
  BY DEF OutcomeInv
<1>3. Seq(e)' = Seq(e) /\ Entry(e)' = Entry(e)
  BY <1>1 DEF Seq, Entry
<1>4. ASSUME applied[e] # "none" \/ pc[e] \in Aiming
      PROVE  Gone(e)' <=> Gone(e)
  <2>1. CASE pc[d] = "apply"
    <3>1. RightOf[Seq(e)] # RightOf[Seq(d)]
      BY <1>4, <2>1, OthersApart DEF Holding, BeforeApply
    <3>2. Entry(e) # Entry(d)
      BY <3>1 DEF Entry
    <3> QED BY <1>2, <1>3, <3>2, GrantsShrink DEF Gone
  <2>2. CASE pc[d] # "apply"
    BY <1>2, <1>3, <2>2, GrantsShrink DEF Gone
  <2> QED BY <2>1, <2>2
<1>5. ASSUME applied[e] # "none", NEW x
      PROVE  Published(e, x) => Published(e, x)'
  <2>1. job[e] \in Jobs
    BY <1>2, <1>5 DEF TypeOK, DeliveryOK, Fate, AfterApply
  <2>2. locks'[job[e]] = locks[job[e]]
    BY <1>5, <2>1, OthersApart, ExecuteEffects
  <2> QED BY <1>1, <2>2 DEF Published
<1>6. applied[e] # "none" => applies'[job'[e]] # 0
  <2>1. ASSUME applied[e] # "none"
        PROVE  job[e] \in Jobs /\ applies[job[e]] # 0
    BY <1>2, <2>1 DEF TypeOK, DeliveryOK, Fate, AfterApply
  <2> QED BY <1>1, <2>1, ApplyCounts, ExecuteEffects DEF TypeOK, HistoryOK
<1>7. applied[e] # "none" => Outcome(e)'
  <2>1. ASSUME applied[e] # "none"
        PROVE  Outcome(e)'
    <3>1. Outcome(e)
      BY <1>2, <2>1 DEF Fate
    <3>2. Gone(e)' <=> Gone(e)
      BY <1>4, <2>1
    <3>3. \A x : Published(e, x) => Published(e, x)'
      BY <1>5, <2>1
    <3> QED BY <1>1, <3>1, <3>2, <3>3 DEF Outcome
  <2> QED BY <2>1
<1> QED BY <1>1, <1>2, <1>3, <1>4, <1>6, <1>7 DEF Fate
\* A step before apply was entered.
LEMMA FateBefore ==
    ASSUME ExecutorAssumption, OneFault, TypeOK, OutcomeInv, NEW d \in Deliveries, Execute(d),
           pc[d] \in {"wait"} \union (BeforeApply \ {"apply"})
    PROVE  Fate(d)'
<1> USE DEF Execute, RecordAction, ReturnPrior, GiveUpWaiting, Release, ResolveTarget,
            StorePreimage, DryRun, CompleteDryRun, AuditDryRun, Apply, CompleteRefusal,
            AuditRefusal, Verify, Restore, VerifyRestored, CompleteRollback, AuditRollback,
            AuditCompleted, CompleteApplied, CompleteSettled, AuditSettled, locals, Goto, Return
<1>1. Fate(d) /\ applied[d] = "none" /\ ~recovering[d]
  BY DEF OutcomeInv, Fate, AfterApply, BeforeApply
<1>2. UNCHANGED <<applied, recovering, grants, job>>
  BY DEF BeforeApply
<1>3. pc'[d] \notin AfterApply
  BY DEF BeforeApply, AfterApply, TypeOK, DeliveryOK
<1>4. ASSUME pc'[d] \in Aiming
      PROVE  ~Gone(d)'
  <2>1. CASE ResolveTarget(d)
    <3>1. PICK i \in Identities : /\ Resolvable(Seq(d), i)
                                  /\ target' = [target EXCEPT ![d] = i]
      BY <1>4, <2>1 DEF TypeOK, DeliveryOK, Aiming
    <3>2. target'[d] = i /\ <<i, RightOf[Seq(d)]>> \in grants
      BY <3>1 DEF TypeOK, DeliveryOK, Resolvable, Holders
    <3> QED BY <1>2, <3>2 DEF Gone, Entry, Seq
  <2>2. CASE ~ResolveTarget(d)
    <3>1. pc[d] \in Aiming /\ target' = target
      BY <1>4, <2>2 DEF TypeOK, DeliveryOK, Aiming, BeforeApply
    <3> QED BY <1>1, <1>2, <3>1 DEF Fate, Gone, Entry, Seq
  <2> QED BY <2>1, <2>2
<1> QED BY <1>1, <1>2, <1>3, <1>4 DEF Fate

\* The first exception after apply was entered is the only one: it leads to
\* the inspection of the live state.
LEMMA RecoverMoves ==
    ASSUME ExecutorAssumption, OneFault, TypeOK, NEW d \in Deliveries, Recover(d),
           recovering[d] => faults = 1, NEW k, Fault(k)
    PROVE  ~recovering[d] /\ pc'[d] = "verify" /\ recovering'[d] = TRUE /\ faults' = 1
<1>1. ~recovering[d] /\ faults' = 1
  BY FaultsGrow DEF Fault
<1> QED BY <1>1 DEF Recover, Goto, TypeOK, DeliveryOK

\* The apply itself.
LEMMA FateApply ==
    ASSUME ExecutorAssumption, OneFault, TypeOK, OutcomeInv, NEW d \in Deliveries, Apply(d)
    PROVE  Fate(d)'
<1>1. Fate(d) /\ applied[d] = "none" /\ pc[d] = "apply" /\ ~recovering[d]
  BY DEF OutcomeInv, Fate, AfterApply, Apply
<1>2. /\ job' = job /\ target' = target
      /\ job[d] \in Jobs /\ applies' = [applies EXCEPT ![job[d]] = @ + 1]
  BY DeliveryFacts DEF TypeOK, Apply
<1>3. applies'[job'[d]] # 0
  BY <1>2 DEF TypeOK, HistoryOK
<1>4. Seq(d)' = Seq(d) /\ Entry(d)' = Entry(d) /\ grants' \subseteq grants
  BY <1>2 DEF Seq, Entry, Apply
<1>5. Entry(d) \in grants
  BY <1>1 DEF Fate, Aiming, Gone
<1>6. /\ pc'[d] \in {"verify", "refuse"}
      /\ applied'[d] # "none"
      /\ applied'[d] = "failed" => ~Gone(d)'
      /\ recovering'[d] => faults' = 1
      /\ pc'[d] = "refuse" => applied'[d] = "failed"
      /\ pc'[d] = "verify" /\ ~recovering'[d] /\ ~Gone(d)' => faults' = 1
  <2>1. CASE /\ \/ NoFault /\ grants' = grants \ {Entry(d)}
                \/ Fault("provider") /\ grants' = grants
             /\ applied' = [applied EXCEPT ![d] = "ok"] /\ Goto(d, "verify") /\ UNCHANGED recovering
    <3>1. pc'[d] = "verify" /\ applied'[d] = "ok" /\ ~recovering'[d]
      BY <1>1, <2>1 DEF Goto, TypeOK, DeliveryOK
    <3>2. ~Gone(d)' => faults' = 1
      BY <1>4, <2>1, FaultsGrow DEF Gone, Fault
    <3> QED BY <3>1, <3>2
  <2>2. CASE /\ grants' = grants
             /\ applied' = [applied EXCEPT ![d] = "failed"] /\ Goto(d, "refuse")
             /\ UNCHANGED recovering
    <3>1. pc'[d] = "refuse" /\ applied'[d] = "failed" /\ ~recovering'[d]
      BY <1>1, <2>2 DEF Goto, TypeOK, DeliveryOK
    <3>2. ~Gone(d)'
      BY <1>4, <1>5, <2>2 DEF Gone
    <3> QED BY <3>1, <3>2
  <2>3. CASE Fault("provider") /\ applied' = [applied EXCEPT ![d] = "raised"] /\ Recover(d)
    <3>1. applied'[d] = "raised"
      BY <2>3 DEF TypeOK, DeliveryOK
    <3>2. pc'[d] = "verify" /\ recovering'[d] = TRUE /\ faults' = 1
      BY <1>1, <2>3, RecoverMoves
    <3> QED BY <3>1, <3>2
  <2> QED BY <2>1, <2>2, <2>3 DEF Apply
<1>7. pc'[d] \in AfterApply /\ pc'[d] \notin Aiming /\ Outcome(d)'
  BY <1>6 DEF AfterApply, Aiming, Outcome
<1> QED BY <1>2, <1>3, <1>6, <1>7 DEF Fate

\* What every step after apply leaves alone.
LEMMA AfterEffects ==
    ASSUME TypeOK, OutcomeInv, NEW d \in Deliveries, Execute(d), pc[d] \in AfterApply
    PROVE  /\ Fate(d) /\ Outcome(d) /\ applied[d] # "none" /\ job[d] \in Jobs
           /\ UNCHANGED <<job, target, applied, applies, grants>>
           /\ Gone(d)' <=> Gone(d)
<1>1. Fate(d) /\ Outcome(d) /\ applied[d] # "none"
  BY DEF OutcomeInv, Fate
<1>2. pc[d] \notin {"apply", "idle", "done"} /\ pc[d] \notin BeforeApply
  BY DEF AfterApply, BeforeApply
<1>3. grants' = grants
  BY <1>1, <1>2, GrantsShrink
<1>4. UNCHANGED <<target, applied, applies>>
  BY <1>2 DEF Execute, RecordAction, ReturnPrior, GiveUpWaiting, Release, ResolveTarget,
       StorePreimage, DryRun, CompleteDryRun, AuditDryRun, Apply, CompleteRefusal,
       AuditRefusal, Verify, Restore, VerifyRestored, CompleteRollback, AuditRollback,
       AuditCompleted, CompleteApplied, CompleteSettled, AuditSettled, locals, history, AfterApply
<1>5. job' = job /\ job[d] \in Jobs
  BY ExecuteEffects
<1>6. Gone(d)' <=> Gone(d)
  BY <1>3, <1>4, <1>5 DEF Gone, Entry, Seq
<1> QED BY <1>1, <1>3, <1>4, <1>5, <1>6

\* What is left to show of a step after apply.
LEMMA FateAfterIf ==
    ASSUME TypeOK, OutcomeInv, NEW d \in Deliveries, Execute(d), pc[d] \in AfterApply,
           pc'[d] \in AfterApply \union {"done"}, Outcome(d)'
    PROVE  Fate(d)'
<1>1. pc'[d] \notin Aiming
  BY DEF Aiming, AfterApply
<1>2. applies'[job'[d]] # 0
  BY AfterEffects DEF Fate
<1> QED BY <1>1, <1>2, AfterEffects DEF Fate

\* What complete publishes.
LEMMA CompletePublishes ==
    ASSUME TypeOK, NEW d \in Deliveries, job[d] \in Jobs, job' = job, NEW x, Complete(d, x)
    PROVE  Published(d, x)'
BY DEF Complete, Published, TypeOK, RemoteOK

\* An exception after apply was entered.
LEMMA FateRecovers ==
    ASSUME ExecutorAssumption, OneFault, TypeOK, OutcomeInv, NEW d \in Deliveries, Execute(d),
           pc[d] \in AfterApply, Recover(d), NEW k, Fault(k)
    PROVE  Fate(d)'
<1>1. recovering[d] => faults = 1
  BY AfterEffects DEF Outcome
<1>2. pc'[d] = "verify" /\ recovering'[d] = TRUE /\ faults' = 1
  BY <1>1, RecoverMoves
<1>3. Outcome(d)'
  BY <1>2, AfterEffects DEF Outcome
<1>4. pc'[d] \in AfterApply
  BY <1>2 DEF AfterApply
<1> QED BY <1>3, <1>4, FateAfterIf

\* Refusals: the provider did not revoke.
LEMMA FateRefusal ==
    ASSUME ExecutorAssumption, OneFault, TypeOK, OutcomeInv, NEW d \in Deliveries,
           CompleteRefusal(d) \/ AuditRefusal(d)
    PROVE  Fate(d)'
<1>1. Execute(d) /\ pc[d] \in {"refuse", "refuseaudit"} /\ pc[d] \in AfterApply
  BY DEF Execute, CompleteRefusal, AuditRefusal, AfterApply
<1>2. Outcome(d) /\ applied[d] = "failed" /\ ~Gone(d) /\ job[d] \in Jobs
  BY <1>1, AfterEffects DEF Outcome
<1>3. ASSUME NEW k, Fault(k), Recover(d)
      PROVE  Fate(d)'
  BY <1>1, <1>3, FateRecovers
<1>4. CASE /\ pc[d] = "refuse" /\ NoFault /\ Complete(d, "failed")
           /\ Goto(d, "refuseaudit") /\ UNCHANGED <<recovering, job>>
  <2>1. pc'[d] = "refuseaudit" /\ Published(d, "failed")'
    BY <1>2, <1>4, CompletePublishes DEF Goto, TypeOK, DeliveryOK
  <2>2. Outcome(d)'
    BY <1>1, <1>2, <1>4, <2>1, AfterEffects DEF Outcome, NoFault
  <2>3. pc'[d] \in AfterApply
    BY <2>1 DEF AfterApply
  <2> QED BY <1>1, <1>4, <2>2, <2>3, FateAfterIf
<1>5. CASE /\ pc[d] = "refuseaudit" /\ NoFault /\ Return(d, FALSE, "failed")
           /\ UNCHANGED <<recovering, locks, job>>
  <2>1. pc'[d] = "done" /\ Published(d, "failed")'
    BY <1>2, <1>5 DEF Return, Goto, TypeOK, DeliveryOK, Outcome, Published
  <2>2. Outcome(d)'
    BY <1>1, <1>2, <1>5, <2>1, AfterEffects DEF Outcome, NoFault
  <2> QED BY <1>1, <2>1, <2>2, FateAfterIf
<1> QED
  BY <1>3, <1>4, <1>5
     DEF CompleteRefusal, AuditRefusal, CompleteFails, WriteFails, store

\* The inspection of the live state.
LEMMA FateVerify ==
    ASSUME ExecutorAssumption, OneFault, TypeOK, OutcomeInv, NEW d \in Deliveries, Verify(d)
    PROVE  Fate(d)'
<1>1. Execute(d) /\ pc[d] = "verify" /\ pc[d] \in AfterApply
  BY DEF Execute, Verify, AfterApply
<1>2. Outcome(d)
  BY <1>1, AfterEffects
<1>3. CASE Fault("provider") /\ Recover(d)
  BY <1>1, <1>3, FateRecovers
<1>4. CASE NoFault /\ UNCHANGED recovering
           /\ Goto(d, IF StillLive(d) THEN "restore"
                      ELSE IF recovering[d] THEN "settle" ELSE "audit")
  <2>1. pc'[d] = IF StillLive(d) THEN "restore" ELSE IF recovering[d] THEN "settle" ELSE "audit"
    BY <1>4 DEF Goto, TypeOK, DeliveryOK
  <2>2. pc'[d] \in {"restore", "settle", "audit"}
    BY <2>1
  <2>3. /\ pc'[d] = "restore" => ~Gone(d)
        /\ pc'[d] = "settle" => Gone(d) /\ recovering[d]
        /\ pc'[d] = "audit" => Gone(d) /\ ~recovering[d]
    BY <2>1 DEF StillLive, Gone
  <2>4. pc'[d] = "restore" => faults = 1
    BY <1>1, <1>2, <2>3 DEF Outcome
  <2>5. Outcome(d)'
    BY <1>1, <1>2, <1>4, <2>2, <2>3, <2>4, AfterEffects DEF Outcome, NoFault
  <2>6. pc'[d] \in AfterApply
    BY <2>2 DEF AfterApply
  <2> QED BY <1>1, <2>5, <2>6, FateAfterIf
<1> QED BY <1>3, <1>4 DEF Verify

\* The automatic rollback: its trouble was the only one, and nothing was taken.
LEMMA FateRollback ==
    ASSUME ExecutorAssumption, OneFault, TypeOK, OutcomeInv, NEW d \in Deliveries,
           Restore(d) \/ VerifyRestored(d) \/ CompleteRollback(d) \/ AuditRollback(d)
    PROVE  Fate(d)'
<1>1. /\ Execute(d) /\ pc[d] \in {"restore", "reverify", "final", "finalaudit"}
      /\ pc[d] \in AfterApply
  BY DEF Execute, Restore, VerifyRestored, CompleteRollback, AuditRollback, AfterApply
<1>2. Outcome(d) /\ ~Gone(d) /\ faults = 1 /\ job[d] \in Jobs
  BY <1>1, AfterEffects DEF Outcome
<1>3. \A k : ~Fault(k)
  BY <1>2, StepEffects, <1>1, FaultsGrow
<1>4. /\ NoFault /\ UNCHANGED <<recovering, job>>
      /\ \/ Goto(d, "reverify")
         \/ Goto(d, "final")
         \/ Goto(d, "finalaudit") /\ Complete(d, "failed")
         \/ /\ pc[d] = "finalaudit" /\ locks' = locks
            /\ \E x : Return(d, FALSE, x)
  BY <1>3 DEF Restore, VerifyRestored, CompleteRollback, AuditRollback, CompleteFails, WriteFails,
              store
<1>5. CASE Goto(d, "reverify") \/ Goto(d, "final")
  <2>1. pc'[d] \in {"reverify", "final"}
    BY <1>5 DEF Goto, TypeOK, DeliveryOK
  <2>2. Outcome(d)'
    BY <1>1, <1>2, <1>4, <2>1, AfterEffects DEF Outcome, NoFault
  <2>3. pc'[d] \in AfterApply
    BY <2>1 DEF AfterApply
  <2> QED BY <1>1, <1>5, <2>2, <2>3, FateAfterIf
<1>6. CASE Goto(d, "finalaudit") /\ Complete(d, "failed")
  <2>1. pc'[d] = "finalaudit" /\ Published(d, "failed")'
    BY <1>2, <1>4, <1>6, CompletePublishes DEF Goto, TypeOK, DeliveryOK
  <2>2. Outcome(d)'
    BY <1>1, <1>2, <1>4, <2>1, AfterEffects DEF Outcome, NoFault
  <2>3. pc'[d] \in AfterApply
    BY <2>1 DEF AfterApply
  <2> QED BY <1>1, <1>6, <2>2, <2>3, FateAfterIf
<1>7. CASE pc[d] = "finalaudit" /\ locks' = locks /\ \E x : Return(d, FALSE, x)
  <2>1. pc'[d] = "done" /\ Published(d, "failed")'
    BY <1>2, <1>4, <1>7 DEF Return, Goto, TypeOK, DeliveryOK, Outcome, Published
  <2>2. Outcome(d)'
    BY <1>1, <1>2, <1>4, <2>1, AfterEffects DEF Outcome, NoFault
  <2> QED BY <1>1, <2>1, <2>2, FateAfterIf
<1> QED BY <1>4, <1>5, <1>6, <1>7
\* The regular end: the record claims completion before the lock says so.
LEMMA FateCompleted ==
    ASSUME ExecutorAssumption, OneFault, TypeOK, OutcomeInv, NEW d \in Deliveries,
           AuditCompleted(d) \/ CompleteApplied(d)
    PROVE  Fate(d)'
<1>1. /\ Execute(d) /\ pc[d] \in {"audit", "complete", "completeunaudited"}
      /\ pc[d] \in AfterApply /\ job' = job
  BY DEF Execute, AuditCompleted, CompleteApplied, AfterApply, locals
<1>2. /\ Outcome(d) /\ Gone(d) /\ ~recovering[d] /\ job[d] \in Jobs
      /\ applied[d] = "ok"
  BY <1>1, AfterEffects DEF Outcome, TypeOK, DeliveryOK
<1>3. ASSUME NEW k, Fault(k), Recover(d)
      PROVE  Fate(d)'
  BY <1>1, <1>3, FateRecovers
<1>4. CASE AuditCompleted(d)
  <2>1. /\ pc'[d] \in {"complete", "completeunaudited"}
        /\ recovering' = recovering
    BY <1>4 DEF AuditCompleted, Goto, TypeOK, DeliveryOK, locals
  <2>2. pc'[d] = "completeunaudited" => faults' = 1
    BY <1>4, FaultsGrow, StepEffects, <1>1
       DEF AuditCompleted, Goto, WriteFails, TypeOK, DeliveryOK
  <2>3. Outcome(d)'
    BY <1>1, <1>2, <2>1, <2>2, AfterEffects DEF Outcome
  <2>4. pc'[d] \in AfterApply
    BY <2>1 DEF AfterApply
  <2> QED BY <1>1, <2>3, <2>4, FateAfterIf
<1>5. CASE /\ NoFault /\ Complete(d, applied[d]) /\ UNCHANGED <<recovering, audit>>
           /\ \E ok \in BOOLEAN : Return(d, ok, applied[d])
  <2>1. pc'[d] = "done" /\ Published(d, "ok")'
    BY <1>1, <1>2, <1>5, CompletePublishes DEF Return, Goto, TypeOK, DeliveryOK
  <2>2. Outcome(d)'
    BY <1>1, <1>2, <1>5, <2>1, AfterEffects DEF Outcome
  <2> QED BY <1>1, <2>1, <2>2, FateAfterIf
<1> QED
  BY <1>3, <1>4, <1>5 DEF CompleteApplied, CompleteFails

\* After an exception, the entitlement is found gone.
LEMMA FateSettled ==
    ASSUME ExecutorAssumption, OneFault, TypeOK, OutcomeInv, NEW d \in Deliveries,
           CompleteSettled(d) \/ AuditSettled(d)
    PROVE  Fate(d)'
<1>1. /\ Execute(d) /\ pc[d] \in {"settle", "settleaudit"}
      /\ pc[d] \in AfterApply /\ job' = job
  BY DEF Execute, CompleteSettled, AuditSettled, AfterApply, locals
<1>2. Outcome(d) /\ Gone(d) /\ recovering[d] /\ faults = 1 /\ job[d] \in Jobs
  BY <1>1, AfterEffects DEF Outcome
<1>3. \A k : ~Fault(k)
  BY <1>1, <1>2, StepEffects, FaultsGrow
<1>4. applied[d] # "failed" /\ applied[d] # "none" /\ Settlement(d) = "ok"
  BY <1>1, <1>2, AfterEffects DEF Outcome, Settlement, TypeOK, DeliveryOK
<1>5. CASE CompleteSettled(d)
  <2>1. /\ NoFault /\ Complete(d, "ok") /\ Goto(d, "settleaudit")
        /\ recovering' = recovering
    BY <1>3, <1>4, <1>5 DEF CompleteSettled, CompleteFails, locals
  <2>2. pc'[d] = "settleaudit" /\ Published(d, "ok")'
    BY <1>1, <1>2, <2>1, CompletePublishes DEF Goto, TypeOK, DeliveryOK
  <2>3. Outcome(d)'
    BY <1>1, <1>2, <2>1, <2>2, AfterEffects DEF Outcome, NoFault
  <2>4. pc'[d] \in AfterApply
    BY <2>2 DEF AfterApply
  <2> QED BY <1>1, <2>1, <2>3, <2>4, FateAfterIf
<1>6. CASE AuditSettled(d)
  <2>1. /\ NoFault /\ Write(d, "completed_after_provider_error") /\ Return(d, TRUE, "ok")
        /\ recovering' = recovering /\ locks' = locks /\ pc[d] = "settleaudit"
    BY <1>3, <1>4, <1>6 DEF AuditSettled, WriteFails, store
  <2>2. pc'[d] = "done" /\ Published(d, "ok")'
    BY <1>1, <1>2, <2>1 DEF Return, Goto, TypeOK, DeliveryOK, Outcome, Published
  <2>3. Outcome(d)'
    BY <1>1, <1>2, <2>1, <2>2, AfterEffects DEF Outcome, NoFault
  <2> QED BY <1>1, <2>2, <2>3, FateAfterIf
<1> QED BY <1>5, <1>6

\* What a step of a delivery means for itself.
LEMMA FateExecute ==
    ASSUME ExecutorAssumption, OneFault, TypeOK, OutcomeInv, NEW d \in Deliveries, Execute(d)
    PROVE  Fate(d)'
<1>1. CASE pc[d] \in {"wait"} \union (BeforeApply \ {"apply"})
  BY <1>1, FateBefore
<1>2. CASE pc[d] \notin {"wait"} \union (BeforeApply \ {"apply"})
  <2>1. \/ Apply(d) \/ CompleteRefusal(d) \/ AuditRefusal(d) \/ Verify(d) \/ Restore(d)
        \/ VerifyRestored(d) \/ CompleteRollback(d) \/ AuditRollback(d) \/ AuditCompleted(d)
        \/ CompleteApplied(d) \/ CompleteSettled(d) \/ AuditSettled(d)
    BY <1>2 DEF Execute, RecordAction, ReturnPrior, GiveUpWaiting, Release, ResolveTarget,
                StorePreimage, DryRun, CompleteDryRun, AuditDryRun, BeforeApply
  <2> QED
    BY <2>1, FateApply, FateRefusal, FateVerify, FateRollback, FateCompleted, FateSettled
<1> QED BY <1>1, <1>2

\* A step of a delivery.
LEMMA OutcomeExecute ==
    ASSUME ExecutorAssumption, OneFault, TypeOK, LeaseInv, OnceInv, OutcomeInv,
           NEW d \in Deliveries, Execute(d)
    PROVE  OutcomeInv'
<1>1. \A e \in Deliveries : Fate(e)'
  BY FateOthers, FateExecute
<1>2. CASE pc[d] = "apply"
  <2>1. \A e \in Deliveries : e # d /\ applied[e] # "none" => job[e] # job[d]
    BY <1>2, OthersApart DEF Holding, BeforeApply
  <2>2. Alone'
    BY <2>1, StepEffects DEF OutcomeInv, Alone
  <2> QED BY <1>1, <2>2 DEF OutcomeInv
<1>3. CASE pc[d] # "apply"
  <2>1. applied' = applied
    BY <1>3 DEF Execute, RecordAction, ReturnPrior, GiveUpWaiting, Release, ResolveTarget,
       StorePreimage, DryRun, CompleteDryRun, AuditDryRun, Apply, CompleteRefusal,
       AuditRefusal, Verify, Restore, VerifyRestored, CompleteRollback, AuditRollback,
       AuditCompleted, CompleteApplied, CompleteSettled, AuditSettled, locals
  <2>2. Alone'
    BY <2>1, StepEffects DEF OutcomeInv, Alone
  <2> QED BY <1>1, <2>2 DEF OutcomeInv
<1> QED BY <1>2, <1>3

\* A claim of the lock: no lock that carries an outcome is free.
LEMMA OutcomeDeliver ==
    ASSUME ExecutorAssumption, OneFault, TypeOK, OnceInv, OutcomeInv,
           NEW d \in Deliveries, Deliver(d)
    PROVE  OutcomeInv'
<1>1. PICK j \in Jobs : Claim(d, j)
  BY DEF Deliver
<1>2. PICK p \in {"record", "wait", "raised"} : pc' = [pc EXCEPT ![d] = p]
  BY <1>1 DEF Claim, Goto
<1>3. /\ pc[d] = "idle" /\ pc'[d] = p
      /\ \A e \in Deliveries : e # d => pc'[e] = pc[e] /\ job'[e] = job[e]
      /\ UNCHANGED <<grants, target, applied, recovering, applies>>
      /\ faults = 1 => faults' = 1
  BY <1>1, <1>2, FaultsGrow DEF Claim, TypeOK, DeliveryOK, NoFault, Fault, history
<1>4. applied[d] = "none" /\ ~recovering[d]
  BY <1>3 DEF OutcomeInv, Fate, AfterApply
<1>5. Fate(d)'
  BY <1>2, <1>3, <1>4 DEF Fate, AfterApply, Aiming
<1>6. ASSUME NEW e \in Deliveries, e # d
      PROVE  Fate(e)'
  <2>1. Fate(e)
    BY DEF OutcomeInv
  <2>2. /\ Seq(e)' = Seq(e) /\ Entry(e)' = Entry(e) /\ (Gone(e)' <=> Gone(e))
    BY <1>3, <1>6 DEF Seq, Entry, Gone
  <2>3. applied[e] # "none" => locks'[job[e]] = locks[job[e]]
    <3>1. ASSUME applied[e] # "none"
          PROVE  locks'[job[e]] = locks[job[e]]
      <4>1. job[e] \in Jobs /\ ~LockFree(job[e])
        BY <2>1, <3>1 DEF Fate, OnceInv, AfterApply, TypeOK, DeliveryOK
      <4>2. locks' = locks \/ (LockFree(j) /\ locks' = [locks EXCEPT ![j] = Pending])
        BY <1>1 DEF Claim
      <4> QED BY <4>1, <4>2 DEF TypeOK, RemoteOK
    <3> QED BY <3>1
  <2>4. applied[e] # "none" => \A x : Published(e, x)' <=> Published(e, x)
    BY <1>3, <1>6, <2>3 DEF Published
  <2>5. applied[e] # "none" => (Outcome(e) => Outcome(e)')
    BY <1>3, <1>6, <2>2, <2>4 DEF Outcome
  <2> QED BY <1>3, <1>6, <2>1, <2>2, <2>5 DEF Fate
<1>7. Alone'
  BY <1>3, <1>4 DEF OutcomeInv, Alone
<1> QED BY <1>5, <1>6, <1>7 DEF OutcomeInv

\* Where one remote call fails at most, an action whose apply was entered ends
\* as completed or as rolled back, in the lock as well as at the provider.
THEOREM ExecutorNeverNeither ==
    ASSUME OneFault
    PROVE  Spec => []NeverNeither
<1> USE ExecutorAssumption
<1>1. Init => LeaseInv /\ OnceInv /\ OutcomeInv
  BY DEF Init, LeaseInv, LeaseExclusive, Holding, BeforeApply, AfterApply, OnceInv, AtMostOneApply,
         OutcomeInv, Fate, Alone, Aiming
<1>2. TypeOK /\ LeaseInv /\ OnceInv /\ [Next]_vars => LeaseInv' /\ OnceInv'
  BY LeaseDeliver, LeaseExecute, LeaseOther, OnceDeliver, OnceExecute, OnceOther
     DEF Next, OneFault, OnlyDeliveries
<1>3. TypeOK /\ LeaseInv /\ OnceInv /\ OutcomeInv /\ [Next]_vars => OutcomeInv'
  <2> SUFFICES ASSUME TypeOK, LeaseInv, OnceInv, OutcomeInv, [Next]_vars
               PROVE  OutcomeInv'
    OBVIOUS
  <2>1. CASE UNCHANGED vars
    BY <2>1 DEF vars, store, locals, history, OutcomeInv, Fate, Outcome, Alone, Gone,
                Published, Entry, Seq
  <2>2. ~Environment
    BY DEF Environment, Crash, ExpireLock, ExpireAction, Administer, Fault, OneFault, OnlyDeliveries
  <2>3. ~(\E r \in Rollbacks : TRUE)
    BY DEF OneFault, OnlyDeliveries
  <2> QED BY <2>1, <2>2, <2>3, OutcomeExecute, OutcomeDeliver DEF Next
<1>4. OutcomeInv => NeverNeither
  <2> SUFFICES ASSUME OutcomeInv, NEW d \in Deliveries, pc[d] \in Stopped, applied[d] # "none"
               PROVE  /\ locks[job[d]].status = "complete"
                      /\ locks[job[d]].result = "ok" <=> Entry(d) \notin grants
    BY DEF NeverNeither
  <2>1. Fate(d)
    BY DEF OutcomeInv
  <2>2. pc[d] = "done" /\ Outcome(d)
    BY <2>1 DEF Fate, Stopped, AfterApply
  <2> QED BY <2>2 DEF Outcome, Gone, Published
<1> QED BY <1>1, <1>2, <1>3, <1>4, ExecutorTypeOK, PTL DEF Spec
=============================================================================
