------------------------ MODULE ApprovalBrokerProofs ------------------------
(***************************************************************************)
(* What holds of the approval broker for any requests, documents, clicks   *)
(* and faults: an answer that an execution follows was recorded first, and *)
(* at most one click is told that it was taken, both because no transition *)
(* leads back to the wait; every state is one of the workflow, and an      *)
(* execution that succeeds recorded whether it acted, which is shown state *)
(* by state.                                                               *)
(***************************************************************************)
EXTENDS ApprovalBroker, TLAPS

-----------------------------------------------------------------------------
(* The workflow waits once.                                                *)

\* The states up to the wait, and the others.
Before == {"RouteTier", "PrepareT1Approval", "PrepareT2Approval", "NotifyApprover"}
After  == (DOMAIN StateMachine \ Before) \union {"failed"}

\* Where the state s can lead.
Successors(s) ==
    LET here == StateMachine[s]
    IN  CASE here.type = "Choice" -> {here.table[v] : v \in DOMAIN here.table} \union {here.default}
          [] here.type = "Wait"   -> {here.next, here.catch}
          [] here.type \in {"Pass", "Task", "Audit"} -> {here.next}
          [] OTHER -> {}

\* The states of the workflow.
LEMMA States ==
    \A s \in DOMAIN StateMachine : s \in
        {"RouteTier", "PrepareT1Approval", "PrepareT2Approval", "NotifyApprover", "TimeoutByTier",
         "MarkDecisionDisposition", "RouteDecision", "MarkApproved", "MarkDeclined",
         "RecordDecision", "ExecuteApproved", "ReduceFurther", "KeepWithReason", "DeclinedToAct",
         "RecordDeclinedDecision", "ObserveOnly", "RecordObservation", "ProceedAfterTimeout",
         "MarkApprovedTimeout", "RecordTimeoutProceed", "EscalateSecurityAdmin",
         "PageSecurityOnCall", "MarkDeclinedTimeout", "RecordTimeoutDecline", "Succeed"}
BY DEF StateMachine

\* No transition of the workflow leads from behind the wait back to it.
LEMMA AfterStaysAfter ==
    \A s \in DOMAIN StateMachine : s \notin Before => Successors(s) \subseteq After
<1> USE DEF StateMachine, Before, After, Successors, Choice, Pass, LambdaTask, AuditTask
<1>1. Successors("TimeoutByTier") \subseteq After
  BY DEF Decisions
<1>2. Successors("MarkDecisionDisposition") \subseteq After
  BY DEF Decisions
<1>3. Successors("RouteDecision") \subseteq After
  <2> DEFINE table == StateMachine.RouteDecision.table
  <2>1. DOMAIN table = Decisions
    OBVIOUS
  <2>2. \A d \in Decisions : table[d] \in {"ExecuteApproved", "ReduceFurther",
                                               "KeepWithReason", "Succeed"}
    BY DEF Decisions
  <2>3. /\ StateMachine.RouteDecision.default = "DeclinedToAct"
        /\ StateMachine.RouteDecision.type = "Choice"
    OBVIOUS
  <2>4. {"ExecuteApproved", "ReduceFurther", "KeepWithReason", "Succeed",
         "DeclinedToAct"} \subseteq After
    OBVIOUS
  <2> HIDE DEF table, After, StateMachine
  <2> QED
    BY <2>1, <2>2, <2>3, <2>4 DEF table
<1>4. Successors("MarkApproved") \subseteq After
  BY DEF Decisions
<1>5. Successors("MarkDeclined") \subseteq After
  BY DEF Decisions
<1>6. Successors("RecordDecision") \subseteq After
  BY DEF Decisions
<1>7. Successors("ExecuteApproved") \subseteq After
  BY DEF Decisions
<1>8. Successors("ReduceFurther") \subseteq After
  BY DEF Decisions
<1>9. Successors("KeepWithReason") \subseteq After
  BY DEF Decisions
<1>10. Successors("DeclinedToAct") \subseteq After
  BY DEF Decisions
<1>11. Successors("RecordDeclinedDecision") \subseteq After
  BY DEF Decisions
<1>12. Successors("ObserveOnly") \subseteq After
  BY DEF Decisions
<1>13. Successors("RecordObservation") \subseteq After
  BY DEF Decisions
<1>14. Successors("ProceedAfterTimeout") \subseteq After
  BY DEF Decisions
<1>15. Successors("MarkApprovedTimeout") \subseteq After
  BY DEF Decisions
<1>16. Successors("RecordTimeoutProceed") \subseteq After
  BY DEF Decisions
<1>17. Successors("EscalateSecurityAdmin") \subseteq After
  BY DEF Decisions
<1>18. Successors("PageSecurityOnCall") \subseteq After
  BY DEF Decisions
<1>19. Successors("MarkDeclinedTimeout") \subseteq After
  BY DEF Decisions
<1>20. Successors("RecordTimeoutDecline") \subseteq After
  BY DEF Decisions
<1>21. Successors("Succeed") \subseteq After
  BY DEF Decisions
<1> HIDE DEF StateMachine, After, Successors
<1> QED
  BY States, <1>1, <1>2, <1>3, <1>4, <1>5, <1>6, <1>7, <1>8, <1>9, <1>10, <1>11, <1>12, <1>13,
     <1>14, <1>15, <1>16, <1>17, <1>18, <1>19, <1>20, <1>21

\* An answer and a timeout both lead behind the wait.
LEMMA WaitLeadsAfter ==
    "NotifyApprover" \notin After /\ StateMachine.NotifyApprover.next \in After
BY DEF StateMachine, Before, After

\* An execution behind the wait stays there.
LEMMA RunStaysAfter ==
    ASSUME NEW r \in Requests, Run(r), at = [q \in Requests |-> at[q]]
    PROVE  /\ at' = [q \in Requests |-> at'[q]]
           /\ \A q \in Requests : at[q] \in After => at'[q] \in After
<1>1. \A q \in Requests : q # r => at'[q] = at[q]
  BY DEF Run, Choose, Mark, Invoke, Ask, Expire, Enter
<1>2. at' = [q \in Requests |-> at'[q]]
  BY DEF Run, Choose, Mark, Invoke, Ask, Expire, Enter
<1>3. ASSUME at[r] \in After, at'[r] # "failed", at' # at
      PROVE  at'[r] \in After
  <2>1. at[r] # "failed"
    BY DEF Run, Choose, Mark, Invoke, Ask, Expire, Ended
  <2>2. at[r] \in DOMAIN StateMachine /\ at[r] \notin Before
    BY <1>3, <2>1 DEF After
  <2>3. at'[r] \in Successors(at[r])
    BY <1>3 DEF Run, Choose, Mark, Invoke, Ask, Expire, Enter, Here, Successors
  <2> QED
    BY <2>2, <2>3, AfterStaysAfter
<1>4. "failed" \in After
  BY DEF After
<1> QED
  BY <1>1, <1>2, <1>3, <1>4

-----------------------------------------------------------------------------
(* Clicks and answers.                                                     *)

Shapes ==
    /\ at = [r \in Requests |-> at[r]]
    /\ answer \in [Requests -> Clicks \union {None}]
    /\ pc \in [Clicks -> {"idle", "audit", "send", "ok", "refused", "raised"}]
    /\ about \in [Clicks -> (Requests \X Decisions) \union {None}]
    /\ \A c \in Clicks : pc[c] \in {"audit", "send", "ok", "raised"} =>
          about[c] \in Requests \X Decisions

\* The record that the handler writes for a click.
RecordOf(c) == Audited(about[c][1], c, about[c][2], about[c][2] = "Approve")

\* An answered execution has left the wait; the click that answered it was
\* about it, has been sent, and is on record.
AnswerInv ==
    /\ \A r \in Requests : answer[r] # None =>
          /\ at[r] \in After
          /\ pc[answer[r]] \in {"ok", "raised"}
          /\ about[answer[r]][1] = r
          /\ HasWriter => RecordOf(answer[r]) \in trail
    /\ \A c \in Clicks : /\ pc[c] = "ok" => answer[about[c][1]] = c
                         /\ pc[c] = "send" /\ HasWriter => RecordOf(c) \in trail

BrokerInv == Shapes /\ AnswerInv

LEMMA BrokerInit == BrokerAssumption /\ Init => BrokerInv
BY DEF BrokerAssumption, Init, BrokerInv, Shapes, AnswerInv

\* No step of an execution or of the handler disturbs an answer.
LEMMA BrokerStep ==
    ASSUME BrokerAssumption, BrokerInv, [Next]_vars
    PROVE  BrokerInv'
<1> USE DEF BrokerInv
<1>1. ASSUME NEW r \in Requests, Run(r)
      PROVE  BrokerInv'
  <2>1. UNCHANGED <<answer, pc, about>> /\ trail \subseteq trail'
    BY <1>1 DEF Run, Choose, Mark, Invoke, Ask, Expire, handler
  <2>2. /\ at' = [q \in Requests |-> at'[q]]
        /\ \A q \in Requests : at[q] \in After => at'[q] \in After
    BY <1>1, RunStaysAfter DEF Shapes
  <2>3. Shapes'
    BY <2>1, <2>2 DEF Shapes
  <2> QED
    BY <2>1, <2>2, <2>3 DEF AnswerInv, RecordOf
<1>2. ASSUME NEW c \in Clicks, Click(c)
      PROVE  BrokerInv'
  <2>1. UNCHANGED <<at, answer, trail>> /\ pc[c] = "idle"
    BY <1>2 DEF Click, execution
  <2>2. /\ pc' \in [Clicks -> {"idle", "audit", "send", "ok", "refused", "raised"}]
        /\ about' \in [Clicks -> (Requests \X Decisions) \union {None}]
        /\ pc'[c] \in {"audit", "refused"} \/ (pc'[c] = "send" /\ ~HasWriter)
        /\ pc'[c] # "refused" => about'[c] \in Requests \X Decisions
        /\ \A d \in Clicks : d # c => pc'[d] = pc[d] /\ about'[d] = about[d]
    BY <1>2 DEF Click, AfterParsing, Shapes
  <2>3. Shapes'
    BY <2>1, <2>2 DEF Shapes
  <2>4. \A r \in Requests : answer[r] # c
    BY <2>1 DEF AnswerInv, BrokerAssumption
  <2>5. \A d \in Clicks : d # c => RecordOf(d)' = RecordOf(d)
    BY <2>2 DEF RecordOf
  <2> QED
    BY <2>1, <2>2, <2>3, <2>4, <2>5 DEF AnswerInv, Shapes
<1>3. ASSUME NEW c \in Clicks, WriteDecision(c)
      PROVE  BrokerInv'
  <2>1. UNCHANGED <<at, answer, about>> /\ pc[c] = "audit" /\ trail \subseteq trail'
    BY <1>3 DEF WriteDecision, execution
  <2>2. /\ pc' \in [Clicks -> {"idle", "audit", "send", "ok", "refused", "raised"}]
        /\ pc'[c] \in {"refused", "raised"} \/ (pc'[c] = "send" /\ RecordOf(c) \in trail')
        /\ \A d \in Clicks : d # c => pc'[d] = pc[d]
    BY <1>3 DEF WriteDecision, RecordOf, Shapes
  <2>3. Shapes'
    BY <2>1, <2>2 DEF Shapes
  <2>4. \A r \in Requests : answer[r] # c
    BY <2>1 DEF AnswerInv, BrokerAssumption
  <2>5. \A d \in Clicks : RecordOf(d)' = RecordOf(d)
    BY <2>1 DEF RecordOf
  <2> QED
    BY <2>1, <2>2, <2>3, <2>4, <2>5 DEF AnswerInv, Shapes
<1>4. ASSUME NEW c \in Clicks, SendDecision(c)
      PROVE  BrokerInv'
  <2> DEFINE r == about[c][1]
  <2>1. UNCHANGED <<about, trail>> /\ pc[c] = "send" /\ r \in Requests
    BY <1>4 DEF SendDecision, Shapes
  <2>2. \A d \in Clicks : RecordOf(d)' = RecordOf(d)
    BY <2>1 DEF RecordOf
  <2>3. \A q \in Requests : answer[q] # c
    BY <2>1 DEF AnswerInv, BrokerAssumption
  <2>4. CASE UNCHANGED <<at, answer>> /\ pc' = [pc EXCEPT ![c] = "raised"]
    <3>1. Shapes'
      BY <2>1, <2>4 DEF Shapes
    <3> QED
      BY <2>1, <2>2, <2>3, <2>4, <3>1 DEF AnswerInv, Shapes
  <2>5. CASE at[r] = "NotifyApprover" /\ Accept(c, r)
             /\ (pc' = [pc EXCEPT ![c] = "ok"] \/ pc' = [pc EXCEPT ![c] = "raised"])
    <3>1. answer[r] = None
      BY <2>1, <2>5, WaitLeadsAfter DEF AnswerInv
    <3>2. /\ at' = [at EXCEPT ![r] = StateMachine.NotifyApprover.next]
          /\ answer' = [answer EXCEPT ![r] = c]
      BY <2>5 DEF Accept, Enter, Here
    <3>3. /\ answer'[r] = c /\ at'[r] \in After
          /\ \A q \in Requests : q # r => answer'[q] = answer[q] /\ at'[q] = at[q]
          /\ pc'[c] \in {"ok", "raised"} /\ \A d \in Clicks : d # c => pc'[d] = pc[d]
      BY <2>1, <2>5, <3>2, WaitLeadsAfter DEF Shapes
    <3>4. Shapes'
      BY <2>1, <2>5, <3>2 DEF Shapes
    <3>5. \A d \in Clicks : d # c /\ pc[d] = "ok" => about[d][1] # r /\ about[d][1] \in Requests
      BY <3>1 DEF AnswerInv, Shapes, BrokerAssumption
    <3>6. HasWriter => RecordOf(c) \in trail
      BY <2>1 DEF AnswerInv
    <3> QED
      BY <2>1, <2>2, <2>3, <3>3, <3>4, <3>5, <3>6 DEF AnswerInv, Shapes
  <2> QED
    BY <1>4, <2>4, <2>5 DEF SendDecision, Undelivered
<1>5. CASE UNCHANGED vars
  BY <1>5 DEF vars, execution, handler, Shapes, AnswerInv, RecordOf
<1> QED
  BY <1>1, <1>2, <1>3, <1>4, <1>5 DEF Next, Handle

LEMMA BrokerInvariance == Spec => []BrokerInv
BY BrokerInit, BrokerStep, BrokerAssumption, PTL DEF Spec

\* Whoever clicks, whatever fails: the execution goes on with an answer only
\* after the record of it was written.
THEOREM BrokerAnswerWasRecorded == Spec => []AnswerWasRecorded
<1>1. BrokerInv => AnswerWasRecorded
  <2> SUFFICES ASSUME BrokerInv, HasWriter, NEW r \in Requests, answer[r] # None
               PROVE  \E t \in trail : /\ t.request = r /\ t.by = answer[r]
                                       /\ t.decision = about[answer[r]][2]
                                       /\ t.acted = (t.decision = "Approve")
    BY DEF AnswerWasRecorded
  <2>1. RecordOf(answer[r]) \in trail /\ about[answer[r]][1] = r
    BY DEF BrokerInv, AnswerInv
  <2> QED
    BY <2>1 DEF RecordOf, Audited
<1> QED
  BY <1>1, BrokerInvariance, PTL

\* Whoever clicks, whatever fails: of all clicks on a request, the one that
\* is told so is the one the execution follows.
THEOREM BrokerToldIsTaken == Spec => []ToldIsTaken
<1>1. BrokerInv => ToldIsTaken
  BY DEF BrokerInv, AnswerInv, ToldIsTaken
<1> QED
  BY <1>1, BrokerInvariance, PTL

-----------------------------------------------------------------------------
(* What an execution knows and has recorded in each of its states.         *)

\* The execution r wrote a record that says that the system acts, or does not.
RecordsAct(r)   == \E t \in trail : t.request = r /\ t.by = None /\ t.acted = TRUE
RecordsNoAct(r) == \E t \in trail : t.request = r /\ t.by = None /\ t.acted = FALSE

\* Its document says so.
Acts(r)     == Has(r, "acted") /\ data[r]["acted"] = TRUE
Declines(r) == Has(r, "acted") /\ data[r]["acted"] = FALSE

Approved(r) == Has(r, "decision") /\ data[r]["decision"] = "Approve"

\* What is known of an execution in the state s.
Known(r, s) ==
    /\ s = "NotifyApprover" => /\ Has(r, "approval_timeout_seconds")
                               /\ data[r]["approval_timeout_seconds"] \in Nat
    /\ s = "MarkApproved" => Approved(r)
    /\ s = "MarkDeclined" => ~Approved(r)
    /\ s = "RecordDecision" => \/ Acts(r) /\ Approved(r)
                               \/ Declines(r) /\ ~Approved(r)
    /\ s \in {"RecordDeclinedDecision", "RecordObservation", "RecordTimeoutDecline"} =>
          Declines(r)
    /\ s = "RecordTimeoutProceed" => Acts(r)
    /\ s = "RouteDecision" => \/ RecordsAct(r) /\ Approved(r)
                              \/ RecordsNoAct(r) /\ ~Approved(r)
    /\ s = "ExecuteApproved" => RecordsAct(r)
    /\ s \in {"ReduceFurther", "KeepWithReason"} => RecordsNoAct(r)
    /\ s = "Succeed" => IF r \in executed THEN RecordsAct(r) ELSE RecordsNoAct(r)
    /\ r \in executed => s \in {"Succeed", "failed"}

Trails ==
    \A t \in trail : /\ t.request \in Requests
                     /\ t.by \in Clicks \union {None}
                     /\ t.acted \in BOOLEAN

\* The inductive invariant of the workflow.
WorkInv ==
    /\ at \in [Requests -> DOMAIN StateMachine \union {"failed"}]
    /\ data = [r \in Requests |-> data[r]]
    /\ asked \in [Requests -> BOOLEAN]
    /\ executed \subseteq Requests
    /\ faults \in 0..MaxFaults
    /\ Trails
    /\ \A r \in Requests : Known(r, at[r])

\* The states by their kind: what a step of an execution does to it.
LEMMA StepOf ==
    ASSUME WorkInv, NEW r \in Requests, Run(r)
    PROVE  LET here == StateMachine[at[r]]
           IN  \/ /\ at'[r] = "failed" /\ data'[r] = data[r]
                  /\ UNCHANGED <<trail, executed>>
               \/ /\ here.type = "Choice" /\ Has(r, here.field) /\ data'[r] = data[r]
                  /\ at'[r] = IF data[r][here.field] \in DOMAIN here.table
                              THEN here.table[data[r][here.field]] ELSE here.default
                  /\ UNCHANGED <<trail, executed>>
               \/ /\ here.type = "Pass" /\ at'[r] = here.next
                  /\ data'[r] = With(data[r], here.field, here.value)
                  /\ UNCHANGED <<trail, executed>>
               \/ /\ here.type = "Task" /\ at'[r] = here.next /\ data'[r] = data[r]
                  /\ executed' = IF at[r] = "ExecuteApproved" THEN executed \union {r} ELSE executed
                  /\ UNCHANGED trail
               \/ /\ here.type = "Audit" /\ at'[r] = here.next /\ data'[r] = data[r]
                  /\ \A f \in here.needs : Has(r, f)
                  /\ trail' = trail \union {Audited(r, None, data[r]["decision"], data[r]["acted"])}
                  /\ executed' = IF at[r] = "ExecuteApproved" THEN executed \union {r} ELSE executed
               \/ /\ here.type = "Wait" /\ at'[r] = at[r] /\ data'[r] = data[r]
                  /\ UNCHANGED <<trail, executed>>
               \/ /\ here.type = "Wait" /\ at'[r] = here.catch
                  /\ UNCHANGED <<trail, executed>>
<1>1. /\ at \in [Requests -> DOMAIN StateMachine \union {"failed"}]
      /\ data = [q \in Requests |-> data[q]]
  BY DEF WorkInv
<1>2. CASE Choose(r)
  BY <1>1, <1>2 DEF Choose, Here, Enter
<1>3. CASE Mark(r)
  BY <1>1, <1>3 DEF Mark, Here, Enter
<1>4. CASE Invoke(r)
  BY <1>1, <1>4 DEF Invoke, Here, Enter
<1>5. CASE Ask(r)
  BY <1>1, <1>5 DEF Ask, Here, Enter
<1>6. CASE Expire(r)
  BY <1>1, <1>6 DEF Expire, Here, Enter
<1> QED
  BY <1>2, <1>3, <1>4, <1>5, <1>6 DEF Run

\* Nothing else of the other executions changes.
LEMMA StepOthers ==
    ASSUME WorkInv, NEW r \in Requests, Run(r)
    PROVE  /\ \A q \in Requests \ {r} : at'[q] = at[q] /\ data'[q] = data[q]
           /\ \E s : at' = [at EXCEPT ![r] = s] \/ at' = at
           /\ data' = [q \in Requests |-> data'[q]]
           /\ asked' \in [Requests -> BOOLEAN]
           /\ faults' \in 0..MaxFaults
<1>1. /\ at \in [Requests -> DOMAIN StateMachine \union {"failed"}]
      /\ data = [q \in Requests |-> data[q]] /\ asked \in [Requests -> BOOLEAN]
      /\ faults \in 0..MaxFaults /\ MaxFaults \in Nat
  BY BrokerAssumption DEF WorkInv
<1>2. CASE Choose(r)
  BY <1>1, <1>2 DEF Choose, Enter, NoFault
<1>3. CASE Mark(r)
  BY <1>1, <1>3 DEF Mark, Enter, NoFault
<1>4. CASE Invoke(r)
  BY <1>1, <1>4 DEF Invoke, Enter, NoFault, Fault
<1>5. CASE Ask(r)
  <2>1. asked' \in {asked, [asked EXCEPT ![r] = TRUE]} /\ data' = data
    BY <1>5 DEF Ask
  <2>2. asked' \in [Requests -> BOOLEAN]
    BY <1>1, <2>1
  <2>3. \E s : at' = [at EXCEPT ![r] = s] \/ at' = at
    BY <1>5 DEF Ask, Enter
  <2>4. faults' \in 0..MaxFaults
    BY <1>1, <1>5 DEF Ask, NoFault, Fault
  <2> QED
    BY <1>1, <2>1, <2>2, <2>3, <2>4
<1>6. CASE Expire(r)
  BY <1>1, <1>6 DEF Expire, Enter, NoFault
<1> QED
  BY <1>2, <1>3, <1>4, <1>5, <1>6 DEF Run

\* What is known depends on the document and grows with the trail.
LEMMA RecordedStays ==
    ASSUME NEW r, trail \subseteq trail'
    PROVE  (RecordsAct(r) => RecordsAct(r)') /\ (RecordsNoAct(r) => RecordsNoAct(r)')
BY DEF RecordsAct, RecordsNoAct

\* An audit state records what the document says.
LEMMA AuditRecords ==
    ASSUME NEW r,
           trail' = trail \union {Audited(r, None, data[r]["decision"], data[r]["acted"])}
    PROVE  (Acts(r) => RecordsAct(r)') /\ (Declines(r) => RecordsNoAct(r)')
<1> DEFINE t == Audited(r, None, data[r]["decision"], data[r]["acted"])
<1>1. t \in trail' /\ t.request = r /\ t.by = None /\ t.acted = data[r]["acted"]
  BY DEF Audited
<1> HIDE DEF t
<1> QED
  BY <1>1 DEF Acts, Declines, RecordsAct, RecordsNoAct

\* A step of an execution keeps what is known of it.
LEMMA KnownStep ==
    ASSUME WorkInv, NEW r \in Requests, Run(r)
    PROVE  Known(r, at[r])'
<1> DEFINE here == StateMachine[at[r]]
<1>1. Known(r, at[r]) /\ at[r] \in DOMAIN StateMachine \union {"failed"} /\ ~Ended(r)
  BY DEF WorkInv, Run, Choose, Mark, Invoke, Ask, Expire
<1>2. CASE at'[r] = "failed"
  BY <1>2 DEF Known
<1>3. CASE at[r] = "PrepareT1Approval" /\ at'[r] # "failed"
  <2>1. /\ here.type = "Pass" /\ here.field = "approval_timeout_seconds" /\ here.value = 259200
        /\ here.next = "NotifyApprover"
    BY <1>3 DEF StateMachine, Pass, ApprovalWindow
  <2>2. /\ at'[r] = "NotifyApprover" /\ data'[r] = With(data[r], "approval_timeout_seconds", 259200)
        /\ UNCHANGED <<trail, executed>>
    BY <1>3, <2>1, StepOf
  <2>3. /\ DOMAIN data'[r] = DOMAIN data[r] \union {"approval_timeout_seconds"}
        /\ data'[r]["approval_timeout_seconds"] = 259200
        /\ \A f \in DOMAIN data[r] \ {"approval_timeout_seconds"} : data'[r][f] = data[r][f]
    BY <2>2 DEF With
  <2> QED
    BY <1>1, <1>3, <2>2, <2>3 DEF Known, Acts, Declines, Approved, Has
<1>4. CASE at[r] = "PrepareT2Approval" /\ at'[r] # "failed"
  <2>1. /\ here.type = "Pass" /\ here.field = "approval_timeout_seconds" /\ here.value = 86400
        /\ here.next = "NotifyApprover"
    BY <1>4 DEF StateMachine, Pass, ApprovalWindow
  <2>2. /\ at'[r] = "NotifyApprover" /\ data'[r] = With(data[r], "approval_timeout_seconds", 86400)
        /\ UNCHANGED <<trail, executed>>
    BY <1>4, <2>1, StepOf
  <2>3. /\ DOMAIN data'[r] = DOMAIN data[r] \union {"approval_timeout_seconds"}
        /\ data'[r]["approval_timeout_seconds"] = 86400
        /\ \A f \in DOMAIN data[r] \ {"approval_timeout_seconds"} : data'[r][f] = data[r][f]
    BY <2>2 DEF With
  <2> QED
    BY <1>1, <1>4, <2>2, <2>3 DEF Known, Acts, Declines, Approved, Has
<1>5. CASE at[r] = "MarkApproved" /\ at'[r] # "failed"
  <2>1. /\ here.type = "Pass" /\ here.field = "acted" /\ here.value = TRUE
        /\ here.next = "RecordDecision"
    BY <1>5 DEF StateMachine, Pass
  <2>2. /\ at'[r] = "RecordDecision" /\ data'[r] = With(data[r], "acted", TRUE)
        /\ UNCHANGED <<trail, executed>>
    BY <1>5, <2>1, StepOf
  <2>3. /\ DOMAIN data'[r] = DOMAIN data[r] \union {"acted"}
        /\ data'[r]["acted"] = TRUE
        /\ \A f \in DOMAIN data[r] \ {"acted"} : data'[r][f] = data[r][f]
    BY <2>2 DEF With
  <2>4. Acts(r)'
    BY <2>3 DEF Acts, Has
  <2>5. Approved(r)'
    BY <1>1, <1>5, <2>3 DEF Known, Approved, Has
  <2>6. r \notin executed'
    BY <1>1, <1>5, <2>2 DEF Known
  <2> QED
    BY <1>5, <2>2, <2>4, <2>5, <2>6 DEF Known
<1>6. CASE at[r] = "MarkDeclined" /\ at'[r] # "failed"
  <2>1. /\ here.type = "Pass" /\ here.field = "acted" /\ here.value = FALSE
        /\ here.next = "RecordDecision"
    BY <1>6 DEF StateMachine, Pass
  <2>2. /\ at'[r] = "RecordDecision" /\ data'[r] = With(data[r], "acted", FALSE)
        /\ UNCHANGED <<trail, executed>>
    BY <1>6, <2>1, StepOf
  <2>3. /\ DOMAIN data'[r] = DOMAIN data[r] \union {"acted"}
        /\ data'[r]["acted"] = FALSE
        /\ \A f \in DOMAIN data[r] \ {"acted"} : data'[r][f] = data[r][f]
    BY <2>2 DEF With
  <2> QED
    BY <1>1, <1>6, <2>2, <2>3 DEF Known, Acts, Declines, Approved, Has
<1>7. CASE at[r] = "DeclinedToAct" /\ at'[r] # "failed"
  <2>1. /\ here.type = "Pass" /\ here.field = "acted" /\ here.value = FALSE
        /\ here.next = "RecordDeclinedDecision"
    BY <1>7 DEF StateMachine, Pass
  <2>2. /\ at'[r] = "RecordDeclinedDecision" /\ data'[r] = With(data[r], "acted", FALSE)
        /\ UNCHANGED <<trail, executed>>
    BY <1>7, <2>1, StepOf
  <2>3. /\ DOMAIN data'[r] = DOMAIN data[r] \union {"acted"}
        /\ data'[r]["acted"] = FALSE
        /\ \A f \in DOMAIN data[r] \ {"acted"} : data'[r][f] = data[r][f]
    BY <2>2 DEF With
  <2> QED
    BY <1>1, <1>7, <2>2, <2>3 DEF Known, Acts, Declines, Approved, Has
<1>8. CASE at[r] = "ObserveOnly" /\ at'[r] # "failed"
  <2>1. /\ here.type = "Pass" /\ here.field = "acted" /\ here.value = FALSE
        /\ here.next = "RecordObservation"
    BY <1>8 DEF StateMachine, Pass
  <2>2. /\ at'[r] = "RecordObservation" /\ data'[r] = With(data[r], "acted", FALSE)
        /\ UNCHANGED <<trail, executed>>
    BY <1>8, <2>1, StepOf
  <2>3. /\ DOMAIN data'[r] = DOMAIN data[r] \union {"acted"}
        /\ data'[r]["acted"] = FALSE
        /\ \A f \in DOMAIN data[r] \ {"acted"} : data'[r][f] = data[r][f]
    BY <2>2 DEF With
  <2> QED
    BY <1>1, <1>8, <2>2, <2>3 DEF Known, Acts, Declines, Approved, Has
<1>9. CASE at[r] = "ProceedAfterTimeout" /\ at'[r] # "failed"
  <2>1. /\ here.type = "Pass" /\ here.field = "decision" /\ here.value = "Approve"
        /\ here.next = "MarkApprovedTimeout"
    BY <1>9 DEF StateMachine, Pass
  <2>2. /\ at'[r] = "MarkApprovedTimeout" /\ data'[r] = With(data[r], "decision", "Approve")
        /\ UNCHANGED <<trail, executed>>
    BY <1>9, <2>1, StepOf
  <2>3. /\ DOMAIN data'[r] = DOMAIN data[r] \union {"decision"}
        /\ data'[r]["decision"] = "Approve"
        /\ \A f \in DOMAIN data[r] \ {"decision"} : data'[r][f] = data[r][f]
    BY <2>2 DEF With
  <2> QED
    BY <1>1, <1>9, <2>2, <2>3 DEF Known, Acts, Declines, Approved, Has
<1>10. CASE at[r] = "MarkApprovedTimeout" /\ at'[r] # "failed"
  <2>1. /\ here.type = "Pass" /\ here.field = "acted" /\ here.value = TRUE
        /\ here.next = "RecordTimeoutProceed"
    BY <1>10 DEF StateMachine, Pass
  <2>2. /\ at'[r] = "RecordTimeoutProceed" /\ data'[r] = With(data[r], "acted", TRUE)
        /\ UNCHANGED <<trail, executed>>
    BY <1>10, <2>1, StepOf
  <2>3. /\ DOMAIN data'[r] = DOMAIN data[r] \union {"acted"}
        /\ data'[r]["acted"] = TRUE
        /\ \A f \in DOMAIN data[r] \ {"acted"} : data'[r][f] = data[r][f]
    BY <2>2 DEF With
  <2> QED
    BY <1>1, <1>10, <2>2, <2>3 DEF Known, Acts, Declines, Approved, Has
<1>11. CASE at[r] = "MarkDeclinedTimeout" /\ at'[r] # "failed"
  <2>1. /\ here.type = "Pass" /\ here.field = "acted" /\ here.value = FALSE
        /\ here.next = "RecordTimeoutDecline"
    BY <1>11 DEF StateMachine, Pass
  <2>2. /\ at'[r] = "RecordTimeoutDecline" /\ data'[r] = With(data[r], "acted", FALSE)
        /\ UNCHANGED <<trail, executed>>
    BY <1>11, <2>1, StepOf
  <2>3. /\ DOMAIN data'[r] = DOMAIN data[r] \union {"acted"}
        /\ data'[r]["acted"] = FALSE
        /\ \A f \in DOMAIN data[r] \ {"acted"} : data'[r][f] = data[r][f]
    BY <2>2 DEF With
  <2> QED
    BY <1>1, <1>11, <2>2, <2>3 DEF Known, Acts, Declines, Approved, Has
<1>12. CASE at[r] = "ExecuteApproved" /\ at'[r] # "failed"
  <2>1. here.type = "Task" /\ here.next = "Succeed"
    BY <1>12 DEF StateMachine, LambdaTask
  <2>2. /\ at'[r] = "Succeed" /\ data'[r] = data[r] /\ UNCHANGED trail
        /\ executed' = executed \union {r}
    BY <1>12, <2>1, StepOf
  <2>3. RecordsAct(r)' /\ r \in executed'
    BY <1>1, <1>12, <2>2, RecordedStays DEF Known
  <2> QED
    BY <1>12, <2>2, <2>3 DEF Known
<1>13. CASE at[r] = "ReduceFurther" /\ at'[r] # "failed"
  <2>1. here.type = "Task" /\ here.next = "Succeed"
    BY <1>13 DEF StateMachine, LambdaTask
  <2>2. /\ at'[r] = "Succeed" /\ data'[r] = data[r] /\ UNCHANGED trail
        /\ executed' = executed
    BY <1>13, <2>1, StepOf
  <2>3. RecordsNoAct(r)' /\ r \notin executed'
    BY <1>1, <1>13, <2>2, RecordedStays DEF Known
  <2> QED
    BY <1>13, <2>2, <2>3 DEF Known
<1>14. CASE at[r] = "KeepWithReason" /\ at'[r] # "failed"
  <2>1. here.type = "Task" /\ here.next = "Succeed"
    BY <1>14 DEF StateMachine, LambdaTask
  <2>2. /\ at'[r] = "Succeed" /\ data'[r] = data[r] /\ UNCHANGED trail
        /\ executed' = executed
    BY <1>14, <2>1, StepOf
  <2>3. RecordsNoAct(r)' /\ r \notin executed'
    BY <1>1, <1>14, <2>2, RecordedStays DEF Known
  <2> QED
    BY <1>14, <2>2, <2>3 DEF Known
<1>15. CASE at[r] = "EscalateSecurityAdmin" /\ at'[r] # "failed"
  <2>1. here.type = "Task" /\ here.next = "MarkDeclinedTimeout"
    BY <1>15 DEF StateMachine, LambdaTask
  <2>2. /\ at'[r] = "MarkDeclinedTimeout" /\ data'[r] = data[r] /\ UNCHANGED trail
        /\ executed' = executed
    BY <1>15, <2>1, StepOf
  <2> QED
    BY <1>1, <1>15, <2>2 DEF Known
<1>16. CASE at[r] = "PageSecurityOnCall" /\ at'[r] # "failed"
  <2>1. here.type = "Task" /\ here.next = "MarkDeclinedTimeout"
    BY <1>16 DEF StateMachine, LambdaTask
  <2>2. /\ at'[r] = "MarkDeclinedTimeout" /\ data'[r] = data[r] /\ UNCHANGED trail
        /\ executed' = executed
    BY <1>16, <2>1, StepOf
  <2> QED
    BY <1>1, <1>16, <2>2 DEF Known
<1>17. CASE at[r] = "RecordDecision" /\ at'[r] # "failed"
  <2>1. here.type = "Audit" /\ here.next = "RouteDecision"
    BY <1>17 DEF StateMachine, AuditTask
  <2>2. /\ at'[r] = "RouteDecision" /\ data'[r] = data[r] /\ executed' = executed
        /\ trail' = trail \union {Audited(r, None, data[r]["decision"], data[r]["acted"])}
    BY <1>17, <2>1, StepOf
  <2>3. (Acts(r) => RecordsAct(r)') /\ (Declines(r) => RecordsNoAct(r)')
    BY <2>2, AuditRecords
  <2>4. Approved(r)' <=> Approved(r)
    BY <2>2 DEF Approved, Has
  <2>5. r \notin executed
    BY <1>1, <1>17 DEF Known
  <2> QED
    BY <1>1, <1>17, <2>2, <2>3, <2>4, <2>5 DEF Known
<1>18. CASE at[r] = "RecordDeclinedDecision" /\ at'[r] # "failed"
  <2>1. here.type = "Audit" /\ here.next = "Succeed"
    BY <1>18 DEF StateMachine, AuditTask
  <2>2. /\ at'[r] = "Succeed" /\ data'[r] = data[r] /\ executed' = executed
        /\ trail' = trail \union {Audited(r, None, data[r]["decision"], data[r]["acted"])}
    BY <1>18, <2>1, StepOf
  <2>3. Declines(r) /\ r \notin executed
    BY <1>1, <1>18 DEF Known
  <2>4. RecordsNoAct(r)'
    BY <2>2, <2>3, AuditRecords
  <2> QED
    BY <1>18, <2>2, <2>3, <2>4 DEF Known
<1>19. CASE at[r] = "RecordObservation" /\ at'[r] # "failed"
  <2>1. here.type = "Audit" /\ here.next = "Succeed"
    BY <1>19 DEF StateMachine, AuditTask
  <2>2. /\ at'[r] = "Succeed" /\ data'[r] = data[r] /\ executed' = executed
        /\ trail' = trail \union {Audited(r, None, data[r]["decision"], data[r]["acted"])}
    BY <1>19, <2>1, StepOf
  <2>3. Declines(r) /\ r \notin executed
    BY <1>1, <1>19 DEF Known
  <2>4. RecordsNoAct(r)'
    BY <2>2, <2>3, AuditRecords
  <2> QED
    BY <1>19, <2>2, <2>3, <2>4 DEF Known
<1>20. CASE at[r] = "RecordTimeoutProceed" /\ at'[r] # "failed"
  <2>1. here.type = "Audit" /\ here.next = "ExecuteApproved"
    BY <1>20 DEF StateMachine, AuditTask
  <2>2. /\ at'[r] = "ExecuteApproved" /\ data'[r] = data[r] /\ executed' = executed
        /\ trail' = trail \union {Audited(r, None, data[r]["decision"], data[r]["acted"])}
    BY <1>20, <2>1, StepOf
  <2>3. Acts(r) /\ r \notin executed
    BY <1>1, <1>20 DEF Known
  <2>4. RecordsAct(r)'
    BY <2>2, <2>3, AuditRecords
  <2> QED
    BY <1>20, <2>2, <2>3, <2>4 DEF Known
<1>21. CASE at[r] = "RecordTimeoutDecline" /\ at'[r] # "failed"
  <2>1. here.type = "Audit" /\ here.next = "Succeed"
    BY <1>21 DEF StateMachine, AuditTask
  <2>2. /\ at'[r] = "Succeed" /\ data'[r] = data[r] /\ executed' = executed
        /\ trail' = trail \union {Audited(r, None, data[r]["decision"], data[r]["acted"])}
    BY <1>21, <2>1, StepOf
  <2>3. Declines(r) /\ r \notin executed
    BY <1>1, <1>21 DEF Known
  <2>4. RecordsNoAct(r)'
    BY <2>2, <2>3, AuditRecords
  <2> QED
    BY <1>21, <2>2, <2>3, <2>4 DEF Known
<1>22. CASE at[r] = "RouteTier" /\ at'[r] # "failed"
  <2>1. /\ here.type = "Choice" /\ here.default = "ObserveOnly"
        /\ \A v \in DOMAIN here.table : here.table[v] \in
              {"ObserveOnly", "PrepareT1Approval", "PrepareT2Approval", "PageSecurityOnCall"}
    BY <1>22 DEF StateMachine, Choice
  <2>2. /\ at'[r] \in {"ObserveOnly", "PrepareT1Approval", "PrepareT2Approval",
                       "PageSecurityOnCall"}
        /\ executed' = executed
    BY <1>22, <2>1, StepOf
  <2> QED
    BY <1>1, <1>22, <2>2 DEF Known
<1>23. CASE at[r] = "TimeoutByTier" /\ at'[r] # "failed"
  <2>1. /\ here.type = "Choice" /\ here.default = "ObserveOnly"
        /\ \A v \in DOMAIN here.table : here.table[v] \in
              {"ObserveOnly", "ProceedAfterTimeout", "EscalateSecurityAdmin", "PageSecurityOnCall"}
    BY <1>23 DEF StateMachine, Choice
  <2>2. /\ at'[r] \in {"ObserveOnly", "ProceedAfterTimeout", "EscalateSecurityAdmin",
                       "PageSecurityOnCall"}
        /\ executed' = executed
    BY <1>23, <2>1, StepOf
  <2> QED
    BY <1>1, <1>23, <2>2 DEF Known
<1>24. CASE at[r] = "MarkDecisionDisposition" /\ at'[r] # "failed"
  <2>1. /\ here.type = "Choice" /\ here.field = "decision" /\ here.default = "MarkDeclined"
        /\ here.table = [d \in {"Approve"} |-> "MarkApproved"]
    BY <1>24 DEF StateMachine, Choice
  <2>2. /\ Has(r, "decision") /\ data'[r] = data[r] /\ executed' = executed
        /\ at'[r] = IF data[r]["decision"] = "Approve" THEN "MarkApproved" ELSE "MarkDeclined"
    BY <1>24, <2>1, StepOf
  <2>3. Approved(r)' <=> data[r]["decision"] = "Approve"
    BY <2>2 DEF Approved, Has
  <2> QED
    BY <1>1, <1>24, <2>2, <2>3 DEF Known
<1>25. CASE at[r] = "RouteDecision" /\ at'[r] # "failed"
  <2>1. /\ here.type = "Choice" /\ here.field = "decision" /\ here.default = "DeclinedToAct"
        /\ DOMAIN here.table = Decisions
        /\ here.table["Approve"] = "ExecuteApproved"
        /\ \A d \in Decisions \ {"Approve"} :
              here.table[d] \in {"ReduceFurther", "KeepWithReason", "Succeed"}
    <3>1. here = StateMachine.RouteDecision
      BY <1>25
    <3>5. /\ StateMachine.RouteDecision.type = "Choice"
          /\ StateMachine.RouteDecision.field = "decision"
          /\ StateMachine.RouteDecision.default = "DeclinedToAct"
      BY DEF StateMachine, Choice
    <3>2. DOMAIN StateMachine.RouteDecision.table = Decisions
      BY DEF StateMachine, Choice
    <3>3. StateMachine.RouteDecision.table["Approve"] = "ExecuteApproved"
      BY DEF StateMachine, Choice, Decisions
    <3>4. \A d \in Decisions \ {"Approve"} :
              StateMachine.RouteDecision.table[d] \in {"ReduceFurther", "KeepWithReason", "Succeed"}
      BY DEF StateMachine, Choice, Decisions
    <3> QED
      BY <3>1, <3>2, <3>3, <3>4, <3>5
  <2>2. /\ Has(r, "decision") /\ UNCHANGED <<trail, executed>>
        /\ at'[r] = IF data[r]["decision"] \in DOMAIN here.table
                   THEN here.table[data[r]["decision"]] ELSE here.default
    BY <1>25, <2>1, StepOf
  <2>3. /\ RecordsAct(r) => RecordsAct(r)'
        /\ RecordsNoAct(r) => RecordsNoAct(r)'
        /\ r \notin executed'
    BY <1>1, <1>25, <2>2, RecordedStays DEF Known
  <2>4. CASE data[r]["decision"] = "Approve"
    <3>1. RecordsAct(r)' /\ at'[r] = "ExecuteApproved"
      BY <1>1, <1>25, <2>1, <2>2, <2>3, <2>4 DEF Known, Approved, Decisions
    <3> QED
      BY <2>3, <3>1 DEF Known
  <2>5. CASE data[r]["decision"] # "Approve"
    <3>1. RecordsNoAct(r)'
      BY <1>1, <1>25, <2>3, <2>5 DEF Known, Approved
    <3>2. at'[r] \in {"ReduceFurther", "KeepWithReason", "Succeed", "DeclinedToAct"}
      BY <2>1, <2>2, <2>5
    <3> QED
      BY <2>3, <3>1, <3>2 DEF Known
  <2> QED
    BY <2>4, <2>5
<1>26. CASE at[r] = "NotifyApprover" /\ at'[r] # "failed"
  <2>1. here.type = "Wait" /\ here.catch = "TimeoutByTier"
    BY <1>26 DEF StateMachine
  <2>2. /\ executed' = executed
        /\ (at'[r] = "NotifyApprover" /\ data'[r] = data[r]) \/ at'[r] = "TimeoutByTier"
    BY <1>26, <2>1, StepOf
  <2> QED
    BY <1>1, <1>26, <2>2 DEF Known, Has
<1> QED
  BY <1>1, <1>2, <1>3, <1>4, <1>5, <1>6, <1>7, <1>8, <1>9, <1>10, <1>11, <1>12, <1>13, <1>14,
     <1>15, <1>16, <1>17, <1>18, <1>19, <1>20, <1>21, <1>22, <1>23, <1>24, <1>25, <1>26, States
     DEF Ended

\* The workflow leads from its states to its states.
LEMMA Closed ==
    ASSUME NEW s \in DOMAIN StateMachine
    PROVE  Successors(s) \subseteq DOMAIN StateMachine \union {"failed"}
<1>1. Successors("RouteTier") \subseteq DOMAIN StateMachine
  BY DEF StateMachine, Successors, Choice
<1>2. Successors("PrepareT1Approval") \subseteq DOMAIN StateMachine
  BY DEF StateMachine, Successors, Pass
<1>3. Successors("PrepareT2Approval") \subseteq DOMAIN StateMachine
  BY DEF StateMachine, Successors, Pass
<1>4. Successors("NotifyApprover") \subseteq DOMAIN StateMachine
  BY DEF StateMachine, Successors
<1> QED
  BY <1>1, <1>2, <1>3, <1>4, AfterStaysAfter DEF Before, After

\* What the audit states say of the document is a decision to act or not.
LEMMA AuditStates ==
    \A s \in DOMAIN StateMachine : StateMachine[s].type = "Audit" =>
        s \in {"RecordDecision", "RecordDeclinedDecision", "RecordObservation",
               "RecordTimeoutProceed", "RecordTimeoutDecline"}
<1>1. /\ StateMachine.RouteTier.type # "Audit" /\ StateMachine.PrepareT1Approval.type # "Audit"
      /\ StateMachine.PrepareT2Approval.type # "Audit" /\ StateMachine.NotifyApprover.type # "Audit"
      /\ StateMachine.TimeoutByTier.type # "Audit"
      /\ StateMachine.MarkDecisionDisposition.type # "Audit"
      /\ StateMachine.RouteDecision.type # "Audit" /\ StateMachine.MarkApproved.type # "Audit"
      /\ StateMachine.MarkDeclined.type # "Audit" /\ StateMachine.ExecuteApproved.type # "Audit"
      /\ StateMachine.ReduceFurther.type # "Audit" /\ StateMachine.KeepWithReason.type # "Audit"
      /\ StateMachine.DeclinedToAct.type # "Audit" /\ StateMachine.ObserveOnly.type # "Audit"
      /\ StateMachine.ProceedAfterTimeout.type # "Audit"
      /\ StateMachine.MarkApprovedTimeout.type # "Audit"
      /\ StateMachine.EscalateSecurityAdmin.type # "Audit"
      /\ StateMachine.PageSecurityOnCall.type # "Audit"
      /\ StateMachine.MarkDeclinedTimeout.type # "Audit" /\ StateMachine.Succeed.type # "Audit"
  BY DEF StateMachine, Choice, Pass, LambdaTask
<1> QED
  BY <1>1, States

\* A step of one execution keeps the invariant.
LEMMA RunKeepsWork ==
    ASSUME BrokerAssumption, WorkInv, NEW r \in Requests, Run(r)
    PROVE  WorkInv'
<1>1. at \in [Requests -> DOMAIN StateMachine \union {"failed"}] /\ Known(r, at[r]) /\ ~Ended(r)
  BY DEF WorkInv, Run, Choose, Mark, Invoke, Ask, Expire
<1>2. at'[r] \in DOMAIN StateMachine \union {"failed"}
  <2>1. at'[r] \in Successors(at[r]) \union {"failed", at[r]}
    BY StepOf DEF Successors
  <2> QED
    BY <1>1, <2>1, Closed DEF Ended
<1>3. at' \in [Requests -> DOMAIN StateMachine \union {"failed"}]
  BY <1>1, <1>2, StepOthers
<1>4. /\ trail \subseteq trail'
      /\ executed' \subseteq executed \union {r} /\ executed \subseteq executed'
  BY StepOf
<1>5. Trails'
  <2>1. CASE trail' = trail
    BY <2>1 DEF WorkInv, Trails
  <2>2. CASE trail' # trail
    <3>1. /\ StateMachine[at[r]].type = "Audit"
          /\ trail' = trail \union {Audited(r, None, data[r]["decision"], data[r]["acted"])}
      BY <2>2, StepOf
    <3>2. data[r]["acted"] \in BOOLEAN
      BY <1>1, <3>1, AuditStates DEF Known, Ended, Acts, Declines
    <3> DEFINE t == Audited(r, None, data[r]["decision"], data[r]["acted"])
    <3>3. t.request = r /\ t.by = None /\ t.acted \in BOOLEAN /\ trail' = trail \union {t}
      BY <3>1, <3>2 DEF Audited
    <3> HIDE DEF t
    <3> QED
      BY <3>3 DEF WorkInv, Trails
  <2> QED
    BY <2>1, <2>2
<1>6. ASSUME NEW q \in Requests, q # r
      PROVE  Known(q, at[q])'
  <2>1. at'[q] = at[q] /\ data'[q] = data[q] /\ Known(q, at[q])
    BY <1>6, StepOthers DEF WorkInv
  <2>2. q \in executed' <=> q \in executed
    BY <1>4, <1>6
  <2>3. (RecordsAct(q) => RecordsAct(q)') /\ (RecordsNoAct(q) => RecordsNoAct(q)')
    BY <1>4, RecordedStays
  <2> QED
    BY <2>1, <2>2, <2>3 DEF Known, Acts, Declines, Approved, Has
<1>7. \A q \in Requests : Known(q, at[q])'
  BY <1>6, KnownStep
<1> QED
  BY <1>3, <1>4, <1>5, <1>7, StepOthers DEF WorkInv

\* No step of an execution or of the handler disturbs what is known.
LEMMA WorkStep ==
    ASSUME BrokerAssumption, BrokerInv, WorkInv, [Next]_vars
    PROVE  WorkInv'
<1>1. /\ at \in [Requests -> DOMAIN StateMachine \union {"failed"}]
      /\ data = [q \in Requests |-> data[q]] /\ faults \in 0..MaxFaults /\ MaxFaults \in Nat
      /\ Trails
  BY DEF WorkInv, BrokerAssumption
<1>2. ASSUME UNCHANGED <<at, data, asked, executed>>, trail \subseteq trail', Trails',
             faults' \in 0..MaxFaults
      PROVE  WorkInv'
  <2>1. ASSUME NEW q \in Requests
        PROVE  Known(q, at[q])'
    <3>1. Known(q, at[q])
      BY DEF WorkInv
    <3> QED
      BY <1>2, <3>1, RecordedStays DEF Known, Acts, Declines, Approved, Has
  <2> QED
    BY <1>2, <2>1 DEF WorkInv
<1>3. ASSUME NEW r \in Requests, Run(r)
      PROVE  WorkInv'
  BY <1>3, RunKeepsWork
<1>4. ASSUME NEW c \in Clicks, Click(c)
      PROVE  WorkInv'
  BY <1>1, <1>2, <1>4 DEF Click, execution, NoFault, Trails
<1>5. ASSUME NEW c \in Clicks, WriteDecision(c)
      PROVE  WorkInv'
  <2>1. about[c] \in Requests \X Decisions
    BY <1>5 DEF WriteDecision, BrokerInv, Shapes
  <2>2. UNCHANGED <<at, data, asked, executed>> /\ faults' \in 0..MaxFaults
    BY <1>1, <1>5 DEF WriteDecision, execution, NoFault, Fault
  <2>3. trail' \in {trail, trail \union {RecordOf(c)}}
    BY <1>5 DEF WriteDecision, RecordOf
  <2>4. RecordOf(c).request \in Requests /\ RecordOf(c).by = c /\ RecordOf(c).acted \in BOOLEAN
    BY <2>1 DEF RecordOf, Audited
  <2>5. Trails'
    BY <1>1, <2>3, <2>4 DEF Trails
  <2> QED
    BY <1>2, <2>2, <2>3, <2>5
<1>6. ASSUME NEW c \in Clicks, SendDecision(c)
      PROVE  WorkInv'
  <2> DEFINE r == about[c][1]
  <2>1. /\ UNCHANGED <<asked, executed, trail>> /\ faults' \in 0..MaxFaults /\ r \in Requests
    BY <1>1, <1>6 DEF SendDecision, NoFault, Fault, BrokerInv, Shapes
  <2>2. CASE UNCHANGED <<at, data>>
    BY <1>1, <1>2, <2>1, <2>2 DEF Trails
  <2>3. CASE at[r] = "NotifyApprover" /\ Accept(c, r)
    <3>1. /\ at' = [at EXCEPT ![r] = "MarkDecisionDisposition"]
          /\ "MarkDecisionDisposition" \in DOMAIN StateMachine
      <4>1. /\ StateMachine.NotifyApprover.next = "MarkDecisionDisposition"
            /\ "MarkDecisionDisposition" \in DOMAIN StateMachine
        BY DEF StateMachine
      <4> QED
        BY <2>3, <4>1 DEF Accept, Enter, Here
    <3>2. \A q \in Requests : q # r => data'[q] = data[q] /\ at'[q] = at[q]
      BY <1>1, <2>3, <3>1 DEF Accept
    <3>3. at'[r] = "MarkDecisionDisposition" /\ data' = [q \in Requests |-> data'[q]]
      BY <1>1, <2>1, <2>3, <3>1 DEF Accept
    <3>4. r \notin executed
      BY <2>1, <2>3 DEF WorkInv, Known
    <3>5. ASSUME NEW q \in Requests
          PROVE  Known(q, at[q])'
      <4>1. CASE q = r
        BY <2>1, <3>3, <3>4, <4>1 DEF Known
      <4>2. CASE q # r
        <5>1. Known(q, at[q]) /\ at'[q] = at[q] /\ data'[q] = data[q]
          BY <3>2, <4>2 DEF WorkInv
        <5> QED
          BY <2>1, <5>1, RecordedStays DEF Known, Acts, Declines, Approved, Has
      <4> QED
        BY <4>1, <4>2
    <3>6. Trails'
      BY <1>1, <2>1 DEF Trails
    <3> QED
      BY <1>1, <2>1, <3>1, <3>3, <3>5, <3>6 DEF WorkInv
  <2> QED
    BY <1>6, <2>2, <2>3 DEF SendDecision
<1>7. CASE UNCHANGED vars
  BY <1>1, <1>2, <1>7 DEF vars, execution, Trails
<1> QED
  BY <1>3, <1>4, <1>5, <1>6, <1>7 DEF Next, Handle

LEMMA WorkInit == BrokerAssumption /\ Init => WorkInv
<1> SUFFICES ASSUME BrokerAssumption, Init
             PROVE  WorkInv
  OBVIOUS
<1>1. "RouteTier" \in DOMAIN StateMachine
  BY DEF StateMachine
<1> QED
  BY <1>1 DEF BrokerAssumption, Init, WorkInv, Trails, Known

LEMMA WorkInvariance == Spec => [](BrokerInv /\ WorkInv)
BY BrokerInit, BrokerStep, WorkInit, WorkStep, BrokerAssumption, PTL DEF Spec

\* Every execution is in a state of the workflow, with a limit on its wait, and
\* every record is of a request and says whether the system acted.
THEOREM BrokerTypeOK == Spec => []TypeOK
<1>1. BrokerInv /\ WorkInv => TypeOK
  <2> SUFFICES ASSUME BrokerInv, WorkInv
               PROVE  TypeOK
    OBVIOUS
  <2>1. ASSUME NEW c \in Clicks, pc[c] \notin {"idle", "refused"}
        PROVE  about[c] \in Requests \X Decisions
    BY <2>1 DEF BrokerInv, Shapes
  <2>2. ASSUME NEW r \in Requests, at[r] = "NotifyApprover"
        PROVE  /\ "approval_timeout_seconds" \in DOMAIN data[r]
               /\ data[r]["approval_timeout_seconds"] \in Nat
    BY <2>2 DEF WorkInv, Known, Has
  <2> QED
    BY <2>1, <2>2 DEF TypeOK, BrokerInv, Shapes, WorkInv, Trails
<1> QED
  BY <1>1, WorkInvariance, PTL

\* Whatever document an execution starts with, whoever answers and whatever
\* fails: if it succeeds, a record of its own says whether it executed.
THEOREM BrokerSuccessIsRecorded == Spec => []SuccessIsRecorded
<1>1. WorkInv => SuccessIsRecorded
  <2> SUFFICES ASSUME WorkInv, NEW r \in Requests, at[r] = "Succeed"
               PROVE  \E t \in trail : t.request = r /\ t.by = None /\ t.acted = (r \in executed)
    BY DEF SuccessIsRecorded
  <2>1. IF r \in executed THEN RecordsAct(r) ELSE RecordsNoAct(r)
    BY DEF WorkInv, Known
  <2>2. PICK t \in trail : /\ t.request = r /\ t.by = None
                            /\ IF r \in executed THEN t.acted = TRUE ELSE t.acted = FALSE
    BY <2>1 DEF RecordsAct, RecordsNoAct
  <2>3. t.acted = (r \in executed)
    <3>1. CASE r \in executed
      <4>1. (r \in executed) = TRUE /\ t.acted = TRUE
        BY <2>2, <3>1, Zenon
      <4> QED
        BY <4>1, Zenon
    <3>2. CASE r \notin executed
      <4>1. t.acted = FALSE
        BY <2>2, <3>2
      <4>2. (r \in executed) = FALSE
        BY <3>2
      <4> QED
        BY <4>1, <4>2, Zenon
    <3> QED
      BY <3>1, <3>2
  <2> QED
    BY <2>2, <2>3
<1> QED
  BY <1>1, WorkInvariance, PTL
=============================================================================
