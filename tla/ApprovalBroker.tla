--------------------------- MODULE ApprovalBroker ---------------------------
(***************************************************************************)
(* The approval broker: the Step Functions workflow that                   *)
(* deadbolt.broker.statemachine generates (StateMachine below is its table *)
(* of states, the actions Choose, Mark, Invoke, Ask and Expire are what    *)
(* Step Functions makes of one state) and deadbolt.broker.handler, which   *)
(* turns a click on the Slack card into an audit record and an answer to   *)
(* the waiting execution.                                                  *)
(*                                                                         *)
(* The JSON document that an execution carries is a function from its      *)
(* field names to values; fields nobody looks at have the value "given".   *)
(***************************************************************************)
EXTENDS Naturals

CONSTANTS
    Requests,    \* executions of the workflow
    Inputs,      \* the documents they are started with
    Clicks,      \* deliveries of a click to the Function URL
    HasWriter,   \* whether the handler is configured with an audit bucket
    Events,      \* the kinds of trouble that may happen
    MaxFaults,   \* how many of them a behaviour may contain
    None

ASSUME BrokerAssumption ==
    /\ HasWriter \in BOOLEAN
    /\ Events \subseteq {"lambda", "audit", "callback"}
    /\ MaxFaults \in Nat
    /\ None \notin Clicks
    /\ None \notin Requests

VARIABLES
    at,       \* the state an execution is in
    data,     \* its document
    asked,    \* whether the task token was handed to the approver
    answer,   \* the click that completed the wait
    trail,    \* the audit records
    executed, \* the executions that invoked the executor function
    pc,       \* where the handler is with a click
    about,    \* <<request, decision>> of a click
    faults    \* troubles so far

execution == <<at, data, asked, answer, executed>>
handler   == <<pc, about>>
vars      == <<execution, trail, handler, faults>>

-----------------------------------------------------------------------------
(* The definition of the workflow.                                         *)

Decisions == {"Approve", "Reduce further", "Keep, with reason", "Defer 30 days"}

HEARTBEAT_SECONDS == 300

ApprovalWindow == [T1 |-> 72 * 60 * 60, T2 |-> 24 * 60 * 60]

\* What an audit state reads from the document; it fails without them.
AuditFields == {"approver_id", "action", "decision", "finding_id", "identity_id",
                "plan_hash", "plan_id", "pre_image_key", "provider", "resource", "result",
                "scope", "system", "trace_id", "traceparent", "tier", "acted"}

Choice(field, table, default) ==
    [type |-> "Choice", field |-> field, table |-> table, default |-> default]

\* Faulty variant of Pass: without its ResultPath the value goes nowhere useful.
PassAside(field, value, next) ==
    [type |-> "Pass", field |-> "result", value |-> value, next |-> next]

Pass(field, value, next) ==
    [type |-> "Pass", field |-> field, value |-> value, next |-> next]

LambdaTask(next) == [type |-> "Task", needs |-> {}, next |-> next]

\* Faulty variant of AuditTask: the function is called without a record.
AuditTaskPlain(next) == LambdaTask(next)

AuditTask(next) == [type |-> "Audit", needs |-> AuditFields, next |-> next]

StateMachine ==
    [RouteTier |->
        Choice("tier", [T0 |-> "ObserveOnly", T1 |-> "PrepareT1Approval",
                        T2 |-> "PrepareT2Approval", T3 |-> "PageSecurityOnCall"],
               "ObserveOnly"),
     PrepareT1Approval |-> Pass("approval_timeout_seconds", ApprovalWindow.T1, "NotifyApprover"),
     PrepareT2Approval |-> Pass("approval_timeout_seconds", ApprovalWindow.T2, "NotifyApprover"),
     NotifyApprover    |-> [type |-> "Wait", next |-> "MarkDecisionDisposition",
                            catch |-> "TimeoutByTier"],
     TimeoutByTier |->
        Choice("tier", [T0 |-> "ProceedAfterTimeout", T1 |-> "ProceedAfterTimeout",
                        T2 |-> "EscalateSecurityAdmin", T3 |-> "PageSecurityOnCall"],
               "ObserveOnly"),
     MarkDecisionDisposition |->
        Choice("decision", [d \in {"Approve"} |-> "MarkApproved"], "MarkDeclined"),
     MarkApproved   |-> Pass("acted", TRUE, "RecordDecision"),
     MarkDeclined   |-> Pass("acted", FALSE, "RecordDecision"),
     RecordDecision |-> AuditTask("RouteDecision"),
     RouteDecision |->
        Choice("decision", [d \in Decisions |-> CASE d = "Approve"           -> "ExecuteApproved"
                                                  [] d = "Reduce further"    -> "ReduceFurther"
                                                  [] d = "Keep, with reason" -> "KeepWithReason"
                                                  [] d = "Defer 30 days"     -> "Succeed"],
               "DeclinedToAct"),
     ExecuteApproved        |-> LambdaTask("Succeed"),
     ReduceFurther          |-> LambdaTask("Succeed"),
     KeepWithReason         |-> LambdaTask("Succeed"),
     DeclinedToAct          |-> Pass("acted", FALSE, "RecordDeclinedDecision"),
     RecordDeclinedDecision |-> AuditTask("Succeed"),
     ObserveOnly            |-> Pass("acted", FALSE, "RecordObservation"),
     RecordObservation      |-> AuditTask("Succeed"),
     ProceedAfterTimeout    |-> Pass("decision", "Approve", "MarkApprovedTimeout"),
     MarkApprovedTimeout    |-> Pass("acted", TRUE, "RecordTimeoutProceed"),
     RecordTimeoutProceed   |-> AuditTask("ExecuteApproved"),
     EscalateSecurityAdmin  |-> LambdaTask("MarkDeclinedTimeout"),
     PageSecurityOnCall     |-> LambdaTask("MarkDeclinedTimeout"),
     MarkDeclinedTimeout    |-> Pass("acted", FALSE, "RecordTimeoutDecline"),
     RecordTimeoutDecline   |-> AuditTask("Succeed"),
     Succeed                |-> [type |-> "Succeed"]]

-----------------------------------------------------------------------------
Ended(r) == at[r] \in {"Succeed", "failed"}

\* A record names the click that a handler wrote it for, or None when an
\* audit state of the execution wrote it.
Audited(r, c, decision, acted) ==
    [request |-> r, by |-> c, decision |-> decision, acted |-> acted]

TypeOK ==
    /\ at \in [Requests -> DOMAIN StateMachine \union {"failed"}]
    /\ \A r \in Requests : at[r] = "NotifyApprover" =>
          /\ "approval_timeout_seconds" \in DOMAIN data[r]
          /\ data[r]["approval_timeout_seconds"] \in Nat
    /\ asked \in [Requests -> BOOLEAN]
    /\ answer \in [Requests -> Clicks \union {None}]
    /\ \A t \in trail : /\ t.request \in Requests
                        /\ t.by \in Clicks \union {None}
                        /\ t.acted \in BOOLEAN
    /\ executed \subseteq Requests
    /\ pc \in [Clicks -> {"idle", "audit", "send", "ok", "refused", "raised"}]
    /\ \A c \in Clicks : pc[c] \notin {"idle", "refused"} => about[c] \in Requests \X Decisions
    /\ faults \in 0..MaxFaults

Init ==
    /\ at = [r \in Requests |-> "RouteTier"]
    /\ data \in [Requests -> Inputs]
    /\ asked = [r \in Requests |-> FALSE]
    /\ answer = [r \in Requests |-> None]
    /\ trail = {}
    /\ executed = {}
    /\ pc = [c \in Clicks |-> "idle"]
    /\ about = [c \in Clicks |-> None]
    /\ faults = 0

NoFault == UNCHANGED faults

Fault(kind) ==
    /\ kind \in Events
    /\ faults < MaxFaults
    /\ faults' = faults + 1

-----------------------------------------------------------------------------
(* What Step Functions makes of the state an execution is in.              *)

Here(r)     == StateMachine[at[r]]
Has(r, f)   == f \in DOMAIN data[r]
Enter(r, s) == at' = [at EXCEPT ![r] = s]

\* A choice upon a field that the document lacks fails the execution.
Choose(r) ==
    /\ ~Ended(r) /\ Here(r).type = "Choice"
    /\ \/ ~Has(r, Here(r).field) /\ Enter(r, "failed")
       \/ /\ Has(r, Here(r).field)
          /\ LET value == data[r][Here(r).field]
             IN  Enter(r, IF value \in DOMAIN Here(r).table
                          THEN Here(r).table[value] ELSE Here(r).default)
    /\ NoFault
    /\ UNCHANGED <<data, asked, answer, executed, trail, handler>>

\* A document with one more value.
With(document, field, value) ==
    [f \in DOMAIN document \union {field} |-> IF f = field THEN value ELSE document[f]]

Mark(r) ==
    /\ ~Ended(r) /\ Here(r).type = "Pass"
    /\ data' = [data EXCEPT ![r] = With(@, Here(r).field, Here(r).value)]
    /\ Enter(r, Here(r).next)
    /\ NoFault
    /\ UNCHANGED <<asked, answer, executed, trail, handler>>

\* ResultPath is null: the document stays as it is.  No state has a Retry,
\* and only NotifyApprover has a Catch.
Invoke(r) ==
    /\ ~Ended(r) /\ Here(r).type \in {"Task", "Audit"}
    /\ \/ /\ NoFault
          /\ \A f \in Here(r).needs : Has(r, f)
          /\ Enter(r, Here(r).next)
          /\ trail' = IF Here(r).type = "Audit"
                      THEN trail \union {Audited(r, None, data[r]["decision"], data[r]["acted"])}
                      ELSE trail
          /\ executed' = IF at[r] = "ExecuteApproved" THEN executed \union {r} ELSE executed
       \/ /\ (NoFault /\ \E f \in Here(r).needs : ~Has(r, f)) \/ Fault("lambda")
          /\ Enter(r, "failed")
          /\ UNCHANGED <<trail, executed>>
    /\ UNCHANGED <<data, asked, answer, handler>>

\* The notification function is given the task token, and the execution waits.
Ask(r) ==
    /\ ~Ended(r) /\ Here(r).type = "Wait" /\ ~asked[r]
    /\ \/ NoFault /\ asked' = [asked EXCEPT ![r] = TRUE] /\ UNCHANGED at
       \/ Fault("lambda") /\ Enter(r, "failed") /\ asked' \in {asked, [asked EXCEPT ![r] = TRUE]}
    /\ UNCHANGED <<data, answer, executed, trail, handler>>

\* Faulty variant of Limits: the task has neither a timeout nor a heartbeat.
Unlimited(r) == {}

Limits(r) == {HEARTBEAT_SECONDS, data[r].approval_timeout_seconds}

\* Nobody sends a heartbeat, so that either limit ends the wait.  The
\* Catch has no ResultPath: the error replaces the document.
Expire(r) ==
    /\ ~Ended(r) /\ Here(r).type = "Wait" /\ asked[r]
    /\ Limits(r) # {}
    /\ data' = [data EXCEPT ![r] = [f \in {"Error", "Cause"} |-> "given"]]
    /\ Enter(r, Here(r).catch)
    /\ NoFault
    /\ UNCHANGED <<asked, answer, executed, trail, handler>>

-----------------------------------------------------------------------------
(* handler.lambda_handler                                                  *)

\* Faulty variant of AfterParsing: the answer is sent before it is recorded.
SendAtOnce == "send"

AfterParsing == IF HasWriter THEN "audit" ELSE "send"

\* A click on a card, once or again, before or after the execution ended.
\* A bad signature, an old timestamp or an unusable payload is refused.
Click(c) ==
    /\ pc[c] = "idle"
    /\ NoFault
    /\ \E r \in Requests, decision \in Decisions :
          /\ asked[r]
          /\ \/ about' = [about EXCEPT ![c] = <<r, decision>>]
                /\ pc' = [pc EXCEPT ![c] = AfterParsing]
             \/ pc' = [pc EXCEPT ![c] = "refused"] /\ UNCHANGED about
    /\ UNCHANGED <<execution, trail>>

\* A malformed chain is answered with 400, an error of S3 is raised; in
\* both cases no answer is sent.
WriteDecision(c) ==
    LET record == Audited(about[c][1], c, about[c][2], about[c][2] = "Approve")
    IN  /\ pc[c] = "audit"
        /\ \/ /\ NoFault
              /\ trail' = trail \union {record}
              /\ pc' = [pc EXCEPT ![c] = "send"]
           \/ /\ Fault("audit")
              /\ trail' \in {trail, trail \union {record}}
              /\ pc' \in {[pc EXCEPT ![c] = p] : p \in {"refused", "raised"}}
        /\ UNCHANGED <<execution, about>>

\* The output of the wait replaces the document of the execution.
Accept(c, r) ==
    /\ data' = [data EXCEPT ![r] = [decision |-> about[c][2], approver_id |-> "given",
                                    reason |-> "given"]]
    /\ answer' = [answer EXCEPT ![r] = c]
    /\ Enter(r, Here(r).next)

\* Faulty variant of Undelivered: every error of the client is swallowed.
Swallowed == "ok"

Undelivered == "raised"

\* send_task_success: the token is valid while the execution waits.  A call
\* that raises may have been carried out.
SendDecision(c) ==
    LET r == about[c][1]
        waiting == at[r] = "NotifyApprover" /\ asked[r]
    IN  /\ pc[c] = "send"
        /\ \/ /\ NoFault
              /\ waiting
              /\ Accept(c, r)
              /\ pc' = [pc EXCEPT ![c] = "ok"]
           \/ /\ Fault("callback")
              /\ waiting
              /\ Accept(c, r)
              /\ pc' = [pc EXCEPT ![c] = Undelivered]
           \/ /\ (NoFault /\ ~waiting) \/ Fault("callback")
              /\ pc' = [pc EXCEPT ![c] = Undelivered]
              /\ UNCHANGED <<at, data, answer>>
        /\ UNCHANGED <<asked, executed, trail, about>>

-----------------------------------------------------------------------------
Run(r)    == Choose(r) \/ Mark(r) \/ Invoke(r) \/ Ask(r) \/ Expire(r)
Handle(c) == Click(c) \/ WriteDecision(c) \/ SendDecision(c)

Next ==
    \/ \E r \in Requests : Run(r)
    \/ \E c \in Clicks : Handle(c)

Spec == Init /\ [][Next]_vars

\* Step Functions takes the next step of an execution and ends a wait whose
\* limit has passed; nobody has to click.
FairSpec == Spec /\ \A r \in Requests : WF_vars(Run(r))

-----------------------------------------------------------------------------
(* Properties.                                                             *)

\* Whether somebody clicks, clicks twice or never, every execution ends.
EveryExecutionEnds == \A r \in Requests : <>Ended(r)

\* An answer that an execution goes on with was recorded before: in the
\* trail is the record of that very click, with the decision it carried.
AnswerWasRecorded ==
    HasWriter =>
        \A r \in Requests : answer[r] # None =>
            \E t \in trail : /\ t.request = r /\ t.by = answer[r]
                             /\ t.decision = about[answer[r]][2]
                             /\ t.acted = (t.decision = "Approve")

\* Whoever is told that the click was taken is the one the execution follows,
\* however many people click and however late.
ToldIsTaken == \A c \in Clicks : pc[c] = "ok" => answer[about[c][1]] = c

\* An execution that succeeds left a record of its own, which says that the
\* system acted just if the executor function was invoked.
SuccessIsRecorded ==
    \A r \in Requests : at[r] = "Succeed" =>
        \E t \in trail : t.request = r /\ t.by = None /\ t.acted = (r \in executed)

\* Every branch ends with an audit record of the request, also the branches
\* in which the system declined to act.
EveryBranchAudited == \A r \in Requests : Ended(r) => \E t \in trail : t.request = r
=============================================================================
