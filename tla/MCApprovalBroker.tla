-------------------------- MODULE MCApprovalBroker --------------------------
(* Instances of ApprovalBroker for TLC. *)
EXTENDS ApprovalBroker

\* What the audit states read, as far as it can be known at the start.
Document(tier) ==
    [f \in AuditFields \ {"acted"} |-> IF f = "tier" THEN tier
                                       ELSE IF f = "decision" THEN "none" ELSE "given"]

\* Of each tier, and of a tier that the table does not know.
EveryTier == {Document(tier) : tier \in {"T0", "T1", "T2", "T3", "T4"}}

\* What timeout_input returns: nothing about the plan.
OnlyTimeout(tier) ==
    [tier |-> tier, approval_timeout_seconds |-> ApprovalWindow.T1]

EveryInput == EveryTier \union {OnlyTimeout("T0"), OnlyTimeout("T1")}
=============================================================================
