-------------------------- MODULE MCApprovalWorkflows --------------------------
(* Small instances of ApprovalWorkflows for TLC. *)
EXTENDS ApprovalWorkflows

CONSTANTS owner, member, guest

Says(i, actor, command, arg) ==
    [issue |-> i, actor |-> actor, command |-> command, arg |-> arg]

\* The approver grants for later, cancels and snoozes one issue; a member who is no
\* approver tries to approve the other.
MenuMC ==
    {Says(1, owner, "cancel", 0), Says(1, owner, "snooze", 1), Says(1, owner, "schedule", 3),
     Says(2, member, "approve", 0)}

\* A member gives one issue a command the reconciliation does not survive; the
\* other issue is to be rejected.
MenuWithOverflow == {Says(2, member, "overflow", 0), Says(1, owner, "reject", 0)}
=============================================================================
