--------------------------- MODULE ArchiveLifecycle ---------------------------
(***************************************************************************)
(* What the state plane promises about each archive, without processes,    *)
(* copies or notifications: the life of docs/architecture.md's "Policy and *)
(* state plane", with the one step the code adds to it (a settled archive  *)
(* may still be sent to review).  AgentLifecycle implements it as long as  *)
(* one process runs at a time.                                             *)
(***************************************************************************)
EXTENDS FiniteSets

CONSTANTS Archives, Packages, Payload

VARIABLES
    status,     \* status[a]: the lifecycle state of archive a
    touched,    \* archives whose restore was begun on the device
    applied     \* archives whose apply was confirmed

vars == <<status, touched, applied>>

Init ==
    /\ status = [a \in Archives |-> "ABSENT"]
    /\ touched = {}
    /\ applied = {}

\* A new archive is prepared ...
Prepare(a) ==
    /\ status[a] = "ABSENT"
    /\ status' = [status EXCEPT ![a] = "PREPARED"]
    /\ UNCHANGED <<touched, applied>>

\* ... unless everything in it was confirmed on the device before.
Skip(a) ==
    /\ status[a] = "ABSENT"
    /\ \E b \in applied : Payload[a] \subseteq Payload[b]
    /\ status' = [status EXCEPT ![a] = "CONTENT_DUPLICATE"]
    /\ UNCHANGED <<touched, applied>>

\* The device is changed for prepared archives only, ...
Touch(a) ==
    /\ status[a] = "PREPARED"
    /\ touched' = touched \union {a}
    /\ UNCHANGED <<status, applied>>

\* ... which ends in a confirmed success, in a recorded failure ...
Succeed(a) ==
    /\ status[a] = "PREPARED" /\ a \in touched
    /\ status' = [status EXCEPT ![a] = "APPLIED"]
    /\ applied' = applied \union {a}
    /\ UNCHANGED touched

Fail(a) ==
    /\ status[a] = "PREPARED" /\ a \in touched
    /\ status' = [status EXCEPT ![a] = "APPLY_FAILED"]
    /\ UNCHANGED <<touched, applied>>

\* ... or with an operator; a settled archive can be sent there too.
SendToReview(a) ==
    /\ status[a] \in {"PREPARED", "APPLIED", "APPLY_FAILED"}
    /\ status' = [status EXCEPT ![a] = "REVIEW_REQUIRED"]
    /\ UNCHANGED <<touched, applied>>

Next ==
    \E a \in Archives :
        Prepare(a) \/ Skip(a) \/ Touch(a) \/ Succeed(a) \/ Fail(a) \/ SendToReview(a)

Spec == Init /\ [][Next]_vars
=============================================================================
