----------------------------- MODULE ApplyContract -----------------------------
(***************************************************************************)
(* One controlled apply as the rest of the agent sees it: what it does to  *)
(* the archive's status, to its TFTP server and to the device.  These are  *)
(* the steps AgentLifecycle gives a process that applies an archive;       *)
(* ControlledApply implements them.                                        *)
(***************************************************************************)
VARIABLES
    phase,      \* how far the apply got
    status,     \* the archive's status in the state file
    server,     \* the apply's TFTP server thread
    touched     \* a restore command was sent

vars == <<phase, status, server, touched>>

Init ==
    /\ phase = "apply"
    /\ status \in {"ABSENT", "PREPARED", "APPLIED", "APPLY_FAILED", "REVIEW_REQUIRED",
                   "CONTENT_DUPLICATE"}
    /\ server = "down"
    /\ touched = FALSE

Pass(from, to) == phase = from /\ phase' = to

Select == status = "PREPARED" /\ Pass("apply", "selected") /\ UNCHANGED <<status, server, touched>>
OpenSession ==
    Pass("selected", "session") /\ server' = "starting" /\ UNCHANGED <<status, touched>>
Restore == Pass("session", "restored") /\ touched' = TRUE /\ UNCHANGED <<status, server>>
\* A server that failed keeps the session from closing: that is an exception.
Close ==
    /\ Pass("restored", "closed")
    /\ server # "failed" /\ server' = "down"
    /\ UNCHANGED <<status, touched>>
Conclude == Pass("closed", "finish") /\ UNCHANGED <<status, server, touched>>

\* The status is saved once, at the end, and cleanup follows a success only.
Finish ==
    /\ \/ Pass("finish", "cleanup") /\ status' = "APPLIED"
       \/ Pass("finish", "done") /\ status' = "APPLY_FAILED"
    /\ UNCHANGED <<server, touched>>
Cleanup == Pass("cleanup", "done") /\ UNCHANGED <<status, server, touched>>

\* Wherever it fails, the server is ended and the status stays as it is.
Raise ==
    /\ phase \notin {"done", "raised"}
    /\ phase' = "raised"
    /\ server' = "down"
    /\ UNCHANGED <<status, touched>>

\* The server thread binds the port in its own time, or fails.
Bind == server = "starting" /\ server' = "up" /\ UNCHANGED <<phase, status, touched>>
ServerFails ==
    server \in {"starting", "up"} /\ server' = "failed" /\ UNCHANGED <<phase, status, touched>>

Next ==
    \/ Select \/ OpenSession \/ Restore \/ Close \/ Conclude \/ Finish \/ Cleanup \/ Raise
    \/ Bind \/ ServerFails

Spec == Init /\ [][Next]_vars
=============================================================================
