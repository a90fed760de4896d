------------------------------ MODULE BackupTest ------------------------------
(***************************************************************************)
(* fgops-agent backup-test (run_backup_test of backup_test.py): a          *)
(* preflight, a TFTP server for one file, the device's backup command, the *)
(* wait for the upload, a verified copy in the evidence directory and a    *)
(* report.  The device uploads whenever it likes while the server is up.   *)
(***************************************************************************)
EXTENDS TftpUpload

\* What the evidence directory holds under the backup's name besides a number of
\* blocks: a file from before, or a copy that is not what was uploaded.
Earlier == -2
Damaged == -3

VARIABLES
    pc,
    store,    \* the file of the evidence directory
    report

vars == <<pc, store, report, transfer, watch>>

Pcs == {"check", "reserve", "listen", "command", "wait", "stop", "copy", "verify", "report",
        "cleanup", "done", "raised"}

Init ==
    /\ TransferInit
    /\ pc = "check"
    /\ store \in {NoFile, Earlier}
    /\ report = "none"

Goto(from, to) == pc = from /\ pc' = to

\* The backup password is set and the preflight passes.
Check ==
    /\ Goto("check", "reserve")
    /\ UNCHANGED <<store, report, transfer, watch>>

\* No backup of that name exists.
Reserve ==
    /\ Goto("reserve", "listen")
    /\ store = NoFile
    /\ UNCHANGED <<store, report, transfer, watch>>

\* The port looked free and the thread was started; a bind that fails after all is a
\* ServerFails before the first request.
Listen ==
    /\ Goto("listen", "command")
    /\ server' = "up"
    /\ UNCHANGED <<store, report, file, open, uploads, still, watch>>

\* The device does not refuse the command.
Command ==
    /\ Goto("command", "wait")
    /\ UNCHANGED <<store, report, transfer, watch>>

Wait ==
    /\ pc = "wait"
    /\ Tick \/ LookMoved \/ LookSame
    /\ UNCHANGED <<pc, store, report>>

Take ==
    /\ Goto("wait", "stop")
    /\ Taken
    /\ UNCHANGED <<store, report, transfer, watch>>

GiveUp ==
    /\ Goto("wait", "raised")
    /\ TimedOut
    /\ server' = "down" /\ open' = FALSE
    /\ UNCHANGED <<store, report, file, uploads, still, watch>>

\* The with-blocks end; a server thread that failed raises.
Stop ==
    /\ Goto("stop", "copy")
    /\ server = "up"
    /\ server' = "down" /\ open' = FALSE
    /\ UNCHANGED <<store, report, file, uploads, still, watch>>

Copy ==
    /\ Goto("copy", "verify")
    /\ file # NoFile
    /\ store' \in {file, Damaged}
    /\ UNCHANGED <<report, transfer, watch>>

VerifyNothing ==
    /\ Goto("verify", "report")
    /\ UNCHANGED <<store, report, transfer, watch>>
\* Both files have the same hash, and they are not empty.
Verify ==
    /\ Goto("verify", "report")
    /\ store = file /\ store > 0
    /\ UNCHANGED <<store, report, transfer, watch>>

Report ==
    /\ Goto("report", "cleanup")
    /\ report' = "PASS"
    /\ UNCHANGED <<store, transfer, watch>>

Cleanup ==
    /\ Goto("cleanup", "done")
    /\ file' = NoFile
    /\ UNCHANGED <<store, report, server, open, uploads, still, watch>>

\* A check that fails, a refused command, an I/O or SSH error, or the end of the
\* process: the server goes, and files stay as they are.
Raise ==
    /\ pc \notin {"done", "raised"}
    /\ pc' = "raised"
    /\ server' = "down" /\ open' = FALSE
    /\ store' \in IF pc = "copy" THEN {store, Damaged} ELSE {store}
    /\ report' \in IF pc = "report" THEN {report, "PASS"} ELSE {report}
    /\ file' \in IF pc = "cleanup" THEN {file, NoFile} ELSE {file}
    /\ UNCHANGED <<uploads, still, watch>>

Step ==
    \/ Check \/ Reserve \/ Listen \/ Command \/ Wait \/ Take \/ GiveUp
    \/ Stop \/ Copy \/ Verify \/ Report \/ Cleanup

DeviceStep == Device /\ UNCHANGED <<pc, store, report>>

Next == Step \/ Raise \/ DeviceStep

Spec == Init /\ [][Next]_vars

\* Time passes, the waiting process looks at the file again and again, and every
\* other call of the process returns or raises.
Fairness ==
    /\ WF_vars(Wait /\ now' # now)
    /\ WF_vars(Take \/ GiveUp)
    /\ WF_vars((Check \/ Reserve \/ Listen \/ Command \/ Stop \/ Copy \/ Verify \/ Report
                \/ Cleanup) \/ (pc # "wait" /\ Raise))

FairSpec == Spec /\ Fairness
-----------------------------------------------------------------------------
(* Properties. *)

TypeOK ==
    /\ server \in {"down", "up", "failed"}
    /\ file \in NoFile..Blocks /\ open \in BOOLEAN
    /\ uploads \in 0..MaxUploads
    /\ now \in 0..Timeout
    /\ last \in -1..Blocks /\ since \in NoTime..Timeout
    /\ still \in 0..Stable /\ paused \in BOOLEAN
    /\ pc \in Pcs
    /\ store \in {NoFile, Earlier, Damaged} \union 0..Blocks
    /\ report \in {"none", "PASS"}

\* A backup test that reports PASS has the whole backup of the device in the
\* evidence directory, unless the upload paused for stable_seconds or began
\* anew: nothing else can make a part of a file look complete
\* (wait_for_uploaded_file, whose only evidence is a size that does not change).
PassIsBacked ==
    report = "PASS" =>
        /\ store > 0
        /\ store = Blocks \/ paused \/ uploads > 1

\* The command comes to an end, whatever the device does with its upload.
TestEnds == <>(pc \in {"done", "raised"})
=============================================================================
