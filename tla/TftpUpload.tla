------------------------------ MODULE TftpUpload ------------------------------
(***************************************************************************)
(* The upload of a configuration backup: the device writes to the TFTP     *)
(* server of tftp_service.py while wait_for_uploaded_file watches the size *)
(* of the file and takes it for complete once it has not changed for a     *)
(* while.                                                                  *)
(*                                                                         *)
(* The file is its size in blocks.  Time is counted while the waiting goes *)
(* on, in units of the sleep between two looks at the file.                *)
(***************************************************************************)
EXTENDS Integers

CONSTANTS
    Blocks,      \* the size of the whole backup
    Stable,      \* stable_seconds
    Timeout,     \* timeout_seconds
    MaxUploads   \* bound: how often the device starts an upload

ASSUME UploadAssumption == {Blocks, Stable, Timeout, MaxUploads} \subseteq Nat \ {0}

NoFile == -1
NoTime == -1

VARIABLES
    server,    \* the server thread
    file,      \* the size of the uploaded file
    open,      \* an upload is under way
    uploads,   \* uploads begun
    now,
    last,      \* last_size
    since,     \* stable_since
    \* history
    still,     \* how long the file has not changed, up to Stable
    paused     \* an unfinished file did not change for Stable

transfer == <<server, file, open, uploads, still>>
watch == <<now, last, since, paused>>

TransferInit ==
    /\ server = "down" /\ file = NoFile /\ open = FALSE /\ uploads = 0 /\ still = 0
    /\ now = 0 /\ last = -1 /\ since = NoTime /\ paused = FALSE
-----------------------------------------------------------------------------
(* The server and the device. *)

\* A write request for the allowed name: what an earlier upload left is removed.
\* Requests for other names are refused without effect.
Request ==
    /\ server = "up" /\ ~open
    /\ uploads < MaxUploads
    /\ file' = 0 /\ open' = TRUE /\ uploads' = uploads + 1 /\ still' = 0
    /\ UNCHANGED <<server, watch>>

\* Blocks reach the disk a buffer at a time.
Grow ==
    /\ open
    /\ file + 1 < Blocks
    /\ file' = file + 1 /\ still' = 0
    /\ UNCHANGED <<server, open, uploads, watch>>

\* The last block: the rest is written and the file closed.
Complete ==
    /\ open
    /\ file' = Blocks /\ open' = FALSE /\ still' = 0
    /\ UNCHANGED <<server, uploads, watch>>

\* The session times out and leaves what has arrived.
Abort ==
    /\ open
    /\ open' = FALSE
    /\ UNCHANGED <<server, file, uploads, still, watch>>

\* The thread ends with an error, by a request for a file that is still open too.
ServerFails ==
    /\ server = "up"
    /\ server' = "failed" /\ open' = FALSE
    /\ UNCHANGED <<file, uploads, still, watch>>

Device == Request \/ Grow \/ Complete \/ Abort \/ ServerFails
-----------------------------------------------------------------------------
(* wait_for_uploaded_file: the outcomes of one look at the file. *)

TickOverdue ==
    /\ now' = now + 1
    /\ UNCHANGED <<transfer, last, since, paused>>
\* The sleep between two looks.
Tick ==
    /\ now < Timeout
    /\ now' = now + 1
    /\ still' = IF still < Stable THEN still + 1 ELSE still
    /\ paused' = (paused \/ (still' = Stable /\ 0 < file /\ file < Blocks))
    /\ UNCHANGED <<server, file, open, uploads, last, since>>

Looks == now < Timeout /\ file # NoFile
SameAsLast == file > 0 /\ file = last

LookMovedKeepsTime ==
    /\ Looks /\ ~SameAsLast
    /\ last' = file
    /\ UNCHANGED <<transfer, now, since, paused>>
\* Another size: start over.
LookMoved ==
    /\ Looks /\ ~SameAsLast
    /\ last' = file /\ since' = NoTime
    /\ UNCHANGED <<transfer, now, paused>>

\* The same size again.
LookSame ==
    /\ Looks /\ SameAsLast
    /\ since = NoTime \/ now - since < Stable
    /\ since' = IF since = NoTime THEN now ELSE since
    /\ UNCHANGED <<transfer, now, last, paused>>

\* The same size for long enough: the file is taken.
Taken == Looks /\ SameAsLast /\ since # NoTime /\ now - since >= Stable

TimedOutNever == FALSE
TimedOut == now >= Timeout
=============================================================================
