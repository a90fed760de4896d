------------------------------ MODULE Acquisition ------------------------------
(***************************************************************************)
(* How run_agent_once acquires an archive: the retried download into       *)
(* storage.incoming, the extraction into the archive's work directory      *)
(* under storage.quarantine, the manifest and the entry of the state file. *)
(* AgentLifecycle has all of this as one step; here it is the files that   *)
(* count, with several processes at work, processes that are killed and    *)
(* I/O errors.                                                             *)
(*                                                                         *)
(* The source offers one archive, whole or cut short; a file is its data,  *)
(* or torn.  A package is told apart by its file name without directories  *)
(* and case, as on disk.                                                   *)
(***************************************************************************)
EXTENDS Naturals, Sequences, FiniteSets

CONSTANTS
    Procs,
    Names, Data,      \* package files: names and contents
    Bundles,          \* what the archive may hold: members in the order of the ZIP
    Kind,             \* Kind[n]: the kind the package map gives name n
    Enabled,          \* execution.enabled_packages
    RejectUnknown,    \* execution.reject_unknown_packages
    Attempts,         \* source.retry_attempts
    MaxFaults         \* bound: processes killed and I/O errors

Members == [name : Names, data : Data]

ASSUME AcquisitionAssumption ==
    /\ Bundles \subseteq Seq(Members)
    /\ "none" \notin Data /\ "torn" \notin Data
    /\ {"UNKNOWN", "IGNORED"} \cap Enabled = {}
    /\ RejectUnknown \in BOOLEAN
    /\ Attempts \in Nat \ {0} /\ MaxFaults \in Nat

VARIABLES
    bundle,      \* the members of the offered archive
    file,        \* agent-state.json
    proc,
    part,        \* the processes whose .part file exists
    packages,    \* the files of work_dir/packages
    manifest,    \* work_dir/manifest.json
    faults,
    \* history
    installed,   \* the same payload was applied from another archive
    alone,       \* no two processes ever overlapped
    removed      \* a process removed the work directory of a duplicate

disk == <<part, packages, manifest>>
vars == <<bundle, file, proc, disk, faults, installed, alone, removed>>
-----------------------------------------------------------------------------
(* The state file and the processes. *)

\* The entry of the offered archive, and whether another one with the same payload
\* is APPLIED.  The state file is loaded and replaced whole.
StateFile == [status : {"ABSENT", "PREPARED", "CONTENT_DUPLICATE"}, other : BOOLEAN]
EmptyState == [status |-> "ABSENT", other |-> FALSE]

Pcs == {"idle", "page", "download", "stream", "check", "extract", "create", "copy", "classify",
        "manifest", "judge", "save", "unsaved", "rmtree", "failed"}

Process == [pc : Pcs, copy : StateFile, attempt : 1..Attempts,
            got : {"none", "short", "whole"},   \* the downloaded archive
            k : Nat]                            \* the member at hand

Idle == [pc |-> "idle", copy |-> EmptyState, attempt |-> 1, got |-> "none", k |-> 1]

At(p, pc) == proc[p].pc = pc
Become(p, r) == proc' = [proc EXCEPT ![p] = r]
Goto(p, pc) == Become(p, [proc[p] EXCEPT !.pc = pc])
Raise(p) == Become(p, [Idle EXCEPT !.pc = "failed", !.copy = proc[p].copy])
Member(p) == bundle[proc[p].k]
NextMember(p) == Become(p, [proc[p] EXCEPT !.pc = "extract", !.k = @ + 1])

Init ==
    /\ bundle \in Bundles
    /\ file = EmptyState
    /\ proc = [p \in Procs |-> Idle]
    /\ part = {}
    /\ packages = [n \in Names |-> "none"]
    /\ manifest = "none"
    /\ faults = 0
    /\ installed = FALSE /\ alone = TRUE /\ removed = FALSE

UnchangedButProc == UNCHANGED <<bundle, file, disk, faults, installed, alone, removed>>
-----------------------------------------------------------------------------
(* Fetch and download. *)

Start(p) ==
    /\ At(p, "idle")
    /\ Become(p, [Idle EXCEPT !.pc = "page", !.copy = file])
    /\ alone' = (alone /\ \A q \in Procs : At(q, "idle"))
    /\ UNCHANGED <<bundle, file, disk, faults, installed, removed>>

\* The page has exactly one matching link.
Discover(p) ==
    /\ At(p, "page")
    /\ Become(p, [proc[p] EXCEPT !.pc = "download", !.attempt = 1])
    /\ UnchangedButProc

RetryForever(p, pc) == Become(p, [proc[p] EXCEPT !.pc = pc, !.attempt = @ + 1])
\* _retry_source_operation: a transient error is retried, any other raises.
Retry(p, pc) ==
    IF proc[p].attempt < Attempts
    THEN Become(p, [proc[p] EXCEPT !.pc = pc, !.attempt = @ + 1])
    ELSE Raise(p)

DiscoverFails(p) ==
    /\ At(p, "page")
    /\ Retry(p, "page") \/ Raise(p)
    /\ UnchangedButProc

OpenPart(p) ==
    /\ At(p, "download")
    /\ p \notin part
    /\ part' = part \union {p}
    /\ Goto(p, "stream")
    /\ UNCHANGED <<bundle, file, packages, manifest, faults, installed, alone, removed>>

LeftoverKept(p) ==
    /\ At(p, "download")
    /\ p \in part
    /\ Raise(p)
    /\ UnchangedButProc
\* A killed process with the same pid left its .part file: opening fails, and the
\* file goes.
Leftover(p) ==
    /\ At(p, "download")
    /\ p \in part
    /\ part' = part \ {p}
    /\ Raise(p)
    /\ UNCHANGED <<bundle, file, packages, manifest, faults, installed, alone, removed>>

\* The response ends.  Nothing compares its length with Content-Length.
Complete(p, got) ==
    /\ At(p, "stream")
    /\ part' = part \ {p}
    /\ Become(p, [proc[p] EXCEPT !.pc = "check", !.attempt = 1, !.got = got])
    /\ UNCHANGED <<bundle, file, packages, manifest, faults, installed, alone, removed>>

\* The connection fails, or the response is empty or too large.
DownloadFails(p) ==
    /\ \/ At(p, "download") /\ UNCHANGED part
       \/ At(p, "stream") /\ part' = part \ {p}
    /\ Retry(p, "download") \/ Raise(p)
    /\ UNCHANGED <<bundle, file, packages, manifest, faults, installed, alone, removed>>
-----------------------------------------------------------------------------
(* Extract, describe, record. *)

Save(p, entry) ==
    /\ file' = entry
    /\ UNCHANGED <<bundle, disk, faults, installed, alone, removed>>

\* has_successful_archive: the state loaded before the download decides.
NoChange(p) ==
    /\ At(p, "check")
    /\ proc[p].got = "whole" /\ proc[p].copy.status # "ABSENT"
    /\ Become(p, Idle)
    /\ Save(p, proc[p].copy)

CheckHandledAgain(p) ==
    /\ At(p, "check")
    /\ IF proc[p].got = "whole"
       THEN Become(p, [proc[p] EXCEPT !.pc = "extract", !.got = "none"])
       ELSE Raise(p)
    /\ UnchangedButProc
\* An archive cut short is not a ZIP file.
Check(p) ==
    /\ At(p, "check")
    /\ proc[p].got = "whole" => proc[p].copy.status = "ABSENT"
    /\ IF proc[p].got = "whole"
       THEN Become(p, [proc[p] EXCEPT !.pc = "extract", !.got = "none"])
       ELSE Raise(p)
    /\ UnchangedButProc

Claimed(p) == \E j \in 1..(proc[p].k - 1) : bundle[j].name = Member(p).name

\* A member whose name an earlier member or an earlier file has: the same data passes.
Compare(p) ==
    /\ At(p, "extract")
    /\ proc[p].k <= Len(bundle)
    /\ Claimed(p) \/ packages[Member(p).name] # "none"
    /\ IF packages[Member(p).name] = Member(p).data THEN NextMember(p) ELSE Raise(p)
    /\ UnchangedButProc

Look(p) ==
    /\ At(p, "extract")
    /\ proc[p].k <= Len(bundle)
    /\ ~Claimed(p) /\ packages[Member(p).name] = "none"
    /\ Goto(p, "create")
    /\ UnchangedButProc

CreateOver(p) ==
    /\ At(p, "create")
    /\ packages' = [packages EXCEPT ![Member(p).name] = "torn"]
    /\ Goto(p, "copy")
    /\ UNCHANGED <<bundle, file, part, manifest, faults, installed, alone, removed>>
\* The file must still be absent; it is empty until its data is copied.
Create(p) ==
    /\ At(p, "create")
    /\ IF packages[Member(p).name] = "none"
       THEN packages' = [packages EXCEPT ![Member(p).name] = "torn"] /\ Goto(p, "copy")
       ELSE UNCHANGED packages /\ Raise(p)
    /\ UNCHANGED <<bundle, file, part, manifest, faults, installed, alone, removed>>

\* A file that was removed meanwhile does not come back.
Copied(p) ==
    /\ At(p, "copy")
    /\ packages' = [packages EXCEPT ![Member(p).name] =
                        IF @ = "none" THEN "none" ELSE Member(p).data]
    /\ NextMember(p)
    /\ UNCHANGED <<bundle, file, part, manifest, faults, installed, alone, removed>>

Extracted(p) ==
    /\ At(p, "extract")
    /\ proc[p].k > Len(bundle)
    /\ IF bundle = <<>>
       THEN Raise(p)
       ELSE Become(p, [proc[p] EXCEPT !.pc = "classify", !.k = 1])
    /\ UnchangedButProc

Extracts == {bundle[j].name : j \in 1..Len(bundle)}
Ambiguous == \E m, n \in Extracts : m # n /\ Kind[m] = Kind[n] /\ Kind[m] \in Enabled
Planned == {n \in Extracts : Kind[n] \in Enabled}

\* The packages are hashed and identified; manifest.json is truncated to be written.
Classify(p) ==
    /\ At(p, "classify")
    /\ IF Ambiguous \/ \E n \in Extracts : packages[n] = "none"
       THEN Raise(p) /\ UNCHANGED manifest
       ELSE Goto(p, "manifest") /\ manifest' = "torn"
    /\ UNCHANGED <<bundle, file, part, packages, faults, installed, alone, removed>>

Described(p) ==
    /\ At(p, "manifest")
    /\ manifest' = IF manifest = "none" THEN "none" ELSE "whole"
    /\ Goto(p, "judge")
    /\ UNCHANGED <<bundle, file, part, packages, faults, installed, alone, removed>>

\* The plan is written before the state is saved; nothing reads it.
JudgeNothing(p) ==
    /\ At(p, "judge")
    /\ Goto(p, "save")
    /\ UnchangedButProc
Judge(p) ==
    /\ At(p, "judge")
    /\ IF Planned = {} \/ (RejectUnknown /\ \E n \in Extracts : Kind[n] = "UNKNOWN")
       THEN Raise(p)
       ELSE Goto(p, "save")
    /\ UnchangedButProc

SavePrepared(p) ==
    /\ At(p, "save")
    /\ ~proc[p].copy.other
    /\ Become(p, Idle)
    /\ Save(p, [proc[p].copy EXCEPT !.status = "PREPARED"])

SaveDuplicate(p) ==
    /\ At(p, "save")
    /\ proc[p].copy.other
    /\ Become(p, [Idle EXCEPT !.pc = "rmtree"])
    /\ Save(p, [proc[p].copy EXCEPT !.status = "CONTENT_DUPLICATE"])

\* shutil.rmtree, a file at a time; its errors are ignored.
Remove(p) ==
    /\ At(p, "rmtree")
    /\ removed' = TRUE
    /\ \/ \E n \in Names : /\ packages[n] # "none"
                           /\ packages' = [packages EXCEPT ![n] = "none"]
                           /\ UNCHANGED manifest
       \/ manifest # "none" /\ manifest' = "none" /\ UNCHANGED packages
    /\ UNCHANGED <<bundle, file, proc, part, faults, installed, alone>>

Removed(p) ==
    /\ At(p, "rmtree")
    /\ Become(p, Idle)
    /\ UnchangedButProc

\* The exception handler saves the copy of the state.
Fail(p) ==
    /\ At(p, "failed")
    /\ Become(p, Idle)
    /\ Save(p, proc[p].copy)

\* When it was the save that failed the copy has the new entry already, and the
\* handler saves it; a duplicate keeps its work directory.
FailUnsaved(p) ==
    /\ At(p, "unsaved")
    /\ Become(p, Idle)
    /\ Save(p, [proc[p].copy EXCEPT !.status = IF proc[p].copy.other THEN "CONTENT_DUPLICATE"
                                                                   ELSE "PREPARED"])

Step(p) ==
    \/ Discover(p) \/ DiscoverFails(p)
    \/ OpenPart(p) \/ Leftover(p) \/ DownloadFails(p)
    \/ \E got \in {"short", "whole"} : Complete(p, got)
    \/ NoChange(p) \/ Check(p)
    \/ Compare(p) \/ Look(p) \/ Create(p) \/ Copied(p) \/ Extracted(p)
    \/ Classify(p) \/ Described(p) \/ Judge(p)
    \/ SavePrepared(p) \/ SaveDuplicate(p) \/ Remove(p) \/ Removed(p)
    \/ Fail(p) \/ FailUnsaved(p)
-----------------------------------------------------------------------------
(* Faults, and the rest of the host. *)

Fault(p) ==
    /\ faults < MaxFaults
    /\ ~At(p, "idle")
    /\ faults' = faults + 1
    /\ UNCHANGED <<bundle, file, packages, manifest, installed, alone, removed>>

\* Files stay as they are.
Kill(p) ==
    /\ Fault(p)
    /\ Become(p, Idle)
    /\ UNCHANGED part

\* An I/O error while the files are written: only the download cleans up.
IOError(p) ==
    /\ Fault(p)
    /\ proc[p].pc \in {"stream", "check", "extract", "create", "copy", "classify", "manifest",
                       "judge"}
    /\ Raise(p)
    /\ part' = part \ {p}

SaveFails(p) ==
    /\ Fault(p)
    /\ At(p, "save")
    /\ Goto(p, "unsaved")
    /\ UNCHANGED part

\* Another process applies an archive with the same payload.
Install ==
    /\ ~installed
    /\ installed' = TRUE
    /\ file' = [file EXCEPT !.other = TRUE]
    /\ UNCHANGED <<bundle, proc, disk, faults, alone, removed>>

Next ==
    \/ Install
    \/ \E p \in Procs : Start(p) \/ Step(p) \/ Kill(p) \/ IOError(p) \/ SaveFails(p)

Spec == Init /\ [][Next]_vars

\* The scheduler starts a run again and again, a process goes on until it ends, and
\* the source does not fail for ever.
Fairness ==
    /\ WF_vars(\E p \in Procs : Start(p))
    /\ \A p \in Procs :
        /\ WF_vars(Step(p) /\ proc' # proc)
        /\ SF_vars(Discover(p))
        /\ SF_vars(OpenPart(p) \/ Leftover(p))
        /\ SF_vars(Complete(p, "whole"))

FairSpec == Spec /\ Fairness
-----------------------------------------------------------------------------
(* Properties. *)

TypeOK ==
    /\ bundle \in Bundles
    /\ file \in StateFile
    /\ proc \in [Procs -> Process]
    /\ part \subseteq Procs
    /\ packages \in [Names -> Data \union {"none", "torn"}]
    /\ manifest \in {"none", "torn", "whole"}
    /\ faults \in 0..MaxFaults
    /\ installed \in BOOLEAN /\ alone \in BOOLEAN /\ removed \in BOOLEAN

\* What an archive must be to be prepared.
Acceptable(b) ==
    /\ b # <<>>
    /\ \A i, j \in 1..Len(b) : b[i].name = b[j].name => b[i].data = b[j].data
    /\ \A i, j \in 1..Len(b) :
           b[i].name # b[j].name /\ Kind[b[i].name] \in Enabled
               => Kind[b[i].name] # Kind[b[j].name]
    /\ \E i \in 1..Len(b) : Kind[b[i].name] \in Enabled
    /\ RejectUnknown => \A i \in 1..Len(b) : Kind[b[i].name] # "UNKNOWN"

IsWhole == \A i \in 1..Len(bundle) : packages[bundle[i].name] = bundle[i].data

\* A PREPARED archive is acceptable and has its packages whole in its work
\* directory: processes that are killed, that fail half way or that extract the
\* same archive at the same time do not break it, only a process that at the same
\* time takes the archive for a duplicate does.  The manifest is whole too as long
\* as no two processes overlap (safe_extract_packages, build_manifest,
\* run_agent_once).
PreparedIsWhole ==
    file.status = "PREPARED" =>
        /\ Acceptable(bundle)
        /\ alone \/ ~removed => IsWhole
        /\ alone => manifest = "whole"

\* A package that is whole stays as it is until its directory is removed, so a
\* later run never disturbs an apply that reads the packages (the exclusive
\* creation in safe_extract_packages).
WholeStays ==
    [][\A i \in 1..Len(bundle) :
           packages[bundle[i].name] = bundle[i].data =>
               packages'[bundle[i].name] \in {bundle[i].data, "none"}]_vars

\* A torn package that nobody is copying.
Stuck == \E n \in Names : /\ packages[n] = "torn"
                          /\ \A p \in Procs : At(p, "copy") => Member(p).name # n

\* An acceptable archive that the source keeps offering is handled in the end,
\* whatever is killed or fails on the way: a leftover .part file or a torn manifest
\* costs one run at most, and only a torn package stays in the way
\* (download_bundle, safe_extract_packages).
Acquired ==
    Acceptable(bundle) /\ file.status = "ABSENT" ~> file.status # "ABSENT" \/ Stuck
-----------------------------------------------------------------------------
(* The acquisition as the rest of the agent sees it. *)

Running == {p \in Procs : proc[p].pc \notin {"idle", "rmtree"}}
Copies == [p \in Procs |-> IF p \in Running THEN proc[p].copy ELSE EmptyState]
Monitor ==
    INSTANCE MonitorContract WITH usable <- Acceptable(bundle), running <- Running, copy <- Copies

\* Whatever the retries, the extraction and the other processes do on the way, a run of
\* run_agent_once ends in one step on the state file, of which AgentLifecycle makes one
\* action: it saves the copy it loaded when it started, with an entry only for an
\* archive that was acceptable and not in that copy, and with that entry also when the
\* first save fails and the exception handler saves again.
ImplementsMonitor == Monitor!Spec
=============================================================================
