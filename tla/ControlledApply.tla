---------------------------- MODULE ControlledApply ----------------------------
(***************************************************************************)
(* run_controlled_apply of controlled_apply.py, step by step, with the     *)
(* FFDB polling entrypoint.py installs: from the policy gates over         *)
(* verification, staging, backup and the restores to the saved status and  *)
(* the cleanup.  The device, the disk and the TFTP thread act beside it.   *)
(***************************************************************************)
EXTENDS Naturals, Sequences, FiniteSets, PackageResult

CONSTANTS
    Files,        \* the package files of the prepared manifest
    Kind,         \* Kind[f]: the kind the package map gave file f
    Safe,         \* files that are safe_for_deferred_apply
    Ffdb,         \* files the FFDB rule applies to
    Objects,      \* FortiGuard objects of the device
    Expected,     \* Expected[f]: the objects file f should change
    Position,     \* Position[f]: the place of f in the manifest
    PackageOrder, \* apply.package_order
    Configs,      \* configurations considered, see Config
    Versions,     \* object versions considered
    Effects,      \* Effects[f]: what restoring f may do to the objects' versions
    Outputs,      \* what a restore command may print
    MaxPolls,     \* FGOPS_FFDB_MAX_WAIT_SECONDS / FGOPS_FFDB_POLL_SECONDS
    NoFile

Kinds == {Kind[f] : f \in Files}
Config == [mode : {"prepare_only", "approval", "unattended"},
           approved : BOOLEAN,          \* --approve-manifest names this manifest
           enabled : SUBSET Kinds,
           requireBackup : BOOLEAN, preventDowngrade : BOOLEAN, stopOnFailure : BOOLEAN]
DeviceVersions == [Objects -> Versions]

ASSUME ApplyAssumption ==
    /\ Safe \subseteq Files /\ Ffdb \subseteq Files
    /\ Expected \in [Files -> SUBSET Objects]
    /\ Position \in [Files -> Nat]
    /\ DOMAIN PackageOrder \subseteq Nat
    /\ Configs \subseteq Config
    /\ Versions \subseteq Seq(Nat)
    /\ \A f \in Files : Effects[f] \subseteq DeviceVersions
    /\ Outputs \subseteq CommandOutput
    /\ MaxPolls \in Nat \ {0}
    /\ NoFile \notin Files

VARIABLES
    config,
    entry,      \* the archive's status in agent-state.json
    pc,
    prepared,   \* the package files of the work directory
    staged,     \* their copies in the TFTP run directory
    backup,     \* the backup file of the run directory
    store,      \* the backup file of the evidence directory
    server,     \* the TFTP server thread
    versions,   \* the versions on the device
    late,       \* the file the device is still parsing
    before,     \* the versions read last, before the restore under way
    todo,       \* packages not yet restored
    attempt,    \* the restore under way: file, output, polls
    results,    \* classified results
    overall,
    \* history
    baseline,   \* the versions of the preflight
    sent        \* the files the device was sent, and whether it said "no updates"

plan == <<before, todo, attempt, results, overall, baseline, sent>>
disk == <<prepared, staged, backup, store>>
world == <<server, versions, late>>
vars == <<config, entry, pc, plan, disk, world>>
-----------------------------------------------------------------------------
(* Selection of the packages. *)

Rank(f) ==
    IF \E i \in DOMAIN PackageOrder : PackageOrder[i] = Kind[f]
    THEN CHOOSE i \in DOMAIN PackageOrder : PackageOrder[i] = Kind[f]
    ELSE 999
Earlier(f, g) == Rank(f) < Rank(g) \/ (Rank(f) = Rank(g) /\ Position[f] < Position[g])

Selected == {f \in Files : Kind[f] \in config.enabled /\ f \in Safe}
Ambiguous == \E f, g \in Selected : f # g /\ Kind[f] = Kind[g]

PolicyAllows ==
    /\ config.mode # "prepare_only"
    /\ config.mode = "approval" => config.approved

Pcs == {"accept", "verify", "preflight", "stage", "check", "listen", "backup",
        "restore", "poll", "settle", "close", "keep", "postflight", "save", "cleanup", "done", "raised"}
NoOutput == [code |-> "none", fail |-> FALSE, noUpdates |-> FALSE, transferOk |-> FALSE]
NoAttempt == [file |-> NoFile, output |-> NoOutput, polls |-> 0]

Init ==
    /\ config \in Configs
    /\ entry \in {"ABSENT", "PREPARED", "APPLIED", "APPLY_FAILED", "REVIEW_REQUIRED",
                  "CONTENT_DUPLICATE"}
    /\ pc = "accept"
    /\ prepared = [f \in Files |-> "good"]
    /\ staged = [f \in Files |-> "none"]
    /\ backup = "none" /\ store = "none"
    /\ server = "down"
    /\ versions \in DeviceVersions
    /\ late = NoFile
    /\ before = versions /\ baseline = versions
    /\ todo = {} /\ attempt = NoAttempt
    /\ results = [f \in Files |-> "none"]
    /\ overall = "none"
    /\ sent = <<>>

Goto(from, to) == pc = from /\ pc' = to
-----------------------------------------------------------------------------
(* Before the device is touched. *)

AcceptAnyStatus ==
    /\ Goto("accept", "verify")
    /\ PolicyAllows
    /\ Selected # {} /\ ~Ambiguous
    /\ todo' = Selected
    /\ UNCHANGED <<config, entry, before, attempt, results, overall, baseline, sent, disk, world>>
\* Mode, approval, _select_archive, and the packages of the manifest.
Accept ==
    /\ Goto("accept", "verify")
    /\ PolicyAllows
    /\ entry = "PREPARED"
    /\ Selected # {} /\ ~Ambiguous
    /\ todo' = Selected
    /\ UNCHANGED <<config, entry, before, attempt, results, overall, baseline, sent, disk, world>>

\* SHA-256 of the prepared files.
Verify ==
    /\ Goto("verify", "preflight")
    /\ \A f \in Selected : prepared[f] = "good"
    /\ UNCHANGED <<config, entry, plan, disk, world>>

\* A preflight that passes; it reads the versions the first result is judged by.
Preflight ==
    /\ Goto("preflight", "stage")
    /\ before' = versions /\ baseline' = versions
    /\ UNCHANGED <<config, entry, todo, attempt, results, overall, sent, disk, world>>

\* stage_tftp_files: a fresh run directory; a copy may go bad.
Stage ==
    /\ Goto("stage", "check")
    /\ \E copied \in [Selected -> {"good", "bad"}] :
          /\ \A f \in Selected : prepared[f] = "bad" => copied[f] = "bad"
          /\ staged' = [f \in Files |-> IF f \in Selected THEN copied[f] ELSE "none"]
    /\ UNCHANGED <<config, entry, plan, prepared, backup, store, world>>

\* SHA-256 of the staged files; then the backup password must be set.
CheckStaged ==
    /\ Goto("check", "listen")
    /\ \A f \in Selected : staged[f] = "good"
    /\ UNCHANGED <<config, entry, plan, disk, world>>

\* start() finds the port free with a socket it closes again, and leaves the bind
\* to a thread; the SSH session is opened.
Listen ==
    /\ Goto("listen", "backup")
    /\ server' = "starting"
    /\ UNCHANGED <<config, entry, plan, disk, versions, late>>

\* The backup command was not refused, and wait_for_uploaded_file found a file that
\* had not grown for half a second: all of the configuration, or the part of it that
\* had arrived when the transfer stalled.
Backup ==
    /\ Goto("backup", "restore")
    /\ config.requireBackup => backup # "none"
    /\ UNCHANGED <<config, entry, plan, disk, world>>
-----------------------------------------------------------------------------
(* The restores. *)

\* Return code 49 of an FFDB package: the device goes on parsing.
Parsing(f, output) == f \in Ffdb /\ output.code = "49"

Takes(f) ==
    \E effect \in Effects[f] :
        versions' = [o \in Objects |-> IF o \in Expected[f] THEN effect[o] ELSE versions[o]]

\* The device fetches and takes the next package in order.  It prints an output,
\* having changed the package's objects as it likes.
Submit(f) ==
    /\ pc = "restore"
    /\ f \in todo
    /\ \A g \in todo \ {f} : Earlier(f, g)
    /\ todo' = todo \ {f}
    /\ \E output \in Outputs :
          /\ sent' = Append(sent, [file |-> f, noUpdates |-> output.noUpdates])
          /\ server # "up" => output.fail
          /\ attempt' = [file |-> f, output |-> output, polls |-> 0]
          /\ IF Parsing(f, output)
             THEN /\ pc' = "poll"
                  /\ late' = IF server = "up" THEN f ELSE late
                  /\ UNCHANGED versions
             ELSE /\ pc' = "settle"
                  /\ UNCHANGED late
                  /\ IF server = "up" THEN Takes(f) ELSE UNCHANGED versions
    /\ UNCHANGED <<config, entry, before, results, overall, baseline, disk, server>>

\* _wait_for_ffdb_version_change: read until both versions are there and one of
\* them differs, or until the time is up; the package is not sent again.  The
\* versions it compares with were read just before the package was sent.
Changed(f) ==
    /\ \A o \in Expected[f] : versions[o] # NoVersion
    /\ \E o \in Expected[f] : versions[o] # before[o]

PollAgain ==
    /\ pc = "poll"
    /\ ~Changed(attempt.file)
    /\ attempt.polls + 1 < MaxPolls
    /\ attempt' = [attempt EXCEPT !.polls = @ + 1]
    /\ UNCHANGED <<config, entry, pc, before, todo, results, overall, baseline, sent, disk, world>>

PollAndResubmit ==
    /\ pc = "poll"
    /\ Changed(attempt.file) \/ attempt.polls + 1 >= MaxPolls
    /\ IF Changed(attempt.file)
       THEN pc' = "settle" /\ UNCHANGED todo
       ELSE pc' = "restore" /\ todo' = todo \union {attempt.file}
    /\ UNCHANGED <<config, entry, before, attempt, results, overall, baseline, sent, disk, world>>
PollEnds ==
    /\ pc = "poll"
    /\ Changed(attempt.file) \/ attempt.polls + 1 >= MaxPolls
    /\ pc' = "settle"
    /\ UNCHANGED <<config, entry, plan, disk, world>>

\* Where the loop over the packages goes after a result.
AfterResult(status) ==
    IF (config.stopOnFailure /\ status \in Blocking) \/ todo = {} THEN "close" ELSE "restore"

\* After settle_seconds the versions are read and the result is classified.
Judge ==
    LET f == attempt.file
        status == Classify(Expected[f], before, versions, attempt.output,
                           config.preventDowngrade)
    IN
    /\ pc = "settle"
    /\ results' = [results EXCEPT ![f] = status]
    /\ before' = versions
    /\ attempt' = NoAttempt
    /\ pc' = AfterResult(status)
    /\ UNCHANGED <<config, entry, todo, overall, baseline, sent, disk, world>>

\* The with-blocks end; a TFTP thread that failed meanwhile, at the bind already or
\* later, raises here.
Close ==
    /\ Goto("close", "keep")
    /\ server # "failed"
    /\ server' = "down"
    /\ UNCHANGED <<config, entry, plan, disk, versions, late>>
-----------------------------------------------------------------------------
(* After the session. *)

KeepNothing ==
    /\ Goto("keep", "postflight")
    /\ UNCHANGED <<config, entry, plan, disk, world>>
\* What is in the run directory now is copied to the evidence directory and the copy
\* compared; the restores are behind it.
Keep ==
    /\ IF config.requireBackup
       THEN /\ backup # "none"
            /\ store' \in {backup, "bad"}
            /\ Goto("keep", IF store' = backup THEN "postflight" ELSE "raised")
       ELSE Goto("keep", "postflight") /\ UNCHANGED store
    /\ UNCHANGED <<config, entry, plan, prepared, staged, backup, world>>

\* The verdict, and the reports with it.
Postflight ==
    /\ Goto("postflight", "save")
    /\ \E status \in {"PASS", "FAILED_VALIDATION"} :
          overall' = OverallStatus({results[f] : f \in Files}, status)
    /\ UNCHANGED <<config, entry, before, todo, attempt, results, baseline, sent, disk, world>>

OverallAsStatus(result) == result
FinalStatus(result) == IF result = "FAILED" THEN "APPLY_FAILED" ELSE "APPLIED"
Save ==
    /\ entry' = FinalStatus(overall)
    /\ Goto("save", IF overall = "FAILED" THEN "done" ELSE "cleanup")
    /\ UNCHANGED <<config, plan, disk, world>>

\* The run directory goes, the backup file in it too.
Cleanup ==
    /\ Goto("cleanup", "done")
    /\ staged' = [f \in Files |-> "none"]
    /\ backup' = "none"
    /\ UNCHANGED <<config, entry, plan, prepared, store, world>>

\* A check that fails, an I/O or SSH error, a refused command, a timeout, a
\* blocked warning in an output, or the end of the process: nothing more is
\* done, and the with-blocks or the operating system close the server.
Raise ==
    /\ pc \notin {"done", "raised"}
    /\ pc' = "raised"
    /\ server' = "down"
    /\ backup' \in IF pc = "cleanup" THEN {backup, "none"} ELSE {backup}
    /\ UNCHANGED <<config, entry, plan, prepared, staged, store, versions, late>>
-----------------------------------------------------------------------------
(* Around the apply. *)

\* A prepared file or its staged copy goes bad on the disk.
Corrupt(f) ==
    /\ f \in Selected
    /\ \/ prepared[f] = "good" /\ prepared' = [prepared EXCEPT ![f] = "bad"] /\ UNCHANGED staged
       \/ staged[f] = "good" /\ staged' = [staged EXCEPT ![f] = "bad"] /\ UNCHANGED prepared
    /\ UNCHANGED <<config, entry, pc, plan, backup, store, world>>

\* _upload_open and the transfer behind it: the device uploads its configuration, stalls,
\* or begins again, for which what has arrived before is unlinked.
Upload ==
    /\ config.requireBackup /\ server = "up"
    /\ \/ backup' = "part"
       \/ backup # "none" /\ backup' = "none"
       \/ backup = "part" /\ backup' = "whole"
    /\ UNCHANGED <<config, entry, pc, plan, prepared, staged, store, world>>

\* The device is done parsing a package it returned code 49 for.
Parsed ==
    /\ late # NoFile
    /\ late' = NoFile
    /\ Takes(late)
    /\ UNCHANGED <<config, entry, pc, plan, disk, server>>

\* The server thread: it binds the port; the bind is refused, or the server ends with
\* another error later.
ServerBinds ==
    /\ server = "starting"
    /\ server' = "up"
    /\ UNCHANGED <<config, entry, pc, plan, disk, versions, late>>
ServerFails ==
    /\ server \in {"starting", "up"}
    /\ server' = "failed"
    /\ UNCHANGED <<config, entry, pc, plan, disk, versions, late>>

Next ==
    \/ Accept \/ Verify \/ Preflight \/ Stage \/ CheckStaged \/ Listen \/ Backup
    \/ \E f \in Files : Submit(f)
    \/ PollAgain \/ PollEnds \/ Judge \/ Close
    \/ Keep \/ Postflight \/ Save \/ Cleanup
    \/ Raise
    \/ \E f \in Files : Corrupt(f)
    \/ Upload \/ Parsed \/ ServerBinds \/ ServerFails

Spec == Init /\ [][Next]_vars
-----------------------------------------------------------------------------
(* Properties. *)

TypeOK ==
    /\ config \in Configs
    /\ entry \in {"ABSENT", "PREPARED", "APPLIED", "APPLY_FAILED", "REVIEW_REQUIRED",
                  "CONTENT_DUPLICATE"}
    /\ pc \in Pcs
    /\ prepared \in [Files -> {"good", "bad"}]
    /\ staged \in [Files -> {"none", "good", "bad"}]
    /\ backup \in {"none", "part", "whole"}
    /\ store \in {"none", "part", "whole", "bad"}
    /\ server \in {"down", "starting", "up", "failed"}
    /\ {versions, before, baseline} \subseteq DeviceVersions
    /\ late \in Files \union {NoFile}
    /\ todo \subseteq Files
    /\ attempt \in [file : Files \union {NoFile}, output : CommandOutput, polls : 0..MaxPolls]
    /\ results \in [Files -> PackageStatuses \union {"none"}]
    /\ overall \in {"none", "SUCCESS", "SUCCESS_WITH_WARNING", "FAILED"}
    /\ sent \in Seq([file : Files, noUpdates : BOOLEAN])

SentFiles == {sent[i].file : i \in DOMAIN sent}
AppliedHere == overall # "none" /\ entry = "APPLIED"

\* The last file the device uploaded is only given up for another upload, or once the
\* evidence directory has a copy that was compared: a failure anywhere from the backup
\* on, the end of the process included, leaves the operator what there was to go back
\* to (run_controlled_apply: the copy to the backup store, the rmtree that ends a
\* success).  Whether it is the whole configuration nobody checks.
LastBackupIsKept ==
    [][backup # "none" /\ backup' = "none" => server = "up" \/ store = backup]_vars

\* APPLIED is only saved when each selected package was sent and either moved an
\* expected object up or was a no-op: the device said "no updates", or it has
\* what it had before.  That a transfer was completed proves delivery only
\* (entrypoint.py's no-op rule; README.md's result table).
AppliedIsConfirmed ==
    AppliedHere =>
        /\ SentFiles = Selected
        /\ \A i \in DOMAIN sent :
              LET f == sent[i].file IN
              \/ /\ results[f] \in {"SUCCESS", "SUCCESS_WITH_WARNING"}
                 /\ \E o \in Expected[f] : Increased(o, baseline, before)
              \/ /\ results[f] = "SKIPPED_NO_UPDATE"
                 /\ \/ sent[i].noUpdates
                    \/ \A o \in Expected[f] : before[o] = baseline[o] /\ before[o] # NoVersion

\* Under prevent_downgrade no object of a restored package that is there before
\* and after is older when the archive is called APPLIED.
NoDowngradeApplied ==
    AppliedHere /\ config.preventDowngrade =>
        \A f \in Selected : \A o \in Expected[f] : ~Decreased(o, baseline, before)

\* Nothing is sent after a blocking result when stop_on_failure is set, and
\* nothing before or after the others' turn: each package once, in package_order
\* (entrypoint.py: the polling never submits another package).
SendsInOrderOnce ==
    [][sent' # sent =>
          LET f == sent'[Len(sent')].file IN
          /\ f \notin SentFiles
          /\ \A g \in SentFiles : Earlier(g, f)
          /\ config.stopOnFailure => \A g \in Files : results[g] \notin Blocking]_vars

Phase ==
    CASE pc = "accept" -> "apply"
      [] pc \in {"verify", "preflight", "stage", "check", "listen"} -> "selected"
      [] pc \in {"backup", "restore", "poll", "settle", "close"} ->
            IF sent = <<>> THEN "session" ELSE "restored"
      [] pc \in {"keep", "postflight"} -> "closed"
      [] pc = "save" -> "finish"
      [] OTHER -> pc
Contract == INSTANCE ApplyContract
              WITH phase <- Phase, status <- entry, touched <- sent # <<>>

\* The apply is the coarse apply of AgentLifecycle, step for step: the status is
\* read once at its start and written once at its end, the server runs from before
\* the first restore until after the last, and a failure anywhere keeps the status
\* and ends the server.
ImplementsApply == Contract!Spec
=============================================================================
