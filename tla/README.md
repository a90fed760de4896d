# FGOps in TLA+

A verification project for the FortiGate Offline Update Orchestrator (`fgops`,
Python, `src/src/fgops`). It models the parts of the program that decide *whether,
when and how often a firewall is changed*: the lifecycle of update archives in the
local state file, how an archive gets there, the controlled apply, the backup test, the
approval of an update through GitHub issue comments, and what the operator is told
afterwards. TLC checks small instances; TLAPS proves every safety property of the passing
runs, the three refinements among them, for every value of the constants.

Contents: [inventory](#the-system), [modules](#modules), [runs](#runs),
[bounds](#bounds-and-why-they-are-enough), [fairness](#fairness),
[proofs](#proofs), [disagreements](#where-code-and-documents-disagree),
[not modelled](#not-modelled), [plan](#plan).

## The system

Paths are under `src/src/fgops/` unless they say otherwise.

| Component | State | Operations | Model |
|---|---|---|---|
| Agent state file: `agent_state.py` | `agent-state.json`: one entry per archive SHA-256 (status, manifest, payload hash, notification) | load whole, save whole (atomic replace, no lock) | `AgentLifecycle` |
| Monitor: `agent_orchestrator.py` | none beside the file; quarantine directory | fetch, download, compare, prepare, mark duplicate, resume | `AgentLifecycle`, `MonitorContract` |
| Cycle and approve: `cycle.py` | notification fields of the entries | monitor, notify, retry a notice, apply, mark for review | `AgentLifecycle` |
| Controlled apply: `controlled_apply.py` | TFTP run directory, evidence, entry status | gates, hashes, preflight, staging, backup, restores, postflight, save, cleanup | `ControlledApply` |
| Runtime guards: `entrypoint.py` | none | FFDB polling after return code 49, no-op rule | `ControlledApply`, `PackageResult` |
| TFTP service: `tftp_service.py` | server thread, UDP/69, uploaded file | start, stop, serve, stage, wait for upload | `ControlledApply` (thread), `TftpUpload` (upload) |
| Approval record: `approval_state.py`, `durations.py` | signed record in an issue body | apply command, reconcile a history, watchdog | `ApprovalRecord` |
| Approval workflows: `.github/workflows/approval-*.yml`, `cli.py` | the issues and their comments | list, fetch, reconcile, persist, watch | `ApprovalWorkflows` |
| Policy: `approval.py` | none | parse command, load and evaluate a policy | command set only |
| Preflight: `fortigate_preflight.py`, `fortios.py` | evidence files | pinned SSH, read-only commands, validation | one step of `ControlledApply` |
| Backup test: `backup_test.py` | evidence directory, TFTP directory | preflight, backup, wait, copy, verify, report | `BackupTest` |
| Source: `source_monitor.py`, `downloader.py`, `tls.py` | download with a temporary file | discover link, download with retries | `Acquisition` |
| Inventory: `inventory.py`, `models.py` | extracted bundle, manifest | extract, classify, hash | `Acquisition` |
| Configuration: `agent_config.py`, `runtime_policy.py` | none | parse, validate | constants only |
| Secrets: `secret_store.py` | encrypted secret file | set, get, delete | a failure of the apply |
| Notifications: `notifications.py` | none | send | sent / failed / disabled |
| Operator journal: `operator_entrypoint.py`, `operator_logging.py`, `agent_cli.py` | rows of a run's checklist, exit code, final line | load, work, record the result, finish | `OperatorJournal` |
| Daily log: `daily_logging.py` | log files | rotate, expire | not modelled |
| Health report: `scripts/health_report.py` | none | read state, journal, reports and device | `HealthReport` |

How they interact. A Windows scheduled task starts `fgops-agent cycle` every few
hours; an operator starts `run`, `approve`, `apply` and the tests by hand, at any
time. All of them are processes that share the state file, the quarantine and
UDP/69 and nothing else: there is no lock, a process works on the copy it loaded and
replaces the file with it later. UDP/69 is no lock either: `start()` probes the port with a
socket it closes, the bind happens in a thread, and one that fails after 0.35 s shows only in
`stop()`, so two sessions may run at the same time. `cycle` calls the monitor and, in unattended mode,
the controlled apply; `approve` and `apply` call the controlled apply. The apply opens
an SSH session to the device, which fetches packages from a TFTP server thread inside
the process. Approval through GitHub is separate: comments are a queue, two workflows
consume it under one concurrency group, and the signed record in the issue body is
the only state. It authorises nothing on the device by itself.

What is hard about it:

- whole-file saves of stale copies by concurrent processes (an archive may go from
  APPLIED back to PREPARED);
- crashes and exceptions between the first restore command and the save that records
  it: an archive left PREPARED is taken up again by the next unattended cycle;
- a device that answers a restore late (return code 49), changes some objects up and
  some down, or says it failed and changed them all the same;
- a server thread that binds late, or not at all because another process has the port, or dies
  while the session goes on;
- an upload whose end nobody announces: it counts as complete when its size rests;
- downloads that end early, files a killed run left behind, two runs that extract into
  the same directory;
- workflow runs that are dropped, late, or fail between computing and writing;
- decisions from times recorded by runs that come late.

`PROJECT.json` lists each hazard at its line with the properties that watch it.

What makes each component correct: the *lifecycle* never claims an update that was not
confirmed, never touches the device without preparation and consent, never forgets or
repeats what it began there, and in the end deals with what is offered; the *apply*
sends each package once and in order, keeps the last backup the device uploaded and calls only
confirmed results APPLIED; the *approval* is due to an approver's command
that was valid when it was given, is final when closed, acts once per comment, and
ends; the *acquisition* calls nothing prepared that is not whole and gets there in the
end; a *backup test* that passes left a backup; the *journal* and the *health report* tell
the operator nothing better than what happened.

## Modules

**`AgentLifecycle`** - the state file and the processes. Each process is a record: its
program counter, its command, the archive it works on, *its copy of the state file*
(set where the code calls `load_state`, written back where it calls `save_state`), the
message it is to send and where the notification returns. Every load and save is a step.

| Actions | Code |
|---|---|
| `StartMonitor`, `MonitorFail`, `MonitorResume`, `MonitorNoChange`, `MonitorDuplicate`, `MonitorPrepare` | `run_agent_once`, one action per exit |
| `RetryNotice`, `Notify`, `Record` | `_retry_pending_prepared_notification`, `_send_notification`, `_record_notification` |
| `StartApprove`, `StartApply` | `approve_manifest`, `fgops-agent apply` |
| `Select`, `OpenSession`, `Restore`, `Close`, `Conclude`, `Finish`, `Cleanup` | the controlled apply, coarse |
| `ApplyRaise`, `Review`, `Mark` | the exception handlers of `run_cycle` and `approve_manifest` (the bare `apply` has none) |
| `Bind`, `ServerFails` | the TFTP server thread of a process: one of them can hold the port, and a refused bind is noticed by `OpenSession` or by `Close` |
| `Kill` | the task's time limit, a reboot, Ctrl-C |
| `Publish` | the source page links another archive (external) |

Four history variables (`prepared`, `approved`, `touched`, `applied`) record what
happened, for the properties; no guard reads them.

**`ArchiveLifecycle`** - the abstract lifecycle of one archive after another, without
processes, copies and notifications. `AgentLifecycle` implements it while one process
runs at a time (`ImplementsLifecycle`). It says more than the types: an archive is
prepared once, touched only while PREPARED, becomes APPLIED or APPLY_FAILED only after
its restore began, and a duplicate is backed by a confirmed archive. It has one step
`docs/architecture.md` does not draw, from APPLIED to REVIEW_REQUIRED: `rmtree` of the
run directory may fail after the save (`controlled_apply.py:548`), and a second
`approve` of an applied manifest raises and its handler marks it.

**`ControlledApply`** - `run_controlled_apply` statement group by statement group, with
the device, the disk and the TFTP thread acting beside it: prepared files and staged copies
go bad at any time, the thread binds late, never or dies, the device uploads its
configuration, stalls and begins anew, and finishes parsing an FFDB package late. `Raise` stands
for every exception and for the end of the process.

**`PackageResult`** - operators for version tuples, `classify_package_result`, the no-op
rule of `entrypoint.py` and `_overall_status`. Versions are sequences of numbers; the
command output is reduced to what the classifiers search it for.

**`ApplyContract`** - one apply as the lifecycle sees it, the same steps
`AgentLifecycle` gives an applying process. `ControlledApply` implements it
(`ImplementsApply`), which is what justifies the coarse steps of `AgentLifecycle`.

**`ApprovalRecord`** - the record as a value and functions on it: `Accepted` and
`Effect` are `apply_command`, `Marked` is `_mark_processed`, `Reconciled` is the loop of
`reconcile_comments` written as a recursive function, `Watched` is
`evaluate_watchdog`. Times are numbers. The signature is not modelled: a record that
does not verify ends the run, which is `RunFails`.

**`ApprovalWorkflows`** - clock, comments, issues, one workflow run with its steps
(list, fetch, reconcile, persist, watch, persist, post), the one waiting run GitHub keeps
in a concurrency group, failures. The watchdog goes through the newest `ListLimit` issues
one after another under `set -e`: a failure ends the loop and leaves the issues behind it
for the next hour.

**`TftpUpload`** - the size of the uploaded file against `wait_for_uploaded_file`: the
device requests, writes, completes, gives up or begins anew at any pace, the waiting looks
(`LookMoved`, `LookSame`), sleeps (`Tick`), takes the file or times out. **`BackupTest`** -
`run_backup_test` around it: the check for an earlier backup, the reserved name, the
server, the command, the wait, the copy, its verification, the report, and `Raise` with the
`with`-blocks and `finally` it runs through.

**`Acquisition`** - the part of `run_agent_once` that `AgentLifecycle` takes as one step,
with the files it works on: `Start`, `Discover` and the retries, `OpenPart`/`Leftover` (the
temporary name ends in the process id), `Complete` with a whole or a short response,
`Check`, the extraction member by member (`Compare`, `Look`, `Create`, `Copied`),
`Classify`, `Described`, `Judge`, `SavePrepared` or `SaveDuplicate` and `Remove`. A file is
absent, its data, or torn. `Kill` and `IOError` strike at any of these steps, `SaveFails` at the
save, after which the handler saves the copy that has the new entry already
(`FailUnsaved`); `Install` is what an apply elsewhere changes in the state file.

**`MonitorContract`** - one `run_agent_once` as `AgentLifecycle` takes it: a run loads the
state file, and when it ends it replaces the file once, with the copy it loaded and at most
one entry more. `Acquisition` implements it (`ImplementsMonitor`), with any number of
processes at work and whatever fails: retries, leftovers and half-written packages do not
show in the state file. A run counts as over from its save, so removing the directory of a
duplicate happens beside it.

**`OperatorJournal`** - one run of any of the twelve commands and its checklist.
`operator_entrypoint.main` replaces two functions of `agent_cli`, the one that loads the
configuration and the one that emits the result; only there are rows written. So the
module has three parts: the rows that follow the process (`Start` to `SetupFails`), the
work no row is written of (`Monitor` to `Verify`, with `Raise` wherever it may raise), and
`RecordResult`, which fills in all rows from what was returned, with `Emit` and `Finish`
behind it. `did` and `failed` record the work for the properties and determine what the
commands return. `Kill` also stands for Ctrl-C, which no handler catches. The work is
as coarse as the rows; `ControlledApply` has its detail. Beside the rows a run leaves what
the state file says of the last run and of the archive the source offers (`offered`), the
newest apply report and the lines of the latest cycle; `Pasts` are the records it may find of
earlier runs, archives that are prepared, in review or whose apply failed among them.

**`HealthReport`** - the twenty checks of `health_report.py` and the overall result, as
operators on those records and on a `Machine` (checkout, configuration, task, disk, device
and its object versions). The script only reads, so it has no actions: its properties ask
what it would say in every state a run leaves.

`MCAgentLifecycle`, `MCControlledApply`, `MCApprovalWorkflows`, `MCAcquisition` give the
constants their values, and hold the liveness properties of the lifecycle and the statements
of documents that the code does not keep. The refinement mappings stand at the end of
`AgentLifecycle`, `ControlledApply` and `Acquisition`. The modules ending in `_proofs`, and `NaturalSets`,
hold the theorems.

A few definitions come in two forms, of which the first is not used by the
specification (`HandledOnlySuccess` beside `Handled`): a slip a programmer could make.
`PROJECT.json` pairs each property with such a form under which the property fails, so
each property is known to be able to fail.

## Runs

| Run | Asks | Result |
|---|---|---|
| `lifecycle_concurrent` | two processes, any interleaving of loads, saves and sessions, one kill: `ClaimsAreBacked`, `ConsentBeforeRestore`, `UnsettledByStaleSaveOnly` | hold, 4.6M states |
| `lifecycle_serial` | one process at a time, all modes, kills: `TouchedIsSettled`, `NoUnattendedReplay`, `ImplementsLifecycle`, and of a scheduled cycle `OfferedIsSettled`, `NoticeIsDelivered` | hold, 91 000 states |
| `acquire` | two processes on one archive, short responses, one kill, I/O error or failed save: `PreparedIsWhole`, `WholeStays`, `Acquired`, `ImplementsMonitor` | hold, 0.2M states |
| `apply` | the apply against device, disk and thread: `AppliedIsConfirmed`, `NoDowngradeApplied`, `LastBackupIsKept`, `SendsInOrderOnce`, `ImplementsApply` | hold, 2.5M states |
| `backup` | the backup test against a device that uploads as it likes: `PassIsBacked`, `TestEnds` | hold, 42 000 states |
| `approval` | two issues, commands, time, repeated reminders, dropped and failing runs: `GrantIsBacked`, `ClosedStaysClosed`, `ActsOnce`, `RemindersAreFew`, `CommandsAreProcessed`, `ApprovalIsDecided` | hold, 2.2M states |
| `journal` | every command, every outcome, every record of an earlier run, an exception or a kill anywhere: `GreenIsEarned`, `GreenRowsAreTrue`, `FinishedIsSettled`, `NothingToDoIsTrue`, and of the health report `HealthyIsEarned`, `QuietIsHealthy` | hold, 0.3M states |
| `lifecycle_replay` | the same `NoUnattendedReplay` when an operator uses the bare `apply` | violated |
| `apply_missing_object` | does a missing expected object block? | violated |
| `approval_overflow` | is every command processed, one with an endless duration too? | violated |
| `journal_verification` | was a verification that is shown as completed successful? | violated |
| `journal_skipped` | was a device row that is shown as skipped never begun? | violated |

What the passing lifecycle runs do and do not say. `NoUnattendedReplay` and `TouchedIsSettled`
speak of behaviours in which nobody was killed, and in `lifecycle_serial` nobody uses the bare
`apply`: with either they fail (`lifecycle_replay` shows the command; a kill during the restores
does the same). With two processes at a time they fail as well, by a stale save that sets an
entry back to PREPARED; that nothing but a stale save does so is `UnsettledByStaleSaveOnly`.
What survives all of that is checked in `lifecycle_concurrent` and proved.
`ImplementsLifecycle` needs one process at a time and nothing else; run and proof cover kills,
the proof the bare command too. That two processes are never in a session at the same time is no
property of the code and none here.

Exceptions that the other properties name, because the code has them:

- `PassIsBacked`: a PASS is worth nothing if the upload paused for the stability interval
  or began anew, because the size of a file is all the code sees.
- `PreparedIsWhole`: an overlapping run that takes the archive for a duplicate removes its
  directory; and only without overlap is the manifest known to be whole.
- `Acquired`: a torn package left by a killed extraction stops every later run (the names
  are created exclusively and compared); everything else is made up for.
- `AppliedIsConfirmed`: it judges by the versions the device reports. Staged copies are hashed
  once and fetched minutes later, so what was sent may have gone bad since, and a backup the apply
  waited for may be the part of the configuration that had arrived when the transfer stalled.
- `RemindersAreFew`: the end of a snooze is announced whatever was sent within the hour, and leaves
  no trace in `last_reminded_at` (`approval_state.py:717-728`), so one reminder for each snooze is
  granted beside those of the marks and repeat intervals.
- `NothingToDoIsTrue`: a manifest that an earlier run prepared gives NO_CHANGE
  (`agent_orchestrator.py:253`) and, in the `approval` and `prepare_only` modes, the advice "nothing
  to do" while it waits; the property says so of an unattended cycle only, which takes it up. The
  advice of `approve` or an unattended cycle may also be "nothing to do" although the notice
  failed, since the status of the packages replaces `SUCCESS_WITH_NOTIFICATION_ERROR`.
- the journal: a verification row says only what the packages said (`journal_verification`), and the
  device rows of an unattended apply that raised are marked as skipped whatever it did before
  (`journal_skipped`).
- `HealthyIsEarned`: the report looks at the latest cycle and the newest apply report, so an
  apply that was killed before it wrote one leaves no trace in it (`Unrecorded`).

The runs of `ControlledApply`, `BackupTest`, `OperatorJournal` and `HealthReport` disable
the deadlock check, because an apply, a test and a run end. All other runs keep it.

## Bounds and why they are enough

- `Archives`: two. `a1` carries two packages, `a2` one of them: `a2` is a duplicate once `a1` is
  applied, and `a1` is none once `a2` is. Longer chains of duplicates are left to the proofs.
- `Procs`: two in `lifecycle_concurrent`. The processes are symmetric apart from their
  commands, and a lost update takes two.
- `MaxKills`: one kill in `lifecycle_concurrent`, two in `lifecycle_serial`; a kill resets its process
  to idle, so a further one meets a state file the first could have left.
- `ControlledApply`: two packages that are applied, of two objects each, a third that
  is not safe and two of one kind that are ambiguous. A restore leaves a version, writes
  it with a trailing zero, raises, lowers or loses it. Two polls (`MaxPolls`).
- `ApprovalWorkflows`: two issues, the fewest with an order in the watchdog's list, and two
  comments, since each property is about the effect of a command on a record that another
  one has left; records made at 1 that expire at 4, which is the horizon, so that commands come
  before and at the expiry and runs handle them later. The first reminder is due at 2 and repeated
  after every unit of time (`RepeatEvery`), once more before the expiry, as the watchdog's 24 hours
  are within the life of a record. One failing run (`MaxFailures`). The menu has the commands that
  meet: a cancellation, a snooze and a schedule by the approver of one issue, and an attempt by a
  member on the other. GitHub's limits are 100 issues and any number of comments; the proofs need
  no bound, and no policy of reminders.
- `BackupTest`: a file of four blocks, a stability interval of three looks and a timeout of
  eight, so that an upload can rest for less, exactly and more than the interval, and can
  still grow when the time is up; two uploads, the second of which truncates the first.
- `Acquisition`: two processes, two attempts each, one fault (a failed save is one); five archives: an ignored
  package and a repeated member, two members in conflict, an enabled kind twice, an unknown
  package, no package. A longer archive repeats these members.
- `OperatorJournal` and `HealthReport`: all commands and modes, and any number of packages, since
  the code asks only which statuses occur among them. Of the archives, the one the source offers;
  what earlier runs left is one of `Pasts`.

## Fairness

- `lifecycle_serial`: strong fairness of starting the cycle (the task is repeated for ten years,
  and an operator's commands run in between) and weak fairness of the steps of a running process,
  which has timeouts at every network call; strong fairness of a cycle's monitor that succeeds and
  of its notice that is sent, which says that the source and Telegram work again and again. No
  fairness for any outcome of an apply: failing for ever is settled, too. Kills are finitely many:
  an agent killed in every cycle does no work.
- `approval` and `approval_overflow`: time passes up to the horizon, the hourly watchdog
  starts again and again (strong, since another run may hold the concurrency group),
  and a run goes on. No fairness for the runs a comment triggers: they may all be
  dropped.
- `backup`: weak fairness of the passing of time while the waiting goes on, of its taking or
  giving up, and of the statements of the test; none for the device or the server.
- `acquire`: weak fairness of some process starting (the scheduled task) and of the steps of
  a running one; strong fairness of finding the link, of opening the temporary file and of a
  response that is whole, which says that the source works again and again.

Everything else is checked without fairness.

## Proofs

All theorems hold for every value of the constants that the named assumptions allow; no
bound of the runs is used. Each listed theorem names the property of a run.

**`AgentLifecycle_proofs`**, from `ConstantsAssumption`, for any archives, packages,
processes, commands and modes and any number of kills:

- `TypeCorrect`.
- `ClaimsAlwaysBacked`. The property is not inductive: a process may save a copy it loaded
  long ago. The invariant says of *every* copy in a process what the property says of the
  file (`FileOK`), and `FileOK` only grows with the history sets (`FileMonotonic`), so a
  stale copy stays good. A step then either takes its copy from the file, or saves its own,
  with one entry changed.
- `UnsettledOnlyByStaleSave`: a step that changes the file saves the copy of the process that takes
  it (`SavesCopy`), and leaves a settled archive of that copy settled (`SaveLeaves`).
- `ConsentAlwaysFirst`. The invariant follows a process from its start to the restore: past
  `Select` its archive was prepared, and in approval mode its command named it in an
  approval.
- `SerialLifecycle`: if `Serial`, then `ImplementsLifecycle`. The invariant (`SerialInv`) says
  that all processes but one are idle, that the copy about to be saved *is* the file, that an
  archive in an apply is PREPARED, and that whoever will mark an archive for review has a
  manifest for it. Then each step is one of `ArchiveLifecycle` or changes no status.
- `TouchedAlwaysSettled` and `NeverReplayed`, under `Attended`: serial and no bare `apply`; both say
  something as long as nobody was killed. `AttendedInv` adds that an apply has a caller which handles its exceptions and that
  the only touched and unsettled archive is the one the running process watches;
  `SettledStays` gets the rest from the refinement.

**`ControlledApply_proofs`**, from `ApplyAssumption` and, first in the module, the facts
about the operators of `PackageResult` (no version comes before itself, what a result of
SUCCESS implies):

- `TypeCorrect`, `LastBackupAlwaysKept`, `AlwaysSendsInOrderOnce`. `IInv` ties each program counter
  to what is staged, backed up and sent by then.
- `AlwaysImplementsApply`: the step simulation of `ApplyContract`, one case per action.
- `AppliedAlwaysConfirmed` and `NoDowngradeEverApplied`, under `ObjectsApart`: no object is
  expected of two kinds of package, as in `config/fortios64-package-map.yml`. Without it a
  later package could undo what an earlier one was confirmed for. `CInv` says that what a
  package was judged on is what the device still has.

**`ApprovalWorkflows_proofs`**, from the assumptions of both approval modules: `TypeCorrect`,
`GrantAlwaysBacked`, `RemindersAlwaysFew`, `ClosedAlwaysStaysClosed`, `ActsAlwaysOnce`. The
invariant speaks of each stored record and of the one a run has in hand: it is `Sound` (an
approval rests on a command in the issue), may follow the stored one (`Follows`), and the
reminders posted are `Paid` by marks, snoozes and the repeat intervals that fit in
before the clock (`RepeatsFit`; for the step that repeats one, `FactorIsNoLess`). `ApprovalRecord_proofs` shows that each round
of the reconciliation keeps these, and carries that over a comment history of any length. The
library's induction theorem is out of the prover's reach, so the induction is spelled out as
a least counterexample, whose existence `NaturalSets` proves.

**`BackupTest_proofs`**, from `UploadAssumption`: `TypeCorrect` and `PassAlwaysBacked` (the size seen
at the last look, and the time since, bound what the device can have done in between).

**`Acquisition_proofs`**, from `AcquisitionAssumption`: `TypeCorrect`, `PreparedAlwaysWhole`,
`WholeAlwaysStays`. Each member a process has passed repeats the first member of its name
(`SeenBy`), so processes on the same archive only ever write the same data (`Stored`); until
somebody removes files, those members are whole (`KeptFor`); and processes that never overlap
work on the state the file has (`AlignedWith`).
`AlwaysImplementsMonitor`: every step of a process stays within its run and leaves file and copy
alone (`InnerSteps`), or is its start, its one save (`Stops`) or its death; that an added entry is
of an acceptable archive comes from the invariant (`JudgedIsAcceptable`).

**`OperatorJournal_proofs`**, from `CommandsAssumption`, for any of the commands and any modes:
`TypeCorrect`, `GreenAlwaysEarned`, `GreenRowsAlwaysTrue`, `FinishedAlwaysSettled`,
`NothingToDoAlwaysTrue`, and of the health report `HealthyAlwaysEarned`
and `QuietAlwaysHealthy`. None of these is inductive, since the rows are written at two moments
and the work is done in between. `IInv` says

- which command is at which step (`Where`), and that only the rows of the start are marked until
  there is a result (`Unread`);
- what was begun before what, whoever raised (`InOrder`), and, as long as no exception ended the
  work, why a part of it failed (`FailuresTold`);
- what the entry, the apply report and the cycle's lines on disk say about that work (`Records`);
- what rows, final line and exit code are worth once there is a result (`Reported`).

The central step is `RecordResult`: every marking it makes follows from `did`, `failed` and the
statuses returned (`RecordedRowsTrue`, `GreenResult`, `NothingToDoResult`). `Emit` and `Finish`
keep that, as marking the unfinished rows changes none that was written (`ResultLasts`,
`FailFirstFacts`). For the health report, a machine on which every check passes gives a report
and a cycle that are as they look (`HealthyRecords`, `SoundApply`, `SoundChecks`).

Only model-checked: liveness (`OfferedIsSettled`, `NoticeIsDelivered`, `Acquired`, `TestEnds`,
`CommandsAreProcessed`, `ApprovalIsDecided`), which needs fairness and `ENABLED`.

## Where code and documents disagree

1. `lifecycle_replay`: the bare `apply` command has no handler for an exception after the
   first restore, the entry stays PREPARED, and the next unattended cycle restores
   it again, which `agent_state.py` says must never happen.
2. `apply_missing_object`: a missing expected object is no failure when another
   object of the package increased.
3. `approval_overflow`: a snooze beyond the range of a duration raises an exception the
   reconciliation does not catch; the comment, all later ones of its issue and the issues
   behind it on the watchdog's list stay unprocessed.
4. `journal_verification`: an apply whose postflight failed with all packages confirmed shows
   every row as completed, the verification too, above a failed final line.
5. `journal_skipped`: an unattended cycle whose apply raised shows the rows of the device work as
   skipped, which `docs/operator-checklist-logging.md:118` calls safe and no matter for action,
   whatever the apply had done by then.

Read in the code and not stated as a run:

- `docs/architecture.md:101`, `docs/controlled-apply.md:148` and `docs/operations.md:209` put the
  verified permanent copy of the backup before the restores; the code copies and hashes it after
  them (`controlled_apply.py:454-463`). `BackupVerifiedFirst` in `MCControlledApply` states the
  documents' order; as an INVARIANT of `apply.cfg` it is violated. What holds is
  `LastBackupIsKept`.
- `docs/operator-checklist-logging.md` gives NO_CHANGE the meaning that nothing requires processing;
  in `approval` and `prepare_only` mode it is also the result while a manifest prepared earlier
  waits (`agent_orchestrator.py:253`), with the advice "nothing to do"
  (`operator_entrypoint.py:323-324`).
- `docs/approval-model.md:63` speaks of preventing duplicate notifications; the end of a snooze is
  announced without a trace in `last_reminded_at`, so that a reminder may follow within the hour.
- After the expiry any command, a status request included, turns an APPROVED record into EXPIRED,
  while the watchdog leaves it alone and the diagram has no such arrow.
- The retry of a failed notice (`cycle.py:150`) sends the text for a prepared manifest also when the
  archive has been applied or has failed since.

## Not modelled

Text handling (terminal prompts, parsing of device output, HTML links, YAML), hashes and
HMACs (a hash is a value, a bad signature ends the run), the content of evidence and reports.
A corrupt state file ends a process like `Kill`. A save that fails is in `AgentLifecycle`
`MonitorFail` or `ApplyRaise`, or, if the handler saves the new entry after all, `MonitorPrepare` and
`Kill`; `Acquisition` has it as `SaveFails`. Comments are not edited or deleted and issues are
not closed: nothing in the code does either.

- `secret_store.py`: two commands that read, change and replace the encrypted file may lose an
  update as the state file may; what a missing secret does is `ApplyRaise`.
- `daily_logging.py`: names of log files and their retention by date. The health report reads
  the newest of them; `HealthReport` takes the lines of the latest cycle as `OperatorJournal`
  leaves them.
- `approval.py` `evaluate_policy`: a pure function whose result the command line prints and nothing
  acts on.
- `agent_config.py`, `runtime_policy.py`: validation; the valid values are the constants.
- the device backends of `cli.py` and the build and preparation workflows: commands over files
  without a state of their own.

## Plan

1. `SecretStore`: the read-modify-write of two commands, with the atomic replacement of
   `_save_store`. `DailyLog`: rotation and retention by date.
2. `Preflight`: the validation of model, firmware and host key as a module of its own that
   `ControlledApply` and `BackupTest` instantiate, instead of one step in each.
3. A second backup test or apply beside the first, for the gap between the check for an earlier
   backup and the copy.
4. Liveness of the concurrent lifecycle: which archives are settled in the end when stale
   copies are saved.
