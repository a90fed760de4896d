---------------------------- MODULE OperatorJournal ----------------------------
(***************************************************************************)
(* One run of fgops-agent and the checklist it writes for the operator.    *)
(* operator_entrypoint.main wraps the loading of the configuration and the *)
(* emission of the result; in between the command works without touching   *)
(* the checklist, which is filled in afterwards from what was returned.    *)
(* `did' and `failed' are what really happened; `rows' is what the         *)
(* operator reads.  The run finds and leaves records that the health       *)
(* report reads later: the state file, the newest apply report and the     *)
(* lines of the latest cycle.                                              *)
(*                                                                         *)
(* A definition named after another one with a suffix (ApplyStatus and     *)
(* ApplyStatusOfPackages) is a slip the properties are tried against.      *)
(***************************************************************************)
EXTENDS Naturals, Sequences, SequencesExt

CONSTANTS
    Commands,       \* the commands run
    Modes           \* the values of execution.mode

CommandNames ==
    {"cycle", "run", "apply", "approve", "preflight", "backup-test", "notify-test",
     "scan-host-key", "validate-config", "status", "secret", "init"}

ASSUME CommandsAssumption == Commands \subseteq CommandNames
ASSUME ModesAssumption == Modes \subseteq {"prepare_only", "approval", "unattended"}

\* The rows of each command's checklist, in the order they are numbered.
DeviceSteps == <<"preflight", "backup", "packages", "verification">>
CommandSteps(command) ==
    CASE command = "cycle" ->
            <<"source", "prepare", "notification", "execution_gate">> \o DeviceSteps
                \o <<"report">>
      [] command = "run" -> <<"source", "prepare", "report">>
      [] command = "apply" -> <<"execution_gate">> \o DeviceSteps \o <<"report">>
      [] command = "approve" ->
            <<"execution_gate">> \o DeviceSteps \o <<"notification", "report">>
      [] command = "preflight" -> <<"preflight", "report">>
      [] command = "backup-test" -> <<"preflight", "backup", "verification", "report">>
      [] command = "notify-test" -> <<"notification", "report">>
      [] command = "scan-host-key" -> <<"scan", "report">>
      [] command = "secret" -> <<"secret">>
      [] command = "init" -> <<"initialize", "report">>
      [] OTHER -> <<"report">>
Steps(command) == <<"startup", "config", "storage">> \o CommandSteps(command)
Keys(command) == ToSet(Steps(command))

StepStates == {"TODO", "RUNNING", "SUCCESS", "WARNING", "FAILED", "SKIPPED"}
PackageStatuses ==
    {"SUCCESS", "SUCCESS_WITH_WARNING", "SKIPPED_NO_UPDATE", "FAILED", "FAILED_UNCONFIRMED"}
ApplyStatuses == {"SUCCESS", "SUCCESS_WITH_WARNING", "FAILED"}
FailedPackages == {"FAILED", "FAILED_UNCONFIRMED"}

VARIABLES
    run,        \* the command, its execution.mode and whether a backup is required
    pc,         \* where the process is
    rows,       \* the state of each row of the checklist
    did,        \* the work that was begun
    failed,     \* the work that did not succeed
    monitor,    \* the status of run_agent_once
    packages,   \* the statuses of the packages restored so far
    caught,     \* run_cycle caught an exception of its apply
    state,      \* of agent-state.json: last_result, and an entry that failed
    offered,    \* the status of the entry of the archive the source offers, or NEW
    report,     \* the status of the newest apply report
    exit,       \* the exit code, NoExit while there is none
    observed,   \* observed_status of operator_entrypoint.main
    action,     \* the suggested operator action
    final,      \* the marker of the final line, "NONE" before it is written
    cycle       \* the latest cycle in the journals: none, without a final line, or its status

records == <<state, offered, report>>
work == <<did, failed, monitor, packages, caught, records>>
journal == <<rows, observed, action, final, cycle>>
vars == <<run, pc, work, exit, journal>>

\* The entries of an archive: has_successful_archive calls all of them handled.
Unresolved == {"APPLY_FAILED", "REVIEW_REQUIRED"}
Entries == {"PREPARED", "APPLIED", "CONTENT_DUPLICATE"} \cup Unresolved

\* What earlier runs left: nothing, an applied archive, one that is prepared and
\* perhaps was seen again, one of a cycle that was killed before its apply, or one
\* whose apply failed or raised.  The source may offer that archive still.
Past(entry, last, apply, line) ==
    [offered |-> entry, last |-> last, report |-> apply, cycle |-> line]
Pasts ==
    {Past("NEW", "NONE", "NONE", "NONE"),
     Past("APPLIED", "SUCCESS", "SUCCESS", "SUCCESS"),
     Past("APPLIED", "NO_CHANGE", "SUCCESS", "NO_CHANGE"),
     Past("PREPARED", "PREPARED", "NONE", "PREPARED"),
     Past("PREPARED", "NO_CHANGE", "SUCCESS", "NO_CHANGE"),
     Past("PREPARED", "PREPARED", "SUCCESS", "OPEN"),
     Past("APPLY_FAILED", "FAILED", "FAILED", "FAILED"),
     Past("REVIEW_REQUIRED", "FAILED", "NONE", "FAILED"),
     Past("REVIEW_REQUIRED", "NO_CHANGE", "SUCCESS", "NO_CHANGE")}

NoExit == 99
Loads == run.command \notin {"init", "scan-host-key"}
Applies == run.command \in {"cycle", "apply", "approve"}

Init ==
    /\ run \in [command : Commands, mode : Modes, requireBackup : BOOLEAN]
    /\ pc = "start"
    /\ rows = [k \in Keys(run.command) |-> "TODO"]
    /\ did = {} /\ failed = {} /\ monitor = "NONE" /\ packages = {} /\ caught = FALSE
    /\ exit = NoExit /\ observed = "FAILED" /\ action = "none" /\ final = "NONE"
    /\ \E past \in Pasts :
          /\ state = [last |-> past.last, unresolved |-> past.offered \in Unresolved]
          /\ report = past.report /\ cycle = past.cycle
          /\ offered \in {past.offered, "NEW"}

Marked(states, marks) ==
    [k \in DOMAIN states |-> IF k \in DOMAIN marks THEN marks[k] ELSE states[k]]
Mark(marks) == rows' = Marked(rows, marks)
-----------------------------------------------------------------------------
(* Up to the loaded configuration the rows follow the process.             *)

Start ==
    /\ pc = "start"
    /\ IF Loads
       THEN Mark([startup |-> "SUCCESS", config |-> "RUNNING"]) /\ pc' = "config"
       ELSE Mark([startup |-> "SUCCESS"]) /\ pc' = "work"
    /\ cycle' = IF run.command = "cycle" THEN "OPEN" ELSE cycle
    /\ UNCHANGED <<run, work, exit, observed, action, final>>

ConfigLoads ==
    /\ pc = "config"
    /\ Mark([config |-> "SUCCESS"])
    /\ pc' = "rebind"
    /\ UNCHANGED <<run, work, exit, observed, action, final, cycle>>

OpenStorage ==
    /\ pc = "rebind"
    /\ Mark([storage |-> "RUNNING"])
    /\ pc' = "storage"
    /\ UNCHANGED <<run, work, exit, observed, action, final, cycle>>

StorageOpens ==
    /\ pc = "storage"
    /\ Mark([storage |-> "SUCCESS"])
    /\ pc' = "work"
    /\ UNCHANGED <<run, work, exit, observed, action, final, cycle>>

\* The configuration or the directories raise: their row says so.
SetupFails ==
    /\ pc \in {"config", "storage"}
    /\ rows' = [rows EXCEPT ![pc] = "FAILED"]
    /\ pc' = "exit"
    /\ exit' = 1
    /\ UNCHANGED <<run, work, observed, action, final, cycle>>
-----------------------------------------------------------------------------
(* The command's own work, of which no row is written.                     *)

Work(from, key, to) ==
    /\ pc = from
    /\ pc' = to
    /\ did' = did \cup {key}
    /\ UNCHANGED <<run, exit, journal>>

\* An archive the source offers is prepared, or is a duplicate of an applied one.
NewEntry == {"PREPARED"} \cup (IF report = "NONE" THEN {} ELSE {"CONTENT_DUPLICATE"})

ResumesNever == FALSE

\* The unattended mode takes up an archive that an earlier run prepared, but for a
\* dry run of the run command.
Resumes == offered = "PREPARED" /\ run.mode = "unattended"

\* run_agent_once: an archive without an entry is recorded, any other is handled.
Monitor ==
    /\ run.command \in {"cycle", "run"}
    /\ Work("work", "source", IF run.command = "run" THEN "return" ELSE "notice")
    /\ \/ /\ offered = "NEW"
          /\ offered' \in NewEntry
          /\ monitor' = IF offered' = "PREPARED" THEN "PREPARED" ELSE "NO_CONTENT_CHANGE"
       \/ /\ offered # "NEW" /\ UNCHANGED offered
          /\ \/ monitor' = IF Resumes THEN "PREPARED" ELSE "NO_CHANGE"
             \/ run.command = "run" /\ monitor' = "NO_CHANGE"
    /\ state' = [state EXCEPT !.last = monitor']
    /\ UNCHANGED <<failed, packages, caught, report>>

\* The commands that reach the device through a preflight; in a mode that does
\* not allow them apply and approve raise.
BeginDevice ==
    /\ pc = "work"
    /\ \/ run.command \in {"preflight", "backup-test"}
       \/ run.command = "apply" /\ run.mode # "prepare_only"
       \/ run.command = "approve" /\ run.mode = "approval"
    /\ pc' = "preflight"
    /\ UNCHANGED <<run, work, exit, journal>>

\* The commands that only read or write files beside the device.
Plain ==
    /\ pc = "work"
    /\ run.command \in {"validate-config", "status", "secret", "init", "scan-host-key"}
    /\ pc' = "return"
    /\ UNCHANGED <<run, work, exit, journal>>

\* One message: switched off, sent or failed.  The cycle goes on to an
\* unattended apply; a duplicate payload is returned without a message.
Notice ==
    /\ pc \in {"notice", "final_notice"}
    /\ pc' = IF pc = "notice" /\ monitor = "PREPARED" /\ run.mode = "unattended"
             THEN "preflight" ELSE "return"
    /\ \/ UNCHANGED <<did, failed>>
       \/ /\ monitor # "NO_CONTENT_CHANGE"
          /\ did' = did \cup {"notification"}
          /\ failed' \in {failed, failed \cup {"notification"}}
    /\ UNCHANGED <<run, monitor, packages, caught, records, exit, journal>>

\* notify-test sends its message or raises.
NotifyTest ==
    /\ run.command = "notify-test"
    /\ Work("work", "notification", "return")
    /\ UNCHANGED <<failed, monitor, packages, caught, records>>

\* The preflight command returns a failed validation, the others raise.
Preflight ==
    /\ Work("preflight", "preflight", IF run.command = "preflight" THEN "return" ELSE "backup")
    /\ \/ UNCHANGED failed
       \/ run.command = "preflight" /\ failed' = failed \cup {"preflight"}
    /\ UNCHANGED <<monitor, packages, caught, records>>

Backup ==
    /\ IF run.command = "backup-test" \/ run.requireBackup
       THEN Work("backup", "backup", IF Applies THEN "packages" ELSE "verification")
       ELSE /\ pc = "backup" /\ pc' = "packages"
            /\ UNCHANGED <<run, did, exit, journal>>
    /\ UNCHANGED <<failed, monitor, packages, caught, records>>

\* A package is restored and classified; it may be the last one.
Restore ==
    /\ \E next \in {"packages", "verification"} : Work("packages", "packages", next)
    /\ \E status \in PackageStatuses :
           /\ packages' = packages \cup {status}
           /\ failed' = IF status \in FailedPackages THEN failed \cup {"packages"} ELSE failed
    /\ UNCHANGED <<monitor, caught, records>>

\* controlled_apply._overall_status of what was restored and what failed.
OverallOf(restored, failures) ==
    IF "verification" \in failures \/ restored \cap FailedPackages # {} THEN "FAILED"
    ELSE IF restored = {"SUCCESS"} THEN "SUCCESS" ELSE "SUCCESS_WITH_WARNING"

\* The postflight of an apply and its report, or the check of the backup test's file.
Verify ==
    /\ Work("verification", "verification", IF Applies THEN "save" ELSE "return")
    /\ \/ UNCHANGED failed
       \/ Applies /\ failed' = failed \cup {"verification"}
    /\ report' = IF Applies THEN OverallOf(packages, failed') ELSE report
    /\ UNCHANGED <<monitor, packages, caught, state, offered>>

\* A cycle works on the archive the source offers; a manifest that an operator
\* names may be the one of that archive, if it has an entry of the given kind.
Settles(status, entries) ==
    \/ run.command # "cycle" /\ UNCHANGED offered
    \/ (run.command = "cycle" \/ offered \in entries) /\ offered' = status

\* The result of an apply is saved in the state file.
Saved == [last |-> report, unresolved |-> state.unresolved \/ report = "FAILED"]
Saves ==
    /\ state' = Saved
    /\ Settles(IF report = "FAILED" THEN "APPLY_FAILED" ELSE "APPLIED", {"PREPARED"})
SaveApply ==
    /\ pc = "save"
    /\ pc' = IF run.command = "apply" THEN "return" ELSE "final_notice"
    /\ Saves
    /\ UNCHANGED <<run, did, failed, monitor, packages, caught, report, exit, journal>>

\* An exception of the work.  The cycle catches one of its apply, and approve
\* one of its own to pass it on; what the failed step may have saved stays.
\* run_agent_once saves that it failed, with the entry it may have made before; what
\* raises before its try (a policy, the directories, the state file) saves nothing.
MonitorRaises ==
    /\ pc = "work" /\ run.command \in {"cycle", "run"}
    /\ state' = [state EXCEPT !.last = "FAILED"]
    /\ offered' \in {offered} \cup (IF offered = "NEW" THEN NewEntry ELSE {})
InApply == pc \in ToSet(DeviceSteps) \cup {"save"}
Raise ==
    /\ pc \in {"rebind", "work", "notice", "preflight", "backup", "packages", "verification",
               "save", "review", "final_notice"}
    /\ IF \/ run.command = "cycle" /\ InApply
          \/ run.command = "approve" /\ (InApply \/ pc = "work")
       THEN pc' = "review" /\ UNCHANGED exit
       ELSE pc' = "exit" /\ exit' = 1
    /\ caught' = (caught \/ (run.command = "cycle" /\ InApply))
    /\ failed' = failed \cup {pc}
    /\ did' \in {did, did \cup ({pc} \cap ToSet(DeviceSteps))}
    /\ \/ UNCHANGED <<state, offered>>
       \/ pc = "save" /\ Saves
       \/ MonitorRaises
    /\ UNCHANGED <<run, monitor, packages, report, journal>>

\* _mark_review_required, whatever the entry says; approve does not find the archive of a wrong manifest ID.
Review ==
    /\ pc = "review"
    /\ IF run.command = "cycle"
       THEN pc' = "final_notice" /\ UNCHANGED exit
       ELSE pc' = "exit" /\ exit' = 1
    /\ \/ /\ state' = [last |-> "FAILED", unresolved |-> TRUE]
          /\ Settles("REVIEW_REQUIRED", Entries \ {"CONTENT_DUPLICATE"})
       \/ run.command = "approve" /\ "work" \in failed /\ UNCHANGED <<state, offered>>
    /\ UNCHANGED <<run, did, failed, monitor, packages, caught, report, journal>>
-----------------------------------------------------------------------------
(* What the command returns.                                               *)

HasApply == Applies /\ "verification" \in did /\ ~caught

ApplyStatusOfPackages ==
    IF packages \cap FailedPackages # {} THEN "FAILED"
    ELSE IF packages = {"SUCCESS"} THEN "SUCCESS" ELSE "SUCCESS_WITH_WARNING"

ApplyStatus == OverallOf(packages, failed)

NoticeFailed == "notification" \in failed

\* The status of run_cycle and approve_manifest.
CycleStatus ==
    IF caught THEN "FAILED"
    ELSE IF HasApply
    THEN IF NoticeFailed /\ ApplyStatus # "FAILED"
         THEN "SUCCESS_WITH_NOTIFICATION_ERROR" ELSE ApplyStatus
    ELSE IF NoticeFailed
    THEN IF monitor = "PREPARED" THEN "PREPARED_WITH_NOTIFICATION_ERROR" ELSE "WARNING"
    ELSE monitor

PayloadStatus ==
    CASE run.command \in {"cycle", "approve"} -> CycleStatus
      [] run.command = "apply" -> ApplyStatus
      [] run.command = "run" -> monitor
      [] run.command = "preflight" ->
            IF "preflight" \in failed THEN "FAILED_VALIDATION" ELSE "PASS"
      [] run.command = "backup-test" -> "PASS"
      [] run.command = "notify-test" -> "SENT"
      [] OTHER -> "SUCCESS"

ExitCode ==
    IF \/ PayloadStatus \in {"FAILED", "FAILED_VALIDATION"}
       \/ run.command = "cycle"
             /\ PayloadStatus \in {"WARNING", "PREPARED_WITH_NOTIFICATION_ERROR"}
    THEN 2 ELSE 0
-----------------------------------------------------------------------------
(* _record_result: the rows and the status shown for what was returned.    *)

ByStatusVerbatim(status) == IF status = "FAILED_VALIDATION" THEN status ELSE "SUCCESS"

ByStatus(status) ==
    CASE status \in {"FAILED", "FAILED_VALIDATION"} -> "FAILED"
      [] status \in {"WARNING", "SUCCESS_WITH_WARNING", "SUCCESS_WITH_NOTIFICATION_ERROR",
                     "PREPARED_WITH_NOTIFICATION_ERROR"} -> "WARNING"
      [] OTHER -> "SUCCESS"

PackagesStatusConfirmed ==
    IF "FAILED" \in packages THEN "FAILED"
    ELSE IF packages = {} \/ "SUCCESS_WITH_WARNING" \in packages THEN "SUCCESS_WITH_WARNING"
    ELSE IF packages = {"SKIPPED_NO_UPDATE"} THEN "NO_UPDATE" ELSE "SUCCESS"

\* The status _record_packages makes of the package results alone.
PackagesStatus ==
    IF packages \cap FailedPackages # {} THEN "FAILED"
    ELSE IF packages = {} \/ "SUCCESS_WITH_WARNING" \in packages THEN "SUCCESS_WITH_WARNING"
    ELSE IF packages = {"SKIPPED_NO_UPDATE"} THEN "NO_UPDATE" ELSE "SUCCESS"

\* The apply's own status only turns a warning into success.
VerificationState ==
    IF PackagesStatus = "SUCCESS" /\ ApplyStatus = "SUCCESS_WITH_WARNING"
    THEN "SUCCESS" ELSE ByStatus(PackagesStatus)

BackupState ==
    IF "backup" \in did \ failed THEN "SUCCESS"
    ELSE IF run.requireBackup THEN "FAILED" ELSE "SKIPPED"

AppliedMarks ==
    [preflight |-> "SUCCESS", backup |-> BackupState, packages |-> ByStatus(PackagesStatus),
     verification |-> VerificationState, report |-> "SUCCESS"]
SkippedMarks ==
    [preflight |-> "SKIPPED", backup |-> "SKIPPED", packages |-> "SKIPPED",
     verification |-> "SKIPPED", report |-> "SUCCESS"]
ApplyMarks == IF HasApply THEN AppliedMarks ELSE SkippedMarks

PrepareState == IF monitor = "PREPARED" THEN "SUCCESS" ELSE "SKIPPED"

NotificationState ==
    IF "notification" \notin did THEN "SKIPPED" ELSE IF NoticeFailed THEN "WARNING" ELSE "SUCCESS"

\* The gate of a cycle: a duplicate, an apply, a manifest that waits, one that
\* is only prepared, or an apply that raised.
CycleGate ==
    IF monitor # "PREPARED" \/ run.mode = "prepare_only" THEN "SKIPPED"
    ELSE IF HasApply THEN "SUCCESS"
    ELSE IF run.mode = "approval" THEN "WARNING" ELSE ByStatus(CycleStatus)

Marks ==
    CASE run.command = "cycle" ->
            [source |-> "SUCCESS", prepare |-> PrepareState, notification |-> NotificationState,
             execution_gate |-> CycleGate]
      [] run.command = "run" ->
            [source |-> "SUCCESS", prepare |-> PrepareState, report |-> "SUCCESS"]
      [] run.command = "apply" -> [execution_gate |-> "SUCCESS"]
      [] run.command = "approve" ->
            [execution_gate |-> "SUCCESS", notification |-> NotificationState]
      [] run.command = "preflight" ->
            [preflight |-> ByStatus(PayloadStatus), report |-> "SUCCESS"]
      [] run.command = "backup-test" ->
            [preflight |-> "SUCCESS", backup |-> "SUCCESS", verification |-> "SUCCESS",
             report |-> "SUCCESS"]
      [] run.command = "notify-test" -> [notification |-> "SUCCESS", report |-> "SUCCESS"]
      [] run.command = "scan-host-key" ->
            [config |-> "SKIPPED", storage |-> "SKIPPED", scan |-> "SUCCESS",
             report |-> "SUCCESS"]
      [] run.command = "init" ->
            [config |-> "SKIPPED", storage |-> "SUCCESS", initialize |-> "SUCCESS",
             report |-> "SUCCESS"]
      [] run.command = "secret" -> [secret |-> "SUCCESS"]
      [] OTHER -> [report |-> "SUCCESS"]
RecordedRows == Marked(IF Applies THEN Marked(rows, ApplyMarks) ELSE rows, Marks)

\* The package results replace the status of the command, the monitor's the
\* status of a cycle without news.
ShownStatus ==
    IF HasApply THEN PackagesStatus
    ELSE IF run.command = "cycle" /\ monitor \in {"NO_CHANGE", "NO_CONTENT_CHANGE"} THEN monitor
    ELSE PayloadStatus

AwaitsApproval == run.command = "cycle" /\ monitor = "PREPARED" /\ run.mode = "approval"

Action(status, code) ==
    IF status \in {"SUCCESS_WITH_NOTIFICATION_ERROR", "PREPARED_WITH_NOTIFICATION_ERROR"}
    THEN "check the notification settings"
    ELSE IF AwaitsApproval THEN "approve the manifest"
    ELSE IF code # 0 THEN "review the failed rows"
    ELSE IF status \in {"NO_CHANGE", "NO_CONTENT_CHANGE", "NO_UPDATE"} THEN "nothing to do"
    ELSE "none"

RecordResult ==
    /\ pc = "return"
    /\ rows' = RecordedRows
    /\ observed' = ShownStatus
    /\ action' = Action(ShownStatus, ExitCode)
    /\ exit' = ExitCode
    /\ pc' = "emit"
    /\ UNCHANGED <<run, work, final, cycle>>

\* Printing the result may still raise; the rows and the status stay.
Emit ==
    /\ pc = "emit"
    /\ pc' = "exit"
    /\ exit' \in {exit, 1}
    /\ UNCHANGED <<run, work, journal>>
-----------------------------------------------------------------------------
(* main: the last lines of the journal.                                    *)

Unfinished == {i \in DOMAIN Steps(run.command) :
                  rows[Steps(run.command)[i]] \in {"TODO", "RUNNING"}}
FirstUnfinished == Steps(run.command)[CHOOSE i \in Unfinished : \A j \in Unfinished : i <= j]

FailRunning ==
    [k \in DOMAIN rows |->
        IF exit # 0 /\ observed = "FAILED" /\ rows[k] = "RUNNING" THEN "FAILED" ELSE rows[k]]

\* A run that raised before it had a result fails its first unfinished row,
\* unless a row has failed already.
FailFirstUnfinished ==
    IF /\ exit # 0 /\ observed = "FAILED"
       /\ "FAILED" \notin Range(rows)
       /\ Unfinished # {}
    THEN [rows EXCEPT ![FirstUnfinished] = "FAILED"]
    ELSE rows

FinalState(code, status, states) ==
    IF code # 0 \/ "FAILED" \in states THEN "FAILED"
    ELSE IF ByStatus(status) = "WARNING" \/ "WARNING" \in states THEN "WARNING" ELSE "SUCCESS"

Finish ==
    /\ pc = "exit"
    /\ rows' = FailFirstUnfinished
    /\ observed' = IF exit = 0 /\ observed = "FAILED" THEN "SUCCESS" ELSE observed
    /\ action' = IF exit # 0 /\ observed = "FAILED" /\ action = "none"
                 THEN "review the failed rows" ELSE action
    /\ final' = FinalState(exit, observed', Range(rows'))
    /\ cycle' = IF run.command = "cycle" THEN observed' ELSE cycle
    /\ pc' = "done"
    /\ UNCHANGED <<run, work, exit>>

\* The process is killed, interrupted, or cannot set up its technical log:
\* the journal ends where it is.
Kill ==
    /\ pc \notin {"done", "killed"}
    /\ pc' = "killed"
    /\ UNCHANGED <<run, work, exit, journal>>

Next ==
    \/ Start \/ ConfigLoads \/ OpenStorage \/ StorageOpens \/ SetupFails
    \/ Monitor \/ BeginDevice \/ Plain \/ Notice \/ NotifyTest
    \/ Preflight \/ Backup \/ Restore \/ Verify \/ SaveApply \/ Raise \/ Review
    \/ RecordResult \/ Emit \/ Finish \/ Kill

Spec == Init /\ [][Next]_vars
-----------------------------------------------------------------------------
WorkKeys == {"source", "notification"} \cup ToSet(DeviceSteps)
MonitorStatuses == {"PREPARED", "NO_CHANGE", "NO_CONTENT_CHANGE"}
CycleStatuses ==
    ApplyStatuses \cup MonitorStatuses
        \cup {"NO_UPDATE", "WARNING", "PREPARED_WITH_NOTIFICATION_ERROR"}

TypeOK ==
    /\ run \in [command : Commands, mode : Modes, requireBackup : BOOLEAN]
    /\ pc \in {"start", "config", "rebind", "storage", "work", "notice", "preflight", "backup",
               "packages", "verification", "save", "review", "final_notice", "return", "emit",
               "exit", "done", "killed"}
    /\ rows \in [Keys(run.command) -> StepStates]
    /\ did \subseteq WorkKeys
    /\ failed \subseteq WorkKeys \cup {"rebind", "work", "notice", "final_notice", "save", "review"}
    /\ monitor \in MonitorStatuses \cup {"NONE"}
    /\ packages \subseteq PackageStatuses
    /\ caught \in BOOLEAN
    /\ state \in [last : ApplyStatuses \cup MonitorStatuses \cup {"NONE"}, unresolved : BOOLEAN]
    /\ offered \in Entries \cup {"NEW"}
    /\ report \in ApplyStatuses \cup {"NONE"}
    /\ exit \in {NoExit, 0, 1, 2}
    /\ observed \in CycleStatuses \cup {"FAILED_VALIDATION", "PASS", "SENT"}
    /\ action \in {"none", "nothing to do", "approve the manifest", "review the failed rows",
                   "check the notification settings"}
    /\ final \in {"NONE", "SUCCESS", "WARNING", "FAILED"}
    /\ cycle \in CycleStatuses \cup {"NONE", "OPEN"}

\* A green final line (OperatorChecklist.finish) is earned: the run finished
\* without an exception, nothing it did failed, every package was confirmed
\* or was current, and an apply that requires a backup has one.
GreenIsEarned ==
    final = "SUCCESS" =>
        /\ exit = 0 /\ failed = {}
        /\ packages \subseteq {"SUCCESS", "SKIPPED_NO_UPDATE"}
        /\ "packages" \in did => "verification" \in did
        /\ "packages" \in did /\ run.requireBackup => "backup" \in did

\* A row marked as completed was begun and did not fail.  The verification is
\* left out: see VerifiedIsVerified.
GreenRowsAreTrue ==
    \A k \in Keys(run.command) \cap (WorkKeys \ {"verification"}) :
        rows[k] = "SUCCESS" => k \in did \ failed

\* What tests/test_operator_entrypoint.py asserts of one result: a run that
\* returned one leaves no row open; a run that raised before shows a failed row.
FinishedIsSettled ==
    final # "NONE" =>
        \/ Range(rows) \cap {"TODO", "RUNNING"} = {}
        \/ exit = 1 /\ "FAILED" \in Range(rows)

\* "Nothing to do" (_record_result) is suggested only when this run prepared no
\* manifest that waits and the device keeps what it had; a notice may have failed.
\* Of an unattended cycle no archive waits then, an earlier run's included; in the
\* other modes one that was prepared before may: see the README.
NothingToDoIsTrue ==
    action = "nothing to do" =>
        /\ failed \subseteq {"notification"} /\ ~AwaitsApproval
        /\ packages \subseteq {"SKIPPED_NO_UPDATE"}
        /\ run.command = "cycle" /\ run.mode = "unattended" => offered \notin {"NEW", "PREPARED"}
-----------------------------------------------------------------------------
(* What documents say and the code does not do. *)

\* docs/operator-checklist-logging.md: a check mark means "Completed successfully".
VerifiedIsVerified ==
    "verification" \in Keys(run.command) /\ rows["verification"] = "SUCCESS" =>
        "verification" \in did \ failed

\* docs/operator-checklist-logging.md: a skip mark means "Safely skipped because not
\* required", with no action to take.
SkippedIsSafe ==
    \A k \in Keys(run.command) \cap ToSet(DeviceSteps) : rows[k] = "SKIPPED" => k \notin did
=============================================================================
