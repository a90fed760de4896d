------------------------ MODULE OperatorJournal_proofs ------------------------
(***************************************************************************)
(* What the checklist, the final line and the health report say is what    *)
(* happened, for every command and mode and whatever raises.               *)
(***************************************************************************)
EXTENDS HealthReport, NaturalSets

-----------------------------------------------------------------------------
(* The rows of the commands. *)

SetupKeys == {"startup", "config", "storage"}
DeviceWork == {"preflight", "backup", "packages", "verification"}

\* The command's own rows, without their order.
CommandKeys(command) ==
    CASE command = "cycle" ->
            {"source", "prepare", "notification", "execution_gate", "report"} \cup DeviceWork
      [] command = "run" -> {"source", "prepare", "report"}
      [] command = "apply" -> {"execution_gate", "report"} \cup DeviceWork
      [] command = "approve" -> {"execution_gate", "notification", "report"} \cup DeviceWork
      [] command = "preflight" -> {"preflight", "report"}
      [] command = "backup-test" -> {"preflight", "backup", "verification", "report"}
      [] command = "notify-test" -> {"notification", "report"}
      [] command = "scan-host-key" -> {"scan", "report"}
      [] command = "secret" -> {"secret"}
      [] command = "init" -> {"initialize", "report"}
      [] OTHER -> {"report"}

LEMMA DeviceSet == ToSet(DeviceSteps) = DeviceWork
BY DEF ToSet, DeviceSteps, DeviceWork

\* The steps are a sequence, and their set is the explicit one.
LEMMA StepsFacts ==
  ASSUME NEW command \in CommandNames
  PROVE  /\ DOMAIN Steps(command) \subseteq Nat
         /\ Keys(command) = SetupKeys \cup CommandKeys(command)
<1> USE DEF CommandNames, Keys, Steps, CommandSteps, CommandKeys, DeviceSteps, SetupKeys,
            DeviceWork, ToSet
<1>1. CASE command = "cycle"
  BY <1>1
<1>2. CASE command = "run"
  BY <1>2
<1>3. CASE command = "apply"
  BY <1>3
<1>4. CASE command = "approve"
  BY <1>4
<1>5. CASE command = "preflight"
  BY <1>5
<1>6. CASE command = "backup-test"
  BY <1>6
<1>7. CASE command = "notify-test"
  BY <1>7
<1>8. CASE command = "scan-host-key"
  BY <1>8
<1>9. CASE command = "secret"
  BY <1>9
<1>10. CASE command = "init"
  BY <1>10
<1>11. CASE command = "validate-config"
  BY <1>11
<1>12. CASE command = "status"
  BY <1>12
<1> QED
  BY <1>1, <1>2, <1>3, <1>4, <1>5, <1>6, <1>7, <1>8, <1>9, <1>10, <1>11, <1>12

-----------------------------------------------------------------------------
(* The inductive invariant. *)

SettingUp == {"start", "config", "rebind", "storage"}
OnDevice == {"preflight", "backup", "packages", "verification", "save"}
Working == {"work", "notice", "review", "final_notice"} \cup OnDevice
Ending == {"emit", "exit", "done", "killed"}
Before == SettingUp \cup Working \cup {"return"}
Noticing == {"cycle", "approve"}
Monitoring == {"cycle", "run"}

\* An apply of a cycle is one of a new archive in the unattended mode.
InCycle == monitor = "PREPARED" /\ run.mode = "unattended"

\* Which command is where.
Where ==
    /\ pc \in {"config", "rebind", "storage"} => Loads
    /\ pc = "notice" => run.command = "cycle"
    /\ pc \in OnDevice => Applies \/ run.command \in {"preflight", "backup-test"}
    /\ pc \in OnDevice \ {"preflight"} => run.command # "preflight"
    /\ pc \in {"packages", "save"} => Applies
    /\ pc \in {"review", "final_notice"} => run.command \in Noticing
    /\ pc \in OnDevice \cup {"review", "final_notice"} /\ run.command = "cycle" => InCycle
    /\ pc = "review" /\ run.command = "cycle" => caught
    /\ caught => /\ run.command = "cycle" /\ InCycle
                 /\ pc \in {"review", "final_notice", "return"} \cup Ending

\* Until a result is recorded only the rows of the start are marked.
Unread ==
    /\ pc \in Before =>
          /\ observed = "FAILED" /\ action = "none" /\ exit = NoExit
          /\ \A k \in Keys(run.command) \ SetupKeys : rows[k] = "TODO"
    /\ pc \in Before \ {"start"} => rows["startup"] = "SUCCESS"
    /\ pc \in Before \ {"start", "config"} /\ Loads => rows["config"] = "SUCCESS"
    /\ pc \in Working \cup {"return"} /\ Loads => rows["storage"] = "SUCCESS"

\* What was begun before what, whoever raised.
Untouched == did \cap DeviceWork = {} /\ packages = {}
InOrder ==
    /\ pc \in SettingUp \cup {"work"} => did = {} /\ failed = {} /\ monitor = "NONE"
    /\ pc \in SettingUp \cup {"work", "notice", "preflight"} => Untouched
    /\ pc \in OnDevice \ {"preflight"} => "preflight" \in did
    /\ pc \in OnDevice \ {"preflight", "backup"}
          /\ (run.requireBackup \/ run.command = "backup-test") => "backup" \in did
    /\ pc \in {"verification", "save"} /\ Applies => "packages" \in did
    /\ pc \in OnDevice \ {"save"} => "verification" \notin did
    /\ pc = "save" => "verification" \in did
    /\ (monitor # "NONE" <=> "source" \in did) /\ "source" \notin failed
    /\ monitor # "NONE" => run.command \in Monitoring
    /\ pc = "notice" => "source" \in did
    /\ (packages # {} => "packages" \in did) /\ ("packages" \in did => Applies)
    /\ "verification" \in did =>
          /\ "preflight" \in did
          /\ run.requireBackup \/ run.command = "backup-test" => "backup" \in did
          /\ Applies => "packages" \in did
    /\ pc = "final_notice" => caught \/ "verification" \in did

\* What a command that returns has done.
Left ==
    /\ run.command \in Monitoring => "source" \in did
    /\ run.command \in {"apply", "approve", "backup-test"} => "verification" \in did
    /\ run.command = "cycle" =>
          \/ Untouched /\ ~caught
          \/ InCycle /\ (caught \/ "verification" \in did)
    /\ run.command = "preflight" => "preflight" \in did
    /\ run.command = "notify-test" => "notification" \in did
    /\ run.command \notin {"preflight", "backup-test"} /\ ~Applies => Untouched

\* Why work failed, as long as no exception of it ends the run or its apply.
Told ==
    /\ \A k \in failed :
          \/ k = "notification" /\ k \in did /\ run.command \in Noticing
          \/ k = "preflight" /\ run.command = "preflight"
          \/ k = "packages" /\ packages \cap FailedPackages # {}
          \/ k = "verification" /\ Applies /\ "verification" \in did
    /\ "packages" \in did => packages # {}
    /\ packages \cap FailedPackages # {} => "packages" \in failed
Raised == caught \/ pc = "review" \/ (pc \in Ending /\ observed = "FAILED")
FailuresTold == ~Raised => Told

\* What the records say of the work, as long as no exception does.
Applied == Applies /\ "verification" \in did
Filed ==
    /\ Applied => report = ApplyStatus
    /\ IF Applied /\ pc # "save" THEN state.last = report
       ELSE monitor # "NONE" => state.last = monitor

\* The archive of an unattended cycle no longer waits once it was applied or passed over.
Waiting == {"NEW", "PREPARED"}
PassedOver ==
    run.command = "cycle" /\ run.mode = "unattended"
    /\ (IF Applied THEN pc # "save" ELSE monitor \in {"NO_CHANGE", "NO_CONTENT_CHANGE"})
        => offered \notin Waiting

\* What earlier runs left is still there, while this one has nothing to add.
Quiet == {"NO_CHANGE", "NO_CONTENT_CHANGE", "SUCCESS"}
Inherited ==
    /\ ~Applied => report \in {"NONE", "SUCCESS"} \/ (report = "FAILED" /\ state.unresolved)
    /\ run.command \notin Monitoring /\ ~Applied /\ cycle \in Quiet /\ ~state.unresolved =>
          state.last \in {"NONE"} \cup Quiet

\* Until there is a line of the journal the latest cycle is an older one.
Records ==
    /\ ~Raised => Filed /\ PassedOver
    /\ Inherited
    /\ run.command = "cycle" =>
          IF pc = "done" THEN cycle = observed
          ELSE \/ cycle = "OPEN"
               \/ pc \in {"start", "killed"} /\ did = {} /\ rows["startup"] = "TODO"
    /\ run.command = "approve" /\ pc = "review" /\ "work" \in failed => "packages" \notin did

\* An approve that raised is marked, had not begun, or raised after its apply.
Faced ==
    \/ "review" \in failed \/ state.unresolved \/ "packages" \notin did
    \/ report \notin {"FAILED", "SUCCESS_WITH_WARNING"} =>
          packages = {"SUCCESS"} /\ failed \subseteq {"notification", "final_notice"}

\* What the rows and the final line are worth once there is a result, and without one.
Open == {"TODO", "RUNNING"}
Settled == Range(rows) \cap Open = {}
Earned ==
    /\ failed = {} /\ packages \subseteq {"SUCCESS", "SKIPPED_NO_UPDATE"}
    /\ "packages" \in did => "verification" \in did
    /\ "packages" \in did /\ run.requireBackup => "backup" \in did
Green == exit = 0 /\ Range(rows) \cap {"WARNING", "FAILED"} = {} /\ ByStatus(observed) # "WARNING"

HasResult ==
    /\ Left /\ (caught \/ (Told /\ Filed /\ PassedOver))
    /\ observed = ShownStatus
    /\ run.command = "cycle" => observed \in CycleStatuses
    /\ exit \in {ExitCode, 1}
    /\ exit = 0 => observed # "FAILED"
    /\ Settled
    /\ Green => Earned
HasNone ==
    /\ observed = "FAILED"
    /\ pc # "emit"
    /\ exit = 1 \/ (pc = "killed" /\ exit = NoExit)
    /\ run.command = "approve" /\ pc # "killed" => Faced
    /\ \A k \in Keys(run.command) \ SetupKeys : rows[k] \in {"TODO", "FAILED"}
Reported ==
    /\ pc = "return" => Left
    /\ pc \in Ending => HasNone \/ HasResult
    /\ pc # "done" => final = "NONE"

IInv ==
    /\ TypeOK /\ Where /\ Unread /\ InOrder /\ FailuresTold /\ Records /\ Reported
    /\ GreenIsEarned /\ GreenRowsAreTrue /\ FinishedIsSettled
    /\ NothingToDoIsTrue
-----------------------------------------------------------------------------
\* Three kinds of steps: of the start, of the work, and of the end.
SetupStep == Start \/ ConfigLoads \/ OpenStorage \/ StorageOpens \/ SetupFails
WorkStep ==
    \/ Monitor \/ BeginDevice \/ Plain \/ Notice \/ NotifyTest \/ Preflight \/ Backup
    \/ Restore \/ Verify \/ SaveApply \/ Raise \/ Review
EndStep == RecordResult \/ Emit \/ Finish \/ Kill

LEMMA NextFacts == Next => SetupStep \/ WorkStep \/ EndStep
BY DEF Next, SetupStep, WorkStep, EndStep

LEMMA SetupFacts ==
  ASSUME SetupStep
  PROVE  /\ UNCHANGED <<run, did, failed, monitor, packages, caught, state, offered, report, observed>>
         /\ UNCHANGED <<action, final>>
         /\ pc \in SettingUp
         /\ \/ pc' \in {"config", "rebind", "storage", "work"} /\ UNCHANGED exit
            \/ pc' = "exit" /\ exit' = 1
BY DEF SetupStep, Start, ConfigLoads, OpenStorage, StorageOpens, SetupFails, SettingUp, work,
       records

LEMMA WorkFacts ==
  ASSUME WorkStep
  PROVE  /\ UNCHANGED <<run, rows, observed, action, final, cycle>>
         /\ pc \in Working \cup {"rebind"}
         /\ pc = "rebind" => pc' = "exit"
         /\ \/ pc' \in (Working \ {"work"}) \cup {"return"} /\ UNCHANGED exit
            \/ pc' = "exit" /\ exit' = 1
<1> USE DEF journal, Working, OnDevice
<1>1. CASE Monitor \/ BeginDevice \/ Plain \/ Notice \/ NotifyTest
  BY <1>1 DEF Monitor, BeginDevice, Plain, Notice, NotifyTest, Work
<1>2. CASE Preflight \/ Backup \/ Restore \/ Verify \/ SaveApply
  BY <1>2 DEF Preflight, Backup, Restore, Verify, SaveApply, Work
<1>3. CASE Raise
  <2>1. UNCHANGED <<run, journal>>
    BY <1>3, Zenon DEF Raise
  <2>3. pc \in Working \cup {"rebind"}
    BY <1>3 DEF Raise
  <2>2. (pc' = "review" /\ UNCHANGED exit) \/ (pc' = "exit" /\ exit' = 1)
    BY <1>3, Zenon DEF Raise
  <2>4. pc = "rebind" => pc' = "exit"
    BY <1>3, DeviceSet DEF Raise, InApply, DeviceWork
  <2> QED
    BY <2>1, <2>2, <2>3, <2>4
<1>4. CASE Review
  BY <1>4 DEF Review
<1> QED
  BY <1>1, <1>2, <1>3, <1>4 DEF WorkStep

LEMMA EndFacts ==
  ASSUME EndStep
  PROVE  /\ UNCHANGED <<run, did, failed, monitor, packages, caught, state, offered, report>>
         /\ pc' \in Ending
         /\ pc \in Ending \/ RecordResult \/ Kill
BY DEF EndStep, RecordResult, Emit, Finish, Kill, Ending, work, records

StateRecord == [last : ApplyStatuses \cup MonitorStatuses \cup {"NONE"}, unresolved : BOOLEAN]

LEMMA StateRecordType ==
  ASSUME NEW status \in ApplyStatuses \cup MonitorStatuses \cup {"NONE"}, NEW open \in BOOLEAN
  PROVE  [last |-> status, unresolved |-> open] \in StateRecord
BY DEF StateRecord

LEMMA PastFacts ==
  ASSUME NEW past \in Pasts
  PROVE  /\ past.last \in ApplyStatuses \cup MonitorStatuses \cup {"NONE"}
         /\ past.report \in {"NONE", "SUCCESS", "FAILED"}
         /\ past.cycle \in CycleStatuses \cup {"NONE", "OPEN"}
         /\ past.offered \in Entries \cup {"NEW"}
         /\ past.report = "FAILED" => past.offered \in Unresolved
         /\ past.cycle \in Quiet /\ past.offered \notin Unresolved => past.last \in {"NONE"} \cup Quiet
BY DEF Pasts, Past, Entries, Unresolved, Quiet, ApplyStatuses, MonitorStatuses, CycleStatuses

LEMMA InitHolds == Init => IInv
<1> SUFFICES ASSUME Init PROVE IInv
  OBVIOUS
<1>0. PICK past \in Pasts :
         /\ state = [last |-> past.last, unresolved |-> past.offered \in Unresolved]
         /\ report = past.report /\ cycle = past.cycle /\ offered \in {past.offered, "NEW"}
  BY DEF Init
<1>1. run.command \in CommandNames /\ pc = "start"
  BY CommandsAssumption DEF Init
<1>2. Keys(run.command) = SetupKeys \cup CommandKeys(run.command)
  BY <1>1, StepsFacts
<1>3. TypeOK
  <2>1. state \in StateRecord
    <3>1. (past.offered \in Unresolved) \in BOOLEAN
      OBVIOUS
    <3> QED
      BY <1>0, <3>1, PastFacts, StateRecordType
  <2>2. /\ report \in ApplyStatuses \cup {"NONE"} /\ cycle \in CycleStatuses \cup {"NONE", "OPEN"}
        /\ observed \in CycleStatuses \cup {"FAILED_VALIDATION", "PASS", "SENT"}
        /\ offered \in Entries \cup {"NEW"}
    BY <1>0, PastFacts DEF Init, ApplyStatuses, CycleStatuses
  <2>3. rows \in [Keys(run.command) -> StepStates]
    BY DEF Init, StepStates
  <2> QED
    BY <2>1, <2>2, <2>3 DEF Init, TypeOK, StateRecord
<1>4. Where /\ InOrder /\ FailuresTold /\ Reported
  BY <1>1, DeviceSet
     DEF Init, Where, InOrder, Untouched, FailuresTold, Told, Reported, OnDevice, Ending
<1>5. Unread /\ Records
  <2>1. rows["startup"] = "TODO"
    BY <1>2 DEF Init, SetupKeys
  <2>2. Inherited /\ PassedOver /\ Filed
    BY <1>0, PastFacts DEF Init, Inherited, PassedOver, Filed, Applied, Unresolved
  <2> QED
    BY <1>1, <1>2, <2>1, <2>2
       DEF Init, Unread, Before, Working, OnDevice, SettingUp, Records
<1>6. GreenRowsAreTrue
  BY DEF Init, GreenRowsAreTrue
<1>7. GreenIsEarned /\ FinishedIsSettled /\ NothingToDoIsTrue
  BY DEF Init, GreenIsEarned, FinishedIsSettled, NothingToDoIsTrue
<1> QED
  BY <1>3, <1>4, <1>5, <1>6, <1>7 DEF IInv
-----------------------------------------------------------------------------
(* Every step keeps it. *)

LEMMA WhereKept == ASSUME IInv, Next PROVE Where'
<1> USE DEF Where, Loads, Applies, InCycle, OnDevice, Ending, Noticing
<1>1. Where /\ TypeOK /\ InOrder /\ (pc = "return" => Left)
  BY DEF IInv, Reported
<1>2. CASE SetupStep
  BY <1>1, <1>2 DEF SetupStep, Start, ConfigLoads, OpenStorage, StorageOpens, SetupFails, work,
                    records
<1>3. CASE EndStep
  BY <1>1, <1>3, EndFacts
<1>4. CASE WorkStep
  <2>1. CASE Monitor \/ BeginDevice \/ Plain \/ NotifyTest
    BY <1>1, <2>1 DEF Monitor, BeginDevice, Plain, NotifyTest, Work, work, records, InOrder
  <2>2. CASE Notice
    BY <1>1, <2>2 DEF Notice
  <2>3. CASE Preflight \/ Backup \/ Restore \/ Verify \/ SaveApply
    BY <1>1, <2>3 DEF Preflight, Backup, Restore, Verify, SaveApply, Work
  <2>4. CASE Raise
    BY <1>1, <2>4, DeviceSet DEF Raise, InApply, DeviceWork
  <2>5. CASE Review
    BY <1>1, <2>5 DEF Review
  <2> QED
    BY <1>4, <2>1, <2>2, <2>3, <2>4, <2>5 DEF WorkStep
<1> QED
  BY <1>2, <1>3, <1>4, NextFacts

LEMMA KeysFacts ==
  ASSUME TypeOK
  PROVE  /\ run.command \in CommandNames /\ SetupKeys \subseteq Keys(run.command)
         /\ rows \in [Keys(run.command) -> StepStates]
<1>1. run.command \in CommandNames /\ rows \in [Keys(run.command) -> StepStates]
  BY CommandsAssumption DEF TypeOK
<1>2. Keys(run.command) = SetupKeys \cup CommandKeys(run.command)
  BY <1>1, StepsFacts
<1> QED
  BY <1>1, <1>2

LEMMA UnreadKept == ASSUME IInv, Next PROVE Unread'
<1>1. Unread /\ (pc = "rebind" => Loads)
  BY DEF IInv, Where
<1>2. SetupKeys \subseteq Keys(run.command) /\ rows \in [Keys(run.command) -> StepStates]
  BY KeysFacts DEF IInv
<1>3. CASE SetupStep
  <2>1. run' = run /\ observed' = observed /\ action' = action
    BY <1>3, SetupFacts
  <2> USE DEF Unread, Before, SettingUp, Working, OnDevice, SetupKeys, Loads, Mark, Marked
  <2>2. CASE Start
    BY <1>1, <1>2, <2>1, <2>2 DEF Start
  <2>3. CASE ConfigLoads
    BY <1>1, <1>2, <2>1, <2>3 DEF ConfigLoads
  <2>4. CASE OpenStorage
    BY <1>1, <1>2, <2>1, <2>4 DEF OpenStorage
  <2>5. CASE StorageOpens
    BY <1>1, <1>2, <2>1, <2>5 DEF StorageOpens
  <2>6. CASE SetupFails
    BY <1>1, <1>2, <2>1, <2>6 DEF SetupFails
  <2> QED
    BY <1>3, <2>2, <2>3, <2>4, <2>5, <2>6 DEF SetupStep
<1>4. CASE WorkStep
  BY <1>1, <1>2, <1>4, WorkFacts DEF Unread, Before, SettingUp, Working, OnDevice, Loads
<1>5. CASE EndStep
  BY <1>5, EndFacts DEF Unread, Before, SettingUp, Working, OnDevice, Ending
<1> QED
  BY <1>3, <1>4, <1>5, NextFacts

LEMMA InOrderKept == ASSUME IInv, Next PROVE InOrder'
<1> USE DEF InOrder, Untouched, OnDevice, SettingUp, DeviceWork, Monitoring, Applies
<1>1. InOrder /\ Where
  BY DEF IInv
<1>2. CASE SetupStep
  BY <1>1, <1>2, SetupFacts
<1>3. CASE EndStep
  BY <1>1, <1>3, EndFacts DEF Ending
<1>4. CASE WorkStep
  <2> USE <1>1 DEF Work, Where
  <2>1. CASE Monitor
    BY <2>1 DEF Monitor
  <2>2. CASE BeginDevice
    BY <2>2 DEF BeginDevice, work, records
  <2>3. CASE Plain
    BY <2>3 DEF Plain, work, records
  <2>4. CASE Notice
    BY <2>4 DEF Notice, InCycle
  <2>5. CASE NotifyTest
    BY <2>5 DEF NotifyTest
  <2>6. CASE Preflight
    BY <2>6 DEF Preflight
  <2>7. CASE Backup
    BY <2>7 DEF Backup
  <2>8. CASE Restore
    BY <2>8 DEF Restore
  <2>9. CASE Verify
    BY <2>9 DEF Verify
  <2>10. CASE SaveApply
    BY <2>10 DEF SaveApply
  <2>11. CASE Raise
    <3>1. /\ did' = did \/ did' = did \cup ({pc} \cap DeviceWork)
          /\ pc' \in {"review", "exit"} /\ UNCHANGED <<run, packages, monitor>>
      BY <2>11, DeviceSet, Zenon DEF Raise
    <3>2. "source" \notin failed'
      BY <2>11 DEF Raise
    <3> QED
      BY <3>1, <3>2
  <2>12. CASE Review
    BY <2>12 DEF Review
  <2> QED
    BY <1>4, <2>1, <2>2, <2>3, <2>4, <2>5, <2>6, <2>7, <2>8, <2>9, <2>10, <2>11, <2>12
       DEF WorkStep
<1> QED
  BY <1>2, <1>3, <1>4, NextFacts

LEMMA FailuresToldKept == ASSUME IInv, Next PROVE FailuresTold'
<1> USE DEF FailuresTold, Raised, Told, Ending, Applies
<1>1. FailuresTold /\ Where /\ InOrder /\ Unread /\ Reported
  BY DEF IInv
<1>2. CASE SetupStep
  BY <1>1, <1>2, SetupFacts DEF SettingUp, Unread, Before
<1>3. CASE EndStep
  <2>1. CASE RecordResult
    BY <1>1, <2>1 DEF RecordResult, work, records
  <2>2. CASE Emit
    BY <1>1, <2>2 DEF Emit, work, records, journal
  <2>3. CASE Finish
    <3>1. exit = 0 => observed # "FAILED"
      BY <1>1, <2>3 DEF Finish, Reported, HasNone, HasResult, NoExit
    <3>2. observed' = observed /\ pc = "exit"
      BY <2>3, <3>1 DEF Finish
    <3> QED
      BY <1>1, <1>3, <3>2, EndFacts
  <2>4. CASE Kill
    <3>1. observed' # "FAILED" => pc \in Ending /\ observed # "FAILED"
      BY <1>1, <2>4 DEF Kill, journal, Unread, IInv, TypeOK, Before, SettingUp, Working, OnDevice
    <3> QED
      BY <1>1, <1>3, <2>4, <3>1, EndFacts DEF Kill
  <2> QED
    BY <1>3, <2>1, <2>2, <2>3, <2>4 DEF EndStep
<1>4. CASE WorkStep
  <2>13. observed' = "FAILED"
    BY <1>1, <1>4, WorkFacts DEF Unread, Before, SettingUp, Working
  <2> USE <1>1 DEF Work
  <2>1. CASE Monitor
    BY <2>1 DEF Monitor
  <2>2. CASE BeginDevice
    BY <2>2 DEF BeginDevice, work, records
  <2>3. CASE Plain
    BY <2>3 DEF Plain, work, records
  <2>4. CASE Notice
    BY <2>4 DEF Notice, Where, Noticing
  <2>5. CASE NotifyTest
    BY <2>5 DEF NotifyTest
  <2>6. CASE Preflight
    BY <2>6 DEF Preflight
  <2>7. CASE Backup
    BY <2>7 DEF Backup
  <2>8. CASE Restore
    BY <2>8 DEF Restore
  <2>9. CASE Verify
    BY <2>9 DEF Verify
  <2>10. CASE SaveApply
    BY <2>10 DEF SaveApply
  <2>11. CASE Raise
    <3>1. pc' = "review" \/ pc' = "exit"
      BY <2>11, Zenon DEF Raise
    <3> QED
      BY <2>13, <3>1
  <2>12. CASE Review
    <3>1. caught' \/ pc' = "exit"
      BY <2>12 DEF Review, Where, Noticing
    <3> QED
      BY <2>13, <3>1
  <2> QED
    BY <1>4, <2>1, <2>2, <2>3, <2>4, <2>5, <2>6, <2>7, <2>8, <2>9, <2>10, <2>11, <2>12
       DEF WorkStep
<1> QED
  BY <1>2, <1>3, <1>4, NextFacts
LEMMA FiledKept == ASSUME IInv, Next PROVE ~Raised' => Filed' /\ PassedOver'
<1> SUFFICES ASSUME ~Raised' PROVE Filed' /\ PassedOver'
  OBVIOUS
<1>1. (~Raised => Filed /\ PassedOver) /\ Where /\ InOrder /\ Unread /\ Reported
  BY DEF IInv, Records
<1>2. CASE SetupStep
  BY <1>1, <1>2, SetupFacts
     DEF SettingUp, Unread, Before, Raised, Ending, Filed, PassedOver, Applied, Applies, InOrder
<1>3. CASE RecordResult
  BY <1>1, <1>3 DEF RecordResult, work, records, Raised, Ending, Filed, PassedOver, Applied,
                    Applies, ApplyStatus
<1>4. CASE EndStep /\ ~RecordResult
  <2>1. pc \in Ending /\ observed # "FAILED"
    <3>1. CASE Emit
      BY <3>1 DEF Emit, journal, Raised, Ending
    <3>2. CASE Finish
      <4>1. exit = 0 => observed # "FAILED"
        BY <1>1, <3>2 DEF Finish, Reported, HasNone, HasResult, NoExit, Ending
      <4>2. observed' = observed /\ pc = "exit" /\ pc' = "done"
        BY <3>2, <4>1 DEF Finish
      <4> QED
        BY <4>2 DEF Raised, Ending
    <3>3. CASE Kill
      BY <1>1, <3>3 DEF Kill, journal, Raised, Ending, Unread, IInv, TypeOK, Before, SettingUp,
                        Working, OnDevice
    <3> QED
      BY <1>4, <3>1, <3>2, <3>3 DEF EndStep
  <2>2. /\ UNCHANGED <<run, did, failed, monitor, packages, caught, state, offered, report>>
        /\ pc' \in Ending
    BY <1>4, EndFacts
  <2>3. Filed /\ PassedOver
    BY <1>1, <2>1, <2>2 DEF Raised, Ending
  <2> QED
    BY <2>1, <2>2, <2>3 DEF Filed, PassedOver, Applied, Applies, ApplyStatus, Ending
<1>5. CASE WorkStep
  <2> USE DEF Work, Applied, Applies, ApplyStatus
  <2>13. ~caught' /\ pc' # "review" /\ pc' # "exit" /\ UNCHANGED <<run, observed>>
    BY <1>1, <1>5, WorkFacts DEF Raised, Ending, Unread, Before, Working, SettingUp
  <2>14. ~caught /\ pc \notin {"review"} /\ Filed /\ PassedOver
    <3>1. caught => caught'
      BY <1>5, WorkFacts
         DEF WorkStep, Monitor, BeginDevice, Plain, Notice, NotifyTest, Preflight, Backup,
             Restore, Verify, SaveApply, Raise, Review, work
    <3>2. pc # "review"
      BY <1>1, <1>5, <2>13, <3>1 DEF Where, Noticing, WorkStep, Monitor, BeginDevice, Plain, Notice,
              NotifyTest, Preflight, Backup, Restore, Verify, SaveApply, Raise, Review
    <3> QED
      BY <1>1, <1>5, <2>13, <3>1, <3>2, WorkFacts DEF Raised, Ending, Working, OnDevice
  <2> USE DEF Filed, PassedOver
  <2>1. CASE Monitor
    <3>1. "verification" \notin did' /\ monitor = "NONE"
      BY <1>1, <2>1 DEF Monitor, InOrder, SettingUp
    <3>2. Filed'
      <4>1. state' = [state EXCEPT !.last = monitor']
        BY <2>1 DEF Monitor
      <4>2. state'.last = monitor'
        BY <4>1 DEF IInv, TypeOK
      <4> QED
        BY <3>1, <4>2
    <3>3. PassedOver'
      <4>1. CASE offered = "NEW"
        BY <2>1, <2>13, <3>1, <4>1 DEF Monitor, NewEntry, Waiting
      <4>2. CASE offered # "NEW"
        BY <2>1, <2>13, <3>1, <4>2 DEF Monitor, Resumes, Waiting
      <4> QED
        BY <4>1, <4>2
    <3> QED
      BY <3>2, <3>3
  <2>2. CASE BeginDevice \/ Plain
    BY <2>2, <2>13, <2>14 DEF BeginDevice, Plain, work, records
  <2>4. CASE Notice
    BY <2>4, <2>13, <2>14 DEF Notice, records, OverallOf
  <2>5. CASE NotifyTest
    BY <2>5, <2>13, <2>14 DEF NotifyTest, records
  <2>6. CASE Preflight
    BY <1>1, <2>6, <2>13, <2>14 DEF Preflight, records, OverallOf
  <2>7. CASE Backup
    BY <1>1, <2>7, <2>13, <2>14 DEF Backup, records
  <2>8. CASE Restore
    BY <1>1, <2>8, <2>13, <2>14 DEF Restore, records, InOrder, OnDevice
  <2>9. CASE Verify
    <3>1. pc = "verification" /\ "verification" \notin did
      BY <1>1, <2>9 DEF Verify, InOrder, OnDevice
    <3>2. Applies => pc' = "save" /\ report' = OverallOf(packages', failed')
      BY <2>9 DEF Verify
    <3> QED
      BY <2>9, <2>13, <2>14, <3>1, <3>2 DEF Verify
  <2>10. CASE SaveApply
    <3>1. Applied /\ pc = "save" /\ pc' # "save" /\ report = ApplyStatus
      BY <1>1, <2>10, <2>14 DEF SaveApply, Where, InOrder, OnDevice
    <3>2. state'.last = report' /\ report' = report
      BY <2>10 DEF SaveApply, Saves, Saved
    <3>3. run.command = "cycle" => offered' \notin Waiting
      BY <2>10 DEF SaveApply, Saves, Settles, Waiting
    <3> QED
      BY <2>10, <2>13, <3>1, <3>2, <3>3 DEF SaveApply
  <2>11. CASE Raise
    BY <2>11, <2>13, Zenon DEF Raise
  <2>12. CASE Review
    BY <2>12, <2>14 DEF Review
  <2> QED
    BY <1>5, <2>1, <2>2, <2>4, <2>5, <2>6, <2>7, <2>8, <2>9, <2>10, <2>11, <2>12 DEF WorkStep
<1> QED
  BY <1>2, <1>3, <1>4, <1>5, NextFacts
-----------------------------------------------------------------------------
(* What _record_result makes of the result. *)

Closed == {"SUCCESS", "WARNING", "FAILED", "SKIPPED"}

LEMMA StateValues ==
  /\ \A status : ByStatus(status) \in {"SUCCESS", "WARNING", "FAILED"}
  /\ BackupState \in Closed /\ VerificationState \in Closed
  /\ PrepareState \in Closed /\ NotificationState \in Closed /\ CycleGate \in Closed
<1>1. \A status : ByStatus(status) \in {"SUCCESS", "WARNING", "FAILED"}
  BY DEF ByStatus
<1>2. BackupState \in Closed /\ PrepareState \in Closed /\ NotificationState \in Closed
  BY DEF BackupState, PrepareState, NotificationState, Closed
<1>3. VerificationState \in Closed /\ CycleGate \in Closed
  BY <1>1 DEF VerificationState, CycleGate, Closed
<1> QED
  BY <1>1, <1>2, <1>3

\* The rows of an apply.
LEMMA ApplyMarksFacts ==
  /\ DOMAIN ApplyMarks = DeviceWork \cup {"report"}
  /\ ApplyMarks["report"] = "SUCCESS"
  /\ HasApply => /\ ApplyMarks["preflight"] = "SUCCESS"
                 /\ ApplyMarks["backup"] = BackupState
                 /\ ApplyMarks["packages"] = ByStatus(PackagesStatus)
                 /\ ApplyMarks["verification"] = VerificationState
  /\ ~HasApply => \A k \in DeviceWork : ApplyMarks[k] = "SKIPPED"
<1>1. CASE HasApply
  <2>1. ApplyMarks = AppliedMarks
    BY <1>1 DEF ApplyMarks
  <2> QED
    BY <1>1, <2>1 DEF AppliedMarks, DeviceWork
<1>2. CASE ~HasApply
  <2>1. ApplyMarks = SkippedMarks
    BY <1>2 DEF ApplyMarks
  <2> QED
    BY <1>2, <2>1 DEF SkippedMarks, DeviceWork
<1> QED
  BY <1>1, <1>2

\* A row is what the command marks it, or the apply, or what it was.
LEMMA RecordedRowsFacts ==
  /\ DOMAIN RecordedRows = DOMAIN rows
  /\ \A k \in DOMAIN rows :
        RecordedRows[k] = IF k \in DOMAIN Marks THEN Marks[k]
                          ELSE IF Applies /\ k \in DOMAIN ApplyMarks THEN ApplyMarks[k]
                          ELSE rows[k]
<1>1. CASE Applies
  BY <1>1 DEF RecordedRows, Marked
<1>2. CASE ~Applies
  BY <1>2 DEF RecordedRows, Marked
<1> QED
  BY <1>1, <1>2

\* At the return of a command the work says why it failed.
LEMMA ReturnFacts ==
  ASSUME IInv, pc = "return"
  PROVE  /\ Left /\ (caught \/ (Told /\ Filed /\ PassedOver))
         /\ (caught => run.command = "cycle" /\ InCycle)
         /\ (monitor # "NONE" <=> "source" \in did) /\ "source" \notin failed
         /\ "verification" \in did =>
              /\ "preflight" \in did
              /\ run.requireBackup \/ run.command = "backup-test" => "backup" \in did
              /\ Applies => "packages" \in did
         /\ (packages # {} => "packages" \in did) /\ ("packages" \in did => Applies)
         /\ rows["startup"] = "SUCCESS"
         /\ Loads => rows["config"] = "SUCCESS" /\ rows["storage"] = "SUCCESS"
         /\ DOMAIN rows = SetupKeys \cup CommandKeys(run.command) /\ run.command \in CommandNames
<1>1. IInv /\ pc \notin Ending /\ pc # "review"
  BY DEF Ending
<1>2. run.command \in CommandNames /\ DOMAIN rows = Keys(run.command)
  BY CommandsAssumption DEF IInv, TypeOK
<1> QED
  BY <1>1, <1>2, StepsFacts
     DEF IInv, Reported, FailuresTold, Records, Raised, Where, InOrder, Unread, Before

\* No row is left open, and a row that is marked completed is of work that was done.
RowsTrue(states) ==
    /\ \A k \in DOMAIN rows : states[k] \in Closed
    /\ \A k \in DOMAIN rows \cap {"source", "notification", "preflight", "backup", "packages"} :
          states[k] = "SUCCESS" => k \in did \ failed

LEMMA DeviceRowsTrue ==
  ASSUME IInv, pc = "return", Applies
  PROVE  /\ \A k \in DeviceWork : ApplyMarks[k] \in Closed
         /\ \A k \in {"preflight", "backup", "packages"} :
               ApplyMarks[k] = "SUCCESS" => k \in did \ failed
<1> USE ApplyMarksFacts, ReturnFacts DEF DeviceWork
<1>1. CASE HasApply
  <2>1. /\ "verification" \in did /\ ~caught /\ run.command # "preflight"
        /\ "preflight" \in did /\ "packages" \in did
    BY <1>1 DEF HasApply, Applies
  <2>2. "preflight" \notin failed /\ "backup" \notin failed
    BY <2>1 DEF Told
  <2>3. ByStatus(PackagesStatus) = "SUCCESS" => "packages" \notin failed
    BY <2>1 DEF Told, PackagesStatus, ByStatus
  <2>4. BackupState = "SUCCESS" => "backup" \in did \ failed
    BY DEF BackupState
  <2>5. BackupState # "SKIPPED" \/ "backup" \notin did
    BY <2>2 DEF BackupState
  <2>6. VerificationState # "SKIPPED" /\ ByStatus(PackagesStatus) # "SKIPPED"
    BY DEF VerificationState, ByStatus
  <2> QED
    BY <1>1, <2>1, <2>2, <2>3, <2>4, <2>5, <2>6, StateValues DEF Closed
<1>2. CASE ~HasApply
  <2>1. caught \/ did \cap DeviceWork = {}
    BY <1>2 DEF HasApply, Applies, Left, Untouched
  <2> QED
    BY <1>2, <2>1 DEF Closed
<1> QED
  BY <1>1, <1>2

LEMMA RecordedRowsTrue == ASSUME IInv, pc = "return" PROVE RowsTrue(RecordedRows)
<1> USE ReturnFacts, RecordedRowsFacts, StateValues
        DEF RowsTrue, Closed, SetupKeys, DeviceWork, CommandKeys, Loads, Applies
<1>1. NotificationState = "SUCCESS" => "notification" \in did \ failed
  BY DEF NotificationState, NoticeFailed
<1>2. "source" \notin failed
  OBVIOUS
<1>3. CASE run.command = "cycle"
  <2>1. Marks = [source |-> "SUCCESS", prepare |-> PrepareState,
                 notification |-> NotificationState, execution_gate |-> CycleGate]
    BY <1>3, Zenon DEF Marks
  <2> QED
    BY <1>1, <1>2, <1>3, <2>1, DeviceRowsTrue, ApplyMarksFacts DEF Left, Monitoring
<1>4. CASE run.command = "apply"
  <2>1. Marks = [execution_gate |-> "SUCCESS"]
    BY <1>4, Zenon DEF Marks
  <2> QED
    BY <1>4, <2>1, DeviceRowsTrue, ApplyMarksFacts
<1>5. CASE run.command = "approve"
  <2>1. Marks = [execution_gate |-> "SUCCESS", notification |-> NotificationState]
    BY <1>5, Zenon DEF Marks
  <2> QED
    BY <1>1, <1>5, <2>1, DeviceRowsTrue, ApplyMarksFacts
<1>6. CASE run.command = "run"
  <2>1. Marks = [source |-> "SUCCESS", prepare |-> PrepareState, report |-> "SUCCESS"]
    BY <1>6, Zenon DEF Marks
  <2> QED
    BY <1>2, <1>6, <2>1 DEF Left, Monitoring
<1>7. CASE run.command = "preflight"
  <2>1. Marks = [preflight |-> ByStatus(PayloadStatus), report |-> "SUCCESS"]
    BY <1>7, Zenon DEF Marks
  <2>2. PayloadStatus = IF "preflight" \in failed THEN "FAILED_VALIDATION" ELSE "PASS"
    BY <1>7 DEF PayloadStatus
  <2>3. ByStatus(PayloadStatus) = "SUCCESS" => "preflight" \notin failed
    BY <2>2 DEF ByStatus
  <2> QED
    BY <1>7, <2>1, <2>3 DEF Left
<1>8. CASE run.command = "backup-test"
  <2>1. Marks = [preflight |-> "SUCCESS", backup |-> "SUCCESS", verification |-> "SUCCESS",
                 report |-> "SUCCESS"]
    BY <1>8, Zenon DEF Marks
  <2>2. "preflight" \in did /\ "backup" \in did
    BY <1>8 DEF Left
  <2>3. "preflight" \notin failed /\ "backup" \notin failed
    BY <1>8 DEF Told
  <2> QED
    BY <1>8, <2>1, <2>2, <2>3
<1>9. CASE run.command = "notify-test"
  <2>1. Marks = [notification |-> "SUCCESS", report |-> "SUCCESS"]
    BY <1>9, Zenon DEF Marks
  <2>2. "notification" \in did \ failed
    BY <1>9 DEF Left, Told, Noticing
  <2> QED
    BY <1>9, <2>1, <2>2
<1>10. CASE run.command = "scan-host-key"
  <2>1. Marks = [config |-> "SKIPPED", storage |-> "SKIPPED", scan |-> "SUCCESS",
                 report |-> "SUCCESS"]
    BY <1>10, Zenon DEF Marks
  <2> QED
    BY <1>10, <2>1
<1>11. CASE run.command = "init"
  <2>1. Marks = [config |-> "SKIPPED", storage |-> "SUCCESS", initialize |-> "SUCCESS",
                 report |-> "SUCCESS"]
    BY <1>11, Zenon DEF Marks
  <2> QED
    BY <1>11, <2>1
<1>12. CASE run.command = "secret"
  <2>1. Marks = [secret |-> "SUCCESS"]
    BY <1>12, Zenon DEF Marks
  <2> QED
    BY <1>12, <2>1
<1>13. CASE run.command \in {"validate-config", "status"}
  <2>1. Marks = [report |-> "SUCCESS"]
    BY <1>13 DEF Marks
  <2> QED
    BY <1>13, <2>1
<1> QED
  BY <1>3, <1>4, <1>5, <1>6, <1>7, <1>8, <1>9, <1>10, <1>11, <1>12, <1>13 DEF CommandNames

\* The rows that keep a run whose packages or message failed from being green.
LEMMA TellingRows ==
  ASSUME IInv, pc = "return", Applies
  PROVE  /\ HasApply => ByStatus(PackagesStatus) \in Range(RecordedRows)
         /\ run.command \in Noticing => NotificationState \in Range(RecordedRows)
<1> USE ReturnFacts, RecordedRowsFacts, ApplyMarksFacts
        DEF SetupKeys, DeviceWork, CommandKeys, Applies, Noticing
<1>1. "packages" \in DOMAIN rows /\ (run.command \in Noticing => "notification" \in DOMAIN rows)
  OBVIOUS
<1>2. CASE run.command = "cycle"
  <2>1. Marks = [source |-> "SUCCESS", prepare |-> PrepareState,
                 notification |-> NotificationState, execution_gate |-> CycleGate]
    BY <1>2, Zenon DEF Marks
  <2> QED
    BY <1>1, <1>2, <2>1 DEF Range
<1>3. CASE run.command = "apply"
  <2>1. Marks = [execution_gate |-> "SUCCESS"]
    BY <1>3, Zenon DEF Marks
  <2> QED
    BY <1>1, <1>3, <2>1 DEF Range
<1>4. CASE run.command = "approve"
  <2>1. Marks = [execution_gate |-> "SUCCESS", notification |-> NotificationState]
    BY <1>4, Zenon DEF Marks
  <2> QED
    BY <1>1, <1>4, <2>1 DEF Range
<1> QED
  BY <1>2, <1>3, <1>4

\* A result that is shown as no failure and exits with 0 is one.
LEMMA ResultFacts ==
  ASSUME IInv, pc = "return"
  PROVE  /\ ShownStatus \in CycleStatuses \cup {"FAILED_VALIDATION", "PASS", "SENT"}
         /\ run.command = "cycle" => ShownStatus \in CycleStatuses
         /\ ExitCode \in {0, 2}
         /\ ExitCode = 0 => ShownStatus # "FAILED"
         /\ ExitCode = 0 => /\ ~caught /\ failed \subseteq {"notification", "packages"}
                            /\ HasApply => ApplyStatus # "FAILED"
         /\ HasApply => Applies
<1> USE ReturnFacts
<1>1. ExitCode \in {0, 2} /\ (HasApply => Applies)
  BY DEF ExitCode, HasApply
<1>2. ApplyStatus \in ApplyStatuses
  BY DEF ApplyStatus, OverallOf, ApplyStatuses
<1>3. monitor \in MonitorStatuses \cup {"NONE"}
  BY DEF IInv, TypeOK
<1>4. PackagesStatus \in {"FAILED", "SUCCESS_WITH_WARNING", "NO_UPDATE", "SUCCESS"}
  BY DEF PackagesStatus
<1>5. HasApply => PayloadStatus \in {ApplyStatus, "SUCCESS_WITH_NOTIFICATION_ERROR"}
                  /\ (ApplyStatus = "FAILED" => PayloadStatus = "FAILED")
  BY DEF HasApply, PayloadStatus, CycleStatus, Applies
<1>6. HasApply /\ PackagesStatus = "FAILED" => ApplyStatus = "FAILED"
  BY DEF PackagesStatus, ApplyStatus, OverallOf
<1>7. CASE HasApply
  <2>1. ShownStatus = PackagesStatus /\ ~caught
    BY <1>7 DEF ShownStatus, HasApply
  <2>2. ShownStatus \in CycleStatuses
    BY <1>4, <2>1 DEF CycleStatuses, ApplyStatuses
  <2>3. ExitCode = 0 => ApplyStatus # "FAILED"
    BY <1>5, <1>7 DEF ExitCode
  <2>4. ApplyStatus # "FAILED" => "verification" \notin failed
    BY DEF ApplyStatus, OverallOf
  <2>5. "preflight" \notin failed
    BY <1>7, <2>1 DEF HasApply, Applies, Told
  <2>6. failed \subseteq {"notification", "packages", "verification", "preflight"}
    BY <2>1 DEF Told
  <2>7. ExitCode = 0 => failed \subseteq {"notification", "packages"}
    BY <2>3, <2>4, <2>5, <2>6
  <2>8. ExitCode = 0 => ShownStatus # "FAILED"
    BY <1>6, <1>7, <2>1, <2>3
  <2> QED
    BY <1>1, <2>1, <2>2, <2>3, <2>7, <2>8
<1>8. CASE ~HasApply /\ run.command = "cycle"
  <2>1. ShownStatus \in {CycleStatus, monitor} /\ PayloadStatus = CycleStatus /\ monitor # "NONE"
    BY <1>8 DEF ShownStatus, PayloadStatus, Left, Monitoring
  <2>2. CycleStatus \in CycleStatuses
    BY <1>3, <1>8, <2>1 DEF CycleStatus, CycleStatuses, ApplyStatuses
  <2>3. caught => CycleStatus = "FAILED"
    BY DEF CycleStatus
  <2>4. ~caught => failed \subseteq {"notification", "packages"}
    BY <1>8 DEF Left, Told, HasApply, Applies
  <2>5. monitor \in CycleStatuses /\ monitor # "FAILED"
    BY <1>3, <2>1 DEF CycleStatuses, MonitorStatuses
  <2> QED
    BY <1>1, <1>8, <2>1, <2>2, <2>3, <2>4, <2>5 DEF ExitCode
<1>9. CASE ~HasApply /\ run.command # "cycle"
  <2>1. ~caught /\ run.command \notin {"apply", "approve"}
    BY <1>9 DEF HasApply, Left, Applies
  <2>2. ShownStatus = PayloadStatus
    BY <1>9 DEF ShownStatus
  <2>3. PayloadStatus \in CycleStatuses \cup {"FAILED_VALIDATION", "PASS", "SENT"}
        /\ PayloadStatus # "FAILED"
    BY <1>3, <1>9, <2>1
       DEF PayloadStatus, CycleStatuses, ApplyStatuses, MonitorStatuses, Left, Monitoring
  <2>4. "preflight" \in failed => PayloadStatus = "FAILED_VALIDATION"
    BY <2>1 DEF Told, PayloadStatus
  <2>5. failed \subseteq {"preflight", "packages"}
    BY <1>9, <2>1 DEF Told, Applies, Noticing
  <2> QED
    BY <1>1, <1>9, <2>1, <2>2, <2>3, <2>4, <2>5 DEF ExitCode
<1> QED
  BY <1>7, <1>8, <1>9

LEMMA GreenResult ==
  ASSUME IInv, pc = "return", ExitCode = 0, Range(RecordedRows) \cap {"WARNING", "FAILED"} = {}
  PROVE  Earned
<1> USE ReturnFacts, ResultFacts
<1>1. CASE HasApply
  <2>1. PackagesStatus \in {"SUCCESS", "NO_UPDATE"}
    BY <1>1, TellingRows DEF PackagesStatus, ByStatus
  <2>2. packages \subseteq PackageStatuses
    BY DEF IInv, TypeOK
  <2>3. packages \subseteq {"SUCCESS", "SKIPPED_NO_UPDATE"}
    BY <2>1, <2>2 DEF PackagesStatus, PackageStatuses, FailedPackages
  <2>4. "packages" \notin failed
    BY <2>3 DEF Told, FailedPackages
  <2>5. run.command \in Noticing => NotificationState # "WARNING"
    BY <1>1, TellingRows
  <2>6. "notification" \notin failed
    BY <2>5 DEF Told, NotificationState, NoticeFailed
  <2> QED
    BY <1>1, <2>3, <2>4, <2>6 DEF Earned, HasApply, Applies
<1>2. CASE ~HasApply
  <2>1. "packages" \notin did
    BY <1>2 DEF Left, HasApply, Applies, Untouched, DeviceWork
  <2>2. packages = {} /\ "packages" \notin failed
    BY <2>1 DEF Told
  <2>3. "notification" \in failed => run.command = "cycle" /\ "notification" \in did
    BY <1>2 DEF Told, Noticing, HasApply, Left, Applies
  <2>4. run.command = "cycle" => NotificationState # "WARNING"
    BY TellingRows DEF Applies, Noticing
  <2>5. "notification" \notin failed
    BY <2>3, <2>4 DEF NotificationState, NoticeFailed
  <2> QED
    BY <2>1, <2>2, <2>5 DEF Earned
<1> QED
  BY <1>1, <1>2

\* Nothing to do is suggested of a result that touched no package but current ones.
LEMMA NothingToDoResult ==
  ASSUME IInv, pc = "return", Action(ShownStatus, ExitCode) = "nothing to do"
  PROVE  /\ failed \subseteq {"notification"} /\ ~AwaitsApproval
         /\ packages \subseteq {"SKIPPED_NO_UPDATE"}
         /\ run.command = "cycle" /\ run.mode = "unattended" => offered \notin Waiting
<1> USE ReturnFacts, ResultFacts
<1>1. /\ ~AwaitsApproval /\ ExitCode = 0
      /\ ShownStatus \in {"NO_CHANGE", "NO_CONTENT_CHANGE", "NO_UPDATE"}
  BY DEF Action
<1>2. CASE HasApply
  <2>1. PackagesStatus = "NO_UPDATE"
    BY <1>1, <1>2 DEF ShownStatus, PackagesStatus
  <2>2. packages = {"SKIPPED_NO_UPDATE"}
    BY <2>1 DEF PackagesStatus
  <2>3. "packages" \notin failed
    BY <1>1, <2>2 DEF Told, FailedPackages
  <2>4. run.command = "cycle" /\ run.mode = "unattended" => offered \notin Waiting
    BY <1>1, <1>2 DEF HasApply, PassedOver, Applied
  <2> QED
    BY <1>1, <2>2, <2>3, <2>4
<1>3. CASE ~HasApply
  <2>1. run.command \in Monitoring /\ monitor \in {"NO_CHANGE", "NO_CONTENT_CHANGE"}
    <3>1. CASE run.command \in Monitoring
      <4>1. run.command = "cycle" => ShownStatus \in {monitor, CycleStatus}
        BY <1>3 DEF ShownStatus, PayloadStatus
      <4>2. run.command = "run" => ShownStatus = monitor
        BY <1>3 DEF ShownStatus, PayloadStatus
      <4>3. CycleStatus \in {"NO_CHANGE", "NO_CONTENT_CHANGE", "NO_UPDATE"} =>
              CycleStatus = monitor
        BY <1>3 DEF CycleStatus
      <4>4. monitor # "NO_UPDATE"
        BY DEF IInv, TypeOK, MonitorStatuses
      <4> QED
        BY <1>1, <3>1, <4>1, <4>2, <4>3, <4>4 DEF Monitoring
    <3>2. CASE run.command \notin Monitoring
      BY <1>1, <1>3, <3>2 DEF ShownStatus, PayloadStatus, Monitoring, HasApply, Left, Applies
    <3> QED
      BY <3>1, <3>2
  <2>2. Untouched /\ "packages" \notin did
    BY <1>3, <2>1 DEF Left, Monitoring, Untouched, DeviceWork, InCycle, Applies
  <2>3. "packages" \notin failed
    BY <1>1, <2>2 DEF Told, Untouched
  <2>4. run.command = "cycle" /\ run.mode = "unattended" => offered \notin Waiting
    <3>1. "verification" \notin did
      BY <2>2 DEF Untouched, DeviceWork
    <3> QED
      BY <1>1, <2>1, <3>1 DEF PassedOver, Applied
  <2> QED
    BY <1>1, <2>2, <2>3, <2>4 DEF Untouched
<1> QED
  BY <1>2, <1>3

\* The row that fail_first_unfinished fails, if it does.
LEMMA FailFirstFacts ==
  ASSUME TypeOK
  PROVE  /\ FailFirstUnfinished \in [Keys(run.command) -> StepStates]
         /\ \A k \in Keys(run.command) : FailFirstUnfinished[k] \in {rows[k], "FAILED"}
         /\ Settled => FailFirstUnfinished = rows
         /\ exit # 0 /\ observed = "FAILED" =>
               Settled \/ "FAILED" \in Range(FailFirstUnfinished)
<1> DEFINE steps == Steps(run.command)
<1>1. /\ rows \in [Keys(run.command) -> StepStates] /\ DOMAIN steps \subseteq Nat
      /\ Keys(run.command) = {steps[i] : i \in DOMAIN steps}
  BY CommandsAssumption, StepsFacts DEF TypeOK, Keys, ToSet
<1>2. Unfinished = {i \in DOMAIN steps : rows[steps[i]] \in Open}
  BY DEF Unfinished, Open
<1> HIDE DEF steps
<1>3. Settled <=> Unfinished = {}
  BY <1>1, <1>2 DEF Settled, Range
<1>4. Unfinished # {} => FirstUnfinished \in Keys(run.command)
  <2> SUFFICES ASSUME Unfinished # {} PROVE FirstUnfinished \in Keys(run.command)
    OBVIOUS
  <2>1. PICK i \in Unfinished : \A j \in Unfinished : i <= j
    <3>1. Unfinished \subseteq Nat
      BY <1>1, <1>2
    <3> QED
      BY <3>1, LeastElement
  <2> DEFINE first == CHOOSE n \in Unfinished : \A j \in Unfinished : n <= j
  <2>2. first \in Unfinished
    BY <2>1, Zenon
  <2>3. FirstUnfinished = steps[first]
    BY Zenon DEF FirstUnfinished, steps
  <2> HIDE DEF first
  <2> QED
    BY <1>1, <1>2, <2>2, <2>3
<1>5. CASE /\ exit # 0 /\ observed = "FAILED"
           /\ "FAILED" \notin Range(rows) /\ Unfinished # {}
  <2>1. FailFirstUnfinished = [rows EXCEPT ![FirstUnfinished] = "FAILED"]
    BY <1>5 DEF FailFirstUnfinished
  <2> QED
    BY <1>1, <1>3, <1>4, <1>5, <2>1 DEF StepStates, Range
<1>6. CASE ~(/\ exit # 0 /\ observed = "FAILED"
             /\ "FAILED" \notin Range(rows) /\ Unfinished # {})
  <2>1. FailFirstUnfinished = rows
    BY <1>6 DEF FailFirstUnfinished
  <2> QED
    BY <1>1, <1>3, <1>6, <2>1
<1> QED
  BY <1>5, <1>6
-----------------------------------------------------------------------------
(* The end of a run. *)

Properties ==
    /\ GreenIsEarned /\ GreenRowsAreTrue /\ FinishedIsSettled
    /\ NothingToDoIsTrue

\* What a result is worth depends on the work, which is over.
LEMMA RecordKept ==
  ASSUME IInv, RecordResult
  PROVE  Reported' /\ Properties'
<1>1. /\ pc = "return" /\ pc' = "emit" /\ rows' = RecordedRows /\ exit' = ExitCode
      /\ observed' = ShownStatus /\ action' = Action(ShownStatus, ExitCode)
      /\ UNCHANGED <<run, did, failed, monitor, packages, caught, state, offered, report, final>>
  BY DEF RecordResult, work, records
<1>2. DOMAIN rows' = DOMAIN rows /\ DOMAIN rows = Keys(run.command)
  BY <1>1, RecordedRowsFacts DEF IInv, TypeOK
<1>3. RowsTrue(rows') /\ final' = "NONE"
  BY <1>1, RecordedRowsTrue DEF IInv, Reported
<1>4. HasResult'
  <2>1. Left' /\ ShownStatus' = ShownStatus /\ ExitCode' = ExitCode
    BY <1>1, ReturnFacts
       DEF Left, Untouched, InCycle, Applies, ShownStatus, ExitCode, PayloadStatus, CycleStatus,
           HasApply, ApplyStatus, NoticeFailed, PackagesStatus
  <2>2. Settled'
    BY <1>2, <1>3 DEF Settled, Range, RowsTrue, Closed, Open
  <2>3. Green' => Earned'
    BY <1>1, GreenResult DEF Green, Earned
  <2>4. /\ exit' = 0 => observed' # "FAILED"
        /\ run.command = "cycle" => observed' \in CycleStatuses
    BY <1>1, ResultFacts
  <2>5. caught' \/ (Told' /\ Filed' /\ PassedOver')
    BY <1>1, ReturnFacts DEF Told, Filed, PassedOver, Applied, Applies, ApplyStatus
  <2> QED
    BY <1>1, <2>1, <2>2, <2>3, <2>4, <2>5 DEF HasResult
<1>5. Reported'
  BY <1>1, <1>3, <1>4 DEF Reported
<1>6. GreenRowsAreTrue'
  BY <1>1, <1>2, <1>3, DeviceSet
     DEF GreenRowsAreTrue, RowsTrue, WorkKeys, DeviceWork
<1>7. NothingToDoIsTrue'
  BY <1>1, NothingToDoResult DEF NothingToDoIsTrue, AwaitsApproval, Waiting
<1>8. GreenIsEarned' /\ FinishedIsSettled'
  BY <1>3 DEF GreenIsEarned, FinishedIsSettled
<1> QED
  BY <1>5, <1>6, <1>7, <1>8 DEF Properties

LEMMA LeftFacts == ASSUME IInv, WorkStep, pc' = "return" PROVE Left'
<1> USE DEF Left, Untouched, Applies, Monitoring, InCycle, DeviceWork, OnDevice, SettingUp, Work
<1>1. Where /\ InOrder
  BY DEF IInv
<1> USE <1>1 DEF Where, InOrder
<1>2. CASE Monitor
  BY <1>2 DEF Monitor
<1>3. CASE Plain
  BY <1>3 DEF Plain, work, records
<1>4. CASE Notice
  BY <1>4 DEF Notice, Noticing
<1>5. CASE NotifyTest
  BY <1>5 DEF NotifyTest
<1>6. CASE Preflight
  BY <1>6 DEF Preflight
<1>7. CASE Verify
  BY <1>7 DEF Verify
<1>8. CASE SaveApply
  BY <1>8 DEF SaveApply
<1>9. CASE BeginDevice \/ Backup \/ Restore
  BY <1>9 DEF BeginDevice, Backup, Restore
<1>10. CASE Raise
  BY <1>10, Zenon DEF Raise
<1>11. CASE Review
  BY <1>11 DEF Review
<1> QED
  BY <1>2, <1>3, <1>4, <1>5, <1>6, <1>7, <1>8, <1>9, <1>10, <1>11 DEF WorkStep

LEMMA FacedFacts ==
  ASSUME IInv, SetupStep \/ WorkStep, pc' = "exit", run.command = "approve"
  PROVE  Faced'
<1>1. Where /\ InOrder /\ FailuresTold /\ Records /\ run' = run
  BY SetupFacts, WorkFacts DEF IInv
<1>2. CASE SetupStep
  BY <1>1, <1>2, SetupFacts DEF InOrder, Faced
<1>3. CASE Review
  BY <1>1, <1>3 DEF Review, Records, Faced
<1>4. CASE Raise
  <2>1. /\ failed' = failed \cup {pc} /\ packages' = packages /\ report' = report
        /\ did' = did \/ did' = did \cup ({pc} \cap DeviceWork)
    BY <1>4, DeviceSet, Zenon DEF Raise
  <2>2. pc \in {"rebind", "review", "final_notice"}
    BY <1>1, <1>4, DeviceSet DEF Raise, InApply, DeviceWork, Where, OnDevice
  <2>3. CASE pc = "rebind"
    BY <1>1, <2>1, <2>3 DEF InOrder, SettingUp, Faced, DeviceWork
  <2>4. CASE pc = "review"
    BY <2>1, <2>4 DEF Faced
  <2>5. CASE pc = "final_notice"
    <3>1. Told /\ Filed
      BY <1>1, <2>5 DEF Where, FailuresTold, Records, Raised, Ending
    <3>2. report = ApplyStatus
      BY <1>1, <2>5, <3>1 DEF Filed, Applied, InOrder, Where, Applies
    <3> QED
      BY <2>1, <2>5, <3>1, <3>2 DEF ApplyStatus, OverallOf, Told, Faced
  <2> QED
    BY <2>2, <2>3, <2>4, <2>5
<1>5. CASE WorkStep /\ ~Review /\ ~Raise
  BY <1>5 DEF WorkStep, Monitor, BeginDevice, Plain, Notice, NotifyTest, Preflight, Backup,
              Restore, Verify, SaveApply, Work
<1> QED
  BY <1>2, <1>3, <1>4, <1>5

\* A step that records no result leaves the command's rows open.
LEMMA QuietKept ==
  ASSUME IInv, SetupStep \/ WorkStep \/ (Kill /\ pc \in Before)
  PROVE  Reported' /\ Properties'
<1>1. /\ pc \in Before /\ final = "NONE" /\ observed = "FAILED" /\ action = "none" /\ exit = NoExit
      /\ \A k \in Keys(run.command) \ SetupKeys : rows[k] = "TODO"
      /\ rows \in [Keys(run.command) -> StepStates]
  <2>1. pc \in Before
    BY SetupFacts, WorkFacts DEF Before, SettingUp, Working
  <2> QED
    BY <2>1 DEF IInv, Unread, Reported, TypeOK, Before, SettingUp, Working, OnDevice
<1>2. /\ UNCHANGED <<run, observed, action, final>>
      /\ \/ pc' \notin Ending /\ (pc' = "return" => WorkStep)
         \/ pc' = "exit" /\ exit' = 1
         \/ pc' = "killed" /\ exit' = NoExit
  <2>1. CASE SetupStep
    BY <2>1, SetupFacts DEF Ending
  <2>2. CASE WorkStep
    BY <2>2, WorkFacts DEF Ending, Working, OnDevice
  <2>3. CASE Kill
    BY <1>1, <2>3 DEF Kill, journal
  <2> QED
    BY <2>1, <2>2, <2>3
<1>3. \A k \in Keys(run.command) \ SetupKeys : rows'[k] = "TODO"
  <2>1. CASE SetupStep
    <3> USE <1>1 DEF SetupKeys, Mark, Marked
    <3>1. CASE Start
      BY <3>1 DEF Start
    <3>2. CASE ConfigLoads
      BY <3>2 DEF ConfigLoads
    <3>3. CASE OpenStorage \/ StorageOpens
      BY <3>3 DEF OpenStorage, StorageOpens
    <3>4. CASE SetupFails
      BY <3>4 DEF SetupFails
    <3> QED
      BY <2>1, <3>1, <3>2, <3>3, <3>4 DEF SetupStep
  <2>2. CASE WorkStep
    BY <1>1, <2>2, WorkFacts
  <2>3. CASE Kill
    BY <1>1, <2>3 DEF Kill, journal
  <2> QED
    BY <2>1, <2>2, <2>3
<1>4. Reported'
  <2>1. pc' = "return" => Left'
    BY <1>2, LeftFacts
  <2>2. pc' = "exit" /\ run'.command = "approve" => Faced'
    <3>1. pc' = "exit" => SetupStep \/ WorkStep
      BY DEF Kill
    <3> QED
      BY <1>2, <3>1, FacedFacts
  <2>3. pc' \in Ending => pc' = "killed" \/ pc' = "exit"
    BY <1>2
  <2>4. pc' \in Ending => HasNone'
    BY <1>1, <1>2, <1>3, <2>2, <2>3 DEF HasNone
  <2>5. final' = "NONE"
    BY <1>1, <1>2
  <2> QED
    BY <2>1, <2>4, <2>5 DEF Reported
<1>5. GreenRowsAreTrue'
  BY <1>2, <1>3, DeviceSet
     DEF GreenRowsAreTrue, WorkKeys, DeviceWork, SetupKeys
<1>6. GreenIsEarned' /\ FinishedIsSettled' /\ NothingToDoIsTrue'
  BY <1>1, <1>2 DEF GreenIsEarned, FinishedIsSettled, NothingToDoIsTrue
<1> QED
  BY <1>4, <1>5, <1>6 DEF Properties

\* A result lasts, whatever the rest of the run does.
LEMMA ResultLasts ==
  ASSUME HasResult, exit' \in {exit, 1}, pc # "save", pc' # "save",
         UNCHANGED <<run, rows, did, failed, monitor, packages, caught, state, offered, report, observed>>
  PROVE  HasResult'
<1>1. Left' /\ ShownStatus' = ShownStatus /\ ExitCode' = ExitCode
  BY DEF HasResult, Left, Untouched, InCycle, Applies, ShownStatus, ExitCode, PayloadStatus,
         CycleStatus, HasApply, ApplyStatus, NoticeFailed, PackagesStatus
<1>2. Settled' /\ (Green' => Earned')
  BY DEF HasResult, Settled, Green, Earned, ByStatus
<1>3. caught' \/ (Told' /\ Filed' /\ PassedOver')
  BY DEF HasResult, Told, Filed, PassedOver, Applied, Applies, ApplyStatus
<1> QED
  BY <1>1, <1>2, <1>3 DEF HasResult

LEMMA LastKept ==
  ASSUME IInv, Emit \/ (Kill /\ pc \in Ending)
  PROVE  Reported' /\ Properties'
<1>1. /\ UNCHANGED <<run, rows, did, failed, monitor, packages, caught, observed, action, final>>
      /\ UNCHANGED <<state, offered, report>>
      /\ exit' \in {exit, 1} /\ pc' \in {"exit", "killed"} /\ pc \in {"emit", "exit"}
      /\ pc = "emit" => pc' = "killed" \/ Emit
      /\ Kill => exit' = exit /\ pc' = "killed"
  BY DEF Emit, Kill, work, records, journal, Ending
<1>2. (HasNone \/ HasResult) /\ final = "NONE"
  BY <1>1 DEF IInv, Reported, Ending
<1>3. HasResult => HasResult'
  BY <1>1, ResultLasts
<1>4. ~HasResult => HasNone'
  BY <1>1, <1>2 DEF HasNone, Faced, Emit
<1>5. Reported'
  BY <1>1, <1>2, <1>3, <1>4 DEF Reported, Ending
<1>6. Properties'
  BY <1>1, <1>2 DEF IInv, Properties, GreenIsEarned, FinishedIsSettled, GreenRowsAreTrue,
                    NothingToDoIsTrue, AwaitsApproval
<1> QED
  BY <1>5, <1>6

LEMMA FinishFacts ==
  ASSUME IInv, Finish
  PROVE  observed' = observed /\ (run.command = "cycle" => observed \in CycleStatuses)
<1>1. pc = "exit" /\ (HasNone \/ HasResult)
  BY DEF Finish, IInv, Reported, Ending
<1>2. HasNone => exit = 1 /\ observed = "FAILED"
  BY <1>1 DEF HasNone
<1>3. HasResult => /\ exit = 0 => observed # "FAILED"
                   /\ run.command = "cycle" => observed \in CycleStatuses
  BY DEF HasResult
<1>4. observed' = IF exit = 0 /\ observed = "FAILED" THEN "SUCCESS" ELSE observed
  BY DEF Finish
<1> QED
  BY <1>1, <1>2, <1>3, <1>4 DEF CycleStatuses, ApplyStatuses

LEMMA FinishKept ==
  ASSUME IInv, Finish
  PROVE  Reported' /\ Properties'
<1>1. /\ UNCHANGED <<run, did, failed, monitor, packages, caught, state, offered, report, exit>>
      /\ pc = "exit" /\ pc' = "done" /\ rows' = FailFirstUnfinished
      /\ action' \in {action, "review the failed rows"}
      /\ final' = FinalState(exit, observed', Range(rows'))
  BY DEF Finish, work, records
<1>2. HasNone \/ HasResult
  BY <1>1 DEF IInv, Reported, Ending
<1>3. observed' = observed
  BY FinishFacts
<1>4. /\ rows' \in [Keys(run.command) -> StepStates] /\ rows \in [Keys(run.command) -> StepStates]
      /\ \A k \in Keys(run.command) : rows'[k] \in {rows[k], "FAILED"}
      /\ Settled => rows' = rows
      /\ exit # 0 /\ observed = "FAILED" => Settled \/ "FAILED" \in Range(rows')
  BY <1>1, FailFirstFacts DEF IInv, TypeOK
<1>5. HasResult => HasResult' /\ rows' = rows
  <2>1. HasResult => rows' = rows
    BY <1>4 DEF HasResult
  <2> QED
    BY <1>1, <1>3, <2>1, ResultLasts
<1>6. HasNone => HasNone' /\ exit = 1
  BY <1>1, <1>3, <1>4 DEF HasNone, Faced
<1>7. Reported'
  BY <1>1, <1>2, <1>5, <1>6 DEF Reported, Ending
<1>8. GreenIsEarned'
  <2>1. final' = "SUCCESS" => /\ exit' = 0 /\ ByStatus(observed') # "WARNING"
                              /\ Range(rows') \cap {"WARNING", "FAILED"} = {}
    BY <1>1, Zenon DEF FinalState
  <2>2. HasResult' => (Green' => Earned')
    BY DEF HasResult
  <2>3. exit' = exit
    BY <1>1
  <2>4. final' = "SUCCESS" => Green' /\ HasResult'
    BY <1>2, <1>5, <1>6, <2>1, <2>3 DEF Green
  <2> QED
    BY <2>1, <2>2, <2>4 DEF GreenIsEarned, Earned
<1>9. GreenRowsAreTrue'
  BY <1>1, <1>4 DEF IInv, GreenRowsAreTrue
<1>10. FinishedIsSettled'
  <2>1. HasResult => Settled'
    BY <1>5 DEF HasResult
  <2>2. HasNone => Settled' \/ (exit' = 1 /\ "FAILED" \in Range(rows'))
    <3>1. Settled => Settled'
      BY <1>4 DEF Settled
    <3>2. HasNone => exit' = 1 /\ exit # 0 /\ observed = "FAILED"
      <4>1. HasNone => exit = 1
        BY <1>6
      <4>2. HasNone => observed = "FAILED"
        BY DEF HasNone
      <4>3. exit' = exit
        BY <1>1
      <4> QED
        BY <4>1, <4>2, <4>3
    <3> QED
      BY <1>4, <3>1, <3>2, Zenon
  <2> QED
    BY <1>2, <2>1, <2>2 DEF FinishedIsSettled, Settled, Open
<1>11. NothingToDoIsTrue'
  BY <1>1 DEF IInv, NothingToDoIsTrue, AwaitsApproval
<1> QED
  BY <1>7, <1>8, <1>9, <1>10, <1>11 DEF Properties

-----------------------------------------------------------------------------
(* The types. *)

Reasons == WorkKeys \cup {"rebind", "work", "notice", "final_notice", "save", "review"}
WorkTyped ==
    /\ did \subseteq WorkKeys /\ failed \subseteq Reasons
    /\ monitor \in MonitorStatuses \cup {"NONE"} /\ packages \subseteq PackageStatuses
    /\ caught \in BOOLEAN /\ state \in StateRecord /\ report \in ApplyStatuses \cup {"NONE"}
    /\ offered \in Entries \cup {"NEW"}
Places == Before \cup Ending

Shown == CycleStatuses \cup {"FAILED_VALIDATION", "PASS", "SENT"}
Actions == {"none", "nothing to do", "approve the manifest", "review the failed rows",
            "check the notification settings"}
JournalTyped ==
    /\ rows \in [Keys(run.command) -> StepStates] /\ observed \in Shown /\ action \in Actions
    /\ final \in {"NONE", "SUCCESS", "WARNING", "FAILED"}
    /\ cycle \in CycleStatuses \cup {"NONE", "OPEN"}
Runs == [command : Commands, mode : Modes, requireBackup : BOOLEAN]
Typed ==
    /\ run \in Runs /\ pc \in Places /\ exit \in {NoExit, 0, 1, 2} /\ WorkTyped /\ JournalTyped

LEMMA TypeFacts == TypeOK <=> Typed
<1>1. Places = {"start", "config", "rebind", "storage", "work", "notice", "preflight", "backup",
                "packages", "verification", "save", "review", "final_notice", "return", "emit",
                "exit", "done", "killed"}
  BY DEF Places, Before, Ending, SettingUp, Working, OnDevice
<1> QED
  BY <1>1, Zenon DEF TypeOK, Typed, WorkTyped, JournalTyped, StateRecord, Reasons, Shown, Actions,
                     Runs

LEMMA NextTypeFacts == TypeOK' <=> Typed'
BY TypeFacts, PTL

LEMMA SetupTyped == ASSUME TypeOK, SetupStep PROVE TypeOK'
<1>1. TypeOK /\ SetupKeys \subseteq Keys(run.command)
  BY KeysFacts
<1>2. run' = run /\ WorkTyped' /\ pc' \in Places /\ exit' \in {NoExit, 0, 1, 2}
  <2>1. WorkTyped /\ exit \in {NoExit, 0, 1, 2}
    BY TypeFacts DEF Typed
  <2>2. WorkTyped'
    BY <2>1, SetupFacts DEF WorkTyped
  <2> QED
    BY <2>1, <2>2, SetupFacts DEF Places, Before, SettingUp, Working, Ending
<1>3. observed' = observed /\ action' = action /\ final' = final
  BY SetupFacts
<1>4. rows' \in [Keys(run.command) -> StepStates] /\ cycle' \in {cycle, "OPEN"}
  <2>0. rows \in [Keys(run.command) -> StepStates]
    BY DEF TypeOK
  <2> USE <2>0 DEF Mark, Marked, StepStates
  <2>1. CASE Start
    BY <2>1 DEF Start
  <2>2. CASE ConfigLoads
    BY <2>2 DEF ConfigLoads
  <2>3. CASE OpenStorage \/ StorageOpens
    BY <2>3 DEF OpenStorage, StorageOpens
  <2>4. CASE SetupFails
    BY <2>4 DEF SetupFails
  <2> QED
    BY <2>1, <2>2, <2>3, <2>4 DEF SetupStep
<1>5. cycle' \in CycleStatuses \cup {"NONE", "OPEN"}
  BY <1>1, <1>4 DEF TypeOK
<1> QED
  <2>1. JournalTyped'
    BY <1>1, <1>2, <1>3, <1>4, <1>5, TypeFacts DEF Typed, JournalTyped
  <2> QED
    BY <1>1, <1>2, <2>1, TypeFacts, NextTypeFacts DEF Typed

LEMMA SavedType ==
  ASSUME state \in StateRecord, report \in ApplyStatuses
  PROVE  Saved \in StateRecord
<1>1. (state.unresolved \/ report = "FAILED") \in BOOLEAN
  OBVIOUS
<1>2. report \in ApplyStatuses \cup MonitorStatuses \cup {"NONE"}
  OBVIOUS
<1> QED
  BY <1>1, <1>2, StateRecordType DEF Saved

\* What an exception or a handler saves is a record.
LEMMA StateTyped ==
  ASSUME TypeOK, WorkStep, pc = "save" => report \in ApplyStatuses
  PROVE  state' \in StateRecord /\ offered' \in Entries \cup {"NEW"}
<1>1. /\ state \in StateRecord
      /\ MonitorStatuses \subseteq ApplyStatuses \cup MonitorStatuses \cup {"NONE"}
      /\ "FAILED" \in ApplyStatuses \cup MonitorStatuses \cup {"NONE"}
  BY DEF TypeOK, StateRecord, ApplyStatuses
<1>2. \A status \in ApplyStatuses \cup MonitorStatuses \cup {"NONE"} :
         [state EXCEPT !.last = status] \in StateRecord
  BY <1>1 DEF StateRecord
<1>3. /\ offered \in Entries \cup {"NEW"} /\ NewEntry \subseteq Entries
      /\ \A status, entries : status \in Entries /\ Settles(status, entries) =>
            offered' \in Entries \cup {"NEW"}
      /\ {"APPLY_FAILED", "APPLIED", "REVIEW_REQUIRED"} \subseteq Entries
  BY DEF TypeOK, Entries, Unresolved, NewEntry, Settles
<1>4. CASE Monitor
  <2>1. monitor' \in MonitorStatuses /\ state' = [state EXCEPT !.last = monitor']
    BY <1>4 DEF Monitor, MonitorStatuses
  <2>2. offered' \in NewEntry \cup {offered}
    BY <1>4 DEF Monitor
  <2> QED
    BY <1>1, <1>2, <1>3, <2>1, <2>2
<1>5. CASE BeginDevice \/ Plain \/ Notice \/ NotifyTest \/ Preflight \/ Backup \/ Restore \/ Verify
  BY <1>1, <1>3, <1>5 DEF BeginDevice, Plain, Notice, NotifyTest, Preflight, Backup, Restore,
                          Verify, work, records
<1>6. pc = "save" /\ Saves => state' \in StateRecord /\ offered' \in Entries \cup {"NEW"}
  <2>1. pc = "save" => Saved \in StateRecord
    BY <1>1, SavedType
  <2> QED
    BY <1>3, <2>1 DEF Saves
<1>7. CASE SaveApply
  BY <1>6, <1>7 DEF SaveApply
<1>8. CASE Raise
  <2>1. UNCHANGED <<state, offered>> \/ (pc = "save" /\ Saves) \/ MonitorRaises
    BY <1>8, Zenon DEF Raise
  <2>2. MonitorRaises => state' \in StateRecord /\ offered' \in Entries \cup {"NEW"}
    BY <1>1, <1>2, <1>3 DEF MonitorRaises
  <2> QED
    BY <1>1, <1>3, <1>6, <2>1, <2>2
<1>9. CASE Review
  <2>1. [last |-> "FAILED", unresolved |-> TRUE] \in StateRecord
    BY <1>1, StateRecordType
  <2>2. \/ state' = [last |-> "FAILED", unresolved |-> TRUE]
           /\ Settles("REVIEW_REQUIRED", Entries \ {"CONTENT_DUPLICATE"})
        \/ UNCHANGED <<state, offered>>
    BY <1>9 DEF Review
  <2> QED
    BY <1>1, <1>3, <2>1, <2>2
<1> QED
  BY <1>4, <1>5, <1>7, <1>8, <1>9 DEF WorkStep

LEMMA WorkStepTyped == ASSUME IInv, WorkStep PROVE TypeOK'
<1>1. TypeOK /\ WorkTyped /\ JournalTyped /\ run \in Runs
  BY TypeFacts DEF IInv, Typed
<1>2. pc = "save" => report \in ApplyStatuses
  <2> SUFFICES ASSUME pc = "save" PROVE report \in ApplyStatuses
    OBVIOUS
  <2>1. Filed /\ Applies /\ "verification" \in did
    BY DEF IInv, Where, InOrder, Records, Raised, Ending, OnDevice
  <2> QED
    BY <2>1 DEF Filed, Applied, ApplyStatus, OverallOf, ApplyStatuses
<1>3. state' \in StateRecord /\ offered' \in Entries \cup {"NEW"}
  BY <1>1, <1>2, StateTyped
<1>4. JournalTyped' /\ run' = run /\ pc' \in Places
  BY <1>1, WorkFacts DEF JournalTyped, Places, Before, Working, Ending
<1>5. exit' \in {NoExit, 0, 1, 2}
  BY <1>1, WorkFacts, TypeFacts DEF Typed
<1>6. did' \subseteq WorkKeys /\ monitor' \in MonitorStatuses \cup {"NONE"}
  <2> USE <1>1, DeviceSet DEF WorkTyped, WorkKeys, DeviceWork, Work
  <2>1. CASE Monitor
    BY <2>1 DEF Monitor, MonitorStatuses
  <2>2. CASE BeginDevice \/ Plain
    BY <2>2 DEF BeginDevice, Plain, work
  <2>3. CASE Notice \/ NotifyTest
    BY <2>3 DEF Notice, NotifyTest
  <2>4. CASE Preflight \/ Backup \/ Restore \/ Verify \/ SaveApply
    BY <2>4 DEF Preflight, Backup, Restore, Verify, SaveApply
  <2>5. CASE Raise
    BY <2>5, Zenon DEF Raise
  <2>6. CASE Review
    BY <2>6 DEF Review
  <2> QED
    BY <2>1, <2>2, <2>3, <2>4, <2>5, <2>6 DEF WorkStep
<1>7. failed' \subseteq Reasons
  <2> USE <1>1 DEF WorkTyped, Reasons, Work
  <2>1. WorkKeys = {"source", "notification"} \cup DeviceWork
    BY DeviceSet DEF WorkKeys
  <2>2. CASE Monitor \/ BeginDevice \/ Plain \/ NotifyTest \/ Backup \/ SaveApply
    BY <2>2 DEF Monitor, BeginDevice, Plain, NotifyTest, Backup, SaveApply, work
  <2>3. CASE Notice \/ Preflight \/ Restore \/ Verify
    BY <2>1, <2>3 DEF Notice, Preflight, Restore, Verify, DeviceWork
  <2>4. CASE Raise
    <3>1. failed' = failed \cup {pc}
      BY <2>4 DEF Raise
    <3>2. pc \in Reasons
      BY <2>1, <2>4 DEF Raise, DeviceWork
    <3> QED
      BY <3>1, <3>2
  <2>5. CASE Review
    BY <2>5 DEF Review
  <2> QED
    BY <2>2, <2>3, <2>4, <2>5 DEF WorkStep
<1>8. packages' \subseteq PackageStatuses /\ report' \in ApplyStatuses \cup {"NONE"}
  <2> USE <1>1 DEF WorkTyped
  <2>1. CASE Restore
    BY <2>1 DEF Restore, records
  <2>2. CASE Verify
    BY <2>2 DEF Verify, OverallOf, ApplyStatuses
  <2>3. CASE ~Restore /\ ~Verify
    BY <2>3 DEF WorkStep, Monitor, BeginDevice, Plain, NotifyTest, Notice, Preflight, Backup,
                SaveApply, Raise, Review, work, records
  <2> QED
    BY <2>1, <2>2, <2>3
<1>9. caught' \in BOOLEAN
  <2>1. CASE Raise
    BY <2>1, Zenon DEF Raise
  <2>2. CASE ~Raise
    BY <1>1, <2>2 DEF WorkTyped, WorkStep, Monitor, BeginDevice, Plain, NotifyTest, Notice,
                      Preflight, Backup, Restore, Verify, SaveApply, Review, work
  <2> QED
    BY <2>1, <2>2
<1>10. WorkTyped'
  BY <1>3, <1>6, <1>7, <1>8, <1>9 DEF WorkTyped
<1> QED
  BY <1>1, <1>4, <1>5, <1>10, NextTypeFacts DEF Typed

LEMMA EndTyped == ASSUME IInv, EndStep PROVE TypeOK'
<1>1. TypeOK /\ WorkTyped /\ JournalTyped /\ run \in Runs
      /\ exit \in {NoExit, 0, 1, 2}
  BY TypeFacts DEF IInv, Typed
<1>2. WorkTyped' /\ run' = run /\ pc' \in Places
  BY <1>1, EndFacts DEF WorkTyped, Places
<1>3. CASE RecordResult
  <2>1. rows' \in [Keys(run.command) -> StepStates]
    <3>1. rows \in [Keys(run.command) -> StepStates] /\ pc = "return" /\ rows' = RecordedRows
      BY <1>1, <1>3 DEF RecordResult, JournalTyped
    <3>2. \A k \in DOMAIN rows : RecordedRows[k] \in Closed
      BY <3>1, RecordedRowsTrue DEF RowsTrue
    <3>3. RecordedRows = [k \in DOMAIN rows |-> RecordedRows[k]]
      BY RecordedRowsFacts DEF RecordedRows, Marked
    <3> QED
      BY <3>1, <3>2, <3>3 DEF Closed, StepStates
  <2>2. observed' \in Shown /\ exit' \in {NoExit, 0, 1, 2}
    BY <1>3, ResultFacts DEF RecordResult, Shown
  <2>3. action' \in Actions /\ final' = final /\ cycle' = cycle
    BY <1>3 DEF RecordResult, Action, Actions
  <2> QED
    BY <1>1, <1>2, <2>1, <2>2, <2>3, NextTypeFacts DEF Typed, JournalTyped
<1>4. CASE Emit \/ Kill
  BY <1>1, <1>2, <1>4, NextTypeFacts DEF Emit, Kill, journal, Typed, JournalTyped
<1>5. CASE Finish
  <2>1. rows' \in [Keys(run.command) -> StepStates] /\ exit' = exit
    BY <1>1, <1>5, FailFirstFacts DEF Finish
  <2>2. observed' = observed
    BY <1>5, FinishFacts
  <2>3. action' \in Actions /\ final' \in {"NONE", "SUCCESS", "WARNING", "FAILED"}
    BY <1>1, <1>5 DEF Finish, Actions, JournalTyped, FinalState
  <2>4. cycle' \in CycleStatuses \cup {"NONE", "OPEN"}
    <3>1. run.command = "cycle" => observed \in CycleStatuses
      BY <1>5, FinishFacts
    <3> QED
      BY <1>1, <1>5, <2>2, <3>1 DEF Finish, JournalTyped
  <2> QED
    BY <1>1, <1>2, <2>1, <2>2, <2>3, <2>4, NextTypeFacts DEF Typed, JournalTyped
<1> QED
  BY <1>3, <1>4, <1>5 DEF EndStep
-----------------------------------------------------------------------------
(* The records of the health report. *)

LEMMA RecordsKept == ASSUME IInv, Next PROVE Records'
<1>1. Where /\ InOrder /\ Unread /\ FailuresTold /\ Records
  BY DEF IInv
<1>2. Inherited'
  <2>0. Inherited
    BY <1>1 DEF Records
  <2> USE DEF Inherited, Applied, Applies, Monitoring, Quiet
  <2>1. CASE SetupStep
    <3>1. cycle' = cycle \/ run.command = "cycle"
      BY <2>1 DEF SetupStep, Start, ConfigLoads, OpenStorage, StorageOpens, SetupFails
    <3> QED
      BY <2>0, <2>1, <3>1, SetupFacts
  <2>2. CASE EndStep
    <3>1. cycle' = cycle \/ run.command = "cycle"
      BY <2>2 DEF EndStep, RecordResult, Emit, Finish, Kill, journal
    <3> QED
      BY <2>0, <2>2, <3>1, EndFacts
  <2>3. CASE Verify
    <3>1. pc = "verification" /\ UNCHANGED <<run, state, cycle>> /\ did' = did \cup {"verification"}
      BY <2>3 DEF Verify, Work, journal
    <3>2. ~Applies => report' = report
      BY <2>3 DEF Verify
    <3> QED
      BY <2>0, <3>1, <3>2
  <2>4. CASE WorkStep /\ ~Verify
    <3>1. run' = run /\ cycle' = cycle
      BY <2>4, WorkFacts
    <3>2. report' = report /\ did \subseteq did'
      <4>1. CASE Raise
        BY <4>1, Zenon DEF Raise
      <4>2. CASE ~Raise
        BY <2>4, <4>2 DEF WorkStep, Monitor, BeginDevice, Plain, NotifyTest, Notice, Preflight,
                  Backup, Restore, SaveApply, Review, Work, work, records
      <4> QED
        BY <4>1, <4>2
    <3>3. Applied \/ (state'.unresolved <=> state.unresolved) \/ state'.unresolved
      <4>1. CASE Raise
        <5>1. UNCHANGED state \/ (pc = "save" /\ Saves) \/ MonitorRaises
          BY <4>1, Zenon DEF Raise
        <5>2. pc = "save" => Applied
          BY <1>1 DEF Where, InOrder
        <5>3. MonitorRaises => (state'.unresolved <=> state.unresolved)
          BY DEF MonitorRaises, IInv, TypeOK
        <5> QED
          BY <5>1, <5>2, <5>3
      <4>2. CASE SaveApply
        BY <1>1, <4>2 DEF SaveApply, Where, InOrder
      <4>3. CASE Monitor
        BY <4>3 DEF Monitor, IInv, TypeOK
      <4>4. CASE Review
        BY <4>4 DEF Review
      <4> QED
        BY <2>4, <4>1, <4>2, <4>3, <4>4
           DEF WorkStep, BeginDevice, Plain, NotifyTest, Notice, Preflight, Backup, Restore, work,
               records
    <3>4. run.command \notin Monitoring =>
            Applied \/ state' = state \/ state'.unresolved
      <4>1. CASE Raise
        <5>1. UNCHANGED state \/ (pc = "save" /\ Saves) \/ MonitorRaises
          BY <4>1, Zenon DEF Raise
        <5>2. pc = "save" => Applied
          BY <1>1 DEF Where, InOrder
        <5> QED
          BY <5>1, <5>2 DEF MonitorRaises
      <4>2. CASE SaveApply
        BY <1>1, <4>2 DEF SaveApply, Where, InOrder
      <4>3. CASE Monitor
        BY <4>3 DEF Monitor
      <4>4. CASE Review
        BY <4>4 DEF Review
      <4> QED
        BY <2>4, <4>1, <4>2, <4>3, <4>4
           DEF WorkStep, BeginDevice, Plain, NotifyTest, Notice, Preflight, Backup, Restore, work,
               records
    <3> QED
      BY <2>0, <3>1, <3>2, <3>3, <3>4
  <2> QED
    BY <2>1, <2>2, <2>3, <2>4, NextFacts
<1>3. run'.command = "cycle" =>
        IF pc' = "done" THEN cycle' = observed'
        ELSE \/ cycle' = "OPEN"
             \/ pc' \in {"start", "killed"} /\ did' = {} /\ rows'["startup"] = "TODO"
  <2> SUFFICES ASSUME run.command = "cycle"
               PROVE  IF pc' = "done" THEN cycle' = observed'
                      ELSE \/ cycle' = "OPEN"
                           \/ pc' \in {"start", "killed"} /\ did' = {} /\ rows'["startup"] = "TODO"
    BY SetupFacts, WorkFacts, EndFacts, NextFacts
  <2>1. IF pc = "done" THEN cycle = observed
        ELSE \/ cycle = "OPEN"
             \/ pc \in {"start", "killed"} /\ did = {} /\ rows["startup"] = "TODO"
    BY <1>1 DEF Records
  <2>2. CASE SetupStep
    BY <2>1, <2>2 DEF SetupStep, Start, ConfigLoads, OpenStorage, StorageOpens, SetupFails
  <2>3. CASE WorkStep
    BY <2>1, <2>3, WorkFacts DEF Working, OnDevice
  <2>4. CASE EndStep
    BY <2>1, <2>4 DEF EndStep, RecordResult, Emit, Finish, Kill, work, journal
  <2> QED
    BY <2>2, <2>3, <2>4, NextFacts
<1>4. run'.command = "approve" /\ pc' = "review" /\ "work" \in failed' => "packages" \notin did'
  <2>1. CASE Raise
    <3>1. /\ run' = run /\ failed' = failed \cup {pc}
          /\ did' = did \/ did' = did \cup ({pc} \cap DeviceWork)
      BY <2>1, DeviceSet, Zenon DEF Raise
    <3>2. run.command = "approve" /\ pc' = "review" => pc \in OnDevice \cup {"work"}
      BY <2>1, DeviceSet DEF Raise, InApply, OnDevice, DeviceWork
    <3>3. pc = "work" => did = {}
      BY <1>1 DEF InOrder
    <3>4. pc \in OnDevice => "work" \notin failed
      BY <1>1 DEF OnDevice, FailuresTold, Raised, Told, Where, Ending
    <3> QED
      BY <3>1, <3>2, <3>3, <3>4 DEF OnDevice, DeviceWork
  <2>2. CASE ~Raise
    BY <1>1, <2>2, SetupFacts, EndFacts, NextFacts
       DEF WorkStep, Monitor, BeginDevice, Plain, NotifyTest, Notice, Preflight, Backup, Restore,
           Verify, SaveApply, Review, Work, Ending, Records, Loads
  <2> QED
    BY <2>1, <2>2
<1> QED
  BY <1>2, <1>3, <1>4, FiledKept DEF Records
-----------------------------------------------------------------------------
(* The theorems. *)

LEMMA NextKept == IInv /\ [Next]_vars => IInv'
<1> SUFFICES ASSUME IInv, [Next]_vars PROVE IInv'
  OBVIOUS
<1>1. CASE Next
  <2>1. TypeOK'
    BY <1>1, SetupTyped, WorkStepTyped, EndTyped, NextFacts DEF IInv
  <2>2. Where' /\ Unread' /\ InOrder' /\ FailuresTold' /\ Records'
    BY <1>1, WhereKept, UnreadKept, InOrderKept, FailuresToldKept, RecordsKept
  <2>3. Reported' /\ Properties'
    <3>1. SetupStep \/ WorkStep \/ RecordResult \/ Emit \/ Finish \/ Kill
      BY <1>1, NextFacts DEF EndStep
    <3>2. Kill => pc \in Before \cup Ending
      BY TypeFacts DEF IInv, Typed, Places
    <3> QED
      BY <3>1, <3>2, QuietKept, RecordKept, LastKept, FinishKept
  <2> QED
    BY <2>1, <2>2, <2>3 DEF IInv, Properties
<1>2. CASE UNCHANGED vars
  <2>1. UNCHANGED <<run, pc, did, failed, monitor, packages, caught, state, offered, report, exit>>
        /\ UNCHANGED <<rows, observed, action, final, cycle>>
    BY <1>2 DEF vars, work, records, journal
  <2>2. TypeOK'
    BY <2>1, TypeFacts, NextTypeFacts DEF IInv, Typed, WorkTyped, JournalTyped
  <2>3. Where' /\ Unread' /\ InOrder'
    BY <2>1 DEF IInv, Where, Unread, InOrder, Untouched, InCycle, Loads, Applies
  <2>4. FailuresTold' /\ Records'
    BY <2>1 DEF IInv, FailuresTold, Records, Told, Filed, PassedOver, Inherited, Applied, Raised, Applies,
                ApplyStatus
  <2>5. Left' = Left /\ HasNone' = HasNone /\ (HasResult => HasResult')
    <3>1. Left' = Left /\ Settled' = Settled /\ Earned' = Earned /\ Green' = Green
      BY <2>1 DEF Left, Untouched, InCycle, Applies, Settled, Earned, Green
    <3>2. ShownStatus' = ShownStatus /\ ExitCode' = ExitCode
      BY <2>1 DEF Applies, ShownStatus, ExitCode, PayloadStatus, CycleStatus, HasApply, ApplyStatus,
                  NoticeFailed, PackagesStatus
    <3>3. HasNone' = HasNone
      BY <2>1 DEF HasNone, Faced
    <3>4. Told' = Told /\ Filed' = Filed /\ PassedOver' = PassedOver
      BY <2>1 DEF Told, Filed, PassedOver, Applied, Applies, ApplyStatus
    <3> QED
      BY <2>1, <3>1, <3>2, <3>3, <3>4 DEF HasResult
  <2>6. Reported'
    BY <2>1, <2>5 DEF IInv, Reported
  <2>7. GreenIsEarned' /\ GreenRowsAreTrue' /\ FinishedIsSettled'
        /\ NothingToDoIsTrue'
    BY <2>1 DEF IInv, GreenIsEarned, GreenRowsAreTrue, FinishedIsSettled,
                NothingToDoIsTrue, AwaitsApproval
  <2> QED
    BY <2>2, <2>3, <2>4, <2>6, <2>7 DEF IInv
<1> QED
  BY <1>1, <1>2

LEMMA AlwaysIInv == Spec => []IInv
BY InitHolds, NextKept, PTL DEF Spec

\* The types of the run, its journal and its records.
THEOREM TypeCorrect == Spec => []TypeOK
<1>1. IInv => TypeOK
  BY DEF IInv
<1> QED
  BY <1>1, AlwaysIInv, PTL

\* A green final line (OperatorChecklist.finish) is earned, whatever the command and the
\* mode, and whatever of the work raises, fails or is not confirmed.
THEOREM GreenAlwaysEarned == Spec => []GreenIsEarned
<1>1. IInv => GreenIsEarned
  BY DEF IInv
<1> QED
  BY <1>1, AlwaysIInv, PTL

\* A row marked as completed (_record_result) was begun and did not fail.
THEOREM GreenRowsAlwaysTrue == Spec => []GreenRowsAreTrue
<1>1. IInv => GreenRowsAreTrue
  BY DEF IInv
<1> QED
  BY <1>1, AlwaysIInv, PTL

\* A finished journal leaves no row open, or shows the failed one of a run that raised
\* (fail_first_unfinished).
THEOREM FinishedAlwaysSettled == Spec => []FinishedIsSettled
<1>1. IInv => FinishedIsSettled
  BY DEF IInv
<1> QED
  BY <1>1, AlwaysIInv, PTL

\* "Nothing to do" is suggested only when no package was changed and this run prepared no
\* manifest that waits, and of an unattended cycle only when no archive of an earlier run
\* waits either.
THEOREM NothingToDoAlwaysTrue == Spec => []NothingToDoIsTrue
<1>1. IInv => NothingToDoIsTrue
  BY DEF IInv
<1> QED
  BY <1>1, AlwaysIInv, PTL
-----------------------------------------------------------------------------
(* The health report. *)

Sound(status) == status # "FAILED" /\ ~Warns(status)

\* What HEALTHY says of the records, on whatever machine.
LEMMA HealthyRecords ==
  ASSUME Healthy
  PROVE  /\ ~state.unresolved /\ Sound(state.last) /\ Sound(report)
         /\ cycle \notin {"NONE", "OPEN"} /\ Sound(cycle)
<1>1. PICK m \in Machines : OverallHealth(m) = "HEALTHY"
  BY DEF Healthy
<1>2. \A check \in Checks(m) : check[2] \notin {"FAIL", "WARN"}
  <2> DEFINE found == {check[2] : check \in Checks(m)}
  <2>1. "FAIL" \notin found /\ "WARN" \notin found
    BY <1>1, Zenon DEF OverallHealth
  <2> QED
    BY <2>1
<1>3. m.config # "unreadable"
  <2>1. SUFFICES ASSUME m.config = "unreadable" PROVE FALSE
    OBVIOUS
  <2>2. <<"HC-06", "FAIL">> \in Checks(m)
    BY <2>1 DEF Checks, Configuration
  <2> QED
    BY <1>2, <2>2
<1>4. ~state.unresolved
  <2>1. SUFFICES ASSUME state.unresolved PROVE FALSE
    OBVIOUS
  <2>2. <<"HC-12", "FAIL">> \in Checks(m)
    BY <1>3, <2>1 DEF Checks, State, PassOr
  <2> QED
    BY <1>2, <2>2
<1>5. \A status : ByResult(status) \notin {"FAIL", "WARN"} => Sound(status)
  BY DEF ByResult, Sound
<1>6. Sound(state.last)
  <2>1. <<"HC-13", ByResult(state.last)>> \in Checks(m)
    BY <1>3 DEF Checks, State
  <2> QED
    BY <1>2, <1>5, <2>1
<1>7. cycle \notin {"NONE", "OPEN"} /\ Sound(cycle)
  <2> DEFINE result == CASE cycle = "NONE" -> "WARN"
                         [] cycle = "OPEN" -> "FAIL"
                         [] OTHER -> ByResult(cycle)
  <2>1. <<"HC-14", result>> \in Checks(m)
    BY DEF Checks, LatestCycle
  <2>2. result \notin {"FAIL", "WARN"}
    BY <1>2, <2>1
  <2> QED
    BY <1>5, <2>2
<1>8. Sound(report)
  <2>1. report # "NONE" => <<"HC-16", ByResult(report)>> \in Checks(m)
    BY DEF Checks, LatestApply
  <2>2. Sound("NONE")
    BY DEF Sound, Warns
  <2> QED
    BY <1>2, <1>5, <2>1, <2>2
<1> QED
  BY <1>4, <1>6, <1>7, <1>8

\* The records of an apply that returned, read as sound, are those of a successful one.
LEMMA SoundApply ==
  ASSUME Told, Filed, Applies, "verification" \in did, Sound(report)
  PROVE  packages = {"SUCCESS"} /\ failed \subseteq {"notification"}
<1>1. report = ApplyStatus /\ ApplyStatus \notin {"FAILED", "SUCCESS_WITH_WARNING"}
  BY DEF Filed, Applied, Sound, Warns
<1>2. packages = {"SUCCESS"} /\ "verification" \notin failed
  BY <1>1 DEF ApplyStatus, OverallOf
<1>3. "packages" \notin failed
  BY <1>2 DEF Told, FailedPackages
<1> QED
  BY <1>2, <1>3 DEF Told, Applies

LEMMA HealthyRun == ASSUME IInv, Ended, Healthy PROVE HealthyIsEarned
<1>1. /\ Where /\ InOrder /\ Records /\ (HasNone \/ HasResult)
      /\ Sound(report) /\ ~state.unresolved /\ Sound(cycle) /\ cycle # "OPEN"
  BY HealthyRecords DEF IInv, Ended, Reported, Ending
<1>2. CASE run.command = "cycle"
  <2>1. CASE pc = "done"
    <3>1. HasResult /\ Sound(observed)
      BY <1>1, <1>2, <2>1 DEF Records, HasNone, Sound
    <3>2. ~caught /\ Told /\ Filed /\ Left /\ Applies
      <4>1. caught => monitor = "PREPARED" /\ ShownStatus = "FAILED"
        BY <1>1, <1>2 DEF Where, InCycle, ShownStatus, HasApply, PayloadStatus, CycleStatus
      <4> QED
        BY <1>2, <3>1, <4>1 DEF HasResult, Sound, Applies
    <3>3. CASE "verification" \in did
      BY <1>1, <1>2, <2>1, <3>2, <3>3, SoundApply DEF HealthyIsEarned
    <3>4. CASE "verification" \notin did
      BY <1>1, <1>2, <2>1, <3>2, <3>4
         DEF HealthyIsEarned, Left, Untouched, DeviceWork, Told, Applies
    <3> QED
      BY <3>3, <3>4
  <2>2. CASE pc # "done"
    BY <1>1, <1>2, <2>2 DEF Records, HealthyIsEarned
  <2> QED
    BY <2>1, <2>2
<1>3. CASE run.command # "cycle"
  <2>1. SUFFICES ASSUME "packages" \in did, ~Unrecorded
                 PROVE  packages = {"SUCCESS"} /\ failed \subseteq {"notification", "final_notice"}
    BY <1>3 DEF HealthyIsEarned
  <2>2. run.command \in {"apply", "approve"} /\ pc = "done" /\ Applies /\ ~caught
    BY <1>1, <1>3, <2>1 DEF InOrder, Applies, Unrecorded, Ended, Where
  <2>3. CASE HasResult
    BY <1>1, <2>2, <2>3, SoundApply DEF HasResult, Left
  <2>4. CASE HasNone
    <3>1. run.command = "approve" /\ Faced
      BY <2>1, <2>2, <2>4 DEF HasNone, Unrecorded
    <3>2. report \notin {"FAILED", "SUCCESS_WITH_WARNING"}
      BY <1>1 DEF Sound, Warns
    <3> QED
      BY <1>1, <2>1, <3>1, <3>2 DEF Faced, Unrecorded
  <2> QED
    BY <1>1, <2>3, <2>4
<1> QED
  BY <1>2, <1>3

LEMMA QuietRun ==
  ASSUME IInv, final = "SUCCESS", ~state.unresolved, cycle \in Quiet, monitor # "PREPARED",
         packages \subseteq {"SUCCESS"}
  PROVE  state.last \in {"NONE"} \cup Quiet /\ report \in {"NONE", "SUCCESS"}
<1>1. /\ Where /\ InOrder /\ Records /\ exit = 0 /\ failed = {} /\ pc = "done"
      /\ HasNone \/ HasResult
  BY DEF IInv, GreenIsEarned, Reported, Ending
<1>2. HasResult
  BY <1>1 DEF HasNone
<1>3. ~caught /\ Told /\ Filed /\ Left
  BY <1>1, <1>2 DEF Where, InCycle, HasResult
<1>4. monitor \in {"NONE", "NO_CHANGE", "NO_CONTENT_CHANGE"}
  BY DEF IInv, TypeOK, MonitorStatuses
<1>5. CASE Applied
  <2>1. packages = {"SUCCESS"}
    BY <1>1, <1>3, <1>5 DEF Told, InOrder, Applied
  <2>2. report = "SUCCESS"
    BY <1>1, <1>3, <1>5, <2>1 DEF Filed, ApplyStatus, OverallOf, FailedPackages
  <2> QED
    BY <1>1, <1>3, <1>5, <2>2 DEF Filed, Quiet
<1>6. CASE ~Applied
  <2>1. report \in {"NONE", "SUCCESS"}
    BY <1>1, <1>6 DEF Records, Inherited
  <2>2. run.command \in Monitoring => state.last = monitor /\ monitor # "NONE"
    BY <1>1, <1>3, <1>6 DEF Filed, Left, InOrder
  <2>3. run.command \notin Monitoring => state.last \in {"NONE"} \cup Quiet
    BY <1>1, <1>6 DEF Records, Inherited
  <2> QED
    BY <1>4, <2>1, <2>2, <2>3 DEF Quiet
<1> QED
  BY <1>5, <1>6

LEMMA CurrentIsNotOlder == ~Older(<<91, 12, 0>>, <<91, 12>>)
<1>1. \A i \in 1..2 : Part(<<91, 12, 0>>, i) = Part(<<91, 12>>, i)
  BY DEF Part
<1>2. \A i \in 1..2 : ~(Part(<<91, 12, 0>>, i) < Part(<<91, 12>>, i))
  BY <1>1 DEF Part
<1> QED
  BY <1>2 DEF Older

\* Of a sound machine with sound records every check is passed.
LEMMA SoundChecks ==
  ASSUME ~state.unresolved, ByResult(state.last) = "PASS", ByResult(cycle) = "PASS",
         cycle \notin {"NONE", "OPEN"}, report \in {"NONE", "SUCCESS"}
  PROVE  OverallHealth(SoundMachine) = "HEALTHY"
<1> DEFINE m == SoundMachine
           fine == {"PASS", "INFO"}
<1>1. /\ m.root = TRUE /\ m.origin = TRUE /\ m.branch = TRUE /\ m.clean = TRUE
      /\ m.versions = "same" /\ m.config = "loads" /\ m.safe = TRUE /\ m.secrets = TRUE
      /\ m.task = "Ready" /\ m.taskResult = TRUE /\ m.taskAction = TRUE /\ m.backup = "fresh"
      /\ m.udp = "idle" /\ m.disk = "ample" /\ m.device = "pass"
      /\ m.objects = {Object(<<91, 12>>, <<91, 12, 0>>)}
  BY DEF SoundMachine
<1> HIDE DEF m
<1>2. \A check \in Checkout(m) \cup Configuration(m) \cup ScheduledTask(m) : check[2] \in fine
  BY <1>1 DEF Checkout, Configuration, ScheduledTask, PassOr
<1>3. \A check \in State(m) \cup LatestCycle \cup LatestBackup(m) \cup LatestApply :
         check[2] \in fine
  <2>1. ByResult("SUCCESS") = "PASS"
    BY DEF ByResult, Warns
  <2> QED
    BY <1>1, <2>1 DEF State, LatestCycle, LatestBackup, LatestApply, PassOr
<1>4. \A check \in Host(m) \cup DevicePreflight(m) : check[2] \in fine
  BY <1>1 DEF Host, DevicePreflight, HasDevice, PassOr
<1>5. \A check \in Versions(m) : check[2] \in fine
  <2>1. \A o \in Recorded(m) : o.current = <<91, 12, 0>> /\ o.expected = <<91, 12>>
    BY <1>1 DEF Recorded, Object
  <2>2. \A o \in Recorded(m) : ~Older(o.current, o.expected) /\ o.current # <<>>
    BY <2>1, CurrentIsNotOlder
  <2> QED
    BY <1>1, <2>2 DEF Versions, HasDevice, PassOr
<1>6. \A check \in Checks(m) : check[2] \notin {"FAIL", "WARN"}
  BY <1>2, <1>3, <1>4, <1>5 DEF Checks
<1>7. OverallHealth(m) = "HEALTHY"
  <2> DEFINE found == {check[2] : check \in Checks(m)}
  <2>1. "FAIL" \notin found /\ "WARN" \notin found
    BY <1>6
  <2> QED
    BY <2>1 DEF OverallHealth
<1> QED
  BY <1>7 DEF m

\* HEALTHY, the overall result of health_report.py, is earned: after a cycle nothing failed
\* but a message, and after an apply its packages were all confirmed, on whatever machine.
THEOREM HealthyAlwaysEarned == Spec => []HealthyIsEarned
<1>1. IInv => HealthyIsEarned
  BY HealthyRun DEF HealthyIsEarned
<1> QED
  BY <1>1, AlwaysIInv, PTL

\* A run that ended green with no news of a package raises no false alarm on a sound machine.
THEOREM QuietAlwaysHealthy == Spec => []QuietIsHealthy
<1>1. IInv => QuietIsHealthy
  <2> SUFFICES ASSUME IInv, final = "SUCCESS", ~state.unresolved, cycle \in Quiet,
                      monitor # "PREPARED", packages \subseteq {"SUCCESS"}
               PROVE  OverallHealth(SoundMachine) = "HEALTHY"
    BY DEF QuietIsHealthy, Quiet
  <2>1. ByResult(state.last) = "PASS" /\ ByResult(cycle) = "PASS"
    BY QuietRun DEF ByResult, Warns, Quiet
  <2> QED
    BY <2>1, QuietRun, SoundChecks DEF Quiet
<1> QED
  BY <1>1, AlwaysIInv, PTL
===============================================================================
