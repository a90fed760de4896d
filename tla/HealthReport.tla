----------------------------- MODULE HealthReport -----------------------------
(***************************************************************************)
(* scripts/health_report.py: twenty checks of the machine and of the       *)
(* records that the runs of OperatorJournal leave, and the overall result. *)
(* The report only reads, so it is a function of the state, and it may be  *)
(* asked for at any time.                                                  *)
(***************************************************************************)
EXTENDS OperatorJournal, Integers

\* What the report finds on the machine besides those records.
Machine ==
    [root : BOOLEAN, origin : BOOLEAN, branch : BOOLEAN, clean : BOOLEAN,
     versions : {"same", "differ", "unreadable"},
     config : {"loads", "no secrets", "no policy", "unreadable"},   \* what cannot be read
     safe : BOOLEAN, secrets : BOOLEAN,
     task : {"Ready", "Running", "Disabled", "unavailable"},
     taskResult : BOOLEAN, taskAction : BOOLEAN,
     backup : {"fresh", "old", "empty", "none"},
     udp : {"idle", "listener", "unavailable"},
     disk : {"ample", "low", "full", "unavailable"},
     device : {"skipped", "none", "pass", "fail"},
     objects : SUBSET [expected : Seq(Nat), current : Seq(Nat)]]

\* The records of the latest apply's packages and the versions read from the device,
\* <<>> where there is none.
Object(expected, current) == [expected |-> expected, current |-> current]

SoundMachine ==
    [root |-> TRUE, origin |-> TRUE, branch |-> TRUE, clean |-> TRUE, versions |-> "same",
     config |-> "loads", safe |-> TRUE, secrets |-> TRUE,
     task |-> "Ready", taskResult |-> TRUE, taskAction |-> TRUE,
     backup |-> "fresh", udp |-> "idle", disk |-> "ample", device |-> "pass",
     objects |-> {Object(<<91, 12>>, <<91, 12, 0>>)}]

With(name, values) == {[SoundMachine EXCEPT ![name] = v] : v \in values}

\* The machines looked at: one thing at a time differs from a sound one.
Machines ==
    UNION {With(name, {FALSE}) : name \in {"root", "origin", "branch", "clean", "safe",
                                           "secrets", "taskResult", "taskAction"}}
    \cup With("versions", {"differ", "unreadable"})
    \cup With("config", {"no secrets", "no policy", "unreadable"})
    \cup With("task", {"Running", "Disabled", "unavailable"})
    \cup With("backup", {"old", "empty", "none"})
    \cup With("udp", {"listener", "unavailable"})
    \cup With("disk", {"low", "full", "unavailable"})
    \cup With("device", {"skipped", "none", "fail"})
    \cup With("objects", {{Object(<<91, 12>>, <<91, 9>>)}, {Object(<<91>>, <<>>)},
                          {Object(<<91>>, <<92>>), Object(<<>>, <<>>)}})
    \cup {SoundMachine}
-----------------------------------------------------------------------------
(* The checks. *)

\* compare_versions: the numbers of a version, padded with zeros.
Part(v, i) == IF i <= Len(v) THEN v[i] ELSE 0
OlderUnpadded(v, w) == v # w
Older(v, w) ==
    \E i \in 1..Len(w) : /\ Part(v, i) < Part(w, i)
                         /\ \A j \in 1..(i - 1) : Part(v, j) = Part(w, j)

Warns(status) ==
    status \in {"WARNING", "PREPARED", "SUCCESS_WITH_WARNING", "SUCCESS_WITH_NOTIFICATION_ERROR",
                "PREPARED_WITH_NOTIFICATION_ERROR"}
ByResult(status) ==
    CASE status = "FAILED" -> "FAIL" [] Warns(status) -> "WARN" [] OTHER -> "PASS"

PassOr(ok, other) == IF ok THEN "PASS" ELSE other

Checkout(m) ==
    {<<"HC-01", PassOr(m.root, "FAIL")>>, <<"HC-02", PassOr(m.root /\ m.origin, "FAIL")>>,
     <<"HC-03", PassOr(m.root /\ m.branch, "WARN")>>,
     <<"HC-04", PassOr(m.root /\ m.clean, "WARN")>>,
     <<"HC-05", PassOr(m.root /\ m.versions = "same", "FAIL")>>}

Configuration(m) ==
    CASE m.config = "loads" ->
            {<<"HC-06", "PASS">>, <<"HC-07", PassOr(m.safe, "WARN")>>,
             <<"HC-08", PassOr(m.secrets, "FAIL")>>}
      [] m.config = "no secrets" ->
            {<<"HC-06", "PASS">>, <<"HC-06", "FAIL">>, <<"HC-07", PassOr(m.safe, "WARN")>>,
             <<"HC-07", "INFO">>, <<"HC-08", "INFO">>}
      [] OTHER -> {<<"HC-06", "FAIL">>, <<"HC-07", "INFO">>, <<"HC-08", "INFO">>}

ScheduledTask(m) ==
    IF m.task = "unavailable"
    THEN {<<"HC-09", "FAIL">>, <<"HC-10", "INFO">>, <<"HC-11", "INFO">>}
    ELSE {<<"HC-09", PassOr(m.task \in {"Ready", "Running"}, "FAIL")>>,
          <<"HC-10", PassOr(m.taskResult, "WARN")>>, <<"HC-11", PassOr(m.taskAction, "FAIL")>>}

State(m) ==
    IF m.config = "unreadable"
    THEN {<<"HC-12", "FAIL">>, <<"HC-13", "FAIL">>}
    ELSE {<<"HC-12", PassOr(~state.unresolved, "FAIL")>>, <<"HC-13", ByResult(state.last)>>}

\* latest_cycle_result: of all commands only a cycle counts.
LatestCycleByStatus ==
    {<<"HC-14", IF cycle = "NONE" THEN "WARN" ELSE ByResult(cycle)>>}
LatestCycle ==
    {<<"HC-14", CASE cycle = "NONE" -> "WARN"
                  [] cycle = "OPEN" -> "FAIL"
                  [] OTHER -> ByResult(cycle)>>}

LatestBackup(m) ==
    {<<"HC-15", CASE m.backup = "fresh" -> "PASS"
                  [] m.backup = "empty" -> "FAIL"
                  [] OTHER -> "WARN">>}

LatestApply == {<<"HC-16", IF report = "NONE" THEN "INFO" ELSE ByResult(report)>>}

Host(m) ==
    {<<"HC-17", PassOr(m.udp = "idle", "WARN")>>,
     <<"HC-18", CASE m.disk = "ample" -> "PASS"
                  [] m.disk = "full" -> "FAIL"
                  [] OTHER -> "WARN">>}

HasDevice(m) == m.device # "none" /\ m.config \in {"loads", "no secrets"}
DevicePreflight(m) ==
    {<<"HC-19", CASE m.device = "skipped" -> "INFO"
                  [] m.device # "skipped" /\ ~HasDevice(m) -> "WARN"
                  [] OTHER -> PassOr(m.device = "pass", "FAIL")>>}

Recorded(m) == {o \in m.objects : o.expected # <<>>}
Versions(m) ==
    {<<"HC-20", CASE m.device = "skipped" \/ ~HasDevice(m) \/ report = "NONE" -> "INFO"
                  [] OTHER ->
                        IF m.device = "fail" THEN "WARN"
                        ELSE IF \E o \in Recorded(m) :
                                    o.current # <<>> /\ Older(o.current, o.expected) THEN "FAIL"
                        ELSE PassOr(\A o \in Recorded(m) : o.current # <<>>, "WARN")>>}

\* The entries of the report: the id of a check and its result.
Checks(m) ==
    Checkout(m) \cup Configuration(m) \cup ScheduledTask(m) \cup State(m) \cup LatestCycle
    \cup LatestBackup(m) \cup LatestApply \cup Host(m) \cup DevicePreflight(m) \cup Versions(m)

OverallHealth(m) ==
    LET found == {check[2] : check \in Checks(m)} IN
    CASE "FAIL" \in found -> "CRITICAL"
      [] "FAIL" \notin found /\ "WARN" \in found -> "WARNING"
      [] OTHER -> "HEALTHY"
-----------------------------------------------------------------------------
(* Properties. *)

Ended == pc \in {"done", "killed"}
Healthy == \E m \in Machines : OverallHealth(m) = "HEALTHY"

\* What may end unseen beside a cycle: an apply has no handler for its exceptions,
\* the handler of an approve may raise itself, and both may be killed.
Unrecorded ==
    \/ run.command = "apply" /\ exit = 1
    \/ run.command = "approve" /\ "review" \in failed
    \/ run.command \in {"apply", "approve"} /\ pc = "killed"

\* After a cycle that began, HEALTHY (the overall result of health_report.py) says
\* that it ended and that nothing failed but a message, and after an apply of any
\* command that its packages were all confirmed, unless the apply or approve command
\* left no record of how it ended.
HealthyIsEarned ==
    Ended /\ Healthy =>
        /\ run.command = "cycle" /\ rows["startup"] = "SUCCESS" =>
              pc = "done" /\ failed \subseteq {"notification"}
        /\ "packages" \in did =>
              \/ packages = {"SUCCESS"} /\ failed \subseteq {"notification", "final_notice"}
              \/ Unrecorded

\* A run that ended with a green final line and has news of no package leaves a
\* sound machine HEALTHY, unless an archive needs review: the report raises no false
\* alarm.
QuietIsHealthy ==
    final = "SUCCESS" /\ ~state.unresolved /\ cycle \in {"NO_CHANGE", "NO_CONTENT_CHANGE", "SUCCESS"}
    /\ monitor # "PREPARED" /\ packages \subseteq {"SUCCESS"}
        => OverallHealth(SoundMachine) = "HEALTHY"
=============================================================================
