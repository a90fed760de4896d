SPECIFICATION Spec
CONSTANTS
    Commands = {"cycle", "run", "apply", "approve", "preflight", "backup-test", "notify-test",
                "scan-host-key", "validate-config", "status", "secret", "init"}
    Modes = {"prepare_only", "approval", "unattended"}
INVARIANTS
    TypeOK
    GreenIsEarned
    GreenRowsAreTrue
    FinishedIsSettled
    NothingToDoIsTrue
    HealthyIsEarned
    QuietIsHealthy
CHECK_DEADLOCK FALSE
