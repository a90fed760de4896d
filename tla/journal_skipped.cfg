SPECIFICATION Spec
CONSTANTS
    Commands = {"cycle"}
    Modes = {"prepare_only", "approval", "unattended"}
INVARIANTS
    SkippedIsSafe
CHECK_DEADLOCK FALSE
