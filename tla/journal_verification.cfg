SPECIFICATION Spec
CONSTANTS
    Commands = {"apply"}
    Modes = {"prepare_only", "approval", "unattended"}
INVARIANTS
    VerifiedIsVerified
CHECK_DEADLOCK FALSE
