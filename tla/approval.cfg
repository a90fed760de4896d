SPECIFICATION FairSpec
CONSTANTS
    owner = owner
    member = member
    guest = guest
    Issues = {1, 2}
    Approvers = {owner, guest}
    Associated = {owner, member}
    Allowed = {"AV", "ISDB"}
    SafePackages = {"AV"}
    Created = 1
    Expires = 4
    Reminders = {1}
    RepeatEvery = 1
    Menu <- MenuMC
    ListLimit = 2
    Horizon = 4
    MaxComments = 2
    MaxFailures = 1
INVARIANTS
    TypeOK
    GrantIsBacked
    RemindersAreFew
PROPERTIES
    ClosedStaysClosed
    ActsOnce
    CommandsAreProcessed
    ApprovalIsDecided
