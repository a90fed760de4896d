SPECIFICATION Spec
CONSTANTS
    a1 = a1
    a2 = a2
    av = av
    ips = ips
    sched = sched
    oper = oper
    Archives = {a1, a2}
    Packages = {av, ips}
    Payload <- PayloadMC
    Procs = {sched, oper}
    NoArchive = NoArchive
    CommandsOf <- CommandsConcurrent
    Modes = {"approval", "unattended"}
    TelegramEnabled = FALSE
    NotifyOn = {"PREPARED", "SUCCESS", "FAILED"}
    Serial = FALSE
    MaxKills = 1
INVARIANTS
    TypeOK
    ClaimsAreBacked
    ConsentBeforeRestore
PROPERTIES
    UnsettledByStaleSaveOnly
