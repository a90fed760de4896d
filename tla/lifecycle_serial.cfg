SPECIFICATION FairSpec
CONSTANTS
    a1 = a1
    a2 = a2
    av = av
    ips = ips
    sched = sched
    oper = oper
    Archives = {a1, a2}
    Packages = {av, ips}
    Payload <- PayloadMC
    Procs = {oper}
    NoArchive = NoArchive
    CommandsOf <- CommandsSerial
    Modes = {"prepare_only", "approval", "unattended"}
    TelegramEnabled = TRUE
    NotifyOn = {"PREPARED", "SUCCESS", "FAILED"}
    Serial = TRUE
    MaxKills = 2
INVARIANTS
    TouchedIsSettled
PROPERTIES
    NoUnattendedReplay
    ImplementsLifecycle
    OfferedIsSettled
    NoticeIsDelivered
