SPECIFICATION Spec
CONSTANTS
    a1 = a1
    a2 = a2
    av = av
    ips = ips
    sched = sched
    oper = oper
    Archives = {a1, a2}
    Packages = {av, ips}
    Payload <- PayloadMC
    Procs = {oper}
    NoArchive = NoArchive
    CommandsOf <- CommandsWithApply
    Modes = {"unattended"}
    TelegramEnabled = FALSE
    NotifyOn = {"PREPARED", "SUCCESS", "FAILED"}
    Serial = TRUE
    MaxKills = 0
PROPERTIES
    NoUnattendedReplay
