--------------------------- MODULE MCAgentLifecycle ---------------------------
(* Small instances of AgentLifecycle for TLC. *)
EXTENDS AgentLifecycle

CONSTANTS a1, a2, av, ips, sched, oper

\* a1 carries two packages, a2 one of them.
PayloadMC == [a \in Archives |-> IF a = a1 THEN {av, ips} ELSE {av}]

\* The scheduled task runs `cycle`; an operator's commands beside it.
CommandsConcurrent ==
    [p \in Procs |-> IF p = sched THEN {"cycle"} ELSE {"run", "approve", "apply"}]

\* One process at a time runs whatever leaves failures to the cycle's or to
\* approve's exception handler.
CommandsSerial == [p \in Procs |-> {"run", "dry_run", "cycle", "approve"}]

\* The same with the bare apply command.
CommandsWithApply == [p \in Procs |-> {"run", "cycle", "apply"}]

-----------------------------------------------------------------------------
(* Liveness: whatever commands an operator runs in between, the scheduler  *)
(* starts the cycle again and again, a running process goes on unless it   *)
(* is killed (MaxKills times), and for some cycles the source and Telegram *)
(* work.                                                                   *)

MonitorSucceeds(p) ==
    MonitorResume(p) \/ MonitorNoChange(p) \/ MonitorDuplicate(p) \/ MonitorPrepare(p)

InCycle(p) == proc[p].cmd = "cycle"

Fairness ==
    \A p \in Procs :
        /\ SF_vars(StartMonitor(p, "cycle"))
        /\ WF_vars(Monitor(p) \/ Deliver(p) \/ Apply(p))
        /\ SF_vars(InCycle(p) /\ MonitorSucceeds(p))
        /\ SF_vars(InCycle(p) /\ Notify(p, "SENT"))

FairSpec == Spec /\ Fairness

\* An unattended installation does its work: an archive with enabled packages
\* the source keeps offering is in the end applied, failed, put up for review
\* or skipped, crashes in between or not (the resume path of run_agent_once).
OfferedIsSettled ==
    \A a \in Archives :
        <>[](offered = a) /\ Payload[a] # {} /\ mode = "unattended" =>
            <>(archives[a].status \in Settled \union {"CONTENT_DUPLICATE"})

\* A notification that failed, or that a crash swallowed, is made up for: no
\* entry of an archive still offered stays without a delivered or disabled
\* notice (cycle.py _retry_pending_prepared_notification).
NoticeIsDelivered ==
    \A a \in Archives :
        <>[](offered = a) /\ Payload[a] # {} =>
            []<>(archives[a].notification \in {"SENT", "DISABLED"})
=============================================================================
