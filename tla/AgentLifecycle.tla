---------------------------- MODULE AgentLifecycle ----------------------------
(***************************************************************************)
(* The lifecycle of update archives in agent-state.json, as it is driven   *)
(* by the processes of fgops-agent: the scheduled `cycle`, and the `run`,  *)
(* `run --dry-run`, `cycle`, `approve` and `apply` commands of an operator.*)
(*                                                                         *)
(* The state file has no lock: a process loads it whole, works on its own  *)
(* copy and later replaces the file whole, so every load and every save is *)
(* a step of its own and the copy is part of the process's state.  The     *)
(* controlled apply is coarse here (selected, session open, restored,      *)
(* saved, cleaned up); ControlledApply models its steps.                   *)
(***************************************************************************)
EXTENDS Naturals, FiniteSets

CONSTANTS
    Archives,         \* ZIP archives, told apart by their SHA-256
    Packages,         \* package files, a kind and a SHA-256 each
    Payload,          \* Payload[a]: the enabled packages inside archive a
    Procs,            \* processes on the host
    NoArchive,
    CommandsOf,       \* CommandsOf[p]: the commands process p is started with
    Modes,            \* the execution.mode values considered
    TelegramEnabled,  \* notifications.telegram.enabled
    NotifyOn,         \* notifications.telegram.notify_on
    Serial,           \* TRUE: one process at a time on the host
    MaxKills          \* bound: processes killed in a behaviour

AllCommands == {"run", "dry_run", "cycle", "approve", "apply", "apply_approved"}
AllModes == {"prepare_only", "approval", "unattended"}
Messages == {"PREPARED", "SUCCESS", "FAILED"}

ASSUME ConstantsAssumption ==
    /\ Payload \in [Archives -> SUBSET Packages]
    /\ NoArchive \notin Archives
    /\ CommandsOf \in [Procs -> SUBSET AllCommands]
    /\ Modes \subseteq AllModes
    /\ TelegramEnabled \in BOOLEAN
    /\ NotifyOn \subseteq Messages
    /\ Serial \in BOOLEAN
    /\ MaxKills \in Nat

VARIABLES
    mode,       \* execution.mode of config.yml
    archives,   \* the archives of agent-state.json
    offered,    \* the archive the source page links to
    proc,       \* the processes
    server,     \* server[p]: the TFTP server thread of process p
    kills,
    \* history
    prepared,   \* archives some run extracted, checked and prepared
    approved,   \* archives an operator named in an approval
    touched,    \* archives a restore command was sent to the device for
    applied     \* archives whose apply ended confirmed, postflight included

history == <<prepared, approved, touched, applied>>
vars == <<mode, archives, offered, proc, server, kills, history>>
-----------------------------------------------------------------------------
(* The state file. *)

Statuses == {"ABSENT", "PREPARED", "APPLIED", "APPLY_FAILED",
             "REVIEW_REQUIRED", "CONTENT_DUPLICATE"}
Notifications == {"none", "SENT", "FAILED", "DISABLED"}

Entry == [status : Statuses, notification : Notifications, manifest : BOOLEAN]
StateFile == [Archives -> Entry]

NoEntry == [status |-> "ABSENT", notification |-> "none", manifest |-> FALSE]
NoCopy == [a \in Archives |-> NoEntry]
PreparedEntry == [status |-> "PREPARED", notification |-> "none", manifest |-> TRUE]
DuplicateEntry ==
    [status |-> "CONTENT_DUPLICATE", notification |-> "DISABLED", manifest |-> FALSE]

HandledOnlySuccess(entry) ==
    entry.status \in {"PREPARED", "APPLIED", "CONTENT_DUPLICATE"}
\* AgentState.has_successful_archive: failed and uncertain results count too.
Handled(entry) ==
    entry.status \in {"PREPARED", "APPLIED", "APPLY_FAILED", "REVIEW_REQUIRED",
                      "CONTENT_DUPLICATE"}

Settled == {"APPLIED", "APPLY_FAILED", "REVIEW_REQUIRED"}

\* A restricted payload is recomputed from the quarantined manifest of an
\* APPLIED archive; a duplicate keeps no work directory, only its own payload.
AlreadyInstalledAnyStatus(file, a) ==
    \E b \in Archives \ {a} : file[b].manifest /\ Payload[a] \subseteq Payload[b]
AlreadyInstalled(file, a) ==
    \E b \in Archives \ {a} :
        \/ file[b].status = "APPLIED" /\ Payload[a] \subseteq Payload[b]
        \/ file[b].status = "CONTENT_DUPLICATE" /\ Payload[a] = Payload[b]
-----------------------------------------------------------------------------
(* The processes. *)

Pcs == {"idle", "monitor", "retry", "notify", "record", "apply", "selected",
        "session", "restored", "closed", "finish", "cleanup", "review", "mark"}

Process == [pc : Pcs,
            cmd : AllCommands \union {"none"},
            arg : Archives \union {NoArchive},   \* the archive worked on
            copy : StateFile,                    \* the loaded state
            msg : Messages \union {"none"},      \* status to notify, apply result
            note : Notifications,                \* outcome of the notification
            then : {"idle", "apply", "review"}]  \* where the notification returns

IdleProcess == [pc |-> "idle", cmd |-> "none", arg |-> NoArchive, copy |-> NoCopy,
                msg |-> "none", note |-> "none", then |-> "idle"]

\* Where a process holds a copy of the file that it saves in one of its next steps.
Saving == {"monitor", "record", "finish", "mark"}

At(p, pc) == proc[p].pc = pc
Become(p, r) == proc' = [proc EXCEPT ![p] = r]
Goto(r, pc) == [r EXCEPT !.pc = pc, !.copy = NoCopy]
Loading(r, pc) == [r EXCEPT !.pc = pc, !.copy = archives]
Notifying(r, msg, then) ==
    [r EXCEPT !.pc = "notify", !.copy = NoCopy, !.msg = msg, !.then = then]

Quiet == \A p \in Procs : At(p, "idle")
CanStart(p, cmd) == /\ At(p, "idle")
                    /\ cmd \in CommandsOf[p]
                    /\ Serial => Quiet


ServerStates == {"down", "starting", "up", "failed"}

Init ==
    /\ mode \in Modes
    /\ archives = NoCopy
    /\ offered \in Archives
    /\ proc = [p \in Procs |-> IdleProcess]
    /\ server = [p \in Procs |-> "down"]
    /\ kills = 0
    /\ prepared = {} /\ approved = {} /\ touched = {} /\ applied = {}

\* The publisher links another archive, an older one included.
Publish(a) ==
    /\ offered # a
    /\ offered' = a
    /\ UNCHANGED <<mode, archives, proc, server, kills, history>>
-----------------------------------------------------------------------------
(* run_agent_once: fetch, download, prepare. *)

\* The state is loaded before the page is fetched.
StartMonitor(p, cmd) ==
    /\ cmd \in {"run", "dry_run", "cycle"}
    /\ CanStart(p, cmd)
    /\ Become(p, Loading([IdleProcess EXCEPT !.cmd = cmd], "monitor"))
    /\ UNCHANGED <<mode, archives, offered, server, kills, history>>

\* What the caller does with status PREPARED: `run` prints it, `cycle` notifies
\* and, in unattended mode, goes on to the apply.
AfterPrepared(r) ==
    IF r.cmd = "cycle"
    THEN Notifying(r, "PREPARED", IF mode = "unattended" THEN "apply" ELSE "idle")
    ELSE IdleProcess

\* Source, download, inventory or policy failure: the copy is saved all the same.
MonitorFail(p) ==
    /\ At(p, "monitor")
    /\ archives' = proc[p].copy
    /\ Become(p, IdleProcess)
    /\ UNCHANGED <<mode, offered, server, kills, history>>

NeverResumable(r, entry) == FALSE
\* An unattended run takes up an archive that was prepared and not applied.
Resumable(r, entry) ==
    /\ mode = "unattended"
    /\ r.cmd # "dry_run"
    /\ entry.status = "PREPARED"
    /\ entry.manifest

MonitorResume(p) ==
    LET r == proc[p] IN
    /\ At(p, "monitor")
    /\ Handled(r.copy[offered]) /\ Resumable(r, r.copy[offered])
    /\ archives' = r.copy
    /\ Become(p, AfterPrepared([r EXCEPT !.arg = offered]))
    /\ UNCHANGED <<mode, offered, server, kills, history>>

MonitorNoChange(p) ==
    LET r == proc[p] IN
    /\ At(p, "monitor")
    /\ Handled(r.copy[offered]) /\ ~Resumable(r, r.copy[offered])
    /\ archives' = r.copy
    /\ Become(p, IF r.cmd = "cycle" THEN Goto([r EXCEPT !.arg = offered], "retry")
                                    ELSE IdleProcess)
    /\ UNCHANGED <<mode, offered, server, kills, history>>

MonitorDuplicate(p) ==
    LET r == proc[p] IN
    /\ At(p, "monitor")
    /\ ~Handled(r.copy[offered])
    /\ Payload[offered] # {}
    /\ AlreadyInstalled(r.copy, offered)
    /\ archives' = [r.copy EXCEPT ![offered] = DuplicateEntry]
    /\ Become(p, IdleProcess)
    /\ UNCHANGED <<mode, offered, server, kills, history>>

MonitorPrepare(p) ==
    LET r == proc[p] IN
    /\ At(p, "monitor")
    /\ ~Handled(r.copy[offered])
    /\ Payload[offered] # {}
    /\ ~AlreadyInstalled(r.copy, offered)
    /\ archives' = [r.copy EXCEPT ![offered] = PreparedEntry]
    /\ prepared' = prepared \union {offered}
    /\ Become(p, AfterPrepared([r EXCEPT !.arg = offered]))
    /\ UNCHANGED <<mode, offered, server, kills, approved, touched, applied>>
-----------------------------------------------------------------------------
(* Notifications. *)

\* _retry_pending_prepared_notification, after NO_CHANGE: it looks at the
\* notification of the entry, not at its status.
PendingNoticeOnlyNew(entry) ==
    TelegramEnabled /\ entry.notification = "none" /\ entry.manifest
PendingNotice(entry) ==
    /\ TelegramEnabled
    /\ entry.notification \in {"none", "FAILED"}
    /\ entry.manifest

RetryNotice(p) ==
    LET r == proc[p] IN
    /\ At(p, "retry")
    /\ Become(p, IF PendingNotice(archives[r.arg])
                 THEN Notifying(r, "PREPARED", "idle")
                 ELSE IdleProcess)
    /\ UNCHANGED <<mode, archives, offered, server, kills, history>>

NoticeOutcomes(msg) ==
    IF TelegramEnabled /\ msg \in NotifyOn THEN {"SENT", "FAILED"} ELSE {"DISABLED"}

\* _send_notification, then the load of _record_notification.
Notify(p, outcome) ==
    /\ At(p, "notify")
    /\ outcome \in NoticeOutcomes(proc[p].msg)
    /\ Become(p, Loading([proc[p] EXCEPT !.note = outcome], "record"))
    /\ UNCHANGED <<mode, archives, offered, server, kills, history>>

\* The save of _record_notification; an entry that is gone is left alone.
Record(p) ==
    LET r == proc[p] IN
    /\ At(p, "record")
    /\ archives' = IF r.copy[r.arg].status = "ABSENT"
                   THEN archives
                   ELSE [r.copy EXCEPT ![r.arg].notification = r.note]
    /\ Become(p, IF r.then = "idle"
                 THEN IdleProcess
                 ELSE Goto([r EXCEPT !.msg = "none", !.note = "none", !.then = "idle"],
                           r.then))
    /\ UNCHANGED <<mode, offered, server, kills, history>>
-----------------------------------------------------------------------------
(* approve, apply and the controlled apply. *)

\* approve refuses every other mode before it does anything.
StartApprove(p, a) ==
    /\ CanStart(p, "approve")
    /\ mode = "approval"
    /\ approved' = approved \union {a}
    /\ Become(p, [IdleProcess EXCEPT !.pc = "apply", !.cmd = "approve", !.arg = a])
    /\ UNCHANGED <<mode, archives, offered, server, kills, prepared, touched, applied>>

\* apply --manifest-id, with or without --approve-manifest.
StartApply(p, a, cmd) ==
    /\ cmd \in {"apply", "apply_approved"}
    /\ CanStart(p, cmd)
    /\ approved' = IF cmd = "apply_approved" THEN approved \union {a} ELSE approved
    /\ Become(p, [IdleProcess EXCEPT !.pc = "apply", !.cmd = cmd, !.arg = a])
    /\ UNCHANGED <<mode, archives, offered, server, kills, prepared, touched, applied>>

ModeAllowsAny(r) == mode # "prepare_only"
ModeAllows(r) ==
    /\ mode # "prepare_only"
    /\ mode = "approval" => r.cmd \in {"approve", "apply_approved"}

SelectAny(p) ==
    LET r == proc[p] IN
    /\ At(p, "apply")
    /\ ModeAllows(r)
    /\ archives[r.arg].manifest
    /\ Become(p, Goto(r, "selected"))
    /\ UNCHANGED <<mode, archives, offered, server, kills, history>>
\* The policy gates and _select_archive.
Select(p) ==
    LET r == proc[p] IN
    /\ At(p, "apply")
    /\ ModeAllows(r)
    /\ archives[r.arg].manifest
    /\ archives[r.arg].status = "PREPARED"
    /\ Become(p, Goto(r, "selected"))
    /\ UNCHANGED <<mode, archives, offered, server, kills, history>>

\* Manifest, hash and preflight checks passed, packages are staged: start() finds
\* the port free with a socket it closes again, and leaves the bind to a thread.
OpenSession(p) ==
    /\ At(p, "selected")
    /\ \A q \in Procs : server[q] # "up"
    /\ server' = [server EXCEPT ![p] = "starting"]
    /\ Become(p, Goto(proc[p], "session"))
    /\ UNCHANGED <<mode, archives, offered, kills, history>>

\* The first package's restore command is sent: the device may change from now
\* on.  The restores of further packages change nothing modelled here.
Restore(p) ==
    LET r == proc[p] IN
    /\ At(p, "session")
    /\ touched' = touched \union {r.arg}
    /\ Become(p, Goto(r, "restored"))
    /\ UNCHANGED <<mode, archives, offered, server, kills, prepared, approved, applied>>

\* The last restore is judged; the SSH session and the TFTP server are closed.  A
\* bind that was refused meanwhile is an exception now.
Close(p) ==
    /\ At(p, "restored")
    /\ server[p] # "failed"
    /\ server' = [server EXCEPT ![p] = "down"]
    /\ Become(p, Goto(proc[p], "closed"))
    /\ UNCHANGED <<mode, archives, offered, kills, history>>

\* Backup copy, postflight and reports are done, the overall status is known
\* and the state is loaded again.
Conclude(p, overall) ==
    /\ At(p, "closed")
    /\ overall \in {"SUCCESS", "FAILED"}
    /\ Become(p, Loading([proc[p] EXCEPT !.msg = overall], "finish"))
    /\ UNCHANGED <<mode, archives, offered, server, kills, history>>

OverallAsStatus(overall) == overall
FinalStatus(overall) == IF overall = "SUCCESS" THEN "APPLIED" ELSE "APPLY_FAILED"

\* Where a completed apply returns to.
AfterApply(r) ==
    IF r.cmd = "cycle" \/ (r.cmd = "approve" /\ archives'[r.arg].manifest)
    THEN Notifying(r, r.msg, "idle")
    ELSE IdleProcess

\* The save that ends an apply.
Finish(p) ==
    LET r == proc[p] IN
    /\ At(p, "finish")
    /\ r.copy[r.arg].status # "ABSENT"
    /\ archives' = [r.copy EXCEPT ![r.arg].status = FinalStatus(r.msg)]
    /\ applied' = IF r.msg = "SUCCESS" THEN applied \union {r.arg} ELSE applied
    /\ Become(p, IF r.msg = "SUCCESS" THEN Goto(r, "cleanup") ELSE AfterApply(r))
    /\ UNCHANGED <<mode, offered, server, kills, prepared, approved, touched>>

\* rmtree of the TFTP run directory.
Cleanup(p) ==
    /\ At(p, "cleanup")
    /\ UNCHANGED archives
    /\ Become(p, AfterApply(proc[p]))
    /\ UNCHANGED <<mode, offered, server, kills, history>>

\* What catches an exception of run_controlled_apply: the cycle marks the
\* archive for review, approve notifies first, the apply command only exits.
IgnoresFailure(r) == IdleProcess
AfterRaise(r) ==
    IF r.cmd = "cycle"
    THEN Goto([r EXCEPT !.msg = "none"], "review")
    ELSE IF r.cmd = "approve" /\ archives[r.arg].manifest
         THEN Notifying(r, "FAILED", "review")
         ELSE IdleProcess

\* A secret, a gate, a check, the device, the backup copy, the state file or
\* the cleanup fails with an exception; the with-blocks close the TFTP server.
ApplyRaise(p) ==
    /\ proc[p].pc \in {"apply", "selected", "session", "restored", "closed",
                      "finish", "cleanup"}
    /\ server' = [server EXCEPT ![p] = "down"]
    /\ Become(p, AfterRaise(proc[p]))
    /\ UNCHANGED <<mode, archives, offered, kills, history>>

\* _mark_review_required: load, then save.
Review(p) ==
    /\ At(p, "review")
    /\ Become(p, Loading(proc[p], "mark"))
    /\ UNCHANGED <<mode, archives, offered, server, kills, history>>

Mark(p) ==
    LET r == proc[p] IN
    /\ At(p, "mark")
    /\ archives' = IF r.copy[r.arg].status = "ABSENT"
                   THEN archives
                   ELSE [r.copy EXCEPT ![r.arg].status = "REVIEW_REQUIRED"]
    /\ Become(p, IF r.cmd = "cycle" THEN Notifying(r, "FAILED", "idle") ELSE IdleProcess)
    /\ UNCHANGED <<mode, offered, server, kills, history>>

\* The process ends without running another line: power loss, the task's
\* execution time limit, a Ctrl-C, or an exception nothing above catches.
Kill(p) ==
    /\ ~At(p, "idle")
    /\ kills < MaxKills
    /\ kills' = kills + 1
    /\ server' = [server EXCEPT ![p] = "down"]
    /\ Become(p, IdleProcess)
    /\ UNCHANGED <<mode, archives, offered, history>>
-----------------------------------------------------------------------------
(* The server threads. *)

\* The thread binds the port, which only one process on the host can hold.
Bind(p) ==
    /\ server[p] = "starting"
    /\ \A q \in Procs : server[q] # "up"
    /\ server' = [server EXCEPT ![p] = "up"]
    /\ UNCHANGED <<mode, archives, offered, proc, kills, history>>

\* The bind is refused, or the server ends with another error; the session goes on.
ServerFails(p) ==
    /\ server[p] \in {"starting", "up"}
    /\ server' = [server EXCEPT ![p] = "failed"]
    /\ UNCHANGED <<mode, archives, offered, proc, kills, history>>
-----------------------------------------------------------------------------
Monitor(p) ==
    \/ MonitorFail(p)
    \/ MonitorResume(p)
    \/ MonitorNoChange(p)
    \/ MonitorDuplicate(p)
    \/ MonitorPrepare(p)

Deliver(p) ==
    \/ RetryNotice(p)
    \/ \E outcome \in Notifications : Notify(p, outcome)
    \/ Record(p)

Apply(p) ==
    \/ Select(p)
    \/ OpenSession(p)
    \/ Restore(p)
    \/ Close(p)
    \/ \E overall \in Messages : Conclude(p, overall)
    \/ Finish(p)
    \/ Cleanup(p)
    \/ ApplyRaise(p)
    \/ Review(p)
    \/ Mark(p)

Serve(p) == Bind(p) \/ ServerFails(p)

Start(p) ==
    \/ \E cmd \in AllCommands : StartMonitor(p, cmd)
    \/ \E a \in Archives : StartApprove(p, a)
    \/ \E a \in Archives, cmd \in AllCommands : StartApply(p, a, cmd)

Next ==
    \/ \E a \in Archives : Publish(a)
    \/ \E p \in Procs : Start(p) \/ Monitor(p) \/ Deliver(p) \/ Apply(p) \/ Serve(p) \/ Kill(p)

Spec == Init /\ [][Next]_vars
-----------------------------------------------------------------------------
(* Properties. *)

TypeOK ==
    /\ mode \in Modes
    /\ archives \in StateFile
    /\ offered \in Archives
    /\ proc \in [Procs -> Process]
    /\ server \in [Procs -> ServerStates]
    /\ kills \in Nat
    /\ prepared \subseteq Archives
    /\ approved \subseteq Archives
    /\ touched \subseteq Archives
    /\ applied \subseteq Archives

\* An update is never skipped on a false claim.  Whatever stale copies are
\* saved over one another and whoever is killed where, an archive the file
\* calls APPLIED went through a confirmed apply, and one it calls
\* CONTENT_DUPLICATE has all of its packages in an archive that did
\* (agent_orchestrator.py _find_applied_payload, controlled_apply.py's last save).
ClaimsAreBacked ==
    \A a \in Archives :
        /\ archives[a].status = "APPLIED" => a \in applied
        /\ archives[a].status = "CONTENT_DUPLICATE" =>
              \E b \in applied : Payload[a] \subseteq Payload[b]

\* The device is only touched for an archive that was prepared; in approval
\* mode only for one an operator approved by its manifest; in prepare_only
\* mode never (controlled_apply.py's gates, docs/architecture.md's modes).
ConsentBeforeRestore ==
    /\ touched \subseteq prepared
    /\ mode = "approval" => touched \subseteq approved
    /\ mode = "prepare_only" => touched = {}

\* A settled archive loses its status only to a lost update: the process that
\* un-settles it saves a copy in which the archive was not settled yet.  No
\* handler by itself makes an archive eligible again that a person has to look at
\* (agent_state.py: the statuses has_successful_archive treats as handled).
UnsettledByStaleSaveOnly ==
    [][\A a \in Archives :
         archives[a].status \in Settled /\ archives'[a].status \notin Settled =>
            \E p \in Procs : /\ proc[p].pc \in Saving /\ proc'[p] # proc[p]
                             /\ proc[p].copy[a].status \notin Settled]_vars

\* As long as nobody is killed, an archive whose restore began, and that no
\* process is working on, is never left as if nothing had happened: its status
\* says how it ended or that a person has to look (cycle.py's exception handlers).
TouchedIsSettled ==
    kills = 0 =>
        \A a \in touched :
            \/ archives[a].status \in Settled
            \/ \E p \in Procs : proc[p].arg = a

\* agent_state.py: "Re-downloading the same hash must never cause an
\* unattended replay after an uncertain or partially completed
\* device-changing operation."  As long as nobody is killed a cycle does not
\* restore an archive whose restore was begun before.
NoUnattendedReplay ==
    [][\A p \in Procs :
         kills = 0 /\ At(p, "session") /\ proc[p].cmd = "cycle" /\ proc[p].arg \in touched
             => proc'[p].pc # "restored"]_vars

Contract == INSTANCE ArchiveLifecycle
              WITH status <- [a \in Archives |-> archives[a].status]

\* Run by one process at a time, the agent keeps the lifecycle of
\* ArchiveLifecycle, through exceptions and kills: an archive is prepared once,
\* touched only while prepared, settled only after its restore began, and never
\* un-settled (docs/architecture.md, policy and state plane).
ImplementsLifecycle == Contract!Spec
=============================================================================
