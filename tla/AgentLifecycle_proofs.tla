------------------------- MODULE AgentLifecycle_proofs -------------------------
(***************************************************************************)
(* The safety properties of AgentLifecycle for any number of archives and  *)
(* processes, any interleaving of their loads and saves, any commands,     *)
(* modes and payloads, and any number of kills.                            *)
(***************************************************************************)
EXTENDS AgentLifecycle, TLAPS

(* Type correctness.  It needs to know that a process past its monitor step *)
(* works on an archive.                                                     *)

Active == {r \in Process : r.arg \in Archives}
Sound == {r \in Process : r.pc \in {"idle", "monitor"} \/ r.arg \in Archives}

TypeInv == TypeOK /\ \A p \in Procs : proc[p] \in Sound

\* The records the actions build from an active process are active.
LEMMA RecordTypes ==
    ASSUME TypeOK, NEW r \in Active
    PROVE  /\ \A pc \in Pcs : Goto(r, pc) \in Active /\ Loading(r, pc) \in Active
           /\ \A m \in Messages \union {"none"}, t \in {"idle", "apply", "review"} :
                 Notifying(r, m, t) \in Active
           /\ r \in Sound
           /\ r.copy \in StateFile /\ r.note \in Notifications /\ r.then \in Pcs
           /\ r.msg \in Messages \union {"none"}
<1>1. NoCopy \in StateFile
    BY DEF NoCopy, StateFile, NoEntry, Entry, Statuses, Notifications
<1>2. archives \in StateFile
    BY DEF TypeOK
<1>3. \A pc \in Pcs : Goto(r, pc) \in Active /\ Loading(r, pc) \in Active
    BY <1>1, <1>2 DEF Goto, Loading, Process, Active
<1>4. \A m \in Messages \union {"none"}, t \in {"idle", "apply", "review"} :
          Notifying(r, m, t) \in Active
    BY <1>1 DEF Notifying, Process, Pcs, Active
<1> QED
    BY <1>3, <1>4 DEF Process, Active, Sound, Pcs

\* The record of a process that is not running.
LEMMA IdleType == IdleProcess \in Sound
<1>1. NoCopy \in StateFile
    BY DEF NoCopy, StateFile, NoEntry, Entry, Statuses, Notifications
<1> QED
    BY <1>1 DEF IdleProcess, Process, Pcs, Notifications, Sound

\* The entries the actions write are entries.
LEMMA EntryTypes ==
    ASSUME NEW file \in StateFile, NEW a
    PROVE  /\ [file EXCEPT ![a] = PreparedEntry] \in StateFile
           /\ [file EXCEPT ![a] = DuplicateEntry] \in StateFile
           /\ \A s \in Statuses : [file EXCEPT ![a].status = s] \in StateFile
           /\ \A n \in Notifications : [file EXCEPT ![a].notification = n] \in StateFile
BY DEF StateFile, Entry, PreparedEntry, DuplicateEntry, Statuses, Notifications

\* What the actions of a process share: a sound record and a state file in their
\* place leave the whole state well typed.
LEMMA StepType ==
    ASSUME TypeInv, NEW p \in Procs, NEW r \in Sound, Become(p, r),
           archives' \in StateFile,
           server' \in [Procs -> ServerStates],
           kills' \in Nat, offered' = offered, mode' = mode,
           prepared' \subseteq Archives, approved' \subseteq Archives,
           touched' \subseteq Archives, applied' \subseteq Archives
    PROVE  TypeInv'
<1>1. proc' \in [Procs -> Process] /\ \A q \in Procs : proc'[q] \in Sound
    BY DEF Become, TypeInv, TypeOK, Sound
<1> QED
    BY <1>1 DEF TypeInv, TypeOK, Sound

\* A process that has left its monitor step is active.
LEMMA SoundIsActive ==
    ASSUME TypeInv, NEW p \in Procs, proc[p].pc \notin {"idle", "monitor"}
    PROVE  proc[p] \in Active
BY DEF TypeInv, Sound, Active

\* What run_agent_once's caller becomes.
LEMMA AfterPreparedType ==
    ASSUME TypeInv, NEW r \in Active
    PROVE  AfterPrepared(r) \in Sound
BY RecordTypes, IdleType DEF AfterPrepared, Messages, TypeInv, Sound, Active

LEMMA MonitorType ==
    ASSUME TypeInv, NEW p \in Procs, Monitor(p)
    PROVE  TypeInv'
<1> DEFINE r == proc[p]
           s == [r EXCEPT !.arg = offered]
<1> USE IdleType
<1>1. r \in Process /\ offered \in Archives /\ r.copy \in StateFile
    BY DEF TypeInv, TypeOK, Process
<1>2. s \in Active
    BY <1>1 DEF Process, Active
<1>3. AfterPrepared(s) \in Sound /\ Goto(s, "retry") \in Sound
    BY <1>2, RecordTypes, AfterPreparedType DEF Pcs, TypeInv, Active, Sound
<1>4. CASE MonitorFail(p)
    BY <1>1, <1>4, StepType DEF MonitorFail, history, TypeInv, TypeOK
<1>5. CASE MonitorResume(p)
    BY <1>1, <1>3, <1>5, StepType DEF MonitorResume, history, TypeInv, TypeOK
<1>6. CASE MonitorNoChange(p)
    <2>1. PICK t \in Sound : Become(p, t)
        BY <1>3, <1>6 DEF MonitorNoChange
    <2> QED
        BY <1>1, <1>6, <2>1, StepType DEF MonitorNoChange, history, TypeInv, TypeOK
<1>7. CASE MonitorDuplicate(p)
    <2>1. archives' \in StateFile
        BY <1>1, <1>7, EntryTypes DEF MonitorDuplicate
    <2> QED
        BY <1>7, <2>1, StepType DEF MonitorDuplicate, history, TypeInv, TypeOK
<1>8. CASE MonitorPrepare(p)
    <2>1. archives' \in StateFile
        BY <1>1, <1>8, EntryTypes DEF MonitorPrepare
    <2>2. prepared' \subseteq Archives
        BY <1>1, <1>8 DEF MonitorPrepare, TypeInv, TypeOK
    <2> QED
        BY <1>3, <1>8, <2>1, <2>2, StepType DEF MonitorPrepare, TypeInv, TypeOK
<1> QED
    BY <1>4, <1>5, <1>6, <1>7, <1>8 DEF Monitor

LEMMA DeliverType ==
    ASSUME TypeInv, NEW p \in Procs, Deliver(p)
    PROVE  TypeInv'
<1> DEFINE r == proc[p]
<1> USE IdleType
<1>1. r \in Active
    BY SoundIsActive DEF Deliver, RetryNotice, Notify, Record, At
<1>2. TypeOK
    BY DEF TypeInv
<1>3. CASE RetryNotice(p)
    <2>1. PICK t \in Sound : Become(p, t)
        BY <1>1, <1>2, <1>3, RecordTypes DEF RetryNotice, Messages, Active, Sound
    <2> QED
        BY <1>3, <2>1, StepType DEF RetryNotice, history, TypeInv, TypeOK
<1>4. ASSUME NEW outcome \in Notifications, Notify(p, outcome)
      PROVE  TypeInv'
    <2>1. [r EXCEPT !.note = outcome] \in Active
        BY <1>1 DEF Process, Active
    <2>2. Loading([r EXCEPT !.note = outcome], "record") \in Sound
        BY <1>2, <2>1, RecordTypes DEF Pcs, Active, Sound
    <2> QED
        BY <1>4, <2>2, StepType DEF Notify, history, TypeInv, TypeOK
<1>5. CASE Record(p)
    <2>1. archives' \in StateFile
        BY <1>1, <1>2, <1>5, RecordTypes, EntryTypes DEF Record, TypeOK
    <2> DEFINE s == [r EXCEPT !.msg = "none", !.note = "none", !.then = "idle"]
    <2>2. s \in Active
        BY <1>1 DEF Process, Notifications, Active
    <2>3. Goto(s, r.then) \in Sound
        BY <1>1, <1>2, <2>2, RecordTypes DEF Active, Sound
    <2>4. PICK t \in Sound : Become(p, t)
        BY <1>5, <2>3 DEF Record
    <2> QED
        BY <1>5, <2>1, <2>4, StepType DEF Record, history, TypeInv, TypeOK
<1> QED
    BY <1>3, <1>4, <1>5 DEF Deliver

\* What a completed and what a failed apply go on with.
LEMMA AfterApplyType ==
    ASSUME TypeOK, NEW r \in Active
    PROVE  AfterApply(r) \in Sound
BY RecordTypes, IdleType DEF AfterApply, Active, Sound

LEMMA AfterRaiseType ==
    ASSUME TypeOK, NEW r \in Active
    PROVE  AfterRaise(r) \in Sound
<1>1. [r EXCEPT !.msg = "none"] \in Active
    BY DEF Process, Active
<1> QED
    BY <1>1, RecordTypes, IdleType DEF AfterRaise, Messages, Pcs, Active, Sound

LEMMA ApplyType ==
    ASSUME TypeInv, NEW p \in Procs, Apply(p)
    PROVE  TypeInv'
<1> DEFINE r == proc[p]
<1> USE IdleType
<1>1. r \in Active
    BY SoundIsActive DEF Apply, Select, OpenSession, Restore, Close, Conclude, Finish,
       Cleanup, ApplyRaise, Review, Mark, At
<1>2. TypeOK
    BY DEF TypeInv
<1>3. \A pc \in Pcs : Goto(r, pc) \in Sound /\ Loading(r, pc) \in Sound
    BY <1>1, <1>2, RecordTypes DEF Active, Sound
<1>4. CASE Select(p)
    BY <1>3, <1>4, StepType DEF Select, history, TypeInv, TypeOK, Pcs
<1>5. CASE OpenSession(p)
    BY <1>3, <1>5, StepType DEF OpenSession, history, TypeInv, TypeOK, Pcs, ServerStates
<1>6. CASE Restore(p)
    <2>1. touched' \subseteq Archives
        BY <1>1, <1>2, <1>6 DEF Restore, Active, TypeOK
    <2> QED
        BY <1>3, <1>6, <2>1, StepType DEF Restore, TypeInv, TypeOK, Pcs
<1>7. CASE Close(p)
    BY <1>3, <1>7, StepType DEF Close, history, TypeInv, TypeOK, Pcs, ServerStates
<1>8. ASSUME NEW overall \in Messages, Conclude(p, overall)
      PROVE  TypeInv'
    <2>1. [r EXCEPT !.msg = overall] \in Active
        BY <1>1 DEF Process, Active
    <2>2. Loading([r EXCEPT !.msg = overall], "finish") \in Sound
        BY <1>2, <2>1, RecordTypes DEF Pcs, Active, Sound
    <2> QED
        BY <1>8, <2>2, StepType DEF Conclude, history, TypeInv, TypeOK
<1>9. CASE Finish(p)
    <2>1. archives' \in StateFile
        BY <1>1, <1>2, <1>9, RecordTypes, EntryTypes
        DEF Finish, FinalStatus, Statuses
    <2>2. applied' \subseteq Archives
        BY <1>1, <1>2, <1>9 DEF Finish, Active, TypeOK
    <2>3. PICK t \in Sound : Become(p, t)
        BY <1>1, <1>2, <1>3, <1>9, AfterApplyType DEF Finish, Pcs
    <2> QED
        BY <1>9, <2>1, <2>2, <2>3, StepType DEF Finish, TypeInv, TypeOK
<1>10. CASE Cleanup(p)
    BY <1>1, <1>10, AfterApplyType, StepType DEF Cleanup, history, TypeInv, TypeOK
<1>11. CASE ApplyRaise(p)
    BY <1>1, <1>11, AfterRaiseType, StepType
    DEF ApplyRaise, history, TypeInv, TypeOK, ServerStates
<1>12. CASE Review(p)
    BY <1>3, <1>12, StepType DEF Review, history, TypeInv, TypeOK, Pcs
<1>13. CASE Mark(p)
    <2>1. archives' \in StateFile
        BY <1>1, <1>2, <1>13, RecordTypes, EntryTypes DEF Mark, TypeOK, Statuses
    <2>2. PICK t \in Sound : Become(p, t)
        BY <1>1, <1>2, <1>13, RecordTypes DEF Mark, Messages, Active, Sound
    <2> QED
        BY <1>13, <2>1, <2>2, StepType DEF Mark, history, TypeInv, TypeOK
<1> QED
    BY <1>4, <1>5, <1>6, <1>7, <1>8, <1>9, <1>10, <1>11, <1>12, <1>13 DEF Apply

LEMMA StartType ==
    ASSUME TypeInv, NEW p \in Procs, Start(p) \/ Kill(p)
    PROVE  TypeInv'
<1> USE IdleType
<1>1. TypeOK
    BY DEF TypeInv
<1>2. ASSUME NEW cmd \in AllCommands, StartMonitor(p, cmd)
      PROVE  TypeInv'
    <2>1. Loading([IdleProcess EXCEPT !.cmd = cmd], "monitor") \in Sound
        BY <1>1 DEF Loading, Sound, Process, IdleProcess, Pcs, TypeOK
    <2> QED
        BY <1>2, <2>1, StepType DEF StartMonitor, history, TypeInv, TypeOK
<1>3. ASSUME NEW a \in Archives, NEW cmd \in AllCommands
      PROVE  [IdleProcess EXCEPT !.pc = "apply", !.cmd = cmd, !.arg = a] \in Sound
    BY DEF Sound, Process, IdleProcess, Pcs
<1>4. ASSUME NEW a \in Archives, StartApprove(p, a)
      PROVE  TypeInv'
    BY <1>3, <1>4, StepType DEF StartApprove, TypeInv, TypeOK, AllCommands
<1>5. ASSUME NEW a \in Archives, NEW cmd \in AllCommands, StartApply(p, a, cmd)
      PROVE  TypeInv'
    BY <1>3, <1>5, StepType DEF StartApply, TypeInv, TypeOK
<1>6. CASE Kill(p)
    BY <1>6, StepType DEF Kill, history, TypeInv, TypeOK, ServerStates
<1> QED
    BY <1>2, <1>4, <1>5, <1>6 DEF Start

\* The server threads touch nothing else.
LEMMA ServeType ==
    ASSUME TypeInv, NEW p \in Procs, Serve(p)
    PROVE  TypeInv'
<1>1. UNCHANGED <<mode, archives, offered, proc, kills, history>>
    BY DEF Serve, Bind, ServerFails
<1>2. server' \in [Procs -> ServerStates]
    BY DEF Serve, Bind, ServerFails, TypeInv, TypeOK, ServerStates
<1> QED
    BY <1>1, <1>2 DEF TypeInv, TypeOK, Sound, history

LEMMA TypeInit ==
    ASSUME Init
    PROVE  TypeInv
<1>1. NoCopy \in StateFile
    BY DEF NoCopy, StateFile, NoEntry, Entry, Statuses, Notifications
<1> QED
    BY <1>1, IdleType DEF Init, TypeInv, TypeOK, Sound, ServerStates

LEMMA TypeNext ==
    ASSUME TypeInv, [Next]_vars
    PROVE  TypeInv'
<1>1. ASSUME NEW a \in Archives, Publish(a)
      PROVE  TypeInv'
    BY <1>1 DEF Publish, history, TypeInv, TypeOK, Sound, Process
<1>2. CASE UNCHANGED vars
    BY <1>2 DEF vars, history, TypeInv, TypeOK, Sound
<1> QED
    BY <1>1, <1>2, MonitorType, DeliverType, ApplyType, StartType, ServeType DEF Next

\* Every reachable state is well typed.
THEOREM TypeCorrect == Spec => []TypeOK
<1>1. TypeInv => TypeOK
    BY DEF TypeInv
<1> QED
    BY <1>1, TypeInit, TypeNext, PTL DEF Spec
-----------------------------------------------------------------------------
(* What the file and every copy of it claim is backed by history.  A copy   *)
(* can be stale, but history only grows: what was true when the copy was    *)
(* loaded is true when it is saved.                                         *)

FileOK(file, done, prep) ==
    \A a \in Archives :
        /\ file[a].status = "APPLIED" => a \in done
        /\ file[a].status = "CONTENT_DUPLICATE" =>
              \E b \in done : Payload[a] \subseteq Payload[b]
        /\ file[a].status = "PREPARED" => a \in prep

HistoryInv ==
    /\ TypeInv
    /\ FileOK(archives, applied, prepared)
    /\ \A p \in Procs : FileOK(proc[p].copy, applied, prepared)

LEMMA FileMonotonic ==
    ASSUME NEW file, NEW done, NEW more, NEW prep, NEW extra,
           FileOK(file, done, prep), done \subseteq more, prep \subseteq extra
    PROVE  FileOK(file, more, extra)
BY DEF FileOK

LEMMA EmptyFileOK == ASSUME NEW done, NEW prep PROVE FileOK(NoCopy, done, prep)
BY DEF FileOK, NoCopy, NoEntry

\* The entries the actions write keep the claims backed.
LEMMA FileUpdates ==
    ASSUME NEW file \in StateFile, NEW done, NEW prep, FileOK(file, done, prep), NEW a
    PROVE  /\ \A n : FileOK([file EXCEPT ![a].notification = n], done, prep)
           /\ \A s \in {"REVIEW_REQUIRED", "APPLY_FAILED"} :
                 FileOK([file EXCEPT ![a].status = s], done, prep)
           /\ FileOK([file EXCEPT ![a].status = "APPLIED"], done \union {a}, prep)
           /\ FileOK([file EXCEPT ![a] = PreparedEntry], done, prep \union {a})
BY DEF FileOK, StateFile, Entry, PreparedEntry

\* A duplicate's claim rests on what the copy claims of another archive.
LEMMA DuplicateUpdate ==
    ASSUME NEW file \in StateFile, NEW done, NEW prep, FileOK(file, done, prep),
           NEW a \in Archives, AlreadyInstalled(file, a)
    PROVE  FileOK([file EXCEPT ![a] = DuplicateEntry], done, prep)
<1>1. PICK b \in Archives \ {a} :
          \/ file[b].status = "APPLIED" /\ Payload[a] \subseteq Payload[b]
          \/ file[b].status = "CONTENT_DUPLICATE" /\ Payload[a] = Payload[b]
    BY DEF AlreadyInstalled
<1>2. \E c \in done : Payload[a] \subseteq Payload[c]
    BY <1>1 DEF FileOK
<1> QED
    BY <1>2 DEF FileOK, StateFile, DuplicateEntry

\* The copy in each record an action builds.
LEMMA RecordCopies ==
    ASSUME NEW r \in Process, NEW pc, NEW m, NEW t
    PROVE  /\ Goto(r, pc).copy = NoCopy
           /\ Loading(r, pc).copy = archives
           /\ Notifying(r, m, t).copy = NoCopy
           /\ IdleProcess.copy = NoCopy
BY DEF Goto, Loading, Notifying, IdleProcess, Process

LEMMA HistoryStep ==
    ASSUME HistoryInv, NEW p \in Procs, NEW r, Become(p, r), TypeInv',
           r.copy \in {NoCopy, archives},
           applied \subseteq applied', prepared \subseteq prepared',
           FileOK(archives', applied', prepared')
    PROVE  HistoryInv'
<1>1. ASSUME NEW q \in Procs
      PROVE  FileOK(proc'[q].copy, applied', prepared')
    <2>1. CASE q = p
        <3>1. proc'[q].copy \in {NoCopy, archives}
            BY <2>1 DEF Become, HistoryInv, TypeInv, TypeOK
        <3> QED
            BY <3>1, EmptyFileOK, FileMonotonic DEF HistoryInv
    <2>2. CASE q # p
        <3>1. proc'[q] = proc[q]
            BY <2>2 DEF Become, HistoryInv, TypeInv, TypeOK
        <3> QED
            BY <3>1, FileMonotonic DEF HistoryInv
    <2> QED
        BY <2>1, <2>2
<1> QED
    BY <1>1 DEF HistoryInv

\* No step loads or keeps any other state than the present file.
LEMMA StepCopies ==
    ASSUME TypeInv, NEW p \in Procs,
           Start(p) \/ Monitor(p) \/ Deliver(p) \/ Apply(p) \/ Kill(p)
    PROVE  \E r : Become(p, r) /\ r.copy \in {NoCopy, archives}
<1> DEFINE s == proc[p]
           t == [s EXCEPT !.arg = offered]
<1>1. s \in Process /\ t \in Process
    BY DEF TypeInv, TypeOK, Process
<1>2. IdleProcess \in Process
    BY IdleType DEF Sound
<1>3. IdleProcess.copy = NoCopy
    BY <1>2, RecordCopies
<1>4. \A a, c, k : [IdleProcess EXCEPT !.pc = a, !.cmd = c, !.arg = k].copy = NoCopy
    BY DEF IdleProcess
<1>5. CASE Start(p)
    <2>1. ASSUME NEW cmd \in AllCommands, StartMonitor(p, cmd)
          PROVE  \E r : Become(p, r) /\ r.copy \in {NoCopy, archives}
        <3> DEFINE u == [IdleProcess EXCEPT !.cmd = cmd]
        <3>1. u \in Process
            BY <1>2 DEF Process
        <3>2. Loading(u, "monitor").copy = archives
            BY <3>1, RecordCopies
        <3> QED
            BY <2>1, <3>2 DEF StartMonitor
    <2>2. ASSUME NEW a \in Archives, StartApprove(p, a)
          PROVE  \E r : Become(p, r) /\ r.copy \in {NoCopy, archives}
        <3> DEFINE u == [IdleProcess EXCEPT !.pc = "apply", !.cmd = "approve", !.arg = a]
        <3>1. u.copy = NoCopy
            BY <1>4
        <3>2. Become(p, u)
            BY <2>2 DEF StartApprove
        <3> QED
            BY <3>1, <3>2
    <2>3. ASSUME NEW a \in Archives, NEW cmd \in AllCommands, StartApply(p, a, cmd)
          PROVE  \E r : Become(p, r) /\ r.copy \in {NoCopy, archives}
        <3> DEFINE u == [IdleProcess EXCEPT !.pc = "apply", !.cmd = cmd, !.arg = a]
        <3>1. u.copy = NoCopy
            BY <1>4
        <3>2. Become(p, u)
            BY <2>3 DEF StartApply
        <3> QED
            BY <3>1, <3>2
    <2> QED
        BY <1>5, <2>1, <2>2, <2>3 DEF Start
<1>6. CASE Monitor(p)
    <2>1. AfterPrepared(t).copy = NoCopy /\ Goto(t, "retry").copy = NoCopy
        BY <1>1, <1>3, RecordCopies DEF AfterPrepared
    <2> QED
        BY <1>3, <1>6, <2>1 DEF Monitor, MonitorFail, MonitorResume, MonitorNoChange,
           MonitorDuplicate, MonitorPrepare
<1>7. CASE Deliver(p)
    <2>1. CASE RetryNotice(p)
        BY <1>1, <1>3, <2>1, RecordCopies DEF RetryNotice
    <2>2. ASSUME NEW o \in Notifications, Notify(p, o)
          PROVE  \E r : Become(p, r) /\ r.copy \in {NoCopy, archives}
        <3>1. [s EXCEPT !.note = o] \in Process
            BY <1>1 DEF Process
        <3> QED
            BY <2>2, <3>1, RecordCopies DEF Notify
    <2>3. CASE Record(p)
        <3> DEFINE u == [s EXCEPT !.msg = "none", !.note = "none", !.then = "idle"]
        <3>1. u \in Process
            BY <1>1 DEF Process, Notifications
        <3>2. Goto(u, s.then).copy = NoCopy
            BY <3>1, RecordCopies
        <3> QED
            BY <1>3, <2>3, <3>2 DEF Record
    <2> QED
        BY <1>7, <2>1, <2>2, <2>3 DEF Deliver
<1>8. CASE Apply(p)
    <2>1. AfterApply(s).copy = NoCopy
        BY <1>1, <1>3, RecordCopies DEF AfterApply
    <2>2. [s EXCEPT !.msg = "none"] \in Process
        BY <1>1 DEF Process
    <2>3. AfterRaise(s).copy = NoCopy
        BY <1>1, <1>3, <2>2, RecordCopies DEF AfterRaise
    <2>4. \A pc : Goto(s, pc).copy = NoCopy /\ Loading(s, pc).copy = archives
        BY <1>1, RecordCopies
    <2>5. ASSUME NEW o \in Messages, Conclude(p, o)
          PROVE  \E r : Become(p, r) /\ r.copy \in {NoCopy, archives}
        <3>1. [s EXCEPT !.msg = o] \in Process
            BY <1>1 DEF Process
        <3> QED
            BY <2>5, <3>1, RecordCopies DEF Conclude
    <2>6. CASE Mark(p)
        BY <1>1, <1>3, <2>6, RecordCopies DEF Mark
    <2>7. CASE Finish(p)
        BY <2>1, <2>4, <2>7 DEF Finish
    <2> QED
        BY <1>8, <2>1, <2>3, <2>4, <2>5, <2>6, <2>7
        DEF Apply, Select, OpenSession, Restore, Close, Cleanup, ApplyRaise, Review
<1>9. CASE Kill(p)
    BY <1>3, <1>9 DEF Kill
<1> QED
    BY <1>5, <1>6, <1>7, <1>8, <1>9

LEMMA HistoryNext ==
    ASSUME HistoryInv, [Next]_vars
    PROVE  HistoryInv'
<1>1. TypeInv'
    BY TypeNext DEF HistoryInv
<1>2. ASSUME UNCHANGED <<archives, proc, applied, prepared>>
      PROVE  HistoryInv'
    BY <1>1, <1>2 DEF HistoryInv
<1>3. ASSUME NEW p \in Procs,
             Start(p) \/ Monitor(p) \/ Deliver(p) \/ Apply(p) \/ Kill(p)
      PROVE  HistoryInv'
    <2> DEFINE r == proc[p]
    <2>1. PICK new : Become(p, new) /\ new.copy \in {NoCopy, archives}
        BY <1>3, StepCopies DEF HistoryInv
    <2>2. r.copy \in StateFile /\ FileOK(r.copy, applied, prepared)
        BY DEF HistoryInv, TypeInv, TypeOK, Process
    <2>3. SUFFICES /\ applied \subseteq applied' /\ prepared \subseteq prepared'
                   /\ FileOK(archives', applied', prepared')
        BY <1>1, <2>1, HistoryStep
    <2>4. FileOK(archives, applied, prepared)
        BY DEF HistoryInv
    <2>5. CASE Start(p) \/ Kill(p)
        BY <2>4, <2>5 DEF Start, Kill, StartMonitor, StartApprove, StartApply, history
    <2>6. CASE Monitor(p)
        <3>1. CASE MonitorFail(p) \/ MonitorResume(p) \/ MonitorNoChange(p)
            BY <2>2, <3>1 DEF MonitorFail, MonitorResume, MonitorNoChange, history
        <3>2. CASE MonitorDuplicate(p)
            <4>1. offered \in Archives /\ AlreadyInstalled(r.copy, offered)
                BY <3>2 DEF MonitorDuplicate, HistoryInv, TypeInv, TypeOK
            <4> QED
                BY <2>2, <3>2, <4>1, DuplicateUpdate DEF MonitorDuplicate, history
        <3>3. CASE MonitorPrepare(p)
            BY <2>2, <3>3, FileUpdates DEF MonitorPrepare
        <3> QED
            BY <2>6, <3>1, <3>2, <3>3 DEF Monitor
    <2>7. CASE Deliver(p)
        <3>1. CASE Record(p)
            BY <2>2, <2>4, <3>1, FileUpdates DEF Record, history
        <3>2. CASE ~Record(p)
            BY <2>4, <2>7, <3>2 DEF Deliver, RetryNotice, Notify, history
        <3> QED
            BY <3>1, <3>2
    <2>8. CASE Apply(p)
        <3>1. CASE Finish(p)
            <4>1. CASE r.msg = "SUCCESS"
                BY <2>2, <3>1, <4>1, FileUpdates DEF Finish, FinalStatus
            <4>2. CASE r.msg # "SUCCESS"
                BY <2>2, <3>1, <4>2, FileUpdates DEF Finish, FinalStatus
            <4> QED
                BY <4>1, <4>2
        <3>2. CASE Mark(p)
            BY <2>2, <2>4, <3>2, FileUpdates DEF Mark, history
        <3>3. CASE ~Finish(p) /\ ~Mark(p)
            BY <2>4, <2>8, <3>3 DEF Apply, Select, OpenSession, Restore, Close, Conclude,
               Cleanup, ApplyRaise, Review, history
        <3> QED
            BY <3>1, <3>2, <3>3
    <2> QED
        BY <1>3, <2>5, <2>6, <2>7, <2>8
<1> QED
    BY <1>2, <1>3 DEF Next, Publish, Serve, Bind, ServerFails, vars, history

LEMMA HistoryInit ==
    ASSUME Init
    PROVE  HistoryInv
<1>1. FileOK(NoCopy, applied, prepared)
    BY EmptyFileOK
<1> QED
    BY <1>1, TypeInit DEF Init, HistoryInv, IdleProcess

\* Whatever is saved over whatever, an update is only ever called applied or
\* skipped when all of its packages went through a confirmed apply.
THEOREM ClaimsAlwaysBacked == Spec => []ClaimsAreBacked
<1>1. HistoryInv => ClaimsAreBacked
    BY DEF HistoryInv, FileOK, ClaimsAreBacked
<1> QED
    BY <1>1, HistoryInit, HistoryNext, PTL DEF Spec
-----------------------------------------------------------------------------
(* The device session: its process works on a prepared archive and has the  *)
(* consent its mode asks for.                                               *)

Operator == {"approve", "apply_approved"}

Consent(a, prep, appr) ==
    /\ a \in prep
    /\ mode # "prepare_only"
    /\ mode = "approval" => a \in appr

\* What the record of a process says, given history.
RecordOK(r, prep, appr) ==
    /\ r.cmd \in Operator => r.pc # "monitor" /\ r.arg \in appr
    /\ r.pc \in {"selected", "session"} => Consent(r.arg, prep, appr)

SessionInv ==
    /\ HistoryInv
    /\ \A p \in Procs : RecordOK(proc[p], prepared, approved)
    /\ \A a \in touched : Consent(a, prepared, approved)

\* What a record keeps on its way through the helpers.
LEMMA RecordFields ==
    ASSUME NEW r \in Process, NEW pc, NEW m, NEW t
    PROVE  /\ Goto(r, pc).pc = pc /\ Loading(r, pc).pc = pc
           /\ Notifying(r, m, t).pc = "notify"
           /\ Goto(r, pc).cmd = r.cmd /\ Loading(r, pc).cmd = r.cmd
           /\ Notifying(r, m, t).cmd = r.cmd
           /\ Goto(r, pc).arg = r.arg /\ Loading(r, pc).arg = r.arg
           /\ Notifying(r, m, t).arg = r.arg
BY DEF Goto, Loading, Notifying, Process

\* An idle record promises nothing.
LEMMA IdleOK ==
    ASSUME NEW prep, NEW appr
    PROVE  RecordOK(IdleProcess, prep, appr)
BY DEF RecordOK, IdleProcess, Operator

\* A record that neither enters nor stays in the guarded part of the apply needs
\* nothing but an operator's approval.
LEMMA UnguardedOK ==
    ASSUME NEW r, NEW prep, NEW appr,
           r.pc \notin {"monitor", "selected", "session"},
           r.cmd \in Operator => r.arg \in appr
    PROVE  RecordOK(r, prep, appr)
BY DEF RecordOK

\* History only grows, and the mode stays.
LEMMA StepFrame ==
    ASSUME NEW p \in Procs,
           Start(p) \/ Monitor(p) \/ Deliver(p) \/ Apply(p) \/ Kill(p)
    PROVE  /\ mode' = mode
           /\ prepared \subseteq prepared' /\ approved \subseteq approved'
<1>1. CASE Start(p) \/ Kill(p)
    BY <1>1 DEF Start, StartMonitor, StartApprove, StartApply, Kill, history
<1>2. CASE Monitor(p)
    BY <1>2 DEF Monitor, MonitorFail, MonitorResume, MonitorNoChange, MonitorDuplicate,
       MonitorPrepare, history
<1>3. CASE Deliver(p)
    BY <1>3 DEF Deliver, RetryNotice, Notify, Record, history
<1>4. CASE Apply(p)
    BY <1>4 DEF Apply, Select, OpenSession, Restore, Close, Conclude, Finish, Cleanup,
       ApplyRaise, Review, Mark, history
<1> QED
    BY <1>1, <1>2, <1>3, <1>4

\* Each step of p leaves it with a record that is right about history.
Lands(p) ==
    \E r : Become(p, r) /\ RecordOK(r, prepared', approved')

LEMMA MonitorLands ==
    ASSUME SessionInv, NEW p \in Procs, Monitor(p)
    PROVE  Lands(p)
<1> DEFINE r == proc[p]
           t == [r EXCEPT !.arg = offered]
<1>1. r \in Process /\ t \in Process /\ t.cmd = r.cmd
    BY DEF SessionInv, HistoryInv, TypeInv, TypeOK, Process
<1>2. r.cmd \notin Operator
    BY DEF SessionInv, RecordOK, Monitor, MonitorFail, MonitorResume, MonitorNoChange,
       MonitorDuplicate, MonitorPrepare, At
<1>3. RecordOK(IdleProcess, prepared', approved')
    BY IdleOK
<1> HIDE DEF t
<1>4. RecordOK(Goto(t, "retry"), prepared', approved')
    BY <1>1, <1>2, RecordFields, UnguardedOK
<1>5. RecordOK(AfterPrepared(t), prepared', approved')
    BY <1>1, <1>2, <1>3, RecordFields, UnguardedOK DEF AfterPrepared
<1> QED
    BY <1>3, <1>4, <1>5 DEF t, Lands, Monitor, MonitorFail, MonitorResume, MonitorNoChange,
       MonitorDuplicate, MonitorPrepare

LEMMA DeliverLands ==
    ASSUME SessionInv, NEW p \in Procs, Deliver(p)
    PROVE  Lands(p)
<1> DEFINE r == proc[p]
<1>1. r \in Process /\ RecordOK(r, prepared, approved)
    BY DEF SessionInv, HistoryInv, TypeInv, TypeOK
<1>2. r.cmd \in Operator => r.arg \in approved'
    BY <1>1, StepFrame DEF RecordOK
<1>3. RecordOK(IdleProcess, prepared', approved')
    BY IdleOK
<1>4. CASE RetryNotice(p)
    <2>1. RecordOK(Notifying(r, "PREPARED", "idle"), prepared', approved')
        BY <1>1, <1>2, RecordFields, UnguardedOK
    <2> QED
        BY <1>3, <1>4, <2>1 DEF Lands, RetryNotice
<1>5. ASSUME NEW o \in Notifications, Notify(p, o)
      PROVE  Lands(p)
    <2> DEFINE s == [r EXCEPT !.note = o]
    <2>1. s \in Process /\ s.cmd = r.cmd /\ s.arg = r.arg
        BY <1>1 DEF Process
    <2> HIDE DEF s
    <2>2. RecordOK(Loading(s, "record"), prepared', approved')
        BY <1>2, <2>1, RecordFields, UnguardedOK
    <2> QED
        BY <1>5, <2>2 DEF s, Lands, Notify
<1>6. CASE Record(p)
    <2> DEFINE s == [r EXCEPT !.msg = "none", !.note = "none", !.then = "idle"]
    <2>1. /\ s \in Process /\ s.cmd = r.cmd /\ s.arg = r.arg
          /\ r.then \in {"idle", "apply", "review"}
        BY <1>1 DEF Process, Notifications
    <2> HIDE DEF s
    <2>2. RecordOK(Goto(s, r.then), prepared', approved')
        BY <1>2, <2>1, RecordFields, UnguardedOK
    <2> QED
        BY <1>3, <1>6, <2>2 DEF s, Lands, Record
<1> QED
    BY <1>4, <1>5, <1>6 DEF Deliver

LEMMA ApplyLands ==
    ASSUME SessionInv, NEW p \in Procs, Apply(p)
    PROVE  Lands(p)
<1> DEFINE r == proc[p]
<1>1. r \in Process /\ RecordOK(r, prepared, approved)
    BY DEF SessionInv, HistoryInv, TypeInv, TypeOK
<1>2. r.cmd \in Operator => r.arg \in approved'
    BY <1>1, StepFrame DEF RecordOK
<1>3. RecordOK(IdleProcess, prepared', approved')
    BY IdleOK
<1>4. CASE Select(p)
    <2>1. r.arg \in Archives
        BY <1>4, SoundIsActive DEF Select, At, Active, SessionInv, HistoryInv
    <2>2. r.arg \in prepared
        BY <1>4, <2>1 DEF Select, SessionInv, HistoryInv, FileOK
    <2>3. Consent(r.arg, prepared', approved')
        BY <1>1, <1>4, <2>2 DEF Select, ModeAllows, Consent, RecordOK, Operator, history
    <2>4. RecordOK(Goto(r, "selected"), prepared', approved')
        BY <1>1, <1>2, <2>3, RecordFields DEF RecordOK
    <2> QED
        BY <1>4, <2>4 DEF Lands, Select
<1>5. CASE OpenSession(p)
    <2>1. RecordOK(Goto(r, "session"), prepared', approved')
        BY <1>1, <1>5, RecordFields DEF OpenSession, RecordOK, At, history
    <2> QED
        BY <1>5, <2>1 DEF Lands, OpenSession
<1>6. CASE Restore(p)
    <2>1. RecordOK(Goto(r, "restored"), prepared', approved')
        BY <1>1, <1>6, RecordFields DEF Restore, RecordOK, At
    <2> QED
        BY <1>6, <2>1 DEF Lands, Restore
<1>7. CASE Close(p)
    <2>1. RecordOK(Goto(r, "closed"), prepared', approved')
        BY <1>1, <1>2, RecordFields, UnguardedOK
    <2> QED
        BY <1>7, <2>1 DEF Lands, Close
<1>8. ASSUME NEW o \in Messages, Conclude(p, o)
      PROVE  Lands(p)
    <2> DEFINE s == [r EXCEPT !.msg = o]
    <2>1. s \in Process /\ s.cmd = r.cmd /\ s.arg = r.arg
        BY <1>1 DEF Process
    <2> HIDE DEF s
    <2>2. RecordOK(Loading(s, "finish"), prepared', approved')
        BY <1>2, <2>1, RecordFields, UnguardedOK
    <2> QED
        BY <1>8, <2>2 DEF s, Lands, Conclude
<1>9. RecordOK(AfterApply(r), prepared', approved')
    BY <1>1, <1>2, <1>3, RecordFields, UnguardedOK DEF AfterApply
<1>10. CASE Finish(p)
    <2>1. RecordOK(Goto(r, "cleanup"), prepared', approved')
        BY <1>1, <1>2, RecordFields, UnguardedOK
    <2> QED
        BY <1>9, <1>10, <2>1 DEF Lands, Finish
<1>11. CASE Cleanup(p)
    BY <1>9, <1>11 DEF Lands, Cleanup
<1>12. CASE ApplyRaise(p)
    <2> DEFINE s == [r EXCEPT !.msg = "none"]
    <2>1. s \in Process /\ s.cmd = r.cmd /\ s.arg = r.arg
        BY <1>1 DEF Process
    <2> HIDE DEF s
    <2>2. RecordOK(Goto(s, "review"), prepared', approved')
        BY <1>2, <2>1, RecordFields, UnguardedOK
    <2>3. RecordOK(Notifying(r, "FAILED", "review"), prepared', approved')
        BY <1>1, <1>2, RecordFields, UnguardedOK
    <2>4. RecordOK(AfterRaise(r), prepared', approved')
        BY <1>3, <2>2, <2>3 DEF s, AfterRaise
    <2> QED
        BY <1>12, <2>4 DEF Lands, ApplyRaise
<1>13. CASE Review(p)
    <2>1. RecordOK(Loading(r, "mark"), prepared', approved')
        BY <1>1, <1>2, RecordFields, UnguardedOK
    <2> QED
        BY <1>13, <2>1 DEF Lands, Review
<1>14. CASE Mark(p)
    <2>1. RecordOK(Notifying(r, "FAILED", "idle"), prepared', approved')
        BY <1>1, <1>2, RecordFields, UnguardedOK
    <2> QED
        BY <1>3, <1>14, <2>1 DEF Lands, Mark
<1> QED
    BY <1>4, <1>5, <1>6, <1>7, <1>8, <1>10, <1>11, <1>12, <1>13, <1>14 DEF Apply

LEMMA StartLands ==
    ASSUME SessionInv, NEW p \in Procs, Start(p) \/ Kill(p)
    PROVE  Lands(p)
<1>1. RecordOK(IdleProcess, prepared', approved')
    BY IdleOK
<1>2. ASSUME NEW cmd \in AllCommands, StartMonitor(p, cmd)
      PROVE  Lands(p)
    <2> DEFINE s == Loading([IdleProcess EXCEPT !.cmd = cmd], "monitor")
    <2>1. s.pc = "monitor" /\ s.cmd = cmd
        BY DEF Loading, IdleProcess
    <2>2. RecordOK(s, prepared', approved')
        BY <1>2, <2>1 DEF RecordOK, StartMonitor, Operator
    <2> QED
        BY <1>2, <2>2 DEF Lands, StartMonitor
<1>3. ASSUME NEW a \in Archives, StartApprove(p, a)
      PROVE  Lands(p)
    <2> DEFINE s == [IdleProcess EXCEPT !.pc = "apply", !.cmd = "approve", !.arg = a]
    <2>1. s.pc = "apply" /\ s.arg = a
        BY DEF IdleProcess
    <2>2. RecordOK(s, prepared', approved')
        BY <1>3, <2>1, UnguardedOK DEF StartApprove
    <2> QED
        BY <1>3, <2>2 DEF Lands, StartApprove
<1>4. ASSUME NEW a \in Archives, NEW cmd \in AllCommands, StartApply(p, a, cmd)
      PROVE  Lands(p)
    <2> DEFINE s == [IdleProcess EXCEPT !.pc = "apply", !.cmd = cmd, !.arg = a]
    <2>1. s.pc = "apply" /\ s.arg = a /\ s.cmd = cmd
        BY DEF IdleProcess
    <2>2. RecordOK(s, prepared', approved')
        BY <1>4, <2>1, UnguardedOK DEF StartApply, Operator
    <2> QED
        BY <1>4, <2>2 DEF Lands, StartApply
<1> QED
    BY <1>1, <1>2, <1>3, <1>4 DEF Start, Kill, Lands

LEMMA SessionNext ==
    ASSUME SessionInv, [Next]_vars
    PROVE  SessionInv'
<1>1. HistoryInv'
    BY HistoryNext DEF SessionInv
<1>2. ASSUME UNCHANGED <<mode, proc, prepared, approved, touched>>
      PROVE  SessionInv'
    BY <1>1, <1>2 DEF SessionInv, RecordOK, Consent
<1>3. ASSUME NEW p \in Procs,
             Start(p) \/ Monitor(p) \/ Deliver(p) \/ Apply(p) \/ Kill(p)
      PROVE  SessionInv'
    <2>1. PICK r : Become(p, r) /\ RecordOK(r, prepared', approved')
        BY <1>3, MonitorLands, DeliverLands, ApplyLands, StartLands DEF Lands
    <2>2. /\ mode' = mode /\ prepared \subseteq prepared' /\ approved \subseteq approved'
        BY <1>3, StepFrame
    <2>4. proc' = [proc EXCEPT ![p] = r] /\ proc \in [Procs -> Process]
        BY <2>1 DEF Become, SessionInv, HistoryInv, TypeInv, TypeOK
    <2>5. ASSUME NEW q \in Procs
          PROVE  RecordOK(proc'[q], prepared', approved')
        <3>1. CASE q = p
            BY <2>1, <2>4, <3>1
        <3>2. CASE q # p
            BY <2>2, <2>4, <3>2 DEF SessionInv, RecordOK, Consent
        <3> QED
            BY <3>1, <3>2
    <2>6. ASSUME NEW a \in touched'
          PROVE  Consent(a, prepared', approved')
        <3>1. CASE a \in touched
            BY <2>2, <3>1 DEF SessionInv, Consent
        <3>2. CASE a \notin touched
            <4>1. Restore(p)
                BY <1>3, <3>2, <2>6 DEF Start, StartMonitor, StartApprove, StartApply, Monitor,
                   MonitorFail, MonitorResume, MonitorNoChange, MonitorDuplicate,
                   MonitorPrepare, Deliver, RetryNotice, Notify, Record, Apply, Select,
                   OpenSession, Close, Conclude, Finish, Cleanup, ApplyRaise, Review, Mark, Kill,
                   history
            <4> QED
                BY <2>6, <3>2, <4>1 DEF Restore, At, SessionInv, RecordOK
        <3> QED
            BY <3>1, <3>2
    <2> QED
        BY <1>1, <2>2, <2>5, <2>6 DEF SessionInv, RecordOK, Consent
<1> QED
    BY <1>2, <1>3 DEF Next, Publish, Serve, Bind, ServerFails, vars, history

LEMMA SessionInit ==
    ASSUME Init
    PROVE  SessionInv
BY HistoryInit, IdleOK DEF Init, SessionInv

\* The device is never touched for an archive that was not prepared, nor without
\* the consent the execution mode asks for.
THEOREM ConsentAlwaysFirst == Spec => []ConsentBeforeRestore
<1>1. SessionInv => ConsentBeforeRestore
    BY DEF SessionInv, Consent, ConsentBeforeRestore
<1> QED
    BY <1>1, SessionInit, SessionNext, PTL DEF Spec
-----------------------------------------------------------------------------
(* One process at a time.  Then a copy is the file it was loaded from, and  *)
(* every save is a step of ArchiveLifecycle.                                *)

Manifested == {"PREPARED", "APPLIED", "APPLY_FAILED", "REVIEW_REQUIRED"}
InApply == {"apply", "selected", "session", "restored", "closed", "finish", "cleanup"}

\* A process that would mark its archive for review, or that came here with a
\* manifest it just prepared.
NeedsManifest(r) ==
    \/ r.pc \in {"review", "mark"}
    \/ r.pc \in {"notify", "record"} /\ r.then \in {"apply", "review"}
    \/ r.cmd = "cycle" /\ r.pc \in InApply

SerialOK(r, file, dev) ==
    /\ r.pc \in {"monitor", "record", "finish", "mark"} => r.copy = file
    /\ r.pc \in {"selected", "session", "restored", "closed", "finish"} =>
           file[r.arg].status = "PREPARED"
    /\ r.pc \in {"restored", "closed", "finish"} => r.arg \in dev
    /\ NeedsManifest(r) => file[r.arg].manifest

FileShape(file) == \A a \in Archives : file[a].manifest <=> file[a].status \in Manifested

Alone == \A p, q \in Procs : p # q => proc[p].pc = "idle" \/ proc[q].pc = "idle"

SerialInv ==
    /\ HistoryInv
    /\ FileShape(archives)
    /\ \A p \in Procs : SerialOK(proc[p], archives, touched)
    /\ Alone

Keeps == [Contract!Next]_Contract!vars

\* Each step of p leaves it with a record that is right about the file, and is a
\* step of the lifecycle.
Settles(p) ==
    /\ \E r : Become(p, r) /\ SerialOK(r, archives', touched')
    /\ FileShape(archives')
    /\ Keeps

LEMMA RecordThens ==
    ASSUME NEW r \in Process, NEW pc, NEW m, NEW t
    PROVE  /\ Goto(r, pc).then = r.then /\ Loading(r, pc).then = r.then
           /\ Notifying(r, m, t).then = t
BY DEF Goto, Loading, Notifying, Process

LEMMA IdleSerialOK == ASSUME NEW file, NEW dev PROVE SerialOK(IdleProcess, file, dev)
BY DEF SerialOK, NeedsManifest, IdleProcess, InApply

\* A record that tells somebody and has nothing else to do.
LEMMA QuietSerialOK ==
    ASSUME NEW r \in Process, NEW m, NEW file, NEW dev
    PROVE  /\ SerialOK(Notifying(r, m, "idle"), file, dev)
           /\ SerialOK(Goto(r, "retry"), file, dev)
<1>1. Notifying(r, m, "idle").pc = "notify" /\ Notifying(r, m, "idle").then = "idle"
    BY RecordFields, RecordThens
<1>2. Goto(r, "retry").pc = "retry"
    BY RecordFields
<1> QED
    BY <1>1, <1>2 DEF SerialOK, NeedsManifest, InApply

\* Nothing the lifecycle sees changes.
LEMMA KeepsStatus ==
    ASSUME UNCHANGED <<touched, applied>>,
           \A a \in Archives : archives'[a].status = archives[a].status
    PROVE  Keeps
BY DEF Keeps, Contract!vars

\* A step of the lifecycle about one archive.
LEMMA KeepsStep ==
    ASSUME NEW a \in Archives,
           Contract!Prepare(a) \/ Contract!Skip(a) \/ Contract!Touch(a) \/
           Contract!Succeed(a) \/ Contract!Fail(a) \/ Contract!SendToReview(a)
    PROVE  Keeps
<1>1. Contract!Next
    BY DEF Contract!Next
<1> QED
    BY <1>1 DEF Keeps

LEMMA StartSettles ==
    ASSUME SerialInv, NEW p \in Procs, Start(p) \/ Kill(p)
    PROVE  Settles(p)
<1>1. UNCHANGED <<archives, touched, applied>>
    BY DEF Start, StartMonitor, StartApprove, StartApply, Kill, history
<1>2. FileShape(archives') /\ Keeps
    BY <1>1, KeepsStatus DEF SerialInv
<1>3. ASSUME NEW cmd \in AllCommands, StartMonitor(p, cmd)
      PROVE  \E r : Become(p, r) /\ SerialOK(r, archives', touched')
    <2> DEFINE s == Loading([IdleProcess EXCEPT !.cmd = cmd], "monitor")
    <2>1. s.pc = "monitor" /\ s.copy = archives
        BY DEF Loading, IdleProcess
    <2>2. Become(p, s)
        BY <1>3 DEF StartMonitor
    <2> HIDE DEF s
    <2>3. SerialOK(s, archives', touched')
        BY <1>1, <2>1 DEF SerialOK, NeedsManifest, InApply
    <2> QED
        BY <2>2, <2>3
<1>4. ASSUME NEW a \in Archives, NEW cmd \in AllCommands \ {"cycle"},
             Become(p, [IdleProcess EXCEPT !.pc = "apply", !.cmd = cmd, !.arg = a])
      PROVE  \E r : Become(p, r) /\ SerialOK(r, archives', touched')
    <2> DEFINE s == [IdleProcess EXCEPT !.pc = "apply", !.cmd = cmd, !.arg = a]
    <2>1. s.pc = "apply" /\ s.cmd = cmd
        BY DEF IdleProcess
    <2>2. Become(p, s)
        BY <1>4
    <2> HIDE DEF s
    <2>3. SerialOK(s, archives', touched')
        BY <2>1 DEF SerialOK, NeedsManifest
    <2> QED
        BY <2>2, <2>3
<1>5. ASSUME Kill(p)
      PROVE  \E r : Become(p, r) /\ SerialOK(r, archives', touched')
    <2>1. Become(p, IdleProcess) /\ SerialOK(IdleProcess, archives', touched')
        BY <1>5, IdleSerialOK DEF Kill
    <2> QED
        BY <2>1
<1>6. ASSUME NEW a \in Archives, StartApprove(p, a)
      PROVE  \E r : Become(p, r) /\ SerialOK(r, archives', touched')
    BY <1>4, <1>6 DEF StartApprove, AllCommands
<1>7. ASSUME NEW a \in Archives, NEW cmd \in AllCommands, StartApply(p, a, cmd)
      PROVE  \E r : Become(p, r) /\ SerialOK(r, archives', touched')
    <2>1. cmd \in AllCommands \ {"cycle"}
        BY <1>7 DEF StartApply, AllCommands
    <2> QED
        BY <1>4, <1>7, <2>1 DEF StartApply
<1>8. \E r : Become(p, r) /\ SerialOK(r, archives', touched')
    BY <1>3, <1>5, <1>6, <1>7 DEF Start
<1> QED
    BY <1>2, <1>8 DEF Settles

LEMMA MonitorSettles ==
    ASSUME SerialInv, NEW p \in Procs, Monitor(p)
    PROVE  Settles(p)
<1> DEFINE r == proc[p]
           t == [r EXCEPT !.arg = offered]
<1>1. /\ r \in Process /\ t \in Process /\ t.cmd = r.cmd /\ t.arg = offered
      /\ offered \in Archives /\ archives \in StateFile
    BY DEF SerialInv, HistoryInv, TypeInv, TypeOK, Process
<1>2. r.copy = archives
    BY DEF SerialInv, SerialOK, Monitor, MonitorFail, MonitorResume, MonitorNoChange,
       MonitorDuplicate, MonitorPrepare, At
<1>3. FileShape(archives)
    BY DEF SerialInv
<1> HIDE DEF t
<1>4. ASSUME NEW file, file[offered].manifest
      PROVE  SerialOK(AfterPrepared(t), file, touched')
    <2>1. ASSUME NEW u
          PROVE  SerialOK(Notifying(t, "PREPARED", u), file, touched')
        <3>1. Notifying(t, "PREPARED", u).pc = "notify" /\ Notifying(t, "PREPARED", u).arg = offered
            BY <1>1, RecordFields
        <3> QED
            BY <1>4, <3>1 DEF SerialOK, NeedsManifest, InApply
    <2> QED
        BY <2>1, IdleSerialOK DEF AfterPrepared
<1>5. CASE MonitorFail(p)
    BY <1>2, <1>3, <1>5, IdleSerialOK, KeepsStatus DEF MonitorFail, Settles, history
<1>6. CASE MonitorResume(p)
    BY <1>2, <1>3, <1>4, <1>6, KeepsStatus
    DEF MonitorResume, Resumable, Settles, history, t
<1>7. CASE MonitorNoChange(p)
    <2>1. SerialOK(Goto(t, "retry"), archives', touched')
        BY <1>1, QuietSerialOK
    <2> QED
        BY <1>2, <1>3, <1>7, <2>1, IdleSerialOK, KeepsStatus
        DEF MonitorNoChange, Settles, history, t
<1>8. CASE MonitorDuplicate(p)
    <2>1. archives' = [archives EXCEPT ![offered] = DuplicateEntry] /\ Become(p, IdleProcess)
          /\ UNCHANGED <<touched, applied>>
        BY <1>2, <1>8 DEF MonitorDuplicate, history
    <2>2. archives[offered].status = "ABSENT"
        BY <1>1, <1>2, <1>8 DEF MonitorDuplicate, Handled, StateFile, Entry, Statuses
    <2>3. FileShape(archives')
        BY <1>1, <1>3, <2>1 DEF FileShape, DuplicateEntry, Manifested, StateFile
    <2>4. PICK b \in applied : Payload[offered] \subseteq Payload[b]
        <3>1. AlreadyInstalled(archives, offered) /\ FileOK(archives, applied, prepared)
            BY <1>2, <1>8 DEF MonitorDuplicate, SerialInv, HistoryInv
        <3>2. PICK b \in Archives \ {offered} :
                  \/ archives[b].status = "APPLIED" /\ Payload[offered] \subseteq Payload[b]
                  \/ archives[b].status = "CONTENT_DUPLICATE" /\ Payload[offered] = Payload[b]
            BY <3>1 DEF AlreadyInstalled
        <3> QED
            BY <3>1, <3>2 DEF FileOK
    <2>5. PICK a \in Archives : a = offered
        BY <1>1
    <2>6. Contract!Skip(a)
        <3>1. [c \in Archives |-> archives'[c].status]
                  = [[c \in Archives |-> archives[c].status] EXCEPT
                        ![offered] = "CONTENT_DUPLICATE"]
            BY <1>1, <2>1 DEF StateFile, DuplicateEntry
        <3> QED
            BY <1>1, <2>1, <2>2, <2>4, <2>5, <3>1 DEF Contract!Skip
    <2>7. Keeps
        BY <2>5, <2>6, KeepsStep
    <2> QED
        BY <2>1, <2>3, <2>7, IdleSerialOK DEF Settles
<1>9. CASE MonitorPrepare(p)
    <2>1. /\ archives' = [archives EXCEPT ![offered] = PreparedEntry]
          /\ Become(p, AfterPrepared(t)) /\ UNCHANGED <<touched, applied>>
        BY <1>2, <1>9 DEF MonitorPrepare, t
    <2>2. archives[offered].status = "ABSENT"
        BY <1>1, <1>2, <1>9 DEF MonitorPrepare, Handled, StateFile, Entry, Statuses
    <2>3. FileShape(archives') /\ archives'[offered].manifest
        BY <1>1, <1>3, <2>1 DEF FileShape, PreparedEntry, Manifested, StateFile
    <2>4. [a \in Archives |-> archives'[a].status]
              = [[a \in Archives |-> archives[a].status] EXCEPT ![offered] = "PREPARED"]
        BY <1>1, <2>1 DEF StateFile, PreparedEntry
    <2>5. PICK a \in Archives : a = offered
        BY <1>1
    <2>6. Contract!Prepare(a)
        BY <1>1, <2>1, <2>2, <2>4, <2>5 DEF Contract!Prepare
    <2>7. Keeps
        BY <2>5, <2>6, KeepsStep
    <2>8. SerialOK(AfterPrepared(t), archives', touched')
        BY <1>4, <2>1, <2>3
    <2> QED
        BY <2>1, <2>3, <2>7, <2>8 DEF Settles
<1> QED
    BY <1>5, <1>6, <1>7, <1>8, <1>9 DEF Monitor

\* What a save that only changes a status does to the file.
LEMMA StatusUpdate ==
    ASSUME archives \in StateFile, FileShape(archives), NEW a \in Archives,
           archives[a].manifest, NEW st \in Manifested,
           archives' = [archives EXCEPT ![a].status = st]
    PROVE  /\ FileShape(archives') /\ archives'[a].manifest
           /\ [b \in Archives |-> archives'[b].status]
                  = [[b \in Archives |-> archives[b].status] EXCEPT ![a] = st]
BY DEF StateFile, Entry, FileShape

LEMMA DeliverSettles ==
    ASSUME SerialInv, NEW p \in Procs, Deliver(p)
    PROVE  Settles(p)
<1> DEFINE r == proc[p]
<1>1. /\ r \in Process /\ SerialOK(r, archives, touched) /\ FileShape(archives)
      /\ archives \in StateFile /\ r.arg \in Archives
    BY SoundIsActive DEF SerialInv, HistoryInv, TypeInv, TypeOK, Active, Deliver,
       RetryNotice, Notify, Record, At
<1>2. CASE RetryNotice(p)
    <2>1. SerialOK(Notifying(r, "PREPARED", "idle"), archives', touched')
        BY <1>1, QuietSerialOK
    <2>2. UNCHANGED <<archives, touched, applied>>
        BY <1>2 DEF RetryNotice, history
    <2>3. FileShape(archives') /\ Keeps
        BY <1>1, <2>2, KeepsStatus
    <2> QED
        BY <1>2, <2>1, <2>3, IdleSerialOK DEF Settles, RetryNotice
<1>3. ASSUME NEW o \in Notifications, Notify(p, o)
      PROVE  Settles(p)
    <2> DEFINE s == [r EXCEPT !.note = o]
    <2>1. /\ s \in Process /\ s.cmd = r.cmd /\ s.arg = r.arg /\ s.then = r.then
          /\ r.pc = "notify"
        BY <1>1, <1>3 DEF Process, Notify, At
    <2>2. Become(p, Loading(s, "record")) /\ UNCHANGED <<archives, touched, applied>>
        BY <1>3 DEF Notify, history
    <2> HIDE DEF s
    <2>3. Loading(s, "record").copy = archives
        BY <2>1 DEF Loading, Process
    <2>4. SerialOK(Loading(s, "record"), archives', touched')
        BY <1>1, <2>1, <2>2, <2>3, RecordFields, RecordThens
        DEF SerialOK, NeedsManifest, InApply
    <2>5. FileShape(archives') /\ Keeps
        BY <1>1, <2>2, KeepsStatus
    <2> QED
        BY <2>2, <2>4, <2>5 DEF Settles
<1>4. CASE Record(p)
    <2> DEFINE s == [r EXCEPT !.msg = "none", !.note = "none", !.then = "idle"]
    <2>1. /\ s \in Process /\ s.cmd = r.cmd /\ s.arg = r.arg
          /\ r.then \in {"idle", "apply", "review"} /\ r.copy = archives
        BY <1>1, <1>4 DEF Process, Notifications, Record, At, SerialOK
    <2>2. /\ \/ archives' = archives
             \/ archives' = [archives EXCEPT ![r.arg].notification = r.note]
          /\ UNCHANGED <<touched, applied>>
          /\ Become(p, IF r.then = "idle" THEN IdleProcess ELSE Goto(s, r.then))
        BY <1>4, <2>1 DEF Record, history
    <2>3. \A a \in Archives : /\ archives'[a].status = archives[a].status
                              /\ archives'[a].manifest = archives[a].manifest
        BY <1>1, <2>2 DEF StateFile, Entry
    <2>4. FileShape(archives') /\ Keeps
        BY <1>1, <2>2, <2>3, KeepsStatus DEF FileShape
    <2> HIDE DEF s
    <2>5. ASSUME r.then # "idle"
          PROVE  SerialOK(Goto(s, r.then), archives', touched')
        <3>1. archives'[r.arg].manifest
            BY <1>1, <1>4, <2>1, <2>3, <2>5 DEF SerialOK, NeedsManifest, Record, At
        <3>2. /\ Goto(s, r.then).pc \in {"apply", "review"}
              /\ Goto(s, r.then).arg = r.arg
            BY <2>1, <2>5, RecordFields
        <3> QED
            BY <3>1, <3>2 DEF SerialOK, NeedsManifest
    <2> QED
        BY <2>2, <2>4, <2>5, IdleSerialOK DEF Settles
<1> QED
    BY <1>2, <1>3, <1>4 DEF Deliver

\* The steps of an apply up to the one that loads the state again.
LEMMA SessionSettles ==
    ASSUME SerialInv, NEW p \in Procs,
           \/ Select(p) \/ OpenSession(p) \/ Restore(p) \/ Close(p)
           \/ \E overall \in Messages : Conclude(p, overall)
    PROVE  Settles(p)
<1> DEFINE r == proc[p]
<1>1. /\ r \in Process /\ SerialOK(r, archives, touched) /\ FileShape(archives)
      /\ archives \in StateFile /\ r.arg \in Archives
    BY SoundIsActive DEF SerialInv, HistoryInv, TypeInv, TypeOK, Active, Select,
       OpenSession, Restore, Close, Conclude, At
<1>2. ASSUME archives' = archives, touched \subseteq touched', NEW pc \in InApply,
             r.cmd = "cycle" => r.pc \in InApply,
             pc \in {"selected", "session", "restored", "closed"} =>
                 archives[r.arg].status = "PREPARED",
             pc \in {"restored", "closed"} => r.arg \in touched',
             pc # "finish"
      PROVE  SerialOK(Goto(r, pc), archives', touched')
    BY <1>1, <1>2, RecordFields DEF SerialOK, NeedsManifest, InApply
<1>3. CASE Select(p)
    <2>1. /\ Become(p, Goto(r, "selected")) /\ UNCHANGED <<archives, touched, applied>>
          /\ r.pc = "apply" /\ archives[r.arg].status = "PREPARED"
        BY <1>3 DEF Select, At, history
    <2>2. SerialOK(Goto(r, "selected"), archives', touched')
        BY <1>2, <2>1 DEF InApply
    <2> QED
        BY <1>1, <2>1, <2>2, KeepsStatus DEF Settles
<1>4. CASE OpenSession(p)
    <2>1. /\ Become(p, Goto(r, "session")) /\ UNCHANGED <<archives, touched, applied>>
          /\ r.pc = "selected"
        BY <1>4 DEF OpenSession, At, history
    <2>2. SerialOK(Goto(r, "session"), archives', touched')
        BY <1>1, <1>2, <2>1 DEF InApply, SerialOK
    <2> QED
        BY <1>1, <2>1, <2>2, KeepsStatus DEF Settles
<1>5. CASE Restore(p)
    <2>1. /\ Become(p, Goto(r, "restored")) /\ UNCHANGED <<archives, applied>>
          /\ touched' = touched \union {r.arg}
          /\ r.pc = "session" /\ archives[r.arg].status = "PREPARED"
        BY <1>1, <1>5 DEF Restore, At, SerialOK
    <2>2. SerialOK(Goto(r, "restored"), archives', touched')
        BY <1>2, <2>1 DEF InApply
    <2>3. PICK a \in Archives : a = r.arg
        BY <1>1
    <2>4. Contract!Touch(a)
        BY <2>1, <2>3 DEF Contract!Touch
    <2>5. Keeps
        BY <2>4, KeepsStep
    <2> QED
        BY <1>1, <2>1, <2>2, <2>5 DEF Settles
<1>6. CASE Close(p)
    <2>1. /\ Become(p, Goto(r, "closed")) /\ UNCHANGED <<archives, touched, applied>>
          /\ r.pc = "restored"
        BY <1>6 DEF Close, At, history
    <2>2. SerialOK(Goto(r, "closed"), archives', touched')
        BY <1>1, <1>2, <2>1 DEF InApply, SerialOK
    <2> QED
        BY <1>1, <2>1, <2>2, KeepsStatus DEF Settles
<1>7. ASSUME NEW o \in Messages, Conclude(p, o)
      PROVE  Settles(p)
    <2> DEFINE s == [r EXCEPT !.msg = o]
    <2>1. /\ s \in Process /\ s.cmd = r.cmd /\ s.arg = r.arg /\ r.pc = "closed"
          /\ UNCHANGED <<archives, touched, applied>> /\ Become(p, Loading(s, "finish"))
        BY <1>1, <1>7 DEF Process, Conclude, At, history
    <2> HIDE DEF s
    <2>2. Loading(s, "finish").copy = archives
        BY <2>1 DEF Loading, Process
    <2>3. SerialOK(Loading(s, "finish"), archives', touched')
        BY <1>1, <2>1, <2>2, RecordFields DEF SerialOK, NeedsManifest, InApply
    <2> QED
        BY <1>1, <2>1, <2>3, KeepsStatus DEF Settles
<1> QED
    BY <1>3, <1>4, <1>5, <1>6, <1>7

\* What is left of it: the save, the cleanup and the handlers of an exception.
LEMMA ConclusionSettles ==
    ASSUME SerialInv, NEW p \in Procs,
           Finish(p) \/ Cleanup(p) \/ ApplyRaise(p) \/ Review(p) \/ Mark(p)
    PROVE  Settles(p)
<1> DEFINE r == proc[p]
<1>1. /\ r \in Process /\ SerialOK(r, archives, touched) /\ FileShape(archives)
      /\ archives \in StateFile /\ r.arg \in Archives
    BY SoundIsActive DEF SerialInv, HistoryInv, TypeInv, TypeOK, Active, Finish,
       Cleanup, ApplyRaise, Review, Mark, At
<1>2. SerialOK(AfterApply(r), archives', touched')
    BY <1>1, QuietSerialOK, IdleSerialOK DEF AfterApply
<1>3. CASE Finish(p)
    <2>1. /\ r.copy = archives /\ archives[r.arg].status = "PREPARED" /\ r.arg \in touched
          /\ archives[r.arg].manifest
        BY <1>1, <1>3 DEF Finish, At, SerialOK, FileShape, Manifested
    <2>2. PICK a \in Archives : a = r.arg
        BY <1>1
    <2>3. /\ archives' = [archives EXCEPT ![a].status = FinalStatus(r.msg)]
          /\ applied' = IF r.msg = "SUCCESS" THEN applied \union {a} ELSE applied
          /\ Become(p, IF r.msg = "SUCCESS" THEN Goto(r, "cleanup") ELSE AfterApply(r))
          /\ touched' = touched
        BY <1>3, <2>1, <2>2 DEF Finish
    <2>4. FinalStatus(r.msg) \in Manifested
        BY DEF FinalStatus, Manifested
    <2>5. PICK st \in Manifested : st = FinalStatus(r.msg)
        BY <2>4
    <2>6. /\ FileShape(archives') /\ archives'[a].manifest
          /\ [b \in Archives |-> archives'[b].status]
                 = [[b \in Archives |-> archives[b].status] EXCEPT ![a] = st]
        BY <1>1, <2>1, <2>2, <2>3, <2>5, StatusUpdate
    <2>7. Contract!Succeed(a) \/ Contract!Fail(a)
        BY <2>1, <2>2, <2>3, <2>5, <2>6 DEF Contract!Succeed, Contract!Fail, FinalStatus
    <2>8. Keeps
        BY <2>7, KeepsStep
    <2>9. SerialOK(Goto(r, "cleanup"), archives', touched')
        BY <1>1, <2>2, <2>6, RecordFields DEF SerialOK, NeedsManifest
    <2> QED
        BY <1>2, <2>3, <2>6, <2>8, <2>9 DEF Settles
<1>4. CASE Cleanup(p)
    <2>1. UNCHANGED <<archives, touched, applied>> /\ Become(p, AfterApply(r))
        BY <1>4 DEF Cleanup, history
    <2> QED
        BY <1>1, <1>2, <2>1, KeepsStatus DEF Settles
<1>5. CASE ApplyRaise(p)
    <2>1. /\ UNCHANGED <<archives, touched, applied>> /\ Become(p, AfterRaise(r))
          /\ r.pc \in InApply
        BY <1>5 DEF ApplyRaise, InApply, history
    <2> DEFINE s == [r EXCEPT !.msg = "none"]
    <2>2. s \in Process /\ s.cmd = r.cmd /\ s.arg = r.arg
        BY <1>1 DEF Process
    <2> HIDE DEF s
    <2>3. ASSUME r.cmd = "cycle"
          PROVE  SerialOK(Goto(s, "review"), archives', touched')
        BY <1>1, <2>1, <2>2, <2>3, RecordFields DEF SerialOK, NeedsManifest
    <2>4. ASSUME archives[r.arg].manifest
          PROVE  SerialOK(Notifying(r, "FAILED", "review"), archives', touched')
        BY <1>1, <2>1, <2>4, RecordFields DEF SerialOK, NeedsManifest
    <2>5. SerialOK(AfterRaise(r), archives', touched')
        BY <2>3, <2>4, IdleSerialOK DEF AfterRaise, s
    <2> QED
        BY <1>1, <2>1, <2>5, KeepsStatus DEF Settles
<1>6. CASE Review(p)
    <2>1. /\ UNCHANGED <<archives, touched, applied>> /\ Become(p, Loading(r, "mark"))
          /\ r.pc = "review"
        BY <1>6 DEF Review, At, history
    <2>2. Loading(r, "mark").copy = archives
        BY <1>1 DEF Loading, Process
    <2>3. archives'[r.arg].manifest
        BY <1>1, <2>1 DEF SerialOK, NeedsManifest
    <2>4. Loading(r, "mark").pc = "mark" /\ Loading(r, "mark").arg = r.arg
        BY <1>1, RecordFields
    <2>5. SerialOK(Loading(r, "mark"), archives', touched')
        BY <2>1, <2>2, <2>3, <2>4 DEF SerialOK
    <2> QED
        BY <1>1, <2>1, <2>5, KeepsStatus DEF Settles
<1>7. CASE Mark(p)
    <2>1. /\ r.copy = archives /\ archives[r.arg].manifest
          /\ archives[r.arg].status \in Manifested
        BY <1>1, <1>7 DEF Mark, At, SerialOK, NeedsManifest, FileShape
    <2>2. PICK a \in Archives : a = r.arg
        BY <1>1
    <2>3. /\ archives' = [archives EXCEPT ![a].status = "REVIEW_REQUIRED"]
          /\ Become(p, IF r.cmd = "cycle" THEN Notifying(r, "FAILED", "idle")
                                          ELSE IdleProcess)
          /\ UNCHANGED <<touched, applied>>
        BY <1>7, <2>1, <2>2 DEF Mark, Manifested, history
    <2>4. /\ FileShape(archives') /\ archives'[a].manifest
          /\ [b \in Archives |-> archives'[b].status]
                 = [[b \in Archives |-> archives[b].status] EXCEPT ![a] = "REVIEW_REQUIRED"]
        BY <1>1, <2>1, <2>2, <2>3, StatusUpdate DEF Manifested
    <2>5. CASE archives[a].status = "REVIEW_REQUIRED"
        <3>1. \A b \in Archives : archives'[b].status = archives[b].status
            BY <1>1, <2>3, <2>5 DEF StateFile, Entry
        <3> QED
            BY <1>1, <2>3, <2>4, <3>1, QuietSerialOK, IdleSerialOK, KeepsStatus DEF Settles
    <2>6. CASE archives[a].status # "REVIEW_REQUIRED"
        <3>1. Contract!SendToReview(a)
            BY <2>1, <2>2, <2>3, <2>4, <2>6 DEF Contract!SendToReview, Manifested
        <3>2. Keeps
            BY <3>1, KeepsStep
        <3> QED
            BY <1>1, <2>3, <2>4, <3>2, QuietSerialOK, IdleSerialOK DEF Settles
    <2> QED
        BY <2>5, <2>6
<1> QED
    BY <1>3, <1>4, <1>5, <1>6, <1>7

\* One process at a time: a step is a step of the lifecycle and finds the others
\* idle, so that no copy but its own is in use.
LEMMA SerialNext ==
    ASSUME Serial, SerialInv, [Next]_vars
    PROVE  SerialInv' /\ Keeps
<1>1. HistoryInv'
    BY HistoryNext DEF SerialInv
<1>2. ASSUME UNCHANGED <<archives, proc, touched, applied>>
      PROVE  SerialInv' /\ Keeps
    BY <1>1, <1>2, KeepsStatus DEF SerialInv, Alone
<1>3. ASSUME NEW p \in Procs,
             Start(p) \/ Monitor(p) \/ Deliver(p) \/ Apply(p) \/ Kill(p)
      PROVE  SerialInv' /\ Keeps
    <2>1. Settles(p)
        BY <1>3, StartSettles, MonitorSettles, DeliverSettles, SessionSettles,
           ConclusionSettles DEF Apply
    <2>2. \A q \in Procs \ {p} : proc[q].pc = "idle"
        <3>1. CASE Start(p)
            BY <3>1 DEF Start, StartMonitor, StartApprove, StartApply, CanStart, Quiet, At
        <3>2. CASE Monitor(p) \/ Deliver(p) \/ Apply(p) \/ Kill(p)
            <4>1. proc[p].pc # "idle"
                BY <3>2 DEF Monitor, MonitorFail, MonitorResume, MonitorNoChange,
                   MonitorDuplicate, MonitorPrepare, Deliver, RetryNotice, Notify, Record,
                   Apply, Select, OpenSession, Restore, Close, Conclude, Finish, Cleanup,
                   ApplyRaise, Review, Mark, Kill, At
            <4> QED
                BY <4>1 DEF SerialInv, Alone
        <3> QED
            BY <1>3, <3>1, <3>2
    <2>3. PICK r : Become(p, r) /\ SerialOK(r, archives', touched')
        BY <2>1 DEF Settles
    <2>4. proc'[p] = r /\ \A q \in Procs \ {p} : proc'[q] = proc[q]
        BY <2>3 DEF Become, SerialInv, HistoryInv, TypeInv, TypeOK
    <2>5. Alone'
        BY <2>2, <2>4 DEF Alone
    <2>6. ASSUME NEW q \in Procs
          PROVE  SerialOK(proc'[q], archives', touched')
        <3>1. CASE q = p
            BY <2>3, <2>4, <3>1
        <3>2. CASE q # p
            <4>1. proc'[q].pc = "idle"
                BY <2>2, <2>4, <3>2
            <4> QED
                BY <4>1 DEF SerialOK, NeedsManifest, InApply
        <3> QED
            BY <3>1, <3>2
    <2> QED
        BY <1>1, <2>1, <2>5, <2>6 DEF SerialInv, Settles
<1> QED
    BY <1>2, <1>3 DEF Next, Publish, Serve, Bind, ServerFails, vars, history

LEMMA SerialInit ==
    ASSUME Init
    PROVE  SerialInv /\ Contract!Init
<1>1. FileShape(archives)
    BY DEF Init, FileShape, NoCopy, NoEntry, Manifested
<1>2. \A p \in Procs : proc[p] = IdleProcess /\ proc[p].pc = "idle"
    BY DEF Init, IdleProcess
<1>3. Contract!Init
    BY DEF Init, Contract!Init, NoCopy, NoEntry
<1> QED
    BY <1>1, <1>2, <1>3, HistoryInit, IdleSerialOK DEF SerialInv, Alone, Init

\* Run by one process at a time, whatever fails or is killed where, the agent
\* keeps the lifecycle of ArchiveLifecycle for every archive.
THEOREM SerialLifecycle ==
    ASSUME Serial
    PROVE  Spec => ImplementsLifecycle
<1>1. Init => SerialInv /\ Contract!Init
    BY SerialInit
<1>2. SerialInv /\ [Next]_vars => SerialInv' /\ [Contract!Next]_Contract!vars
    BY SerialNext DEF Keeps
<1> QED
    BY <1>1, <1>2, PTL DEF Spec, ImplementsLifecycle, Contract!Spec
-----------------------------------------------------------------------------
(* As long as nobody is killed, and with the bare apply command left alone, *)
(* an exception always finds a handler, and what was touched ends settled.  *)

Attended ==
    /\ Serial
    /\ \A p \in Procs : CommandsOf[p] \intersect {"apply", "apply_approved"} = {}

\* An apply has a caller that handles its exceptions.
Covered(r) ==
    \/ r.pc \in InApply
    \/ r.pc \in {"notify", "record"} /\ r.then = "apply"
    => r.cmd \in {"cycle", "approve"}

\* A process that will settle its archive, or get it settled by a handler.
Watching(r) ==
    \/ r.pc \in {"restored", "closed", "finish", "review", "mark"}
    \/ r.pc \in {"notify", "record"} /\ r.then = "review"

Open(file, a, r) == file[a].status \in Settled \/ (r.arg = a /\ Watching(r))

AttendedInv ==
    /\ SerialInv
    /\ \A p \in Procs : Covered(proc[p])
    /\ \A a \in touched :
           archives[a].status \in Settled \/ \E p \in Procs : Open(archives, a, proc[p])

\* Each step of p leaves a record that has a handler, and no archive touched and
\* unsettled but the one it watches.
Attends(p) ==
    \E r : /\ Become(p, r)
           /\ Covered(r)
           /\ \A a \in touched' : Open(archives', a, r)

\* Nobody but the running process has an archive to settle.
LEMMA OnlyOwn ==
    ASSUME AttendedInv, NEW p \in Procs, proc[p].pc # "idle" \/ Quiet
    PROVE  \A a \in touched : Open(archives, a, proc[p])
<1> SUFFICES ASSUME NEW a \in touched, archives[a].status \notin Settled
             PROVE  Open(archives, a, proc[p])
    BY DEF Open
<1>1. PICK q \in Procs : Open(archives, a, proc[q])
    BY DEF AttendedInv
<1>2. proc[q].pc # "idle"
    BY <1>1 DEF Open, Watching
<1>3. q = p
    BY <1>2 DEF AttendedInv, SerialInv, Alone, Quiet, At
<1> QED
    BY <1>1, <1>3

\* The lifecycle never un-settles an archive.
LEMMA SettledStays ==
    ASSUME Keeps, NEW a \in Archives, archives[a].status \in Settled
    PROVE  archives'[a].status \in Settled
<1> DEFINE old == [b \in Archives |-> archives[b].status]
           new == [b \in Archives |-> archives'[b].status]
<1>1. old[a] = archives[a].status /\ new[a] = archives'[a].status
    OBVIOUS
<1>2. CASE Contract!vars' = Contract!vars
    <2>1. new = old
        BY <1>2 DEF Contract!vars
    <2> QED
        BY <1>1, <2>1
<1>3. ASSUME NEW b \in Archives, old[b] \notin {"APPLIED", "APPLY_FAILED", "REVIEW_REQUIRED"},
             NEW st, new = [old EXCEPT ![b] = st]
      PROVE  archives'[a].status \in Settled
    BY <1>1, <1>3 DEF Settled
<1>4. ASSUME NEW b \in Archives, new = [old EXCEPT ![b] = "REVIEW_REQUIRED"]
      PROVE  archives'[a].status \in Settled
    BY <1>1, <1>4 DEF Settled
<1>5. ASSUME NEW b \in Archives,
             Contract!Prepare(b) \/ Contract!Skip(b) \/ Contract!Touch(b) \/
             Contract!Succeed(b) \/ Contract!Fail(b) \/ Contract!SendToReview(b)
      PROVE  archives'[a].status \in Settled
    <2>1. CASE Contract!Prepare(b)
        BY <1>3, <2>1 DEF Contract!Prepare
    <2>2. CASE Contract!Skip(b)
        BY <1>3, <2>2 DEF Contract!Skip
    <2>3. CASE Contract!Touch(b)
        BY <1>1, <2>3 DEF Contract!Touch
    <2>4. CASE Contract!Succeed(b)
        BY <1>3, <2>4 DEF Contract!Succeed
    <2>5. CASE Contract!Fail(b)
        BY <1>3, <2>5 DEF Contract!Fail
    <2>6. CASE Contract!SendToReview(b)
        BY <1>4, <2>6 DEF Contract!SendToReview
    <2> QED
        BY <1>5, <2>1, <2>2, <2>3, <2>4, <2>5, <2>6
<1> QED
    BY <1>2, <1>5 DEF Keeps, Contract!Next

\* A step that goes on watching what was watched.
Continues(p) ==
    \E r : /\ Become(p, r)
           /\ Covered(r)
           /\ Watching(proc[p]) => Watching(r) /\ r.arg = proc[p].arg

LEMMA ContinuesAttends ==
    ASSUME AttendedInv, NEW p \in Procs, proc[p].pc # "idle" \/ Quiet,
           Keeps, touched' = touched, Continues(p)
    PROVE  Attends(p)
<1>1. PICK r : /\ Become(p, r) /\ Covered(r)
               /\ Watching(proc[p]) => Watching(r) /\ r.arg = proc[p].arg
    BY DEF Continues
<1>2. ASSUME NEW a \in touched
      PROVE  Open(archives', a, r)
    <2>1. a \in Archives
        BY DEF AttendedInv, SerialInv, HistoryInv, TypeInv, TypeOK
    <2> QED
        BY <1>1, <2>1, OnlyOwn, SettledStays DEF Open
<1> QED
    BY <1>1, <1>2 DEF Attends

\* A step that settles the archive.
LEMMA SettlingAttends ==
    ASSUME AttendedInv, NEW p \in Procs, proc[p].pc # "idle",
           Keeps, touched' = touched,
           archives'[proc[p].arg].status \in Settled,
           \E r : Become(p, r) /\ Covered(r)
    PROVE  Attends(p)
<1>1. PICK r : Become(p, r) /\ Covered(r)
    OBVIOUS
<1>2. ASSUME NEW a \in touched
      PROVE  Open(archives', a, r)
    <2>1. a \in Archives
        BY DEF AttendedInv, SerialInv, HistoryInv, TypeInv, TypeOK
    <2> QED
        BY <2>1, OnlyOwn, SettledStays DEF Open
<1> QED
    BY <1>1, <1>2 DEF Attends

LEMMA IdleCovered == Covered(IdleProcess)
BY DEF Covered, IdleProcess, InApply

LEMMA StartAttends ==
    ASSUME Attended, AttendedInv, NEW p \in Procs, Start(p)
    PROVE  Attends(p)
<1>1. Quiet /\ proc[p].pc = "idle" /\ touched' = touched
    BY DEF Start, StartMonitor, StartApprove, StartApply, CanStart, At, Attended, history
<1>2. Keeps
    BY StartSettles DEF AttendedInv, Settles
<1>3. ~Watching(proc[p])
    BY <1>1 DEF Watching
<1>4. ASSUME NEW cmd \in AllCommands, StartMonitor(p, cmd)
      PROVE  Continues(p)
    <2> DEFINE s == Loading([IdleProcess EXCEPT !.cmd = cmd], "monitor")
    <2>1. s.pc = "monitor"
        BY DEF Loading, IdleProcess
    <2>2. Become(p, s)
        BY <1>4 DEF StartMonitor
    <2> HIDE DEF s
    <2> QED
        BY <1>3, <2>1, <2>2 DEF Continues, Covered, InApply
<1>5. ASSUME NEW a \in Archives, StartApprove(p, a)
      PROVE  Continues(p)
    <2> DEFINE s == [IdleProcess EXCEPT !.pc = "apply", !.cmd = "approve", !.arg = a]
    <2>1. s.pc = "apply" /\ s.cmd = "approve"
        BY DEF IdleProcess
    <2>2. Become(p, s)
        BY <1>5 DEF StartApprove
    <2> HIDE DEF s
    <2> QED
        BY <1>3, <2>1, <2>2 DEF Continues, Covered
<1>6. ASSUME NEW a \in Archives, NEW cmd \in AllCommands, StartApply(p, a, cmd)
      PROVE  FALSE
    BY <1>6 DEF StartApply, CanStart, Attended
<1>7. Continues(p)
    BY <1>4, <1>5, <1>6 DEF Start
<1> QED
    BY <1>1, <1>2, <1>7, ContinuesAttends

LEMMA MonitorAttends ==
    ASSUME Attended, AttendedInv, NEW p \in Procs, Monitor(p)
    PROVE  Attends(p)
<1> DEFINE r == proc[p]
           t == [r EXCEPT !.arg = offered]
<1>1. /\ r \in Process /\ t \in Process /\ t.cmd = r.cmd
    BY DEF AttendedInv, SerialInv, HistoryInv, TypeInv, TypeOK, Process
<1>2. r.pc = "monitor" /\ touched' = touched
    BY DEF Monitor, MonitorFail, MonitorResume, MonitorNoChange, MonitorDuplicate,
       MonitorPrepare, At, history
<1>3. Keeps
    BY MonitorSettles DEF AttendedInv, Settles
<1>4. ~Watching(r)
    BY <1>2 DEF Watching
<1>5. \E s : Become(p, s) /\ s \in {IdleProcess, Goto(t, "retry"), AfterPrepared(t)}
    BY DEF Monitor, MonitorFail, MonitorResume, MonitorNoChange, MonitorDuplicate,
       MonitorPrepare
<1> HIDE DEF t
<1>6. Covered(Goto(t, "retry"))
    BY <1>1, RecordFields DEF Covered, InApply
<1>7. Covered(AfterPrepared(t))
    <2>1. ASSUME t.cmd = "cycle", NEW u
          PROVE  Covered(Notifying(t, "PREPARED", u))
        BY <1>1, <2>1, RecordFields DEF Covered, InApply
    <2> QED
        BY <2>1, IdleCovered DEF AfterPrepared
<1>8. Continues(p)
    BY <1>4, <1>5, <1>6, <1>7, IdleCovered DEF Continues
<1> QED
    BY <1>2, <1>3, <1>8, ContinuesAttends

LEMMA DeliverAttends ==
    ASSUME Attended, AttendedInv, NEW p \in Procs, Deliver(p)
    PROVE  Attends(p)
<1> DEFINE r == proc[p]
<1>1. r \in Process /\ Covered(r)
    BY DEF AttendedInv, SerialInv, HistoryInv, TypeInv, TypeOK
<1>2. r.pc # "idle" /\ touched' = touched
    BY DEF Deliver, RetryNotice, Notify, Record, At, history
<1>3. Keeps
    BY DeliverSettles DEF AttendedInv, Settles
<1>4. ASSUME RetryNotice(p)
      PROVE  Continues(p)
    <2>1. ~Watching(r)
        BY <1>4 DEF Watching, RetryNotice, At
    <2>2. Covered(Notifying(r, "PREPARED", "idle"))
        BY <1>1, RecordFields, RecordThens DEF Covered, InApply
    <2> QED
        BY <1>4, <2>1, <2>2, IdleCovered DEF Continues, RetryNotice
<1>5. ASSUME NEW o \in Notifications, Notify(p, o)
      PROVE  Continues(p)
    <2> DEFINE s == [r EXCEPT !.note = o]
    <2>1. /\ s \in Process /\ s.cmd = r.cmd /\ s.arg = r.arg /\ s.then = r.then
          /\ r.pc = "notify" /\ Become(p, Loading(s, "record"))
        BY <1>1, <1>5 DEF Process, Notify, At
    <2> HIDE DEF s
    <2>2. /\ Loading(s, "record").pc = "record" /\ Loading(s, "record").cmd = r.cmd
          /\ Loading(s, "record").arg = r.arg /\ Loading(s, "record").then = r.then
        BY <2>1, RecordFields, RecordThens
    <2> QED
        BY <1>1, <2>1, <2>2 DEF Continues, Covered, Watching, InApply
<1>6. ASSUME Record(p)
      PROVE  Continues(p)
    <2> DEFINE s == [r EXCEPT !.msg = "none", !.note = "none", !.then = "idle"]
    <2>1. /\ s \in Process /\ s.cmd = r.cmd /\ s.arg = r.arg /\ r.pc = "record"
          /\ r.then \in {"idle", "apply", "review"}
          /\ Become(p, IF r.then = "idle" THEN IdleProcess ELSE Goto(s, r.then))
        BY <1>1, <1>6 DEF Process, Notifications, Record, At
    <2> HIDE DEF s
    <2>2. CASE r.then = "idle"
        BY <2>1, <2>2, IdleCovered DEF Continues, Watching
    <2>3. CASE r.then # "idle"
        <3>1. /\ Goto(s, r.then).pc = r.then /\ Goto(s, r.then).cmd = r.cmd
              /\ Goto(s, r.then).arg = r.arg
            BY <2>1, RecordFields
        <3> QED
            BY <1>1, <2>1, <2>3, <3>1 DEF Continues, Covered, Watching, InApply
    <2> QED
        BY <2>2, <2>3
<1>7. Continues(p)
    BY <1>4, <1>5, <1>6 DEF Deliver
<1> QED
    BY <1>2, <1>3, <1>7, ContinuesAttends

LEMMA SessionAttends ==
    ASSUME Attended, AttendedInv, NEW p \in Procs,
           \/ Select(p) \/ OpenSession(p) \/ Restore(p) \/ Close(p)
           \/ \E overall \in Messages : Conclude(p, overall)
    PROVE  Attends(p)
<1> DEFINE r == proc[p]
<1>1. r \in Process /\ Covered(r)
    BY DEF AttendedInv, SerialInv, HistoryInv, TypeInv, TypeOK
<1>2. r.pc \in InApply /\ r.pc # "idle"
    BY DEF Select, OpenSession, Restore, Close, Conclude, At, InApply
<1>3. Keeps
    BY SessionSettles DEF AttendedInv, Settles
<1>4. r.cmd \in {"cycle", "approve"}
    BY <1>1, <1>2 DEF Covered
<1>5. ASSUME NEW pc \in InApply
      PROVE  Covered(Goto(r, pc))
    BY <1>1, <1>4, RecordFields DEF Covered
<1>6. CASE Select(p) \/ OpenSession(p)
    <2>1. ~Watching(r) /\ touched' = touched
        BY <1>6 DEF Watching, Select, OpenSession, At, history
    <2>2. Covered(Goto(r, "selected")) /\ Covered(Goto(r, "session"))
        BY <1>5 DEF InApply
    <2>3. Continues(p)
        BY <1>6, <2>1, <2>2 DEF Continues, Select, OpenSession
    <2> QED
        BY <1>2, <1>3, <2>1, <2>3, ContinuesAttends
<1>7. CASE Restore(p)
    <2>1. /\ Become(p, Goto(r, "restored")) /\ archives' = archives
          /\ touched' = touched \union {r.arg} /\ r.pc = "session"
        BY <1>7 DEF Restore, At
    <2>2. Covered(Goto(r, "restored"))
        BY <1>5 DEF InApply
    <2>3. Goto(r, "restored").pc = "restored" /\ Goto(r, "restored").arg = r.arg
        BY <1>1, RecordFields
    <2>4. \A a \in touched : archives[a].status \in Settled
        BY <1>2, <2>1, OnlyOwn DEF Open, Watching
    <2>5. \A a \in touched' : Open(archives', a, Goto(r, "restored"))
        BY <2>1, <2>3, <2>4 DEF Open, Watching
    <2> QED
        BY <2>1, <2>2, <2>5 DEF Attends
<1>8. CASE Close(p)
    <2>1. touched' = touched /\ Become(p, Goto(r, "closed"))
        BY <1>8 DEF Close, history
    <2>2. Goto(r, "closed").pc = "closed" /\ Goto(r, "closed").arg = r.arg
        BY <1>1, RecordFields
    <2>3. Covered(Goto(r, "closed"))
        BY <1>5 DEF InApply
    <2>4. Continues(p)
        BY <2>1, <2>2, <2>3 DEF Continues, Watching
    <2> QED
        BY <1>2, <1>3, <2>1, <2>4, ContinuesAttends
<1>9. ASSUME NEW o \in Messages, Conclude(p, o)
      PROVE  Attends(p)
    <2> DEFINE s == [r EXCEPT !.msg = o]
    <2>1. /\ s \in Process /\ s.cmd = r.cmd /\ s.arg = r.arg
          /\ touched' = touched /\ Become(p, Loading(s, "finish"))
        BY <1>1, <1>9 DEF Process, Conclude, At, history
    <2> HIDE DEF s
    <2>2. /\ Loading(s, "finish").pc = "finish" /\ Loading(s, "finish").cmd = r.cmd
          /\ Loading(s, "finish").arg = r.arg
        BY <2>1, RecordFields
    <2>3. Continues(p)
        BY <1>4, <2>1, <2>2 DEF Continues, Covered, Watching
    <2> QED
        BY <1>2, <1>3, <2>1, <2>3, ContinuesAttends
<1> QED
    BY <1>6, <1>7, <1>8, <1>9

LEMMA ConclusionAttends ==
    ASSUME Attended, AttendedInv, NEW p \in Procs,
           Finish(p) \/ Cleanup(p) \/ ApplyRaise(p) \/ Review(p) \/ Mark(p)
    PROVE  Attends(p)
<1> DEFINE r == proc[p]
<1>1. /\ r \in Process /\ Covered(r) /\ SerialOK(r, archives, touched)
      /\ r.arg \in Archives /\ archives \in StateFile /\ FileShape(archives)
    BY SoundIsActive DEF AttendedInv, SerialInv, HistoryInv, TypeInv, TypeOK, Active,
       Finish, Cleanup, ApplyRaise, Review, Mark, At
<1>2. r.pc # "idle" /\ touched' = touched
    BY DEF Finish, Cleanup, ApplyRaise, Review, Mark, At, history
<1>3. Keeps
    BY ConclusionSettles DEF AttendedInv, Settles
<1>4. Covered(AfterApply(r))
    <2>1. Covered(Notifying(r, r.msg, "idle"))
        BY <1>1, RecordFields, RecordThens DEF Covered, InApply
    <2> QED
        BY <2>1, IdleCovered DEF AfterApply
<1>5. CASE Finish(p)
    <2>1. r.pc = "finish" /\ r.copy = archives
        BY <1>1, <1>5 DEF Finish, At, SerialOK
    <2>2. r.cmd \in {"cycle", "approve"}
        BY <1>1, <2>1 DEF Covered, InApply
    <2>3. Covered(Goto(r, "cleanup"))
        BY <1>1, <2>2, RecordFields DEF Covered
    <2>4. archives'[r.arg].status \in Settled
        BY <1>1, <1>5, <2>1 DEF Finish, StateFile, Entry, FinalStatus, Settled
    <2>5. \E s : Become(p, s) /\ Covered(s)
        BY <1>4, <1>5, <2>3 DEF Finish
    <2> QED
        BY <1>2, <1>3, <2>4, <2>5, SettlingAttends
<1>6. CASE Cleanup(p)
    <2>1. ~Watching(r)
        BY <1>6 DEF Cleanup, At, Watching
    <2>2. Continues(p)
        BY <1>4, <1>6, <2>1 DEF Cleanup, Continues
    <2> QED
        BY <1>2, <1>3, <2>2, ContinuesAttends
<1>7. CASE ApplyRaise(p)
    <2> DEFINE s == [r EXCEPT !.msg = "none"]
    <2>1. /\ s \in Process /\ s.cmd = r.cmd /\ s.arg = r.arg
          /\ r.pc \in InApply /\ Become(p, AfterRaise(r))
        BY <1>1, <1>7 DEF Process, ApplyRaise, InApply
    <2>2. r.cmd \in {"cycle", "approve"}
        BY <1>1, <2>1 DEF Covered
    <2>3. Watching(r) => archives[r.arg].manifest
        BY <1>1, <2>1 DEF Watching, SerialOK, FileShape, Manifested, InApply
    <2>4. r.cmd = "cycle" => AfterRaise(r) = Goto(s, "review")
        BY DEF AfterRaise
    <2>5. r.cmd = "approve" =>
              AfterRaise(r) = IF archives[r.arg].manifest
                              THEN Notifying(r, "FAILED", "review")
                              ELSE IdleProcess
        BY DEF AfterRaise
    <2> HIDE DEF s
    <2>6. /\ Goto(s, "review").pc = "review" /\ Goto(s, "review").arg = r.arg
          /\ Notifying(r, "FAILED", "review").pc = "notify"
          /\ Notifying(r, "FAILED", "review").then = "review"
          /\ Notifying(r, "FAILED", "review").arg = r.arg
        BY <1>1, <2>1, RecordFields, RecordThens
    <2>7. Covered(Goto(s, "review")) /\ Covered(Notifying(r, "FAILED", "review"))
        BY <2>6 DEF Covered, InApply
    <2>8. Watching(Goto(s, "review")) /\ Watching(Notifying(r, "FAILED", "review"))
        BY <2>6 DEF Watching
    <2>9. Covered(AfterRaise(r))
        BY <2>2, <2>4, <2>5, <2>7, IdleCovered
    <2>10. Watching(r) => Watching(AfterRaise(r)) /\ AfterRaise(r).arg = r.arg
        BY <2>2, <2>3, <2>4, <2>5, <2>6, <2>8
    <2>11. Continues(p)
        BY <2>1, <2>9, <2>10 DEF Continues
    <2> QED
        BY <1>2, <1>3, <2>11, ContinuesAttends
<1>8. CASE Review(p)
    <2>1. Become(p, Loading(r, "mark"))
        BY <1>8 DEF Review
    <2>2. Loading(r, "mark").pc = "mark" /\ Loading(r, "mark").arg = r.arg
        BY <1>1, RecordFields
    <2>3. Continues(p)
        BY <2>1, <2>2 DEF Continues, Covered, Watching, InApply
    <2> QED
        BY <1>2, <1>3, <2>3, ContinuesAttends
<1>9. CASE Mark(p)
    <2>1. /\ r.copy = archives /\ archives[r.arg].status \in Manifested
        BY <1>1, <1>9 DEF Mark, At, SerialOK, NeedsManifest, FileShape
    <2>2. archives'[r.arg].status \in Settled
        BY <1>1, <1>9, <2>1 DEF Mark, StateFile, Entry, Manifested, Settled
    <2>3. Covered(Notifying(r, "FAILED", "idle"))
        BY <1>1, RecordFields, RecordThens DEF Covered, InApply
    <2>4. \E s : Become(p, s) /\ Covered(s)
        BY <1>9, <2>3, IdleCovered DEF Mark
    <2> QED
        BY <1>2, <1>3, <2>2, <2>4, SettlingAttends
<1> QED
    BY <1>5, <1>6, <1>7, <1>8, <1>9

LEMMA AttendedStep ==
    ASSUME Attended, AttendedInv, [Next]_vars, kills' = kills
    PROVE  AttendedInv'
<1>1. SerialInv'
    BY SerialNext DEF Attended, AttendedInv
<1>2. ASSUME UNCHANGED <<archives, proc, touched>>
      PROVE  AttendedInv'
    BY <1>1, <1>2 DEF AttendedInv, Open
<1>3. ASSUME NEW p \in Procs,
             Start(p) \/ Monitor(p) \/ Deliver(p) \/ Apply(p) \/ Kill(p)
      PROVE  AttendedInv'
    <2>1. ~Kill(p)
        BY DEF Kill, Attended, AttendedInv, SerialInv, HistoryInv, TypeInv, TypeOK
    <2>2. PICK r : /\ Become(p, r) /\ Covered(r)
                   /\ \A a \in touched' : Open(archives', a, r)
        BY <1>3, <2>1, StartAttends, MonitorAttends, DeliverAttends, SessionAttends,
           ConclusionAttends DEF Apply, Attends
    <2>3. proc'[p] = r /\ \A q \in Procs \ {p} : proc'[q] = proc[q]
        BY <2>2 DEF Become, AttendedInv, SerialInv, HistoryInv, TypeInv, TypeOK
    <2>4. \A q \in Procs : Covered(proc'[q])
        BY <2>2, <2>3 DEF AttendedInv
    <2>5. \A a \in touched' :
              archives'[a].status \in Settled
              \/ \E q \in Procs : Open(archives', a, proc'[q])
        BY <2>2, <2>3
    <2> QED
        BY <1>1, <2>4, <2>5 DEF AttendedInv, Covered
<1> QED
    BY <1>2, <1>3 DEF Next, Publish, Serve, Bind, ServerFails, vars, history

\* Nothing is promised after a kill.
UnkilledInv == SerialInv /\ (kills = 0 => AttendedInv)

LEMMA AttendedNext ==
    ASSUME Attended, UnkilledInv, [Next]_vars
    PROVE  UnkilledInv'
<1>1. SerialInv'
    BY SerialNext DEF Attended, UnkilledInv
<1>2. kills' = kills \/ \E p \in Procs : Kill(p)
    BY DEF Next, Publish, Start, StartMonitor, StartApprove, StartApply, Monitor,
       MonitorFail, MonitorResume, MonitorNoChange, MonitorDuplicate, MonitorPrepare,
       Deliver, RetryNotice, Notify, Record, Apply, Select, OpenSession, Restore, Close,
       Conclude, Finish, Cleanup, ApplyRaise, Review, Mark, Serve, Bind, ServerFails, vars
<1>3. kills' = 0 => kills' = kills
    BY <1>2 DEF Kill, UnkilledInv, SerialInv, HistoryInv, TypeInv, TypeOK
<1> QED
    BY <1>1, <1>3, AttendedStep DEF UnkilledInv

LEMMA AttendedInit ==
    ASSUME Init
    PROVE  UnkilledInv
BY SerialInit, IdleCovered DEF Init, AttendedInv, UnkilledInv

\* With one process at a time and failures left to the handlers of the cycle and of
\* approve, no archive whose restore began is left as if nothing had happened, as
\* long as nobody is killed.
THEOREM TouchedAlwaysSettled ==
    ASSUME Attended
    PROVE  Spec => []TouchedIsSettled
<1>1. UnkilledInv => TouchedIsSettled
    BY DEF UnkilledInv, AttendedInv, Open, TouchedIsSettled
<1>2. Init => UnkilledInv
    BY AttendedInit
<1>3. UnkilledInv /\ [Next]_vars => UnkilledInv'
    BY AttendedNext
<1> QED
    BY <1>1, <1>2, <1>3, PTL DEF Spec

\* Under the same conditions a cycle never restores an archive whose restore was
\* begun before.
THEOREM NeverReplayed ==
    ASSUME Attended
    PROVE  Spec => NoUnattendedReplay
<1> DEFINE NoReplay == \A p \in Procs :
              kills = 0 /\ At(p, "session") /\ proc[p].cmd = "cycle" /\ proc[p].arg \in touched
                  => proc'[p].pc # "restored"
<1>1. ASSUME AttendedInv, NEW p \in Procs, At(p, "session"), proc[p].arg \in touched
      PROVE  FALSE
    <2>1. Open(archives, proc[p].arg, proc[p])
        BY <1>1, OnlyOwn DEF At
    <2>2. archives[proc[p].arg].status = "PREPARED"
        BY <1>1 DEF AttendedInv, SerialInv, SerialOK, At
    <2> QED
        BY <1>1, <2>1, <2>2 DEF Open, Watching, Settled, At
<1>2. UnkilledInv => NoReplay
    BY <1>1 DEF UnkilledInv
<1>3. Init => UnkilledInv
    BY AttendedInit
<1>4. UnkilledInv /\ [Next]_vars => UnkilledInv'
    BY AttendedNext
<1> QED
    BY <1>2, <1>3, <1>4, PTL DEF Spec, NoUnattendedReplay
-----------------------------------------------------------------------------
(* Only a stale save un-settles an archive.                                 *)

\* A step that changes the file saves the copy of the process that takes it, and what
\* it changes in it itself is never a settled archive.
LEMMA SavesCopy ==
    ASSUME TypeInv, NEW p \in Procs,
           Start(p) \/ Monitor(p) \/ Deliver(p) \/ Apply(p) \/ Kill(p),
           NEW a \in Archives, archives[a].status \in Settled,
           archives'[a].status \notin Settled
    PROVE  /\ Monitor(p) \/ Record(p) \/ Finish(p) \/ Mark(p)
           /\ proc[p].pc \in Saving /\ proc[p].copy[a].status \notin Settled
<1> DEFINE r == proc[p]
<1>1. r.copy \in StateFile
    BY DEF TypeInv, TypeOK, Process
<1>2. CASE Monitor(p)
    BY <1>1, <1>2 DEF Monitor, MonitorFail, MonitorResume, MonitorNoChange,
       MonitorDuplicate, MonitorPrepare, At, Saving, Handled, Settled, StateFile
<1>3. CASE Record(p)
    BY <1>1, <1>3 DEF Record, At, Saving, StateFile, Entry
<1>4. CASE Finish(p)
    BY <1>1, <1>4 DEF Finish, FinalStatus, At, Saving, Settled, StateFile, Entry
<1>5. CASE Mark(p)
    BY <1>1, <1>5 DEF Mark, At, Saving, Settled, StateFile, Entry
<1>6. CASE UNCHANGED archives
    BY <1>6
<1> QED
    BY <1>2, <1>3, <1>4, <1>5, <1>6 DEF Start, StartMonitor, StartApprove, StartApply,
       Deliver, RetryNotice, Notify, Apply, Select, OpenSession, Restore, Close, Conclude,
       Cleanup, ApplyRaise, Review, Kill

\* The save is the last a process does at its place.
LEMMA SaveLeaves ==
    ASSUME TypeInv, NEW p \in Procs, Monitor(p) \/ Record(p) \/ Finish(p) \/ Mark(p)
    PROVE  proc'[p] # proc[p]
<1> DEFINE r == proc[p]
           t == [r EXCEPT !.arg = offered]
           u == [r EXCEPT !.msg = "none", !.note = "none", !.then = "idle"]
<1>1. /\ r \in Process /\ t \in Process /\ u \in Process
      /\ r.then \in {"idle", "apply", "review"}
    BY DEF TypeInv, TypeOK, Process, Notifications
<1>2. IdleProcess.pc = "idle"
    BY DEF IdleProcess
<1>3. r.pc \in Saving
    BY DEF Monitor, MonitorFail, MonitorResume, MonitorNoChange, MonitorDuplicate,
       MonitorPrepare, Record, Finish, Mark, At, Saving
<1>4. SUFFICES \E s : Become(p, s) /\ s.pc \notin Saving
    BY <1>3 DEF Become, TypeInv, TypeOK
<1> HIDE DEF t, u
<1>5. /\ Goto(t, "retry").pc = "retry" /\ Goto(u, r.then).pc = r.then
      /\ Goto(r, "cleanup").pc = "cleanup"
      /\ \A m, n : Notifying(t, m, n).pc = "notify" /\ Notifying(r, m, n).pc = "notify"
    BY <1>1, RecordFields
<1>6. AfterPrepared(t).pc \notin Saving /\ AfterApply(r).pc \notin Saving
    BY <1>2, <1>5 DEF AfterPrepared, AfterApply, Saving
<1>7. CASE Monitor(p)
    BY <1>2, <1>5, <1>6, <1>7 DEF Monitor, MonitorFail, MonitorResume, MonitorNoChange,
       MonitorDuplicate, MonitorPrepare, t, Saving
<1>8. CASE Record(p)
    BY <1>1, <1>2, <1>5, <1>8 DEF Record, u, Saving
<1>9. CASE Finish(p)
    BY <1>5, <1>6, <1>9 DEF Finish, Saving
<1>10. CASE Mark(p)
    BY <1>2, <1>5, <1>10 DEF Mark, Saving
<1> QED
    BY <1>7, <1>8, <1>9, <1>10

\* However many processes load and save, an archive that a person has to look at, or
\* that is done, becomes eligible again only by the save of a copy that was loaded
\* before it was settled.
THEOREM UnsettledOnlyByStaleSave == Spec => UnsettledByStaleSaveOnly
<1> DEFINE Stale == \A a \in Archives :
              archives[a].status \in Settled /\ archives'[a].status \notin Settled =>
                  \E p \in Procs : /\ proc[p].pc \in Saving /\ proc'[p] # proc[p]
                                   /\ proc[p].copy[a].status \notin Settled
<1>1. ASSUME TypeInv, [Next]_vars, NEW a \in Archives,
             archives[a].status \in Settled, archives'[a].status \notin Settled
      PROVE  \E p \in Procs : /\ proc[p].pc \in Saving /\ proc'[p] # proc[p]
                              /\ proc[p].copy[a].status \notin Settled
    <2>1. PICK p \in Procs :
              Start(p) \/ Monitor(p) \/ Deliver(p) \/ Apply(p) \/ Kill(p)
        BY <1>1 DEF Next, Publish, Serve, Bind, ServerFails, vars
    <2>2. /\ Monitor(p) \/ Record(p) \/ Finish(p) \/ Mark(p)
          /\ proc[p].pc \in Saving /\ proc[p].copy[a].status \notin Settled
        BY <1>1, <2>1, SavesCopy
    <2> QED
        BY <1>1, <2>2, SaveLeaves
<1>2. TypeInv /\ [Next]_vars => Stale
    BY <1>1
<1> QED
    BY <1>2, TypeInit, TypeNext, PTL DEF Spec, UnsettledByStaleSaveOnly
=============================================================================
