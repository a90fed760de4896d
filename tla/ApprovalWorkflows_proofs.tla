----------------------- MODULE ApprovalWorkflows_proofs -----------------------
(***************************************************************************)
(* The safety properties of the approvals, for any number of issues,       *)
(* comments, failures and packages, any times and any reminders.           *)
(*                                                                         *)
(* The inductive invariant says of every stored record, and of the record  *)
(* a run holds between computing and writing it, that it is sound, that    *)
(* the one in hand may follow the one stored, and that the reminders       *)
(* posted, and the one about to be, are paid for.                          *)
(***************************************************************************)
EXTENDS ApprovalWorkflows, ApprovalRecord_proofs

\* The reminders of the issue at work, with the one that is about to be posted.
Posted == IF run.reminder THEN notices[run.issue] + 1 ELSE notices[run.issue]

Ordered ==
    /\ run.pc # "idle" => run.issue \in Issues
    /\ run.seen <= Len(comments)
    /\ \A id \in DOMAIN comments : comments[id].at <= clock

Stored ==
    \A i \in Issues : /\ Sound(issue[i], i, comments, clock)
                      /\ Paid(issue[i], comments, notices[i])

InHand ==
    /\ run.pc \in {"persist", "persist_watch"} =>
            /\ Sound(run.next, run.issue, comments, clock)
            /\ Follows(issue[run.issue], run.next)
    /\ run.pc = "persist" => Paid(run.next, comments, notices[run.issue])
    /\ run.pc = "persist_watch" => Paid(run.next, comments, Posted)
    /\ run.pc = "notice" => Paid(issue[run.issue], comments, Posted)

IInv == TypeOK /\ Ordered /\ Stored /\ InHand

-----------------------------------------------------------------------------
(* The watchdog's list. *)

LEMMA MaxExists ==
  ASSUME NEW S, S \subseteq Nat, S # {}, IsFiniteSet(S)
  PROVE  Max(S) \in S /\ \A y \in S : Max(S) >= y
BY GreatestElement, Zenon DEF Max

LEMMA ListedFacts ==
  /\ Listed \subseteq Issues /\ IsFiniteSet(Listed)
  /\ Max(Listed) \in Issues
  /\ \A X \in SUBSET Listed : X # {} => Max(X) \in Issues
<1>1. Issues \subseteq Nat /\ Issues # {} /\ IsFiniteSet(Issues) /\ ListLimit \in Nat \ {0}
  BY RecordAssumption, WorkflowAssumption
<1>2. Listed \subseteq Issues /\ IsFiniteSet(Listed)
  BY <1>1, FS_Subset DEF Listed
<1>3. Max(Issues) \in Listed
  <2>1. /\ Max(Issues) \in Issues
        /\ \A j \in Issues : Max(Issues) >= j
    BY <1>1, MaxExists
  <2>2. {j \in Issues : j > Max(Issues)} = {}
    <3> DEFINE m == Max(Issues)
    <3>1. m \in Nat /\ \A j \in Issues : j \in Nat /\ m >= j
      BY <1>1, <2>1
    <3> HIDE DEF m
    <3>2. \A j \in Issues : ~ (j > m)
      BY <3>1
    <3> QED BY <3>2 DEF m
  <2>3. Cardinality({j \in Issues : j > Max(Issues)}) = 0
    BY <2>2, FS_EmptySet
  <2> QED BY <1>1, <2>1, <2>3 DEF Listed
<1>4. ASSUME NEW X \in SUBSET Listed, X # {} PROVE Max(X) \in Issues
  <2>1. IsFiniteSet(X) /\ X \subseteq Nat /\ X \subseteq Issues
    BY <1>1, <1>2, FS_Subset
  <2>2. Max(X) \in X
    BY <1>4, <2>1, MaxExists
  <2> QED BY <2>1, <2>2
<1> QED BY <1>2, <1>3, <1>4

LEMMA NextIssueFacts == NextIssue = NoRun \/ \E i \in Issues :
            NextIssue = [NoRun EXCEPT !.kind = "watchdog", !.pc = "fetch", !.issue = i]
<1> DEFINE older == {i \in Listed : i < run.issue}
<1>1. older # {} => Max(older) \in Issues
  BY ListedFacts
<1> QED BY <1>1 DEF NextIssue

-----------------------------------------------------------------------------
(* The invariant. *)

LEMMA NoRunIn == NoRun \in Run
BY NewRecordFacts DEF NoRun, Run

LEMMA InitHolds == Init => IInv
<1> SUFFICES ASSUME Init PROVE IInv
  OBVIOUS
<1>0. Created \in Nat /\ Horizon \in Nat /\ Created <= Horizon /\ MaxComments \in Nat
      /\ MaxFailures \in Nat
  BY RecordAssumption, WorkflowAssumption
<1>1. comments \in Seq(Comment) /\ Len(comments) = 0 /\ DOMAIN comments = {}
  BY DEF Init
<1>2. TypeOK
  BY <1>0, <1>1, NewRecordFacts, NoRunIn DEF Init, TypeOK
<1>3. Ordered
  BY <1>1 DEF Init, Ordered, NoRun
<1>4. Stored
  <2> SUFFICES ASSUME NEW i \in Issues
               PROVE Sound(issue[i], i, comments, clock) /\ Paid(issue[i], comments, notices[i])
    BY DEF Stored
  <2>1. i \in Nat /\ issue[i] = NewRecord /\ notices[i] = 0 /\ comments = <<>> /\ clock = Created
    BY RecordAssumption DEF Init
  <2> QED BY <1>0, <2>1, NewRecordFacts
<1>5. InHand
  BY DEF Init, InHand, NoRun
<1> QED BY <1>2, <1>3, <1>4, <1>5 DEF IInv

LEMMA TickKeeps == IInv /\ Tick => IInv'
<1> SUFFICES ASSUME IInv, Tick PROVE IInv'
  OBVIOUS
<1>0. /\ clock \in Nat /\ clock' \in Nat /\ clock <= clock' /\ clock' \in Created..Horizon
      /\ comments \in Seq(Comment)
  BY RecordAssumption, WorkflowAssumption DEF IInv, TypeOK, Tick
<1>1. TypeOK'
  BY <1>0 DEF IInv, TypeOK, Tick
<1>2. Ordered'
  <2>1. \A id \in DOMAIN comments : comments[id].at \in Nat
    <3>1. \A id \in DOMAIN comments : comments[id] \in Comment
      BY <1>0
    <3> QED BY <3>1 DEF Comment
  <2> QED BY <1>0, <2>1 DEF IInv, Ordered, Tick
<1>3. Stored'
  BY <1>0, SoundLater DEF IInv, Stored, Tick
<1>4. InHand'
  BY <1>0, SoundLater DEF IInv, InHand, Tick, Posted
<1> QED BY <1>1, <1>2, <1>3, <1>4 DEF IInv

LEMMA PostKeeps == IInv /\ (\E m \in Menu : Post(m)) => IInv'
<1> SUFFICES ASSUME IInv, NEW m \in Menu, Post(m) PROVE IInv'
  OBVIOUS
<1> DEFINE c == [issue |-> m.issue, at |-> clock, actor |-> m.actor,
                 command |-> m.command, arg |-> m.arg]
<1>0. /\ clock \in Nat /\ comments \in Seq(Comment) /\ Len(comments) \in Nat
      /\ c \in Comment /\ m.issue \in Issues
  BY RecordAssumption, WorkflowAssumption DEF IInv, TypeOK, Comment
<1>1. comments' = Append(comments, c) /\ clock' = clock /\ issue' = issue
      /\ notices' = notices /\ run' = run /\ waiting' = m.issue /\ failures' = failures
  BY DEF Post
<1>2. /\ comments' \in Seq(Comment) /\ Len(comments') = Len(comments) + 1
      /\ \A id \in DOMAIN comments' : comments'[id].at <= clock
  <2>1. c.at = clock
    OBVIOUS
  <2> HIDE DEF c
  <2>2. /\ comments' \in Seq(Comment) /\ Len(comments') = Len(comments) + 1
        /\ DOMAIN comments' = 1..(Len(comments) + 1)
        /\ \A id \in 1..Len(comments) : comments'[id] = comments[id]
        /\ comments'[Len(comments) + 1] = c
    BY <1>0, <1>1
  <2>3. \A id \in 1..Len(comments) : comments[id].at <= clock
    BY <1>0 DEF IInv, Ordered
  <2> QED BY <1>0, <2>1, <2>2, <2>3
<1>3. TypeOK'
  <2>1. Len(comments') <= MaxComments
    BY <1>0, <1>2, WorkflowAssumption DEF Post
  <2> HIDE DEF c
  <2> QED BY <1>0, <1>1, <1>2, <2>1 DEF IInv, TypeOK
<1>4. Ordered'
  <2>1. run.seen \in Nat
    BY DEF IInv, TypeOK, Run
  <2> QED BY <1>0, <1>1, <1>2, <2>1 DEF IInv, Ordered
<1> HIDE DEF c
<1>5. Stored'
  BY <1>0, <1>1, KeptByComment DEF IInv, Stored
<1>6. InHand'
  <2>1. Posted' = Posted
    BY <1>1 DEF Posted
  <2>2. run.pc \in {"persist", "persist_watch"} =>
            /\ Sound(run.next, run.issue, comments', clock)
            /\ \A k : Paid(run.next, comments, k) => Paid(run.next, comments', k)
    BY <1>0, <1>1, KeptByComment DEF IInv, InHand
  <2>3. run.pc = "notice" =>
            \A k : Paid(issue[run.issue], comments, k) => Paid(issue[run.issue], comments', k)
    BY <1>0, <1>1, KeptByComment DEF IInv, Stored, Ordered
  <2> QED BY <1>1, <2>1, <2>2, <2>3 DEF IInv, InHand
<1> QED BY <1>3, <1>4, <1>5, <1>6 DEF IInv

\* A step that leaves the records and the counts alone and ends, starts or moves a run
\* that holds no record and owes no reminder.
LEMMA RunMoves ==
  ASSUME IInv, run' \in Run, run'.pc \in {"idle", "fetch", "reconcile", "watch"},
         run'.pc # "idle" => run'.issue \in Issues,
         run'.seen <= Len(comments),
         UNCHANGED <<clock, comments, issue, notices>>,
         waiting' \in Issues \union {None}, failures' \in 0..MaxFailures
  PROVE  IInv'
<1>1. TypeOK'
  BY DEF IInv, TypeOK
<1>2. Ordered'
  BY DEF IInv, Ordered
<1>3. Stored'
  BY DEF IInv, Stored
<1>4. InHand'
  BY DEF InHand
<1> QED BY <1>1, <1>2, <1>3, <1>4 DEF IInv

LEMMA StartsKeep == IInv /\ (Drop \/ StartCommand \/ StartWatchdog \/ RunFails) => IInv'
<1> SUFFICES ASSUME IInv, Drop \/ StartCommand \/ StartWatchdog \/ RunFails PROVE IInv'
  OBVIOUS
<1>0. /\ run \in Run /\ waiting \in Issues \union {None} /\ failures \in 0..MaxFailures
      /\ MaxFailures \in Nat /\ Len(comments) \in Nat
  BY WorkflowAssumption DEF IInv, TypeOK
<1>1. \A i \in Issues, kind \in {"command", "watchdog"} :
         LET new == [NoRun EXCEPT !.kind = kind, !.pc = "fetch", !.issue = i] IN
         new \in Run /\ new.pc = "fetch" /\ new.issue = i /\ new.seen = 0
  BY NoRunIn DEF Run, NoRun
<1>2. CASE Drop
  <2>1. TypeOK' /\ Ordered' /\ Stored'
    BY <1>2 DEF Drop, IInv, TypeOK, Ordered, Stored
  <2>2. InHand'
    BY <1>2 DEF Drop, IInv, InHand, Posted
  <2> QED BY <2>1, <2>2 DEF IInv
<1>3. CASE StartCommand
  <2>1. waiting \in Issues /\ waiting' = None /\ failures' = failures
    BY <1>0, <1>3 DEF StartCommand
  <2>2. run' \in Run /\ run'.pc = "fetch" /\ run'.issue \in Issues /\ run'.seen = 0
    BY <1>1, <1>3, <2>1 DEF StartCommand
  <2> QED BY <1>0, <1>3, <2>1, <2>2, RunMoves DEF StartCommand
<1>4. CASE StartWatchdog
  <2>1. run' \in Run /\ run'.pc = "fetch" /\ run'.issue \in Issues /\ run'.seen = 0
    BY <1>1, <1>4, ListedFacts DEF StartWatchdog
  <2> QED BY <1>0, <1>4, <2>1, RunMoves DEF StartWatchdog
<1>5. CASE RunFails
  <2>1. failures' \in 0..MaxFailures
    BY <1>0, <1>5 DEF RunFails
  <2>2. run' \in Run /\ run'.pc = "idle" /\ run'.seen = 0
    BY <1>5, NoRunIn DEF RunFails, NoRun
  <2> QED BY <1>0, <1>5, <2>1, <2>2, RunMoves DEF RunFails
<1> QED BY <1>2, <1>3, <1>4, <1>5

\* Where a run goes after a record is stored or found unchanged.
LEMMA GoesOn ==
  ASSUME IInv
  PROVE  /\ NextIssue \in Run /\ NextIssue.pc \in {"idle", "fetch"}
         /\ NextIssue.pc # "idle" => NextIssue.issue \in Issues
         /\ NextIssue.seen = 0
         /\ AfterReconcile \in Run /\ AfterReconcile.pc \in {"idle", "watch"}
         /\ AfterReconcile.pc # "idle" => AfterReconcile.issue = run.issue
         /\ AfterReconcile.seen = 0
<1>1. run \in Run
  BY DEF IInv, TypeOK
<1>2. CASE NextIssue = NoRun
  <2>1. /\ NextIssue \in Run /\ NextIssue.pc \in {"idle", "fetch"}
        /\ NextIssue.pc # "idle" => NextIssue.issue \in Issues
        /\ NextIssue.seen = 0
    BY <1>2, NoRunIn DEF NoRun
  <2> QED BY <1>1, <2>1, NoRunIn, NewRecordFacts DEF AfterReconcile, Run, NoRun
<1>3. ASSUME NEW i \in Issues,
             NextIssue = [NoRun EXCEPT !.kind = "watchdog", !.pc = "fetch", !.issue = i]
      PROVE  /\ NextIssue \in Run /\ NextIssue.pc \in {"idle", "fetch"}
             /\ NextIssue.pc # "idle" => NextIssue.issue \in Issues
             /\ NextIssue.seen = 0
  BY <1>3, NoRunIn DEF Run, NoRun
<1>4. /\ AfterReconcile \in Run /\ AfterReconcile.pc \in {"idle", "watch"}
      /\ AfterReconcile.pc # "idle" => AfterReconcile.issue = run.issue
      /\ AfterReconcile.seen = 0
  BY <1>1, NoRunIn, NewRecordFacts DEF AfterReconcile, Run, NoRun
<1> QED BY <1>2, <1>3, <1>4, NextIssueFacts

LEMMA Facts ==
  ASSUME IInv
  PROVE  /\ clock \in Nat /\ comments \in Seq(Comment) /\ Len(comments) \in Nat
         /\ issue \in [Issues -> Record] /\ notices \in [Issues -> Nat] /\ run \in Run
         /\ run.seen \in 0..Len(comments)
         /\ \A id \in DOMAIN comments : comments[id].at <= clock
         /\ waiting \in Issues \union {None} /\ failures \in 0..MaxFailures
         /\ run.pc # "idle" =>
                /\ run.issue \in Issues
                /\ Sound(issue[run.issue], run.issue, comments, clock)
                /\ Paid(issue[run.issue], comments, notices[run.issue])
<1>1. clock \in Nat /\ comments \in Seq(Comment) /\ Len(comments) \in Nat
  BY RecordAssumption, WorkflowAssumption DEF IInv, TypeOK
<1>2. run \in Run /\ run.seen \in Nat
  BY DEF IInv, TypeOK, Run
<1> QED BY <1>1, <1>2 DEF IInv, TypeOK, Ordered, Stored

LEMMA FetchKeeps == IInv /\ Fetch => IInv'
<1> SUFFICES ASSUME IInv, Fetch PROVE IInv'
  OBVIOUS
<1>1. /\ run' \in Run /\ run'.pc = "reconcile" /\ run'.issue = run.issue
      /\ run'.seen = Len(comments) /\ run.issue \in Issues
  BY Facts DEF Fetch, Run
<1> QED BY <1>1, Facts, RunMoves DEF Fetch

\* A run takes a record in hand, to write it.
LEMMA TakenInHand ==
  ASSUME IInv, NEW next, NEW pc \in {"persist", "persist_watch"}, NEW reminder \in BOOLEAN,
         run.pc \in {"reconcile", "watch"},
         run' = [run EXCEPT !.pc = pc, !.next = next, !.reminder = reminder],
         UNCHANGED <<clock, comments, issue, notices, waiting, failures>>,
         Sound(next, run.issue, comments, clock), Follows(issue[run.issue], next),
         Paid(next, comments, IF pc = "persist_watch" /\ reminder THEN notices[run.issue] + 1
                                                      ELSE notices[run.issue])
  PROVE  IInv'
<1>0. next \in Record /\ run \in Run /\ run.issue \in Issues
  BY Facts DEF Sound
<1>1. /\ run' \in Run /\ run'.pc = pc /\ run'.issue = run.issue /\ run'.seen = run.seen
      /\ run'.next = next /\ run'.reminder = reminder
  BY <1>0 DEF Run
<1>2. TypeOK'
  BY <1>1 DEF IInv, TypeOK
<1>3. Ordered'
  BY <1>0, <1>1 DEF IInv, Ordered
<1>4. Stored'
  BY DEF IInv, Stored
<1>5. InHand'
  BY <1>1 DEF InHand, Posted
<1> QED BY <1>2, <1>3, <1>4, <1>5 DEF IInv

LEMMA ReconcileKeeps == IInv /\ Reconcile => IInv'
<1> SUFFICES ASSUME IInv, Reconcile PROVE IInv'
  OBVIOUS
<1> DEFINE record == Reconciled(issue[run.issue], run.issue, comments, run.seen, clock)
<1>0. run.pc = "reconcile" /\ run.issue \in Issues /\ UNCHANGED <<clock, comments, issue,
                                                      notices, waiting, failures>>
  BY Facts DEF Reconcile
<1>1. \/ record = Crashed
      \/ /\ Sound(record, run.issue, comments, clock)
         /\ Follows(issue[run.issue], record)
         /\ Paid(record, comments, notices[run.issue])
  <2>1. notices[run.issue] \in Nat
    BY <1>0, Facts
  <2> QED BY <1>0, <2>1, Facts, ReconciledKeeps
<1>2. \/ record = Crashed /\ run' = NoRun
      \/ run' = AfterReconcile
      \/ record # Crashed /\ run' = [run EXCEPT !.pc = "persist", !.next = record]
  BY DEF Reconcile
<1> HIDE DEF record
<1>3. CASE run' = NoRun
  <2>1. run' \in Run /\ run'.pc = "idle" /\ run'.seen = 0
    BY <1>3, NoRunIn DEF NoRun
  <2> QED BY <1>0, <2>1, Facts, RunMoves
<1>4. CASE run' = AfterReconcile
  BY <1>0, <1>4, GoesOn, Facts, RunMoves
<1>5. CASE record # Crashed /\ run' = [run EXCEPT !.pc = "persist", !.next = record]
  <2>1. run' = [run EXCEPT !.pc = "persist", !.next = record, !.reminder = run.reminder]
    BY <1>5, Facts DEF Run
  <2>2. run.reminder \in BOOLEAN
    BY Facts DEF Run
  <2> QED BY <1>0, <1>1, <1>5, <2>1, <2>2, TakenInHand
<1> QED BY <1>2, <1>3, <1>4, <1>5

LEMMA WatchKeeps == IInv /\ Watch => IInv'
<1> SUFFICES ASSUME IInv, Watch PROVE IInv'
  OBVIOUS
<1> DEFINE record == issue[run.issue]
           new == Watched(record, clock)
           reminder == Announces(record, clock)
<1>0. /\ run.pc = "watch" /\ run.issue \in Issues
      /\ UNCHANGED <<clock, comments, issue, notices, waiting, failures>>
      /\ clock \in Nat /\ comments \in Seq(Comment) /\ notices[run.issue] \in Nat
      /\ Sound(record, run.issue, comments, clock)
      /\ Paid(record, comments, notices[run.issue])
  BY Facts DEF Watch
<1>1. \/ run' = NextIssue
      \/ run' = [run EXCEPT !.pc = "persist_watch", !.next = new, !.reminder = reminder]
  BY DEF Watch
<1>2. Sound(new, run.issue, comments, clock) /\ Follows(record, new)
  BY <1>0, WatchedSound
<1>3. Paid(new, comments, IF reminder THEN notices[run.issue] + 1 ELSE notices[run.issue])
  BY <1>0, WatchedPaid
<1>4. reminder \in BOOLEAN
  BY DEF Announces, Wakes, Reminds, Expired, ReminderDue
<1> HIDE DEF new, reminder
<1>5. CASE run' = NextIssue
  BY <1>0, <1>5, GoesOn, Facts, RunMoves
<1>6. CASE run' = [run EXCEPT !.pc = "persist_watch", !.next = new, !.reminder = reminder]
  BY <1>0, <1>2, <1>3, <1>4, <1>6, TakenInHand
<1> QED BY <1>1, <1>5, <1>6

\* What an issue holds once the record in hand is written.
LEMMA Written ==
  ASSUME IInv, run.pc \in {"persist", "persist_watch"},
         issue' = [issue EXCEPT ![run.issue] = run.next],
         UNCHANGED <<clock, comments, notices>>
  PROVE  Stored' /\ issue' \in [Issues -> Record]
<1>0. run.issue \in Issues /\ notices[run.issue] \in Nat /\ issue \in [Issues -> Record]
  BY Facts
<1>1. Sound(run.next, run.issue, comments, clock)
  BY DEF IInv, InHand
<1>2. Paid(run.next, comments, notices[run.issue])
  <2>1. CASE run.pc = "persist"
    BY <2>1 DEF IInv, InHand
  <2>2. CASE run.pc = "persist_watch"
    <3>1. Paid(run.next, comments, Posted) /\ Posted \in {notices[run.issue], notices[run.issue] + 1}
      BY <2>2 DEF IInv, InHand, Posted
    <3>2. Cardinality(Spent(run.next)) \in Nat /\ Cardinality(Snoozes(run.next, comments)) \in Nat
      <4>1. Spent(run.next) \subseteq Reminders /\ IsFiniteSet(Reminders)
        BY RecordAssumption DEF Spent
      <4>2. Snoozes(run.next, comments) \subseteq DOMAIN comments
        BY <1>1 DEF Sound, Snoozes
      <4>3. IsFiniteSet(Snoozes(run.next, comments))
        BY <4>2, Facts, SnoozesFinite
      <4> QED BY <4>1, <4>3, Grows
    <3>3. Pending(run.next) \in Nat
      BY DEF Pending
    <3>4. PICK repeats \in Nat : PaidWith(repeats, run.next, comments, Posted)
      BY <3>1 DEF Paid
    <3>5. PaidWith(repeats, run.next, comments, notices[run.issue])
      BY <1>0, <3>1, <3>2, <3>3, <3>4 DEF PaidWith
    <3> QED BY <3>5 DEF Paid
  <2> QED BY <2>1, <2>2
<1>3. issue' \in [Issues -> Record]
  BY <1>0, <1>1 DEF Sound
<1>4. Stored'
  BY <1>0, <1>1, <1>2 DEF IInv, Stored
<1> QED BY <1>3, <1>4

LEMMA PersistKeeps == IInv /\ Persist => IInv'
<1> SUFFICES ASSUME IInv, Persist PROVE IInv'
  OBVIOUS
<1>0. Stored' /\ issue' \in [Issues -> Record]
  BY Written DEF Persist
<1>1. /\ run' = AfterReconcile /\ run.issue \in Issues
      /\ UNCHANGED <<clock, comments, notices, waiting, failures>>
  BY Facts DEF Persist
<1>2. TypeOK'
  BY <1>0, <1>1, GoesOn DEF IInv, TypeOK
<1>3. Ordered'
  BY <1>1, GoesOn, Facts DEF IInv, Ordered
<1>4. InHand'
  BY <1>1, GoesOn DEF InHand
<1> QED BY <1>0, <1>2, <1>3, <1>4 DEF IInv

LEMMA PersistWatchKeeps == IInv /\ PersistWatch => IInv'
<1> SUFFICES ASSUME IInv, PersistWatch PROVE IInv'
  OBVIOUS
<1>0. Stored' /\ issue' \in [Issues -> Record]
  BY Written DEF PersistWatch
<1>1. /\ run.pc = "persist_watch" /\ issue' = [issue EXCEPT ![run.issue] = run.next]
      /\ run' = [run EXCEPT !.pc = "notice", !.next = NewRecord]
      /\ run.issue \in Issues /\ run \in Run /\ issue \in [Issues -> Record]
      /\ UNCHANGED <<clock, comments, notices, waiting, failures>>
  BY Facts DEF PersistWatch
<1>2. /\ run' \in Run /\ run'.pc = "notice" /\ run'.issue = run.issue /\ run'.seen = run.seen
      /\ run'.reminder = run.reminder /\ issue'[run.issue] = run.next
  BY <1>1, NewRecordFacts DEF Run
<1>3. TypeOK'
  BY <1>0, <1>1, <1>2 DEF IInv, TypeOK
<1>4. Ordered'
  BY <1>1, <1>2 DEF IInv, Ordered
<1>5. InHand'
  <2>1. Paid(run.next, comments, Posted) /\ Posted' = Posted
    BY <1>1, <1>2 DEF IInv, InHand, Posted
  <2> QED BY <1>1, <1>2, <2>1 DEF InHand
<1> QED BY <1>0, <1>3, <1>4, <1>5 DEF IInv

LEMMA NoticeKeeps == IInv /\ Notice => IInv'
<1> SUFFICES ASSUME IInv, Notice PROVE IInv'
  OBVIOUS
<1>1. /\ run.pc = "notice" /\ run' = NextIssue /\ run.issue \in Issues
      /\ notices \in [Issues -> Nat]
      /\ UNCHANGED <<clock, comments, issue, waiting, failures>>
  BY Facts DEF Notice
<1>2. /\ notices' \in [Issues -> Nat]
      /\ notices'[run.issue] = Posted
      /\ \A i \in Issues \ {run.issue} : notices'[i] = notices[i]
  BY <1>1 DEF Notice, Posted
<1>3. TypeOK'
  BY <1>1, <1>2, GoesOn DEF IInv, TypeOK
<1>4. Ordered'
  BY <1>1, GoesOn, Facts DEF IInv, Ordered
<1>5. Stored'
  <2>1. Paid(issue[run.issue], comments, Posted)
    BY <1>1 DEF IInv, InHand
  <2> QED BY <1>1, <1>2, <2>1 DEF IInv, Stored
<1>6. InHand'
  BY <1>1, GoesOn DEF InHand
<1> QED BY <1>3, <1>4, <1>5, <1>6 DEF IInv

LEMMA StutterKeeps == IInv /\ UNCHANGED vars => IInv'
<1> SUFFICES ASSUME IInv, UNCHANGED vars PROVE IInv'
  OBVIOUS
<1> QED BY DEF vars, IInv, TypeOK, Ordered, Stored, InHand, Posted

LEMMA Invariant == Spec => []IInv
<1>1. IInv /\ [Next]_vars => IInv'
  BY TickKeeps, PostKeeps, StartsKeep, FetchKeeps, ReconcileKeeps, PersistKeeps, WatchKeeps,
     PersistWatchKeeps, NoticeKeeps, StutterKeeps DEF Next, Step
<1> QED BY InitHolds, <1>1, PTL DEF Spec

-----------------------------------------------------------------------------
(* Theorems. *)

\* Every variable keeps its type: no reconciliation that crashed is ever stored.
THEOREM TypeCorrect == Spec => []TypeOK
<1>1. IInv => TypeOK
  BY DEF IInv
<1> QED BY <1>1, Invariant, PTL

\* An approval that stands or waits for its time is due to an entitled, timely comment
\* on its own issue and covers what that comment granted: apply_command, with
\* reconcile_comments over any history and a watchdog and commands that fail anywhere.
THEOREM GrantAlwaysBacked == Spec => []GrantIsBacked
<1>1. IInv => GrantIsBacked
  <2> SUFFICES ASSUME IInv, NEW i \in Issues, issue[i].state \in {"APPROVED", "SCHEDULED"}
               PROVE  /\ issue[i].by \in DOMAIN comments
                      /\ comments[issue[i].by].issue = i
                      /\ comments[issue[i].by].actor \in Approvers \intersect Associated
                      /\ comments[issue[i].by].at < Expires
                      /\ issue[i].approved = Grant(comments[issue[i].by].command)
                      /\ issue[i].approved # {}
    BY DEF GrantIsBacked
  <2>1. Backed(issue[i], i, comments)
    BY DEF IInv, Stored, Sound
  <2> QED BY <2>1 DEF Backed
<1> QED BY <1>1, Invariant, PTL

\* No factor that is not zero makes a number smaller.
LEMMA FactorIsNoLess ==
  ASSUME NEW a \in Nat \ {0}, NEW b \in Nat
  PROVE  a * b \in Nat /\ b <= a * b
<1>1. a * b = (a - 1) * b + b
  OBVIOUS
<1>2. a - 1 \in Nat
  OBVIOUS
<1>3. (a - 1) * b \in Nat
  BY <1>2
<1> QED BY <1>1, <1>3

\* The reminders an issue gets are bounded by its reminder intervals, the repetitions
\* that fit in since the last of them and the snoozes that were answered, for every
\* policy: evaluate_watchdog, with runs that fail between writing and announcing.
THEOREM RemindersAlwaysFew == Spec => []RemindersAreFew
<1>1. IInv => RemindersAreFew
  <2> SUFFICES ASSUME IInv, NEW i \in Issues
               PROVE  \E repeats \in 0..clock :
                        /\ RepeatsFit(repeats, clock)
                        /\ notices[i] <= Cardinality(Reminders) + repeats
                                         + Cardinality(Snoozes(issue[i], comments))
    BY DEF RemindersAreFew, Snoozes
  <2>1. Sound(issue[i], i, comments, clock) /\ Paid(issue[i], comments, notices[i])
    BY DEF IInv, Stored
  <2>2. PICK repeats \in Nat : PaidWith(repeats, issue[i], comments, notices[i])
    BY <2>1 DEF Paid
  <2>3. /\ clock \in Nat /\ Pending(issue[i]) \in Nat /\ notices[i] \in Nat
        /\ issue[i].reminded \in Nat /\ issue[i].reminded <= clock
    BY <2>1, Facts DEF Pending, Sound, Record
  <2>4. /\ Cardinality(Spent(issue[i])) <= Cardinality(Reminders)
        /\ Cardinality(Spent(issue[i])) \in Nat /\ Cardinality(Reminders) \in Nat
    <3>1. Spent(issue[i]) \subseteq Reminders /\ IsFiniteSet(Reminders)
      BY RecordAssumption DEF Spent
    <3> QED BY <3>1, Grows
  <2>5. Cardinality(Snoozes(issue[i], comments)) \in Nat
    <3>1. Snoozes(issue[i], comments) \subseteq DOMAIN comments
      BY <2>1 DEF Sound, Snoozes
    <3>2. IsFiniteSet(Snoozes(issue[i], comments))
      BY <3>1, Facts, SnoozesFinite
    <3> QED BY <3>2, FS_CardinalityType
  <2>6. notices[i] <= Cardinality(Reminders) + repeats + Cardinality(Snoozes(issue[i], comments))
    BY <2>2, <2>3, <2>4, <2>5 DEF PaidWith
  <2>7. RepeatsFit(repeats, clock) /\ repeats \in 0..clock
    <3>1. CASE repeats = 0
      BY <2>3, <3>1 DEF RepeatsFit
    <3>2. CASE repeats # 0
      <4>1. /\ RepeatEvery # 0 /\ Reminders # {}
            /\ \A interval \in Reminders :
                  Created + interval + RepeatEvery * repeats <= issue[i].reminded
        BY <2>2, <3>2 DEF PaidWith, RepeatsFit
      <4>2. /\ RepeatEvery \in Nat \ {0} /\ Created \in Nat
            /\ Reminders \subseteq Nat
        BY <4>1, RecordAssumption
      <4>3. RepeatEvery * repeats \in Nat /\ repeats <= RepeatEvery * repeats
        BY <2>2, <4>2, FactorIsNoLess
      <4>4. ASSUME NEW interval \in Reminders
            PROVE  /\ Created + interval + RepeatEvery * repeats <= clock
                   /\ RepeatEvery * repeats <= clock
        BY <2>3, <4>1, <4>2, <4>3, <4>4
      <4>5. repeats <= clock
        BY <2>2, <2>3, <4>1, <4>3, <4>4
      <4> QED BY <2>2, <2>3, <4>1, <4>4, <4>5 DEF RepeatsFit
    <3> QED BY <3>1, <3>2
  <2> QED BY <2>6, <2>7
<1> QED BY <1>1, Invariant, PTL

\* What a step writes into an issue may follow what was there.
LEMMA StepFollows ==
  ASSUME IInv, [Next]_vars, NEW i \in Issues
  PROVE  issue'[i] = issue[i] \/ Follows(issue[i], issue'[i])
<1>1. CASE Persist \/ PersistWatch
  <2>1. /\ run.pc \in {"persist", "persist_watch"}
        /\ issue' = [issue EXCEPT ![run.issue] = run.next]
    BY <1>1 DEF Persist, PersistWatch
  <2>2. Follows(issue[run.issue], run.next)
    BY <2>1 DEF IInv, InHand
  <2> QED BY <2>1, <2>2, Facts
<1>2. CASE issue' = issue
  BY <1>2
<1> QED BY <1>1, <1>2 DEF Next, Step, vars, Tick, Post, Drop, StartCommand, StartWatchdog,
                         Fetch, Reconcile, Watch, Notice, RunFails

\* A rejected, cancelled or expired approval stays closed and grants nothing, whatever
\* is replayed or repeated: the terminal states of apply_command and evaluate_watchdog.
THEOREM ClosedAlwaysStaysClosed == Spec => ClosedStaysClosed
<1>1. IInv /\ [Next]_vars =>
        [\A i \in Issues : issue[i].state \in Final =>
                issue'[i].state \in Final /\ issue'[i].approved = {}]_vars
  <2> SUFFICES ASSUME IInv, [Next]_vars, NEW i \in Issues, issue[i].state \in Final
               PROVE  issue'[i].state \in Final /\ issue'[i].approved = {}
    OBVIOUS
  <2>1. issue[i].approved = {}
    BY DEF IInv, Stored, Sound
  <2>2. CASE issue'[i] = issue[i]
    BY <2>1, <2>2
  <2>3. CASE Follows(issue[i], issue'[i])
    BY <2>3 DEF Follows
  <2> QED BY <2>2, <2>3, StepFollows
<1> QED BY <1>1, Invariant, PTL DEF Spec, ClosedStaysClosed

\* A comment never acts on an issue that has processed it already: processed_command_ids
\* under replays of the whole history by any number of runs.
THEOREM ActsAlwaysOnce == Spec => ActsOnce
<1>1. IInv /\ [Next]_vars =>
        [\A i \in Issues : issue'[i].by # issue[i].by =>
                issue'[i].by \notin issue[i].processed]_vars
  <2> SUFFICES ASSUME IInv, [Next]_vars, NEW i \in Issues, issue'[i].by # issue[i].by
               PROVE  issue'[i].by \notin issue[i].processed
    OBVIOUS
  <2>1. Follows(issue[i], issue'[i])
    BY StepFollows
  <2> QED BY <2>1 DEF Follows
<1> QED BY <1>1, Invariant, PTL DEF Spec, ActsOnce
=============================================================================
