------------------------- MODULE ApprovalRecord_proofs -------------------------
(***************************************************************************)
(* Facts about the functions on an approval record, for every history of   *)
(* comments.  The reconciliation is a fold over the history, so a fact     *)
(* about it is proved by induction: a set of records that every round of   *)
(* the loop maps to itself holds the result.                               *)
(***************************************************************************)
EXTENDS ApprovalRecord, NaturalSets

-----------------------------------------------------------------------------
(* Reconciliation. *)

\* Induction over the history: what every round keeps, the reconciliation keeps.
LEMMA ReconciledIn ==
  ASSUME NEW S, NEW record \in S, NEW i, NEW comments, NEW seen \in Nat, NEW now,
         \A r \in S, n \in 1..seen : Round(r, i, n, comments[n], now) \in S
  PROVE  Reconciled(record, i, comments, seen, now) \in S
<1> DEFINE G == [n \in Nat |-> [r \in S |->
                    IF n \in 1..seen THEN Round(r, i, n, comments[n], now) ELSE r]]
           Is(f) == f = [n \in 0..seen |-> IF n = 0 THEN record
                                           ELSE Round(f[n - 1], i, n, comments[n], now)]
<1>1. G \in [Nat -> [S -> S]]
  OBVIOUS
<1>2. PICK f \in [0..seen -> S] : f[0] = record /\ \A n \in 1..seen : f[n] = G[n][f[n - 1]]
  <2> HIDE DEF G
  <2> QED BY <1>1, IterationExists, Z3
<1>3. Is(f)
  <2>1. \A n \in 1..seen : f[n] = Round(f[n - 1], i, n, comments[n], now)
    <3> TAKE n \in 1..seen
    <3>1. n \in Nat /\ n - 1 \in 0..seen /\ f[n - 1] \in S
      OBVIOUS
    <3>2. G[n][f[n - 1]] = Round(f[n - 1], i, n, comments[n], now)
      BY <3>1
    <3> HIDE DEF G
    <3> QED BY <3>2, <1>2, Zenon
  <2>2. ASSUME NEW n \in 0..seen
        PROVE f[n] = IF n = 0 THEN record ELSE Round(f[n - 1], i, n, comments[n], now)
    BY <2>1, <1>2
  <2> QED BY <2>2
<1>4. \E h : Is(h) /\ Reconciled(record, i, comments, seen, now) = h[seen]
  BY <1>3, Zenon DEF Reconciled
<1>5. PICK h : Is(h) /\ Reconciled(record, i, comments, seen, now) = h[seen]
  BY <1>4, Zenon
<1> DEFINE T == {n \in 0..seen : h[n] \notin S}
<1>6. T = {}
  <2>1. SUFFICES ASSUME T # {} PROVE FALSE
    OBVIOUS
  <2>2. PICK m \in T : \A y \in T : m <= y
    <3>1. T \subseteq Nat
      OBVIOUS
    <3> QED BY <3>1, <2>1, LeastElement
  <2>3. m \in 0..seen /\ h[m] \notin S
    OBVIOUS
  <2>4. h[m] = IF m = 0 THEN record ELSE Round(h[m - 1], i, m, comments[m], now)
    BY <1>5, <2>3
  <2>5. m \in 1..seen
    BY <2>3, <2>4
  <2>6. m - 1 \in 0..seen /\ m - 1 \notin T
    BY <2>2, <2>5
  <2>7. h[m - 1] \in S
    BY <2>6
  <2> QED BY <2>3, <2>4, <2>5, <2>7
<1>7. seen \in 0..seen
  OBVIOUS
<1> QED BY <1>5, <1>6, <1>7, Zenon

-----------------------------------------------------------------------------
(* What a record says about itself, about the comments it is due to and about *)
(* an earlier version of itself.                                              *)

\* A standing or scheduled approval is due to an entitled comment on issue i.
Backed(record, i, comments) ==
    record.state \in {"APPROVED", "SCHEDULED"} =>
        /\ record.by \in DOMAIN comments
        /\ comments[record.by].issue = i
        /\ comments[record.by].actor \in Approvers \intersect Associated
        /\ comments[record.by].at < Expires
        /\ record.approved = Grant(comments[record.by].command)
        /\ record.approved # {}

Sound(record, i, comments, now) ==
    /\ record \in Record
    /\ record.state \in Final => record.approved = {}
    /\ record.processed \subseteq DOMAIN comments
    /\ record.reminded <= now
    /\ Backed(record, i, comments)

\* new may replace old: it is closed if old is, and what it is due to is new.
Follows(old, new) ==
    /\ old.state \in Final => new.state \in Final /\ new.approved = {}
    /\ old.processed \subseteq new.processed
    /\ new.by # old.by => new.by \notin old.processed

\* The reminder intervals that are spent, and the snoozes that were answered.
Spent(record) == {interval \in Reminders :
                    record.reminded # None /\ record.reminded >= Created + interval}
Snoozes(record, comments) == {id \in record.processed : comments[id].command = "snooze"}
\* The snooze whose end is still to be announced.
Pending(record) == IF record.state = "SNOOZED" THEN 1 ELSE 0

\* So many reminders, and the pending one, are paid for, with so many repetitions up
\* to the last reminder on record.
PaidWith(repeats, record, comments, reminders) ==
    /\ RepeatsFit(repeats, record.reminded)
    /\ reminders + Pending(record) <= Cardinality(Spent(record)) + repeats
                                      + Cardinality(Snoozes(record, comments))
Paid(record, comments, reminders) ==
    \E repeats \in Nat : PaidWith(repeats, record, comments, reminders)

-----------------------------------------------------------------------------
(* One round. *)

LEMMA CrashedIsNoRecord == Crashed \notin Record
BY DEF Crashed, NewRecord, Record, ApprovalStates

\* What a round can do to a record.
LEMMA HandledCases ==
  ASSUME NEW record \in Record, NEW id, NEW c, NEW now
  PROVE  LET new == Handled(record, id, c, now) IN
         \/ new = record
         \/ new = Crashed
         \/ id \notin record.processed /\ new = Marked(record, id, c)
         \/ /\ id \notin record.processed
            /\ c.actor \in Associated
            /\ c.command \notin {"malformed", "overflow"}
            /\ Accepted(record, c, now)
            /\ new = Effect(record, id, c, now)
BY CrashedIsNoRecord DEF Handled

LEMMA MarkedFacts ==
  ASSUME NEW record \in Record, NEW id \in Nat, NEW c \in Comment
  PROVE  LET new == Marked(record, id, c) IN
         /\ new \in Record
         /\ new.state = record.state /\ new.approved = record.approved
         /\ new.by = record.by /\ new.reminded = record.reminded
         /\ new.processed = record.processed \union {id}
BY DEF Marked, Record, Comment

LEMMA EffectFacts ==
  ASSUME NEW record \in Record, NEW id \in Nat, NEW c \in Comment, NEW now \in Nat,
         c.command \notin {"malformed", "overflow"}, Accepted(record, c, now)
  PROVE  LET new == Effect(record, id, c, now) IN
         /\ new \in Record
         /\ new.by = id /\ new.reminded = record.reminded
         /\ new.processed = record.processed \union {id}
         /\ now >= Expires => new.state = "EXPIRED" /\ new.approved = {}
         /\ now < Expires => /\ new.state = NextState(c.command)
                             /\ new.approved = Grant(c.command)
                             /\ record.state \notin Final
                             /\ c.command # "status"
<1> DEFINE new == Effect(record, id, c, now)
<1>0. Expires \in Nat /\ Allowed # {} /\ SafePackages \subseteq Allowed
  BY RecordAssumption
<1>1. c.at \in Nat /\ c.arg \in Nat /\ c.command \in Commands
  BY DEF Comment
<1>2. now < Expires => c.command # "status" /\ record.state \notin Final
  BY <1>0 DEF Accepted
<1>3. now < Expires => NextState(c.command) \in ApprovalStates
  BY <1>1, <1>2 DEF Commands, NextState, ApprovalStates
<1>4. Grant(c.command) \subseteq Allowed
  BY <1>0 DEF Grant
<1>5. new \in Record
  <2> DEFINE state == IF now >= Expires THEN "EXPIRED" ELSE NextState(c.command)
             approved == IF now >= Expires THEN {} ELSE Grant(c.command)
             execute == IF now < Expires /\ c.command = "schedule" THEN c.arg ELSE None
             snooze == IF now < Expires /\ c.command = "snooze" THEN c.at + c.arg ELSE None
             processed == record.processed \union {id}
  <2>1. state \in ApprovalStates
    BY <1>0, <1>3 DEF ApprovalStates
  <2>2. approved \in SUBSET Allowed
    BY <1>4
  <2>3. execute \in Nat /\ snooze \in Nat
    BY <1>1 DEF None
  <2>4. processed \in SUBSET Nat
    BY DEF Record
  <2>5. new = [record EXCEPT !.state = state, !.approved = approved, !.execute = execute,
                             !.snooze = snooze, !.updated = c.at, !.processed = processed,
                             !.by = id]
    BY DEF Effect
  <2> HIDE DEF new, state, approved, execute, snooze, processed
  <2> QED BY <1>1, <2>1, <2>2, <2>3, <2>4, <2>5 DEF Record
<1> QED BY <1>0, <1>2, <1>5 DEF Effect, Record

LEMMA RoundSound ==
  ASSUME NEW comments \in Seq(Comment), NEW n \in DOMAIN comments, NEW now \in Nat, NEW i,
         comments[n].at <= now,
         NEW record, Sound(record, i, comments, now)
  PROVE  LET new == Round(record, i, n, comments[n], now) IN
         new = Crashed \/ Sound(new, i, comments, now)
<1> DEFINE c == comments[n]
           new == Round(record, i, n, c, now)
<1> SUFFICES new = Crashed \/ Sound(new, i, comments, now)
  OBVIOUS
<1>0. /\ record \in Record /\ n \in Nat /\ c \in Comment
      /\ Expires \in Nat /\ Allowed # {}
  BY RecordAssumption DEF Sound
<1>1. CASE c.issue # i
  BY <1>1 DEF Round
<1>2. CASE c.issue = i /\ new = Marked(record, n, c)
  <2>1. LET marked == Marked(record, n, c) IN
        /\ marked \in Record
        /\ marked.state = record.state /\ marked.approved = record.approved
        /\ marked.by = record.by /\ marked.reminded = record.reminded
        /\ marked.processed = record.processed \union {n}
    BY <1>0, MarkedFacts
  <2> HIDE DEF new
  <2> QED BY <1>0, <1>2, <2>1 DEF Sound, Backed
<1>3. ASSUME c.issue = i, c.actor \in Associated, c.command \notin {"malformed", "overflow"},
             Accepted(record, c, now), new = Effect(record, n, c, now)
      PROVE  Sound(new, i, comments, now)
  <2>1. /\ new \in Record
        /\ new.by = n /\ new.reminded = record.reminded
        /\ new.processed = record.processed \union {n}
        /\ now >= Expires => new.state = "EXPIRED" /\ new.approved = {}
        /\ now < Expires => /\ new.state = NextState(c.command)
                            /\ new.approved = Grant(c.command)
                            /\ c.command # "status"
    BY <1>0, <1>3, EffectFacts
  <2> HIDE DEF new
  <2>2. CASE now >= Expires
    BY <1>0, <2>1, <2>2 DEF Sound, Backed
  <2>3. CASE now < Expires
    <3>0. c.command \in Commands /\ c.at \in Nat
      BY <1>0 DEF Comment
    <3>1. new.state \in Final => new.approved = {}
      BY <1>3, <2>1, <2>3, <3>0 DEF Commands, NextState, Grant, Final
    <3>2. new.state \in {"APPROVED", "SCHEDULED"} => Grant(c.command) # {}
      BY <1>0, <1>3, <2>1, <2>3, <3>0 DEF Commands, NextState, Grant, Accepted
    <3>3. c.actor \in Approvers \intersect Associated /\ c.at < Expires
      BY <1>0, <1>3, <2>3, <3>0 DEF Accepted
    <3> QED BY <1>3, <2>1, <2>3, <3>1, <3>2, <3>3 DEF Sound, Backed
  <2> QED BY <1>0, <2>2, <2>3
<1>4. CASE c.issue = i
  <2>1. new = Handled(record, n, c, now)
    BY <1>4 DEF Round
  <2>2. \/ new = record
        \/ new = Crashed
        \/ new = Marked(record, n, c)
        \/ /\ c.actor \in Associated
           /\ c.command \notin {"malformed", "overflow"}
           /\ Accepted(record, c, now)
           /\ new = Effect(record, n, c, now)
    BY <1>0, <2>1, HandledCases
  <2> QED BY <1>2, <1>3, <1>4, <2>2
<1> QED BY <1>1, <1>4

LEMMA RoundFollows ==
  ASSUME NEW comments \in Seq(Comment), NEW n \in DOMAIN comments, NEW now \in Nat, NEW i,
         NEW record \in Record, NEW old, Follows(old, record)
  PROVE  LET new == Round(record, i, n, comments[n], now) IN
         new = Crashed \/ Follows(old, new)
<1> DEFINE c == comments[n]
           new == Round(record, i, n, c, now)
<1> SUFFICES new = Crashed \/ Follows(old, new)
  OBVIOUS
<1>0. n \in Nat /\ c \in Comment /\ Expires \in Nat
  BY RecordAssumption
<1>1. CASE c.issue # i
  BY <1>1 DEF Round
<1>2. CASE new = Marked(record, n, c)
  <2>1. LET marked == Marked(record, n, c) IN
        /\ marked \in Record
        /\ marked.state = record.state /\ marked.approved = record.approved
        /\ marked.by = record.by /\ marked.reminded = record.reminded
        /\ marked.processed = record.processed \union {n}
    BY <1>0, MarkedFacts
  <2> HIDE DEF new
  <2> QED BY <1>2, <2>1 DEF Follows
<1>3. ASSUME n \notin record.processed, c.command \notin {"malformed", "overflow"},
             Accepted(record, c, now), new = Effect(record, n, c, now)
      PROVE  Follows(old, new)
  <2>1. /\ new.by = n
        /\ new.processed = record.processed \union {n}
        /\ now >= Expires => new.state = "EXPIRED" /\ new.approved = {}
        /\ now < Expires => record.state \notin Final
    BY <1>0, <1>3, EffectFacts
  <2> QED BY <1>0, <1>3, <2>1 DEF Follows, Final
<1>4. CASE c.issue = i
  <2>1. new = Handled(record, n, c, now)
    BY <1>4 DEF Round
  <2>2. \/ new = record
        \/ new = Crashed
        \/ new = Marked(record, n, c)
        \/ /\ n \notin record.processed
           /\ c.command \notin {"malformed", "overflow"}
           /\ Accepted(record, c, now)
           /\ new = Effect(record, n, c, now)
    BY <2>1, HandledCases
  <2> QED BY <1>2, <1>3, <2>2
<1> QED BY <1>1, <1>4

\* A finite set that grows by one element, or not at all, has no fewer elements.
LEMMA Grows ==
  ASSUME NEW S, NEW T, IsFiniteSet(T), S \subseteq T
  PROVE  /\ IsFiniteSet(S)
         /\ Cardinality(S) \in Nat /\ Cardinality(T) \in Nat
         /\ Cardinality(S) <= Cardinality(T)
         /\ S # T => Cardinality(S) + 1 <= Cardinality(T)
<1>1. /\ IsFiniteSet(S) /\ Cardinality(S) \in Nat /\ Cardinality(T) \in Nat
      /\ Cardinality(S) <= Cardinality(T)
      /\ Cardinality(S) = Cardinality(T) => S = T
  BY FS_Subset, FS_CardinalityType
<1> QED BY <1>1

LEMMA SnoozesFinite ==
  ASSUME NEW comments \in Seq(Comment), NEW S, S \subseteq DOMAIN comments
  PROVE  IsFiniteSet(S)
<1>1. Len(comments) \in Nat /\ DOMAIN comments = 1..Len(comments)
  OBVIOUS
<1>2. IsFiniteSet(1..Len(comments))
  BY <1>1, FS_Interval
<1> QED BY <1>1, <1>2, FS_Subset

LEMMA RoundPaid ==
  ASSUME NEW comments \in Seq(Comment), NEW n \in DOMAIN comments, NEW now \in Nat, NEW i,
         NEW record \in Record, record.processed \subseteq DOMAIN comments,
         NEW k \in Nat, Paid(record, comments, k)
  PROVE  LET new == Round(record, i, n, comments[n], now) IN
         new = Crashed \/ Paid(new, comments, k)
<1> DEFINE c == comments[n]
           new == Round(record, i, n, c, now)
<1> SUFFICES new = Crashed \/ Paid(new, comments, k)
  OBVIOUS
<1>0. n \in Nat /\ c \in Comment /\ Expires \in Nat
  BY RecordAssumption
<1>1. CASE c.issue # i
  BY <1>1 DEF Round
<1>2. ASSUME new.reminded = record.reminded, new.processed = record.processed \union {n},
             \/ Pending(new) = Pending(record)
             \/ Pending(new) = 0
             \/ c.command = "snooze" /\ n \notin record.processed
      PROVE  Paid(new, comments, k)
  <2> DEFINE S == Snoozes(record, comments)
             T == Snoozes(new, comments)
  <2>1. Spent(new) = Spent(record)
    BY <1>2 DEF Spent
  <2>2. S \subseteq T
    BY <1>2 DEF Snoozes
  <2>3. c.command = "snooze" /\ n \notin record.processed => S # T
    BY <1>2 DEF Snoozes
  <2>4. IsFiniteSet(T)
    <3>1. T \subseteq DOMAIN comments
      BY <1>2 DEF Snoozes
    <3> QED BY <3>1, SnoozesFinite
  <2>5. /\ Cardinality(S) \in Nat /\ Cardinality(T) \in Nat
        /\ Cardinality(S) <= Cardinality(T)
        /\ S # T => Cardinality(S) + 1 <= Cardinality(T)
    BY <2>2, <2>4, Grows
  <2>6. Cardinality(Spent(record)) \in Nat
    <3>1. Spent(record) \subseteq Reminders /\ IsFiniteSet(Reminders)
      BY RecordAssumption DEF Spent
    <3> QED BY <3>1, Grows
  <2>7. Pending(record) \in 0..1 /\ Pending(new) \in 0..1
    BY DEF Pending
  <2> HIDE DEF S, T, new
  <2>8. PICK repeats \in Nat :
          /\ RepeatsFit(repeats, record.reminded)
          /\ k + Pending(record) <= Cardinality(Spent(record)) + repeats + Cardinality(S)
    BY DEF Paid, PaidWith, S
  <2>9. k + Pending(new) <= Cardinality(Spent(record)) + repeats + Cardinality(T)
    BY <1>2, <2>3, <2>5, <2>6, <2>7, <2>8
  <2>10. PaidWith(repeats, new, comments, k)
    BY <1>2, <2>1, <2>8, <2>9 DEF PaidWith, T
  <2> QED BY <2>10 DEF Paid
<1>3. CASE new = Marked(record, n, c)
  <2>1. LET marked == Marked(record, n, c) IN
        /\ marked \in Record
        /\ marked.state = record.state /\ marked.approved = record.approved
        /\ marked.by = record.by /\ marked.reminded = record.reminded
        /\ marked.processed = record.processed \union {n}
    BY <1>0, MarkedFacts
  <2> HIDE DEF new
  <2> QED BY <1>2, <1>3, <2>1 DEF Pending
<1>4. ASSUME n \notin record.processed, c.command \notin {"malformed", "overflow"},
             Accepted(record, c, now), new = Effect(record, n, c, now)
      PROVE  Paid(new, comments, k)
  <2>1. /\ new.reminded = record.reminded /\ new.processed = record.processed \union {n}
        /\ now >= Expires => new.state = "EXPIRED"
        /\ now < Expires => new.state = NextState(c.command) /\ c.command # "status"
    BY <1>0, <1>4, EffectFacts
  <2>2. c.command \in Commands
    BY <1>0 DEF Comment
  <2>3. new.state = "SNOOZED" => c.command = "snooze"
    BY <1>0, <1>4, <2>1, <2>2 DEF Commands, NextState
  <2> QED BY <1>2, <1>4, <2>1, <2>3 DEF Pending
<1>5. CASE c.issue = i
  <2>1. new = Handled(record, n, c, now)
    BY <1>5 DEF Round
  <2> QED BY <1>0, <1>3, <1>4, <2>1, HandledCases
<1> QED BY <1>1, <1>5

-----------------------------------------------------------------------------
(* The whole history, and the watchdog. *)

\* A reconciliation that does not crash yields a sound record that may follow the
\* one it started from, with the same reminders paid for.
LEMMA ReconciledKeeps ==
  ASSUME NEW comments \in Seq(Comment), NEW now \in Nat, NEW i,
         \A n \in DOMAIN comments : comments[n].at <= now,
         NEW seen \in 0..Len(comments), NEW k \in Nat,
         NEW record, Sound(record, i, comments, now), Paid(record, comments, k)
  PROVE  LET new == Reconciled(record, i, comments, seen, now) IN
         \/ new = Crashed
         \/ /\ Sound(new, i, comments, now)
            /\ Follows(record, new)
            /\ Paid(new, comments, k)
<1> DEFINE S == {r \in Record \union {Crashed} :
                    \/ r = Crashed
                    \/ /\ Sound(r, i, comments, now)
                       /\ Follows(record, r)
                       /\ Paid(r, comments, k)}
<1>1. record \in S
  BY DEF Sound, Follows
<1>2. ASSUME NEW r \in S, NEW n \in 1..seen
      PROVE  Round(r, i, n, comments[n], now) \in S
  <2> DEFINE new == Round(r, i, n, comments[n], now)
  <2>1. n \in DOMAIN comments /\ comments[n].at <= now
    OBVIOUS
  <2>2. CASE r = Crashed
    BY <2>2 DEF Round, Handled
  <2>3. CASE r # Crashed
    <3>1. Sound(r, i, comments, now) /\ Follows(record, r) /\ Paid(r, comments, k)
      BY <2>3
    <3>2. r \in Record /\ r.processed \subseteq DOMAIN comments
      BY <3>1 DEF Sound
    <3>3. new = Crashed \/ Sound(new, i, comments, now)
      BY <2>1, <3>1, RoundSound
    <3>4. new = Crashed \/ Follows(record, new)
      BY <2>1, <3>1, <3>2, RoundFollows
    <3>5. new = Crashed \/ Paid(new, comments, k)
      BY <2>1, <3>1, <3>2, RoundPaid
    <3> HIDE DEF new
    <3>6. new \in S
      BY <3>3, <3>4, <3>5 DEF Sound
    <3> QED BY <3>6 DEF new
  <2> QED BY <2>2, <2>3
<1>3. seen \in Nat
  OBVIOUS
<1> HIDE DEF S
<1>4. Reconciled(record, i, comments, seen, now) \in S
  BY <1>1, <1>2, <1>3, ReconciledIn
<1> QED BY <1>4 DEF S

\* What the watchdog can do to a record.
LEMMA WatchedCases ==
  ASSUME NEW record, NEW now
  PROVE  LET new == Watched(record, now) IN
         \/ /\ Expired(record, now)
            /\ new = [record EXCEPT !.state = "EXPIRED", !.approved = {}, !.updated = now]
         \/ /\ Wakes(record, now)
            /\ new = [record EXCEPT !.state = "AWAITING_APPROVAL", !.snooze = None,
                                    !.updated = now]
         \/ /\ record.state = "SCHEDULED" /\ ~Wakes(record, now) /\ ~Reminds(record, now)
            /\ new = [record EXCEPT !.state = "APPROVED", !.updated = now]
         \/ /\ Reminds(record, now)
            /\ new = Remind(record, now)
         \/ /\ ~Announces(record, now)
            /\ new = record
BY DEF Watched, Announces, Wakes, Reminds

LEMMA WatchedSound ==
  ASSUME NEW comments, NEW now \in Nat, NEW i, NEW record, Sound(record, i, comments, now)
  PROVE  LET new == Watched(record, now) IN
         Sound(new, i, comments, now) /\ Follows(record, new)
<1> DEFINE new == Watched(record, now)
<1> SUFFICES Sound(new, i, comments, now) /\ Follows(record, new)
  OBVIOUS
<1>0. record \in Record
  BY DEF Sound
<1>1. CASE /\ Expired(record, now)
           /\ new = [record EXCEPT !.state = "EXPIRED", !.approved = {}, !.updated = now]
  <2> HIDE DEF new
  <2>1. new \in Record
    BY <1>0, <1>1 DEF Record, ApprovalStates
  <2> QED BY <1>0, <1>1, <2>1 DEF Sound, Follows, Backed, Record, Expired, Final
<1>2. CASE /\ Wakes(record, now)
           /\ new = [record EXCEPT !.state = "AWAITING_APPROVAL", !.snooze = None,
                                   !.updated = now]
  <2> HIDE DEF new
  <2>1. new \in Record
    BY <1>0, <1>2 DEF Record, ApprovalStates, None
  <2> QED BY <1>0, <1>2, <2>1 DEF Sound, Follows, Backed, Record, Wakes, Final
<1>3. CASE /\ record.state = "SCHEDULED"
           /\ new = [record EXCEPT !.state = "APPROVED", !.updated = now]
  <2> HIDE DEF new
  <2>1. new \in Record
    BY <1>0, <1>3 DEF Record, ApprovalStates
  <2> QED BY <1>0, <1>3, <2>1 DEF Sound, Follows, Backed, Record, Final
<1>4. CASE Reminds(record, now) /\ new = Remind(record, now)
  <2> HIDE DEF new
  <2>1. new \in Record
    <3>1. record.reminders + 1 \in Nat
      BY <1>0 DEF Record
    <3> QED BY <1>0, <1>4, <3>1 DEF Record, Remind
  <2> QED BY <1>0, <1>4, <2>1 DEF Sound, Follows, Backed, Record, Remind
<1>5. CASE new = record
  <2> HIDE DEF new
  <2> QED BY <1>5 DEF Follows, Sound
<1> QED BY <1>1, <1>2, <1>3, <1>4, <1>5, WatchedCases

\* The reminder the watchdog announces is paid for: by a snooze whose end it is, or
\* by an interval that is spent with it.
LEMMA WatchedPaid ==
  ASSUME NEW comments \in Seq(Comment), NEW now \in Nat, NEW k \in Nat, NEW i,
         NEW record, Sound(record, i, comments, now), Paid(record, comments, k)
  PROVE  Paid(Watched(record, now), comments, IF Announces(record, now) THEN k + 1 ELSE k)
<1> DEFINE new == Watched(record, now)
           kk == IF Announces(record, now) THEN k + 1 ELSE k
<1> SUFFICES \E repeats \in Nat : PaidWith(repeats, new, comments, kk)
  BY DEF Paid
<1>0. record \in Record /\ record.processed \subseteq DOMAIN comments /\ record.reminded <= now
  BY DEF Sound
<1>1. PICK repeats \in Nat :
        /\ RepeatsFit(repeats, record.reminded)
        /\ k + Pending(record) <= Cardinality(Spent(record)) + repeats
                                  + Cardinality(Snoozes(record, comments))
  BY DEF Paid, PaidWith
<1>2. Cardinality(Snoozes(record, comments)) \in Nat
  <2>1. IsFiniteSet(Snoozes(record, comments))
    <3>1. Snoozes(record, comments) \subseteq DOMAIN comments
      BY <1>0 DEF Snoozes
    <3> HIDE DEF new, kk
    <3> QED BY <3>1, SnoozesFinite, Zenon
  <2> QED BY <2>1, FS_CardinalityType
<1>3. Cardinality(Spent(record)) \in Nat
  <2>1. Spent(record) \subseteq Reminders /\ IsFiniteSet(Reminders)
    BY RecordAssumption DEF Spent
  <2> QED BY <2>1, Grows
<1>4. ASSUME new.processed = record.processed, new.reminded = record.reminded,
             kk + Pending(new) <= k + Pending(record)
      PROVE  PaidWith(repeats, new, comments, kk)
  <2>1. Spent(new) = Spent(record) /\ Snoozes(new, comments) = Snoozes(record, comments)
    BY <1>4 DEF Spent, Snoozes
  <2>2. kk \in Nat /\ Pending(new) \in Nat /\ Pending(record) \in Nat
    BY DEF Pending
  <2> HIDE DEF kk, new
  <2>3. kk + Pending(new) <= Cardinality(Spent(new)) + repeats
                             + Cardinality(Snoozes(new, comments))
    BY <1>1, <1>2, <1>3, <1>4, <2>1, <2>2
  <2> QED BY <1>1, <1>4, <2>3 DEF PaidWith
<1>5. ASSUME Reminds(record, now), new = Remind(record, now)
      PROVE  \E r \in Nat : PaidWith(r, new, comments, kk)
  <2>1. /\ record.state = "AWAITING_APPROVAL"
        /\ ReminderDue(record, now)
    BY <1>5 DEF Reminds
  <2>2. /\ Created \in Nat /\ Reminders \subseteq Nat \ {0} /\ IsFiniteSet(Reminders)
        /\ RepeatEvery \in Nat
    BY RecordAssumption
  <2>3. /\ new.reminded = now /\ new.processed = record.processed /\ new.state = record.state
        /\ record.reminded \in Nat
    BY <1>0, <1>5 DEF Remind, Record
  <2> HIDE DEF new
  <2>4. RepeatsFit(repeats, now)
    <3>1. ASSUME NEW x \in Reminders, Created + x + RepeatEvery * repeats <= record.reminded
          PROVE  Created + x + RepeatEvery * repeats <= now
      <4>1. RepeatEvery * repeats \in Nat
        BY <2>2, <1>1
      <4> QED BY <1>0, <2>2, <2>3, <3>1, <4>1
    <3> QED BY <1>1, <3>1 DEF RepeatsFit
  <2>5. /\ Cardinality(Spent(new)) \in Nat
        /\ \/ Cardinality(Spent(record)) + 1 <= Cardinality(Spent(new))
           \/ Spent(new) = Spent(record)
    <3>1. IsFiniteSet(Spent(new))
      <4>1. Spent(new) \subseteq Reminders
        BY DEF Spent
      <4> QED BY <4>1, <2>2, Grows
    <3>2. Spent(record) \subseteq Spent(new)
      <4>1. ASSUME NEW x \in Reminders, record.reminded # None, record.reminded >= Created + x
            PROVE  now # None /\ now >= Created + x
        BY <1>0, <2>2, <2>3, <4>1 DEF None
      <4> QED BY <2>3, <4>1 DEF Spent
    <3> QED BY <3>1, <3>2, Grows
  <2>6. Snoozes(new, comments) = Snoozes(record, comments)
    BY <2>3 DEF Snoozes
  <2>7. Pending(new) = 0 /\ Pending(record) = 0 /\ kk \in Nat /\ kk <= k + 1
    BY <2>1, <2>3 DEF Pending
  <2> HIDE DEF kk
  <2>8. CASE \E interval \in Reminders :
                /\ now >= Created + interval
                /\ record.reminded = None \/ record.reminded < Created + interval
    <3>1. PICK interval \in Reminders :
            /\ now >= Created + interval
            /\ record.reminded = None \/ record.reminded < Created + interval
      BY <2>8
    <3>2. interval \in Spent(new) /\ interval \notin Spent(record)
      BY <2>2, <2>3, <3>1 DEF Spent, None
    <3>3. Cardinality(Spent(record)) + 1 <= Cardinality(Spent(new))
      BY <2>5, <3>2
    <3>4. kk + Pending(new) <= Cardinality(Spent(new)) + repeats
                               + Cardinality(Snoozes(new, comments))
      BY <1>1, <1>2, <1>3, <2>5, <2>6, <2>7, <3>3
    <3>5. PaidWith(repeats, new, comments, kk)
      BY <2>3, <2>4, <3>4 DEF PaidWith
    <3> QED BY <3>5
  <2>9. CASE ~ \E interval \in Reminders :
                /\ now >= Created + interval
                /\ record.reminded = None \/ record.reminded < Created + interval
    <3>1. /\ RepeatEvery # 0 /\ Reminders # {}
          /\ \A interval \in Reminders : now >= Created + interval
          /\ record.reminded # None
          /\ now - record.reminded >= RepeatEvery
      BY <2>1, <2>9 DEF ReminderDue
    <3>2. ASSUME NEW x \in Reminders
          PROVE  Created + x + RepeatEvery * (repeats + 1) <= now
      <4>1. Created + x <= record.reminded
        BY <2>2, <2>3, <2>9, <3>1
      <4>2. CASE repeats = 0
        BY <1>0, <2>2, <2>3, <3>1, <4>1, <4>2
      <4>3. CASE repeats # 0
        <5>1. Created + x + RepeatEvery * repeats <= record.reminded
          BY <1>1, <4>3 DEF RepeatsFit
        <5>2. /\ RepeatEvery * repeats \in Nat
              /\ RepeatEvery * (repeats + 1) = RepeatEvery * repeats + RepeatEvery
          BY <1>1, <2>2
        <5> QED BY <1>0, <2>2, <2>3, <3>1, <5>1, <5>2
      <4> QED BY <4>2, <4>3
    <3>3. RepeatsFit(repeats + 1, now)
      BY <3>1, <3>2 DEF RepeatsFit
    <3>4. kk + Pending(new) <= Cardinality(Spent(new)) + (repeats + 1)
                               + Cardinality(Snoozes(new, comments))
      BY <1>1, <1>2, <1>3, <2>5, <2>6, <2>7
    <3>5. PaidWith(repeats + 1, new, comments, kk)
      BY <2>3, <3>3, <3>4 DEF PaidWith
    <3> QED BY <1>1, <3>5
  <2> QED BY <2>8, <2>9
<1>6. CASE /\ Expired(record, now)
           /\ new = [record EXCEPT !.state = "EXPIRED", !.approved = {}, !.updated = now]
  <2>1. ~Announces(record, now)
    BY <1>6 DEF Announces, Wakes, Reminds
  <2> HIDE DEF new
  <2> QED BY <1>0, <1>4, <1>6, <2>1 DEF Pending, Record
<1>7. CASE /\ Wakes(record, now)
           /\ new = [record EXCEPT !.state = "AWAITING_APPROVAL", !.snooze = None,
                                   !.updated = now]
  <2>1. record.state = "SNOOZED"
    BY <1>7 DEF Wakes
  <2> HIDE DEF new
  <2> QED BY <1>0, <1>4, <1>7, <2>1 DEF Pending, Record
<1>8. CASE /\ record.state = "SCHEDULED" /\ ~Wakes(record, now) /\ ~Reminds(record, now)
           /\ new = [record EXCEPT !.state = "APPROVED", !.updated = now]
  <2>1. ~Announces(record, now)
    BY <1>8 DEF Announces
  <2> HIDE DEF new
  <2> QED BY <1>0, <1>4, <1>8, <2>1 DEF Pending, Record
<1>9. CASE ~Announces(record, now) /\ new = record
  <2> HIDE DEF new
  <2> QED BY <1>4, <1>9 DEF Pending
<1> QED BY <1>5, <1>6, <1>7, <1>8, <1>9, WatchedCases

-----------------------------------------------------------------------------
(* A new record, and what time and new comments leave true. *)

LEMMA NewRecordFacts ==
  /\ NewRecord \in Record
  /\ \A i, now \in Nat : Sound(NewRecord, i, <<>>, now)
  /\ Paid(NewRecord, <<>>, 0)
<1>1. NewRecord \in Record
  BY RecordAssumption DEF NewRecord, Record, ApprovalStates, None
<1>2. \A i, now \in Nat : Sound(NewRecord, i, <<>>, now)
  BY <1>1 DEF Sound, Backed, NewRecord, Final, None
<1>3. Spent(NewRecord) = {} /\ Snoozes(NewRecord, <<>>) = {} /\ Pending(NewRecord) = 0
  BY DEF Spent, Snoozes, Pending, NewRecord, None
<1>4. PaidWith(0, NewRecord, <<>>, 0)
  BY <1>3, FS_EmptySet DEF PaidWith, RepeatsFit
<1> QED BY <1>1, <1>2, <1>4 DEF Paid

LEMMA SoundLater ==
  ASSUME NEW record, NEW i, NEW comments, NEW now \in Nat, NEW later \in Nat, now <= later,
         Sound(record, i, comments, now)
  PROVE  Sound(record, i, comments, later)
<1>1. record.reminded \in Nat
  BY DEF Sound, Record
<1> QED BY <1>1 DEF Sound

LEMMA KeptByComment ==
  ASSUME NEW comments \in Seq(Comment), NEW c \in Comment, NEW i, NEW now, NEW record,
         Sound(record, i, comments, now)
  PROVE  /\ Sound(record, i, Append(comments, c), now)
         /\ \A k : Paid(record, comments, k) => Paid(record, Append(comments, c), k)
<1> DEFINE more == Append(comments, c)
<1>1. /\ DOMAIN comments \subseteq DOMAIN more
      /\ \A id \in DOMAIN comments : more[id] = comments[id]
  OBVIOUS
<1> HIDE DEF more
<1>2. Sound(record, i, more, now)
  BY <1>1 DEF Sound, Backed
<1>3. Snoozes(record, more) = Snoozes(record, comments)
  BY <1>1 DEF Snoozes, Sound
<1>4. \A k : Paid(record, comments, k) => Paid(record, more, k)
  BY <1>3 DEF Paid, PaidWith
<1> QED BY <1>2, <1>4 DEF more
=============================================================================
