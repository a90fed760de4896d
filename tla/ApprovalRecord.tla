---------------------------- MODULE ApprovalRecord ----------------------------
(***************************************************************************)
(* The signed approval record of approval_state.py as a value, and the     *)
(* functions on it: the commands of issue comments (apply_command and the  *)
(* reconciliation of the whole comment history) and the watchdog.          *)
(*                                                                         *)
(* Times are natural numbers; the record is created at time Created and    *)
(* None is no time.  A comment is its issue, its time, its author and its  *)
(* command; its place among all comments is its id.                        *)
(***************************************************************************)
EXTENDS Naturals, Sequences, FiniteSets

CONSTANTS
    Issues,        \* numbers of the issues that hold an approval
    Approvers,     \* logins in the signed approver list
    Associated,    \* logins with an allowed author association
    Allowed,       \* allowed_packages
    SafePackages,  \* safe_packages
    Created, Expires,
    Reminders,     \* approval.reminders: intervals after creation
    RepeatEvery    \* approval.repeat_every, or 0

None == 0

ASSUME RecordAssumption ==
    /\ Issues \subseteq Nat \ {None} /\ Issues # {} /\ IsFiniteSet(Issues)
    /\ SafePackages \subseteq Allowed
    /\ Allowed # {}
    /\ Created \in Nat \ {None}
    /\ Expires \in Nat /\ Created < Expires
    /\ Reminders \subseteq Nat \ {0} /\ IsFiniteSet(Reminders)
    /\ RepeatEvery \in Nat

ApprovalStates == {"AWAITING_APPROVAL", "SNOOZED", "SCHEDULED", "APPROVED",
                   "REJECTED", "EXPIRED", "CANCELLED"}
Final == {"REJECTED", "EXPIRED", "CANCELLED"}

Commands == {"approve", "apply-safe", "reject", "cancel", "snooze", "schedule", "status",
             "malformed", "overflow"}
Comment == [issue : Issues, at : Nat, actor : Approvers \union Associated,
            command : Commands, arg : Nat]

Record == [state : ApprovalStates,
           updated : Nat,              \* updated_at
           execute : Nat,              \* execute_at
           snooze : Nat,               \* snoozed_until
           approved : SUBSET Allowed,  \* approved_packages
           processed : SUBSET Nat,     \* processed_command_ids
           reminded : Nat,             \* last_reminded_at
           reminders : Nat,            \* reminder_count
           by : Nat]                   \* the comment the state is due to (reason, actor)

NewRecord == [state |-> "AWAITING_APPROVAL", updated |-> Created, execute |-> None,
              snooze |-> None, approved |-> {}, processed |-> {}, reminded |-> None,
              reminders |-> 0, by |-> None]

\* A duration beyond what a timedelta holds ends the program with an exception
\* that reconcile_comments does not catch.
Crashed == [NewRecord EXCEPT !.state = "CRASHED"]
-----------------------------------------------------------------------------
(* Commands. *)

AcceptedInAnyState(record, c, now) ==
    /\ c.actor \in Approvers
    /\ c.at >= record.updated
    /\ \/ now >= Expires
       \/ /\ c.command # "status"
          /\ c.command = "apply-safe" => SafePackages # {}
          /\ c.command = "snooze" => c.at + c.arg < Expires
          /\ c.command = "schedule" => now < c.arg /\ c.arg < Expires
AcceptedFromAnyone(record, c, now) ==
    /\ c.at >= record.updated
    /\ \/ now >= Expires
       \/ /\ record.state \notin Final
          /\ record.state = "APPROVED" => c.command = "cancel"
          /\ c.command # "status"
          /\ c.command = "apply-safe" => SafePackages # {}
          /\ c.command = "snooze" => c.at + c.arg < Expires
          /\ c.command = "schedule" => now < c.arg /\ c.arg < Expires
\* apply_command gets past its checks: an approver, a command that is not stale,
\* and either an expired record, which any command then closes, or one open to
\* the command.
Accepted(record, c, now) ==
    /\ c.actor \in Approvers
    /\ c.at >= record.updated
    /\ \/ now >= Expires
       \/ /\ record.state \notin Final
          /\ record.state = "APPROVED" => c.command = "cancel"
          /\ c.command # "status"
          /\ c.command = "apply-safe" => SafePackages # {}
          /\ c.command = "snooze" => c.at + c.arg < Expires
          /\ c.command = "schedule" => now < c.arg /\ c.arg < Expires

\* The packages a command approves.
Grant(command) ==
    CASE command \in {"approve", "schedule"} -> Allowed
      [] command = "apply-safe" -> SafePackages
      [] OTHER -> {}

StateOfVerb(command) == IF command = "schedule" THEN "SCHEDULE" ELSE "APPROVED"
NextState(command) ==
    CASE command \in {"approve", "apply-safe"} -> "APPROVED"
      [] command = "reject" -> "REJECTED"
      [] command = "cancel" -> "CANCELLED"
      [] command = "snooze" -> "SNOOZED"
      [] command = "schedule" -> "SCHEDULED"

\* _next_record: schedule and snooze times not given are cleared.
Effect(record, id, c, now) ==
    [record EXCEPT
        !.state = IF now >= Expires THEN "EXPIRED" ELSE NextState(c.command),
        !.approved = IF now >= Expires THEN {} ELSE Grant(c.command),
        !.execute = IF now < Expires /\ c.command = "schedule" THEN c.arg ELSE None,
        !.snooze = IF now < Expires /\ c.command = "snooze" THEN c.at + c.arg ELSE None,
        !.updated = c.at,
        !.processed = @ \union {id},
        !.by = id]

\* _mark_processed: a refused command, or one without effect, is only noted.
Marked(record, id, c) ==
    [record EXCEPT !.updated = IF c.at > @ THEN c.at ELSE @,
                   !.processed = @ \union {id}]

HandledAgain(record, id, c, now) ==
    IF record = Crashed \/ (c.actor \in Associated /\ c.command = "overflow")
    THEN Crashed
    ELSE IF c.actor \in Associated /\ c.command # "malformed" /\ Accepted(record, c, now)
    THEN Effect(record, id, c, now)
    ELSE Marked(record, id, c)
\* One round of the loop of reconcile_comments.
Handled(record, id, c, now) ==
    IF record = Crashed \/ id \in record.processed
    THEN record
    ELSE IF c.actor \in Associated /\ c.command = "overflow"
    THEN Crashed
    ELSE IF c.actor \in Associated /\ c.command # "malformed" /\ Accepted(record, c, now)
    THEN Effect(record, id, c, now)
    ELSE Marked(record, id, c)

\* The comments of an issue are fetched, those of the others are not.
Round(record, i, id, c, now) == IF c.issue = i THEN Handled(record, id, c, now) ELSE record

\* reconcile_comments, over the first `seen' comments in the order of their times
\* and ids.
Reconciled(record, i, comments, seen, now) ==
    LET after[n \in 0..seen] ==
            IF n = 0 THEN record ELSE Round(after[n - 1], i, n, comments[n], now)
    IN after[seen]
-----------------------------------------------------------------------------
(* The watchdog. *)

ReminderDueSinceCreation(record, now) ==
    \/ \E interval \in Reminders :
          /\ now >= Created + interval
          /\ record.reminded = None \/ record.reminded < Created + interval
    \/ /\ RepeatEvery # 0
       /\ Reminders # {}
       /\ \A interval \in Reminders : now >= Created + interval
       /\ record.reminded # None
       /\ now - Created >= RepeatEvery
\* An interval that has passed since the last reminder, or the repetition of the
\* last one after repeat_every.
ReminderDue(record, now) ==
    \/ \E interval \in Reminders :
          /\ now >= Created + interval
          /\ record.reminded = None \/ record.reminded < Created + interval
    \/ /\ RepeatEvery # 0
       /\ Reminders # {}
       /\ \A interval \in Reminders : now >= Created + interval
       /\ record.reminded # None
       /\ now - record.reminded >= RepeatEvery

\* So many repetitions of the last reminder fit in before a time.
RepeatsFit(repeats, time) ==
    repeats # 0 =>
        /\ RepeatEvery # 0 /\ Reminders # {}
        /\ \A interval \in Reminders : Created + interval + RepeatEvery * repeats <= time

Expired(record, now) == now >= Expires /\ record.state \notin Final \union {"APPROVED"}

Remind(record, now) ==
    [record EXCEPT !.updated = now, !.reminded = now, !.reminders = @ + 1]

\* The end of a snooze.
Wakes(record, now) ==
    record.state = "SNOOZED" /\ ~Expired(record, now) /\ now >= record.snooze
Reminds(record, now) ==
    record.state = "AWAITING_APPROVAL" /\ ~Expired(record, now) /\ ReminderDue(record, now)

\* reminder_due of the result: the end of a snooze is announced, too, and leaves
\* no trace in last_reminded_at.
Announces(record, now) == Wakes(record, now) \/ Reminds(record, now)

WatchedPendingOnly(record, now) ==
    CASE now >= Expires /\ record.state = "AWAITING_APPROVAL" ->
            [record EXCEPT !.state = "EXPIRED", !.approved = {}, !.updated = now]
      [] Wakes(record, now) ->
            [record EXCEPT !.state = "AWAITING_APPROVAL", !.snooze = None, !.updated = now]
      [] record.state = "SCHEDULED" /\ now >= record.execute /\ now < Expires ->
            [record EXCEPT !.state = "APPROVED", !.updated = now]
      [] Reminds(record, now) -> Remind(record, now)
      [] OTHER -> record
\* evaluate_watchdog.
Watched(record, now) ==
    CASE Expired(record, now) ->
            [record EXCEPT !.state = "EXPIRED", !.approved = {}, !.updated = now]
      [] Wakes(record, now) ->
            [record EXCEPT !.state = "AWAITING_APPROVAL", !.snooze = None, !.updated = now]
      [] ~Expired(record, now) /\ record.state = "SCHEDULED" /\ now >= record.execute ->
            [record EXCEPT !.state = "APPROVED", !.updated = now]
      [] Reminds(record, now) -> Remind(record, now)
      [] OTHER -> record
=============================================================================
