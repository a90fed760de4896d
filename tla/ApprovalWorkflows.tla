--------------------------- MODULE ApprovalWorkflows ---------------------------
(***************************************************************************)
(* The approvals of updates: the signed records in the bodies of GitHub    *)
(* issues, the comments people leave on them, and the two workflows that   *)
(* act on them, approval-command.yml and approval-watchdog.yml.  A         *)
(* concurrency group lets one run act at a time and may drop a run that    *)
(* waits; a run fetches, computes and writes back in steps and may fail at *)
(* each.  approval-command.yml works on the issue of its comment, the      *)
(* watchdog on one open issue after another, newest first.                 *)
(***************************************************************************)
EXTENDS ApprovalRecord, FiniteSetsExt

CONSTANTS
    Menu,         \* what people write: issue, author, command, argument
    ListLimit,    \* gh issue list --limit
    Horizon,      \* bound: the last time
    MaxComments,  \* bound
    MaxFailures   \* bound: runs that fail

ASSUME WorkflowAssumption ==
    /\ Menu \subseteq [issue : Issues, actor : Approvers \union Associated,
                       command : Commands, arg : Nat]
    /\ ListLimit \in Nat \ {0}
    /\ Horizon \in Nat /\ Horizon >= Created
    /\ MaxComments \in Nat /\ MaxFailures \in Nat

VARIABLES
    clock,
    comments,   \* the comments that start with "/fg ", oldest first
    issue,      \* the record in each issue's body
    notices,    \* how many reminders each issue has got as comments
    run,        \* the workflow run under way
    waiting,    \* the issue whose run of approval-command.yml waits for its turn
    failures

vars == <<clock, comments, issue, notices, run, waiting, failures>>

\* issue: the one it works on; seen: how many comments there were when they were
\* fetched; next: the record to write; reminder: reminder_due of the watchdog.
Run == [kind : {"none", "command", "watchdog"},
        pc : {"idle", "fetch", "reconcile", "persist", "watch", "persist_watch", "notice"},
        issue : Issues \union {None}, seen : Nat, next : Record, reminder : BOOLEAN]
NoRun == [kind |-> "none", pc |-> "idle", issue |-> None, seen |-> 0, next |-> NewRecord,
          reminder |-> FALSE]

Init ==
    /\ clock = Created
    /\ comments = <<>>
    /\ issue = [i \in Issues |-> NewRecord]
    /\ notices = [i \in Issues |-> 0]
    /\ run = NoRun
    /\ waiting = None
    /\ failures = 0

Tick ==
    /\ clock < Horizon
    /\ clock' = clock + 1
    /\ UNCHANGED <<comments, issue, notices, run, waiting, failures>>

\* A comment triggers a run, in place of one that waits already.
Post(m) ==
    /\ Len(comments) < MaxComments
    /\ comments' = Append(comments, [issue |-> m.issue, at |-> clock, actor |-> m.actor,
                                     command |-> m.command, arg |-> m.arg])
    /\ waiting' = m.issue
    /\ UNCHANGED <<clock, issue, notices, run, failures>>

\* A waiting run is replaced by one of the watchdog, or never starts.
Drop ==
    /\ waiting # None
    /\ waiting' = None
    /\ UNCHANGED <<clock, comments, issue, notices, run, failures>>

StartCommand ==
    /\ run = NoRun
    /\ waiting # None
    /\ waiting' = None
    /\ run' = [NoRun EXCEPT !.kind = "command", !.pc = "fetch", !.issue = waiting]
    /\ UNCHANGED <<clock, comments, issue, notices, failures>>

\* The open issues on the watchdog's list, of which the older ones may be missing.
Listed == {i \in Issues : Cardinality({j \in Issues : j > i}) < ListLimit}

\* The hourly schedule; the issues are listed with their bodies.
StartWatchdog ==
    /\ run = NoRun
    /\ run' = [NoRun EXCEPT !.kind = "watchdog", !.pc = "fetch", !.issue = Max(Listed)]
    /\ UNCHANGED <<clock, comments, issue, notices, waiting, failures>>

\* The body and the complete comment history; only runs write bodies, so they
\* stay what was fetched as long as this run is under way.
Fetch ==
    /\ run.pc = "fetch"
    /\ run' = [run EXCEPT !.pc = "reconcile", !.seen = Len(comments)]
    /\ UNCHANGED <<clock, comments, issue, notices, waiting, failures>>

NextIssueOnce == NoRun
\* The next issue of the watchdog's list, if there is one.
NextIssue ==
    LET older == {i \in Listed : i < run.issue} IN
    IF older = {} THEN NoRun
    ELSE [NoRun EXCEPT !.kind = "watchdog", !.pc = "fetch", !.issue = Max(older)]

\* Where a run goes once the reconciled record is in the issue.
AfterReconcile ==
    IF run.kind = "watchdog" THEN [run EXCEPT !.pc = "watch", !.seen = 0, !.next = NewRecord]
                             ELSE NoRun

\* fgops approval-reconcile, verified against the signature before.  An exception
\* ends the run, the watchdog's with all the issues still on its list.
Reconcile ==
    LET record == Reconciled(issue[run.issue], run.issue, comments, run.seen, clock) IN
    /\ run.pc = "reconcile"
    /\ run' = CASE record = Crashed -> NoRun
                [] record = issue[run.issue] -> AfterReconcile
                [] OTHER -> [run EXCEPT !.pc = "persist", !.next = record]
    /\ UNCHANGED <<clock, comments, issue, notices, waiting, failures>>

\* gh issue edit.
Persist ==
    /\ run.pc = "persist"
    /\ issue' = [issue EXCEPT ![run.issue] = run.next]
    /\ run' = AfterReconcile
    /\ UNCHANGED <<clock, comments, notices, waiting, failures>>

\* fgops approval-watchdog.
Watch ==
    LET record == issue[run.issue] IN
    /\ run.pc = "watch"
    /\ run' = IF Watched(record, clock) = record THEN NextIssue
              ELSE [run EXCEPT !.pc = "persist_watch", !.next = Watched(record, clock),
                               !.reminder = Announces(record, clock)]
    /\ UNCHANGED <<clock, comments, issue, notices, waiting, failures>>

\* gh issue edit.
PersistWatch ==
    /\ run.pc = "persist_watch"
    /\ issue' = [issue EXCEPT ![run.issue] = run.next]
    /\ run' = [run EXCEPT !.pc = "notice", !.next = NewRecord]
    /\ UNCHANGED <<clock, comments, notices, waiting, failures>>

\* gh issue comment.
Notice ==
    /\ run.pc = "notice"
    /\ notices' = IF run.reminder THEN [notices EXCEPT ![run.issue] = @ + 1] ELSE notices
    /\ run' = NextIssue
    /\ UNCHANGED <<clock, comments, issue, waiting, failures>>

\* A step fails: the runner or GitHub.  set -e ends the watchdog's loop with it.
RunFails ==
    /\ run # NoRun
    /\ failures < MaxFailures
    /\ failures' = failures + 1
    /\ run' = NoRun
    /\ UNCHANGED <<clock, comments, issue, notices, waiting>>

Step == Fetch \/ Reconcile \/ Persist \/ Watch \/ PersistWatch \/ Notice

Next ==
    \/ Tick
    \/ \E m \in Menu : Post(m)
    \/ Drop \/ StartCommand \/ StartWatchdog
    \/ Step
    \/ RunFails

Spec == Init /\ [][Next]_vars

\* Time passes, the watchdog is scheduled again and again, and a run goes on
\* unless it fails.
Fairness ==
    /\ WF_vars(Tick)
    /\ SF_vars(StartWatchdog)
    /\ WF_vars(Step)

FairSpec == Spec /\ Fairness
-----------------------------------------------------------------------------
(* Properties. *)

TypeOK ==
    /\ clock \in Created..Horizon
    /\ comments \in Seq(Comment) /\ Len(comments) <= MaxComments
    /\ issue \in [Issues -> Record]
    /\ notices \in [Issues -> Nat]
    /\ run \in Run
    /\ waiting \in Issues \union {None}
    /\ failures \in 0..MaxFailures

\* An approval that stands, or waits for its time, is due to a comment on its own
\* issue that an approver with an allowed association wrote before the expiry, and
\* it covers what that comment granted and nothing else (docs/approval-model.md:
\* authorization; apply_command).
GrantIsBacked ==
    \A i \in Issues : issue[i].state \in {"APPROVED", "SCHEDULED"} =>
        /\ issue[i].by \in DOMAIN comments
        /\ LET c == comments[issue[i].by] IN
           /\ c.issue = i
           /\ c.actor \in Approvers \intersect Associated
           /\ c.at < Expires
           /\ issue[i].approved = Grant(c.command)
           /\ issue[i].approved # {}

\* A rejection, cancellation or expiry is never taken back, by a command, by the
\* watchdog, or by a run that replays the history.
ClosedStaysClosed ==
    [][\A i \in Issues : issue[i].state \in Final =>
            issue'[i].state \in Final /\ issue'[i].approved = {}]_vars

\* A comment acts at most once, however often runs are repeated, dropped or fail
\* between computing and writing (processed_command_ids).
ActsOnce ==
    [][\A i \in Issues : issue'[i].by # issue[i].by =>
            issue'[i].by \notin issue[i].processed]_vars

\* An issue gets at most one reminder for each reminder interval, one for each
\* repeat_every that has passed since the last of them, and one for each snooze, whose
\* end is announced without a trace in last_reminded_at; runs may fail, come late and
\* come as often as they like (docs/approval-model.md: no duplicate notifications).
RemindersAreFew ==
    \A i \in Issues : \E repeats \in 0..clock :
        /\ RepeatsFit(repeats, clock)
        /\ notices[i] <= Cardinality(Reminders) + repeats
                         + Cardinality({id \in issue[i].processed :
                                           comments[id].command = "snooze"})

\* Again and again no command is left unprocessed, if only to be refused: the
\* comments are a durable queue, whatever happens to the runs they trigger and to
\* those that work on another issue.
CommandsAreProcessed ==
    []<>(\A id \in DOMAIN comments : id \in issue[comments[id].issue].processed)

\* No approval stays open for ever.
ApprovalIsDecided == <>[](\A i \in Issues : issue[i].state \in Final \union {"APPROVED"})
=============================================================================
