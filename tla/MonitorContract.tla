----------------------------- MODULE MonitorContract -----------------------------
(***************************************************************************)
(* run_agent_once as the rest of the agent sees it: a run loads the state  *)
(* file when it starts and replaces it once, when it ends, with what it    *)
(* loaded and at most one entry more.  These are the Monitor steps         *)
(* AgentLifecycle gives a process; Acquisition implements them.            *)
(***************************************************************************)
CONSTANT Procs

VARIABLES
    usable,     \* the offered archive can be prepared at all
    file,       \* its entry, and whether another one with its payload is applied
    running,    \* the processes in a run
    copy        \* copy[p]: the state file as the run of p loaded it

vars == <<usable, file, running, copy>>

Nothing == [status |-> "ABSENT", other |-> FALSE]

Init ==
    /\ usable \in BOOLEAN
    /\ file = Nothing
    /\ running = {}
    /\ copy = [p \in Procs |-> Nothing]

Start(p) ==
    /\ p \notin running
    /\ running' = running \cup {p}
    /\ copy' = [copy EXCEPT ![p] = file]
    /\ UNCHANGED <<usable, file>>

Stop(p) ==
    /\ p \in running
    /\ running' = running \ {p}
    /\ copy' = [copy EXCEPT ![p] = Nothing]
    /\ UNCHANGED usable

\* Nothing new, or a failure: the copy is saved all the same.
Keep(p) == Stop(p) /\ file' = copy[p]

Add(p, status) ==
    /\ Stop(p)
    /\ usable /\ copy[p].status = "ABSENT"
    /\ file' = [copy[p] EXCEPT !.status = status]

Prepare(p) == ~copy[p].other /\ Add(p, "PREPARED")
Duplicate(p) == copy[p].other /\ Add(p, "CONTENT_DUPLICATE")

\* A killed run saves nothing.
Kill(p) == Stop(p) /\ UNCHANGED file

\* An apply elsewhere ends.
Install ==
    /\ file' = [file EXCEPT !.other = TRUE]
    /\ UNCHANGED <<usable, running, copy>>

Next ==
    \/ Install
    \/ \E p \in Procs : Start(p) \/ Keep(p) \/ Prepare(p) \/ Duplicate(p) \/ Kill(p)

Spec == Init /\ [][Next]_vars
=============================================================================
