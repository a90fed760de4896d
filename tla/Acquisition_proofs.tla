--------------------------- MODULE Acquisition_proofs ---------------------------
(***************************************************************************)
(* What PREPARED says of the files, proved for any archives, any number    *)
(* of processes and any number of faults.  The argument follows a process  *)
(* through the extraction: each member it has passed repeats the first     *)
(* member of its name (SeenBy), so that processes on the same archive only *)
(* ever write the same data (Stored); until somebody removes files those   *)
(* members are whole on the disk (KeptFor); and processes that never       *)
(* overlap work on the state the file has (AlignedWith).                   *)
(***************************************************************************)
EXTENDS Acquisition, TLAPS

Extracting == {"extract", "create", "copy"}
Saving == {"save", "unsaved"}
Describing == {"classify", "manifest", "judge"} \union Saving
Outside == {"idle", "page", "download", "stream", "check", "rmtree", "failed"}

\* The first member of its name, and a member that repeats a first one.
First(i) == \A j \in 1..(i - 1) : bundle[j].name # bundle[i].name
Repeats(i) == \E f \in 1..Len(bundle) : First(f) /\ bundle[f] = bundle[i]
-----------------------------------------------------------------------------
(* The parts of the inductive invariant, of one process r each. *)

\* Where it is in the archive.
PlacedAt(r) ==
    /\ r.pc \in Outside \union Describing => r.k = 1
    /\ r.pc \in Extracting => r.k \in 1..(Len(bundle) + 1)
    /\ r.pc \in {"create", "copy"} => r.k <= Len(bundle) /\ First(r.k)

\* What it has found out about the archive.
SeenBy(r) ==
    /\ r.pc \in Extracting => \A i \in 1..(r.k - 1) : Repeats(i)
    /\ r.pc \in Describing => bundle # <<>> /\ \A i \in 1..Len(bundle) : Repeats(i)
    /\ r.pc \in {"manifest", "judge"} \union Saving => ~Ambiguous
    /\ r.pc \in Saving =>
           /\ Planned # {}
           /\ RejectUnknown => \A n \in Extracts : Kind[n] # "UNKNOWN"

\* What its copy of the state file says of the archive.
RecordedBy(r) ==
    /\ r.copy.status = "PREPARED" => Acceptable(bundle)
    /\ r.pc \in {"idle", "rmtree"} \union Extracting \union Describing =>
           r.copy.status = "ABSENT"

\* What it has extracted is there.
KeptFor(r) ==
    /\ r.copy.status = "PREPARED" => IsWhole
    /\ r.pc \in Describing => IsWhole
    /\ r.pc \in Extracting =>
           \A i \in 1..(r.k - 1) : packages[bundle[i].name] = bundle[i].data
    /\ r.pc = "copy" => packages[bundle[r.k].name] # "none"

\* Its copy is the state file, and the manifest is its own.
AlignedWith(r) ==
    /\ r.pc \notin {"idle", "rmtree"} => r.copy.status = file.status
    /\ r.pc = "rmtree" => file.status = "CONTENT_DUPLICATE"
    /\ r.pc = "manifest" => manifest # "none"
    /\ r.pc \in {"judge"} \union Saving => manifest = "whole"

\* A file is absent, half written, or what the first member of its name holds.
Stored ==
    \A i \in 1..Len(bundle) :
        \/ packages[bundle[i].name] \in {"none", "torn"}
        \/ \E f \in 1..Len(bundle) :
              /\ First(f) /\ bundle[f].name = bundle[i].name
              /\ packages[bundle[i].name] = bundle[f].data

Static ==
    /\ \A p \in Procs : PlacedAt(proc[p]) /\ SeenBy(proc[p]) /\ RecordedBy(proc[p])
    /\ file.status = "PREPARED" => Acceptable(bundle)

Kept ==
    alone \/ ~removed =>
        /\ \A p \in Procs : KeptFor(proc[p])
        /\ file.status = "PREPARED" => IsWhole

Aligned ==
    alone =>
        /\ \A p \in Procs : AlignedWith(proc[p])
        /\ \A p, q \in Procs : p # q => proc[p].pc = "idle" \/ proc[q].pc = "idle"
        /\ file.status = "PREPARED" => manifest = "whole"

IInv == TypeOK /\ Static /\ Stored /\ Kept /\ Aligned
-----------------------------------------------------------------------------
(* The archive. *)

LEMMA MemberIn ==
    ASSUME TypeOK, NEW i \in 1..Len(bundle)
    PROVE  /\ Len(bundle) \in Nat
           /\ bundle[i].name \in Names /\ bundle[i].data \in Data
           /\ bundle[i].data # "none" /\ bundle[i].data # "torn"
           /\ bundle[i] = [name |-> bundle[i].name, data |-> bundle[i].data]
<1>1. bundle \in Seq(Members)
    BY AcquisitionAssumption DEF TypeOK
<1>2. bundle[i] \in Members /\ Len(bundle) \in Nat
    BY <1>1
<1> QED
    BY <1>2, AcquisitionAssumption DEF Members

LEMMA LengthIn == TypeOK => Len(bundle) \in Nat
BY AcquisitionAssumption DEF TypeOK

\* Two first members of one name are one.
LEMMA FirstUnique ==
    ASSUME NEW i \in Nat \ {0}, NEW j \in Nat \ {0}, First(i), First(j),
           bundle[i].name = bundle[j].name
    PROVE  i = j
<1>1. CASE i < j
    <2>1. i \in 1..(j - 1)
        BY <1>1
    <2> QED
        BY <2>1 DEF First
<1>2. CASE j < i
    <2>1. j \in 1..(i - 1)
        BY <1>2
    <2> QED
        BY <2>1 DEF First
<1> QED
    BY <1>1, <1>2

\* The archive does not change, and with it nothing that is said of it alone.
LEMMA SameBundle ==
    ASSUME bundle' = bundle
    PROVE  /\ \A i : First(i)' <=> First(i)
           /\ \A r : PlacedAt(r)' <=> PlacedAt(r)
           /\ \A r : SeenBy(r)' <=> SeenBy(r)
           /\ \A r : RecordedBy(r)' <=> RecordedBy(r)
<1>1. \A i : First(i)' <=> First(i)
    BY DEF First
<1>2. \A i : Repeats(i)' <=> Repeats(i)
    BY <1>1 DEF Repeats
<1>3. (Ambiguous' <=> Ambiguous) /\ Planned' = Planned /\ Extracts' = Extracts
    BY DEF Ambiguous, Planned, Extracts
<1>4. \A r : PlacedAt(r)' <=> PlacedAt(r)
    BY <1>1 DEF PlacedAt
<1>5. \A r : SeenBy(r)' <=> SeenBy(r)
    BY <1>2, <1>3 DEF SeenBy
<1>6. \A r : RecordedBy(r)' <=> RecordedBy(r)
    BY DEF RecordedBy
<1> QED
    BY <1>1, <1>4, <1>5, <1>6

\* A process that has described and judged the archive knows that it is acceptable.
LEMMA JudgedIsAcceptable ==
    ASSUME TypeOK, NEW r, r.pc \in Saving, SeenBy(r)
    PROVE  Acceptable(bundle)
<1>1. /\ bundle # <<>> /\ \A i \in 1..Len(bundle) : Repeats(i)
      /\ ~Ambiguous /\ Planned # {}
      /\ RejectUnknown => \A n \in Extracts : Kind[n] # "UNKNOWN"
    BY DEF SeenBy, Describing, Saving
<1>2. ASSUME NEW i \in 1..Len(bundle), NEW j \in 1..Len(bundle),
             bundle[i].name = bundle[j].name
      PROVE  bundle[i].data = bundle[j].data
    <2>1. PICK f \in 1..Len(bundle) : First(f) /\ bundle[f] = bundle[i]
        BY <1>1 DEF Repeats
    <2>2. PICK g \in 1..Len(bundle) : First(g) /\ bundle[g] = bundle[j]
        BY <1>1 DEF Repeats
    <2>3. f \in Nat \ {0} /\ g \in Nat \ {0}
        BY LengthIn
    <2>4. f = g
        BY <1>2, <2>1, <2>2, <2>3, FirstUnique
    <2> QED
        BY <2>1, <2>2, <2>4
<1>3. \A i \in 1..Len(bundle) : bundle[i].name \in Extracts
    BY DEF Extracts
<1>4. \A i, j \in 1..Len(bundle) :
          bundle[i].name # bundle[j].name /\ Kind[bundle[i].name] \in Enabled
              => Kind[bundle[i].name] # Kind[bundle[j].name]
    BY <1>1, <1>3 DEF Ambiguous
<1>5. \E i \in 1..Len(bundle) : Kind[bundle[i].name] \in Enabled
    BY <1>1 DEF Planned, Extracts
<1> QED
    BY <1>1, <1>2, <1>3, <1>4, <1>5 DEF Acceptable
-----------------------------------------------------------------------------
(* Type correctness. *)

LEMMA BecomeFacts ==
    ASSUME proc \in [Procs -> Process], NEW p \in Procs, NEW r \in Process, Become(p, r)
    PROVE  /\ proc' \in [Procs -> Process]
           /\ proc'[p] = r
           /\ \A q \in Procs : q # p => proc'[q] = proc[q]
BY DEF Become

LEMMA ProcessFacts ==
    /\ EmptyState \in StateFile
    /\ Idle \in Process
    /\ \A r \in Process :
        /\ [Idle EXCEPT !.pc = "failed", !.copy = r.copy] \in Process
        /\ \A pc \in Pcs : [r EXCEPT !.pc = pc] \in Process
        /\ [r EXCEPT !.pc = "extract", !.k = @ + 1] \in Process
        /\ [r EXCEPT !.pc = "download", !.attempt = 1] \in Process
        /\ \A got \in {"short", "whole"} :
               [r EXCEPT !.pc = "check", !.attempt = 1, !.got = got] \in Process
    /\ \A c \in StateFile : [Idle EXCEPT !.pc = "page", !.copy = c] \in Process
    /\ [Idle EXCEPT !.pc = "rmtree"] \in Process
    /\ 1 \in 1..Attempts
<1> USE AcquisitionAssumption DEF Process, Pcs
<1>1. EmptyState \in StateFile
    BY DEF EmptyState, StateFile
<1>2. 1 \in 1..Attempts
    OBVIOUS
<1>3. Idle \in Process /\ [Idle EXCEPT !.pc = "rmtree"] \in Process
    BY <1>1, <1>2 DEF Idle
<1>4. \A c \in StateFile : [Idle EXCEPT !.pc = "page", !.copy = c] \in Process
    BY <1>2, <1>3
<1>5. ASSUME NEW r \in Process
      PROVE  /\ [Idle EXCEPT !.pc = "failed", !.copy = r.copy] \in Process
             /\ \A pc \in Pcs : [r EXCEPT !.pc = pc] \in Process
             /\ [r EXCEPT !.pc = "extract", !.k = @ + 1] \in Process
             /\ [r EXCEPT !.pc = "download", !.attempt = 1] \in Process
             /\ \A got \in {"short", "whole"} :
                    [r EXCEPT !.pc = "check", !.attempt = 1, !.got = got] \in Process
    <2>1. [Idle EXCEPT !.pc = "failed", !.copy = r.copy] \in Process
        BY <1>3, <1>5
    <2>2. ASSUME NEW pc \in Pcs PROVE [r EXCEPT !.pc = pc] \in Process
        BY <1>5, <2>2
    <2>3. [r EXCEPT !.pc = "extract", !.k = @ + 1] \in Process
        <3>1. r.k + 1 \in Nat
            BY <1>5
        <3> DEFINE n == r.k + 1
        <3> HIDE DEF n
        <3>2. [r EXCEPT !.pc = "extract", !.k = n] \in Process
            BY <1>5, <3>1 DEF n
        <3> QED
            BY <3>2 DEF n
    <2> DEFINE one == 1
    <2> HIDE DEF one
    <2>4. one \in 1..Attempts
        BY <1>2 DEF one
    <2>5. [r EXCEPT !.pc = "download", !.attempt = one] \in Process
        BY <1>5, <2>4
    <2>6. ASSUME NEW got \in {"short", "whole"}
          PROVE  [r EXCEPT !.pc = "check", !.attempt = one, !.got = got] \in Process
        BY <1>5, <2>4, <2>6
    <2> QED
        BY <2>1, <2>2, <2>3, <2>5, <2>6 DEF one
<1> QED
    BY <1>1, <1>2, <1>3, <1>4, <1>5

LEMMA TypeInit == Init => TypeOK
<1> SUFFICES ASSUME Init PROVE TypeOK
    OBVIOUS
<1>1. faults \in 0..MaxFaults
    BY AcquisitionAssumption DEF Init
<1>2. file \in StateFile /\ proc \in [Procs -> Process]
    BY ProcessFacts DEF Init
<1> QED
    BY <1>1, <1>2 DEF Init, TypeOK

LEMMA TypeRaise ==
    ASSUME TypeOK, NEW p \in Procs, Raise(p)
    PROVE  proc' \in [Procs -> Process]
BY ProcessFacts, BecomeFacts DEF TypeOK, Raise

LEMMA TypeGoto ==
    ASSUME TypeOK, NEW p \in Procs, NEW pc \in Pcs, Goto(p, pc)
    PROVE  proc' \in [Procs -> Process]
BY ProcessFacts, BecomeFacts DEF TypeOK, Goto

LEMMA TypeNextMember ==
    ASSUME TypeOK, NEW p \in Procs, NextMember(p)
    PROVE  proc' \in [Procs -> Process]
BY ProcessFacts, BecomeFacts DEF TypeOK, NextMember

LEMMA TypeRetry ==
    ASSUME TypeOK, NEW p \in Procs, NEW pc \in Pcs, Retry(p, pc)
    PROVE  proc' \in [Procs -> Process]
<1>1. CASE proc[p].attempt < Attempts
    <2>1. [proc[p] EXCEPT !.pc = pc, !.attempt = @ + 1] \in Process
        <3>1. proc[p] \in Process
            BY DEF TypeOK
        <3>2. proc[p].attempt + 1 \in 1..Attempts
            BY <1>1, <3>1, AcquisitionAssumption DEF Process
        <3> QED
            BY <3>1, <3>2 DEF Process
    <2> QED
        BY <1>1, <2>1, BecomeFacts DEF TypeOK, Retry
<1>2. CASE ~(proc[p].attempt < Attempts)
    BY <1>2, TypeRaise DEF Retry
<1> QED
    BY <1>1, <1>2

\* A member is looked at only where there is one.
LEMMA MemberAt ==
    ASSUME TypeOK, Static, NEW p \in Procs, proc[p].pc \in {"create", "copy"}
    PROVE  proc[p].k \in 1..Len(bundle) /\ First(proc[p].k)
BY LengthIn DEF Static, PlacedAt, Extracting

LEMMA TypeStep == TypeOK /\ Static /\ [Next]_vars => TypeOK'
<1> SUFFICES ASSUME TypeOK, Static, [Next]_vars PROVE TypeOK'
    OBVIOUS
<1> USE DEF UnchangedButProc, disk
<1>1. CASE Install
    BY <1>1 DEF Install, TypeOK, StateFile
<1>2. ASSUME NEW p \in Procs, Start(p) PROVE TypeOK'
    BY <1>2, ProcessFacts, BecomeFacts DEF Start, TypeOK
<1>3. ASSUME NEW p \in Procs, Kill(p) \/ IOError(p) \/ SaveFails(p) PROVE TypeOK'
    <2>1. faults' \in 0..MaxFaults
        BY <1>3, AcquisitionAssumption DEF Kill, IOError, SaveFails, Fault, TypeOK
    <2>2. proc' \in [Procs -> Process]
        BY <1>3, TypeRaise, TypeGoto, ProcessFacts, BecomeFacts
           DEF Kill, IOError, SaveFails, TypeOK, Pcs
    <2> QED
        BY <1>3, <2>1, <2>2 DEF Kill, IOError, SaveFails, Fault, TypeOK
<1>4. ASSUME NEW p \in Procs, Step(p) PROVE TypeOK'
    <2>0. proc[p] \in Process /\ proc[p].copy \in StateFile
        BY DEF TypeOK, Process
    <2>1. CASE Discover(p)
        <3>1. [proc[p] EXCEPT !.pc = "download", !.attempt = 1] \in Process
            BY <2>0, ProcessFacts
        <3> QED
            BY <2>1, <3>1, BecomeFacts DEF Discover, TypeOK
    <2>2. CASE DiscoverFails(p)
        BY <2>2, TypeRaise, TypeRetry DEF DiscoverFails, TypeOK, Pcs
    <2>3. CASE OpenPart(p)
        BY <2>3, TypeGoto DEF OpenPart, TypeOK, Pcs
    <2>4. CASE Leftover(p)
        BY <2>4, TypeRaise DEF Leftover, TypeOK
    <2>5. CASE DownloadFails(p)
        BY <2>5, TypeRaise, TypeRetry DEF DownloadFails, TypeOK, Pcs
    <2>6. ASSUME NEW got \in {"short", "whole"}, Complete(p, got) PROVE TypeOK'
        <3>1. [proc[p] EXCEPT !.pc = "check", !.attempt = 1, !.got = got] \in Process
            BY <2>0, ProcessFacts
        <3> QED
            BY <2>6, <3>1, BecomeFacts DEF Complete, TypeOK
    <2>7. CASE NoChange(p)
        BY <2>0, <2>7, ProcessFacts, BecomeFacts DEF NoChange, Save, TypeOK
    <2>8. CASE Check(p)
        <3>1. [proc[p] EXCEPT !.pc = "extract", !.got = "none"] \in Process
            BY DEF TypeOK, Process, Pcs
        <3> QED
            BY <2>8, <3>1, TypeRaise, BecomeFacts DEF Check, TypeOK
    <2>9. CASE Compare(p)
        BY <2>9, TypeRaise, TypeNextMember DEF Compare, TypeOK
    <2>10. CASE Look(p)
        BY <2>10, TypeGoto DEF Look, TypeOK, Pcs
    <2>11. CASE Create(p)
        BY <2>11, TypeRaise, TypeGoto DEF Create, TypeOK, Pcs
    <2>12. CASE Copied(p)
        <3>1. Member(p).data \in Data
            BY <2>12, MemberAt, MemberIn DEF Copied, At, Member
        <3> QED
            BY <2>12, <3>1, TypeNextMember DEF Copied, TypeOK
    <2>13. CASE Extracted(p)
        <3>1. [proc[p] EXCEPT !.pc = "classify", !.k = 1] \in Process
            BY DEF TypeOK, Process, Pcs
        <3> QED
            BY <2>13, <3>1, TypeRaise, BecomeFacts DEF Extracted, TypeOK
    <2>14. CASE Classify(p)
        BY <2>14, TypeRaise, TypeGoto DEF Classify, TypeOK, Pcs
    <2>15. CASE Described(p)
        BY <2>15, TypeGoto DEF Described, TypeOK, Pcs
    <2>16. CASE Judge(p)
        BY <2>16, TypeRaise, TypeGoto DEF Judge, TypeOK, Pcs
    <2>17. CASE SavePrepared(p)
        <3>1. [proc[p].copy EXCEPT !.status = "PREPARED"] \in StateFile
            BY <2>0 DEF StateFile
        <3> QED
            BY <2>17, <3>1, ProcessFacts, BecomeFacts DEF SavePrepared, Save, TypeOK
    <2>18. CASE SaveDuplicate(p)
        <3>1. [proc[p].copy EXCEPT !.status = "CONTENT_DUPLICATE"] \in StateFile
            BY <2>0 DEF StateFile
        <3> QED
            BY <2>18, <3>1, ProcessFacts, BecomeFacts DEF SaveDuplicate, Save, TypeOK
    <2>19. CASE Remove(p)
        BY <2>19 DEF Remove, TypeOK
    <2>20. CASE Removed(p)
        BY <2>20, ProcessFacts, BecomeFacts DEF Removed, TypeOK
    <2>21. CASE Fail(p)
        BY <2>0, <2>21, ProcessFacts, BecomeFacts DEF Fail, Save, TypeOK
    <2>22. CASE FailUnsaved(p)
        <3>1. \A status \in {"PREPARED", "CONTENT_DUPLICATE"} :
                  [proc[p].copy EXCEPT !.status = status] \in StateFile
            BY <2>0 DEF StateFile
        <3>2. file' \in StateFile
            BY <2>22, <3>1 DEF FailUnsaved, Save
        <3> QED
            BY <2>22, <3>2, ProcessFacts, BecomeFacts DEF FailUnsaved, Save, TypeOK
    <2> QED
        BY <1>4, <2>1, <2>2, <2>3, <2>4, <2>5, <2>6, <2>7, <2>8, <2>9, <2>10, <2>11, <2>12,
           <2>13, <2>14, <2>15, <2>16, <2>17, <2>18, <2>19, <2>20, <2>21, <2>22 DEF Step
<1>5. CASE UNCHANGED vars
    BY <1>5 DEF vars, TypeOK
<1> QED
    BY <1>1, <1>2, <1>3, <1>4, <1>5 DEF Next
-----------------------------------------------------------------------------
(* What a step does to the parts of the invariant, given what it makes of  *)
(* the one process that moves.                                             *)

LEMMA StaticStep ==
    ASSUME TypeOK, Static, NEW p \in Procs, NEW r \in Process, Become(p, r),
           bundle' = bundle, file'.status = "PREPARED" => Acceptable(bundle),
           PlacedAt(r), SeenBy(r), RecordedBy(r)
    PROVE  Static'
<1>1. ASSUME NEW q \in Procs
      PROVE  PlacedAt(proc'[q]) /\ SeenBy(proc'[q]) /\ RecordedBy(proc'[q])
    BY BecomeFacts DEF TypeOK, Static
<1>2. ASSUME NEW q \in Procs
      PROVE  PlacedAt(proc[q])' /\ SeenBy(proc[q])' /\ RecordedBy(proc[q])'
    <2>1. PICK s : s = proc'[q]
        OBVIOUS
    <2>2. PlacedAt(s)' /\ SeenBy(s)' /\ RecordedBy(s)'
        BY <1>1, <2>1, SameBundle
    <2>3. PlacedAt(proc[q])'
        BY <2>1, <2>2 DEF PlacedAt, First
    <2>4. SeenBy(proc[q])'
        BY <2>1, <2>2 DEF SeenBy
    <2>5. RecordedBy(proc[q])'
        BY <2>1, <2>2 DEF RecordedBy
    <2> QED
        BY <2>3, <2>4, <2>5
<1>3. file'.status = "PREPARED" => Acceptable(bundle)'
    BY DEF Acceptable
<1> QED
    BY <1>2, <1>3 DEF Static

\* Packages that stay or go.
LEMMA StoredFalls ==
    ASSUME Stored, bundle' = bundle,
           \A i \in 1..Len(bundle) :
               packages'[bundle[i].name] \in {packages[bundle[i].name], "none"}
    PROVE  Stored'
<1>1. ASSUME NEW i \in 1..Len(bundle), packages'[bundle[i].name] \notin {"none", "torn"}
      PROVE  \E f \in 1..Len(bundle) :
                /\ First(f)' /\ bundle[f].name = bundle[i].name
                /\ packages'[bundle[i].name] = bundle[f].data
    <2>1. packages'[bundle[i].name] = packages[bundle[i].name]
        BY <1>1
    <2>2. PICK f \in 1..Len(bundle) :
              /\ First(f) /\ bundle[f].name = bundle[i].name
              /\ packages[bundle[i].name] = bundle[f].data
        BY <1>1, <2>1 DEF Stored
    <2>3. First(f)'
        BY <2>2 DEF First
    <2> QED
        BY <2>1, <2>2, <2>3
<1>2. \A i \in 1..Len(bundle) :
          \/ packages'[bundle[i].name] \in {"none", "torn"}
          \/ \E f \in 1..Len(bundle) :
                /\ First(f)' /\ bundle[f].name = bundle[i].name
                /\ packages'[bundle[i].name] = bundle[f].data
    BY <1>1
<1> QED
    BY <1>2 DEF Stored

LEMMA StoredSame ==
    ASSUME Stored, UNCHANGED <<bundle, packages>>
    PROVE  Stored'
BY StoredFalls

LEMMA KeptStep ==
    ASSUME TypeOK, Kept, NEW p \in Procs, NEW r \in Process, Become(p, r),
           UNCHANGED <<bundle, packages, removed>>, alone' => alone,
           alone \/ ~removed => KeptFor(r) /\ (file'.status = "PREPARED" => IsWhole)
    PROVE  Kept'
<1> SUFFICES ASSUME alone' \/ ~removed'
             PROVE  /\ \A q \in Procs : KeptFor(proc[q])'
                    /\ file'.status = "PREPARED" => IsWhole'
    BY DEF Kept
<1>1. IsWhole' <=> IsWhole
    BY DEF IsWhole
<1>2. \A q \in Procs : KeptFor(proc'[q])
    BY BecomeFacts DEF Kept, TypeOK
<1>3. \A q \in Procs : KeptFor(proc[q])'
    BY <1>1, <1>2 DEF KeptFor
<1> QED
    BY <1>1, <1>3

LEMMA AlignedStep ==
    ASSUME TypeOK, Aligned, NEW p \in Procs, NEW r \in Process, Become(p, r),
           proc[p].pc # "idle", alone' = alone,
           alone => /\ AlignedWith(r)'
                    /\ file'.status = "PREPARED" => manifest' = "whole"
    PROVE  Aligned'
<1> SUFFICES ASSUME alone
             PROVE  /\ \A q \in Procs : AlignedWith(proc[q])'
                    /\ \A q, s \in Procs :
                           q # s => proc'[q].pc = "idle" \/ proc'[s].pc = "idle"
    BY DEF Aligned
<1>1. proc'[p] = r /\ \A q \in Procs : q # p => proc'[q] = proc[q]
    BY BecomeFacts DEF TypeOK
<1>2. \A q \in Procs : q # p => proc'[q].pc = "idle"
    BY <1>1 DEF Aligned
<1>3. AlignedWith(proc[p])'
    BY <1>1 DEF AlignedWith
<1>4. \A q \in Procs : q # p => AlignedWith(proc[q])'
    BY <1>2 DEF AlignedWith, Saving
<1> QED
    BY <1>2, <1>3, <1>4
-----------------------------------------------------------------------------
(* The steps outside the extraction, and those that end it with an         *)
(* exception, leave all files alone.                                       *)

Leaves(p, r) ==
    /\ Become(p, r)
    /\ proc[p].pc # "idle"
    /\ r.pc \in Outside \ {"rmtree"} /\ r.k = 1
    /\ IF r.pc = "idle" THEN r.copy = EmptyState
       ELSE proc[p].pc # "rmtree" /\ r.copy = proc[p].copy
    /\ UNCHANGED <<bundle, file, packages, manifest, alone, removed>>

LEMMA LeavesKeeps ==
    ASSUME IInv, NEW p \in Procs, NEW r \in Process, Leaves(p, r)
    PROVE  Static' /\ Stored' /\ Kept' /\ Aligned'
<1> USE DEF IInv, Leaves
<1>1. r.copy.status = "PREPARED" => proc[p].copy.status = "PREPARED"
    BY DEF EmptyState
<1>2. PlacedAt(r) /\ SeenBy(r)
    BY DEF PlacedAt, SeenBy, Outside, Extracting, Describing, Saving
<1>3. RecordedBy(r)
    BY <1>1 DEF RecordedBy, Static, Outside, Extracting, Describing, Saving, EmptyState
<1>4. Static'
    BY <1>2, <1>3, StaticStep DEF Static
<1>5. alone \/ ~removed => KeptFor(r)
    BY <1>1 DEF Kept, KeptFor, Outside, Extracting, Describing, Saving
<1>6. Kept'
    BY <1>5, KeptStep DEF Kept
<1>7. alone => AlignedWith(r)'
    BY DEF Aligned, AlignedWith, Saving, Outside
<1>8. Aligned'
    BY <1>7, AlignedStep DEF Aligned
<1> QED
    BY <1>4, <1>6, <1>8, StoredSame

Raises(p) ==
    /\ Raise(p)
    /\ proc[p].pc \notin {"idle", "rmtree"}
    /\ UNCHANGED <<bundle, file, packages, manifest, alone, removed>>

LEMMA RaisesKeeps ==
    ASSUME IInv, NEW p \in Procs, Raises(p)
    PROVE  Static' /\ Stored' /\ Kept' /\ Aligned'
<1> DEFINE r == [Idle EXCEPT !.pc = "failed", !.copy = proc[p].copy]
<1>1. r \in Process
    BY ProcessFacts DEF IInv, TypeOK
<1>2. Leaves(p, r)
    BY DEF Raises, Raise, Leaves, Idle, Outside
<1> QED
    BY <1>1, <1>2, LeavesKeeps

LEMMA OutsideSteps ==
    ASSUME IInv, NEW p \in Procs,
           \/ Discover(p) \/ DiscoverFails(p) \/ OpenPart(p) \/ Leftover(p) \/ DownloadFails(p)
           \/ \E got \in {"short", "whole"} : Complete(p, got)
           \/ Removed(p) \/ Kill(p) \/ IOError(p)
    PROVE  Static' /\ Stored' /\ Kept' /\ Aligned'
<1> USE DEF At, UnchangedButProc, disk
<1>0. proc[p] \in Process /\ (proc[p].pc \in Outside => proc[p].k = 1)
    BY DEF IInv, TypeOK, Static, PlacedAt
<1>1. ASSUME NEW pc \in {"page", "download"}, proc[p].pc \in {"page", "download", "stream"},
             Retry(p, pc), UNCHANGED <<bundle, file, packages, manifest, alone, removed>>
      PROVE  Static' /\ Stored' /\ Kept' /\ Aligned'
    <2>1. CASE proc[p].attempt < Attempts
        <3> DEFINE r == [proc[p] EXCEPT !.pc = pc, !.attempt = @ + 1]
        <3>1. proc[p].attempt + 1 \in 1..Attempts
            BY <1>0, <2>1, AcquisitionAssumption DEF Process
        <3>2. r \in Process
            BY <1>0, <3>1 DEF Process, Pcs
        <3>3. r.pc = pc /\ r.k = proc[p].k /\ r.copy = proc[p].copy
            BY <1>0 DEF Process
        <3>4. Become(p, r)
            BY <1>1, <2>1 DEF Retry
        <3> HIDE DEF r
        <3>5. Leaves(p, r)
            BY <1>0, <1>1, <3>3, <3>4 DEF Leaves, Outside
        <3> QED
            BY <3>2, <3>5, LeavesKeeps
    <2>2. CASE ~(proc[p].attempt < Attempts)
        BY <1>1, <2>2, RaisesKeeps DEF Retry, Raises
    <2> QED
        BY <2>1, <2>2
<1>2. CASE Discover(p)
    <2> DEFINE r == [proc[p] EXCEPT !.pc = "download", !.attempt = 1]
    <2>1. r \in Process
        BY <1>0, ProcessFacts
    <2>2. Leaves(p, r)
        BY <1>0, <1>2 DEF Discover, Leaves, Outside, Process
    <2> QED
        BY <2>1, <2>2, LeavesKeeps
<1>3. CASE DiscoverFails(p)
    BY <1>1, <1>3, RaisesKeeps DEF DiscoverFails, Raises
<1>4. CASE OpenPart(p)
    <2> DEFINE r == [proc[p] EXCEPT !.pc = "stream"]
    <2>1. r \in Process
        BY <1>0, ProcessFacts DEF Pcs
    <2>2. Leaves(p, r)
        BY <1>0, <1>4 DEF OpenPart, Goto, Leaves, Outside, Process
    <2> QED
        BY <2>1, <2>2, LeavesKeeps
<1>5. CASE Leftover(p)
    BY <1>5, RaisesKeeps DEF Leftover, Raises
<1>6. CASE DownloadFails(p)
    BY <1>1, <1>6, RaisesKeeps DEF DownloadFails, Raises
<1>7. ASSUME NEW got \in {"short", "whole"}, Complete(p, got)
      PROVE  Static' /\ Stored' /\ Kept' /\ Aligned'
    <2> DEFINE r == [proc[p] EXCEPT !.pc = "check", !.attempt = 1, !.got = got]
    <2>1. r \in Process
        BY <1>0, ProcessFacts
    <2>2. Leaves(p, r)
        BY <1>0, <1>7 DEF Complete, Leaves, Outside, Process
    <2> QED
        BY <2>1, <2>2, LeavesKeeps
<1>8. CASE Removed(p) \/ Kill(p)
    <2>1. Leaves(p, Idle)
        BY <1>8 DEF Removed, Kill, Fault, Leaves, Idle, Outside
    <2> QED
        BY <2>1, ProcessFacts, LeavesKeeps
<1>9. CASE IOError(p)
    BY <1>9, RaisesKeeps DEF IOError, Fault, Raises
<1> QED
    BY <1>2, <1>3, <1>4, <1>5, <1>6, <1>7, <1>8, <1>9
-----------------------------------------------------------------------------
(* The start of a run, the steps that save, and the other processes of the *)
(* host.                                                                   *)

LEMMA InstallKeeps ==
    ASSUME IInv, Install
    PROVE  Static' /\ Stored' /\ Kept' /\ Aligned'
<1> USE DEF IInv, Install, disk
<1>1. file'.status = file.status
    BY DEF TypeOK, StateFile
<1>2. Static'
    BY <1>1, SameBundle DEF Static, PlacedAt, SeenBy, RecordedBy, First, Repeats, Ambiguous,
                            Planned, Extracts
<1>3. Kept'
    BY <1>1 DEF Kept, KeptFor, IsWhole
<1>4. Aligned'
    BY <1>1 DEF Aligned, AlignedWith
<1> QED
    BY <1>2, <1>3, <1>4, StoredSame

LEMMA StartKeeps ==
    ASSUME IInv, NEW p \in Procs, Start(p)
    PROVE  Static' /\ Stored' /\ Kept' /\ Aligned'
<1> DEFINE r == [Idle EXCEPT !.pc = "page", !.copy = file]
<1> USE DEF IInv, Start, disk, At
<1>1. r \in Process /\ r.pc = "page" /\ r.k = 1 /\ r.copy = file /\ Become(p, r)
    BY ProcessFacts DEF TypeOK, Idle
<1> HIDE DEF r
<1>2. PlacedAt(r) /\ SeenBy(r) /\ RecordedBy(r)
    BY <1>1 DEF PlacedAt, SeenBy, RecordedBy, Static, Outside, Extracting, Describing, Saving
<1>3. Static'
    BY <1>1, <1>2, StaticStep DEF Static
<1>4. Kept'
    BY <1>1, KeptStep DEF Kept, KeptFor, Extracting, Describing, Saving
<1>5. proc'[p] = r /\ \A q \in Procs : q # p => proc'[q] = proc[q]
    BY <1>1, BecomeFacts DEF TypeOK
<1>6. Aligned'
    BY <1>1, <1>5 DEF Aligned, AlignedWith, Saving
<1> QED
    BY <1>3, <1>4, <1>6, StoredSame

LEMMA SavesKeep ==
    ASSUME IInv, NEW p \in Procs,
           NoChange(p) \/ SavePrepared(p) \/ SaveDuplicate(p) \/ Fail(p) \/ FailUnsaved(p)
    PROVE  Static' /\ Stored' /\ Kept' /\ Aligned'
<1> USE DEF IInv, Save, disk, At
<1>1. proc[p] \in Process /\ proc[p].copy \in StateFile
    BY DEF TypeOK, Process
<1>2. PICK r \in {Idle, [Idle EXCEPT !.pc = "rmtree"]} :
          /\ Become(p, r)
          /\ r.pc = "rmtree" => file'.status = "CONTENT_DUPLICATE"
    BY <1>1 DEF NoChange, SavePrepared, SaveDuplicate, Fail, FailUnsaved, Idle, StateFile
<1>3. r \in Process /\ r.pc \in {"idle", "rmtree"} /\ r.k = 1 /\ r.copy.status = "ABSENT"
    <2>1. r \in Process
        BY ProcessFacts
    <2> QED
        BY <2>1 DEF Idle, EmptyState
<1>4. UNCHANGED <<bundle, packages, manifest, alone, removed>> /\ proc[p].pc # "idle"
    BY DEF NoChange, SavePrepared, SaveDuplicate, Fail, FailUnsaved
<1>5. file'.status = "PREPARED" =>
          \/ proc[p].pc \notin {"idle", "rmtree"} /\ proc[p].copy.status = "PREPARED"
          \/ proc[p].pc \in Saving
    BY <1>1 DEF NoChange, SavePrepared, SaveDuplicate, Fail, FailUnsaved, StateFile, Saving
<1>6. file'.status = "PREPARED" => Acceptable(bundle)
    BY <1>5, JudgedIsAcceptable DEF Static, RecordedBy, Saving
<1>7. PlacedAt(r) /\ SeenBy(r) /\ RecordedBy(r)
    BY <1>3 DEF PlacedAt, SeenBy, RecordedBy, Outside, Extracting, Describing, Saving
<1>8. Static'
    BY <1>2, <1>3, <1>4, <1>6, <1>7, StaticStep
<1>9. alone \/ ~removed => KeptFor(r) /\ (file'.status = "PREPARED" => IsWhole)
    BY <1>3, <1>5 DEF Kept, KeptFor, Extracting, Describing, Saving
<1>10. Kept'
    BY <1>2, <1>3, <1>4, <1>9, KeptStep
<1>11. alone => AlignedWith(r)' /\ (file'.status = "PREPARED" => manifest' = "whole")
    BY <1>2, <1>3, <1>4, <1>5 DEF Aligned, AlignedWith, Saving
<1>12. Aligned'
    BY <1>2, <1>3, <1>4, <1>11, AlignedStep
<1> QED
    BY <1>4, <1>8, <1>10, <1>12, StoredSame
-----------------------------------------------------------------------------
(* The extraction.                                                         *)

\* The record of a process that goes on.
LEMMA NextRecord ==
    ASSUME NEW s \in Process
    PROVE  /\ \A pc \in Pcs : \E r \in Process :
                  /\ r.pc = pc /\ r.k = s.k /\ r.copy = s.copy
                  /\ r = [s EXCEPT !.pc = pc]
           /\ \E r \in Process :
                  /\ r.pc = "extract" /\ r.k = s.k + 1 /\ r.copy = s.copy
                  /\ r = [s EXCEPT !.pc = "extract", !.k = @ + 1]
<1>1. ASSUME NEW pc \in Pcs
      PROVE  LET r == [s EXCEPT !.pc = pc] IN
             r \in Process /\ r.pc = pc /\ r.k = s.k /\ r.copy = s.copy
    BY <1>1 DEF Process
<1>2. s.k + 1 \in Nat
    BY DEF Process
<1>3. LET r == [s EXCEPT !.pc = "extract", !.k = s.k + 1] IN
      r \in Process /\ r.pc = "extract" /\ r.k = s.k + 1 /\ r.copy = s.copy
    BY <1>2 DEF Process, Pcs
<1> QED
    BY <1>1, <1>3

\* A step that keeps all files but sees more of the archive.
Reads(p, r) ==
    /\ Become(p, r)
    /\ proc[p].pc \in {"check"} \union Extracting \union Describing
    /\ r.pc \in Extracting \union Describing
    /\ r.copy = proc[p].copy /\ proc[p].copy.status = "ABSENT"
    /\ PlacedAt(r) /\ SeenBy(r)
    /\ UNCHANGED <<bundle, file, packages, alone, removed>>

LEMMA ReadsKeeps ==
    ASSUME IInv, NEW p \in Procs, NEW r \in Process, Reads(p, r),
           alone \/ ~removed => KeptFor(r),
           alone => AlignedWith(r)',
           manifest' = manifest \/ proc[p].pc \in {"classify", "manifest"}
    PROVE  Static' /\ Stored' /\ Kept' /\ Aligned'
<1> USE DEF IInv, Reads
<1>1. RecordedBy(r)
    BY DEF RecordedBy
<1>2. Static'
    BY <1>1, StaticStep DEF Static
<1>3. Kept'
    BY KeptStep DEF Kept
<1>4. alone => file.status = "ABSENT" \/ manifest' = manifest
    BY DEF Aligned, AlignedWith
<1>5. Aligned'
    BY <1>4, AlignedStep DEF Aligned, Extracting, Describing, Saving
<1> QED
    BY <1>2, <1>3, <1>5, StoredSame

\* A member whose name is taken passes when it has the data that is stored.
LEMMA StoredRepeats ==
    ASSUME IInv, NEW i \in 1..Len(bundle), packages[bundle[i].name] = bundle[i].data
    PROVE  Repeats(i)
<1>1. PICK f \in 1..Len(bundle) :
          /\ First(f) /\ bundle[f].name = bundle[i].name
          /\ packages[bundle[i].name] = bundle[f].data
    BY MemberIn DEF IInv, Stored
<1>2. bundle[f] = bundle[i]
    BY <1>1, MemberIn DEF IInv
<1> QED
    BY <1>1, <1>2 DEF Repeats

LEMMA CheckKeeps ==
    ASSUME IInv, NEW p \in Procs, Check(p)
    PROVE  Static' /\ Stored' /\ Kept' /\ Aligned'
<1> USE DEF Check, At, UnchangedButProc, disk
<1>1. CASE proc[p].got # "whole"
    BY <1>1, RaisesKeeps DEF Raises
<1>2. CASE proc[p].got = "whole"
    <2>1. proc[p] \in Process /\ proc[p].k = 1
        BY DEF IInv, TypeOK, Static, PlacedAt, Outside
    <2>2. PICK r \in Process :
              /\ r.pc = "extract" /\ r.k = 1 /\ r.copy = proc[p].copy
              /\ r = [proc[p] EXCEPT !.pc = "extract", !.got = "none"]
        BY <2>1 DEF Process, Pcs
    <2>3. Become(p, r)
        BY <1>2, <2>2
    <2>4. PlacedAt(r) /\ SeenBy(r)
        BY <2>2, LengthIn DEF PlacedAt, SeenBy, Outside, Extracting, Describing, Saving, IInv
    <2>5. Reads(p, r)
        BY <1>2, <2>2, <2>3, <2>4 DEF Reads, Extracting
    <2>6. alone \/ ~removed => KeptFor(r)
        BY <1>2, <2>2 DEF KeptFor, Extracting, Describing, Saving
    <2>7. alone => AlignedWith(r)'
        BY <1>2, <2>2 DEF AlignedWith, Saving, Aligned, IInv
    <2> QED
        BY <2>2, <2>5, <2>6, <2>7, ReadsKeeps
<1> QED
    BY <1>1, <1>2

LEMMA CompareKeeps ==
    ASSUME IInv, NEW p \in Procs, Compare(p)
    PROVE  Static' /\ Stored' /\ Kept' /\ Aligned'
<1> USE DEF Compare, At, UnchangedButProc, disk
<1>1. CASE packages[Member(p).name] # Member(p).data
    BY <1>1, RaisesKeeps DEF Raises
<1>2. CASE packages[Member(p).name] = Member(p).data
    <2>1. proc[p] \in Process /\ proc[p].k \in 1..Len(bundle)
        BY LengthIn DEF IInv, TypeOK, Static, PlacedAt, Extracting
    <2>2. PICK r \in Process :
              /\ r.pc = "extract" /\ r.k = proc[p].k + 1 /\ r.copy = proc[p].copy
              /\ r = [proc[p] EXCEPT !.pc = "extract", !.k = @ + 1]
        BY <2>1, NextRecord
    <2>3. Become(p, r)
        BY <1>2, <2>2 DEF NextMember
    <2>4. Repeats(proc[p].k)
        BY <1>2, <2>1, StoredRepeats DEF Member
    <2>5. \A i \in 1..(r.k - 1) : i = proc[p].k \/ i \in 1..(proc[p].k - 1)
        BY <2>1, <2>2
    <2>6. PlacedAt(r)
        BY <2>1, <2>2, LengthIn DEF PlacedAt, Outside, Extracting, Describing, Saving, IInv
    <2>7. SeenBy(r)
        BY <2>2, <2>4, <2>5 DEF SeenBy, Extracting, Describing, Saving, IInv, Static
    <2>8. Reads(p, r)
        BY <2>2, <2>3, <2>6, <2>7 DEF Reads, Extracting, IInv, Static, RecordedBy
    <2>9. alone \/ ~removed => KeptFor(r)
        BY <1>2, <2>2, <2>5 DEF KeptFor, Extracting, Describing, Saving, IInv, Kept, Member
    <2>10. alone => AlignedWith(r)'
        BY <2>2 DEF AlignedWith, Aligned, IInv
    <2> QED
        BY <2>2, <2>8, <2>9, <2>10, ReadsKeeps
<1> QED
    BY <1>1, <1>2

LEMMA LookKeeps ==
    ASSUME IInv, NEW p \in Procs, Look(p)
    PROVE  Static' /\ Stored' /\ Kept' /\ Aligned'
<1> USE DEF Look, At, UnchangedButProc, disk
<1>1. proc[p] \in Process /\ proc[p].k \in 1..Len(bundle)
    BY LengthIn DEF IInv, TypeOK, Static, PlacedAt, Extracting
<1>2. PICK r \in Process :
          /\ r.pc = "create" /\ r.k = proc[p].k /\ r.copy = proc[p].copy
          /\ r = [proc[p] EXCEPT !.pc = "create"]
    BY <1>1, NextRecord DEF Pcs
<1>3. Become(p, r)
    BY <1>2 DEF Goto
<1>4. First(proc[p].k)
    BY DEF First, Claimed, Member
<1>5. PlacedAt(r)
    BY <1>1, <1>2, <1>4, LengthIn DEF PlacedAt, Outside, Extracting, Describing, Saving, IInv
<1>6. SeenBy(r)
    BY <1>2 DEF SeenBy, Extracting, Describing, Saving, IInv, Static
<1>7. Reads(p, r)
    BY <1>2, <1>3, <1>5, <1>6 DEF Reads, Extracting, IInv, Static, RecordedBy
<1>8. alone \/ ~removed => KeptFor(r)
    BY <1>2 DEF KeptFor, Extracting, Describing, Saving, IInv, Kept
<1>9. alone => AlignedWith(r)'
    BY <1>2 DEF AlignedWith, Saving, Aligned, IInv
<1> QED
    BY <1>2, <1>7, <1>8, <1>9, ReadsKeeps
LEMMA ExtractedKeeps ==
    ASSUME IInv, NEW p \in Procs, Extracted(p)
    PROVE  Static' /\ Stored' /\ Kept' /\ Aligned'
<1> USE DEF Extracted, At, UnchangedButProc, disk
<1>1. CASE bundle = <<>>
    BY <1>1, RaisesKeeps DEF Raises
<1>2. CASE bundle # <<>>
    <2>1. proc[p] \in Process /\ proc[p].k = Len(bundle) + 1
        BY LengthIn DEF IInv, TypeOK, Static, PlacedAt, Extracting
    <2>2. PICK r \in Process :
              /\ r.pc = "classify" /\ r.k = 1 /\ r.copy = proc[p].copy
              /\ r = [proc[p] EXCEPT !.pc = "classify", !.k = 1]
        BY <2>1 DEF Process, Pcs
    <2>3. Become(p, r)
        BY <1>2, <2>2
    <2>4. \A i \in 1..Len(bundle) : i \in 1..(proc[p].k - 1)
        BY <2>1, LengthIn DEF IInv
    <2>5. PlacedAt(r)
        BY <2>2 DEF PlacedAt, Outside, Extracting, Describing, Saving
    <2>6. SeenBy(r)
        BY <1>2, <2>2, <2>4 DEF SeenBy, Extracting, Describing, Saving, IInv, Static
    <2>7. Reads(p, r)
        BY <2>2, <2>3, <2>5, <2>6 DEF Reads, Extracting, Describing, Saving, IInv, Static, RecordedBy
    <2>8. alone \/ ~removed => KeptFor(r)
        <3> SUFFICES ASSUME alone \/ ~removed PROVE KeptFor(r)
            OBVIOUS
        <3>1. IsWhole
            BY <2>4 DEF IInv, Kept, KeptFor, Extracting, IsWhole
        <3> QED
            BY <2>2, <3>1 DEF KeptFor, Extracting
    <2>9. alone => AlignedWith(r)'
        BY <2>2 DEF AlignedWith, Saving, Aligned, IInv
    <2> QED
        BY <2>7, <2>8, <2>9, ReadsKeeps
<1> QED
    BY <1>1, <1>2

LEMMA ClassifyKeeps ==
    ASSUME IInv, NEW p \in Procs, Classify(p)
    PROVE  Static' /\ Stored' /\ Kept' /\ Aligned'
<1> USE DEF Classify, At
<1>1. CASE Ambiguous \/ \E n \in Extracts : packages[n] = "none"
    BY <1>1, RaisesKeeps DEF Raises
<1>2. CASE ~(Ambiguous \/ \E n \in Extracts : packages[n] = "none")
    <2>1. proc[p] \in Process /\ proc[p].k = 1
        BY DEF IInv, TypeOK, Static, PlacedAt, Describing, Saving
    <2>2. PICK r \in Process :
              /\ r.pc = "manifest" /\ r.k = proc[p].k /\ r.copy = proc[p].copy
              /\ r = [proc[p] EXCEPT !.pc = "manifest"]
        BY <2>1, NextRecord DEF Pcs
    <2>3. Become(p, r) /\ manifest' = "torn"
        BY <1>2, <2>2 DEF Goto
    <2>4. PlacedAt(r)
        BY <2>1, <2>2 DEF PlacedAt, Outside, Extracting, Describing, Saving
    <2>5. SeenBy(r)
        BY <1>2, <2>2 DEF SeenBy, Extracting, Describing, Saving, IInv, Static
    <2>6. Reads(p, r)
        BY <2>2, <2>3, <2>4, <2>5 DEF Reads, Extracting, Describing, Saving, IInv, Static, RecordedBy
    <2>7. alone \/ ~removed => KeptFor(r)
        BY <2>2 DEF KeptFor, Extracting, Describing, Saving, IInv, Kept
    <2>8. alone => AlignedWith(r)'
        BY <2>2, <2>3 DEF AlignedWith, Saving, Aligned, IInv
    <2> QED
        BY <2>6, <2>7, <2>8, ReadsKeeps
<1> QED
    BY <1>1, <1>2

LEMMA DescribedKeeps ==
    ASSUME IInv, NEW p \in Procs, Described(p)
    PROVE  Static' /\ Stored' /\ Kept' /\ Aligned'
<1> USE DEF Described, At
<1>1. proc[p] \in Process /\ proc[p].k = 1
    BY DEF IInv, TypeOK, Static, PlacedAt, Describing, Saving
<1>2. PICK r \in Process :
          /\ r.pc = "judge" /\ r.k = proc[p].k /\ r.copy = proc[p].copy
          /\ r = [proc[p] EXCEPT !.pc = "judge"]
    BY <1>1, NextRecord DEF Pcs
<1>3. Become(p, r)
    BY <1>2 DEF Goto
<1>4. PlacedAt(r)
    BY <1>1, <1>2 DEF PlacedAt, Outside, Extracting, Describing, Saving
<1>5. SeenBy(r)
    BY <1>2 DEF SeenBy, Extracting, Describing, Saving, IInv, Static
<1>6. Reads(p, r)
    BY <1>2, <1>3, <1>4, <1>5 DEF Reads, Extracting, Describing, Saving, IInv, Static, RecordedBy
<1>7. alone \/ ~removed => KeptFor(r)
    BY <1>2 DEF KeptFor, Extracting, Describing, Saving, IInv, Kept
<1>8. alone => AlignedWith(r)'
    BY <1>2 DEF AlignedWith, Aligned, IInv
<1> QED
    BY <1>6, <1>7, <1>8, ReadsKeeps

LEMMA JudgeKeeps ==
    ASSUME IInv, NEW p \in Procs, Judge(p)
    PROVE  Static' /\ Stored' /\ Kept' /\ Aligned'
<1> USE DEF Judge, At, UnchangedButProc, disk
<1> DEFINE rejected ==
        Planned = {} \/ (RejectUnknown /\ \E n \in Extracts : Kind[n] = "UNKNOWN")
<1>1. CASE rejected
    BY <1>1, RaisesKeeps DEF Raises
<1>2. CASE ~rejected
    <2>1. proc[p] \in Process /\ proc[p].k = 1
        BY DEF IInv, TypeOK, Static, PlacedAt, Describing, Saving
    <2>2. PICK r \in Process :
              /\ r.pc = "save" /\ r.k = proc[p].k /\ r.copy = proc[p].copy
              /\ r = [proc[p] EXCEPT !.pc = "save"]
        BY <2>1, NextRecord DEF Pcs
    <2>3. Become(p, r)
        BY <1>2, <2>2 DEF Goto
    <2>4. PlacedAt(r)
        BY <2>1, <2>2 DEF PlacedAt, Outside, Extracting, Describing, Saving
    <2>5. SeenBy(r)
        BY <1>2, <2>2 DEF SeenBy, Extracting, Describing, Saving, IInv, Static
    <2>6. Reads(p, r)
        BY <2>2, <2>3, <2>4, <2>5 DEF Reads, Extracting, Describing, Saving, IInv, Static, RecordedBy
    <2>7. alone \/ ~removed => KeptFor(r)
        BY <2>2 DEF KeptFor, Extracting, Describing, Saving, IInv, Kept
    <2>8. alone => AlignedWith(r)'
        BY <2>2 DEF AlignedWith, Aligned, IInv
    <2> QED
        BY <2>6, <2>7, <2>8, ReadsKeeps
<1> QED
    BY <1>1, <1>2

LEMMA SaveFailsKeeps ==
    ASSUME IInv, NEW p \in Procs, SaveFails(p)
    PROVE  Static' /\ Stored' /\ Kept' /\ Aligned'
<1> USE DEF SaveFails, Fault, At
<1>1. proc[p] \in Process /\ proc[p].k = 1
    BY DEF IInv, TypeOK, Static, PlacedAt, Describing, Saving
<1>2. PICK r \in Process :
          /\ r.pc = "unsaved" /\ r.k = proc[p].k /\ r.copy = proc[p].copy
          /\ r = [proc[p] EXCEPT !.pc = "unsaved"]
    BY <1>1, NextRecord DEF Pcs
<1>3. Become(p, r)
    BY <1>2 DEF Goto
<1>4. PlacedAt(r)
    BY <1>1, <1>2 DEF PlacedAt, Outside, Extracting, Describing, Saving
<1>5. SeenBy(r)
    BY <1>2 DEF SeenBy, Extracting, Describing, Saving, IInv, Static
<1>6. Reads(p, r)
    BY <1>2, <1>3, <1>4, <1>5
       DEF Reads, Extracting, Describing, Saving, IInv, Static, RecordedBy
<1>7. alone \/ ~removed => KeptFor(r)
    BY <1>2 DEF KeptFor, Extracting, Describing, Saving, IInv, Kept
<1>8. alone => AlignedWith(r)'
    BY <1>2 DEF AlignedWith, Saving, Aligned, IInv
<1> QED
    BY <1>6, <1>7, <1>8, ReadsKeeps
-----------------------------------------------------------------------------
(* The steps that change packages.                                         *)

\* Files that are there stay, and those that are whole stay whole.
Grows ==
    /\ \A n \in Names : packages[n] # "none" => packages'[n] # "none"
    /\ \A i \in 1..Len(bundle) :
           packages[bundle[i].name] = bundle[i].data =>
               packages'[bundle[i].name] = bundle[i].data

LEMMA KeptGrows ==
    ASSUME IInv, NEW p \in Procs, NEW r \in Process, Become(p, r), Grows,
           UNCHANGED <<bundle, file, alone, removed>>,
           alone \/ ~removed => KeptFor(r)'
    PROVE  Kept'
<1> SUFFICES ASSUME alone \/ ~removed
             PROVE  /\ \A q \in Procs : KeptFor(proc[q])'
                    /\ file.status = "PREPARED" => IsWhole'
    BY DEF Kept
<1>1. proc'[p] = r /\ \A q \in Procs : q # p => proc'[q] = proc[q]
    BY BecomeFacts DEF IInv, TypeOK
<1>2. IsWhole => IsWhole'
    BY DEF IsWhole, Grows
<1>3. KeptFor(proc[p])'
    BY <1>1 DEF KeptFor
<1>4. ASSUME NEW q \in Procs, q # p PROVE KeptFor(proc[q])'
    <2>1. KeptFor(proc[q]) /\ proc'[q] = proc[q]
        BY <1>1, <1>4 DEF IInv, Kept
    <2>2. proc[q].pc = "copy" => bundle[proc[q].k].name \in Names
        BY MemberAt, MemberIn DEF IInv
    <2>3. proc[q].pc \in Extracting => \A i \in 1..(proc[q].k - 1) : i \in 1..Len(bundle)
        BY LengthIn DEF IInv, Static, PlacedAt
    <2> QED
        BY <1>2, <2>1, <2>2, <2>3 DEF KeptFor, Grows
<1> QED
    BY <1>2, <1>3, <1>4 DEF IInv, Kept

LEMMA CreateGrows ==
    ASSUME IInv, NEW p \in Procs, Create(p)
    PROVE  Grows
<1>1. proc[p].k \in 1..Len(bundle)
    BY MemberAt DEF Create, At, IInv
<1>2. Member(p).name \in Names
    BY <1>1, MemberIn DEF Member, IInv
<1>3. \A i \in 1..Len(bundle) : bundle[i].name \in Names /\ bundle[i].data # "none"
    BY MemberIn DEF IInv
<1> QED
    BY <1>2, <1>3 DEF Create, Grows, IInv, TypeOK

LEMMA CreateKeeps ==
    ASSUME IInv, NEW p \in Procs, Create(p)
    PROVE  Static' /\ Stored' /\ Kept' /\ Aligned'
<1> USE DEF Create, At
<1>1. CASE packages[Member(p).name] # "none"
    BY <1>1, RaisesKeeps DEF Raises
<1>2. CASE packages[Member(p).name] = "none"
    <2>1. proc[p] \in Process /\ proc[p].k \in 1..Len(bundle) /\ First(proc[p].k)
        BY MemberAt DEF IInv, TypeOK
    <2>2. PICK r \in Process :
              /\ r.pc = "copy" /\ r.k = proc[p].k /\ r.copy = proc[p].copy
              /\ r = [proc[p] EXCEPT !.pc = "copy"]
        BY <2>1, NextRecord DEF Pcs
    <2>3. /\ Become(p, r) /\ packages' = [packages EXCEPT ![bundle[r.k].name] = "torn"]
          /\ UNCHANGED <<bundle, file, manifest, alone, removed>>
        BY <1>2, <2>2 DEF Goto, Member
    <2>4. bundle[r.k].name \in Names /\ packages \in [Names -> Data \union {"none", "torn"}]
        BY <2>1, <2>2, MemberIn DEF IInv, TypeOK
    <2>5. PlacedAt(r)
        BY <2>1, <2>2, LengthIn DEF PlacedAt, Outside, Extracting, Describing, Saving, IInv
    <2>6. SeenBy(r)
        BY <2>2 DEF SeenBy, Extracting, Describing, Saving, IInv, Static
    <2>7. RecordedBy(r)
        BY <2>2 DEF RecordedBy, Extracting, Describing, Saving, IInv, Static
    <2>8. Static'
        BY <2>3, <2>5, <2>6, <2>7, StaticStep DEF IInv, Static
    <2>9. Stored'
        <3>1. \A i \in 1..Len(bundle) : bundle[i].name \in Names
            BY MemberIn DEF IInv
        <3> QED
            BY <2>3, <2>4, <3>1, SameBundle DEF Stored, IInv
    <2>10. alone \/ ~removed => KeptFor(r)'
        <3> SUFFICES ASSUME alone \/ ~removed PROVE KeptFor(r)'
            OBVIOUS
        <3>1. \A i \in 1..(r.k - 1) :
                  i \in 1..Len(bundle) /\ packages[bundle[i].name] = bundle[i].data
            BY <2>1, <2>2, LengthIn DEF IInv, Kept, KeptFor, Extracting
        <3>2. \A i \in 1..(r.k - 1) : packages'[bundle[i].name] = bundle[i].data
            BY <3>1, CreateGrows DEF Grows
        <3>3. r.copy.status = "ABSENT"
            BY <2>2 DEF IInv, Static, RecordedBy, Extracting
        <3> QED
            BY <2>2, <2>3, <2>4, <3>2, <3>3 DEF KeptFor, Extracting, Describing, Saving
    <2>11. Kept'
        BY <2>3, <2>10, CreateGrows, KeptGrows
    <2>12. alone => AlignedWith(r)'
        BY <2>2, <2>3 DEF AlignedWith, Saving, Aligned, IInv
    <2>13. Aligned'
        BY <2>3, <2>12, AlignedStep DEF Aligned, IInv
    <2> QED
        BY <2>8, <2>9, <2>11, <2>13
<1> QED
    BY <1>1, <1>2

LEMMA CopiedGrows ==
    ASSUME IInv, NEW p \in Procs, Copied(p)
    PROVE  Grows
<1>1. proc[p].k \in 1..Len(bundle) /\ First(proc[p].k)
    BY MemberAt DEF Copied, At, IInv
<1>2. Member(p).name \in Names /\ Member(p).data # "none"
    BY <1>1, MemberIn DEF Member, IInv
<1>3. ASSUME NEW i \in 1..Len(bundle), packages[bundle[i].name] = bundle[i].data
      PROVE  packages'[bundle[i].name] = bundle[i].data
    <2>1. bundle[i].name \in Names /\ bundle[i].data # "none"
        BY MemberIn DEF IInv
    <2>2. CASE bundle[i].name # Member(p).name
        BY <1>3, <2>1, <2>2 DEF Copied, IInv, TypeOK
    <2>3. CASE bundle[i].name = Member(p).name
        <3>1. PICK f \in 1..Len(bundle) : First(f) /\ bundle[f] = bundle[i]
            BY <1>3, StoredRepeats DEF Repeats
        <3>2. f \in Nat \ {0} /\ proc[p].k \in Nat \ {0}
            BY <1>1, LengthIn DEF IInv
        <3>3. f = proc[p].k
            BY <1>1, <2>3, <3>1, <3>2, FirstUnique DEF Member
        <3>4. Member(p).data = bundle[i].data
            BY <3>1, <3>3 DEF Member
        <3> QED
            BY <1>2, <1>3, <2>1, <2>3, <3>4 DEF Copied, IInv, TypeOK
    <2> QED
        BY <2>2, <2>3
<1>4. \A n \in Names : packages[n] # "none" => packages'[n] # "none"
    BY <1>2 DEF Copied, IInv, TypeOK
<1> QED
    BY <1>3, <1>4 DEF Grows

LEMMA CopiedKeeps ==
    ASSUME IInv, NEW p \in Procs, Copied(p)
    PROVE  Static' /\ Stored' /\ Kept' /\ Aligned'
<1> USE DEF At
<1> DEFINE k == proc[p].k
<1>1. proc[p] \in Process /\ k \in 1..Len(bundle) /\ First(k) /\ proc[p].pc = "copy"
    BY MemberAt DEF IInv, TypeOK, Copied
<1>2. PICK r \in Process :
          /\ r.pc = "extract" /\ r.k = k + 1 /\ r.copy = proc[p].copy
          /\ r = [proc[p] EXCEPT !.pc = "extract", !.k = @ + 1]
    BY <1>1, NextRecord
<1>3. /\ Become(p, r)
      /\ packages' = [packages EXCEPT ![bundle[k].name] =
                          IF @ = "none" THEN "none" ELSE bundle[k].data]
      /\ UNCHANGED <<bundle, file, manifest, alone, removed>>
    BY <1>2 DEF NextMember, Member, Copied
<1>4. /\ bundle[k].name \in Names /\ bundle[k].data # "none"
      /\ packages \in [Names -> Data \union {"none", "torn"}]
    BY <1>1, MemberIn DEF IInv, TypeOK
<1>5. \A i \in 1..(r.k - 1) : i = k \/ i \in 1..(k - 1)
    BY <1>1, <1>2
<1>6. PlacedAt(r)
    BY <1>1, <1>2, LengthIn DEF PlacedAt, Outside, Extracting, Describing, Saving, IInv
<1>7. SeenBy(r)
    BY <1>1, <1>2, <1>5 DEF SeenBy, Extracting, Describing, Saving, IInv, Static, Repeats
<1>8. RecordedBy(r) /\ r.copy.status = "ABSENT"
    BY <1>1, <1>2 DEF RecordedBy, Extracting, Describing, Saving, IInv, Static
<1>9. Static'
    BY <1>3, <1>6, <1>7, <1>8, StaticStep DEF IInv, Static
<1>10. Stored'
    <2>1. ASSUME NEW i \in 1..Len(bundle)
          PROVE  \/ packages'[bundle[i].name] \in {"none", "torn"}
                 \/ \E f \in 1..Len(bundle) :
                       /\ First(f) /\ bundle[f].name = bundle[i].name
                       /\ packages'[bundle[i].name] = bundle[f].data
        <3>1. bundle[i].name \in Names
            BY MemberIn DEF IInv
        <3>2. CASE bundle[i].name = bundle[k].name
            BY <1>1, <1>3, <1>4, <3>2
        <3>3. CASE bundle[i].name # bundle[k].name
            BY <1>3, <1>4, <3>1, <3>3 DEF IInv, Stored
        <3> QED
            BY <3>2, <3>3
    <2> QED
        BY <1>3, <2>1, SameBundle DEF Stored
<1>11. alone \/ ~removed => KeptFor(r)'
    <2> SUFFICES ASSUME alone \/ ~removed PROVE KeptFor(r)'
        OBVIOUS
    <2>1. /\ packages[bundle[k].name] # "none"
          /\ \A i \in 1..(k - 1) :
                 i \in 1..Len(bundle) /\ packages[bundle[i].name] = bundle[i].data
        BY <1>1, LengthIn DEF IInv, Kept, KeptFor, Extracting
    <2>2. packages'[bundle[k].name] = bundle[k].data
        BY <1>3, <1>4, <2>1
    <2>3. \A i \in 1..(k - 1) : packages'[bundle[i].name] = bundle[i].data
        BY <2>1, CopiedGrows DEF Grows
    <2> QED
        BY <1>2, <1>3, <1>5, <1>8, <2>2, <2>3 DEF KeptFor, Extracting, Describing, Saving
<1>12. Kept'
    BY <1>3, <1>11, CopiedGrows, KeptGrows
<1>13. alone => AlignedWith(r)'
    BY <1>1, <1>2, <1>3 DEF AlignedWith, Saving, Aligned, IInv
<1>14. Aligned'
    BY <1>1, <1>3, <1>13, AlignedStep DEF Aligned, IInv
<1> QED
    BY <1>9, <1>10, <1>12, <1>14

LEMMA RemoveKeeps ==
    ASSUME IInv, NEW p \in Procs, Remove(p)
    PROVE  Static' /\ Stored' /\ Kept' /\ Aligned'
<1> USE DEF Remove, At, IInv
<1>1. Static'
    <2>1. UNCHANGED <<bundle, proc, file>>
        OBVIOUS
    <2>2. ASSUME NEW q \in Procs
          PROVE  PlacedAt(proc[q])' /\ SeenBy(proc[q])' /\ RecordedBy(proc[q])'
        <3>1. PICK s : s = proc[q]
            OBVIOUS
        <3>2. PlacedAt(s)' /\ SeenBy(s)' /\ RecordedBy(s)'
            BY <2>1, <3>1, SameBundle DEF Static
        <3>3. PlacedAt(proc[q])'
            BY <2>1, <3>1, <3>2 DEF PlacedAt, First
        <3>4. SeenBy(proc[q])'
            BY <2>1, <3>1, <3>2 DEF SeenBy
        <3>5. RecordedBy(proc[q])'
            BY <2>1, <3>1, <3>2 DEF RecordedBy
        <3> QED
            BY <3>3, <3>4, <3>5
    <2>3. file'.status = "PREPARED" => Acceptable(bundle)'
        BY <2>1 DEF Static, Acceptable
    <2> QED
        BY <2>2, <2>3 DEF Static
<1>2. Stored'
    <2>1. \A i \in 1..Len(bundle) : bundle[i].name \in Names
        BY MemberIn
    <2>2. \A n \in Names : packages'[n] \in {packages[n], "none"}
        BY DEF TypeOK
    <2>3. Stored /\ bundle' = bundle
        OBVIOUS
    <2> QED
        BY <2>1, <2>2, <2>3, StoredFalls
<1>3. alone => /\ file.status = "CONTENT_DUPLICATE"
               /\ \A q \in Procs : proc[q].pc \in {"idle", "rmtree"}
    BY DEF Aligned, AlignedWith
<1>4. \A q \in Procs : proc[q].pc \in {"idle", "rmtree"} => proc[q].copy.status = "ABSENT"
    BY DEF Static, RecordedBy
<1>5. Kept'
    BY <1>3, <1>4 DEF Kept, KeptFor, Extracting, Describing, Saving
<1>6. Aligned'
    BY <1>3 DEF Aligned, AlignedWith, Saving
<1> QED
    BY <1>1, <1>2, <1>5, <1>6
-----------------------------------------------------------------------------
(* The invariant, and the theorems. *)

LEMMA InvInit == Init => IInv
<1> SUFFICES ASSUME Init PROVE IInv
    OBVIOUS
<1>1. TypeOK
    BY TypeInit
<1>2. \A p \in Procs : proc[p] = Idle
    BY DEF Init
<1>3. file.status = "ABSENT" /\ Idle.pc = "idle" /\ Idle.k = 1 /\ Idle.copy.status = "ABSENT"
    BY DEF Init, EmptyState, Idle
<1>4. Static
    BY <1>2, <1>3 DEF Static, PlacedAt, SeenBy, RecordedBy, Outside, Extracting, Describing, Saving
<1>5. Stored
    BY <1>1, MemberIn DEF Init, Stored
<1>6. Kept
    BY <1>2, <1>3 DEF Kept, KeptFor, Extracting, Describing, Saving
<1>7. Aligned
    BY <1>2, <1>3 DEF Aligned, AlignedWith, Saving
<1> QED
    BY <1>1, <1>4, <1>5, <1>6, <1>7 DEF IInv

LEMMA InvStep == IInv /\ [Next]_vars => IInv'
<1> SUFFICES ASSUME IInv, [Next]_vars PROVE IInv'
    OBVIOUS
<1>1. TypeOK'
    BY TypeStep DEF IInv
<1>2. ASSUME NEW p \in Procs, Start(p) \/ Step(p) \/ Kill(p) \/ IOError(p) \/ SaveFails(p)
      PROVE  Static' /\ Stored' /\ Kept' /\ Aligned'
    <2>1. CASE \/ Discover(p) \/ DiscoverFails(p) \/ OpenPart(p) \/ Leftover(p)
               \/ DownloadFails(p)
               \/ \E got \in {"short", "whole"} : Complete(p, got)
               \/ Removed(p) \/ Kill(p) \/ IOError(p)
        BY <2>1, OutsideSteps
    <2>2. CASE Start(p)  BY <2>2, StartKeeps
    <2>3. CASE NoChange(p) \/ SavePrepared(p) \/ SaveDuplicate(p) \/ Fail(p) \/ FailUnsaved(p)
        BY <2>3, SavesKeep
    <2>4. CASE Check(p)  BY <2>4, CheckKeeps
    <2>5. CASE Compare(p)  BY <2>5, CompareKeeps
    <2>6. CASE Look(p)  BY <2>6, LookKeeps
    <2>7. CASE Create(p)  BY <2>7, CreateKeeps
    <2>8. CASE Copied(p)  BY <2>8, CopiedKeeps
    <2>9. CASE Extracted(p)  BY <2>9, ExtractedKeeps
    <2>10. CASE Classify(p)  BY <2>10, ClassifyKeeps
    <2>11. CASE Described(p)  BY <2>11, DescribedKeeps
    <2>12. CASE Judge(p)  BY <2>12, JudgeKeeps
    <2>13. CASE Remove(p)  BY <2>13, RemoveKeeps
    <2>14. CASE SaveFails(p)  BY <2>14, SaveFailsKeeps
    <2> QED
        BY <1>2, <2>1, <2>2, <2>3, <2>4, <2>5, <2>6, <2>7, <2>8, <2>9, <2>10, <2>11, <2>12,
           <2>13, <2>14 DEF Step
<1>3. CASE UNCHANGED vars
    <2> USE <1>3 DEF vars, disk, IInv
    <2>1. Static'
        BY SameBundle DEF Static, PlacedAt, SeenBy, RecordedBy, First, Repeats, Ambiguous,
                          Planned, Extracts
    <2>2. Kept' /\ Aligned'
        BY DEF Kept, KeptFor, IsWhole, Aligned, AlignedWith
    <2> QED
        BY <1>1, <2>1, <2>2, StoredSame
<1> QED
    BY <1>1, <1>2, <1>3, InstallKeeps DEF Next, IInv

LEMMA Invariant == Spec => []IInv
BY InvInit, InvStep, PTL DEF Spec

\* The types hold: processes, files and faults stay in their ranges
\* (safe_extract_packages never looks at a member that is not there).
THEOREM TypeCorrect == Spec => []TypeOK
BY Invariant, PTL DEF IInv

\* For any archive and any number of processes, kills and errors, a PREPARED
\* archive is acceptable and whole in its work directory unless overlapping
\* processes removed from it, and one process at a time has its manifest whole too.
THEOREM PreparedAlwaysWhole == Spec => []PreparedIsWhole
<1>1. IInv => PreparedIsWhole
    BY DEF IInv, Static, Kept, Aligned, PreparedIsWhole
<1> QED
    BY <1>1, Invariant, PTL

\* No step changes a package that is whole, except the removal of its directory:
\* processes that extract the same archive write the same data.
THEOREM WholeAlwaysStays == Spec => WholeStays
<1> DEFINE Stays ==
        \A i \in 1..Len(bundle) :
            packages[bundle[i].name] = bundle[i].data =>
                packages'[bundle[i].name] \in {bundle[i].data, "none"}
<1>1. IInv /\ [Next]_vars => [Stays]_vars
    <2> SUFFICES ASSUME IInv, Next PROVE Stays
        OBVIOUS
    <2>1. CASE \E p \in Procs : Create(p) \/ Copied(p)
        BY <2>1, CreateGrows, CopiedGrows DEF Grows
    <2>2. CASE \E p \in Procs : Remove(p)
        <3>1. \A i \in 1..Len(bundle) : bundle[i].name \in Names
            BY MemberIn DEF IInv
        <3>2. \A n \in Names : packages'[n] \in {packages[n], "none"}
            BY <2>2 DEF Remove, IInv, TypeOK
        <3> QED
            BY <3>1, <3>2
    <2>3. CASE packages' = packages
        BY <2>3
    <2>4. ASSUME NEW p \in Procs, Step(p)
          PROVE  packages' = packages \/ Create(p) \/ Copied(p) \/ Remove(p)
        BY <2>4 DEF Step, Discover, DiscoverFails, OpenPart, Leftover, DownloadFails, Complete,
                    NoChange, Check, Compare, Look, Extracted, Classify, Described, Judge,
                    SavePrepared, SaveDuplicate, Removed, Fail, FailUnsaved, Save,
                    UnchangedButProc, disk
    <2>5. packages' = packages \/ \E p \in Procs : Create(p) \/ Copied(p) \/ Remove(p)
        BY <2>4 DEF Next, Install, Start, Kill, IOError, SaveFails, Fault, disk
    <2> QED
        BY <2>1, <2>2, <2>3, <2>5
<1>2. Spec => [][Stays]_vars
    BY <1>1, Invariant, PTL DEF Spec
<1> QED
    BY <1>2 DEF WholeStays
-----------------------------------------------------------------------------
(* The refinement. *)

InRun(r) == r.pc \notin {"idle", "rmtree"}
CopyOf(r) == IF InRun(r) THEN r.copy ELSE EmptyState

\* What a step of a process is to the rest of the agent.
LEMMA Seen ==
    ASSUME TypeOK, NEW p \in Procs, NEW r, Become(p, r), bundle' = bundle
    PROVE  /\ Running' = IF InRun(r) THEN Running \cup {p} ELSE Running \ {p}
           /\ Copies' = [Copies EXCEPT ![p] = CopyOf(r)]
           /\ Acceptable(bundle)' <=> Acceptable(bundle)
           /\ p \in Running <=> InRun(proc[p])
           /\ Copies[p] = CopyOf(proc[p])
<1>1. proc' = [q \in Procs |-> IF q = p THEN r ELSE proc[q]]
    BY DEF TypeOK, Become
<1>2. Acceptable(bundle)' <=> Acceptable(bundle)
    BY DEF Acceptable
<1>3. Running' = IF InRun(r) THEN Running \cup {p} ELSE Running \ {p}
    BY <1>1 DEF Running, InRun
<1>4. Copies' = [q \in Procs |-> IF q = p THEN CopyOf(r) ELSE Copies[q]]
    <2>1. \A q \in Procs : q # p => (q \in Running' <=> q \in Running) /\ proc'[q] = proc[q]
        BY <1>1, <1>3
    <2>2. proc'[p] = r /\ (p \in Running' <=> InRun(r))
        BY <1>1, <1>3
    <2> QED
        BY <2>1, <2>2 DEF Copies, CopyOf
<1>5. Copies' = [Copies EXCEPT ![p] = CopyOf(r)]
    BY <1>4 DEF Copies
<1> QED
    BY <1>2, <1>3, <1>5 DEF Running, Copies, CopyOf, InRun

\* A step within a run, or beside all runs.
LEMMA Unseen ==
    ASSUME TypeOK, NEW p \in Procs, NEW r, Become(p, r), bundle' = bundle, file' = file,
           InRun(r) <=> InRun(proc[p]), InRun(r) => r.copy = proc[p].copy
    PROVE  UNCHANGED Monitor!vars
<1>1. /\ Running' = IF InRun(r) THEN Running \cup {p} ELSE Running \ {p}
      /\ Copies' = [Copies EXCEPT ![p] = CopyOf(r)]
      /\ Acceptable(bundle)' <=> Acceptable(bundle)
      /\ p \in Running <=> InRun(proc[p])
      /\ Copies[p] = CopyOf(proc[p])
    BY Seen
<1>2. Running' = Running
    BY <1>1
<1>3. Copies' = Copies
    BY <1>1 DEF Copies, CopyOf
<1>4. Acceptable(bundle)' = Acceptable(bundle)
    BY DEF Acceptable
<1> QED
    BY <1>2, <1>3, <1>4 DEF Monitor!vars

\* The end of a run.
LEMMA Stops ==
    ASSUME TypeOK, NEW p \in Procs, NEW r, Become(p, r), bundle' = bundle,
           ~InRun(r), InRun(proc[p])
    PROVE  Monitor!Stop(p) /\ Copies[p] = proc[p].copy
<1>1. /\ Running' = Running \ {p} /\ Copies' = [Copies EXCEPT ![p] = EmptyState]
      /\ p \in Running /\ Copies[p] = proc[p].copy
    BY Seen DEF CopyOf
<1>2. Acceptable(bundle)' = Acceptable(bundle)
    BY DEF Acceptable
<1> QED
    BY <1>1, <1>2 DEF Monitor!Stop, Monitor!Nothing, EmptyState

\* The steps within a run.
LEMMA InnerSteps ==
    ASSUME TypeOK, NEW p \in Procs, Step(p) \/ IOError(p) \/ SaveFails(p), ~Remove(p),
           ~NoChange(p), ~Fail(p), ~FailUnsaved(p), ~SavePrepared(p), ~SaveDuplicate(p)
    PROVE  \E r : /\ Become(p, r) /\ UNCHANGED <<bundle, file>>
                  /\ InRun(r) <=> InRun(proc[p])
                  /\ InRun(r) => r.copy = proc[p].copy
<1> DEFINE s == proc[p]
           Inner == \E r : /\ Become(p, r) /\ InRun(r) /\ r.copy = s.copy
<1>1. s \in Process
    BY DEF TypeOK
<1>2. ASSUME Raise(p) PROVE Inner
    <2>1. LET r == [Idle EXCEPT !.pc = "failed", !.copy = s.copy] IN InRun(r) /\ r.copy = s.copy
        BY DEF Idle, InRun
    <2> QED
        BY <1>2, <2>1 DEF Raise
<1>3. ASSUME NEW pc \in Pcs \ {"idle", "rmtree"}, Goto(p, pc) PROVE Inner
    <2>1. LET r == [s EXCEPT !.pc = pc] IN InRun(r) /\ r.copy = s.copy
        BY <1>1 DEF Process, InRun
    <2> QED
        BY <1>3, <2>1 DEF Goto
<1>4. ASSUME NextMember(p) PROVE Inner
    <2>1. LET r == [s EXCEPT !.pc = "extract", !.k = @ + 1] IN InRun(r) /\ r.copy = s.copy
        BY <1>1 DEF Process, InRun
    <2> QED
        BY <1>4, <2>1 DEF NextMember
<1>5. ASSUME NEW pc \in Pcs \ {"idle", "rmtree"}, Retry(p, pc) PROVE Inner
    <2>1. LET r == [s EXCEPT !.pc = pc, !.attempt = @ + 1] IN InRun(r) /\ r.copy = s.copy
        BY <1>1 DEF Process, InRun
    <2> QED
        BY <1>2, <1>5, <2>1 DEF Retry
<1>a. ASSUME NEW r, Become(p, r), InRun(r), r.copy = s.copy PROVE Inner
    BY <1>a
<1> HIDE DEF Inner
<1>6. ASSUME Discover(p) \/ DiscoverFails(p) \/ OpenPart(p) \/ Leftover(p) \/ DownloadFails(p)
      PROVE  Inner /\ InRun(s) /\ UNCHANGED <<bundle, file>>
    <2>1. InRun(s) /\ UNCHANGED <<bundle, file>>
        BY <1>6 DEF Discover, DiscoverFails, OpenPart, Leftover, DownloadFails, UnchangedButProc,
                    At, InRun
    <2>2. CASE Discover(p)
        <3>1. LET r == [s EXCEPT !.pc = "download", !.attempt = 1] IN InRun(r) /\ r.copy = s.copy
            BY <1>1 DEF Process, InRun
        <3> QED
            BY <2>1, <2>2, <3>1, <1>a DEF Discover
    <2>3. CASE DiscoverFails(p)
        <3>1. "page" \in Pcs \ {"idle", "rmtree"} /\ (Retry(p, "page") \/ Raise(p))
            BY <2>3 DEF DiscoverFails, Pcs
        <3> QED
            BY <2>1, <3>1, <1>2, <1>5
    <2>4. CASE OpenPart(p)
        <3>1. "stream" \in Pcs \ {"idle", "rmtree"} /\ Goto(p, "stream")
            BY <2>4 DEF OpenPart, Pcs
        <3> QED
            BY <2>1, <3>1, <1>3
    <2>5. CASE Leftover(p)
        BY <2>1, <2>5, <1>2 DEF Leftover
    <2>6. CASE DownloadFails(p)
        <3>1. "download" \in Pcs \ {"idle", "rmtree"} /\ (Retry(p, "download") \/ Raise(p))
            BY <2>6 DEF DownloadFails, Pcs
        <3> QED
            BY <2>1, <3>1, <1>2, <1>5
    <2> QED
        BY <1>6, <2>1, <2>2, <2>3, <2>4, <2>5, <2>6
<1>7. ASSUME (\E got \in {"short", "whole"} : Complete(p, got)) \/ Check(p)
      PROVE  Inner /\ InRun(s) /\ UNCHANGED <<bundle, file>>
    <2>1. InRun(s) /\ UNCHANGED <<bundle, file>>
        BY <1>7 DEF Complete, Check, UnchangedButProc, At, InRun
    <2>2. ASSUME NEW got \in {"short", "whole"}, Complete(p, got) PROVE Inner
        <3>1. LET r == [s EXCEPT !.pc = "check", !.attempt = 1, !.got = got]
              IN InRun(r) /\ r.copy = s.copy
            BY <1>1 DEF Process, InRun
        <3> QED
            BY <2>2, <3>1, <1>a DEF Complete
    <2>3. CASE Check(p)
        <3>1. LET r == [s EXCEPT !.pc = "extract", !.got = "none"] IN InRun(r) /\ r.copy = s.copy
            BY <1>1 DEF Process, InRun
        <3>2. Become(p, [s EXCEPT !.pc = "extract", !.got = "none"]) \/ Raise(p)
            BY <2>3 DEF Check
        <3> QED
            BY <2>1, <1>2, <3>1, <3>2, <1>a
    <2> QED
        BY <1>7, <2>1, <2>2, <2>3
<1>8. ASSUME Compare(p) \/ Look(p) \/ Create(p) \/ Copied(p) \/ Extracted(p)
      PROVE  Inner /\ InRun(s) /\ UNCHANGED <<bundle, file>>
    <2>1. InRun(s) /\ UNCHANGED <<bundle, file>>
        BY <1>8 DEF Compare, Look, Create, Copied, Extracted, UnchangedButProc, At, InRun
    <2>2. CASE Compare(p)
        BY <2>1, <2>2, <1>2, <1>4 DEF Compare
    <2>3. CASE Look(p)
        <3>1. "create" \in Pcs \ {"idle", "rmtree"} /\ Goto(p, "create")
            BY <2>3 DEF Look, Pcs
        <3> QED
            BY <2>1, <3>1, <1>3
    <2>4. CASE Create(p)
        <3>1. "copy" \in Pcs \ {"idle", "rmtree"} /\ (Goto(p, "copy") \/ Raise(p))
            BY <2>4 DEF Create, Pcs
        <3> QED
            BY <2>1, <3>1, <1>2, <1>3
    <2>5. CASE Copied(p)
        BY <2>1, <2>5, <1>4 DEF Copied
    <2>6. CASE Extracted(p)
        <3>1. LET r == [s EXCEPT !.pc = "classify", !.k = 1] IN InRun(r) /\ r.copy = s.copy
            BY <1>1 DEF Process, InRun
        <3>2. Become(p, [s EXCEPT !.pc = "classify", !.k = 1]) \/ Raise(p)
            BY <2>6 DEF Extracted
        <3> QED
            BY <2>1, <1>2, <3>1, <3>2, <1>a
    <2> QED
        BY <1>8, <2>1, <2>2, <2>3, <2>4, <2>5, <2>6
<1>9. ASSUME Classify(p) \/ Described(p) \/ Judge(p)
      PROVE  Inner /\ InRun(s) /\ UNCHANGED <<bundle, file>>
    <2>1. InRun(s) /\ UNCHANGED <<bundle, file>>
        BY <1>9 DEF Classify, Described, Judge, UnchangedButProc, At, InRun
    <2>2. PICK pc \in {"manifest", "judge", "save"} : Goto(p, pc) \/ Raise(p)
        BY <1>9 DEF Classify, Described, Judge
    <2>3. pc \in Pcs \ {"idle", "rmtree"}
        BY <2>2 DEF Pcs
    <2> QED
        BY <2>1, <2>2, <2>3, <1>2, <1>3
<1>10. ASSUME IOError(p)
       PROVE  Inner /\ InRun(s) /\ UNCHANGED <<bundle, file>>
    BY <1>10, <1>2 DEF IOError, Fault, InRun
<1>b. ASSUME SaveFails(p)
      PROVE  Inner /\ InRun(s) /\ UNCHANGED <<bundle, file>>
    <2>1. "unsaved" \in Pcs \ {"idle", "rmtree"} /\ Goto(p, "unsaved")
        BY <1>b DEF SaveFails, Pcs
    <2>2. InRun(s) /\ UNCHANGED <<bundle, file>>
        BY <1>b DEF SaveFails, Fault, At, InRun
    <2> QED
        BY <2>1, <2>2, <1>3
<1>11. CASE Removed(p)
    <2>1. Become(p, Idle) /\ ~InRun(Idle) /\ ~InRun(s) /\ UNCHANGED <<bundle, file>>
        BY <1>11 DEF Removed, At, Idle, InRun, UnchangedButProc
    <2> QED
        BY <2>1
<1>12. CASE ~Removed(p)
    <2>1. Inner /\ InRun(s) /\ UNCHANGED <<bundle, file>>
        BY <1>6, <1>7, <1>8, <1>9, <1>10, <1>b, <1>12 DEF Step
    <2> QED
        BY <2>1 DEF Inner
<1> QED
    BY <1>11, <1>12

LEMMA MonitorStarts == Init => Monitor!Init
<1> SUFFICES ASSUME Init PROVE Monitor!Init
    OBVIOUS
<1>1. Running = {}
    BY DEF Init, Running, Idle
<1>2. Copies = [p \in Procs |-> EmptyState]
    BY <1>1 DEF Copies
<1>3. Acceptable(bundle) \in BOOLEAN
    BY DEF Acceptable
<1> QED
    BY <1>1, <1>2, <1>3 DEF Monitor!Init, Monitor!Nothing, EmptyState, Init

\* Every step is one of the contract, or unseen.
LEMMA MonitorSteps == IInv /\ [Next]_vars => [Monitor!Next]_(Monitor!vars)
<1> SUFFICES ASSUME IInv, [Next]_vars PROVE Monitor!Next \/ UNCHANGED Monitor!vars
    OBVIOUS
<1>1. TypeOK /\ Static
    BY DEF IInv
<1>2. CASE Install
    <2>1. Running' = Running /\ Copies' = Copies
        BY <1>2 DEF Install, Running, Copies
    <2>2. Acceptable(bundle)' = Acceptable(bundle)
        BY <1>2 DEF Install, Acceptable
    <2> QED
        BY <1>2, <2>1, <2>2 DEF Install, Monitor!Install, Monitor!Next
<1>3. ASSUME NEW p \in Procs, Start(p) PROVE Monitor!Start(p)
    <2> DEFINE r == [Idle EXCEPT !.pc = "page", !.copy = file]
    <2>1. InRun(r) /\ r.copy = file /\ ~InRun(proc[p]) /\ Become(p, r)
        BY <1>3 DEF Start, At, Idle, InRun
    <2> HIDE DEF r
    <2>2. UNCHANGED <<bundle, file>>
        BY <1>3 DEF Start
    <2>3. p \notin Running /\ Running' = Running \cup {p} /\ Copies' = [Copies EXCEPT ![p] = file]
        BY <1>1, <2>1, <2>2, Seen DEF CopyOf
    <2>4. Acceptable(bundle)' = Acceptable(bundle)
        BY <2>2 DEF Acceptable
    <2> QED
        BY <2>2, <2>3, <2>4 DEF Monitor!Start
<1>4. ASSUME NEW p \in Procs, Kill(p) PROVE Monitor!Kill(p) \/ UNCHANGED Monitor!vars
    <2>1. Become(p, Idle) /\ ~InRun(Idle) /\ UNCHANGED <<bundle, file>>
        BY <1>4 DEF Kill, Fault, Idle, InRun
    <2>2. CASE InRun(proc[p])
        BY <1>1, <2>1, <2>2, Stops DEF Monitor!Kill
    <2>3. CASE ~InRun(proc[p])
        BY <1>1, <2>1, <2>3, Unseen
    <2> QED
        BY <2>2, <2>3
<1>5. ASSUME NEW p \in Procs, NoChange(p) \/ Fail(p) PROVE Monitor!Keep(p)
    <2>1. Become(p, Idle) /\ ~InRun(Idle) /\ InRun(proc[p]) /\ file' = proc[p].copy
          /\ bundle' = bundle
        BY <1>5 DEF NoChange, Fail, Save, Idle, InRun, At
    <2> QED
        BY <1>1, <2>1, Stops DEF Monitor!Keep
<1>6. ASSUME NEW p \in Procs, SavePrepared(p) \/ SaveDuplicate(p) \/ FailUnsaved(p)
      PROVE  Monitor!Prepare(p) \/ Monitor!Duplicate(p)
    <2>1. proc[p].pc \in Saving /\ InRun(proc[p]) /\ bundle' = bundle
        BY <1>6 DEF SavePrepared, SaveDuplicate, FailUnsaved, Save, At, InRun, Saving
    <2>2. Acceptable(bundle)
        BY <1>1, <2>1, JudgedIsAcceptable DEF Static
    <2>3. proc[p].copy.status = "ABSENT"
        BY <1>1, <2>1 DEF Static, RecordedBy, Describing
    <2>4. PICK r \in {Idle, [Idle EXCEPT !.pc = "rmtree"]} :
              /\ Become(p, r)
              /\ \/ /\ ~proc[p].copy.other
                    /\ file' = [proc[p].copy EXCEPT !.status = "PREPARED"]
                 \/ /\ proc[p].copy.other
                    /\ file' = [proc[p].copy EXCEPT !.status = "CONTENT_DUPLICATE"]
        BY <1>6 DEF SavePrepared, SaveDuplicate, FailUnsaved, Save
    <2>5. ~InRun(r)
        BY DEF Idle, InRun
    <2>6. Monitor!Stop(p) /\ Copies[p] = proc[p].copy
        BY <1>1, <2>1, <2>4, <2>5, Stops
    <2> QED
        BY <2>2, <2>3, <2>4, <2>6 DEF Monitor!Prepare, Monitor!Duplicate, Monitor!Add
<1>7. ASSUME NEW p \in Procs, Step(p) \/ IOError(p) \/ SaveFails(p),
             ~NoChange(p), ~Fail(p), ~FailUnsaved(p), ~SavePrepared(p), ~SaveDuplicate(p)
      PROVE  UNCHANGED Monitor!vars
    <2>1. CASE Remove(p)
        BY <2>1 DEF Remove, Monitor!vars, Running, Copies, Acceptable
    <2>2. CASE ~Remove(p)
        <3>1. PICK r : /\ Become(p, r) /\ UNCHANGED <<bundle, file>>
                       /\ InRun(r) <=> InRun(proc[p])
                       /\ InRun(r) => r.copy = proc[p].copy
            BY <1>1, <1>7, <2>2, InnerSteps
        <3> QED
            BY <1>1, <3>1, Unseen
    <2> QED
        BY <2>1, <2>2
<1>8. CASE UNCHANGED vars
    BY <1>8 DEF vars, Monitor!vars, Running, Copies, Acceptable
<1>9. ASSUME NEW p \in Procs, Start(p) \/ Step(p) \/ Kill(p) \/ IOError(p) \/ SaveFails(p)
      PROVE  Monitor!Next \/ UNCHANGED Monitor!vars
    BY <1>3, <1>4, <1>5, <1>6, <1>7, <1>9 DEF Monitor!Next
<1> QED
    BY <1>2, <1>8, <1>9 DEF Next, Monitor!Next

\* Acquisition implements the contract AgentLifecycle makes one step of: whatever any number
\* of processes does on the way, a run_agent_once changes the state file once, at its end.
THEOREM AlwaysImplementsMonitor == Spec => ImplementsMonitor
BY MonitorStarts, MonitorSteps, Invariant, PTL DEF Spec, ImplementsMonitor, Monitor!Spec
===============================================================================
