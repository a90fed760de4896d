--------------------------- MODULE BackupTest_proofs ---------------------------
(***************************************************************************)
(* The safety properties of the backup test for any size of the backup,    *)
(* any stability interval and timeout, and any number of uploads.          *)
(***************************************************************************)
EXTENDS BackupTest, TLAPS

LEMMA Sizes ==
    /\ Blocks \in Nat /\ Blocks > 0 /\ Stable \in Nat /\ Stable > 0
    /\ Timeout \in Nat /\ Timeout > 0 /\ MaxUploads \in Nat /\ MaxUploads > 0
BY UploadAssumption

(* Type correctness. *)

LEMMA TypeInit == Init => TypeOK
<1> SUFFICES ASSUME Init PROVE TypeOK
    OBVIOUS
<1>1. file \in NoFile..Blocks /\ uploads \in 0..MaxUploads /\ still \in 0..Stable
    BY Sizes DEF Init, TransferInit, NoFile
<1>2. now \in 0..Timeout /\ last \in -1..Blocks /\ since \in NoTime..Timeout
    BY Sizes DEF Init, TransferInit, NoTime
<1>3. store \in {NoFile, Earlier, Damaged} \union 0..Blocks /\ pc \in Pcs
    BY DEF Init, Pcs
<1> QED
    BY <1>1, <1>2, <1>3 DEF Init, TransferInit, TypeOK

LEMMA TypeDevice == TypeOK /\ DeviceStep => TypeOK'
<1> SUFFICES ASSUME TypeOK, DeviceStep PROVE TypeOK'
    OBVIOUS
<1> USE Sizes DEF TypeOK, NoFile, NoTime, watch
<1>1. CASE Request  BY <1>1 DEF Request, DeviceStep
<1>2. CASE Grow
    <2>1. file' \in NoFile..Blocks /\ still' \in 0..Stable
        BY <1>2 DEF Grow
    <2> QED
        BY <1>2, <2>1 DEF Grow, DeviceStep
<1>3. CASE Complete
    <2>1. file' \in NoFile..Blocks /\ still' \in 0..Stable
        BY <1>3 DEF Complete
    <2> QED
        BY <1>3, <2>1 DEF Complete, DeviceStep
<1>4. CASE Abort  BY <1>4 DEF Abort, DeviceStep
<1>5. CASE ServerFails  BY <1>5 DEF ServerFails, DeviceStep
<1> QED
    BY <1>1, <1>2, <1>3, <1>4, <1>5 DEF DeviceStep, Device

LEMMA TypeStep == TypeOK /\ [Next]_vars => TypeOK'
<1> SUFFICES ASSUME TypeOK, [Next]_vars PROVE TypeOK'
    OBVIOUS
<1> USE Sizes
    DEF TypeOK, NoFile, NoTime, Earlier, Damaged, Pcs, Goto, watch, transfer
<1>1. CASE Check \/ Reserve \/ Command \/ Take \/ Verify
    BY <1>1 DEF Check, Reserve, Command, Take, Verify
<1>2. CASE Listen \/ GiveUp \/ Stop
    BY <1>2 DEF Listen, GiveUp, Stop
<1>3. CASE Wait
    <2>1. CASE Tick  BY <1>3, <2>1 DEF Wait, Tick
    <2>2. CASE LookMoved  BY <1>3, <2>2 DEF Wait, LookMoved
    <2>3. CASE LookSame  BY <1>3, <2>3 DEF Wait, LookSame, Looks
    <2> QED
        BY <1>3, <2>1, <2>2, <2>3 DEF Wait
<1>4. CASE Copy \/ Report \/ Cleanup
    <2>1. CASE Copy  BY <2>1 DEF Copy
    <2>2. CASE Report  BY <2>2 DEF Report
    <2>3. CASE Cleanup  BY <2>3 DEF Cleanup
    <2> QED
        BY <1>4, <2>1, <2>2, <2>3
<1>5. CASE Raise
    <2>1. file' \in NoFile..Blocks /\ report' \in {"none", "PASS"}
        BY <1>5 DEF Raise
    <2>2. store' \in {NoFile, Earlier, Damaged} \union 0..Blocks
        BY <1>5 DEF Raise
    <2> QED
        BY <1>5, <2>1, <2>2 DEF Raise
<1>6. CASE DeviceStep
    BY <1>6, TypeDevice
<1>7. CASE UNCHANGED vars
    BY <1>7 DEF vars
<1> QED
    BY <1>1, <1>2, <1>3, <1>4, <1>5, <1>6, <1>7 DEF Next, Step

\* The types of all variables hold in every reachable state.
THEOREM TypeCorrect == Spec => []TypeOK
BY TypeInit, TypeStep, PTL DEF Spec
-----------------------------------------------------------------------------
(* What a size that does not change says. *)

\* While the server is not up nothing can be written, and before the first upload
\* there is no file.
Quiet ==
    /\ open => server = "up" /\ file \in 0..(Blocks - 1) /\ uploads > 0
    /\ server # "up" => ~open
    /\ pc \in {"check", "reserve", "listen"} => server = "down" /\ uploads = 0
    /\ pc \in {"copy", "verify", "report", "cleanup", "done", "raised"} => server = "down"
    /\ uploads = 0 => file = NoFile

\* One upload only grows, until its file is removed: the size seen last is a lower
\* bound, and an equal size has been there since stable_since.
Growing ==
    pc \in {"check", "reserve", "listen", "command", "wait"} =>
        /\ uploads <= 1 => last <= file
        /\ since # NoTime => since <= now
        /\ uploads <= 1 /\ since # NoTime /\ file = last =>
              still = Stable \/ still >= now - since

\* An unfinished file that stood still has paused.
Pauses == still = Stable /\ 0 < file /\ file < Blocks => paused

\* What makes a size worth something.
Backed(size) == size = Blocks \/ paused \/ uploads > 1

TakenIsBacked ==
    /\ pc \in {"stop", "copy", "verify"} => Backed(file)
    /\ pc = "report" \/ report = "PASS" => store > 0 /\ Backed(store)
    /\ report = "PASS" => pc \in {"cleanup", "done", "raised"}

UploadInv == TypeOK /\ Quiet /\ Growing /\ Pauses /\ TakenIsBacked

LEMMA UploadInit == Init => UploadInv
<1> SUFFICES ASSUME Init PROVE UploadInv
    OBVIOUS
<1>1. TypeOK
    BY TypeInit
<1> QED
    BY <1>1, Sizes
    DEF Init, TransferInit, UploadInv, Quiet, Growing, Pauses, TakenIsBacked, NoFile, NoTime

\* A file that was taken is the whole backup, unless its upload paused or there
\* was more than one.
LEMMA TakenFile ==
    ASSUME UploadInv, Taken, pc = "wait"
    PROVE  file > 0 /\ Backed(file)
<1>1. file \in 1..Blocks /\ since \in 0..Timeout /\ now \in 0..Timeout /\ still \in 0..Stable
    BY Sizes DEF UploadInv, TypeOK, Taken, SameAsLast, NoFile, NoTime
<1>2. CASE uploads <= 1
    <2>1. still = Stable
        BY <1>1, <1>2, Sizes DEF UploadInv, Growing, Taken, SameAsLast
    <2> QED
        BY <1>1, <2>1, Sizes DEF UploadInv, Pauses, Backed
<1>3. CASE uploads > 1
    BY <1>1, <1>3 DEF Backed
<1> QED
    BY <1>2, <1>3 DEF UploadInv, TypeOK

LEMMA UploadDevice == UploadInv /\ DeviceStep => UploadInv'
<1> SUFFICES ASSUME UploadInv, DeviceStep PROVE UploadInv'
    OBVIOUS
<1>1. TypeOK'
    BY TypeDevice DEF UploadInv
<1> USE <1>1, Sizes
    DEF UploadInv, TypeOK, Quiet, Growing, Pauses, TakenIsBacked, Backed, NoFile, NoTime,
        watch, Pcs
<1>2. CASE Request  BY <1>2 DEF Request, DeviceStep
<1>3. CASE Grow  BY <1>3 DEF Grow, DeviceStep
<1>4. CASE Complete  BY <1>4 DEF Complete, DeviceStep
<1>5. CASE Abort  BY <1>5 DEF Abort, DeviceStep
<1>6. CASE ServerFails  BY <1>6 DEF ServerFails, DeviceStep
<1> QED
    BY <1>2, <1>3, <1>4, <1>5, <1>6 DEF DeviceStep, Device

LEMMA UploadWait == UploadInv /\ Wait => UploadInv'
<1> SUFFICES ASSUME UploadInv, Wait PROVE UploadInv'
    OBVIOUS
<1>1. TypeOK'
    BY TypeStep DEF UploadInv, Next, Step
<1> USE <1>1, Sizes
    DEF UploadInv, TypeOK, Quiet, Growing, Pauses, TakenIsBacked, Backed, NoFile, NoTime,
        transfer, Wait
<1>2. CASE Tick
    <2>1. Growing'
        BY <1>2 DEF Tick
    <2>2. Pauses'
        BY <1>2 DEF Tick
    <2>3. Quiet' /\ TakenIsBacked'
        BY <1>2 DEF Tick
    <2> QED
        BY <2>1, <2>2, <2>3
<1>3. CASE LookMoved  BY <1>3 DEF LookMoved
<1>4. CASE LookSame  BY <1>4 DEF LookSame, SameAsLast
<1> QED
    BY <1>2, <1>3, <1>4

LEMMA UploadStep == UploadInv /\ [Next]_vars => UploadInv'
<1> SUFFICES ASSUME UploadInv, [Next]_vars PROVE UploadInv'
    OBVIOUS
<1>1. TypeOK'
    BY TypeStep DEF UploadInv
<1>2. CASE Take
    <2>1. Backed(file)
        BY <1>2, TakenFile DEF Take, Goto
    <2> QED
        BY <1>1, <1>2, <2>1
        DEF UploadInv, Take, Quiet, Growing, Pauses, TakenIsBacked, Backed, Goto, watch,
            transfer
<1>3. CASE Wait
    BY <1>3, UploadWait
<1>4. CASE DeviceStep
    BY <1>4, UploadDevice
<1> USE <1>1, Sizes
    DEF UploadInv, TypeOK, Quiet, Growing, Pauses, TakenIsBacked, Backed, NoFile, NoTime,
        Earlier, Damaged, Goto, watch, transfer
<1>5. CASE Check \/ Reserve \/ Command
    BY <1>5 DEF Check, Reserve, Command
<1>6. CASE Listen \/ GiveUp \/ Stop
    BY <1>6 DEF Listen, GiveUp, Stop
<1>7. CASE Copy \/ Verify \/ Report
    BY <1>7 DEF Copy, Verify, Report
<1>8. CASE Cleanup
    <2>1. Quiet' /\ Growing' /\ Pauses'
        BY <1>8 DEF Cleanup
    <2>2. TakenIsBacked'
        BY <1>8 DEF Cleanup
    <2> QED
        BY <2>1, <2>2
<1>9. CASE Raise
    <2>1. Quiet' /\ Growing' /\ Pauses'
        BY <1>9 DEF Raise
    <2>2. TakenIsBacked'
        BY <1>9 DEF Raise
    <2> QED
        BY <2>1, <2>2
<1>10. CASE UNCHANGED vars
    BY <1>10 DEF vars
<1> QED
    BY <1>2, <1>3, <1>4, <1>5, <1>6, <1>7, <1>8, <1>9, <1>10 DEF Next, Step

\* A PASS stands for the whole backup, unless the upload paused for stable_seconds
\* or began anew, at every block size, interval and timeout.
THEOREM PassAlwaysBacked == Spec => []PassIsBacked
<1>1. UploadInv => PassIsBacked
    BY DEF UploadInv, TakenIsBacked, PassIsBacked, Backed
<1> QED
    BY UploadInit, UploadStep, <1>1, PTL DEF Spec
=============================================================================
