------------------------- MODULE ControlledApply_proofs -------------------------
(***************************************************************************)
(* The order of the apply's steps makes it safe, for any packages, device, *)
(* policy and outputs: packages are sent once and in order, the last       *)
(* backup is kept, and the whole is one apply of the coarse model.         *)
(***************************************************************************)
EXTENDS ControlledApply, NaturalSets

-----------------------------------------------------------------------------
(* The comparison of versions and the classification of a restore, for all versions *)
(* and outputs.                                                                     *)

\* A tuple of naturals does not come before itself.
LEMMA TupleLessIrreflexive ==
  ASSUME NEW t \in Seq(Nat)
  PROVE  ~ TupleLess(t, t)
<1>1. \A i \in DOMAIN t : ~ (t[i] < t[i])
  OBVIOUS
<1> QED BY <1>1 DEF TupleLess

\* _version_tuple yields a tuple of naturals.
LEMMA VersionTupleIn ==
  ASSUME NEW v \in Seq(Nat)
  PROVE  VersionTuple(v) \in Seq(Nat)
<1>1. CASE Len(v) < 2
  BY <1>1 DEF VersionTuple, NoVersion
<1>2. CASE ~ (Len(v) < 2)
  <2> DEFINE kept == {1} \union {i \in DOMAIN v : v[i] # 0}
             last == CHOOSE n \in kept : \A i \in kept : i <= n
  <2>1. /\ Len(v) \in Nat /\ kept \subseteq 1..Len(v) /\ kept # {} /\ kept \subseteq Nat
    BY <1>2
  <2>2. IsFiniteSet(kept)
    <3>1. IsFiniteSet(1..Len(v))
      BY <2>1, FS_Interval
    <3> HIDE DEF kept
    <3> QED BY <2>1, <3>1, FS_Subset
  <2> HIDE DEF kept
  <2>3. PICK x \in kept : \A y \in kept : x >= y
    BY <2>1, <2>2, GreatestElement
  <2>4. \A y \in kept : y <= x
    BY <2>1, <2>3
  <2>5. last \in kept
    BY <2>4, Zenon
  <2> HIDE DEF last
  <2>6. last \in 1..Len(v)
    BY <2>1, <2>5
  <2>7. SubSeq(v, 1, last) \in Seq(Nat)
    BY <2>6
  <2>8. VersionTuple(v) = SubSeq(v, 1, last)
    BY <1>2, Zenon DEF VersionTuple, last, kept
  <2> QED BY <2>7, <2>8
<1> QED BY <1>1, <1>2

\* A restore that ended in return code 49 and left its objects' versions as they were blocks:
\* it is no success and no no-op.
LEMMA UnchangedIsNoSuccess ==
  ASSUME NEW expected, NEW was, NEW after, NEW output, NEW preventDowngrade,
         \A o \in expected : was[o] = after[o] /\ after[o] \in Seq(Nat),
         output.code = "49"
  PROVE  Classify(expected, was, after, output, preventDowngrade) \in Blocking
<1>1. ASSUME NEW o \in expected PROVE ~ Increased(o, was, after)
  <2>1. VersionTuple(after[o]) \in Seq(Nat) /\ VersionTuple(was[o]) = VersionTuple(after[o])
    BY VersionTupleIn
  <2>2. ~ TupleLess(VersionTuple(was[o]), VersionTuple(after[o]))
    BY <2>1, TupleLessIrreflexive
  <2> QED BY <2>1, <2>2 DEF Increased, Missing
<1>2. Classified(expected, was, after, output, preventDowngrade)
        \in {"FAILED", "FAILED_UNCONFIRMED"}
  BY <1>1 DEF Classified
<1>3. ~ AlreadyCurrent(expected, was, after, output)
  BY DEF AlreadyCurrent
<1> QED BY <1>2, <1>3 DEF Classify, Blocking

\* What a result that does not block says of the versions.
LEMMA ResultFacts ==
  ASSUME NEW expected, NEW was, NEW after, NEW output, NEW preventDowngrade,
         Classify(expected, was, after, output, preventDowngrade) \notin Blocking
  PROVE  LET status == Classify(expected, was, after, output, preventDowngrade) IN
         /\ \/ /\ status \in {"SUCCESS", "SUCCESS_WITH_WARNING"}
               /\ \E o \in expected : Increased(o, was, after)
            \/ /\ status = "SKIPPED_NO_UPDATE"
               /\ \/ output.noUpdates
                  \/ \A o \in expected : was[o] = after[o] /\ after[o] # NoVersion
         /\ preventDowngrade => \A o \in expected : ~ Decreased(o, was, after)
BY DEF Classify, Classified, AlreadyCurrent, Blocking

-----------------------------------------------------------------------------
(* The order of the steps. *)

Early == {"accept", "verify", "preflight", "stage", "check", "listen", "backup"}
InSession == {"backup", "restore", "poll", "settle", "close"}

\* Nothing is sent or judged before the restores, and a server runs in the session only.
Phased ==
    /\ pc \in Early => sent = <<>> /\ \A g \in Files : results[g] = "none"
    /\ pc \in {"settle", "poll", "close"} => sent # <<>>
    /\ pc \in {"poll", "settle"} => attempt.file \in Files
    /\ server # "down" => pc \in InSession

\* The packages not yet sent are the selected ones.
Planned == pc \in Early \ {"accept"} => todo = Selected

\* There is a copy of the backup before the run directory goes.
BackedUp ==
    /\ ~config.requireBackup => backup = "none"
    /\ config.requireBackup /\ pc \in {"postflight", "save", "cleanup"} => store = backup

\* Packages are taken from todo in order, and only while none has failed.
InOrder ==
    /\ SentFiles \intersect todo = {}
    /\ \A g \in SentFiles, h \in todo : Earlier(g, h)
    /\ config.stopOnFailure /\ pc \in Early \union {"restore", "poll", "settle"} =>
            \A g \in Files : results[g] \notin Blocking

IInv == TypeOK /\ Phased /\ Planned /\ BackedUp /\ InOrder

-----------------------------------------------------------------------------

SentRecord == [file : Files, noUpdates : BOOLEAN]

LEMMA OutputFacts ==
  /\ Outputs \subseteq CommandOutput
  /\ NoAttempt \in [file : Files \union {NoFile}, output : CommandOutput, polls : 0..MaxPolls]
BY ApplyAssumption DEF NoAttempt, NoOutput, CommandOutput

LEMMA StatusFacts ==
  /\ \A e, b, a, o, p : Classify(e, b, a, o, p) \in PackageStatuses
  /\ \A r, p : OverallStatus(r, p) \in {"SUCCESS", "SUCCESS_WITH_WARNING", "FAILED"}
BY DEF Classify, Classified, PackageStatuses, OverallStatus

LEMMA TakesFacts == ASSUME NEW f \in Files, Takes(f), versions \in DeviceVersions
                    PROVE  versions' \in DeviceVersions
BY ApplyAssumption DEF Takes, DeviceVersions

LEMMA InitHolds == Init => IInv
<1> SUFFICES ASSUME Init PROVE IInv
  OBVIOUS
<1>1. TypeOK
  BY OutputFacts DEF Init, TypeOK, Pcs, Config
<1>2. SentFiles = {}
  BY DEF Init, SentFiles
<1> QED BY <1>1, <1>2 DEF Init, IInv, Phased, Planned, BackedUp, InOrder, Early, InSession,
                          Blocking

LEMMA SubmitKeeps == ASSUME IInv, NEW f \in Files, Submit(f) PROVE IInv'
<1>0. /\ pc = "restore" /\ f \in todo /\ todo' = todo \ {f}
      /\ \A g \in todo \ {f} : Earlier(f, g)
      /\ pc' \in {"poll", "settle"}
      /\ UNCHANGED <<config, entry, before, results, overall, baseline, disk, server>>
  BY DEF Submit
<1>1. PICK output \in Outputs :
          /\ sent' = Append(sent, [file |-> f, noUpdates |-> output.noUpdates])
          /\ attempt' = [file |-> f, output |-> output, polls |-> 0]
          /\ late' = f \/ late' = late
          /\ Takes(f) \/ versions' = versions
  BY DEF Submit
<1>2. /\ sent \in Seq(SentRecord) /\ f \in Files
      /\ output \in CommandOutput
      /\ versions \in DeviceVersions /\ before \in DeviceVersions /\ baseline \in DeviceVersions
  BY <1>0, OutputFacts DEF IInv, TypeOK, Planned, SentRecord
<1> DEFINE new == [file |-> f, noUpdates |-> output.noUpdates]
<1>3. new \in SentRecord /\ new.file = f
  BY <1>2 DEF SentRecord, CommandOutput
<1> HIDE DEF new
<1>4. /\ sent' \in Seq(SentRecord) /\ sent' # <<>> /\ Len(sent') = Len(sent) + 1
      /\ DOMAIN sent' = DOMAIN sent \union {Len(sent) + 1}
      /\ \A i \in DOMAIN sent : sent'[i] = sent[i]
      /\ sent'[Len(sent) + 1] = new
  BY <1>1, <1>2, <1>3 DEF new
<1>5. SentFiles' = SentFiles \union {f}
  BY <1>3, <1>4 DEF SentFiles
<1>6. TypeOK'
  <2>1. versions' \in DeviceVersions
    BY <1>1, <1>2, TakesFacts
  <2>2. attempt' \in [file : Files \union {NoFile}, output : CommandOutput, polls : 0..MaxPolls]
    BY <1>1, <1>2, ApplyAssumption
  <2>3. late' \in Files \union {NoFile} /\ todo' \subseteq Files /\ pc' \in Pcs
    BY <1>0, <1>1 DEF IInv, TypeOK, Pcs
  <2>4. sent' \in Seq([file : Files, noUpdates : BOOLEAN])
    BY <1>4 DEF SentRecord
  <2> QED BY <1>0, <1>2, <2>1, <2>2, <2>3, <2>4 DEF IInv, TypeOK, disk
<1>7. Phased'
  BY <1>0, <1>1, <1>4 DEF IInv, Phased, Early, InSession
<1>8. Planned'
  BY <1>0 DEF IInv, Planned, Early, disk
<1>9. BackedUp'
  BY <1>0 DEF IInv, BackedUp, disk
<1>10. InOrder'
  BY <1>0, <1>5 DEF IInv, InOrder, Earlier, Rank
<1> QED BY <1>6, <1>7, <1>8, <1>9, <1>10 DEF IInv

\* Steps that send nothing and judge nothing keep the files sent, and what is said of
\* them; only the place in the program and the disk move.
LEMMA QuietStep ==
  ASSUME IInv, UNCHANGED <<sent, results, config>>, todo' = todo \/ sent = <<>>,
         config.stopOnFailure /\ pc' \in Early \union {"restore", "poll", "settle"} =>
            pc \in Early \union {"restore", "poll", "settle"}
  PROVE  InOrder'
<1>1. SentFiles' = SentFiles /\ (sent = <<>> => SentFiles = {})
  BY DEF SentFiles
<1> QED BY <1>1 DEF IInv, InOrder, Earlier, Rank

LEMMA EarlyKeeps ==
  ASSUME IInv, Accept \/ Verify \/ Preflight \/ Stage \/ CheckStaged \/ Listen \/ Backup
  PROVE  IInv'
<1> USE DEF Goto, Early, InSession, disk, plan, world
<1>0. pc \in Early /\ sent = <<>> /\ UNCHANGED <<sent, results, config, entry, store, prepared>>
  BY DEF IInv, Phased, Accept, Verify, Preflight, Stage, CheckStaged, Listen, Backup
<1>1. TypeOK'
  <2> USE DEF IInv, TypeOK, Pcs
  <2>1. CASE Accept
    BY <2>1 DEF Accept, Selected
  <2>2. CASE Verify
    BY <2>2 DEF Verify
  <2>3. CASE Preflight
    BY <2>3 DEF Preflight
  <2>4. CASE Stage
    BY <2>4 DEF Stage
  <2>5. CASE CheckStaged
    BY <2>5 DEF CheckStaged
  <2>6. CASE Listen
    BY <2>6 DEF Listen
  <2>7. CASE Backup
    BY <2>7 DEF Backup
  <2> QED BY <2>1, <2>2, <2>3, <2>4, <2>5, <2>6, <2>7
<1>2. Phased'
  BY <1>0 DEF IInv, Phased, Accept, Verify, Preflight, Stage, CheckStaged, Listen, Backup
<1>3. Planned'
  BY <1>0 DEF IInv, Planned, Accept, Verify, Preflight, Stage, CheckStaged, Listen, Backup,
              Selected
<1>4. BackedUp'
  BY <1>0 DEF IInv, BackedUp, Accept, Verify, Preflight, Stage, CheckStaged,
              Listen, Backup
<1>5. InOrder'
  BY <1>0, QuietStep
<1> QED BY <1>1, <1>2, <1>3, <1>4, <1>5 DEF IInv

LEMMA SessionKeeps == ASSUME IInv, PollAgain \/ PollEnds \/ Close PROVE IInv'
<1> USE DEF Goto, Early, InSession, disk, plan, world
<1>0. /\ pc \in {"poll", "close"} /\ pc' \in {"poll", "settle", "keep"}
      /\ pc = "close" <=> pc' = "keep"
      /\ UNCHANGED <<config, entry, sent, results, todo, before, overall, baseline,
                     prepared, staged, backup, store, versions, late>>
      /\ attempt'.file = attempt.file
  BY DEF PollAgain, PollEnds, Close, IInv, TypeOK
<1>1. TypeOK'
  <2>1. attempt' \in [file : Files \union {NoFile}, output : CommandOutput, polls : 0..MaxPolls]
    <3>1. CASE PollAgain
      <4>1. attempt.polls + 1 \in 0..MaxPolls
        BY <3>1, ApplyAssumption DEF PollAgain, IInv, TypeOK
      <4> QED BY <3>1, <4>1 DEF PollAgain, IInv, TypeOK
    <3>2. CASE PollEnds \/ Close
      BY <3>2 DEF PollEnds, Close, IInv, TypeOK
    <3> QED BY <3>1, <3>2
  <2>2. server' \in {"down", "starting", "up", "failed"}
    BY DEF PollAgain, PollEnds, Close, IInv, TypeOK
  <2> QED BY <1>0, <2>1, <2>2 DEF IInv, TypeOK, Pcs
<1>2. Phased'
  <2>1. server' # "down" => server # "down" /\ pc' # "keep"
    BY <1>0 DEF PollAgain, PollEnds, Close
  <2> QED BY <1>0, <2>1 DEF IInv, Phased
<1>3. Planned'
  BY <1>0 DEF IInv, Planned
<1>4. BackedUp'
  BY <1>0 DEF IInv, BackedUp
<1>5. InOrder'
  BY <1>0, QuietStep
<1> QED BY <1>1, <1>2, <1>3, <1>4, <1>5 DEF IInv

LEMMA JudgeKeeps == ASSUME IInv, Judge PROVE IInv'
<1> USE DEF Early, InSession, disk, plan, world
<1> DEFINE f == attempt.file
           status == Classify(Expected[f], before, versions, attempt.output,
                              config.preventDowngrade)
<1>0. /\ pc = "settle" /\ f \in Files /\ pc' \in {"close", "restore"}
      /\ results' = [results EXCEPT ![f] = status]
      /\ before' = versions /\ attempt' = NoAttempt
      /\ config.stopOnFailure /\ pc' = "restore" => status \notin Blocking
      /\ UNCHANGED <<config, entry, todo, overall, baseline, sent, prepared, staged, backup,
                     store, server, versions, late>>
  BY DEF Judge, AfterResult, IInv, Phased
<1>1. status \in PackageStatuses
  BY StatusFacts
<1> HIDE DEF f, status
<1>2. results' \in [Files -> PackageStatuses \union {"none"}]
  BY <1>0, <1>1 DEF IInv, TypeOK
<1>3. TypeOK'
  BY <1>0, <1>2, OutputFacts DEF IInv, TypeOK, Pcs
<1>4. Phased'
  BY <1>0 DEF IInv, Phased
<1>5. Planned'
  BY <1>0 DEF IInv, Planned
<1>6. BackedUp'
  BY <1>0 DEF IInv, BackedUp
<1>7. InOrder'
  <2>1. SentFiles' = SentFiles
    BY <1>0 DEF SentFiles
  <2>2. config.stopOnFailure /\ pc' = "restore" => \A g \in Files : results'[g] \notin Blocking
    <3>1. \A g \in Files : results'[g] = IF g = f THEN status ELSE results[g]
      BY <1>0 DEF IInv, TypeOK
    <3> QED BY <1>0, <3>1 DEF IInv, InOrder
  <2> QED BY <1>0, <2>1, <2>2 DEF IInv, InOrder, Earlier, Rank
<1> QED BY <1>3, <1>4, <1>5, <1>6, <1>7 DEF IInv

LEMMA LateKeeps ==
  ASSUME IInv, Keep \/ Postflight \/ Save \/ Cleanup \/ Raise
  PROVE  IInv'
<1> USE DEF Goto, Early, InSession, disk, plan, world
<1>0. /\ pc' \in {"postflight", "save", "cleanup", "done", "raised"}
      /\ UNCHANGED <<config, sent, results, todo, before, baseline, attempt,
                     prepared, versions, late>>
  BY DEF Keep, Postflight, Save, Cleanup, Raise
<1>1. TypeOK'
  <2> USE DEF IInv, TypeOK, Pcs
  <2>1. CASE Keep
    BY <2>1 DEF Keep
  <2>2. CASE Postflight
    BY <2>2, StatusFacts DEF Postflight
  <2>3. CASE Save
    BY <2>3 DEF Save, FinalStatus
  <2>4. CASE Cleanup
    BY <2>4 DEF Cleanup
  <2>5. CASE Raise
    BY <2>5 DEF Raise
  <2> QED BY <2>1, <2>2, <2>3, <2>4, <2>5
<1>2. Phased'
  <2>1. server' = "down"
    BY DEF IInv, Phased, Keep, Postflight, Save, Cleanup, Raise
  <2> QED BY <1>0, <2>1 DEF Phased
<1>3. Planned'
  BY <1>0 DEF Planned
<1>4. BackedUp'
  BY <1>0 DEF IInv, BackedUp, Keep, Postflight, Save, Cleanup, Raise
<1>5. InOrder'
  BY <1>0, QuietStep
<1> QED BY <1>1, <1>2, <1>3, <1>4, <1>5 DEF IInv

LEMMA AroundKeeps ==
  ASSUME IInv, (\E f \in Files : Corrupt(f)) \/ Upload \/ Parsed \/ ServerBinds \/ ServerFails
  PROVE  IInv'
<1> USE DEF disk, plan, world
<1>0. UNCHANGED <<config, entry, pc, sent, results, todo, before, overall, baseline, attempt,
                  store>>
  BY DEF Corrupt, Upload, Parsed, ServerBinds, ServerFails
<1>1. TypeOK'
  <2> USE DEF IInv, TypeOK
  <2>1. CASE \E f \in Files : Corrupt(f)
    BY <2>1 DEF Corrupt
  <2>2. CASE Parsed
    <3>1. versions' \in DeviceVersions
      BY <2>2, TakesFacts DEF Parsed
    <3> QED BY <2>2, <3>1 DEF Parsed
  <2>3. CASE ServerBinds \/ ServerFails
    BY <2>3 DEF ServerBinds, ServerFails
  <2>4. CASE Upload
    BY <2>4 DEF Upload
  <2> QED BY <2>1, <2>2, <2>3, <2>4
<1>2. Phased'
  BY <1>0 DEF IInv, Phased, Corrupt, Upload, Parsed, ServerBinds, ServerFails
<1>3. Planned'
  BY <1>0 DEF IInv, Planned, Selected
<1>4. BackedUp'
  BY <1>0 DEF IInv, Phased, InSession, BackedUp, Corrupt, Upload, Parsed, ServerBinds,
              ServerFails
<1>5. InOrder'
  BY <1>0, QuietStep
<1> QED BY <1>1, <1>2, <1>3, <1>4, <1>5 DEF IInv

LEMMA StutterKeeps == ASSUME IInv, UNCHANGED vars PROVE IInv'
<1>1. TypeOK' /\ Phased' /\ Planned' /\ BackedUp'
  BY DEF vars, disk, plan, world, IInv, TypeOK, Phased, Planned, BackedUp,
         Selected
<1>2. InOrder'
  BY QuietStep DEF vars, plan
<1> QED BY <1>1, <1>2 DEF IInv

LEMMA Invariant == Spec => []IInv
<1>1. IInv /\ [Next]_vars => IInv'
  BY EarlyKeeps, SubmitKeeps, SessionKeeps, JudgeKeeps, LateKeeps, AroundKeeps, StutterKeeps
     DEF Next
<1> QED BY InitHolds, <1>1, PTL DEF Spec

-----------------------------------------------------------------------------
(* Theorems. *)

\* Every variable of the apply keeps its type.
THEOREM TypeCorrect == Spec => []TypeOK
<1>1. IInv => TypeOK
  BY DEF IInv
<1> QED BY <1>1, Invariant, PTL

\* What the device uploaded last is only given up for another upload or for a copy that
\* was compared (the backup store of run_controlled_apply and its final rmtree).
THEOREM LastBackupAlwaysKept == Spec => LastBackupIsKept
<1>1. ASSUME IInv, [Next]_vars, backup # "none", backup' = "none"
      PROVE  server = "up" \/ store = backup
  <2>1. Upload \/ Cleanup \/ (Raise /\ pc = "cleanup")
    BY <1>1, Zenon DEF Next, vars, plan, disk, world, Accept, Verify, Preflight, Stage,
       CheckStaged, Listen, Backup, Submit, PollAgain, PollEnds, Judge, Close, Keep,
       Postflight, Save, Raise, Corrupt, Parsed, ServerBinds, ServerFails
  <2>2. CASE Upload
    BY <2>2 DEF Upload
  <2>3. CASE pc = "cleanup"
    BY <1>1, <2>3 DEF IInv, BackedUp
  <2> QED BY <2>1, <2>2, <2>3 DEF Cleanup, Goto
<1>2. IInv /\ [Next]_vars => [backup # "none" /\ backup' = "none" => server = "up" \/ store = backup]_vars
  BY <1>1
<1> QED BY <1>2, Invariant, PTL DEF Spec, LastBackupIsKept

\* A package is sent once, in package_order, and none after a blocking result: the loop
\* over the packages with the FFDB polling inside it.
THEOREM AlwaysSendsInOrderOnce == Spec => SendsInOrderOnce
<1> DEFINE Right == LET f == sent'[Len(sent')].file IN
                    /\ f \notin SentFiles
                    /\ \A g \in SentFiles : Earlier(g, f)
                    /\ config.stopOnFailure => \A g \in Files : results[g] \notin Blocking
<1>1. ASSUME IInv, NEW f \in Files, Submit(f) PROVE Right
  <2>1. PICK output \in Outputs :
          sent' = Append(sent, [file |-> f, noUpdates |-> output.noUpdates])
    BY <1>1 DEF Submit
  <2>2. sent \in Seq([file : Files, noUpdates : BOOLEAN])
    BY <1>1 DEF IInv, TypeOK
  <2>3. sent'[Len(sent')].file = f
    BY <2>1, <2>2
  <2>4. f \in todo /\ pc = "restore"
    BY <1>1 DEF Submit
  <2> QED BY <1>1, <2>3, <2>4 DEF IInv, InOrder
<1>2. ASSUME [Next]_vars, sent' # sent PROVE \E f \in Files : Submit(f)
  BY <1>2 DEF Next, vars, plan, disk, world, Accept, Verify, Preflight, Stage, CheckStaged,
              Listen, Backup, PollAgain, PollEnds, Judge, Close, Keep, Postflight, Save,
              Cleanup, Raise, Corrupt, Upload, Parsed, ServerBinds, ServerFails
<1>3. IInv /\ [Next]_vars => [sent' # sent => Right]_vars
  BY <1>1, <1>2
<1> QED BY <1>3, Invariant, PTL DEF Spec, SendsInOrderOnce

\* The apply implements the coarse apply of the lifecycle: each step is one of its steps
\* or leaves its variables alone.
THEOREM AlwaysImplementsApply == Spec => ImplementsApply
<1>1. Init => Contract!Init
  BY DEF Init, Contract!Init, Phase
<1>2. ASSUME IInv, [Next]_vars PROVE [Contract!Next]_Contract!vars
  <2> USE DEF Goto, Phase, Early, InSession, disk, plan, world, Contract!vars, Contract!Pass
  <2>0. IInv
    BY <1>2
  <2>1. CASE Accept
    BY <2>1, <2>0 DEF Accept, IInv, Phased, Contract!Next, Contract!Select
  <2>2. CASE Verify \/ Preflight \/ Stage \/ CheckStaged
    BY <2>2, <2>0 DEF Verify, Preflight, Stage, CheckStaged
  <2>3. CASE Listen
    BY <2>3, <2>0 DEF Listen, IInv, Phased, Contract!Next, Contract!OpenSession
  <2>4. CASE Backup
    BY <2>4, <2>0 DEF Backup
  <2>5. ASSUME NEW f \in Files, Submit(f) PROVE [Contract!Next]_Contract!vars
    <3>1. sent' # <<>> /\ pc = "restore" /\ pc' \in {"poll", "settle"}
          /\ UNCHANGED <<entry, server>>
      BY <2>5, <2>0 DEF Submit, IInv, TypeOK
    <3> QED BY <3>1 DEF Contract!Next, Contract!Restore
  <2>6. CASE PollAgain \/ PollEnds
    BY <2>6 DEF PollAgain, PollEnds
  <2>7. CASE Judge
    <3>1. pc = "settle" /\ pc' \in {"close", "restore"} /\ UNCHANGED <<sent, entry, server>>
      BY <2>7 DEF Judge, AfterResult
    <3> QED BY <3>1
  <2>8. CASE Close
    BY <2>8, <2>0 DEF Close, IInv, Phased, Contract!Next, Contract!Close
  <2>9. CASE Keep
    <3>1. server = "down"
      BY <2>9, <2>0 DEF Keep, IInv, Phased
    <3> QED BY <2>9, <3>1 DEF Keep, Contract!Next, Contract!Raise
  <2>10. CASE Postflight
    BY <2>10 DEF Postflight, Contract!Next, Contract!Conclude
  <2>11. CASE Save
    BY <2>11 DEF Save, FinalStatus, Contract!Next, Contract!Finish
  <2>12. CASE Cleanup
    BY <2>12 DEF Cleanup, Contract!Next, Contract!Cleanup
  <2>13. CASE Raise
    BY <2>13, <2>0 DEF Raise, IInv, TypeOK, Pcs, Contract!Next, Contract!Raise
  <2>14. CASE (\E f \in Files : Corrupt(f)) \/ Upload \/ Parsed
    BY <2>14 DEF Corrupt, Upload, Parsed
  <2>15. CASE UNCHANGED vars
    BY <2>15 DEF vars
  <2>16. CASE ServerBinds
    BY <2>16 DEF ServerBinds, Contract!Next, Contract!Bind
  <2>17. CASE ServerFails
    BY <2>17 DEF ServerFails, Contract!Next, Contract!ServerFails
  <2> QED BY <1>2, <2>1, <2>2, <2>3, <2>4, <2>5, <2>6, <2>7, <2>8, <2>9, <2>10, <2>11, <2>12,
             <2>13, <2>14, <2>15, <2>16, <2>17 DEF Next
<1> QED BY <1>1, <1>2, Invariant, PTL DEF Spec, ImplementsApply, Contract!Spec

-----------------------------------------------------------------------------
(* What APPLIED means.  It takes a package map like config/                  *)
(* fortios64-package-map.yml, where no object is expected of two kinds.      *)

ObjectsApart == \A f, g \in Files : Kind[f] # Kind[g] => Expected[f] \intersect Expected[g] = {}

Judged(g) == g \in SentFiles /\ results[g] \notin Blocking \union {"none"}

\* What is said of a judged package in AppliedIsConfirmed and NoDowngradeApplied.
Confirmed(g) ==
    /\ \/ /\ results[g] \in {"SUCCESS", "SUCCESS_WITH_WARNING"}
          /\ \E o \in Expected[g] : Increased(o, baseline, before)
       \/ /\ results[g] = "SKIPPED_NO_UPDATE"
          /\ \/ \A i \in DOMAIN sent : sent[i].file = g => sent[i].noUpdates
             \/ \A o \in Expected[g] : before[o] = baseline[o] /\ before[o] # NoVersion
    /\ config.preventDowngrade => \A o \in Expected[g] : ~Decreased(o, baseline, before)

Chosen ==
    /\ todo # {} \/ sent # <<>> => ~Ambiguous /\ SentFiles \union todo = Selected
    /\ \A g \in Files \ SentFiles : results[g] = "none"
    /\ \A g \in SentFiles : \/ results[g] # "none"
                            \/ attempt.file = g /\ pc \in {"poll", "settle", "raised"}

\* The objects of a package are untouched until it is sent, and from its result on.
Undisturbed ==
    /\ late \in SentFiles \union {NoFile}
    /\ sent = <<>> => before = versions /\ baseline = versions
    /\ \A f \in todo : \A o \in Expected[f] : before[o] = baseline[o] /\ versions[o] = before[o]
    /\ \A g \in Files : Judged(g) =>
            late # g /\ \A o \in Expected[g] : versions[o] = before[o]

UnderWay ==
    LET f == attempt.file IN
    pc \in {"poll", "settle"} =>
        /\ f \in SentFiles /\ results[f] = "none"
        /\ \A o \in Expected[f] : before[o] = baseline[o]
        /\ late = f => /\ attempt.output.code = "49"
                       /\ \A o \in Expected[f] : versions[o] = before[o]
        /\ \A i \in DOMAIN sent : sent[i].file = f =>
                sent[i].noUpdates = attempt.output.noUpdates

Concluded ==
    /\ pc \notin {"accept", "cleanup", "done", "raised"} => entry # "APPLIED"
    /\ overall # "none" => pc \in {"save", "cleanup", "done", "raised"}
    /\ pc \in {"close", "keep", "postflight"} =>
            /\ sent # <<>>
            /\ todo = {} \/ \E g \in Files : results[g] \in Blocking
    /\ overall \in {"SUCCESS", "SUCCESS_WITH_WARNING"} =>
            /\ todo = {} /\ sent # <<>>
            /\ \A g \in SentFiles : results[g] \notin Blocking \union {"none"}
    /\ entry = "APPLIED" => overall # "FAILED"

CInv == IInv /\ Chosen /\ Undisturbed /\ UnderWay /\ Concluded
        /\ \A g \in Files : Judged(g) => Confirmed(g)

LEMMA Apart ==
  ASSUME ObjectsApart, ~Ambiguous, NEW f \in Selected, NEW g \in Selected, f # g
  PROVE  Expected[f] \intersect Expected[g] = {}
BY DEF ObjectsApart, Ambiguous, Selected

LEMMA ExpectedFacts == \A f \in Files : Expected[f] \subseteq Objects
BY ApplyAssumption

LEMMA TakesOnly ==
  ASSUME NEW f \in Files, Takes(f)
  PROVE  \A o \in Objects \ Expected[f] : versions'[o] = versions[o]
BY DEF Takes

\* What is said of a package depends on its objects only.
LEMMA ConfirmedKept ==
  ASSUME NEW g \in Files, Confirmed(g),
         UNCHANGED <<config, baseline>>, results'[g] = results[g],
         \A o \in Expected[g] : before'[o] = before[o],
         \A i \in DOMAIN sent' : sent'[i].file = g => i \in DOMAIN sent /\ sent'[i] = sent[i]
  PROVE  Confirmed(g)'
BY DEF Confirmed, Increased, Decreased, Missing

LEMMA SentIn == ASSUME TypeOK PROVE SentFiles \subseteq Files /\ (sent = <<>> => SentFiles = {})
<1>1. \A i \in DOMAIN sent : sent[i].file \in Files
  <2>1. sent \in Seq(SentRecord)
    BY DEF TypeOK, SentRecord
  <2>2. \A i \in DOMAIN sent : sent[i] \in SentRecord
    BY <2>1
  <2> QED BY <2>2 DEF SentRecord
<1> QED BY <1>1 DEF SentFiles

LEMMA CInit == Init => CInv
<1> SUFFICES ASSUME Init PROVE CInv
  OBVIOUS
<1>1. SentFiles = {}
  BY DEF Init, SentFiles
<1> QED BY <1>1, InitHolds DEF Init, CInv, Chosen, Undisturbed, UnderWay, Concluded, Judged

\* A step that changes neither the device nor what was sent and found.
LEMMA CQuietStep ==
  ASSUME CInv, IInv', UNCHANGED <<config, sent, results, baseline, before, versions, late>>,
         todo' = todo, attempt'.file = attempt.file, attempt'.output = attempt.output,
         pc' \in {"poll", "settle"} => pc \in {"poll", "settle"},
         pc \in {"poll", "settle", "raised"} => pc' \in {"poll", "settle", "raised"},
         Concluded'
  PROVE  CInv'
<1>1. SentFiles' = SentFiles
  BY DEF SentFiles
<1>2. Chosen'
  <2>1. Ambiguous' = Ambiguous /\ Selected' = Selected
    BY DEF Ambiguous, Selected
  <2> QED BY <1>1, <2>1 DEF CInv, Chosen
<1>3. Undisturbed'
  BY <1>1 DEF CInv, Undisturbed, Judged
<1>4. UnderWay'
  BY <1>1 DEF CInv, UnderWay
<1>5. \A g \in Files : Judged(g)' => Confirmed(g)'
  <2> SUFFICES ASSUME NEW g \in Files, Judged(g)' PROVE Confirmed(g)'
    OBVIOUS
  <2>1. Confirmed(g)
    BY <1>1 DEF CInv, Judged
  <2> QED BY <2>1, ConfirmedKept
<1> QED BY <1>2, <1>3, <1>4, <1>5 DEF CInv

LEMMA CQuiet ==
  ASSUME CInv, IInv',
         \/ Verify \/ Stage \/ CheckStaged \/ Listen \/ Backup
         \/ PollAgain \/ PollEnds \/ Close \/ Keep \/ Raise
         \/ Postflight \/ Save \/ Cleanup
         \/ (\E f \in Files : Corrupt(f)) \/ Upload \/ ServerBinds \/ ServerFails
         \/ UNCHANGED vars
  PROVE  CInv'
<1> USE DEF Goto, plan, disk, world, vars
<1>0. IInv
  BY DEF CInv
<1>1. /\ UNCHANGED <<config, sent, results, baseline, before, versions, late, todo>>
      /\ attempt'.file = attempt.file /\ attempt'.output = attempt.output
  BY <1>0 DEF IInv, TypeOK, Verify, Stage, CheckStaged, Listen, Backup, PollAgain, PollEnds,
              Close, Keep, Raise, Postflight, Save, Cleanup, Corrupt, Upload, ServerBinds, ServerFails
<1>2. /\ pc' \in {"poll", "settle"} => pc \in {"poll", "settle"}
      /\ pc \in {"poll", "settle", "raised"} => pc' \in {"poll", "settle", "raised"}
  BY DEF Verify, Stage, CheckStaged, Listen, Backup, PollAgain, PollEnds, Close, Keep, Raise,
         Postflight, Save, Cleanup, Corrupt, Upload, ServerBinds, ServerFails
<1>3. Concluded'
  <2>1. CASE Postflight
    <3> DEFINE found == {results[f] : f \in Files}
    <3>1. PICK status \in {"PASS", "FAILED_VALIDATION"} : overall' = OverallStatus(found, status)
      BY <2>1 DEF Postflight
    <3>2. overall' # "FAILED" => \A g \in Files : results[g] \notin Blocking
      BY <3>1 DEF OverallStatus
    <3>3. overall' # "FAILED" => \A g \in SentFiles : results[g] # "none"
      BY <2>1 DEF Postflight, CInv, Chosen
    <3>4. SentFiles \subseteq Files
      BY <1>0, SentIn DEF IInv
    <3>5. SentFiles' = SentFiles
      BY <1>1 DEF SentFiles
    <3>6. /\ pc = "postflight" /\ pc' = "save" /\ entry' = entry
      BY <2>1 DEF Postflight
    <3> HIDE DEF found
    <3> QED BY <1>1, <3>2, <3>3, <3>4, <3>5, <3>6 DEF CInv, Concluded
  <2>2. CASE Save
    <3>1. SentFiles' = SentFiles /\ overall' = overall
      BY <1>1, <2>2 DEF SentFiles, Save
    <3> QED BY <1>1, <2>2, <3>1 DEF CInv, Concluded, Save, FinalStatus
  <2>3. CASE ~Postflight /\ ~Save
    <3>1. overall' = overall /\ entry' = entry /\ SentFiles' = SentFiles
      BY <1>1, <2>3 DEF SentFiles, Verify, Stage, CheckStaged, Listen, Backup, PollAgain,
         PollEnds, Close, Keep, Raise, Cleanup, Corrupt, Upload,
         ServerBinds, ServerFails
    <3>2. /\ pc' \notin {"accept", "cleanup", "done", "raised"} =>
                pc \notin {"accept", "cleanup", "done", "raised"}
          /\ pc \in {"save", "cleanup", "done", "raised"} => pc' \in {"save", "cleanup", "done", "raised"}
          /\ pc' \in {"close", "keep", "postflight"} => pc \in {"close", "keep", "postflight"}
      BY <2>3 DEF Verify, Stage, CheckStaged, Listen, Backup, PollAgain,
         PollEnds, Close, Keep, Raise, Cleanup, Corrupt, Upload,
         ServerBinds, ServerFails
    <3> QED BY <1>1, <3>1, <3>2 DEF CInv, Concluded
  <2> QED BY <2>1, <2>2, <2>3
<1> QED BY <1>1, <1>2, <1>3, CQuietStep

LEMMA CAccept == ASSUME CInv, IInv', Accept \/ Preflight PROVE CInv'
<1> USE DEF Goto, plan, disk, world
<1>0. /\ pc \in Early /\ sent = <<>> /\ SentFiles = {} /\ late = NoFile
      /\ before = versions /\ baseline = versions
      /\ UNCHANGED <<config, sent, results, versions, late, overall, entry>>
      /\ before' = versions /\ baseline' = versions
      /\ pc' \in {"verify", "stage"} /\ entry # "APPLIED" /\ overall = "none"
  BY DEF CInv, IInv, Phased, Accept, Preflight, SentFiles, Undisturbed, Early, Concluded
<1>1. SentFiles' = {}
  BY <1>0 DEF SentFiles
<1>2. Ambiguous' = Ambiguous /\ Selected' = Selected
  BY <1>0 DEF Ambiguous, Selected
<1>3. Chosen'
  BY <1>0, <1>1, <1>2 DEF CInv, Chosen, Accept, Preflight
<1>4. Undisturbed' /\ UnderWay' /\ Concluded'
  BY <1>0, <1>1 DEF Undisturbed, UnderWay, Concluded, Judged
<1> QED BY <1>1, <1>3, <1>4 DEF CInv, Judged

LEMMA CParsed == ASSUME ObjectsApart, CInv, IInv', Parsed PROVE CInv'
<1> USE DEF plan, disk, world
<1>0. /\ late \in SentFiles /\ late' = NoFile /\ Takes(late)
      /\ UNCHANGED <<config, entry, pc, before, todo, attempt, results, overall, baseline, sent>>
  BY DEF CInv, Undisturbed, Parsed
<1>1. SentFiles' = SentFiles /\ Ambiguous' = Ambiguous /\ Selected' = Selected
  BY <1>0 DEF SentFiles, Ambiguous, Selected
<1>2. SentFiles \subseteq Files /\ todo \subseteq Files /\ NoFile \notin Files /\ sent # <<>>
  <2>1. TypeOK
    BY DEF CInv, IInv
  <2> QED BY <1>0, <2>1, ApplyAssumption, SentIn DEF TypeOK
<1>3. ASSUME NEW f \in SentFiles \union todo, f # late
      PROVE  \A o \in Expected[f] : versions'[o] = versions[o]
  <2>1. f \in Selected /\ late \in Selected /\ ~Ambiguous /\ f \in Files /\ late \in Files
    BY <1>0, <1>2, <1>3 DEF CInv, Chosen
  <2>2. Expected[f] \intersect Expected[late] = {} /\ Expected[f] \subseteq Objects
    BY <1>3, <2>1, Apart, ExpectedFacts
  <2> QED BY <1>0, <2>1, <2>2, TakesOnly
<1>4. late \notin todo
  BY <1>0 DEF CInv, IInv, InOrder
<1>5. Chosen' /\ Concluded'
  BY <1>0, <1>1 DEF CInv, Chosen, Concluded
<1>6. Undisturbed'
  <2>1. \A f \in todo : \A o \in Expected[f] : before[o] = baseline[o] /\ versions'[o] = before[o]
    BY <1>3, <1>4 DEF CInv, Undisturbed
  <2>2. \A g \in Files : Judged(g) => NoFile # g /\ \A o \in Expected[g] : versions'[o] = before[o]
    BY <1>2, <1>3 DEF CInv, Undisturbed, Judged
  <2> QED BY <1>0, <1>1, <1>2, <2>1, <2>2 DEF Undisturbed, Judged
<1>7. UnderWay'
  BY <1>0, <1>1, <1>2 DEF CInv, UnderWay
<1>8. \A g \in Files : Judged(g)' => Confirmed(g)'
  <2> SUFFICES ASSUME NEW g \in Files, Judged(g)' PROVE Confirmed(g)'
    OBVIOUS
  <2>1. Confirmed(g)
    BY <1>0, <1>1 DEF CInv, Judged
  <2> QED BY <1>0, <2>1, ConfirmedKept
<1> QED BY <1>5, <1>6, <1>7, <1>8 DEF CInv

LEMMA CSubmit == ASSUME ObjectsApart, CInv, IInv', NEW f \in Files, Submit(f) PROVE CInv'
<1>0. /\ pc = "restore" /\ f \in todo /\ todo' = todo \ {f} /\ pc' \in {"poll", "settle"}
      /\ UNCHANGED <<config, entry, before, results, overall, baseline>>
      /\ IInv /\ TypeOK
  BY DEF Submit, CInv, IInv
<1>1. PICK output \in Outputs :
          /\ sent' = Append(sent, [file |-> f, noUpdates |-> output.noUpdates])
          /\ attempt' = [file |-> f, output |-> output, polls |-> 0]
          /\ \/ /\ output.code = "49" /\ versions' = versions
                /\ late' = f \/ late' = late
             \/ late' = late /\ (Takes(f) \/ versions' = versions)
  BY DEF Submit, Parsing
<1>2. /\ sent \in Seq(SentRecord) /\ output.noUpdates \in BOOLEAN
      /\ todo \subseteq Files
  BY <1>0, OutputFacts DEF IInv, TypeOK, Planned, SentRecord, CommandOutput
<1> DEFINE new == [file |-> f, noUpdates |-> output.noUpdates]
<1>3. new \in SentRecord /\ new.file = f /\ new.noUpdates = output.noUpdates
  BY <1>2 DEF SentRecord
<1> HIDE DEF new
<1>4. /\ sent' # <<>>
      /\ DOMAIN sent' = DOMAIN sent \union {Len(sent) + 1}
      /\ \A i \in DOMAIN sent : sent'[i] = sent[i]
      /\ sent'[Len(sent) + 1] = new
  BY <1>1, <1>2, <1>3 DEF new
<1>5. SentFiles' = SentFiles \union {f} /\ f \notin SentFiles /\ SentFiles \subseteq Files
  <2>1. f \notin SentFiles
    BY <1>0 DEF IInv, InOrder
  <2> QED BY <1>0, <1>3, <1>4, <2>1, SentIn DEF SentFiles
<1>6. \A i \in DOMAIN sent : sent[i].file \in SentFiles
  BY DEF SentFiles
<1>7. Ambiguous' = Ambiguous /\ Selected' = Selected /\ ~Ambiguous
      /\ SentFiles \union todo = Selected
  BY <1>0 DEF CInv, Chosen, Ambiguous, Selected
<1>8. results[f] = "none"
  BY <1>5 DEF CInv, Chosen
<1>9. ASSUME NEW g \in SentFiles \union (todo \ {f})
      PROVE  \A o \in Expected[g] : versions'[o] = versions[o]
  <2>1. g # f /\ g \in Selected /\ f \in Selected /\ g \in Files
    BY <1>0, <1>2, <1>5, <1>7
  <2>2. Expected[f] \intersect Expected[g] = {} /\ Expected[g] \subseteq Objects
    BY <1>7, <2>1, Apart, ExpectedFacts
  <2> QED BY <1>1, <2>2, TakesOnly
<1>10. Chosen'
  <2>1. \A g \in SentFiles : results[g] # "none"
    BY <1>0 DEF CInv, Chosen
  <2> QED BY <1>0, <1>1, <1>4, <1>5, <1>7, <2>1 DEF CInv, Chosen
<1>11. Undisturbed'
  <2>1. late' \in SentFiles' \union {NoFile}
    BY <1>1, <1>5 DEF CInv, Undisturbed
  <2>2. \A h \in todo' : \A o \in Expected[h] : before'[o] = baseline'[o] /\ versions'[o] = before'[o]
    BY <1>0, <1>9 DEF CInv, Undisturbed
  <2>3. \A g \in Files : Judged(g)' =>
            late' # g /\ \A o \in Expected[g] : versions'[o] = before'[o]
    <3> SUFFICES ASSUME NEW g \in Files, Judged(g)'
                 PROVE  late' # g /\ \A o \in Expected[g] : versions'[o] = before'[o]
      OBVIOUS
    <3>1. Judged(g) /\ g # f /\ g \in SentFiles
      BY <1>0, <1>5, <1>8 DEF Judged
    <3> QED BY <1>0, <1>1, <1>9, <3>1 DEF CInv, Undisturbed
  <2> QED BY <1>4, <2>1, <2>2, <2>3 DEF Undisturbed
<1>12. UnderWay'
  <2>1. attempt'.file = f /\ attempt'.output = output
    BY <1>1
  <2>2. late' = f => output.code = "49" /\ versions' = versions
    <3>1. late # f
      BY <1>5, ApplyAssumption DEF CInv, Undisturbed
    <3> QED BY <1>1, <3>1
  <2>3. \A o \in Expected[f] : before[o] = baseline[o] /\ versions[o] = before[o]
    BY <1>0 DEF CInv, Undisturbed
  <2>4. \A i \in DOMAIN sent' : sent'[i].file = f => sent'[i].noUpdates = output.noUpdates
    BY <1>3, <1>4, <1>5, <1>6
  <2> QED BY <1>0, <1>5, <1>8, <2>1, <2>2, <2>3, <2>4 DEF UnderWay
<1>13. Concluded'
  <2>1. entry # "APPLIED" /\ overall = "none"
    BY <1>0 DEF CInv, Concluded
  <2> QED BY <1>0, <2>1 DEF Concluded
<1>14. \A g \in Files : Judged(g)' => Confirmed(g)'
  <2> SUFFICES ASSUME NEW g \in Files, Judged(g)' PROVE Confirmed(g)'
    OBVIOUS
  <2>1. Judged(g) /\ g # f /\ Confirmed(g)
    BY <1>0, <1>5, <1>8 DEF Judged, CInv
  <2>2. \A i \in DOMAIN sent' : sent'[i].file = g => i \in DOMAIN sent /\ sent'[i] = sent[i]
    BY <1>3, <1>4, <2>1
  <2> QED BY <1>0, <2>1, <2>2, ConfirmedKept
<1> QED BY <1>10, <1>11, <1>12, <1>13, <1>14 DEF CInv

LEMMA CJudge == ASSUME ObjectsApart, CInv, IInv', Judge PROVE CInv'
<1> USE DEF disk, world
<1> DEFINE f == attempt.file
           status == Classify(Expected[f], before, versions, attempt.output,
                              config.preventDowngrade)
<1>0. /\ pc = "settle" /\ f \in Files /\ f \in SentFiles /\ results[f] = "none"
      /\ pc' \in {"close", "restore"}
      /\ results' = [results EXCEPT ![f] = status]
      /\ before' = versions /\ attempt' = NoAttempt
      /\ pc' = "close" => status \in Blocking \/ todo = {}
      /\ UNCHANGED <<config, entry, todo, overall, baseline, sent, versions, late>>
      /\ IInv /\ TypeOK
  BY DEF Judge, AfterResult, CInv, IInv, Phased, UnderWay
<1>1. /\ SentFiles' = SentFiles /\ Ambiguous' = Ambiguous /\ Selected' = Selected
      /\ SentFiles \subseteq Files /\ sent # <<>>
  BY <1>0, SentIn DEF SentFiles, Ambiguous, Selected
<1>2. status \in PackageStatuses /\ "none" \notin PackageStatuses
  BY StatusFacts DEF PackageStatuses
<1>3. \A o \in Expected[f] : before[o] = baseline[o]
  BY <1>0 DEF CInv, UnderWay
<1>4. late = f => status \in Blocking
  <2> SUFFICES ASSUME late = f PROVE status \in Blocking
    OBVIOUS
  <2>1. \A o \in Expected[f] : before[o] = versions[o] /\ versions[o] \in Seq(Nat)
    <3>1. versions \in [Objects -> Versions] /\ Versions \subseteq Seq(Nat)
      BY <1>0, ApplyAssumption DEF TypeOK, DeviceVersions
    <3> QED BY <1>0, <3>1, ExpectedFacts DEF CInv, UnderWay
  <2>2. attempt.output.code = "49"
    BY <1>0 DEF CInv, UnderWay
  <2> QED BY <2>1, <2>2, UnchangedIsNoSuccess
<1>5. status \notin Blocking =>
        /\ \/ /\ status \in {"SUCCESS", "SUCCESS_WITH_WARNING"}
              /\ \E o \in Expected[f] : Increased(o, before, versions)
           \/ /\ status = "SKIPPED_NO_UPDATE"
              /\ \/ attempt.output.noUpdates
                 \/ \A o \in Expected[f] : before[o] = versions[o] /\ versions[o] # NoVersion
        /\ config.preventDowngrade => \A o \in Expected[f] : ~ Decreased(o, before, versions)
  BY ResultFacts
<1> HIDE DEF status
<1>6. \A g \in Files : results'[g] = IF g = f THEN status ELSE results[g]
  BY <1>0 DEF TypeOK
<1>7. Chosen'
  <2>1. \A g \in SentFiles : results'[g] # "none"
    BY <1>0, <1>1, <1>2, <1>6 DEF CInv, Chosen
  <2>2. \A g \in Files \ SentFiles : results'[g] = "none"
    BY <1>0, <1>6 DEF CInv, Chosen
  <2> QED BY <1>0, <1>1, <2>1, <2>2 DEF CInv, Chosen
<1>8. Undisturbed'
  <2>1. \A g \in Files : Judged(g)' => late # g
    BY <1>0, <1>1, <1>4, <1>6 DEF CInv, Undisturbed, Judged
  <2> QED BY <1>0, <1>1, <2>1 DEF CInv, Undisturbed
<1>9. UnderWay'
  BY <1>0 DEF UnderWay
<1>10. Concluded'
  <2>1. entry # "APPLIED" /\ overall = "none"
    BY <1>0 DEF CInv, Concluded
  <2>2. status \in Blocking => \E g \in Files : results'[g] \in Blocking
    BY <1>0, <1>6
  <2> QED BY <1>0, <1>1, <2>1, <2>2 DEF Concluded
<1>11. ASSUME NEW g \in Files, Judged(g)' PROVE Confirmed(g)'
  <2>1. CASE g # f
    <3>1. Judged(g) /\ Confirmed(g) /\ results'[g] = results[g]
      BY <1>1, <1>6, <1>11, <2>1 DEF CInv, Judged
    <3>2. \A o \in Expected[g] : before'[o] = before[o]
      BY <1>0, <3>1 DEF CInv, Undisturbed
    <3> QED BY <1>0, <3>1, <3>2, ConfirmedKept
  <2>2. CASE g = f
    <3>1. results'[f] = status /\ status \notin Blocking
      BY <1>6, <1>11, <2>2 DEF Judged
    <3>2. \A o \in Expected[f] : /\ Increased(o, before, versions) => Increased(o, baseline, versions)
                                 /\ Decreased(o, baseline, versions) => Decreased(o, before, versions)
      BY <1>3 DEF Increased, Decreased, Missing
    <3>3. attempt.output.noUpdates => \A i \in DOMAIN sent : sent[i].file = f => sent[i].noUpdates
      BY <1>0 DEF CInv, UnderWay
    <3>4. /\ \/ /\ status \in {"SUCCESS", "SUCCESS_WITH_WARNING"}
                /\ \E o \in Expected[f] : Increased(o, baseline, versions)
             \/ /\ status = "SKIPPED_NO_UPDATE"
                /\ \/ \A i \in DOMAIN sent : sent[i].file = f => sent[i].noUpdates
                   \/ \A o \in Expected[f] : versions[o] = baseline[o] /\ versions[o] # NoVersion
          /\ config.preventDowngrade => \A o \in Expected[f] : ~Decreased(o, baseline, versions)
      BY <1>3, <1>5, <3>1, <3>2, <3>3
    <3> HIDE DEF f
    <3> QED BY <1>0, <2>2, <3>1, <3>4 DEF Confirmed
  <2> QED BY <2>1, <2>2
<1> QED BY <1>7, <1>8, <1>9, <1>10, <1>11 DEF CInv

LEMMA CInvariant == ASSUME ObjectsApart PROVE Spec => []CInv
<1>1. ASSUME CInv, [Next]_vars, IInv' PROVE CInv'
  BY <1>1, CQuiet, CAccept, CParsed, CSubmit, CJudge DEF Next
<1> QED BY CInit, <1>1, Invariant, PTL DEF Spec

\* APPLIED is never a mistake: each selected package was sent, and its objects moved up
\* or it was a no-op (classify_package_result, the no-op rule and the FFDB polling of
\* entrypoint.py, _overall_status), although the device may go on parsing, or take what
\* it was sent later, at any time.
THEOREM AppliedAlwaysConfirmed == ASSUME ObjectsApart PROVE Spec => []AppliedIsConfirmed
<1>1. CInv => AppliedIsConfirmed
  <2> SUFFICES ASSUME CInv, AppliedHere
               PROVE  /\ SentFiles = Selected
                      /\ \A i \in DOMAIN sent : Confirmed(sent[i].file)
    BY DEF AppliedIsConfirmed, Confirmed
  <2>1. overall \in {"SUCCESS", "SUCCESS_WITH_WARNING"}
    BY DEF AppliedHere, CInv, Concluded, IInv, TypeOK
  <2>2. SentFiles = Selected /\ \A g \in SentFiles : Judged(g)
    BY <2>1 DEF CInv, Concluded, Chosen, Judged
  <2>3. SentFiles \subseteq Files
    BY SentIn DEF CInv, IInv
  <2>4. \A i \in DOMAIN sent : sent[i].file \in SentFiles
    BY DEF SentFiles
  <2> QED BY <2>2, <2>3, <2>4 DEF CInv
<1> QED BY <1>1, CInvariant, PTL

\* Under prevent_downgrade no object of a package is older when the archive is called
\* APPLIED (classify_package_result against the versions of the preflight).
THEOREM NoDowngradeEverApplied == ASSUME ObjectsApart PROVE Spec => []NoDowngradeApplied
<1>1. CInv => NoDowngradeApplied
  <2> SUFFICES ASSUME CInv, AppliedHere, config.preventDowngrade, NEW f \in Selected
               PROVE  \A o \in Expected[f] : ~Decreased(o, baseline, before)
    BY DEF NoDowngradeApplied
  <2>1. overall \in {"SUCCESS", "SUCCESS_WITH_WARNING"}
    BY DEF AppliedHere, CInv, Concluded, IInv, TypeOK
  <2>2. f \in SentFiles /\ Judged(f) /\ f \in Files
    BY <2>1 DEF CInv, Concluded, Chosen, Judged, Selected
  <2> QED BY <2>2 DEF CInv, Confirmed
<1> QED BY <1>1, CInvariant, PTL
=============================================================================
