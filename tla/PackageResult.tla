----------------------------- MODULE PackageResult -----------------------------
(***************************************************************************)
(* How a package's restore is judged: the comparison of FortiGuard object  *)
(* versions, classify_package_result of controlled_apply.py with the no-op *)
(* rule that entrypoint.py installs over it, and _overall_status.          *)
(*                                                                         *)
(* A version is the sequence of its numbers ("93.07613" is <<93, 7613>>);  *)
(* <<>> stands for an object, or a version line, that is not there.        *)
(***************************************************************************)
EXTENDS Naturals, Sequences

NoVersion == <<>>

\* _version_tuple: a dotted number, without its trailing zeros.
VersionTuple(version) ==
    IF Len(version) < 2
    THEN NoVersion
    ELSE LET kept == {1} \union {i \in DOMAIN version : version[i] # 0} IN
         SubSeq(version, 1, CHOOSE n \in kept : \A i \in kept : i <= n)

\* Python's order on tuples.
TupleLess(s, t) ==
    \E i \in DOMAIN t :
        /\ \A j \in 1..(i - 1) : j \in DOMAIN s /\ s[j] = t[j]
        /\ i \in DOMAIN s => s[i] < t[i]

PackageStatuses == {"SUCCESS", "SUCCESS_WITH_WARNING", "SKIPPED_NO_UPDATE",
                    "FAILED_UNCONFIRMED", "FAILED"}
Blocking == {"FAILED", "FAILED_UNCONFIRMED"}

\* What the classifiers look for in a restore command's output: the first
\* "Return code", "command fail", "no updates", and the OK line of a transfer.
CommandOutput == [code : {"none", "0", "-85", "49", "other"},
                  fail : BOOLEAN, noUpdates : BOOLEAN, transferOk : BOOLEAN]

Missing(o, after) == VersionTuple(after[o]) = NoVersion
Decreased(o, before, after) ==
    /\ ~Missing(o, after) /\ ~Missing(o, before)
    /\ TupleLess(VersionTuple(after[o]), VersionTuple(before[o]))
Increased(o, before, after) ==
    /\ ~Missing(o, after)
    /\ Missing(o, before) \/ TupleLess(VersionTuple(before[o]), VersionTuple(after[o]))

ClassifiedUpFirst(expected, before, after, output, preventDowngrade) ==
    IF \E o \in expected : Increased(o, before, after)
    THEN IF output.fail \/ output.code \notin {"none", "0"}
         THEN "SUCCESS_WITH_WARNING"
         ELSE "SUCCESS"
    ELSE IF output.noUpdates /\ output.code \in {"none", "-85"}
    THEN "SKIPPED_NO_UPDATE"
    ELSE "FAILED_UNCONFIRMED"
\* classify_package_result.
Classified(expected, before, after, output, preventDowngrade) ==
    IF preventDowngrade /\ \E o \in expected : Decreased(o, before, after)
    THEN "FAILED"
    ELSE IF \E o \in expected : Increased(o, before, after)
    THEN IF output.fail \/ output.code \notin {"none", "0"}
         THEN "SUCCESS_WITH_WARNING"
         ELSE "SUCCESS"
    ELSE IF output.noUpdates /\ output.code \in {"none", "-85"}
    THEN "SKIPPED_NO_UPDATE"
    ELSE "FAILED_UNCONFIRMED"

\* _classify_with_successful_no_change: a completed transfer of what the device
\* already had.  It compares the version strings themselves.
AlreadyCurrent(expected, before, after, output) ==
    /\ output.transferOk
    /\ output.code \in {"none", "0"}
    /\ ~output.fail
    /\ expected # {}
    /\ \A o \in expected : after[o] # NoVersion /\ before[o] = after[o]

\* The rule without the version comparison.
ClassifyTrustingTransfer(expected, before, after, output, preventDowngrade) ==
    LET status == Classified(expected, before, after, output, preventDowngrade) IN
    IF status = "FAILED_UNCONFIRMED" /\ output.transferOk
    THEN "SKIPPED_NO_UPDATE"
    ELSE status
Classify(expected, before, after, output, preventDowngrade) ==
    LET status == Classified(expected, before, after, output, preventDowngrade) IN
    IF status = "FAILED_UNCONFIRMED" /\ AlreadyCurrent(expected, before, after, output)
    THEN "SKIPPED_NO_UPDATE"
    ELSE status

\* _overall_status, from the results of the packages that were restored.
OverallStatus(results, postflight) ==
    IF postflight # "PASS" \/ results \intersect Blocking # {}
    THEN "FAILED"
    ELSE IF results \intersect {"SUCCESS_WITH_WARNING", "SKIPPED_NO_UPDATE"} # {}
    THEN "SUCCESS_WITH_WARNING"
    ELSE "SUCCESS"
=============================================================================
