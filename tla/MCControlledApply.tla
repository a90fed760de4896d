--------------------------- MODULE MCControlledApply ---------------------------
(* Small instances of ControlledApply for TLC. *)
EXTENDS ControlledApply

CONSTANTS av, ffdb, isdb, mm1, mm2

\* A manifest with the FFDB package ahead of the AV package, one package that is
\* not safe for deferred apply, and two of one kind.
KindMC ==
    [f \in Files |-> CASE f = av -> "AV" [] f = ffdb -> "FFDB" [] f = isdb -> "ISDB"
                       [] OTHER -> "MMDB"]
PositionMC ==
    [f \in Files |-> CASE f = ffdb -> 1 [] f = av -> 2 [] f = isdb -> 3 [] f = mm1 -> 4
                       [] OTHER -> 5]
PackageOrderMC == <<"AV", "FFDB">>

\* AV has two objects, FFDB two.
ObjectsMC == {"vdb", "ext", "apps", "maps"}
ExpectedMC ==
    [f \in Files |-> CASE f = av -> {"vdb", "ext"} [] f = ffdb -> {"apps", "maps"}
                       [] OTHER -> {}]

Now == <<1, 1>>
Rewritten == <<1, 1, 0>>
Up == <<1, 2>>
Down == <<1, 0, 9>>
VersionsMC == {NoVersion, Now, Rewritten, Up, Down}

\* What a restore makes of a package's first and second object.
Outcomes == {<<Now, Now>>, <<Rewritten, Now>>, <<Up, Up>>, <<Up, Down>>, <<Up, NoVersion>>,
             <<Down, Now>>}
EffectsMC ==
    [f \in Files |->
        {[o \in Objects |-> IF o \in {"vdb", "apps"} THEN pair[1] ELSE pair[2]] :
            pair \in Outcomes}]

Output(code, fail, noUpdates, transferOk) ==
    [code |-> code, fail |-> fail, noUpdates |-> noUpdates, transferOk |-> transferOk]
OutputsMC ==
    {Output("none", FALSE, FALSE, TRUE), Output("-85", FALSE, TRUE, FALSE),
     Output("49", TRUE, FALSE, TRUE), Output("none", TRUE, FALSE, FALSE)}

Settings(mode, approved, enabled, stop) ==
    {[mode |-> mode, approved |-> approved, enabled |-> enabled, requireBackup |-> required,
      preventDowngrade |-> prevent, stopOnFailure |-> stop] :
        required \in BOOLEAN, prevent \in BOOLEAN}
ConfigsMC ==
    UNION {Settings("approval", TRUE, {"AV", "FFDB"}, TRUE),
           Settings("unattended", FALSE, {"AV", "FFDB", "ISDB"}, FALSE),
           Settings("approval", FALSE, {"AV"}, TRUE),
           Settings("prepare_only", TRUE, {"AV"}, TRUE),
           Settings("unattended", FALSE, {"AV", "MMDB"}, TRUE),
           Settings("unattended", FALSE, {"ISDB"}, TRUE)}

\* The device starts with versions an object may be missing from.
InitMC ==
    /\ versions \in {[o \in Objects |-> Now],
                     [o \in Objects |-> IF o = "maps" THEN NoVersion ELSE Now]}
    /\ Init
SpecMC == InitMC /\ [][Next]_vars

-----------------------------------------------------------------------------
(* What documents say and the code does not do. *)

\* README.md: a missing expected FortiGuard object blocks the apply.
MissingFailsClosed ==
    AppliedHere => \A f \in Selected : \A o \in Expected[f] : ~Missing(o, before)

\* docs/architecture.md, docs/controlled-apply.md and docs/operations.md: the permanent
\* copy of the backup is verified before the first restore.
BackupVerifiedFirst == config.requireBackup /\ sent # <<>> => store = "whole"
=============================================================================
