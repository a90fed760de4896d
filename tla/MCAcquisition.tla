----------------------------- MODULE MCAcquisition -----------------------------
(* Two processes and archives of every sort on four package names. *)
EXTENDS Acquisition

Pkg(name, data) == [name |-> name, data |-> data]

MCNames == {"av", "av2", "doc", "odd"}
MCKind == [n \in MCNames |-> CASE n = "odd" -> "UNKNOWN"
                               [] n = "doc" -> "IGNORED"
                               [] OTHER -> "ANTIVIRUS"]

\* In order: an archive with an ignored package and a member that occurs twice, two
\* members in conflict, an enabled kind that occurs twice, an unknown package, no
\* package at all.
MCBundles ==
    {<<Pkg("av", "new"), Pkg("doc", "new"), Pkg("av", "new")>>,
     <<Pkg("av", "new"), Pkg("av", "old")>>,
     <<Pkg("av", "new"), Pkg("av2", "new")>>,
     <<Pkg("av", "new"), Pkg("odd", "new")>>,
     <<>>}
=============================================================================
