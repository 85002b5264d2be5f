----------------------------- MODULE MCExportJob -----------------------------
EXTENDS ExportJob, TLC

\* Two results with the same name, one from an image and with sidecars whose
\* names become the same, one from the live source.
MCResults ==
    [f1 |-> [name |-> "a", path |-> <<"/", "d">>, image |-> TRUE, fork |-> TRUE,
             streams |-> <<"s?", "s*">>],
     f2 |-> [name |-> "a", path |-> <<"/", "..", "d">>, image |-> FALSE, fork |-> FALSE,
             streams |-> <<>>]]
MCSafeName == [n \in {"a", "s?", "s*"} |-> IF n = "a" THEN "a" ELSE "s_"]
MCSelections == {<<>>, <<"f1">>, <<"f2", "f1">>, <<"f3">>}
MCDestinations == {<<"d1", "d2">>, <<"d1", "d1">>}
MCOccupied ==
    LET main == [dir |-> <<>>, name |-> "a", copy |-> 0, side |-> "main", n |-> 0]
    IN (main :> UserFile) @@ (ManifestPath :> UserFile)
       @@ ([main EXCEPT !.dir = <<"d">>] :> [UserFile EXCEPT !.part = "dir"])

RenameAndSkip == {"rename", "skip"}
AllStrategies == {"rename", "skip", "overwrite"}
OneFile == {<<"f1">>}
TwoFiles == {<<"f2", "f1">>}
=============================================================================
