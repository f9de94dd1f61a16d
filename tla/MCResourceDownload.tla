-------------------------- MODULE MCResourceDownload --------------------------
(* Small instances of ResourceDownload; the bounds are in the .cfg files.    *)
EXTENDS ResourceDownload
CONSTANTS r1, r2, f1, f2
TwoFilesAndOne == [r \in Resources |-> IF r = r1 THEN {f1, f2} ELSE {f1}]
=============================================================================
