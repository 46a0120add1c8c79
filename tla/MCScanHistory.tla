--------------------------- MODULE MCScanHistory ---------------------------
(* Small instances of ScanHistory for TLC.                                 *)
EXTENDS ScanHistory, TLC

CallerSymmetry == Permutations(Callers)
=============================================================================
