--------------------------- MODULE MCScannerCall ---------------------------
(* A small instance of ScannerCall for TLC.                                *)
EXTENDS ScannerCall
=============================================================================
