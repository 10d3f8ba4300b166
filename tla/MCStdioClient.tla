--------------------------- MODULE MCStdioClient ----------------------------
(* Small instances of StdioClient for TLC.                                 *)
EXTENDS StdioClient, TLC

Symmetry == Permutations(Caller)
=============================================================================
