------------------------------- MODULE MCHttp -------------------------------
(* Small instances of HttpSession for TLC.                                 *)
EXTENDS HttpSession, TLC

Symmetry == Permutations(Caller) \cup Permutations(Session)
=============================================================================
