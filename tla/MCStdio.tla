------------------------------ MODULE MCStdio -------------------------------
(* Small instances of StdioTransport for TLC.                              *)
EXTENDS StdioTransport, TLC

\* Requests are interchangeable; sound for the runs without liveness.
Symmetry == Permutations(Req)
=============================================================================
