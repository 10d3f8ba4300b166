----------------------------- MODULE MCAgentBus -----------------------------
(* Small instances of AgentBus for TLC.                                    *)
EXTENDS AgentBus, TLC

CONSTANTS c1, c2, w1, w2, send, play, odd

\* One name has a fallback row, another only the default, if any.
OneRow  == [n \in Name |-> IF n = send THEN w1 ELSE Nothing]
\* hello pushes the blueprint and the state of one scope.
Hi      == <<Nothing, w1>>
Silence == <<>>

Symmetry == Permutations(Stream) \cup Permutations(Post) \cup Permutations(Conn)
=============================================================================
