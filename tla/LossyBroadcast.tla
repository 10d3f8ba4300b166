--------------------------- MODULE LossyBroadcast ---------------------------
(***************************************************************************)
(* What the broadcast bus promises a listener: what it hears was published *)
(* after it joined, each envelope at most once, in the order published.    *)
(* Envelopes may be skipped (a filter, or a listener that is too slow).    *)
(***************************************************************************)
EXTENDS Naturals, Sequences

CONSTANTS Listener, Envelope

VARIABLES published, since, heard

vars == <<published, since, heard>>

\* since[l] is 0 until l joins, then the number of its first envelope.
Init ==
  /\ published = <<>>
  /\ since = [l \in Listener |-> 0]
  /\ heard = [l \in Listener |-> <<>>]

Publish(e) ==
  /\ published' = Append(published, e)
  /\ UNCHANGED <<since, heard>>

Join(l) ==
  /\ since[l] = 0
  /\ since' = [since EXCEPT ![l] = Len(published) + 1]
  /\ UNCHANGED <<published, heard>>

\* Number k comes next only if it is later than all that l has heard.
Hear(l, k) ==
  /\ since[l] # 0 /\ k >= since[l]
  /\ \A i \in DOMAIN heard[l] : heard[l][i] < k
  /\ heard' = [heard EXCEPT ![l] = Append(@, k)]
  /\ UNCHANGED <<published, since>>

Next ==
  \/ \E e \in Envelope : Publish(e)
  \/ \E l \in Listener : Join(l) \/ \E k \in DOMAIN published : Hear(l, k)

Spec == Init /\ [][Next]_vars
=============================================================================
