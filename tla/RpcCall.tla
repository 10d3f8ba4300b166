------------------------------ MODULE RpcCall -------------------------------
(***************************************************************************)
(* What a transport promises to its callers, whatever carries the bytes    *)
(* (trait McpTransport, src/mcp/transport/mod.rs): a call that was opened  *)
(* closes once; it returns an answer only when the server served this very *)
(* call; it fails only when the link to the server is lost; otherwise it   *)
(* can only be abandoned by its own caller.                                *)
(***************************************************************************)
CONSTANT Call

VARIABLES status, result, served, link

vars == <<status, result, served, link>>

Init ==
  /\ status = [c \in Call |-> "idle"]
  /\ result = [c \in Call |-> "none"]
  /\ served = {}
  /\ link = "up"

Open(c) ==
  /\ status[c] = "idle"
  /\ status' = [status EXCEPT ![c] = "open"]
  /\ UNCHANGED <<result, served, link>>

\* The server answers a call, at most once, and only one it was sent.
Serve(c) ==
  /\ status[c] # "idle" /\ c \notin served
  /\ served' = served \cup {c}
  /\ UNCHANGED <<status, result, link>>

LoseLink ==
  /\ link = "up"
  /\ link' = "down"
  /\ UNCHANGED <<status, result, served>>

Close(c, value) ==
  /\ status[c] = "open"
  /\ status' = [status EXCEPT ![c] = "closed"]
  /\ result' = [result EXCEPT ![c] = value]
  /\ UNCHANGED <<served, link>>

Return(c)  == c \in served /\ Close(c, "answer")
Fail(c)    == link = "down" /\ Close(c, "error")
Abandon(c) == Close(c, "dropped")

Next ==
  \/ LoseLink
  \/ \E c \in Call : Open(c) \/ Serve(c) \/ Return(c) \/ Fail(c) \/ Abandon(c)

Spec == Init /\ [][Next]_vars
=============================================================================
