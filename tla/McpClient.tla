----------------------------- MODULE McpClient ------------------------------
(***************************************************************************)
(* One McpClient (src/mcp/client.rs) shared by concurrent callers.  Each   *)
(* caller makes one call_tool / list_tools / read_resource: it passes      *)
(* ensure_initialized, where tokio's OnceCell lets one caller at a time    *)
(* run the handshake until one succeeds, and then sends its own request.   *)
(* The transport is reduced to what StdioTransport shows of it: a request  *)
(* reaches the server whole or not at all and gets its own answer, an      *)
(* error, or nothing.                                                      *)
(***************************************************************************)
EXTENDS Naturals, FiniteSets, Sequences

CONSTANTS
  Caller,      \* concurrent users of the client
  Version,     \* protocol versions a server may name
  Supported,   \* SUPPORTED_PROTOCOL_VERSIONS
  Advertised,  \* MCP_PROTOCOL_VERSION
  None,        \* no version
  Timed,       \* is request_timeout set and not zero?
  Droppable    \* may a caller's future be dropped (HTTP client gone)?

ASSUME VersionAssumption ==
  Supported \subseteq Version /\ Advertised \in Supported /\ None \notin Version
ASSUME ModeAssumption == Timed \in BOOLEAN /\ Droppable \in BOOLEAN

VARIABLES
  pc,          \* where each caller is
  permit,      \* callers that hold the OnceCell's permit
  negotiated,  \* the OnceCell
  offer,       \* the version the caller in the handshake is about to store
  nextId,      \* the AtomicU64
  id,          \* the id of each caller's current request, 0 if none
  result,      \* what each caller got: "none", "ok" or an error
  closed,      \* shutdown_transport was called
  wire         \* what the server was sent, in order

cell == <<permit, negotiated, offer>>
vars == <<pc, cell, nextId, id, result, closed, wire>>

\* Mutated form: the handshake is not under the timeout.
TimeableCalls == {"callSend", "callAwait"}

\* Handshake states hold the permit; Timeable ones are inside send_with_timeout.
Handshake == {"init", "initSend", "initAwait", "notify", "flush"}
Timeable  == {"initSend", "initAwait", "callSend", "callAwait"}
Places    == {"idle", "gate", "call", "callSend", "callAwait", "done"} \cup Handshake
Results   == {"none", "ok", "upstream", "transport", "timeout", "dropped"}
Message   == [method : {"initialize", "initialized", "call"}, id : Nat, from : Caller]

Goto(c, place) == pc' = [pc EXCEPT ![c] = place]

Init ==
  /\ pc = [c \in Caller |-> "idle"]
  /\ permit = {}
  /\ negotiated = None
  /\ offer = None
  /\ nextId = 1
  /\ id = [c \in Caller |-> 0]
  /\ result = [c \in Caller |-> "none"]
  /\ closed = FALSE
  /\ wire = <<>>

-----------------------------------------------------------------------------
\* Return to the caller; the permit, if held, goes to the next waiter.
Finish(c, value) ==
  /\ Goto(c, "done")
  /\ result' = [result EXCEPT ![c] = value]
  /\ permit' = permit \ {c}
  /\ UNCHANGED <<negotiated, offer, nextId, id, closed, wire>>

\* Mutated form: the counter is not advanced.
DrawIdAgain(c) ==
  /\ id' = [id EXCEPT ![c] = nextId]
  /\ nextId' = nextId

\* fetch_add: read and increment in one atomic step.
DrawId(c) ==
  /\ id' = [id EXCEPT ![c] = nextId]
  /\ nextId' = nextId + 1

\* Mutated form: a caller does not wait for a handshake in progress.
EnterPastHandshake(c) ==
  /\ pc[c] = "idle"
  /\ Goto(c, IF negotiated = None /\ permit = {} THEN "gate" ELSE "call")
  /\ UNCHANGED <<cell, nextId, id, result, closed, wire>>

\* get_or_try_init: a set cell is returned at once, otherwise queue.
Enter(c) ==
  /\ pc[c] = "idle"
  /\ Goto(c, IF negotiated = None THEN "gate" ELSE "call")
  /\ UNCHANGED <<cell, nextId, id, result, closed, wire>>

\* Mutated form: the initializer may run several times at once.
NoPermit == TRUE

PermitFree == permit = {}

\* The permit is granted and the cell is still empty: run the initializer.
Admit(c) ==
  /\ pc[c] = "gate" /\ PermitFree /\ negotiated = None
  /\ permit' = permit \cup {c}
  /\ Goto(c, "init")
  /\ UNCHANGED <<negotiated, offer, nextId, id, result, closed, wire>>

\* The cell was set meanwhile: every waiter is let through.
Wake(c) ==
  /\ pc[c] = "gate" /\ negotiated # None
  /\ Goto(c, "call")
  /\ UNCHANGED <<cell, nextId, id, result, closed, wire>>

\* JsonRpcRequest::new(self.next_id(), ...) for the handshake and for invoke.
Prepare(c) ==
  /\ pc[c] \in {"init", "call"}
  /\ DrawId(c)
  /\ Goto(c, IF pc[c] = "init" THEN "initSend" ELSE "callSend")
  /\ UNCHANGED <<cell, result, closed, wire>>

\* transport.request(): the line or POST goes out, unless the transport is shut.
Send(c) ==
  /\ pc[c] \in {"initSend", "callSend"} /\ ~closed
  /\ wire' = Append(wire, [method |-> IF pc[c] = "initSend" THEN "initialize" ELSE "call",
                           id |-> id[c], from |-> c])
  /\ Goto(c, IF pc[c] = "initSend" THEN "initAwait" ELSE "callAwait")
  /\ UNCHANGED <<cell, nextId, id, result, closed>>

\* transport.request() returns Err.
TransportFails(c) ==
  /\ pc[c] \in {"initSend", "callSend", "initAwait", "callAwait"}
  /\ Finish(c, "transport")

\* The server answers with a JSON-RPC error, or the transport, which has lost
\* it, does (stdio.rs:227-236).
ServerRefuses(c) ==
  /\ pc[c] \in {"initSend", "callSend", "initAwait", "callAwait"}
  /\ Finish(c, "upstream")

\* Mutated form: any version will do.
AcceptAny(v) == v \in Version

\* The version in the answer, or the advertised one when it names none.
Answered(v) == IF v = None THEN Advertised ELSE v
Acceptable(v) == v \in Supported

ServerInitializes(c) ==
  /\ pc[c] = "initAwait"
  /\ \E v \in Version \cup {None} :
       /\ Acceptable(Answered(v))
       /\ offer' = Answered(v)
  /\ Goto(c, "notify")
  /\ UNCHANGED <<permit, negotiated, nextId, id, result, closed, wire>>

\* An unsupported version is an error; the cell stays empty and the transport up.
ServerNamesOther(c) ==
  /\ pc[c] = "initAwait"
  /\ \E v \in Version : ~Acceptable(v)
  /\ Finish(c, "upstream")

\* transport.notify(): written, and then flushed or answered.
SendInitialized(c) ==
  /\ pc[c] = "notify" /\ ~closed
  /\ wire' = Append(wire, [method |-> "initialized", id |-> 0, from |-> c])
  /\ Goto(c, "flush")
  /\ UNCHANGED <<cell, nextId, id, result, closed>>

NotifyFails(c) ==
  /\ pc[c] \in {"notify", "flush"}
  /\ Finish(c, "transport")

\* Ok(version): the cell is set and every waiter released.
Settle(c) ==
  /\ pc[c] = "flush"
  /\ negotiated' = offer
  /\ permit' = permit \ {c}
  /\ Goto(c, "call")
  /\ UNCHANGED <<offer, nextId, id, result, closed, wire>>

ServerReturns(c) ==
  /\ pc[c] = "callAwait"
  /\ Finish(c, "ok")

\* tokio::time::timeout around a transport request; nothing else is bounded.
TimeOut(c) ==
  /\ Timed /\ pc[c] \in Timeable
  /\ Finish(c, "timeout")

\* The handler's future is dropped: the permit is returned, the cell unset.
Disconnect(c) ==
  /\ Droppable /\ pc[c] \notin {"idle", "done"}
  /\ Finish(c, "dropped")

\* shutdown_transport(); further requests fail.
ShutdownTransport ==
  /\ ~closed
  /\ closed' = TRUE
  /\ UNCHANGED <<pc, cell, nextId, id, result, wire>>

\* Steps of the client's own, that wait for nobody outside.
OwnStep(c) ==
  \/ Admit(c) \/ Wake(c) \/ Prepare(c) \/ Send(c) \/ SendInitialized(c) \/ Settle(c)
  \/ closed /\ (TransportFails(c) \/ NotifyFails(c))

ServerStep(c) ==
  \/ ServerRefuses(c) \/ ServerInitializes(c) \/ ServerNamesOther(c) \/ ServerReturns(c)

Next ==
  \/ \E c \in Caller :
       \/ Enter(c) \/ OwnStep(c) \/ ServerStep(c)
       \/ TransportFails(c) \/ NotifyFails(c) \/ TimeOut(c) \/ Disconnect(c)
  \/ ShutdownTransport

Spec == Init /\ [][Next]_vars

-----------------------------------------------------------------------------
(* Properties.                                                             *)

\* The shape of one client (client.rs:18-27).
TypeOK ==
  /\ pc \in [Caller -> Places]
  /\ permit \subseteq Caller
  /\ negotiated \in Version \cup {None}
  /\ offer \in Version \cup {None}
  /\ nextId \in Nat
  /\ id \in [Caller -> 0 .. nextId - 1]
  /\ result \in [Caller -> Results]
  /\ closed \in BOOLEAN
  /\ wire \in Seq(Message)

Sent(method) == {i \in DOMAIN wire : wire[i].method = method}

\* The server sees no call before a completed handshake, and no handshake
\* traffic after the first call (client.rs:119-136: every entry point awaits
\* ensure_initialized), whoever timed out or went away in between.
HandshakeFirst ==
  \A i \in Sent("call") :
    /\ \E k \in Sent("initialized") : k < i /\ \E j \in Sent("initialize") : j < k
    /\ \A k \in Sent("initialize") \cup Sent("initialized") : k < i

\* Each `initialized` the server sees closes the latest `initialize`, from the
\* same caller: two handshakes never interleave on the connection.
HandshakesDoNotOverlap ==
  \A k \in Sent("initialized") :
    k > 1 /\ wire[k - 1].method = "initialize" /\ wire[k - 1].from = wire[k].from

\* No two requests carry one id (client.rs:47), which is what lets the
\* transport key its pending map by id.
UniqueIds ==
  \A i, j \in Sent("initialize") \cup Sent("call") :
    wire[i].id = wire[j].id => i = j

\* The negotiated version is one the client supports, and never changes once
\* a caller may have relied on it (client.rs:52-110).
VersionIsFinal ==
  [][/\ negotiated # None => negotiated' = negotiated
     /\ negotiated' # negotiated => negotiated' \in Supported]_vars

\* With a timeout every call ends though the server never answers, those that
\* queue behind another caller's handshake included.
EveryCallEnds == \A c \in Caller : pc[c] # "idle" ~> pc[c] = "done"

=============================================================================
