-------------------------- MODULE McpClientProofs ---------------------------
(***************************************************************************)
(* Theorems about McpClient, for any number of callers, any versions, with *)
(* and without timeouts and dropped callers.                               *)
(***************************************************************************)
EXTENDS McpClient, TLAPS

-----------------------------------------------------------------------------
(* The sequence of what was sent.                                          *)

\* Appending keeps what was there and adds one place at the end.
LEMMA AppendFacts ==
  ASSUME NEW S, NEW s \in Seq(S), NEW m \in S
  PROVE  /\ Append(s, m) \in Seq(S)
         /\ Len(s) \in Nat /\ DOMAIN s = 1 .. Len(s)
         /\ Len(Append(s, m)) = Len(s) + 1
         /\ DOMAIN Append(s, m) = 1 .. Len(s) + 1
         /\ \A i \in 1 .. Len(s) : Append(s, m)[i] = s[i]
         /\ Append(s, m)[Len(s) + 1] = m
OBVIOUS

-----------------------------------------------------------------------------
(* Type correctness.                                                       *)

LEMMA TypeInit == Init => TypeOK
<1> SUFFICES ASSUME Init PROVE TypeOK
  OBVIOUS
<1>1. wire \in Seq(Message)
  BY DEF Init
<1>2. id \in [Caller -> 0 .. nextId - 1]
  BY DEF Init
<1> QED
  BY <1>1, <1>2 DEF Init, TypeOK, Places, Results

LEMMA TypeStep == TypeOK /\ [Next]_vars => TypeOK'
<1> SUFFICES ASSUME TypeOK, [Next]_vars PROVE TypeOK'
  OBVIOUS
<1> USE DEF TypeOK, cell
<1>1. ASSUME NEW c \in Caller, NEW value \in Results, Finish(c, value) PROVE TypeOK'
  BY <1>1 DEF Finish, Goto, Places
<1>2. ASSUME NEW c \in Caller, Enter(c) \/ Admit(c) \/ Wake(c) \/ Settle(c) PROVE TypeOK'
  BY <1>2 DEF Enter, Admit, Wake, Settle, Goto, Places, Handshake
<1>3. ASSUME NEW c \in Caller, Prepare(c) PROVE TypeOK'
  BY <1>3 DEF Prepare, DrawId, Goto, Places, Handshake
<1>4. ASSUME NEW c \in Caller, Send(c) \/ SendInitialized(c) PROVE TypeOK'
  <2>1. PICK m \in Message : wire' = Append(wire, m)
    BY <1>4 DEF Send, SendInitialized, Message
  <2>2. wire' \in Seq(Message)
    BY <2>1, AppendFacts
  <2>3. pc' \in [Caller -> Places]
    BY <1>4 DEF Send, SendInitialized, Goto, Places, Handshake
  <2> QED
    BY <1>4, <2>2, <2>3 DEF Send, SendInitialized
<1>5. ASSUME NEW c \in Caller, ServerInitializes(c) PROVE TypeOK'
  BY <1>5, VersionAssumption DEF ServerInitializes, Answered, Goto, Places, Handshake
<1>6. ASSUME NEW c \in Caller,
             TransportFails(c) \/ NotifyFails(c) \/ TimeOut(c) \/ Disconnect(c)
               \/ ServerRefuses(c) \/ ServerNamesOther(c) \/ ServerReturns(c)
      PROVE  TypeOK'
  BY <1>1, <1>6 DEF TransportFails, NotifyFails, TimeOut, Disconnect, ServerRefuses,
     ServerNamesOther, ServerReturns, Results
<1>7. CASE ShutdownTransport
  BY <1>7 DEF ShutdownTransport
<1>8. CASE UNCHANGED vars
  BY <1>8 DEF vars
<1> QED
  BY <1>2, <1>3, <1>4, <1>5, <1>6, <1>7, <1>8 DEF Next, OwnStep, ServerStep

\* The state of a client keeps its shape (client.rs:18-27).
THEOREM TypeCorrect == Spec => []TypeOK
BY TypeInit, TypeStep, PTL DEF Spec

-----------------------------------------------------------------------------
(* The OnceCell: one handshake at a time, and none once the cell is set.   *)

\* Whoever is in the handshake holds the one permit and the cell is empty;
\* whoever is past the gate found it set; what is about to be stored is a
\* version the client supports.
GateInv ==
  /\ \A c \in Caller : c \in permit <=> pc[c] \in Handshake
  /\ \A c, d \in permit : c = d
  /\ permit # {} => negotiated = None
  /\ \A c \in Caller : pc[c] \in {"call", "callSend", "callAwait"} => negotiated # None
  /\ \A c \in Caller : pc[c] \in {"notify", "flush"} => offer \in Supported

LEMMA GateInit == Init => GateInv
BY DEF Init, GateInv, Handshake

\* The steps that end a call: it leaves its place and returns the permit.
Ends(c) == \E value \in Results : Finish(c, value)

LEMMA EndsCases ==
  ASSUME NEW c \in Caller,
         TransportFails(c) \/ NotifyFails(c) \/ TimeOut(c) \/ Disconnect(c)
           \/ ServerRefuses(c) \/ ServerNamesOther(c) \/ ServerReturns(c)
  PROVE  Ends(c)
BY DEF Ends, Results, TransportFails, NotifyFails, TimeOut, Disconnect, ServerRefuses,
   ServerNamesOther, ServerReturns

\* Every step of the client is one of these.
LEMMA StepCases ==
  ASSUME [Next]_vars
  PROVE  \/ \E c \in Caller :
              \/ Enter(c) \/ Admit(c) \/ Wake(c) \/ Prepare(c) \/ Send(c)
              \/ SendInitialized(c) \/ Settle(c) \/ ServerInitializes(c) \/ Ends(c)
         \/ ShutdownTransport
         \/ UNCHANGED vars
BY EndsCases DEF Next, OwnStep, ServerStep

LEMMA GateStep == TypeOK /\ GateInv /\ [Next]_vars => GateInv'
<1> SUFFICES ASSUME TypeOK, GateInv, [Next]_vars PROVE GateInv'
  OBVIOUS
<1> USE DEF TypeOK, GateInv, Handshake, Goto, cell
<1>1. ASSUME NEW c \in Caller, Enter(c) PROVE GateInv'
  BY <1>1 DEF Enter
<1>2. ASSUME NEW c \in Caller, Admit(c) PROVE GateInv'
  BY <1>2 DEF Admit, PermitFree
<1>3. ASSUME NEW c \in Caller, Wake(c) PROVE GateInv'
  BY <1>3 DEF Wake
<1>4. ASSUME NEW c \in Caller, Prepare(c) PROVE GateInv'
  BY <1>4 DEF Prepare
<1>5. ASSUME NEW c \in Caller, Send(c) PROVE GateInv'
  BY <1>5 DEF Send
<1>6. ASSUME NEW c \in Caller, SendInitialized(c) PROVE GateInv'
  BY <1>6 DEF SendInitialized
<1>7. ASSUME NEW c \in Caller, Settle(c) PROVE GateInv'
  BY <1>7, VersionAssumption DEF Settle
<1>8. ASSUME NEW c \in Caller, ServerInitializes(c) PROVE GateInv'
  BY <1>8 DEF ServerInitializes, Acceptable
<1>9. ASSUME NEW c \in Caller, Ends(c) PROVE GateInv'
  BY <1>9 DEF Ends, Finish
<1>10. CASE ShutdownTransport \/ UNCHANGED vars
  BY <1>10 DEF ShutdownTransport, vars
<1> QED
  BY <1>1, <1>2, <1>3, <1>4, <1>5, <1>6, <1>7, <1>8, <1>9, <1>10, StepCases

LEMMA GateAlways == Spec => [](TypeOK /\ GateInv)
BY TypeInit, TypeStep, GateInit, GateStep, PTL DEF Spec

\* The version callers rely on is a supported one and is never replaced, for
\* any number of callers that race for the cell.
THEOREM VersionStays == Spec => VersionIsFinal
<1>1. TypeOK /\ GateInv /\ [Next]_vars
        => [/\ negotiated # None => negotiated' = negotiated
            /\ negotiated' # negotiated => negotiated' \in Supported]_vars
  <2> SUFFICES ASSUME TypeOK, GateInv, [Next]_vars,
                      ~\E c \in Caller : Settle(c)
               PROVE  negotiated' = negotiated
    BY DEF Settle, TypeOK, GateInv, Handshake
  <2> QED
    BY StepCases DEF Enter, Admit, Wake, Prepare, Send, SendInitialized, ServerInitializes,
       Ends, Finish, ShutdownTransport, vars, cell
<1> QED
  BY <1>1, GateAlways, PTL DEF Spec, VersionIsFinal

-----------------------------------------------------------------------------
(* Ids.                                                                    *)

Requests == Sent("initialize") \cup Sent("call")

\* The counter is ahead of every id; callers hold different ids; one that has
\* not sent its request yet holds an id the wire has not seen.
IdInv ==
  /\ nextId > 0
  /\ \A c, d \in Caller : id[c] = id[d] /\ id[c] # 0 => c = d
  /\ \A c \in Caller : pc[c] \in {"initSend", "initAwait", "callSend", "callAwait"} => id[c] # 0
  /\ \A i \in Requests : wire[i].id < nextId
  /\ \A c \in Caller : pc[c] \in {"initSend", "callSend"} =>
       \A i \in Requests : wire[i].id # id[c]
  /\ UniqueIds

LEMMA IdInit == Init => IdInv
BY DEF Init, IdInv, Requests, Sent, UniqueIds

LEMMA IdStep == TypeOK /\ IdInv /\ [Next]_vars => IdInv'
<1> SUFFICES ASSUME TypeOK, IdInv, [Next]_vars PROVE IdInv'
  OBVIOUS
<1> USE DEF TypeOK, IdInv, Requests, Sent, UniqueIds, Goto, cell
<1> HIDE DEF Message
<1>0. Len(wire) \in Nat /\ \A i \in DOMAIN wire : wire[i].id \in Nat
  <2>1. \A i \in DOMAIN wire : wire[i] \in Message
    OBVIOUS
  <2>2. \A m \in Message : m.id \in Nat
    BY DEF Message
  <2> QED
    BY <2>1, <2>2
<1>1. ASSUME NEW c \in Caller,
             Enter(c) \/ Admit(c) \/ Wake(c) \/ Settle(c) \/ ServerInitializes(c) \/ Ends(c)
      PROVE  IdInv'
  BY <1>1 DEF Enter, Admit, Wake, Settle, ServerInitializes, Ends, Finish
<1>2. ASSUME NEW c \in Caller, Prepare(c) PROVE IdInv'
  BY <1>0, <1>2 DEF Prepare, DrawId
<1>3. ASSUME NEW c \in Caller, Send(c) PROVE IdInv'
  <2>1. PICK m \in Message : wire' = Append(wire, m) /\ m.id = id[c]
    BY <1>3 DEF Send, Message
  <2>2. id[c] # 0 /\ id[c] < nextId
    BY <1>3 DEF Send
  <2> QED
    BY <1>0, <1>3, <2>1, <2>2, AppendFacts DEF Send
<1>4. ASSUME NEW c \in Caller, SendInitialized(c) PROVE IdInv'
  <2>1. PICK m \in Message : wire' = Append(wire, m) /\ m.method = "initialized"
    BY <1>4 DEF SendInitialized, Message
  <2> QED
    BY <1>0, <1>4, <2>1, AppendFacts DEF SendInitialized
<1>5. CASE ShutdownTransport \/ UNCHANGED vars
  BY <1>5 DEF ShutdownTransport, vars
<1> QED
  BY <1>1, <1>2, <1>3, <1>4, <1>5, StepCases

\* No two requests of a client carry one id (client.rs:47), however many
\* callers draw ids and give up before they use them.
THEOREM IdsUnique == Spec => []UniqueIds
<1>1. IdInv => UniqueIds
  BY DEF IdInv
<1> QED
  BY <1>1, TypeInit, TypeStep, IdInit, IdStep, PTL DEF Spec

-----------------------------------------------------------------------------
(* The order on the wire.                                                  *)

\* What the server was sent last tells where the one caller in the handshake
\* is, and whether anything but handshakes can be on the wire.
WireInv ==
  /\ negotiated = None => Sent("call") = {}
  /\ negotiated # None => Sent("initialized") # {}
  /\ \A c \in Caller : pc[c] \in {"initAwait", "notify"} =>
       /\ wire # <<>> /\ wire[Len(wire)].method = "initialize"
       /\ wire[Len(wire)].from = c /\ wire[Len(wire)].id = id[c]
  /\ \A c \in Caller : pc[c] = "flush" =>
       wire # <<>> /\ wire[Len(wire)].method = "initialized"
  /\ HandshakesDoNotOverlap
  /\ HandshakeFirst

LEMMA WireInit == Init => WireInv
BY DEF Init, WireInv, Sent, HandshakesDoNotOverlap, HandshakeFirst

\* The one message a step may add, and who adds it.
LEMMA SendAdds ==
  ASSUME TypeOK, NEW c \in Caller, Send(c) \/ SendInitialized(c)
  PROVE  \E m \in Message :
           /\ wire' = Append(wire, m)
           /\ m.from = c
           /\ pc[c] = "initSend" => m.method = "initialize" /\ m.id = id[c]
           /\ pc[c] = "callSend" => m.method = "call" /\ m.id = id[c]
           /\ pc[c] = "notify" => m.method = "initialized"
<1> DEFINE m == [method |-> CASE pc[c] = "initSend" -> "initialize" [] pc[c] = "notify" -> "initialized"
                              [] OTHER -> "call",
                 id |-> IF pc[c] = "notify" THEN 0 ELSE id[c], from |-> c]
<1>1. m \in Message
  BY DEF Message, TypeOK
<1>2. wire' = Append(wire, m)
  BY DEF Send, SendInitialized
<1> QED
  BY <1>1, <1>2

LEMMA WireStep == TypeOK /\ GateInv /\ WireInv /\ [Next]_vars => WireInv'
<1> SUFFICES ASSUME TypeOK, GateInv, WireInv, [Next]_vars PROVE WireInv'
  OBVIOUS
<1>0. Len(wire) \in Nat /\ DOMAIN wire = 1 .. Len(wire) /\ wire \in Seq(Message)
      /\ (wire # <<>> => Len(wire) > 0)
  BY DEF TypeOK
<1> DEFINE Tip ==
      /\ negotiated = None => Sent("call") = {}
      /\ negotiated # None => Sent("initialized") # {}
      /\ \A c \in Caller : pc[c] \in {"initAwait", "notify"} =>
           /\ wire # <<>> /\ wire[Len(wire)].method = "initialize"
           /\ wire[Len(wire)].from = c /\ wire[Len(wire)].id = id[c]
      /\ \A c \in Caller : pc[c] = "flush" =>
           wire # <<>> /\ wire[Len(wire)].method = "initialized"
<1>1. ASSUME wire' = wire, Tip' PROVE WireInv'
  BY <1>1 DEF WireInv, Sent, HandshakesDoNotOverlap, HandshakeFirst
<1>2. ASSUME NEW c \in Caller, Enter(c) \/ Admit(c) \/ Wake(c) \/ Prepare(c) \/ Ends(c)
      PROVE  WireInv'
  BY <1>1, <1>2 DEF WireInv, Sent, TypeOK, Handshake, Goto, cell,
     Enter, Admit, Wake, Prepare, DrawId, Ends, Finish
<1>3. ASSUME NEW c \in Caller, Settle(c) PROVE WireInv'
  <2>1. Sent("initialized") # {}
    BY <1>0, <1>3 DEF Settle, WireInv, Sent
  <2>2. negotiated' # None
    BY <1>3, VersionAssumption DEF Settle, GateInv
  <2> QED
    BY <1>1, <1>3, <2>1, <2>2 DEF Settle, WireInv, Sent, TypeOK, Goto
<1>4. ASSUME NEW c \in Caller, ServerInitializes(c) PROVE WireInv'
  BY <1>1, <1>4 DEF ServerInitializes, WireInv, Sent, TypeOK, Goto
<1>5. ASSUME NEW c \in Caller, Send(c) \/ SendInitialized(c) PROVE WireInv'
  <2>1. PICK m \in Message :
           /\ wire' = Append(wire, m)
           /\ m.from = c
           /\ pc[c] = "initSend" => m.method = "initialize" /\ m.id = id[c]
           /\ pc[c] = "callSend" => m.method = "call" /\ m.id = id[c]
           /\ pc[c] = "notify" => m.method = "initialized"
    BY <1>5, SendAdds
  <2>2. /\ DOMAIN wire' = 1 .. Len(wire) + 1 /\ Len(wire') = Len(wire) + 1
        /\ \A i \in 1 .. Len(wire) : wire'[i] = wire[i]
        /\ wire'[Len(wire) + 1] = m
    BY <1>0, <2>1, AppendFacts
  <2>3. CASE pc[c] = "initSend"
    <3>0. m.method = "initialize"
      BY <2>1, <2>3
    <3>1. negotiated = None /\ negotiated' = None /\ \A d \in Caller : d # c => pc[d] \notin Handshake
      BY <1>5, <2>3 DEF GateInv, Handshake, Send, SendInitialized, cell
    <3>2. Tip'
      <4>1. pc' = [pc EXCEPT ![c] = "initAwait"] /\ id' = id
        BY <1>5, <2>3 DEF Send, SendInitialized, Goto
      <4>2. \A d \in Caller : pc'[d] \in {"initAwait", "notify", "flush"} => d = c /\ pc'[d] = "initAwait"
        BY <3>1, <4>1 DEF TypeOK, Handshake
      <4>3. wire' # <<>> /\ wire'[Len(wire')] = m
        BY <1>0, <2>2
      <4>4. Sent("call")' = {}
        BY <1>0, <2>2, <3>0, <3>1 DEF WireInv, Sent
      <4> QED
        BY <2>1, <2>3, <3>0, <3>1, <4>1, <4>2, <4>3, <4>4
    <3>3. HandshakesDoNotOverlap'
      BY <1>0, <2>2, <3>0 DEF WireInv, Sent, HandshakesDoNotOverlap
    <3>4. HandshakeFirst'
      BY <1>0, <2>2, <3>0, <3>1 DEF WireInv, Sent, HandshakeFirst
    <3> QED
      BY <3>2, <3>3, <3>4 DEF WireInv
  <2>4. CASE pc[c] = "callSend"
    <3>0. m.method = "call"
      BY <2>1, <2>4
    <3>1. negotiated # None /\ negotiated' # None /\ \A d \in Caller : pc[d] \notin Handshake
      BY <1>5, <2>4 DEF GateInv, Handshake, Send, SendInitialized, cell
    <3>2. Tip'
      BY <1>0, <1>5, <2>2, <2>4, <3>1 DEF WireInv, Sent, TypeOK, Handshake, Send,
         SendInitialized, Goto
    <3>3. HandshakesDoNotOverlap'
      BY <1>0, <2>2, <3>0 DEF WireInv, Sent, HandshakesDoNotOverlap
    <3>4. PICK k \in 1 .. Len(wire) : wire[k].method = "initialized"
      BY <1>0, <3>1 DEF WireInv, Sent
    <3>5. k - 1 \in 1 .. Len(wire) /\ wire[k - 1].method = "initialize"
      <4>1. k \in Sent("initialized") /\ HandshakesDoNotOverlap
        BY <1>0, <3>4 DEF WireInv, Sent
      <4> QED
        BY <1>0, <4>1 DEF HandshakesDoNotOverlap
    <3>6. HandshakeFirst'
      <4>1. /\ Sent("call")' = Sent("call") \cup {Len(wire) + 1}
            /\ Sent("initialized")' = Sent("initialized") /\ Sent("initialize")' = Sent("initialize")
        BY <1>0, <2>2, <3>0 DEF Sent
      <4>2. k \in Sent("initialized") /\ k - 1 \in Sent("initialize") /\ k < Len(wire) + 1 /\ k - 1 < k
        BY <1>0, <3>4, <3>5 DEF Sent
      <4>3. \A i \in Sent("initialize") \cup Sent("initialized") : i < Len(wire) + 1
        BY <1>0 DEF Sent
      <4>4. ASSUME NEW i \in Sent("call")'
            PROVE  /\ \E j \in Sent("initialized") : j < i /\ \E l \in Sent("initialize") : l < j
                   /\ \A j \in Sent("initialize") \cup Sent("initialized") : j < i
        <5>1. CASE i = Len(wire) + 1
          BY <4>2, <4>3, <5>1
        <5>2. CASE i \in Sent("call")
          BY <5>2 DEF WireInv, HandshakeFirst
        <5> QED
          BY <4>1, <4>4, <5>1, <5>2
      <4> QED
        BY <4>1, <4>4 DEF HandshakeFirst
    <3> QED
      BY <3>2, <3>3, <3>6 DEF WireInv
  <2>5. CASE pc[c] = "notify"
    <3>0. m.method = "initialized" /\ m.from = c
      BY <2>1, <2>5
    <3>1. negotiated = None /\ negotiated' = None /\ \A d \in Caller : d # c => pc[d] \notin Handshake
      BY <1>5, <2>5 DEF GateInv, Handshake, Send, SendInitialized, cell
    <3>2. Tip'
      <4>1. pc' = [pc EXCEPT ![c] = "flush"]
        BY <1>5, <2>5 DEF Send, SendInitialized, Goto
      <4>2. \A d \in Caller : pc'[d] \in {"initAwait", "notify", "flush"} => pc'[d] = "flush"
        BY <3>1, <4>1 DEF TypeOK, Handshake
      <4>3. wire' # <<>> /\ wire'[Len(wire')] = m
        BY <1>0, <2>2
      <4>4. Sent("call")' = {}
        BY <1>0, <2>2, <3>0, <3>1 DEF WireInv, Sent
      <4> QED
        BY <3>0, <3>1, <4>2, <4>3, <4>4
    <3>3. HandshakesDoNotOverlap'
      <4>1. Len(wire) > 0 /\ wire[Len(wire)].method = "initialize" /\ wire[Len(wire)].from = c
        BY <1>0, <2>5 DEF WireInv
      <4> QED
        BY <1>0, <2>2, <3>0, <4>1 DEF WireInv, Sent, HandshakesDoNotOverlap
    <3>4. HandshakeFirst'
      BY <1>0, <2>2, <3>0, <3>1 DEF WireInv, Sent, HandshakeFirst
    <3> QED
      BY <3>2, <3>3, <3>4 DEF WireInv
  <2> QED
    BY <1>5, <2>3, <2>4, <2>5 DEF Send, SendInitialized
<1>6. CASE ShutdownTransport \/ UNCHANGED vars
  BY <1>1, <1>6 DEF ShutdownTransport, vars, cell, WireInv, Sent
<1> QED
  BY <1>2, <1>3, <1>4, <1>5, <1>6, StepCases

LEMMA WireAlways == Spec => []WireInv
BY GateAlways, WireInit, WireStep, PTL DEF Spec

\* No call reaches the server before a completed handshake and no handshake
\* traffic after the first call (client.rs:119-136), for any number of callers.
THEOREM HandshakePrecedesCalls == Spec => []HandshakeFirst
<1>1. WireInv => HandshakeFirst
  BY DEF WireInv
<1> QED
  BY <1>1, WireAlways, PTL

\* Two handshakes never interleave on a connection (client.rs:57), whoever
\* times out or is dropped in the middle of one.
THEOREM OneHandshakeAtATime == Spec => []HandshakesDoNotOverlap
<1>1. WireInv => HandshakesDoNotOverlap
  BY DEF WireInv
<1> QED
  BY <1>1, WireAlways, PTL
=============================================================================
