------------------------- MODULE HttpSessionProofs --------------------------
(***************************************************************************)
(* Theorems about HttpSession: the client over HTTP is a client, and what  *)
(* its calls carry, for any number of callers, sessions and versions.      *)
(***************************************************************************)
EXTENDS HttpSession, McpClientProofs

\* Every step over HTTP is a step of the client, or leaves the client alone.
LEMMA HStepIsStep == [HNext]_hvars => [Next]_vars
BY DEF HNext, hvars, HSend, HeadersArrive, HServerInitializes, HServerNamesOther,
   HServerReturns, HServerRefuses, HFails, HOther, Next, OwnStep, ServerStep

\* The two captures and the history of headers do not change what McpClient
\* says: over HTTP the client does nothing it does not allow (http.rs:71-215).
THEOREM OverHttpIsClient == HSpec => Spec
<1>1. HInit => Init
  BY DEF HInit
<1> QED
  BY <1>1, HStepIsStep, PTL DEF HSpec, Spec

-----------------------------------------------------------------------------
(* Type correctness.                                                       *)

LEMMA HTypeInit == HInit => HTypeOK
BY TypeInit DEF HInit, HTypeOK, NoHeaders, Init

LEMMA HTypeStep == HTypeOK /\ [HNext]_hvars => HTypeOK'
<1> SUFFICES ASSUME HTypeOK, [HNext]_hvars PROVE HTypeOK'
  OBVIOUS
<1>0. TypeOK /\ TypeOK'
  BY HStepIsStep, TypeStep DEF HTypeOK
<1>1. /\ wire \in Seq(Message) /\ wire' \in Seq(Message) /\ pc \in [Caller -> Places]
      /\ Len(wire) \in Nat
  BY <1>0 DEF TypeOK
<1> DEFINE Awaiting == {c \in Caller : pc[c] \in {"initAwait", "callAwait"}}
           Rest == /\ session \in Session \cup {NoSession} /\ version \in Version \cup {None}
                   /\ named \in [Caller -> Session \cup {NoSession}]
                   /\ agreed.session \in Session \cup {NoSession}
                   /\ agreed.version \in Version \cup {None}
<1>2. Rest /\ body \subseteq Awaiting /\ Len(headers) = Len(wire)
  BY DEF HTypeOK
<1>3. SUFFICES Rest' /\ body' \subseteq Awaiting' /\ Len(headers') = Len(wire')
  BY <1>0 DEF HTypeOK
<1>4. ASSUME NEW c \in Caller, HSend(c) PROVE Rest' /\ body' \subseteq Awaiting' /\ Len(headers') = Len(wire')
  <2>1. Rest' /\ body' = body /\ c \notin body
    BY <1>2, <1>4 DEF HSend, Send, SendInitialized
  <2>2. \E place : pc' = [pc EXCEPT ![c] = place]
    BY <1>4 DEF HSend, Send, SendInitialized, Goto
  <2>3. \E m : wire' = Append(wire, m) /\ \E h : headers' = Append(headers, h)
    BY <1>4 DEF HSend, Send, SendInitialized
  <2> QED
    BY <1>1, <1>2, <2>1, <2>2, <2>3
<1>5. ASSUME NEW c \in Caller, HeadersArrive(c)
      PROVE  Rest' /\ body' \subseteq Awaiting' /\ Len(headers') = Len(wire')
  BY <1>2, <1>5 DEF HeadersArrive, vars
<1>6. ASSUME NEW c \in Caller,
             HServerInitializes(c) \/ HServerNamesOther(c) \/ HServerReturns(c) \/ HServerRefuses(c)
      PROVE  Rest' /\ body' \subseteq Awaiting' /\ Len(headers') = Len(wire')
  <2>1. /\ body' = body \ {c} /\ UNCHANGED <<session, headers, wire>>
        /\ named' = [named EXCEPT ![c] = NoSession]
    BY <1>6 DEF HServerInitializes, HServerNamesOther, HServerReturns, HServerRefuses, Answers, Closes,
       ServerInitializes, ServerNamesOther, ServerReturns, ServerRefuses, Finish
  <2>2. \E place : pc' = [pc EXCEPT ![c] = place]
    BY <1>6 DEF HServerInitializes, HServerNamesOther, HServerReturns, HServerRefuses,
       ServerInitializes, ServerNamesOther, ServerReturns, ServerRefuses, Finish, Goto
  <2>3. version' \in Version \cup {None}
    BY <1>2, <1>6 DEF HServerInitializes, HServerNamesOther, HServerReturns, HServerRefuses, Keep
  <2>4. agreed' = agreed \/ agreed' = [session |-> named[c], version |-> offer']
    BY <1>6 DEF HServerInitializes, HServerNamesOther, HServerReturns, HServerRefuses
  <2>5. offer' \in Version \cup {None}
    BY <1>0 DEF TypeOK
  <2> QED
    BY <1>1, <1>2, <2>1, <2>2, <2>3, <2>4, <2>5
<1>7. ASSUME NEW c \in Caller, HFails(c)
      PROVE  Rest' /\ body' \subseteq Awaiting' /\ Len(headers') = Len(wire')
  <2>1. /\ body' = body \ {c} /\ UNCHANGED <<session, version, headers, agreed, wire>>
        /\ named' = [named EXCEPT ![c] = NoSession]
        /\ pc' = [pc EXCEPT ![c] = "done"]
    BY <1>7 DEF HFails, Abort, Closes, TransportFails, NotifyFails, TimeOut, Disconnect, Finish, Goto
  <2> QED
    BY <1>1, <1>2, <2>1
<1>8. ASSUME NEW c \in Caller, HOther(c)
      PROVE  Rest' /\ body' \subseteq Awaiting' /\ Len(headers') = Len(wire')
  <2>1. UNCHANGED <<http, wire>> /\ c \notin Awaiting /\ \E place : pc' = [pc EXCEPT ![c] = place]
    BY <1>1, <1>8 DEF HOther, Enter, Admit, Wake, Prepare, Settle, Goto
  <2> QED
    BY <1>1, <1>2, <2>1 DEF http
<1>9. CASE UNCHANGED hvars
  BY <1>2, <1>9 DEF hvars, vars, http
<1> QED
  BY <1>4, <1>5, <1>6, <1>7, <1>8, <1>9 DEF HNext

\* The state of the HTTP transport keeps its shape (http.rs:30-40).
THEOREM HTypeCorrect == HSpec => []HTypeOK
BY HTypeInit, HTypeStep, PTL DEF HSpec

-----------------------------------------------------------------------------
(* What a call carries.                                                    *)

\* Once a handshake was accepted, and as long as the client may use it, the
\* transport's two captures are what that handshake agreed on.  While the
\* response to an initialize is being read, the session it named is the one the
\* transport holds: the permit keeps every other handshake away, and other
\* responses name none.
CaptureInv ==
  /\ \A c \in body : pc[c] = "initAwait" /\ named[c] # NoSession => session = named[c]
  /\ negotiated # None \/ (\E c \in Caller : pc[c] \in {"notify", "flush"})
       => agreed = [session |-> session, version |-> version]
  /\ negotiated # None => version = negotiated
  /\ \A c \in Caller : pc[c] \in {"notify", "flush"} => version = offer
  /\ Len(headers) = Len(wire)
  /\ CallsCarryAgreement

LEMMA CaptureInit == HInit => CaptureInv
BY DEF HInit, Init, CaptureInv, CallsCarryAgreement, Sent

LEMMA CaptureStep ==
  ASSUME AlwaysNames = TRUE, SessionAnywhere = FALSE, VersionAnywhere = FALSE, OmitsVersion = FALSE,
         HTypeOK, GateInv, WireInv, CaptureInv, [HNext]_hvars
  PROVE  CaptureInv'
<1>0. /\ pc \in [Caller -> Places] /\ wire \in Seq(Message) /\ Len(wire) \in Nat
      /\ DOMAIN wire = 1 .. Len(wire)
      /\ body \subseteq Caller /\ named \in [Caller -> Session \cup {NoSession}]
  BY DEF HTypeOK, TypeOK
<1> DEFINE Agreed ==
      /\ \A c \in body : pc[c] = "initAwait" /\ named[c] # NoSession => session = named[c]
      /\ negotiated # None \/ (\E c \in Caller : pc[c] \in {"notify", "flush"})
           => agreed = [session |-> session, version |-> version]
      /\ negotiated # None => version = negotiated
      /\ \A c \in Caller : pc[c] \in {"notify", "flush"} => version = offer
\* Nothing that calls were sent with, or are judged by, changes.
<1>1. ASSUME UNCHANGED <<wire, headers>>, Agreed',
             negotiated # None => UNCHANGED <<agreed, negotiated>>
      PROVE  CaptureInv'
  BY <1>1 DEF CaptureInv, WireInv, CallsCarryAgreement, Sent
<1>2. ASSUME NEW c \in Caller, HSend(c) PROVE CaptureInv'
  <2>0. UNCHANGED <<cell, session, version, body, named, agreed>> /\ headers' = Append(headers, Decorate)
    BY <1>2 DEF HSend, Send, SendInitialized
  <2>1. \A d \in Caller : pc'[d] \in {"notify", "flush"} => pc[d] \in {"notify", "flush"}
    BY <1>0, <1>2 DEF HSend, Send, SendInitialized, Goto
  <2>b. \A d \in body : pc'[d] = pc[d]
    <3>1. c \notin body
      BY <1>2 DEF HSend, Send, SendInitialized, HTypeOK
    <3> QED
      BY <1>0, <1>2, <3>1 DEF HSend, Send, SendInitialized, Goto
  <2>2. Agreed'
    BY <2>0, <2>1, <2>b DEF CaptureInv, cell
  <2>3. PICK m \in Message : wire' = Append(wire, m) /\ (m.method = "call" => pc[c] = "callSend")
    <3>1. Send(c) \/ SendInitialized(c)
      BY <1>2 DEF HSend
    <3>2. pc[c] \in {"initSend", "callSend", "notify"}
      BY <3>1 DEF Send, SendInitialized
    <3>3. TypeOK
      BY DEF HTypeOK
    <3> QED
      BY <3>1, <3>2, <3>3, SendAdds
  <2>4. /\ DOMAIN wire' = 1 .. Len(wire) + 1 /\ wire'[Len(wire) + 1] = m
        /\ \A i \in 1 .. Len(wire) : wire'[i] = wire[i]
    BY <1>0, <2>3, AppendFacts
  <2>5. /\ Len(headers') = Len(wire') /\ headers'[Len(wire) + 1] = Decorate
        /\ \A i \in 1 .. Len(wire) : headers'[i] = headers[i]
    BY <1>0, <2>0, <2>3 DEF CaptureInv
  <2>6. m.method = "call" => /\ Decorate.session = agreed'.session /\ Decorate.version = negotiated'
                             /\ Decorate.version = agreed'.version
    BY <2>0, <2>3 DEF CaptureInv, GateInv, Decorate, cell
  <2>7. ASSUME NEW i \in Sent("call")'
        PROVE  /\ headers'[i].session = agreed'.session /\ headers'[i].version = negotiated'
               /\ headers'[i].version = agreed'.version
    <3>1. CASE i = Len(wire) + 1
      BY <2>4, <2>5, <2>6, <2>7, <3>1 DEF Sent
    <3>2. CASE i # Len(wire) + 1
      <4>1. i \in Sent("call") /\ i \in 1 .. Len(wire)
        BY <1>0, <2>4, <2>7, <3>2 DEF Sent
      <4> QED
        BY <2>0, <2>5, <4>1 DEF CaptureInv, CallsCarryAgreement, cell
    <3> QED
      BY <3>1, <3>2
  <2> QED
    BY <2>2, <2>5, <2>7 DEF CaptureInv, CallsCarryAgreement
<1>3. ASSUME NEW c \in Caller, HeadersArrive(c) PROVE CaptureInv'
  <2>0. /\ body' = body \cup {c} /\ UNCHANGED <<vars, version, headers, agreed>>
        /\ pc[c] \in {"initAwait", "callAwait"} /\ c \notin body
    BY <1>3 DEF HeadersArrive
  <2>1. PICK s \in Session \cup {NoSession} :
          /\ pc[c] = "callAwait" => s = NoSession
          /\ session' = IF s # NoSession THEN s ELSE session
          /\ named' = [named EXCEPT ![c] = s]
    BY <1>3 DEF HeadersArrive, Captures
  <2>2. pc[c] = "initAwait" => /\ negotiated = None
                               /\ \A d \in Caller : d # c => pc[d] \notin Handshake
    BY DEF GateInv, Handshake
  <2>3. \A d \in body' : pc'[d] = "initAwait" /\ named'[d] # NoSession => session' = named'[d]
    BY <1>0, <2>0, <2>1, <2>2 DEF CaptureInv, Handshake, vars
  <2>4. pc[c] = "callAwait" => session' = session
    BY <2>1
  <2>5. Agreed'
    BY <2>0, <2>2, <2>3, <2>4 DEF CaptureInv, Handshake, vars, cell
  <2> QED
    BY <1>1, <2>0, <2>5 DEF vars, cell
<1>4. ASSUME NEW c \in Caller, HServerInitializes(c) PROVE CaptureInv'
  <2>0. /\ c \in body /\ pc[c] = "initAwait" /\ named[c] # NoSession
        /\ body' = body \ {c} /\ named' = [named EXCEPT ![c] = NoSession]
        /\ pc' = [pc EXCEPT ![c] = "notify"]
    BY <1>4 DEF HServerInitializes, ServerInitializes, Answers, Closes, Goto
  <2>1. /\ version' = offer' /\ session' = session /\ session = named[c]
        /\ agreed' = [session |-> session', version |-> version']
        /\ UNCHANGED <<negotiated, wire, headers>>
    BY <1>4, <2>0, VersionAssumption
       DEF HServerInitializes, ServerInitializes, Answers, Answered, Keep, CaptureInv
  <2>2. negotiated = None
    BY <1>4 DEF HServerInitializes, ServerInitializes, GateInv, Handshake
  <2>3. \A d \in body' : pc'[d] = "initAwait" /\ named'[d] # NoSession => session' = named'[d]
    BY <1>0, <2>0, <2>1 DEF CaptureInv
  <2> QED
    BY <1>1, <2>1, <2>2, <2>3
<1>5. ASSUME NEW c \in Caller, HServerNamesOther(c) PROVE CaptureInv'
  <2>1. /\ pc[c] = "initAwait" /\ pc' = [pc EXCEPT ![c] = "done"]
        /\ UNCHANGED <<negotiated, session, wire, headers>>
        /\ body' = body \ {c} /\ named' = [named EXCEPT ![c] = NoSession]
    BY <1>5 DEF HServerNamesOther, ServerNamesOther, Answers, Closes, Finish, Goto
  <2>2. negotiated = None /\ \A d \in Caller : pc'[d] \notin {"notify", "flush"}
    BY <1>0, <2>1 DEF GateInv, Handshake
  <2>3. \A d \in body' : pc'[d] = "initAwait" /\ named'[d] # NoSession => session' = named'[d]
    BY <1>0, <2>1 DEF CaptureInv
  <2> QED
    BY <1>1, <2>1, <2>2, <2>3 DEF CaptureInv
<1>6. ASSUME NEW c \in Caller, HServerReturns(c) \/ HServerRefuses(c) \/ HFails(c)
      PROVE  CaptureInv'
  <2>1. /\ pc' = [pc EXCEPT ![c] = "done"]
        /\ UNCHANGED <<negotiated, offer, session, version, agreed, wire, headers>>
        /\ body' = body \ {c} /\ named' = [named EXCEPT ![c] = NoSession]
    BY <1>6 DEF HServerReturns, HServerRefuses, HFails, ServerReturns, ServerRefuses, Answers, Closes,
       Abort, Keep, TransportFails, NotifyFails, TimeOut, Disconnect, Finish, Goto
  <2> QED
    BY <1>0, <1>1, <2>1 DEF CaptureInv
<1>7. ASSUME NEW c \in Caller, HOther(c) PROVE CaptureInv'
  <2>1. CASE Settle(c)
    <3>1. /\ pc[c] = "flush" /\ pc' = [pc EXCEPT ![c] = "call"] /\ negotiated' = offer
          /\ UNCHANGED <<offer, http, wire>>
      BY <2>1, <1>7 DEF Settle, HOther, Goto
    <3>2. negotiated = None
      BY <3>1 DEF GateInv, Handshake
    <3>3. \A d \in body' : pc'[d] = "initAwait" /\ named'[d] # NoSession => session' = named'[d]
      BY <1>0, <3>1 DEF CaptureInv, http
    <3> QED
      BY <1>0, <1>1, <3>1, <3>2, <3>3 DEF CaptureInv, http
  <2>2. CASE ~Settle(c)
    <3>1. UNCHANGED <<negotiated, offer, http, wire>>
      BY <2>2, <1>7 DEF HOther, Enter, Admit, Wake, Prepare, cell
    <3>2. \A d \in Caller : pc'[d] \in {"notify", "flush"} => pc[d] \in {"notify", "flush"}
      BY <1>0, <2>2, <1>7 DEF HOther, Enter, Admit, Wake, Prepare, Goto
    <3>3. \A d \in body' : pc'[d] = "initAwait" => pc[d] = "initAwait"
      <4>1. c \notin body
        BY <1>7 DEF HOther, Enter, Admit, Wake, Prepare, Settle, HTypeOK
      <4> QED
        BY <1>0, <1>7, <3>1, <4>1 DEF HOther, Enter, Admit, Wake, Prepare, Settle, Goto, http
    <3> QED
      BY <1>1, <3>1, <3>2, <3>3 DEF CaptureInv, http
  <2> QED
    BY <2>1, <2>2
<1>8. CASE UNCHANGED hvars
  BY <1>1, <1>8 DEF hvars, vars, cell, http, CaptureInv
<1> QED
  BY <1>2, <1>3, <1>4, <1>5, <1>6, <1>7, <1>8 DEF HNext

\* A server that names sessions in its initialize responses alone and in every
\* accepted one, and versions in their results alone and always, gets every call
\* with what the response that opened the client named (http.rs:6-9), whatever
\* failed or abandoned handshakes had left, for any number of callers.
THEOREM AgreementCarried ==
  ASSUME AlwaysNames = TRUE, SessionAnywhere = FALSE, VersionAnywhere = FALSE, OmitsVersion = FALSE
  PROVE  HSpec => []CallsCarryAgreement
<1>1. HTypeOK /\ GateInv /\ WireInv /\ CaptureInv /\ [HNext]_hvars => CaptureInv'
  BY CaptureStep
<1>2. CaptureInv => CallsCarryAgreement
  BY DEF CaptureInv
<1>3. Spec => [](TypeOK /\ GateInv)
  BY GateAlways
<1>4. Spec => []WireInv
  BY WireAlways
<1> QED
  BY <1>1, <1>2, <1>3, <1>4, CaptureInit, HTypeCorrect, OverHttpIsClient, PTL DEF HSpec
=============================================================================
