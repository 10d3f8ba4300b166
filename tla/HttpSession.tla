---------------------------- MODULE HttpSession -----------------------------
(***************************************************************************)
(* McpClient over the streamable-HTTP transport                            *)
(* (src/mcp/transport/http.rs).  The transport adds to every POST the      *)
(* session id and the protocol version it captured from earlier responses. *)
(* A response is processed in two steps, its headers and then its body,    *)
(* and the caller may be gone in between.                                  *)
(***************************************************************************)
EXTENDS McpClient

CONSTANTS
  Session,        \* session ids the server hands out
  NoSession,
  AlwaysNames,    \* does every accepted initialize name a session?
  SessionAnywhere,\* may the server name a session outside initialize?
  VersionAnywhere,\* may a tool result carry a member "protocolVersion"?
  OmitsVersion    \* may an initialize result lack protocolVersion?

ASSUME SessionAssumption ==
  /\ NoSession \notin Session
  /\ AlwaysNames \in BOOLEAN /\ SessionAnywhere \in BOOLEAN
  /\ VersionAnywhere \in BOOLEAN /\ OmitsVersion \in BOOLEAN

VARIABLES
  session,  \* HttpTransport.session_id
  version,  \* HttpTransport.protocol_version
  body,     \* callers whose response headers arrived
  headers,  \* history: session and version sent with each message of wire
  named,    \* history: the session named by the response each caller is reading
  agreed    \* history: session and version named by the initialize response
            \* that was accepted last

http == <<session, version, body, headers, named, agreed>>
hvars == <<vars, http>>

NoHeaders == [session |-> NoSession, version |-> None]

HInit ==
  /\ Init
  /\ session = NoSession
  /\ version = None
  /\ body = {}
  /\ headers = <<>>
  /\ named = [c \in Caller |-> NoSession]
  /\ agreed = NoHeaders

\* decorate(): what both mutexes hold when the request is built.
Decorate == [session |-> session, version |-> version]

HSend(c) ==
  /\ Send(c) \/ SendInitialized(c)
  /\ headers' = Append(headers, Decorate)
  /\ UNCHANGED <<session, version, body, named, agreed>>

\* Mutated form: only the first session id is kept.
CapturesOnce(s) == s # NoSession /\ session = NoSession

\* A response with a success status: its Mcp-Session-Id, if any, is kept.
Captures(s) == s # NoSession
HeadersArrive(c) ==
  /\ pc[c] \in {"initAwait", "callAwait"} /\ c \notin body
  /\ body' = body \cup {c}
  /\ \E s \in Session \cup {NoSession} :
       /\ pc[c] = "callAwait" => s = NoSession \/ SessionAnywhere
       /\ session' = IF Captures(s) THEN s ELSE session
       /\ named' = [named EXCEPT ![c] = s]
  /\ UNCHANGED <<vars, version, headers, agreed>>

\* parsed.result.protocolVersion, if the body has one, is kept.
Keep(v) == version' = IF v = None THEN version ELSE v

\* The response has been read; its headers are gone with it.
Closes(c) == body' = body \ {c} /\ named' = [named EXCEPT ![c] = NoSession]

Answers(c) == c \in body /\ Closes(c) /\ UNCHANGED <<session, headers>>

\* What was agreed is what this response says: the session its own headers named
\* and the version ensure_initialized takes from its result.
HServerInitializes(c) ==
  /\ Answers(c)
  /\ AlwaysNames => named[c] # NoSession
  /\ \E v \in Version \cup {None} :
       /\ Acceptable(Answered(v)) /\ (v = None => OmitsVersion)
       /\ offer' = Answered(v)
       /\ Keep(v)
  /\ agreed' = [session |-> named[c], version |-> offer']
  /\ ServerInitializes(c)

HServerNamesOther(c) ==
  /\ Answers(c)
  /\ \E v \in Version : ~Acceptable(v) /\ Keep(v)
  /\ ServerNamesOther(c)
  /\ UNCHANGED agreed

HServerReturns(c) ==
  /\ Answers(c)
  /\ \E v \in Version \cup {None} : (v # None => VersionAnywhere) /\ Keep(v)
  /\ ServerReturns(c)
  /\ UNCHANGED agreed

HServerRefuses(c) ==
  /\ Answers(c)
  /\ ServerRefuses(c)
  /\ UNCHANGED <<version, agreed>>

\* Mutated form: what an aborted response left behind stays.
AbortKeeps(c) == UNCHANGED <<body, named>>

\* A bad status, a body over the limit or that does not parse, a timeout, a
\* dropped future: nothing more is captured.
Abort(c) == Closes(c)
HFails(c) ==
  /\ TransportFails(c) \/ NotifyFails(c) \/ TimeOut(c) \/ Disconnect(c)
  /\ Abort(c)
  /\ UNCHANGED <<session, version, headers, agreed>>

HOther(c) ==
  /\ Enter(c) \/ Admit(c) \/ Wake(c) \/ Prepare(c) \/ Settle(c)
  /\ UNCHANGED http

\* The trait's default shutdown() does nothing for HTTP, so ~closed always.
HNext ==
  \E c \in Caller :
    \/ HSend(c) \/ HeadersArrive(c) \/ HServerInitializes(c) \/ HServerNamesOther(c)
    \/ HServerReturns(c) \/ HServerRefuses(c) \/ HFails(c) \/ HOther(c)

HSpec == HInit /\ [][HNext]_hvars

-----------------------------------------------------------------------------
(* Properties.                                                             *)

\* The shape of the transport's state (http.rs:30-40).
HTypeOK ==
  /\ TypeOK
  /\ session \in Session \cup {NoSession} /\ version \in Version \cup {None}
  /\ body \subseteq {c \in Caller : pc[c] \in {"initAwait", "callAwait"}}
  /\ Len(headers) = Len(wire)
  /\ named \in [Caller -> Session \cup {NoSession}]
  /\ agreed.session \in Session \cup {NoSession} /\ agreed.version \in Version \cup {None}

\* Every call carries the session that the response to the accepted initialize
\* itself named and the version that was negotiated there, whatever earlier
\* handshakes that failed after their headers had arrived left in the transport
\* ("captures the Mcp-Session-Id returned on initialize", http.rs:6-9, 36).  It
\* needs a server that names both in every accepted initialize (AlwaysNames,
\* ~OmitsVersion) and in no other response (~SessionAnywhere, ~VersionAnywhere):
\* the code clears neither and takes either from any response.
CallsCarryAgreement ==
  \A i \in Sent("call") :
    /\ headers[i].session = agreed.session
    /\ headers[i].version = negotiated /\ headers[i].version = agreed.version

=============================================================================
