------------------------------ MODULE AgentBus ------------------------------
(***************************************************************************)
(* The AgentBus adapter (src/agentbus): UIs POST envelopes to              *)
(* /airp/dispatch, results go onto one bounded tokio broadcast channel,    *)
(* and each SSE stream of GET /airp/stream reads that channel with its own *)
(* cursor and drops states outside its connection's scope filter.          *)
(***************************************************************************)
EXTENDS Naturals, Sequences, FiniteSets, SequencesExt

CONSTANTS
  Stream,       \* SSE streams opened over time
  Conn,         \* connection ids, client-supplied or generated
  Post,         \* intents posted over time
  Scope,        \* widget scopes
  Nothing,      \* no scope, no ref
  Name,         \* intent names
  Routed,       \* names that match a route of the bridge
  Streaming,    \* names whose route is a tool with stream: true
  Fallback,     \* fallback_scopes, a function of the name; Nothing if no row
  DefaultScope, \* default_scope, or Nothing
  Hail,         \* hello envelopes posted over time
  Greeting,     \* scopes of the envelopes of send_initial_state, in order;
                \* Nothing for the blueprint and the manifests
  Capacity,     \* BROADCAST_CAPACITY
  Reader,       \* streams whose client goes on reading what it is sent
  ReuseConn,    \* may a client open a second stream under a used id?
  LateSubscribe,\* may a subscribe be handled while its stream is not open?
  MaxSubscribes \* subscribe intents handled (bound)

ASSUME NothingAssumption == Nothing \notin Scope \cup Post
ASSUME NameAssumption ==
  /\ Streaming \subseteq Routed /\ Routed \subseteq Name
  /\ Fallback \in [Name -> Scope \cup {Nothing}] /\ DefaultScope \in Scope \cup {Nothing}
ASSUME GreetingAssumption == Greeting \in Seq(Scope \cup {Nothing})
ASSUME CapacityAssumption == Capacity \in Nat \ {0} /\ MaxSubscribes \in Nat
ASSUME ClientAssumption ==
  Reader \subseteq Stream /\ ReuseConn \in BOOLEAN /\ LateSubscribe \in BOOLEAN

VARIABLES
  log,       \* every envelope broadcast; the ring holds the last Capacity
  stream,    \* "new", "open", "closed"
  conn,      \* each stream's connection id, Nothing before it opens
  joined,    \* number of the first envelope a stream may hear
  cursor,    \* number of the envelope it reads next
  got,       \* numbers of the envelopes it wrote as SSE events
  lost,      \* numbers it skipped because it lagged
  filter,    \* subscriptions: scopes per connection, {} if no entry
  wanted,    \* history: the scopes each connection's client asked for last
  excluded,  \* history: the scopes each connection's filters ever kept out
  subs,      \* subscribe intents handled so far
  phase,     \* each POSTed intent: "idle", "dispatching", "done", or "gone"
             \* when its HTTP client went away during the dispatch
  intent,    \* its name and resolved scope
  answer,    \* the HTTP reply: "none", "ok" or the error code
  audience,  \* history: streams open when the intent was posted
  greeted,   \* per hello: 0 before it comes, then which envelope of
             \* send_initial_state is next, Len(Greeting) + 1 at the end
  server     \* "up", "draining" (shutdown signal), "down"

reading == <<stream, conn, joined, cursor, got, lost>>
scoping == <<filter, wanted, excluded, subs>>
posting == <<phase, intent, answer, audience>>
vars == <<log, reading, scoping, posting, greeted, server>>

Kinds == {"state", "layout", "error"}
Envelope == [kind : Kinds, scope : Scope \cup {Nothing}, ref : Post \cup {Nothing}]
Answers == {"none", "ok", "no_scope", "no_route", "dispatch_error"}

Open == {s \in Stream : stream[s] = "open"}

Init ==
  /\ log = <<>>
  /\ stream = [s \in Stream |-> "new"]
  /\ conn = [s \in Stream |-> Nothing]
  /\ joined = [s \in Stream |-> 0]
  /\ cursor = [s \in Stream |-> 0]
  /\ got = [s \in Stream |-> <<>>]
  /\ lost = [s \in Stream |-> {}]
  /\ filter = [c \in Conn |-> {}]
  /\ wanted = [c \in Conn |-> {}]
  /\ excluded = [c \in Conn |-> {}]
  /\ subs = 0
  /\ phase = [p \in Post |-> "idle"]
  /\ intent = [p \in Post |-> [name |-> Nothing, scope |-> Nothing]]
  /\ answer = [p \in Post |-> "none"]
  /\ audience = [p \in Post |-> {}]
  /\ greeted = [h \in Hail |-> 0]
  /\ server = "up"

-----------------------------------------------------------------------------
(* The bus.                                                                *)

\* broadcast::Sender::send keeps nothing when there is no receiver.
Send(e) == log' = IF Open = {} THEN log ELSE Append(log, e)

Oldest == IF Len(log) > Capacity THEN Len(log) - Capacity + 1 ELSE 1

\* wants_scope, read when the envelope is about to be written.
WantsScope(c, e) == filter[c] = {} \/ e.kind # "state" \/ e.scope \in filter[c]

-----------------------------------------------------------------------------
(* GET /airp/stream.                                                       *)

\* Mutated form: a new receiver starts at the oldest envelope kept.
StartAtOldest == Oldest

StartAt == Len(log) + 1

\* subscribe() starts the receiver at the end of the channel; the id is the
\* client's, or a fresh one.
OpenStream(s, c) ==
  /\ server = "up" /\ stream[s] = "new"
  /\ ReuseConn \/ \A t \in Stream : conn[t] # c
  /\ stream' = [stream EXCEPT ![s] = "open"]
  /\ conn' = [conn EXCEPT ![s] = c]
  /\ joined' = [joined EXCEPT ![s] = Len(log) + 1]
  /\ cursor' = [cursor EXCEPT ![s] = StartAt]
  /\ UNCHANGED <<log, got, lost, scoping, posting, greeted, server>>

\* Mutated form: a receiver that lagged tries the same envelope again.
LagInPlace(s) ==
  /\ stream[s] = "open" /\ cursor[s] < Oldest
  /\ lost' = [lost EXCEPT ![s] = @ \cup (cursor[s] .. Oldest - 1)]
  /\ UNCHANGED <<log, stream, conn, joined, cursor, got, scoping, posting, greeted, server>>

\* RecvError::Lagged: the receiver skips to the oldest envelope kept.
Lag(s) ==
  /\ stream[s] = "open" /\ cursor[s] < Oldest
  /\ lost' = [lost EXCEPT ![s] = @ \cup (cursor[s] .. Oldest - 1)]
  /\ cursor' = [cursor EXCEPT ![s] = Oldest]
  /\ UNCHANGED <<log, stream, conn, joined, got, scoping, posting, greeted, server>>

\* recv() returned an envelope: filter it, or write it as an SSE event.
Deliver(s) ==
  /\ stream[s] = "open" /\ cursor[s] >= Oldest /\ cursor[s] <= Len(log)
  /\ cursor' = [cursor EXCEPT ![s] = @ + 1]
  /\ got' = IF WantsScope(conn[s], log[cursor[s]])
            THEN [got EXCEPT ![s] = Append(@, cursor[s])] ELSE got
  /\ UNCHANGED <<log, stream, conn, joined, lost, scoping, posting, greeted, server>>

\* hyper polls the body when the connection takes more of it.
Poll(s) == Lag(s) \/ Deliver(s)

\* Mutated form: the guard forgets to disconnect.
DisconnectNothing(c) == filter' = filter

\* ConnGuard::drop calls disconnect(conn_id).
Disconnect(c) == filter' = [filter EXCEPT ![c] = {}]

\* The client went away and the server noticed: the body and its guard drop.
DropStream(s) ==
  /\ stream[s] = "open"
  /\ stream' = [stream EXCEPT ![s] = "closed"]
  /\ Disconnect(conn[s])
  /\ wanted' = IF \E t \in Open \ {s} : conn[t] = conn[s]
               THEN wanted ELSE [wanted EXCEPT ![conn[s]] = {}]
  /\ UNCHANGED <<log, conn, joined, cursor, got, lost, excluded, subs, posting, greeted, server>>

-----------------------------------------------------------------------------
(* POST /airp/dispatch.                                                    *)

\* Mutated forms: a subscription adds to the one before; it narrows every
\* connection.
MergeScopes(c, scopes) == filter' = [filter EXCEPT ![c] = @ \cup scopes]
SetScopesOfAll(c, scopes) == filter' = [d \in Conn |-> scopes]

\* subscribe: set_scopes; an empty list removes the entry.
SetScopes(c, scopes) == filter' = [filter EXCEPT ![c] = scopes]
Subscribe(c, scopes) ==
  /\ server = "up" /\ subs < MaxSubscribes
  /\ LateSubscribe \/ \E s \in Open : conn[s] = c
  /\ SetScopes(c, scopes)
  /\ wanted' = [wanted EXCEPT ![c] = scopes]
  /\ excluded' = IF scopes = {} THEN excluded
                 ELSE [excluded EXCEPT ![c] = @ \cup (Scope \ scopes)]
  /\ subs' = subs + 1
  /\ UNCHANGED <<log, reading, posting, greeted, server>>

\* Mutated form: the fallback row yields its name, not its scope.
ScopeNamed(name, source) ==
  IF source # Nothing THEN source
  ELSE IF Fallback[name] # Nothing THEN name ELSE DefaultScope

\* The scope an intent's result goes to: source, fallback row, default.
ScopeFor(name, source) ==
  IF source # Nothing THEN source
  ELSE IF Fallback[name] # Nothing THEN Fallback[name] ELSE DefaultScope

\* Mutated form: only a success is broadcast.
ReplyQuietly(p, code, e) ==
  /\ IF code = "ok" THEN Send(e) ELSE log' = log
  /\ answer' = [answer EXCEPT ![p] = code]
  /\ phase' = [phase EXCEPT ![p] = "done"]

Reply(p, code, e) ==
  /\ Send(e)
  /\ answer' = [answer EXCEPT ![p] = code]
  /\ phase' = [phase EXCEPT ![p] = "done"]

ErrorFor(p) == [kind |-> "error", scope |-> Nothing, ref |-> p]
StateFor(p) == [kind |-> "state", scope |-> intent[p].scope, ref |-> p]

\* handle_intent up to the await of Bridge::dispatch.
Intent(p, name, source) ==
  /\ server = "up" /\ phase[p] = "idle"
  /\ audience' = [audience EXCEPT ![p] = Open]
  /\ intent' = [intent EXCEPT ![p] = [name |-> name, scope |-> ScopeFor(name, source)]]
  /\ \/ ScopeFor(name, source) = Nothing /\ Reply(p, "no_scope", ErrorFor(p))
     \/ ScopeFor(name, source) # Nothing /\ name \notin Routed
        /\ Reply(p, "no_route", ErrorFor(p))
     \/ /\ ScopeFor(name, source) # Nothing /\ name \in Routed
        /\ phase' = [phase EXCEPT ![p] = "dispatching"]
        /\ UNCHANGED <<log, answer>>
  /\ UNCHANGED <<reading, scoping, greeted, server>>

\* The bridge returned; a streaming tool is an error there.
DispatchSucceeds(p) ==
  /\ phase[p] = "dispatching" /\ intent[p].name \notin Streaming
  /\ Reply(p, "ok", StateFor(p))
  /\ UNCHANGED <<reading, scoping, intent, audience, greeted, server>>

DispatchFails(p) ==
  /\ phase[p] = "dispatching"
  /\ Reply(p, "dispatch_error", ErrorFor(p))
  /\ UNCHANGED <<reading, scoping, intent, audience, greeted, server>>

\* The HTTP client goes away: the handler is dropped at its only await that
\* suspends, and neither reply nor envelope is ever sent.
Abandon(p) ==
  /\ phase[p] = "dispatching"
  /\ phase' = [phase EXCEPT ![p] = "gone"]
  /\ UNCHANGED <<log, reading, scoping, intent, answer, audience, greeted, server>>

\* hello: send_initial_state, one send after the other; other handlers run in
\* between.  The acknowledgement is in the HTTP reply alone.
Hello(h) ==
  /\ server = "up" /\ greeted[h] = 0
  /\ greeted' = [greeted EXCEPT ![h] = 1]
  /\ UNCHANGED <<log, reading, scoping, posting, server>>

Initial(scope) ==
  [kind |-> IF scope = Nothing THEN "layout" ELSE "state", scope |-> scope, ref |-> Nothing]

Greet(h) ==
  /\ greeted[h] \in DOMAIN Greeting
  /\ Send(Initial(Greeting[greeted[h]]))
  /\ greeted' = [greeted EXCEPT ![h] = @ + 1]
  /\ UNCHANGED <<reading, scoping, posting, server>>

-----------------------------------------------------------------------------
(* Shutdown: axum stops accepting and waits for every response to end.     *)
SignalShutdown ==
  /\ server = "up"
  /\ server' = "draining"
  /\ UNCHANGED <<log, reading, scoping, posting, greeted>>

\* Mutated form: a dispatch whose client left is waited for.
AnsweredAll == \A p \in Post : phase[p] \in {"idle", "done"}

Answered == \A p \in Post : phase[p] # "dispatching"
Stop ==
  /\ server = "draining"
  /\ Open = {} /\ Answered
  /\ \A h \in Hail : greeted[h] \notin DOMAIN Greeting
  /\ server' = "down"
  /\ UNCHANGED <<log, reading, scoping, posting, greeted>>

Next ==
  \/ \E s \in Stream, c \in Conn : OpenStream(s, c)
  \/ \E s \in Stream : Poll(s) \/ DropStream(s)
  \/ \E c \in Conn, scopes \in SUBSET Scope : Subscribe(c, scopes)
  \/ \E p \in Post, name \in Name, source \in Scope \cup {Nothing} : Intent(p, name, source)
  \/ \E p \in Post : DispatchSucceeds(p) \/ DispatchFails(p) \/ Abandon(p)
  \/ \E h \in Hail : Hello(h) \/ Greet(h)
  \/ SignalShutdown \/ Stop

Spec == Init /\ [][Next]_vars

\* Tasks that are ready are polled, and dispatch ends (upstream_timeout_secs).
\* A client owes nothing: it may hold its stream open for ever, and a stream
\* whose client has stopped reading is not polled.
Fairness ==
  /\ \A s \in Reader : WF_vars(Poll(s))
  /\ \A p \in Post : WF_vars(DispatchSucceeds(p) \/ DispatchFails(p))
  /\ \A h \in Hail : WF_vars(Greet(h))
  /\ WF_vars(Stop)

FairSpec == Spec /\ Fairness

-----------------------------------------------------------------------------
(* Properties.                                                             *)

\* The shape of the adapter's state (bus.rs:27-31, handlers.rs:49-53).
TypeOK ==
  /\ log \in Seq(Envelope)
  /\ stream \in [Stream -> {"new", "open", "closed"}]
  /\ conn \in [Stream -> Conn \cup {Nothing}]
  /\ \A s \in Stream :
       /\ joined[s] \in 0 .. Len(log) + 1 /\ cursor[s] \in joined[s] .. Len(log) + 1
       /\ ToSet(got[s]) \cup lost[s] \subseteq joined[s] .. cursor[s] - 1
  /\ filter \in [Conn -> SUBSET Scope] /\ wanted \in [Conn -> SUBSET Scope]
  /\ excluded \in [Conn -> SUBSET Scope]
  /\ subs \in 0 .. MaxSubscribes
  /\ phase \in [Post -> {"idle", "dispatching", "done", "gone"}]
  /\ intent \in [Post -> [name : Name \cup {Nothing}, scope : Scope \cup {Nothing}]]
  /\ answer \in [Post -> Answers]
  /\ audience \in [Post -> SUBSET Stream]
  /\ greeted \in [Hail -> 0 .. Len(Greeting) + 1]
  /\ server \in {"up", "draining", "down"}

\* A stream misses only what it lagged behind and the states of scopes that its
\* own connection once excluded: errors, layouts and every other state reach it,
\* whatever other connections ask for, however late the filter is read
\* (bus.rs:5-6, 75-76).
AlwaysHeard ==
  \A s \in Stream : \A k \in (joined[s] .. cursor[s] - 1) \ lost[s] :
    log[k].kind # "state" \/ log[k].scope \in Scope \ excluded[conn[s]]
      => k \in ToSet(got[s])

\* An intent that was answered has exactly one envelope on the bus, provided
\* somebody who listened when it came still listens: a state of the resolved
\* scope if the reply was ok, an error otherwise (handlers.rs:147-247).
OneEnvelopePerIntent ==
  \A p \in Post :
    LET mine == {k \in DOMAIN log : log[k].ref = p}
    IN  /\ Cardinality(mine) <= 1
        /\ mine # {} => phase[p] = "done"
        /\ phase[p] = "done" /\ audience[p] \cap Open # {} => mine # {}
        /\ \A k \in mine : log[k] = IF answer[p] = "ok" THEN StateFor(p) ELSE ErrorFor(p)

\* A stream filters by what its client asked for last
\* (AGENTBUS-ADAPTER.md:55-56), other streams' ends notwithstanding, if no client
\* opens a second stream under a used id (~ReuseConn): the code fails that one.
FilterAsAsked == \A s \in Open : filter[conn[s]] = wanted[conn[s]]

\* No filter outlives the streams of its connection ("the subscription map
\* does not leak entries for connections that have gone away",
\* handlers.rs:29-31), if a subscribe is handled only while its stream is open
\* (~LateSubscribe): one that comes late leaves an entry.
NoLeakedFilter == \A c \in Conn : filter[c] # {} => \E s \in Open : conn[s] = c

\* A stream whose client goes on reading catches up with the bus however often
\* it lagged, though another client has stopped reading and holds its stream
\* open (bus.rs:20-23: the slow ones lose envelopes, nobody waits for them).
StreamsCatchUp ==
  \A s \in Reader : stream[s] = "open" ~> (stream[s] = "closed" \/ cursor[s] = Len(log) + 1)

\* A draining server goes down unless SSE streams are held open for ever: nothing
\* closes the channel (handlers.rs:341 waits for that in vain), but no dispatch,
\* greeting or abandoned POST holds it.
OnlyStreamsHoldServer ==
  server = "draining" ~> (server = "down" \/ [](Open # {}))

(* The bus implements a lossy, ordered broadcast.                          *)
Lossy == INSTANCE LossyBroadcast WITH
  Listener <- Stream, published <- log, since <- joined, heard <- got

\* What a stream writes is an ordered selection of what was published after it
\* opened, without repetition.
ImplementsLossyBroadcast == Lossy!Spec

=============================================================================
