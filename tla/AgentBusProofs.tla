--------------------------- MODULE AgentBusProofs ---------------------------
(***************************************************************************)
(* Theorems about AgentBus, for any number of streams, connections and     *)
(* intents, any capacity of the channel and any configuration.             *)
(***************************************************************************)
EXTENDS AgentBus, FiniteSetTheorems, TLAPS

-----------------------------------------------------------------------------
(* The log and what a stream has of it.                                    *)

\* Appending keeps what was there and adds one place at the end.
LEMMA AppendFacts ==
  ASSUME NEW S, NEW s \in Seq(S), NEW m \in S
  PROVE  /\ Append(s, m) \in Seq(S)
         /\ Len(s) \in Nat /\ DOMAIN s = 1 .. Len(s)
         /\ Len(Append(s, m)) = Len(s) + 1
         /\ DOMAIN Append(s, m) = 1 .. Len(s) + 1
         /\ \A i \in 1 .. Len(s) : Append(s, m)[i] = s[i]
         /\ Append(s, m)[Len(s) + 1] = m
         /\ ToSet(Append(s, m)) = ToSet(s) \cup {m}
<1>1. /\ Append(s, m) \in Seq(S)
      /\ Len(s) \in Nat /\ DOMAIN s = 1 .. Len(s)
      /\ Len(Append(s, m)) = Len(s) + 1
      /\ DOMAIN Append(s, m) = 1 .. Len(s) + 1
      /\ \A i \in 1 .. Len(s) : Append(s, m)[i] = s[i]
      /\ Append(s, m)[Len(s) + 1] = m
  OBVIOUS
<1> QED
  BY <1>1 DEF ToSet

\* What the steps of the model leave alone in the tables of the streams, and
\* what a stream that has not opened yet looks like.
StreamInv ==
  /\ got \in [Stream -> Seq(Nat)] /\ lost \in [Stream -> SUBSET Nat]
  /\ joined \in [Stream -> Nat] /\ cursor \in [Stream -> Nat]
  /\ \A s \in Stream :
       /\ stream[s] = "new" => /\ conn[s] = Nothing /\ joined[s] = 0 /\ cursor[s] = 0
                               /\ got[s] = <<>> /\ lost[s] = {}
       /\ stream[s] # "new" => conn[s] \in Conn /\ joined[s] > 0

BusType == TypeOK /\ StreamInv

\* The steps that only read or write the tables of one stream.
Reads(s) == (\E c \in Conn : OpenStream(s, c)) \/ Lag(s) \/ Deliver(s)

\* The steps that may send an envelope.
Sends ==
  \/ \E p \in Post : \/ \E name \in Name, source \in Scope \cup {Nothing} : Intent(p, name, source)
                     \/ DispatchSucceeds(p) \/ DispatchFails(p)
  \/ \E h \in Hail : Greet(h)

\* The steps that do neither.
Aside ==
  \/ \E s \in Stream : DropStream(s)
  \/ \E c \in Conn, scopes \in SUBSET Scope : Subscribe(c, scopes)
  \/ \E p \in Post : Abandon(p)
  \/ \E h \in Hail : Hello(h)
  \/ SignalShutdown \/ Stop
  \/ UNCHANGED vars

LEMMA StepCases ==
  ASSUME [Next]_vars
  PROVE  (\E s \in Stream : Reads(s)) \/ Sends \/ Aside
BY DEF Next, Poll, Reads, Sends, Aside

LEMMA ScopeForType ==
  ASSUME NEW name \in Name, NEW source \in Scope \cup {Nothing}
  PROVE  ScopeFor(name, source) \in Scope \cup {Nothing}
BY NameAssumption DEF ScopeFor

\* A step that sends adds at most one envelope, to whoever listens.
LEMMA SendAdds ==
  ASSUME TypeOK, Sends
  PROVE  /\ log' = log \/ \E e \in Envelope : log' = Append(log, e)
         /\ UNCHANGED <<reading, scoping, server>>
<1>1. ASSUME NEW e \in Envelope, Send(e) PROVE log' = log \/ \E f \in Envelope : log' = Append(log, f)
  BY <1>1 DEF Send
<1>2. ASSUME NEW p \in Post PROVE ErrorFor(p) \in Envelope /\ StateFor(p) \in Envelope
  BY DEF ErrorFor, StateFor, Envelope, Kinds, TypeOK
<1>3. ASSUME NEW h \in Hail, Greet(h) PROVE Initial(Greeting[greeted[h]]) \in Envelope
  BY <1>3, GreetingAssumption DEF Greet, Initial, Envelope, Kinds
<1>4. CASE \E p \in Post : \/ \E name \in Name, source \in Scope \cup {Nothing} : Intent(p, name, source)
                           \/ DispatchSucceeds(p) \/ DispatchFails(p)
  BY <1>1, <1>2, <1>4 DEF Intent, DispatchSucceeds, DispatchFails, Reply
<1>5. ASSUME NEW h \in Hail, Greet(h)
      PROVE  /\ log' = log \/ \E e \in Envelope : log' = Append(log, e)
             /\ UNCHANGED <<reading, scoping, server>>
  BY <1>1, <1>3, <1>5 DEF Greet
<1> QED
  BY <1>4, <1>5 DEF Sends

\* Nothing else does.
LEMMA LogGrows ==
  ASSUME TypeOK, [Next]_vars
  PROVE  log' = log \/ \E e \in Envelope : log' = Append(log, e)
<1>1. CASE Sends
  BY <1>1, SendAdds
<1>2. CASE ~Sends
  BY <1>2, StepCases DEF Reads, OpenStream, Lag, Deliver, Aside, DropStream, Subscribe, Abandon, Hello,
     SignalShutdown, Stop, vars
<1> QED
  BY <1>1, <1>2

\* What was published stays, under its number.
LEMMA LogKeeps ==
  ASSUME TypeOK, [Next]_vars
  PROVE  /\ log' \in Seq(Envelope) /\ Len(log) \in Nat /\ Len(log') \in Nat /\ Len(log) <= Len(log')
         /\ DOMAIN log = 1 .. Len(log) /\ DOMAIN log' = 1 .. Len(log')
         /\ \A k \in 1 .. Len(log) : log'[k] = log[k]
<1>1. log \in Seq(Envelope)
  BY DEF TypeOK
<1> HIDE DEF Envelope
<1>2. CASE log' = log
  BY <1>1, <1>2
<1>3. ASSUME NEW e \in Envelope, log' = Append(log, e)
      PROVE  /\ log' \in Seq(Envelope) /\ Len(log) \in Nat /\ Len(log') \in Nat /\ Len(log) <= Len(log')
             /\ DOMAIN log = 1 .. Len(log) /\ DOMAIN log' = 1 .. Len(log')
             /\ \A k \in 1 .. Len(log) : log'[k] = log[k]
  BY <1>1, <1>3, AppendFacts
<1> QED
  BY <1>2, <1>3, LogGrows

-----------------------------------------------------------------------------
(* Type correctness.                                                       *)

LEMMA TypeInit == Init => BusType
<1> SUFFICES ASSUME Init PROVE BusType
  OBVIOUS
<1>1. log \in Seq(Envelope) /\ Len(log) = 0
  BY DEF Init
<1>2. \A s \in Stream : ToSet(got[s]) = {}
  BY DEF Init, ToSet
<1>3. Len(Greeting) \in Nat
  BY GreetingAssumption
<1>4. StreamInv
  BY DEF Init, StreamInv
<1> HIDE DEF Envelope
<1>5. \A s \in Stream :
       /\ joined[s] \in 0 .. Len(log) + 1 /\ cursor[s] \in joined[s] .. Len(log) + 1
       /\ ToSet(got[s]) \cup lost[s] \subseteq joined[s] .. cursor[s] - 1
  BY <1>1, <1>2 DEF Init
<1>6. intent \in [Post -> [name : Name \cup {Nothing}, scope : Scope \cup {Nothing}]]
  BY DEF Init
<1>7. subs \in 0 .. MaxSubscribes /\ greeted \in [Hail -> 0 .. Len(Greeting) + 1]
  BY <1>3, CapacityAssumption DEF Init
<1> QED
  BY <1>1, <1>4, <1>5, <1>6, <1>7 DEF Init, BusType, TypeOK, Answers

\* The part of TypeOK that is about streams.
StreamType ==
  /\ log \in Seq(Envelope)
  /\ stream \in [Stream -> {"new", "open", "closed"}]
  /\ conn \in [Stream -> Conn \cup {Nothing}]
  /\ \A s \in Stream :
       /\ joined[s] \in 0 .. Len(log) + 1 /\ cursor[s] \in joined[s] .. Len(log) + 1
       /\ ToSet(got[s]) \cup lost[s] \subseteq joined[s] .. cursor[s] - 1

LEMMA StreamStep == BusType /\ [Next]_vars => StreamType' /\ StreamInv'
<1> SUFFICES ASSUME BusType, [Next]_vars PROVE StreamType' /\ StreamInv'
  OBVIOUS
<1>0. TypeOK /\ StreamType /\ StreamInv
  BY DEF BusType, TypeOK, StreamType
<1>l. log' \in Seq(Envelope) /\ Len(log) \in Nat /\ Len(log') \in Nat /\ Len(log) <= Len(log')
  BY <1>0, LogKeeps
<1> HIDE DEF Envelope
<1>1. ASSUME UNCHANGED <<conn, joined, cursor, got, lost>>,
             stream' = stream \/ \E s \in Stream : stream[s] = "open" /\ stream' = [stream EXCEPT ![s] = "closed"]
      PROVE  StreamType' /\ StreamInv'
  <2>1. StreamInv'
    <3>1. \A s \in Stream : stream'[s] = "new" <=> stream[s] = "new"
      BY <1>0, <1>1 DEF StreamType
    <3> QED
      BY <1>0, <1>1, <3>1 DEF StreamInv
  <2>2. stream' \in [Stream -> {"new", "open", "closed"}]
    BY <1>0, <1>1 DEF StreamType
  <2>3. \A s \in Stream :
          /\ joined[s] \in 0 .. Len(log') + 1 /\ cursor[s] \in joined[s] .. Len(log') + 1
          /\ ToSet(got[s]) \cup lost[s] \subseteq joined[s] .. cursor[s] - 1
    BY <1>0, <1>l DEF StreamType
  <2> QED
    BY <1>0, <1>l, <1>1, <2>1, <2>2, <2>3 DEF StreamType
<1>2. ASSUME NEW s \in Stream, NEW c \in Conn, OpenStream(s, c) PROVE StreamType' /\ StreamInv'
  <2>1. /\ stream[s] = "new" /\ stream' = [stream EXCEPT ![s] = "open"]
        /\ conn' = [conn EXCEPT ![s] = c] /\ joined' = [joined EXCEPT ![s] = Len(log) + 1]
        /\ cursor' = [cursor EXCEPT ![s] = Len(log) + 1] /\ UNCHANGED <<log, got, lost>>
        /\ ToSet(got[s]) = {} /\ lost[s] = {}
    BY <1>0, <1>2 DEF OpenStream, StartAt, StreamInv, ToSet
  <2> QED
    BY <1>0, <1>l, <2>1 DEF StreamType, StreamInv
<1>3. ASSUME NEW s \in Stream, Lag(s) PROVE StreamType' /\ StreamInv'
  <2>1. /\ stream[s] = "open" /\ cursor[s] < Oldest /\ UNCHANGED <<log, stream, conn, joined, got>>
        /\ lost' = [lost EXCEPT ![s] = @ \cup (cursor[s] .. Oldest - 1)]
        /\ cursor' = [cursor EXCEPT ![s] = Oldest]
    BY <1>3 DEF Lag
  <2>2. Oldest \in 1 .. Len(log) + 1
    BY <1>l, CapacityAssumption DEF Oldest
  <2> QED
    BY <1>0, <1>l, <2>1, <2>2 DEF StreamType, StreamInv
<1>4. ASSUME NEW s \in Stream, Deliver(s) PROVE StreamType' /\ StreamInv'
  <2>1. /\ stream[s] = "open" /\ cursor[s] <= Len(log) /\ UNCHANGED <<log, stream, conn, joined, lost>>
        /\ cursor' = [cursor EXCEPT ![s] = @ + 1]
        /\ got' = got \/ got' = [got EXCEPT ![s] = Append(@, cursor[s])]
    BY <1>4 DEF Deliver
  <2>2. /\ Append(got[s], cursor[s]) \in Seq(Nat)
        /\ ToSet(Append(got[s], cursor[s])) = ToSet(got[s]) \cup {cursor[s]}
    <3>1. got[s] \in Seq(Nat) /\ cursor[s] \in Nat
      BY <1>0 DEF StreamInv
    <3> QED
      BY <3>1, AppendFacts
  <2>3. /\ got' \in [Stream -> Seq(Nat)] /\ \A t \in Stream : t # s => got'[t] = got[t]
        /\ ToSet(got'[s]) \subseteq ToSet(got[s]) \cup {cursor[s]}
    BY <1>0, <2>1, <2>2 DEF StreamInv
  <2>4. StreamInv'
    <3>1. stream[s] # "new" /\ cursor' \in [Stream -> Nat] /\ \A t \in Stream : t # s => cursor'[t] = cursor[t]
      BY <1>0, <2>1 DEF StreamInv
    <3> QED
      BY <1>0, <2>1, <2>3, <3>1 DEF StreamInv
  <2>5. ASSUME NEW t \in Stream
        PROVE  /\ joined[t] \in 0 .. Len(log) + 1 /\ cursor'[t] \in joined[t] .. Len(log) + 1
               /\ ToSet(got'[t]) \cup lost[t] \subseteq joined[t] .. cursor'[t] - 1
    <3>1. /\ joined[t] \in 0 .. Len(log) + 1 /\ cursor[t] \in joined[t] .. Len(log) + 1
          /\ ToSet(got[t]) \cup lost[t] \subseteq joined[t] .. cursor[t] - 1
      BY <1>0 DEF StreamType
    <3>2. CASE t = s
      <4>1. cursor'[s] = cursor[s] + 1
        BY <1>0, <2>1 DEF StreamInv
      <4> QED
        BY <1>l, <2>1, <2>3, <3>1, <3>2, <4>1
    <3>3. CASE t # s
      <4>1. cursor'[t] = cursor[t]
        BY <1>0, <2>1, <3>3 DEF StreamInv
      <4> QED
        BY <2>3, <3>1, <3>3, <4>1
    <3> QED
      BY <3>2, <3>3
  <2> QED
    BY <1>0, <2>1, <2>4, <2>5 DEF StreamType
<1>5. CASE Sends
  BY <1>0, <1>1, <1>5, SendAdds DEF reading
<1>6. CASE Aside
  BY <1>1, <1>6 DEF Aside, DropStream, Subscribe, Abandon, Hello, SignalShutdown, Stop, reading, vars
<1> QED
  BY <1>2, <1>3, <1>4, <1>5, <1>6, StepCases DEF Reads

LEMMA TypeStep == BusType /\ [Next]_vars => BusType'
<1> SUFFICES ASSUME BusType, [Next]_vars PROVE BusType'
  OBVIOUS
<1>0. TypeOK /\ StreamInv /\ Len(Greeting) \in Nat
  BY GreetingAssumption DEF BusType
<1>s. StreamType' /\ StreamInv'
  BY StreamStep
<1> DEFINE ScopingType == /\ filter \in [Conn -> SUBSET Scope] /\ wanted \in [Conn -> SUBSET Scope]
                          /\ excluded \in [Conn -> SUBSET Scope] /\ subs \in 0 .. MaxSubscribes
           PostingType == /\ phase \in [Post -> {"idle", "dispatching", "done", "gone"}]
                          /\ intent \in [Post -> [name : Name \cup {Nothing}, scope : Scope \cup {Nothing}]]
                          /\ answer \in [Post -> Answers]
                          /\ audience \in [Post -> SUBSET Stream]
           ServerType  == /\ greeted \in [Hail -> 0 .. Len(Greeting) + 1]
                          /\ server \in {"up", "draining", "down"}
<1>t. ScopingType /\ PostingType /\ ServerType
  BY <1>0 DEF TypeOK
<1>1. ScopingType'
  <2>1. ASSUME NEW s \in Stream, DropStream(s) PROVE ScopingType'
    BY <1>0, <1>t, <2>1 DEF DropStream, Disconnect, StreamInv
  <2>2. ASSUME NEW c \in Conn, NEW scopes \in SUBSET Scope, Subscribe(c, scopes) PROVE ScopingType'
    BY <1>t, <2>2, CapacityAssumption DEF Subscribe, SetScopes
  <2>3. CASE UNCHANGED scoping
    BY <1>t, <2>3 DEF scoping
  <2> QED
    BY <1>0, <2>1, <2>2, <2>3, StepCases, SendAdds DEF Reads, OpenStream, Lag, Deliver, Aside, Abandon,
       Hello, SignalShutdown, Stop, vars
<1>2. PostingType'
  <2>1. ASSUME NEW p \in Post, NEW name \in Name, NEW source \in Scope \cup {Nothing},
               Intent(p, name, source)
        PROVE  PostingType'
    <3>1. /\ intent' = [intent EXCEPT ![p] = [name |-> name, scope |-> ScopeFor(name, source)]]
          /\ audience' = [audience EXCEPT ![p] = Open]
          /\ \E ph \in {"done", "dispatching"} : phase' = [phase EXCEPT ![p] = ph]
          /\ answer' = answer \/ \E code \in Answers : answer' = [answer EXCEPT ![p] = code]
      BY <2>1 DEF Intent, Reply, Answers
    <3>2. ScopeFor(name, source) \in Scope \cup {Nothing}
      BY ScopeForType
    <3> QED
      BY <1>t, <3>1, <3>2 DEF Open
  <2>2. ASSUME NEW p \in Post, DispatchSucceeds(p) \/ DispatchFails(p) \/ Abandon(p) PROVE PostingType'
    BY <1>t, <2>2 DEF DispatchSucceeds, DispatchFails, Abandon, Reply, Answers
  <2>3. CASE UNCHANGED posting
    BY <1>t, <2>3 DEF posting
  <2> QED
    BY <2>1, <2>2, <2>3, StepCases DEF Reads, OpenStream, Lag, Deliver, Sends, Greet, Aside, DropStream,
       Subscribe, Hello, SignalShutdown, Stop, vars
<1>3. ServerType'
  <2>1. ASSUME NEW h \in Hail, Hello(h) \/ Greet(h) PROVE ServerType'
    BY <1>0, <1>t, <2>1 DEF Hello, Greet
  <2>2. CASE UNCHANGED greeted
    BY <1>t, <2>2, StepCases, SendAdds, <1>0 DEF Reads, OpenStream, Lag, Deliver, Aside, DropStream,
       Subscribe, Abandon, Hello, SignalShutdown, Stop, vars
  <2> QED
    BY <2>1, <2>2, StepCases DEF Reads, OpenStream, Lag, Deliver, Sends, Intent, DispatchSucceeds,
       DispatchFails, Aside, DropStream, Subscribe, Abandon, SignalShutdown, Stop, vars
<1> QED
  BY <1>s, <1>1, <1>2, <1>3 DEF BusType, TypeOK, StreamType

LEMMA TypeAlways == Spec => []BusType
BY TypeInit, TypeStep, PTL DEF Spec

\* The adapter's state keeps its shape (bus.rs:27-31, handlers.rs:49-53); in
\* particular no stream reads past the bus or writes an envelope from before it
\* opened.
THEOREM TypeCorrect == Spec => []TypeOK
BY TypeAlways, PTL DEF BusType

-----------------------------------------------------------------------------
(* What a stream hears.                                                    *)

\* What a filter keeps out its own connection asked to have kept out.
Recorded == \A c \in Conn : filter[c] # {} => Scope \ filter[c] \subseteq excluded[c]

HeardInv == Recorded /\ AlwaysHeard

LEMMA ExcludedStep ==
  ASSUME TypeOK, [Next]_vars, Recorded
  PROVE  Recorded' /\ \A c \in Conn : excluded[c] \subseteq excluded'[c]
<1>0. filter \in [Conn -> SUBSET Scope] /\ excluded \in [Conn -> SUBSET Scope]
  BY DEF TypeOK
<1>1. ASSUME NEW c \in Conn, NEW scopes \in SUBSET Scope, Subscribe(c, scopes)
      PROVE  Recorded' /\ \A d \in Conn : excluded[d] \subseteq excluded'[d]
  BY <1>0, <1>1 DEF Subscribe, SetScopes, Recorded
<1>2. ASSUME NEW s \in Stream, DropStream(s)
      PROVE  Recorded' /\ \A d \in Conn : excluded[d] \subseteq excluded'[d]
  BY <1>0, <1>2 DEF DropStream, Disconnect, Recorded
<1>3. CASE UNCHANGED <<filter, excluded>>
  BY <1>3 DEF Recorded
<1> QED
  BY <1>1, <1>2, <1>3, StepCases, SendAdds DEF Reads, OpenStream, Lag, Deliver, Aside, Abandon,
     Hello, SignalShutdown, Stop, vars, scoping

\* What a stream had passed by before the step is heard as before.
LEMMA HeardStays ==
  ASSUME BusType, HeardInv, [Next]_vars, NEW s \in Stream, conn'[s] = conn[s],
         NEW k \in (joined[s] .. cursor[s] - 1) \ lost[s],
         log'[k].kind # "state" \/ log'[k].scope \in Scope \ excluded'[conn'[s]]
  PROVE  k \in ToSet(got[s])
<1>1. k \in 1 .. Len(log)
  <2>1. /\ joined[s] \in 0 .. Len(log) + 1 /\ cursor[s] \in joined[s] .. Len(log) + 1
        /\ Len(log) \in Nat
    BY LogKeeps DEF BusType, TypeOK
  <2>2. joined[s] > 0
    <3>1. joined[s] .. cursor[s] - 1 # {}
      OBVIOUS
    <3>2. stream[s] = "new" => joined[s] .. cursor[s] - 1 = {}
      BY DEF BusType, StreamInv
    <3> QED
      BY <3>1, <3>2 DEF BusType, StreamInv
  <2> QED
    BY <2>1, <2>2
<1>2. log'[k] = log[k] /\ conn[s] \in Conn
  <2>1. stream[s] # "new"
    <3>1. joined[s] .. cursor[s] - 1 # {}
      OBVIOUS
    <3> QED
      BY <3>1 DEF BusType, StreamInv
  <2> QED
    BY <1>1, <2>1, LogKeeps DEF BusType, StreamInv
<1>3. excluded[conn[s]] \subseteq excluded'[conn[s]]
  BY <1>2, ExcludedStep DEF BusType, HeardInv
<1> QED
  BY <1>2, <1>3 DEF HeardInv, AlwaysHeard

LEMMA HeardStep == BusType /\ HeardInv /\ [Next]_vars => HeardInv'
<1> SUFFICES ASSUME BusType, HeardInv, [Next]_vars PROVE AlwaysHeard'
  BY ExcludedStep DEF BusType, HeardInv
<1>0. /\ TypeOK /\ StreamInv /\ Len(log) \in Nat
      /\ joined \in [Stream -> Nat] /\ cursor \in [Stream -> Nat]
      /\ got \in [Stream -> Seq(Nat)] /\ lost \in [Stream -> SUBSET Nat]
  BY LogKeeps DEF BusType, StreamInv
<1>g. ASSUME \A t \in Stream : \A k \in (joined'[t] .. cursor'[t] - 1) \ lost'[t] :
               (log'[k].kind # "state" \/ log'[k].scope \in Scope \ excluded'[conn'[t]]) => k \in ToSet(got'[t])
      PROVE  AlwaysHeard'
  BY <1>g DEF AlwaysHeard
<1>1. CASE UNCHANGED <<conn, joined, cursor, got, lost>>
  BY <1>g, <1>1, HeardStays
<1>2. ASSUME NEW s \in Stream, NEW c \in Conn, OpenStream(s, c) PROVE AlwaysHeard'
  <2>1. /\ conn' = [conn EXCEPT ![s] = c] /\ joined' = [joined EXCEPT ![s] = Len(log) + 1]
        /\ cursor' = [cursor EXCEPT ![s] = Len(log) + 1] /\ UNCHANGED <<got, lost>>
    BY <1>2 DEF OpenStream, StartAt
  <2>2. \A t \in Stream : t # s => conn'[t] = conn[t] /\ joined'[t] = joined[t] /\ cursor'[t] = cursor[t]
    BY <1>0, <2>1 DEF TypeOK
  <2>3. joined'[s] .. cursor'[s] - 1 = {}
    BY <1>0, <2>1
  <2> QED
    BY <1>g, <2>1, <2>2, <2>3, HeardStays
<1>3. ASSUME NEW s \in Stream, Lag(s) PROVE AlwaysHeard'
  <2>1. /\ cursor[s] < Oldest /\ UNCHANGED <<log, conn, joined, got>>
        /\ lost' = [lost EXCEPT ![s] = @ \cup (cursor[s] .. Oldest - 1)]
        /\ cursor' = [cursor EXCEPT ![s] = Oldest]
    BY <1>3 DEF Lag
  <2>2. Oldest \in Nat
    BY <1>0, CapacityAssumption DEF Oldest
  <2>3. \A t \in Stream : (joined'[t] .. cursor'[t] - 1) \ lost'[t] \subseteq (joined[t] .. cursor[t] - 1) \ lost[t]
    BY <1>0, <2>1, <2>2
  <2> QED
    BY <1>g, <2>1, <2>3, HeardStays
<1>4. ASSUME NEW s \in Stream, Deliver(s) PROVE AlwaysHeard'
  <2>1. /\ stream[s] = "open" /\ UNCHANGED <<log, conn, joined, lost, excluded>>
        /\ cursor' = [cursor EXCEPT ![s] = @ + 1]
        /\ got' = IF WantsScope(conn[s], log[cursor[s]])
                  THEN [got EXCEPT ![s] = Append(@, cursor[s])] ELSE got
    BY <1>4 DEF Deliver, scoping
  <2>2. \A t \in Stream : ToSet(got[t]) \subseteq ToSet(got'[t])
    <3>1. got[s] \in Seq(Nat) /\ cursor[s] \in Nat
      BY <1>0
    <3>2. ToSet(Append(got[s], cursor[s])) = ToSet(got[s]) \cup {cursor[s]}
      BY <3>1, AppendFacts
    <3>3. got' = got \/ got' = [got EXCEPT ![s] = Append(got[s], cursor[s])]
      BY <2>1
    <3> QED
      BY <1>0, <3>2, <3>3
  <2>3. WantsScope(conn[s], log[cursor[s]]) => cursor[s] \in ToSet(got'[s])
    <3>1. got[s] \in Seq(Nat) /\ cursor[s] \in Nat
      BY <1>0
    <3>2. ToSet(Append(got[s], cursor[s])) = ToSet(got[s]) \cup {cursor[s]}
      BY <3>1, AppendFacts
    <3> QED
      BY <1>0, <2>1, <3>2
  <2>4. log[cursor[s]].kind # "state" \/ log[cursor[s]].scope \in Scope \ excluded[conn[s]]
          => WantsScope(conn[s], log[cursor[s]])
    <3>1. conn[s] \in Conn
      BY <1>0, <2>1 DEF StreamInv
    <3> QED
      BY <3>1 DEF HeardInv, Recorded, WantsScope
  <2>5. ASSUME NEW t \in Stream, NEW k \in (joined'[t] .. cursor'[t] - 1) \ lost'[t],
               k \notin (joined[t] .. cursor[t] - 1) \ lost[t]
        PROVE  t = s /\ k = cursor[s]
    BY <1>0, <2>1, <2>5
  <2> QED
    BY <1>g, <2>1, <2>2, <2>3, <2>4, <2>5, HeardStays
<1>5. CASE Sends
  BY <1>0, <1>1, <1>5, SendAdds DEF reading
<1>6. CASE Aside
  BY <1>1, <1>6 DEF Aside, DropStream, Subscribe, Abandon, Hello, SignalShutdown, Stop, reading, vars
<1> QED
  BY <1>2, <1>3, <1>4, <1>5, <1>6, StepCases DEF Reads

\* Errors and layouts reach every stream that keeps up, and so does every state
\* of a scope its own connection never excluded, whatever the others ask for
\* and whenever the filter is read (bus.rs:5-6, 75-76).
THEOREM EverythingHeard == Spec => []AlwaysHeard
<1>1. Init => HeardInv
  BY DEF Init, HeardInv, Recorded, AlwaysHeard
<1>2. HeardInv => AlwaysHeard
  BY DEF HeardInv
<1> QED
  BY <1>1, <1>2, TypeInit, TypeStep, HeardStep, PTL DEF Spec

-----------------------------------------------------------------------------
(* What an intent leaves on the bus.                                       *)

IsRef(k, p) == k \in DOMAIN log /\ log[k].ref = p
Outcome(p) == IF answer[p] = "ok" THEN StateFor(p) ELSE ErrorFor(p)

\* The envelope of an intent is sent once, with its reply; who listened when
\* the intent came had opened before.
EnvelopeInv ==
  /\ \A p \in Post : \A k, l \in DOMAIN log : IsRef(k, p) /\ IsRef(l, p) => k = l
  /\ \A p \in Post : \A k \in DOMAIN log : IsRef(k, p) => phase[p] = "done" /\ log[k] = Outcome(p)
  /\ \A p \in Post : phase[p] = "done" /\ audience[p] \cap Open # {} => \E k \in DOMAIN log : IsRef(k, p)
  /\ \A p \in Post : \A s \in audience[p] : stream[s] # "new"

\* A step that keeps the log and the intents, whoever comes or goes.
LEMMA EnvelopeStays ==
  ASSUME BusType, EnvelopeInv, UNCHANGED <<log, posting>>,
         \A s \in Stream : /\ stream[s] # "new" => stream'[s] # "new"
                           /\ stream[s] # "new" /\ stream'[s] = "open" => stream[s] = "open"
  PROVE  EnvelopeInv'
<1>0. audience \in [Post -> SUBSET Stream]
  BY DEF BusType, TypeOK
<1>1. \A p \in Post : audience[p] \cap Open' \subseteq audience[p] \cap Open
  BY <1>0 DEF Open, EnvelopeInv
<1>2. \A p \in Post : audience[p] \cap Open' # {} => audience[p] \cap Open # {}
  BY <1>1
<1> QED
  BY <1>0, <1>2 DEF EnvelopeInv, IsRef, Outcome, StateFor, ErrorFor, posting

\* A reply.
LEMMA EnvelopeSent ==
  ASSUME BusType, EnvelopeInv, NEW p \in Post, NEW e \in Envelope, phase[p] # "done", Send(e), e.ref = p,
         phase' = [phase EXCEPT ![p] = "done"], stream' = stream,
         \A q \in Post : q # p => answer'[q] = answer[q] /\ intent'[q] = intent[q] /\ audience'[q] = audience[q],
         e = Outcome(p)', \A s \in audience'[p] : stream[s] # "new"
  PROVE  EnvelopeInv'
<1>0. /\ log \in Seq(Envelope) /\ phase \in [Post -> {"idle", "dispatching", "done", "gone"}]
      /\ DOMAIN log = 1 .. Len(log) /\ Len(log) \in Nat
  <2>1. log \in Seq(Envelope) /\ phase \in [Post -> {"idle", "dispatching", "done", "gone"}]
    BY DEF BusType, TypeOK
  <2> HIDE DEF Envelope
  <2> QED
    BY <2>1
<1>1. /\ phase'[p] = "done" /\ \A q \in Post : q # p => phase'[q] = phase[q] /\ Outcome(q)' = Outcome(q)
      /\ Open' = Open /\ \A k \in DOMAIN log : log[k].ref # p
  BY <1>0 DEF Open, Outcome, StateFor, ErrorFor, EnvelopeInv, IsRef
<1>2. CASE Open = {}
  <2>1. log' = log
    BY <1>2 DEF Send
  <2> QED
    BY <1>1, <1>2, <2>1 DEF EnvelopeInv, IsRef
<1>3. CASE Open # {}
  <2>1. log' = Append(log, e)
    BY <1>3 DEF Send
  <2>2. /\ DOMAIN log' = 1 .. Len(log) + 1 /\ log'[Len(log) + 1] = e
        /\ \A k \in DOMAIN log : k \in DOMAIN log' /\ log'[k] = log[k]
    BY <1>0, <2>1, AppendFacts
  <2>3. \A k \in DOMAIN log' : k \in DOMAIN log \/ k = Len(log) + 1
    BY <1>0, <2>2
  <2>4. \A q \in Post : \A k \in DOMAIN log' :
          log'[k].ref = q <=> (q = p /\ k = Len(log) + 1) \/ (q # p /\ IsRef(k, q))
    BY <1>0, <1>1, <2>2, <2>3 DEF IsRef
  <2>5. \A q \in Post : \A k, l \in DOMAIN log' : log'[k].ref = q /\ log'[l].ref = q => k = l
    BY <2>3, <2>4 DEF EnvelopeInv, IsRef
  <2>6. \A q \in Post : \A k \in DOMAIN log' : log'[k].ref = q => phase'[q] = "done" /\ log'[k] = Outcome(q)'
    BY <1>1, <2>2, <2>4 DEF EnvelopeInv, IsRef
  <2>7. \A q \in Post : phase'[q] = "done" /\ audience'[q] \cap Open # {} => \E k \in DOMAIN log' : log'[k].ref = q
    BY <1>0, <1>1, <2>2 DEF EnvelopeInv, IsRef
  <2>8. \A q \in Post : \A s \in audience'[q] : stream[s] # "new"
    BY DEF EnvelopeInv
  <2> QED
    BY <1>1, <2>5, <2>6, <2>7, <2>8 DEF EnvelopeInv, IsRef
<1> QED
  BY <1>2, <1>3

LEMMA EnvelopeStep == BusType /\ EnvelopeInv /\ [Next]_vars => EnvelopeInv'
<1> SUFFICES ASSUME BusType, EnvelopeInv, [Next]_vars PROVE EnvelopeInv'
  OBVIOUS
<1>0. /\ TypeOK /\ log \in Seq(Envelope) /\ stream \in [Stream -> {"new", "open", "closed"}]
      /\ phase \in [Post -> {"idle", "dispatching", "done", "gone"}] /\ answer \in [Post -> Answers]
      /\ intent \in [Post -> [name : Name \cup {Nothing}, scope : Scope \cup {Nothing}]]
      /\ audience \in [Post -> SUBSET Stream]
      /\ \A p \in Post : ErrorFor(p) \in Envelope /\ StateFor(p) \in Envelope
  <2>1. TypeOK
    BY DEF BusType
  <2>2. \A p \in Post : ErrorFor(p) \in Envelope /\ StateFor(p) \in Envelope
    BY <2>1 DEF ErrorFor, StateFor, Envelope, Kinds, TypeOK
  <2> QED
    BY <2>1, <2>2 DEF TypeOK
<1> HIDE DEF Envelope
<1>1. ASSUME NEW p \in Post, NEW name \in Name, NEW source \in Scope \cup {Nothing}, Intent(p, name, source)
      PROVE  EnvelopeInv'
  <2>1. /\ phase[p] = "idle" /\ stream' = stream
        /\ audience' = [audience EXCEPT ![p] = Open]
        /\ intent' = [intent EXCEPT ![p] = [name |-> name, scope |-> ScopeFor(name, source)]]
    BY <1>1 DEF Intent, reading
  <2>2. \A s \in audience'[p] : stream[s] # "new"
    BY <1>0, <2>1 DEF Open
  <2>3. CASE \E code \in {"no_scope", "no_route"} : Reply(p, code, ErrorFor(p))
    <3>1. /\ phase' = [phase EXCEPT ![p] = "done"] /\ Send(ErrorFor(p)) /\ answer'[p] # "ok"
          /\ \A q \in Post : q # p => answer'[q] = answer[q]
      BY <1>0, <2>3 DEF Reply
    <3>2. ErrorFor(p) = Outcome(p)' /\ ErrorFor(p).ref = p
      BY <3>1 DEF Outcome, ErrorFor
    <3> QED
      BY <1>0, <2>1, <2>2, <3>1, <3>2, EnvelopeSent
  <2>4. CASE phase' = [phase EXCEPT ![p] = "dispatching"] /\ UNCHANGED <<log, answer>>
    <3>1. \A q \in Post : q # p => Outcome(q)' = Outcome(q) /\ phase'[q] = phase[q] /\ audience'[q] = audience[q]
      BY <1>0, <2>1, <2>4 DEF Outcome, StateFor, ErrorFor
    <3>2. Open' = Open /\ phase'[p] # "done" /\ \A k \in DOMAIN log : ~IsRef(k, p)
      BY <1>0, <2>1, <2>4 DEF Open, EnvelopeInv
    <3> QED
      BY <2>1, <2>2, <2>4, <3>1, <3>2 DEF EnvelopeInv, IsRef
  <2> QED
    BY <1>1, <2>3, <2>4 DEF Intent
<1>2. ASSUME NEW p \in Post, DispatchSucceeds(p) \/ DispatchFails(p) PROVE EnvelopeInv'
  <2>1. phase[p] = "dispatching" /\ UNCHANGED <<stream, intent, audience>>
    BY <1>2 DEF DispatchSucceeds, DispatchFails, reading
  <2>2. \A s \in audience[p] : stream[s] # "new"
    BY DEF EnvelopeInv
  <2>3. PICK code \in {"ok", "dispatch_error"}, e \in {StateFor(p), ErrorFor(p)} :
          Reply(p, code, e) /\ e = IF code = "ok" THEN StateFor(p) ELSE ErrorFor(p)
    BY <1>2 DEF DispatchSucceeds, DispatchFails
  <2>4. /\ phase' = [phase EXCEPT ![p] = "done"] /\ Send(e) /\ answer'[p] = code
        /\ \A q \in Post : q # p => answer'[q] = answer[q]
    BY <1>0, <2>3 DEF Reply
  <2>5. e = Outcome(p)' /\ e.ref = p /\ e \in Envelope
    BY <1>0, <2>1, <2>3, <2>4 DEF Outcome, StateFor, ErrorFor
  <2> QED
    BY <2>1, <2>2, <2>4, <2>5, EnvelopeSent
<1>3. ASSUME NEW p \in Post, Abandon(p) PROVE EnvelopeInv'
  <2>1. /\ phase[p] = "dispatching" /\ phase' = [phase EXCEPT ![p] = "gone"]
        /\ UNCHANGED <<log, stream, intent, answer, audience>>
    BY <1>3 DEF Abandon, reading
  <2>2. \A q \in Post : phase'[q] = "done" <=> phase[q] = "done"
    BY <1>0, <2>1
  <2> QED
    BY <2>1, <2>2 DEF EnvelopeInv, IsRef, Outcome, StateFor, ErrorFor, Open
<1>4. ASSUME NEW h \in Hail, Greet(h) PROVE EnvelopeInv'
  <2>1. PICK e \in Envelope : Send(e) /\ e.ref = Nothing
    <3>1. Initial(Greeting[greeted[h]]) \in Envelope
      BY <1>4, GreetingAssumption DEF Greet, Initial, Envelope, Kinds
    <3> QED
      BY <1>4, <3>1 DEF Greet, Initial
  <2>2. UNCHANGED <<stream, posting>>
    BY <1>4 DEF Greet, reading
  <2>3. /\ DOMAIN log' = DOMAIN log \/ DOMAIN log' = DOMAIN log \cup {Len(log) + 1}
        /\ \A k \in DOMAIN log : k \in DOMAIN log' /\ log'[k] = log[k]
        /\ \A k \in DOMAIN log' : k \in DOMAIN log \/ log'[k].ref = Nothing
    <3>1. CASE log' = log
      BY <3>1
    <3>2. CASE log' = Append(log, e)
      BY <1>0, <2>1, <3>2, AppendFacts
    <3> QED
      BY <2>1, <3>1, <3>2 DEF Send
  <2>4. \A p \in Post : \A k \in DOMAIN log' : log'[k].ref = p => IsRef(k, p)
    BY <2>3, NothingAssumption DEF IsRef
  <2>5. \A p \in Post : \A k \in DOMAIN log : IsRef(k, p) => k \in DOMAIN log' /\ log'[k].ref = p
    BY <2>3 DEF IsRef
  <2>6. Open' = Open /\ \A p \in Post : Outcome(p)' = Outcome(p)
    BY <2>2 DEF Open, Outcome, StateFor, ErrorFor, posting
  <2> QED
    BY <2>2, <2>3, <2>4, <2>5, <2>6 DEF EnvelopeInv, IsRef, posting
<1>5. ASSUME NEW s \in Stream, Reads(s) \/ DropStream(s) PROVE EnvelopeInv'
  BY <1>0, <1>5, EnvelopeStays DEF Reads, OpenStream, Lag, Deliver, DropStream
<1>6. CASE \/ \E c \in Conn, scopes \in SUBSET Scope : Subscribe(c, scopes)
           \/ \E h \in Hail : Hello(h)
           \/ SignalShutdown \/ Stop \/ UNCHANGED vars
  BY <1>6, EnvelopeStays DEF Subscribe, Hello, SignalShutdown, Stop, reading, vars
<1> QED
  BY <1>1, <1>2, <1>3, <1>4, <1>5, <1>6, StepCases DEF Sends, Aside

\* One envelope per answered intent, the same for everybody who listened all
\* the time, and none for an intent whose client left (handlers.rs:147-247).
THEOREM OneEnvelopeEach == Spec => []OneEnvelopePerIntent
<1>1. Init => EnvelopeInv
  BY DEF Init, EnvelopeInv
<1>2. EnvelopeInv => OneEnvelopePerIntent
  <2> SUFFICES ASSUME EnvelopeInv, NEW p \in Post
               PROVE  LET mine == {k \in DOMAIN log : log[k].ref = p}
                      IN  /\ Cardinality(mine) <= 1
                          /\ mine # {} => phase[p] = "done"
                          /\ phase[p] = "done" /\ audience[p] \cap Open # {} => mine # {}
                          /\ \A k \in mine : log[k] = IF answer[p] = "ok" THEN StateFor(p) ELSE ErrorFor(p)
    BY DEF OneEnvelopePerIntent
  <2> DEFINE mine == {k \in DOMAIN log : log[k].ref = p}
  <2>1. Cardinality(mine) <= 1
    <3>1. \A k, l \in mine : k = l
      BY DEF EnvelopeInv, IsRef
    <3>2. mine = {} \/ \E k \in mine : mine = {k}
      BY <3>1
    <3> HIDE DEF mine
    <3>3. Cardinality({}) = 0
      BY FS_EmptySet
    <3>4. \A k : Cardinality({k}) = 1
      BY FS_Singleton
    <3>5. CASE mine = {}
      BY <3>3, <3>5
    <3>6. ASSUME NEW k \in mine, mine = {k} PROVE Cardinality(mine) <= 1
      BY <3>4, <3>6
    <3> QED
      BY <3>2, <3>5, <3>6
  <2> QED
    BY <2>1 DEF EnvelopeInv, IsRef, Outcome
<1> QED
  BY <1>1, <1>2, TypeInit, TypeStep, EnvelopeStep, PTL DEF Spec
-----------------------------------------------------------------------------
(* Filters.                                                                *)

\* What a step does to a filter and to the request it came from.
LEMMA FilterCases ==
  ASSUME BusType, [Next]_vars
  PROVE  \/ \E c \in Conn, scopes \in SUBSET Scope : Subscribe(c, scopes)
         \/ \E s \in Stream : DropStream(s)
         \/ \E s \in Stream, c \in Conn : OpenStream(s, c)
         \/ UNCHANGED <<stream, conn, filter, wanted>>
BY StepCases, SendAdds DEF BusType, Reads, Lag, Deliver, Aside, Abandon, Hello, SignalShutdown, Stop, reading,
   scoping, vars

\* No two streams ever had the same connection, and every filter is the one
\* asked for last.
FilterInv ==
  /\ filter = wanted
  /\ \A s, t \in Stream : stream[s] # "new" /\ stream[t] # "new" /\ conn[s] = conn[t] => s = t

LEMMA FilterStep ==
  ASSUME ReuseConn = FALSE, BusType, FilterInv, [Next]_vars PROVE FilterInv'
<1>0. /\ stream \in [Stream -> {"new", "open", "closed"}] /\ conn \in [Stream -> Conn \cup {Nothing}]
      /\ filter \in [Conn -> SUBSET Scope]
  BY DEF BusType, TypeOK
<1>1. ASSUME NEW c \in Conn, NEW scopes \in SUBSET Scope, Subscribe(c, scopes) PROVE FilterInv'
  BY <1>0, <1>1 DEF FilterInv, Subscribe, SetScopes, reading
<1>2. ASSUME NEW s \in Stream, DropStream(s) PROVE FilterInv'
  <2>1. /\ stream[s] = "open" /\ stream' = [stream EXCEPT ![s] = "closed"] /\ conn' = conn
        /\ filter' = [filter EXCEPT ![conn[s]] = {}]
        /\ wanted' = IF \E t \in Open \ {s} : conn[t] = conn[s]
                     THEN wanted ELSE [wanted EXCEPT ![conn[s]] = {}]
    BY <1>2 DEF DropStream, Disconnect
  <2>2. ~ \E t \in Open \ {s} : conn[t] = conn[s]
    BY <2>1 DEF Open, FilterInv
  <2> QED
    BY <1>0, <2>1, <2>2 DEF FilterInv
<1>3. ASSUME NEW s \in Stream, NEW c \in Conn, OpenStream(s, c) PROVE FilterInv'
  <2>1. /\ \A t \in Stream : conn[t] # c
        /\ stream' = [stream EXCEPT ![s] = "open"] /\ conn' = [conn EXCEPT ![s] = c]
        /\ UNCHANGED <<filter, wanted>>
    BY <1>3 DEF OpenStream, scoping
  <2> QED
    BY <1>0, <2>1 DEF FilterInv
<1>4. CASE UNCHANGED <<stream, conn, filter, wanted>>
  BY <1>4 DEF FilterInv
<1> QED
  BY <1>1, <1>2, <1>3, <1>4, FilterCases

\* While no client opens a second stream under a used id, a stream filters by
\* what its client asked for last (AGENTBUS-ADAPTER.md:55-56); a client that
\* reconnects under its id can lose that (run BusReconnect).
THEOREM FilterFollowsClient == ReuseConn = FALSE => (Spec => []FilterAsAsked)
<1> SUFFICES ASSUME ReuseConn = FALSE PROVE Spec => []FilterAsAsked
  OBVIOUS
<1>1. Init => FilterInv
  BY DEF Init, FilterInv
<1>2. BusType /\ FilterInv /\ [Next]_vars => FilterInv'
  BY FilterStep
<1>3. FilterInv => FilterAsAsked
  BY DEF FilterInv, FilterAsAsked
<1> QED
  BY <1>1, <1>2, <1>3, TypeInit, TypeStep, PTL DEF Spec

LEMMA LeakStep ==
  ASSUME LateSubscribe = FALSE, BusType, NoLeakedFilter, [Next]_vars PROVE NoLeakedFilter'
<1>0. /\ stream \in [Stream -> {"new", "open", "closed"}] /\ conn \in [Stream -> Conn \cup {Nothing}]
      /\ filter \in [Conn -> SUBSET Scope]
  BY DEF BusType, TypeOK
<1>g. ASSUME \A c \in Conn : filter'[c] # {} => \E s \in Stream : stream'[s] = "open" /\ conn'[s] = c
      PROVE  NoLeakedFilter'
  BY <1>g DEF NoLeakedFilter, Open
<1>h. \A c \in Conn : filter[c] # {} => \E s \in Stream : stream[s] = "open" /\ conn[s] = c
  BY DEF NoLeakedFilter, Open
<1>1. ASSUME NEW c \in Conn, NEW scopes \in SUBSET Scope, Subscribe(c, scopes) PROVE NoLeakedFilter'
  <2>1. /\ \E s \in Stream : stream[s] = "open" /\ conn[s] = c
        /\ filter' = [filter EXCEPT ![c] = scopes] /\ UNCHANGED <<stream, conn>>
    BY <1>1 DEF Subscribe, SetScopes, Open, reading
  <2> QED
    BY <1>0, <1>g, <1>h, <2>1
<1>2. ASSUME NEW s \in Stream, DropStream(s) PROVE NoLeakedFilter'
  <2>1. /\ stream' = [stream EXCEPT ![s] = "closed"] /\ conn' = conn
        /\ filter' = [filter EXCEPT ![conn[s]] = {}]
    BY <1>2 DEF DropStream, Disconnect
  <2>2. ASSUME NEW c \in Conn, filter'[c] # {}
        PROVE  \E t \in Stream : stream'[t] = "open" /\ conn'[t] = c
    <3>1. filter[c] # {} /\ conn[s] # c
      BY <1>0, <2>1, <2>2
    <3>2. PICK t \in Stream : stream[t] = "open" /\ conn[t] = c
      BY <1>h, <3>1
    <3> QED
      BY <1>0, <2>1, <3>1, <3>2
  <2> QED
    BY <1>g, <2>2
<1>3. ASSUME NEW s \in Stream, NEW c \in Conn, OpenStream(s, c) PROVE NoLeakedFilter'
  <2>1. /\ stream[s] = "new" /\ filter' = filter
        /\ stream' = [stream EXCEPT ![s] = "open"] /\ conn' = [conn EXCEPT ![s] = c]
    BY <1>3 DEF OpenStream, scoping
  <2>2. ASSUME NEW d \in Conn, filter[d] # {}
        PROVE  \E t \in Stream : stream'[t] = "open" /\ conn'[t] = d
    <3>1. PICK t \in Stream : stream[t] = "open" /\ conn[t] = d
      BY <1>h, <2>2
    <3>2. t # s
      BY <2>1, <3>1
    <3> QED
      BY <1>0, <2>1, <3>1, <3>2
  <2> QED
    BY <1>g, <2>1, <2>2
<1>4. CASE UNCHANGED <<stream, conn, filter, wanted>>
  BY <1>g, <1>h, <1>4
<1> QED
  BY <1>1, <1>2, <1>3, <1>4, FilterCases

\* While a subscribe is handled only as its stream is open, no filter outlives
\* the streams of its connection (handlers.rs:29-31), under used ids too.
THEOREM FiltersAreDropped == LateSubscribe = FALSE => (Spec => []NoLeakedFilter)
<1> SUFFICES ASSUME LateSubscribe = FALSE PROVE Spec => []NoLeakedFilter
  OBVIOUS
<1>1. Init => NoLeakedFilter
  BY DEF Init, NoLeakedFilter
<1>2. BusType /\ NoLeakedFilter /\ [Next]_vars => NoLeakedFilter'
  BY LeakStep
<1> QED
  BY <1>1, <1>2, TypeInit, TypeStep, PTL DEF Spec

-----------------------------------------------------------------------------
(* The bus implements a lossy, ordered broadcast.                          *)

LEMMA BroadcastInit == Init => Lossy!Init
BY DEF Init, Lossy!Init

LEMMA BroadcastStep ==
  ASSUME BusType, [Next]_vars PROVE [Lossy!Next]_Lossy!vars
<1>0. /\ TypeOK /\ joined \in [Stream -> Nat] /\ cursor \in [Stream -> Nat] /\ got \in [Stream -> Seq(Nat)]
      /\ Len(log) \in Nat /\ DOMAIN log = 1 .. Len(log)
  BY LogKeeps DEF BusType, StreamInv
<1>1. ASSUME NEW s \in Stream, NEW c \in Conn, OpenStream(s, c) PROVE Lossy!Join(s)
  BY <1>1 DEF OpenStream, BusType, StreamInv, Lossy!Join
<1>2. ASSUME NEW s \in Stream, Deliver(s) PROVE [Lossy!Next]_Lossy!vars
  <2>1. /\ stream[s] = "open" /\ cursor[s] <= Len(log) /\ UNCHANGED <<log, joined>>
        /\ got' = got \/ got' = [got EXCEPT ![s] = Append(@, cursor[s])]
    BY <1>2 DEF Deliver
  <2>2. CASE got' = got
    BY <2>1, <2>2 DEF Lossy!vars
  <2>3. CASE got' = [got EXCEPT ![s] = Append(@, cursor[s])]
    <3>1. joined[s] \in Nat /\ joined[s] > 0 /\ cursor[s] \in joined[s] .. Len(log) + 1
      BY <1>0, <2>1 DEF BusType, StreamInv, TypeOK
    <3>2. \A i \in DOMAIN got[s] : got[s][i] < cursor[s]
      <4>1. ToSet(got[s]) \subseteq joined[s] .. cursor[s] - 1
        BY <1>0 DEF TypeOK
      <4>2. \A i \in DOMAIN got[s] : got[s][i] \in ToSet(got[s])
        BY DEF ToSet
      <4>3. cursor[s] \in Nat /\ joined[s] \in Nat
        BY <1>0
      <4> QED
        BY <4>1, <4>2, <4>3
    <3>3. cursor[s] \in DOMAIN log /\ Lossy!Hear(s, cursor[s])
      BY <1>0, <2>1, <2>3, <3>1, <3>2 DEF Lossy!Hear
    <3> QED
      BY <3>3 DEF Lossy!Next
  <2> QED
    BY <2>1, <2>2, <2>3
<1>3. CASE Sends
  <2>1. UNCHANGED <<joined, got>>
    BY <1>0, <1>3, SendAdds DEF reading
  <2>2. log' = log \/ \E e \in Envelope : log' = Append(log, e)
    BY <1>0, <1>3, SendAdds
  <2> HIDE DEF Envelope
  <2> QED
    BY <2>1, <2>2 DEF Lossy!vars, Lossy!Next, Lossy!Publish
<1>4. CASE UNCHANGED <<log, joined, got>>
  BY <1>4 DEF Lossy!vars
<1> QED
  BY <1>1, <1>2, <1>3, <1>4, StepCases DEF Reads, Lag, Aside, DropStream, Subscribe, Abandon, Hello,
     SignalShutdown, Stop, reading, vars, Lossy!Next

\* What a stream writes is an ordered selection of what was published after it
\* opened, without repetition (bus.rs:20-31, handlers.rs:55-100).
THEOREM ImplementsBroadcast == Spec => ImplementsLossyBroadcast
BY BroadcastInit, BroadcastStep, TypeAlways, PTL DEF Spec, ImplementsLossyBroadcast, Lossy!Spec
=============================================================================
