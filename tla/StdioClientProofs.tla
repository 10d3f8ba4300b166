------------------------- MODULE StdioClientProofs --------------------------
(***************************************************************************)
(* Theorems about StdioClient: over a stdio child the client does what     *)
(* McpClient says, and its untimed notification never waits, for any       *)
(* number of callers and any size of the pipe.                             *)
(***************************************************************************)
EXTENDS StdioClient, McpClientProofs

\* What is left of a sequence without its head.
LEMMA TailFacts ==
  ASSUME NEW S, NEW s \in Seq(S), s # <<>>
  PROVE  /\ Tail(s) \in Seq(S) /\ Len(Tail(s)) = Len(s) - 1
         /\ Len(s) \in Nat \ {0} /\ Head(s) = s[1] /\ 1 \in DOMAIN s
         /\ \A k \in DOMAIN Tail(s) : k \in Nat /\ k + 1 \in DOMAIN s /\ Tail(s)[k] = s[k + 1]
OBVIOUS

-----------------------------------------------------------------------------
(* The inductive invariant.                                                *)

InTransport == Timeable \cup {"notify"}

\* The stdin mutex: one holder, none of whom meets a closed stdin in the middle
\* of a line; whoever awaits an answer has left write_line.
MutexInv ==
  /\ \A c, d \in lock : c = d
  /\ \A c \in Caller : spot[c] = "writing" => ~closed
  /\ \A c \in Caller : pc[c] \in {"initAwait", "callAwait"} => spot[c] = "await"
  /\ \A c \in Caller : spot[c] = "await" => pc[c] \in Timeable
  /\ \A c \in Caller : spot[c] = "out" \/ pc[c] = "notify" => inbox[c] = {}

\* i is the request in the wire that an answer with this id was given to.
AnswersRequest(ident, says, i) ==
  /\ wire[i].id = ident
  /\ says \in Says(wire[i].method)
  /\ says = "version" => ident \in accepted

\* Everything on its way between the child and a caller stems from a request on
\* the wire.
OriginInv ==
  /\ \A k \in DOMAIN pipe : pipe[k] = NoMessage \/ \E i \in DOMAIN wire : pipe[k] = wire[i]
  /\ \A m \in asked : \E i \in Requests : m = wire[i]
  /\ \A k \in DOMAIN answers : \E i \in Requests : AnswersRequest(answers[k].id, answers[k].says, i)
  /\ \A c \in Caller : \A says \in inbox[c] :
       says = "lost" \/ \E i \in Requests : AnswersRequest(id[c], says, i)

\* The last line written was the one an answer is for, so it was read.
Reached(c) ==
  \/ wire[Len(wire)] \in asked
  \/ \E k \in DOMAIN answers : answers[k].id = id[c]
  \/ inbox[c] \ {"lost"} # {}

\* While one caller awaits the answer to its initialize nobody else is in the
\* transport, its line is the last one in the pipe, and once the child has read
\* it the pipe is empty.
QuietInv ==
  /\ \A c \in Caller : pc[c] = "initAwait" =>
       /\ tail = <<>>
       /\ \A k \in DOMAIN pipe : pipe[k] = wire[Len(wire)] => k = Len(pipe)
       /\ Reached(c) => pipe = <<>>
  /\ NotifyFindsRoom

\* The handshake a caller is about to believe in is one the child accepted.
AcceptInv ==
  /\ \A c \in Caller : pc[c] = "notify" => wire[Len(wire)].id \in accepted
  /\ \A c \in Caller : pc[c] = "flush" => wire[Len(wire) - 1].id \in accepted
  /\ AcceptedBeforeCalls

ClientInv == GateInv /\ IdInv /\ WireInv
CInv == CTypeOK /\ ClientInv /\ MutexInv /\ OriginInv /\ QuietInv /\ AcceptInv

-----------------------------------------------------------------------------
(* The steps, by what they do to a caller.                                 *)

\* A caller moves outside the transport.
MovesOutside(c) ==
  /\ pc[c] \notin InTransport
  /\ \E place \in Places \ (InTransport \cup {"flush"}) : pc' = [pc EXCEPT ![c] = place]
  /\ negotiated' # negotiated => pc[c] = "flush"
  /\ UNCHANGED <<nextId, id, closed, wire, stdio, process, reader>>

\* A caller leaves the transport for good.
Departs(c) ==
  /\ spot[c] # "out"
  /\ pc' = [pc EXCEPT ![c] = "done"]
  /\ spot' = [spot EXCEPT ![c] = "out"]
  /\ inbox' = [inbox EXCEPT ![c] = {}]
  /\ lock' = lock \ {c}
  /\ pending' \subseteq pending
  /\ UNCHANGED <<negotiated, offer, nextId, id, closed, wire, tail, pipe, process, reader>>

\* The answer to its initialize lets it go on to `initialized`.
ReceivesVersion(c) ==
  /\ spot[c] = "await" /\ inbox[c] \in {{"version"}, {"result"}}
  /\ ServerInitializes(c)
  /\ spot' = [spot EXCEPT ![c] = "queued"]
  /\ inbox' = [inbox EXCEPT ![c] = {}]
  /\ UNCHANGED <<lock, pending, tail, pipe, process, reader>>

LEMMA DepartCases ==
  ASSUME CTypeOK, NEW c \in Caller, WriteFails(c) \/ CTimesOut(c) \/ CDropped(c) \/ Receive(c)
  PROVE  Departs(c) \/ ReceivesVersion(c)
<1>1. CASE WriteFails(c)
  BY <1>1 DEF WriteFails, Departs, Leave, At, Finish, Goto
<1>2. CASE CTimesOut(c)
  BY <1>2 DEF CTimesOut, TimeOut, CTypeOK, Departs, Leave, At, Finish, Goto
<1>3. CASE CDropped(c)
  BY <1>3 DEF CDropped, Disconnect, Departs, Leave, At, Finish, Goto
<1>4. CASE Receive(c)
  <2>1. CASE ServerInitializes(c) /\ inbox[c] \in {{"version"}, {"result"}} /\ At(c, "queued")
    BY <1>4, <2>1 DEF Receive, ReceivesVersion, At
  <2>2. CASE (ServerRefuses(c) \/ ServerNamesOther(c) \/ ServerReturns(c)) /\ At(c, "out")
    <3>1. lock \ {c} = lock
      BY <1>4 DEF Receive, CTypeOK
    <3> QED
      BY <1>4, <2>2, <3>1 DEF Receive, Departs, ServerRefuses, ServerNamesOther, ServerReturns,
         At, Finish, Goto
  <2> QED
    BY <1>4, <2>1, <2>2 DEF Receive
<1> QED
  BY <1>1, <1>2, <1>3, <1>4

LEMMA OutsideCases ==
  ASSUME CTypeOK, NEW c \in Caller, CEnter(c) \/ CGate(c) \/ CLeaves(c)
  PROVE  MovesOutside(c)
<1> USE DEF InTransport, Timeable, MovesOutside, Goto, Places, Handshake
<1>1. CASE CEnter(c)
  BY <1>1 DEF CEnter, Enter, cell
<1>2. CASE CGate(c)
  BY <1>2 DEF CGate, Admit, Wake, Settle, cell
<1>3. CASE CLeaves(c)
  BY <1>3 DEF CLeaves, Disconnect, Finish, CTypeOK
<1> QED
  BY <1>1, <1>2, <1>3

\* Every step of the composition is one of these.
LEMMA CStepCases ==
  ASSUME CTypeOK, [CNext]_cvars
  PROVE  \/ \E c \in Caller :
              \/ MovesOutside(c) \/ CPrepare(c) \/ Acquire(c) \/ WriteStarts(c)
              \/ WriteEnds(c) \/ Departs(c) \/ ReceivesVersion(c)
         \/ CShutdown
         \/ ChildReads \/ (\E m \in asked : ChildAnswers(m)) \/ ChildLeaves
         \/ ReaderRoutes \/ ReaderEnds
         \/ UNCHANGED cvars
BY DepartCases, OutsideCases DEF CNext, OwnCStep

-----------------------------------------------------------------------------
(* Over stdio the client takes only steps McpClient allows.                *)

\* The line a caller completes is the message McpClient has it send.
LEMMA WriteEndsSends ==
  ASSUME CInv, NEW c \in Caller, WriteEnds(c)
  PROVE  \/ tail = <<c>> /\ (Send(c) \/ SendInitialized(c))
         \/ tail # <<c>> /\ pc[c] \in {"initSend", "callSend"} /\ UNCHANGED vars
<1>1. spot[c] = "writing" /\ ~closed
  BY DEF WriteEnds, CInv, MutexInv
<1>2. pc[c] \in {"initSend", "callSend", "notify"}
  BY <1>1 DEF CInv, CTypeOK, MutexInv, Timeable
<1>3. CASE tail = <<c>>
  <2>1. /\ wire' = Append(wire, Outgoing(c)) /\ Goto(c, NextPlace(c))
        /\ UNCHANGED <<cell, nextId, id, result, closed>>
    BY <1>3 DEF WriteEnds
  <2> QED
    BY <1>1, <1>2, <1>3, <2>1 DEF Send, SendInitialized, Outgoing, Method, NextPlace, Notifying
<1>4. CASE tail # <<c>>
  <2>1. ~Notifying(c)
    BY <1>1, <1>4 DEF CInv, QuietInv, NotifyFindsRoom
  <2> QED
    BY <1>2, <1>4, <2>1 DEF WriteEnds, Notifying, vars
<1> QED
  BY <1>3, <1>4

\* Where a finished write takes its caller.
LEMMA WriteEndsMoves ==
  ASSUME CInv, NEW c \in Caller, WriteEnds(c)
  PROVE  /\ pc' = [pc EXCEPT ![c] = pc'[c]]
         /\ pc[c] = "notify" => pc'[c] = "flush"
         /\ pc[c] # "notify" => pc'[c] \in Timeable
<1>1. pc \in [Caller -> Places]
  BY DEF CInv, CTypeOK, TypeOK
<1> QED
  BY <1>1, WriteEndsSends DEF Send, SendInitialized, Goto, Timeable, vars

\* A step of the composition is a step of the client alone, or none.
LEMMA CStepIsStep == CInv /\ [CNext]_cvars => [Next]_vars
<1> SUFFICES ASSUME CInv, CNext PROVE [Next]_vars
  BY DEF cvars, vars
<1>1. ASSUME NEW c \in Caller, CEnter(c) \/ CGate(c) \/ CLeaves(c) PROVE Next
  BY <1>1 DEF CEnter, CGate, CLeaves, Next, OwnStep
<1>2. ASSUME NEW c \in Caller, CPrepare(c) PROVE Next
  BY <1>2 DEF CPrepare, Next, OwnStep
<1>3. ASSUME NEW c \in Caller, WriteEnds(c) PROVE [Next]_vars
  BY <1>3, WriteEndsSends DEF Next, OwnStep
<1>4. ASSUME NEW c \in Caller, WriteFails(c) PROVE Next
  <2>1. pc[c] \in {"initSend", "callSend", "initAwait", "callAwait", "notify"}
    BY <1>4 DEF WriteFails, CInv, CTypeOK, Timeable
  <2> QED
    BY <1>4, <2>1 DEF WriteFails, TransportFails, NotifyFails, Next
<1>5. ASSUME NEW c \in Caller, CTimesOut(c) \/ CDropped(c) PROVE Next
  BY <1>5 DEF CTimesOut, CDropped, Next
<1>6. ASSUME NEW c \in Caller, Receive(c) PROVE Next
  BY <1>6 DEF Receive, Next, ServerStep
<1>7. CASE CShutdown
  BY <1>7 DEF CShutdown, Next
<1>8. CASE \/ \E c \in Caller : Acquire(c) \/ WriteStarts(c)
           \/ ChildReads \/ (\E m \in asked : ChildAnswers(m)) \/ ChildLeaves
           \/ ReaderRoutes \/ ReaderEnds
  BY <1>8 DEF Acquire, WriteStarts, ChildReads, ChildAnswers, ChildLeaves, ReaderRoutes, ReaderEnds
<1> QED
  BY <1>1, <1>2, <1>3, <1>4, <1>5, <1>6, <1>7, <1>8 DEF CNext, OwnCStep

LEMMA ClientStep == CInv /\ [CNext]_cvars => TypeOK' /\ ClientInv'
BY CStepIsStep, TypeStep, GateStep, IdStep, WireStep DEF CInv, CTypeOK, ClientInv

-----------------------------------------------------------------------------
(* The invariant is inductive: type and mutex.                             *)

LEMMA CInvInit == CInit => CInv
<1> SUFFICES ASSUME CInit PROVE CInv
  OBVIOUS
<1>1. TypeOK /\ ClientInv
  BY TypeInit, GateInit, IdInit, WireInit DEF CInit, ClientInv
<1>2. CTypeOK
  <2>1. pipe \in Seq(Message \cup {NoMessage}) /\ tail \in Seq(Caller) /\ Len(pipe) <= PipeCap
        /\ answers \in Seq([id : Nat, says : {"version", "other", "error", "result"}])
    BY PipeAssumption DEF CInit
  <2> QED
    BY <1>1, <2>1 DEF CInit, Init, CTypeOK, Timeable
<1>3. MutexInv /\ OriginInv
  BY DEF CInit, Init, MutexInv, OriginInv
<1>4. QuietInv
  BY DEF CInit, Init, QuietInv, NotifyFindsRoom, Notifying
<1>5. AcceptInv
  BY DEF CInit, Init, AcceptInv, AcceptedBeforeCalls, Sent
<1> QED
  BY <1>1, <1>2, <1>3, <1>4, <1>5 DEF CInv

LEMMA CTypeStep == CInv /\ [CNext]_cvars => CTypeOK'
<1> SUFFICES ASSUME CInv, [CNext]_cvars PROVE CTypeOK'
  OBVIOUS
<1>0. CTypeOK /\ TypeOK'
  BY ClientStep DEF CInv
<1>t. /\ pc \in [Caller -> Places] /\ nextId \in Nat /\ id \in [Caller -> 0 .. nextId - 1]
      /\ wire \in Seq(Message)
  BY <1>0 DEF CTypeOK, TypeOK
<1> USE <1>0, <1>t DEF CTypeOK
<1> HIDE DEF Message, NoMessage
<1>1. ASSUME NEW c \in Caller, MovesOutside(c) PROVE CTypeOK'
  BY <1>1 DEF MovesOutside, InTransport, Timeable, stdio, process
<1>2. ASSUME NEW c \in Caller, CPrepare(c) PROVE CTypeOK'
  <2>1. /\ pc[c] \in {"init", "call"} /\ nextId' = nextId + 1
        /\ id' = [id EXCEPT ![c] = nextId] /\ pending' = pending \cup {nextId}
        /\ pc' = [pc EXCEPT ![c] = IF pc[c] = "init" THEN "initSend" ELSE "callSend"]
        /\ spot' = [spot EXCEPT ![c] = "queued"]
        /\ UNCHANGED <<lock, inbox, tail, pipe, process, reader>>
    BY <1>2 DEF CPrepare, Prepare, DrawId, Goto, At
  <2>2. nextId > 0
    BY DEF CInv, ClientInv, IdInv
  <2>3. pending' \subseteq 1 .. nextId' - 1
    BY <2>1, <2>2
  <2> QED
    BY <2>1, <2>3 DEF Timeable, process
<1>3. ASSUME NEW c \in Caller, Acquire(c) PROVE CTypeOK'
  BY <1>3 DEF Acquire, At, Timeable, process, vars
<1>4. ASSUME NEW c \in Caller, WriteStarts(c) PROVE CTypeOK'
  BY <1>4 DEF WriteStarts, At, Timeable, process, vars
<1>5. ASSUME NEW c \in Caller, WriteEnds(c) PROVE CTypeOK'
  <2>1. /\ UNCHANGED <<nextId, pending, inbox, process, reader>>
        /\ tail' = <<>> /\ lock' = lock \ {c} /\ Len(pipe) < PipeCap
        /\ spot' = [spot EXCEPT ![c] = IF pc[c] = "notify" THEN "out" ELSE "await"]
    BY <1>5 DEF WriteEnds, At, Notifying
  <2>2. pc' = [pc EXCEPT ![c] = pc'[c]] /\ (pc[c] = "notify" => pc'[c] = "flush")
        /\ (pc[c] # "notify" => pc'[c] \in Timeable)
    BY <1>5, WriteEndsMoves
  <2>3. \E m \in Message \cup {NoMessage} : pipe' = Append(pipe, m)
    <3>1. CASE tail = <<c>>
      <4>1. pipe' = Append(pipe, Outgoing(c)) /\ wire' = Append(wire, Outgoing(c))
        BY <1>5, <3>1 DEF WriteEnds
      <4>2. Outgoing(c) \in Message
        BY DEF Outgoing, Method, Notifying, Message
      <4> QED
        BY <4>1, <4>2
    <3>2. CASE tail # <<c>>
      BY <1>5, <3>2 DEF WriteEnds
    <3> QED
      BY <3>1, <3>2
  <2>4. pipe' \in Seq(Message \cup {NoMessage}) /\ Len(pipe') <= PipeCap
    BY <2>1, <2>3, PipeAssumption
  <2> QED
    BY <2>1, <2>2, <2>4 DEF process, Timeable
<1>6. ASSUME NEW c \in Caller, Departs(c) PROVE CTypeOK'
  BY <1>6 DEF Departs, Timeable, process
<1>7. ASSUME NEW c \in Caller, ReceivesVersion(c) PROVE CTypeOK'
  BY <1>7 DEF ReceivesVersion, ServerInitializes, Goto, Timeable, process
<1>8. CASE CShutdown
  BY <1>8 DEF CShutdown, ShutdownTransport, stdio, process
<1>9. CASE ChildReads
  <2>1. asked' \subseteq Message
    BY <1>9 DEF ChildReads, Message
  <2>2. pipe' \in Seq(Message \cup {NoMessage}) /\ Len(pipe') <= PipeCap
    BY <1>9, PipeAssumption DEF ChildReads
  <2> QED
    BY <1>9, <2>1, <2>2 DEF ChildReads, vars
<1>10. ASSUME NEW m \in asked, ChildAnswers(m) PROVE CTypeOK'
  <2>1. PICK says \in Says(m.method) : answers' = Append(answers, [id |-> m.id, says |-> says])
    BY <1>10 DEF ChildAnswers
  <2>2. m.id \in Nat
    BY DEF Message
  <2>3. [id |-> m.id, says |-> says] \in [id : Nat, says : {"version", "other", "error", "result"}]
    BY <2>2 DEF Says
  <2>4. answers' \in Seq([id : Nat, says : {"version", "other", "error", "result"}])
    BY <2>1, <2>3
  <2> QED
    BY <1>10, <2>4 DEF ChildAnswers, stdio, vars
<1>11. CASE ChildLeaves
  BY <1>11 DEF ChildLeaves, stdio, vars
<1>12. CASE ReaderRoutes
  <2> DEFINE Answer == [id : Nat, says : {"version", "other", "error", "result"}]
  <2>1. Head(answers) \in Answer /\ answers' \in Seq(Answer)
    <3>1. answers \in Seq(Answer)
      OBVIOUS
    <3> HIDE DEF Answer
    <3> QED
      BY <1>12, <3>1 DEF ReaderRoutes
  <2>2. Head(answers).says \in {"version", "other", "error", "result"}
    BY <2>1
  <2>3. inbox' \in [Caller -> SUBSET {"version", "other", "error", "result", "lost"}]
    BY <1>12, <2>2 DEF ReaderRoutes
  <2> QED
    BY <1>12, <2>1, <2>3 DEF ReaderRoutes, vars
<1>13. CASE ReaderEnds
  <2>1. inbox' \in [Caller -> SUBSET {"version", "other", "error", "result", "lost"}]
    BY <1>13 DEF ReaderEnds
  <2> QED
    BY <1>13, <2>1 DEF ReaderEnds, process, vars
<1>14. CASE UNCHANGED cvars
  BY <1>14 DEF cvars, stdio, process, vars
<1> QED
  BY <1>1, <1>2, <1>3, <1>4, <1>5, <1>6, <1>7, <1>8, <1>9, <1>10, <1>11, <1>12, <1>13, <1>14,
     CStepCases

LEMMA MutexStep == CInv /\ [CNext]_cvars => MutexInv'
<1> SUFFICES ASSUME CInv, [CNext]_cvars PROVE MutexInv'
  OBVIOUS
<1>0. CTypeOK /\ MutexInv /\ pc \in [Caller -> Places]
  BY DEF CInv, CTypeOK, TypeOK
<1> USE <1>0 DEF CTypeOK, MutexInv
<1>1. ASSUME NEW c \in Caller, MovesOutside(c) PROVE MutexInv'
  BY <1>1 DEF MovesOutside, InTransport, Timeable, stdio, process
<1>2. ASSUME NEW c \in Caller, CPrepare(c) PROVE MutexInv'
  BY <1>2 DEF CPrepare, Prepare, Goto, At, Timeable
<1>3. ASSUME NEW c \in Caller, Acquire(c) \/ WriteStarts(c) PROVE MutexInv'
  BY <1>3, SMTT(60) DEF Acquire, WriteStarts, LockFree, At, Timeable, vars
<1>4. ASSUME NEW c \in Caller, WriteEnds(c) PROVE MutexInv'
  <2>1. /\ UNCHANGED <<closed, inbox>> /\ lock' = lock \ {c} /\ c \in lock
        /\ spot' = [spot EXCEPT ![c] = IF pc[c] = "notify" THEN "out" ELSE "await"]
        /\ inbox[c] = {} \/ pc[c] # "notify"
    BY <1>4 DEF WriteEnds, At, Notifying
  <2>2. pc' = [pc EXCEPT ![c] = pc'[c]] /\ (pc[c] = "notify" => pc'[c] = "flush")
        /\ (pc[c] # "notify" => pc'[c] \in Timeable)
    BY <1>4, WriteEndsMoves
  <2> QED
    BY <2>1, <2>2 DEF Timeable
<1>5. ASSUME NEW c \in Caller, Departs(c) PROVE MutexInv'
  BY <1>5 DEF Departs
<1>6. ASSUME NEW c \in Caller, ReceivesVersion(c) PROVE MutexInv'
  BY <1>6 DEF ReceivesVersion, ServerInitializes, Goto, Timeable
<1>7. CASE CShutdown
  BY <1>7 DEF CShutdown, ShutdownTransport, LockFree, stdio
<1>8. CASE ChildReads \/ (\E m \in asked : ChildAnswers(m)) \/ ChildLeaves
  BY <1>8 DEF ChildReads, ChildAnswers, ChildLeaves, stdio, vars
<1>9. CASE ReaderRoutes \/ ReaderEnds
  <2>1. \A c \in Caller : inbox'[c] # inbox[c] => spot[c] # "out" /\ pc[c] # "notify"
    BY <1>9 DEF ReaderRoutes, ReaderEnds, Addressee, Registered, Notifying
  <2> QED
    BY <1>9, <2>1 DEF ReaderRoutes, ReaderEnds, vars
<1>10. CASE UNCHANGED cvars
  BY <1>10 DEF cvars, stdio, process, vars
<1> QED
  BY <1>1, <1>2, <1>3, <1>4, <1>5, <1>6, <1>7, <1>8, <1>9, <1>10, CStepCases

-----------------------------------------------------------------------------
(* Where messages and answers come from.                                   *)

\* The wire and the set of accepted handshakes only grow.
LEMMA Grows ==
  ASSUME CInv, [CNext]_cvars
  PROVE  /\ \A i \in DOMAIN wire : i \in DOMAIN wire' /\ wire'[i] = wire[i]
         /\ \A i \in Requests : i \in Requests'
         /\ accepted \subseteq accepted'
         /\ \A ident, says : \A i \in Requests :
              AnswersRequest(ident, says, i) => AnswersRequest(ident, says, i)'
<1>0. CTypeOK /\ wire \in Seq(Message)
  BY DEF CInv, CTypeOK, TypeOK
<1>1. wire' = wire \/ \E m \in Message : wire' = Append(wire, m)
  <2>1. ASSUME NEW c \in Caller, WriteEnds(c)
        PROVE  wire' = wire \/ \E m \in Message : wire' = Append(wire, m)
    BY <1>0, <2>1, WriteEndsSends, SendAdds DEF vars, CTypeOK
  <2> QED
    BY <1>0, <2>1, CStepCases DEF MovesOutside, CPrepare, Prepare, Acquire, WriteStarts, Departs,
       ReceivesVersion, ServerInitializes, CShutdown, ShutdownTransport, ChildReads, ChildAnswers,
       ChildLeaves, ReaderRoutes, ReaderEnds, cvars, vars
<1>2. accepted \subseteq accepted'
  BY <1>0, CStepCases DEF MovesOutside, CPrepare, Acquire, WriteStarts, WriteEnds, Departs,
     ReceivesVersion, CShutdown, ChildReads, ChildAnswers,
     ChildLeaves, ReaderRoutes, ReaderEnds, cvars, process
<1>3. \A i \in DOMAIN wire : i \in DOMAIN wire' /\ wire'[i] = wire[i]
  BY <1>0, <1>1, AppendFacts
<1>4. \A i \in Requests : i \in Requests'
  BY <1>3 DEF Requests, Sent
<1>5. \A i \in Requests : i \in DOMAIN wire
  BY DEF Requests, Sent
<1> QED
  BY <1>2, <1>3, <1>4, <1>5 DEF AnswersRequest

LEMMA OriginStep == CInv /\ [CNext]_cvars => OriginInv'
<1> SUFFICES ASSUME CInv, [CNext]_cvars PROVE OriginInv'
  OBVIOUS
<1>0. /\ CTypeOK /\ OriginInv /\ MutexInv /\ wire \in Seq(Message) /\ id \in [Caller -> 0 .. nextId - 1]
      /\ pipe \in Seq(Message \cup {NoMessage}) /\ asked \subseteq Message
      /\ answers \in Seq([id : Nat, says : {"version", "other", "error", "result"}])
  BY DEF CInv, CTypeOK, TypeOK
<1> HIDE DEF Message, NoMessage
<1> DEFINE PipeStems    == \A k \in DOMAIN pipe : pipe[k] = NoMessage \/ \E i \in DOMAIN wire : pipe[k] = wire[i]
           AskedStem    == \A m \in asked : \E i \in Requests : m = wire[i]
           AnswersStem  == \A k \in DOMAIN answers : \E i \in Requests :
                             AnswersRequest(answers[k].id, answers[k].says, i)
           InboxesStem  == \A c \in Caller : \A says \in inbox[c] :
                             says = "lost" \/ \E i \in Requests : AnswersRequest(id[c], says, i)
<1>p. ASSUME pipe' = pipe \/ (pipe' = Tail(pipe) /\ pipe # <<>>) PROVE PipeStems'
  <2>1. \A k \in DOMAIN pipe' : \E j \in DOMAIN pipe : pipe'[k] = pipe[j]
    <3>1. pipe # <<>> => \A k \in DOMAIN Tail(pipe) : k + 1 \in DOMAIN pipe /\ Tail(pipe)[k] = pipe[k + 1]
      BY <1>0, TailFacts
    <3> QED
      BY <1>p, <3>1
  <2> QED
    BY <2>1, <1>0, Grows DEF OriginInv
<1>q. ASSUME asked' = asked PROVE AskedStem'
  <2>1. \A i \in Requests : i \in DOMAIN wire
    BY DEF Requests, Sent
  <2> QED
    BY <1>q, <1>0, <2>1, Grows DEF OriginInv
<1>r. ASSUME answers' = answers \/ (answers' = Tail(answers) /\ answers # <<>>) PROVE AnswersStem'
  <2>1. \A k \in DOMAIN answers' : \E j \in DOMAIN answers : answers'[k] = answers[j]
    <3>1. answers # <<>> => \A k \in DOMAIN Tail(answers) :
                              k + 1 \in DOMAIN answers /\ Tail(answers)[k] = answers[k + 1]
      BY <1>0, TailFacts
    <3> QED
      BY <1>r, <3>1
  <2> HIDE DEF AnswersRequest
  <2> QED
    BY <2>1, <1>0, Grows, SMTT(60) DEF OriginInv
<1>s. ASSUME \A c \in Caller : inbox'[c] = {} \/ inbox'[c] = {"lost"} \/ (inbox'[c] = inbox[c] /\ id'[c] = id[c])
      PROVE  InboxesStem'
  BY <1>s, <1>0, Grows DEF OriginInv
<1>1. ASSUME NEW c \in Caller,
             MovesOutside(c) \/ CPrepare(c) \/ Acquire(c) \/ WriteStarts(c) \/ Departs(c)
               \/ ReceivesVersion(c) \/ CShutdown
      PROVE  OriginInv'
  <2>1. UNCHANGED <<pipe, asked, answers>>
    BY <1>1 DEF MovesOutside, CPrepare, Acquire, WriteStarts, Departs, ReceivesVersion, CShutdown,
       stdio, process
  <2>2. \A d \in Caller : inbox'[d] = {} \/ (inbox'[d] = inbox[d] /\ id'[d] = id[d])
    <3>1. CASE CPrepare(c)
      <4>1. inbox[c] = {}
        BY <1>0, <3>1 DEF CPrepare, Prepare, CTypeOK, MutexInv, Timeable
      <4> QED
        BY <1>0, <3>1, <4>1 DEF CPrepare, Prepare, DrawId
    <3>2. CASE ~CPrepare(c)
      BY <1>0, <1>1, <3>2 DEF MovesOutside, Acquire, WriteStarts, Departs, ReceivesVersion,
         ServerInitializes, CShutdown, ShutdownTransport, stdio, vars, CTypeOK
    <3> QED
      BY <3>1, <3>2
  <2> QED
    BY <1>p, <1>q, <1>r, <1>s, <2>1, <2>2 DEF OriginInv
<1>2. ASSUME NEW c \in Caller, WriteEnds(c) PROVE OriginInv'
  <2>1. UNCHANGED <<asked, answers, inbox, id>>
    BY <1>2 DEF WriteEnds, process
  <2>2. PipeStems'
    <3>1. CASE tail = <<c>>
      <4>1. pipe' = Append(pipe, Outgoing(c)) /\ wire' = Append(wire, Outgoing(c))
        BY <1>2, <3>1 DEF WriteEnds
      <4>2. Outgoing(c) \in Message
        BY <1>0 DEF Outgoing, Method, Notifying, Message
      <4>3. wire'[Len(wire) + 1] = Outgoing(c) /\ Len(wire) + 1 \in DOMAIN wire'
        BY <1>0, <4>1, <4>2, AppendFacts
      <4>4. \A k \in DOMAIN pipe' : (k \in DOMAIN pipe /\ pipe'[k] = pipe[k]) \/ pipe'[k] = Outgoing(c)
        BY <1>0, <4>1, <4>2
      <4> QED
        BY <1>0, <4>3, <4>4, Grows DEF OriginInv
    <3>2. CASE tail # <<c>>
      <4>1. pipe' = Append(pipe, NoMessage)
        BY <1>2, <3>2 DEF WriteEnds
      <4>2. \A k \in DOMAIN pipe' : (k \in DOMAIN pipe /\ pipe'[k] = pipe[k]) \/ pipe'[k] = NoMessage
        BY <1>0, <4>1
      <4> QED
        BY <1>0, <4>2, Grows DEF OriginInv
    <3> QED
      BY <3>1, <3>2
  <2> QED
    BY <1>q, <1>r, <1>s, <2>1, <2>2 DEF OriginInv
<1>3. CASE ChildReads
  <2>1. pipe # <<>> /\ pipe' = Tail(pipe) /\ UNCHANGED <<answers, inbox, id, wire>>
    BY <1>3 DEF ChildReads, vars
  <2>2. AskedStem'
    <3>1. ASSUME NEW m \in asked', m \notin asked PROVE \E i \in Requests : m = wire[i]
      <4>1. m = Head(pipe) /\ m \in [method : {"initialize", "call"}, id : Nat, from : Caller]
        BY <1>3, <3>1 DEF ChildReads
      <4>2. m.method \in {"initialize", "call"} /\ m # NoMessage
        BY <4>1 DEF NoMessage
      <4>3. \E i \in DOMAIN wire : m = wire[i]
        BY <1>0, <2>1, <4>1, <4>2 DEF OriginInv
      <4> QED
        BY <4>2, <4>3 DEF Requests, Sent
    <3>2. wire' = wire /\ Requests' = Requests
      BY <2>1 DEF Requests, Sent
    <3> QED
      BY <1>0, <3>1, <3>2 DEF OriginInv
  <2> QED
    BY <1>p, <1>r, <1>s, <2>1, <2>2 DEF OriginInv
<1>4. ASSUME NEW m \in asked, ChildAnswers(m) PROVE OriginInv'
  <2>1. UNCHANGED <<pipe, inbox, id, wire>> /\ asked' \subseteq asked
    BY <1>4 DEF ChildAnswers, stdio, vars
  <2>2. PICK says \in Says(m.method) :
          /\ answers' = Append(answers, [id |-> m.id, says |-> says])
          /\ accepted' = IF says = "version" THEN accepted \cup {m.id} ELSE accepted
    BY <1>4 DEF ChildAnswers
  <2>3. PICK i \in Requests : m = wire[i]
    BY <1>0 DEF OriginInv
  <2>4. AnswersRequest(m.id, says, i)'
    BY <2>1, <2>2, <2>3 DEF AnswersRequest, Says
  <2>5. \A k \in DOMAIN answers' : \/ k \in DOMAIN answers /\ answers'[k] = answers[k]
                                   \/ answers'[k].id = m.id /\ answers'[k].says = says
    BY <1>0, <2>2
  <2>6. AnswersStem'
    <3> HIDE DEF AnswersRequest
    <3> QED
      BY <1>0, <2>3, <2>4, <2>5, Grows, ZenonT(60) DEF OriginInv
  <2>7. AskedStem'
    <3>1. Requests' = Requests /\ wire' = wire
      BY <2>1 DEF Requests, Sent
    <3> QED
      BY <1>0, <2>1, <3>1 DEF OriginInv
  <2> QED
    BY <1>p, <1>s, <2>1, <2>6, <2>7 DEF OriginInv
<1>5. CASE ReaderRoutes
  <2>1. UNCHANGED <<pipe, asked, id, wire, accepted>> /\ answers' = Tail(answers) /\ answers # <<>>
        /\ Head(answers) = answers[1] /\ 1 \in DOMAIN answers
    BY <1>0, <1>5 DEF ReaderRoutes, vars
  <2>2. InboxesStem'
    <3>1. ASSUME NEW c \in Caller, NEW says \in inbox'[c], c \in Addressee(Head(answers))
          PROVE  \E i \in Requests : AnswersRequest(id[c], says, i)
      <4>1. says = answers[1].says /\ id[c] = answers[1].id
        BY <1>5, <2>1, <3>1 DEF ReaderRoutes, Addressee, Registered
      <4> QED
        BY <1>0, <2>1, <4>1 DEF OriginInv
    <3>2. ASSUME NEW c \in Caller, c \notin Addressee(Head(answers)) PROVE inbox'[c] = inbox[c]
      BY <1>5, <3>2 DEF ReaderRoutes
    <3> HIDE DEF AnswersRequest
    <3> QED
      BY <1>0, <2>1, <3>1, <3>2, Grows DEF OriginInv
  <2> QED
    BY <1>p, <1>q, <1>r, <2>1, <2>2 DEF OriginInv
<1>6. CASE ReaderEnds \/ ChildLeaves \/ CShutdown \/ UNCHANGED cvars
  <2>1. UNCHANGED <<pipe, asked, answers, id>>
    BY <1>6 DEF ReaderEnds, ChildLeaves, CShutdown, ShutdownTransport, cvars, stdio, process, vars
  <2>2. \A c \in Caller : inbox'[c] = {"lost"} \/ inbox'[c] = inbox[c]
    BY <1>6 DEF ReaderEnds, ChildLeaves, CShutdown, cvars, stdio
  <2> QED
    BY <1>p, <1>q, <1>r, <1>s, <2>1, <2>2 DEF OriginInv
<1> QED
  BY <1>0, <1>1, <1>2, <1>3, <1>4, <1>5, <1>6, CStepCases
-----------------------------------------------------------------------------
(* Nobody disturbs a handshake.                                            *)

\* While one caller is in the handshake every other one is outside the
\* transport: it waits at the gate, or it is done.
LEMMA Alone ==
  ASSUME CTypeOK, GateInv, NEW c \in Caller, NEW d \in Caller, pc[c] \in Handshake, d # c
  PROVE  spot[d] = "out" /\ d \notin lock /\ pc[d] \in {"idle", "gate", "done"}
BY ZenonT(60) DEF CTypeOK, TypeOK, GateInv, Handshake, Timeable, Places

\* The last line on the wire is the initialize of the caller that awaits its
\* answer, and no other request has its id.
LEMMA LastIsOwn ==
  ASSUME CTypeOK, ClientInv, NEW c \in Caller, pc[c] = "initAwait"
  PROVE  /\ Len(wire) \in Requests /\ wire[Len(wire)].method = "initialize"
         /\ wire[Len(wire)].id = id[c]
         /\ \A i \in Requests : wire[i].id = id[c] => i = Len(wire)
<1>1. wire # <<>> /\ wire[Len(wire)].method = "initialize" /\ wire[Len(wire)].id = id[c]
  BY DEF ClientInv, WireInv
<1>2. Len(wire) \in DOMAIN wire
  <2>1. wire \in Seq(Message)
    BY DEF CTypeOK, TypeOK
  <2> HIDE DEF Message
  <2> QED
    BY <1>1, <2>1
<1>3. Len(wire) \in Requests
  BY <1>1, <1>2 DEF Requests, Sent
<1> QED
  BY <1>1, <1>3 DEF ClientInv, IdInv, UniqueIds, Requests

\* An answer with the id of a caller that awaits one comes from that line.
LEMMA AnswerIsOwn ==
  ASSUME CTypeOK, ClientInv, NEW c \in Caller, pc[c] = "initAwait", NEW says,
         NEW i \in Requests, AnswersRequest(id[c], says, i)
  PROVE  says \in {"version", "other", "error"} /\ (says = "version" => id[c] \in accepted)
BY LastIsOwn DEF AnswersRequest, Says

LEMMA QuietStep == CInv /\ [CNext]_cvars => QuietInv'
<1> SUFFICES ASSUME CInv, [CNext]_cvars PROVE QuietInv'
  OBVIOUS
<1>0. /\ CTypeOK /\ ClientInv /\ GateInv /\ QuietInv /\ MutexInv /\ OriginInv
      /\ pc \in [Caller -> Places] /\ id \in [Caller -> 0 .. nextId - 1]
      /\ wire \in Seq(Message) /\ pipe \in Seq(Message \cup {NoMessage})
      /\ answers \in Seq([id : Nat, says : {"version", "other", "error", "result"}])
  BY DEF CInv, ClientInv, CTypeOK, TypeOK
<1> HIDE DEF Message, NoMessage
<1> DEFINE Awaits(c)  == /\ tail = <<>>
                         /\ \A k \in DOMAIN pipe : pipe[k] = wire[Len(wire)] => k = Len(pipe)
                         /\ Reached(c) => pipe = <<>>
           Notifies(c) == /\ lock \subseteq {c} /\ pipe = <<>>
                          /\ tail = IF spot[c] = "writing" THEN <<c>> ELSE <<>>
<1>g. ASSUME \A c \in Caller : /\ pc'[c] = "initAwait" => Awaits(c)'
                               /\ pc'[c] = "notify" => Notifies(c)'
      PROVE  QuietInv'
  BY <1>g DEF QuietInv, NotifyFindsRoom, Notifying
<1>h. \A c \in Caller : /\ pc[c] = "initAwait" => Awaits(c)
                        /\ pc[c] = "notify" => Notifies(c)
  BY <1>0 DEF QuietInv, NotifyFindsRoom, Notifying
<1>a. \A c, d \in Caller : pc[c] \in Handshake /\ d # c =>
        spot[d] = "out" /\ d \notin lock /\ pc[d] \in {"idle", "gate", "done"}
  BY <1>0, Alone
<1>u. ASSUME UNCHANGED <<wire, id, spot, lock, tail, pipe, asked, answers, inbox>>,
             \A d \in Caller : pc'[d] \in {"initAwait", "notify"} => pc'[d] = pc[d]
      PROVE  QuietInv'
  BY <1>g, <1>h, <1>u DEF Reached
<1>1. ASSUME NEW c \in Caller, MovesOutside(c) PROVE QuietInv'
  BY <1>0, <1>u, <1>1 DEF MovesOutside, InTransport, Timeable, stdio, process
<1>2. ASSUME NEW c \in Caller, CPrepare(c) PROVE QuietInv'
  <2>1. \A d \in Caller : pc'[d] \notin {"initAwait", "notify"}
    BY <1>0, <1>2, <1>a DEF CPrepare, Prepare, Goto, Handshake
  <2> QED
    BY <1>g, <2>1
<1>3. ASSUME NEW c \in Caller, Acquire(c) PROVE QuietInv'
  <2>1. pc' = pc /\ UNCHANGED <<wire, id, tail, pipe, asked, answers, inbox>>
        /\ lock = {} /\ lock' = {c} /\ spot[c] = "queued" /\ spot' = [spot EXCEPT ![c] = "locked"]
    BY <1>3 DEF Acquire, LockFree, At, vars, process
  <2>2. \A d \in Caller : pc[d] = "notify" => d = c
    BY <1>a, <2>1 DEF Handshake
  <2> QED
    BY <1>0, <1>g, <1>h, <2>1, <2>2 DEF Reached, CTypeOK
<1>4. ASSUME NEW c \in Caller, WriteStarts(c) PROVE QuietInv'
  <2>1. /\ pc' = pc /\ UNCHANGED <<lock, pipe>> /\ tail' = Append(tail, c)
        /\ spot[c] = "locked" /\ spot' = [spot EXCEPT ![c] = "writing"]
    BY <1>4 DEF WriteStarts, At, vars
  <2>2. \A d \in Caller : pc[d] = "notify" => d = c
    BY <1>a, <2>1 DEF Handshake
  <2>3. \A d \in Caller : pc[d] # "initAwait"
    BY <1>0, <1>a, <2>1 DEF Handshake, MutexInv
  <2> QED
    <3>1. ASSUME pc[c] = "notify" PROVE Notifies(c)'
      <4>1. lock \subseteq {c} /\ pipe = <<>> /\ tail = <<>>
        BY <1>h, <2>1, <3>1
      <4>2. spot'[c] = "writing"
        BY <1>0, <2>1 DEF CTypeOK
      <4> QED
        BY <2>1, <4>1, <4>2
    <3> QED
      BY <1>g, <2>1, <2>2, <2>3, <3>1
<1>5. ASSUME NEW c \in Caller, WriteEnds(c) PROVE QuietInv'
  <2>1. spot[c] = "writing" /\ tail' = <<>> /\ UNCHANGED <<id, inbox, asked, answers>>
    BY <1>5 DEF WriteEnds, process
  <2>2. pc' = [pc EXCEPT ![c] = pc'[c]] /\ (pc[c] = "notify" => pc'[c] = "flush")
        /\ (pc[c] # "notify" => pc'[c] \in Timeable)
    BY <1>5, WriteEndsMoves
  <2>3. \A d \in Caller : pc[d] \in {"initAwait", "notify"} => d = c
    BY <1>a, <2>1 DEF Handshake
  <2>4. \A d \in Caller : pc'[d] # "notify" /\ (pc'[d] = "initAwait" => d = c)
    BY <1>0, <2>2, <2>3 DEF Timeable
  <2>5. ASSUME pc'[c] = "initAwait" PROVE Awaits(c)'
    <3>1. pc[c] # "initAwait"
      BY <1>0, <2>1 DEF MutexInv
    <3>2. tail = <<c>> /\ Send(c) /\ pc[c] = "initSend"
      BY <1>5, <2>5, <3>1, WriteEndsSends, <1>0 DEF vars, Send, SendInitialized, Goto
    <3> DEFINE m == Outgoing(c)
    <3>3. m \in Message /\ m.method = "initialize" /\ m.id = id[c]
      BY <1>0, <3>2 DEF Outgoing, Method, Notifying, Message
    <3>4. pipe' = Append(pipe, m) /\ wire' = Append(wire, m)
      BY <1>5, <3>2 DEF WriteEnds
    <3> HIDE DEF m
    <3>5. wire'[Len(wire')] = m
      BY <1>0, <3>3, <3>4, AppendFacts
    <3>6. \A i \in Requests : wire[i].id # id[c]
      BY <1>0, <3>2 DEF ClientInv, IdInv
    <3>7. m # NoMessage /\ \A i \in DOMAIN wire : wire[i] # m
      BY <3>3, <3>6 DEF Requests, Sent, NoMessage
    <3>8. \A k \in DOMAIN pipe' : pipe'[k] = m => k = Len(pipe')
      <4>1. pipe' \in Seq(Message \cup {NoMessage}) /\ DOMAIN pipe' = 1 .. Len(pipe) + 1
            /\ Len(pipe') = Len(pipe) + 1 /\ Len(pipe) \in Nat /\ DOMAIN pipe = 1 .. Len(pipe)
            /\ \A k \in 1 .. Len(pipe) : pipe'[k] = pipe[k]
        BY <1>0, <3>3, <3>4, AppendFacts
      <4>2. \A k \in DOMAIN pipe : pipe[k] # m
        BY <1>0, <3>7 DEF OriginInv
      <4> QED
        BY <4>1, <4>2
    <3>9. ~Reached(c)'
      <4>1. m \notin asked
        BY <1>0, <3>3, <3>6 DEF OriginInv
      <4>2. \A k \in DOMAIN answers : answers[k].id # id[c]
        BY <1>0, <3>6 DEF OriginInv, AnswersRequest
      <4>3. inbox[c] \ {"lost"} = {}
        BY <1>0, <3>6 DEF OriginInv, AnswersRequest
      <4> QED
        BY <2>1, <3>5, <4>1, <4>2, <4>3 DEF Reached
    <3> QED
      BY <2>1, <3>5, <3>8, <3>9
  <2> QED
    BY <1>g, <2>4, <2>5
<1>6. ASSUME NEW c \in Caller, Departs(c) PROVE QuietInv'
  <2>1. \A d \in Caller : pc'[d] \notin {"initAwait", "notify"}
    BY <1>0, <1>6, <1>a DEF Departs, Handshake
  <2> QED
    BY <1>g, <2>1
<1>7. ASSUME NEW c \in Caller, ReceivesVersion(c) PROVE QuietInv'
  <2>1. /\ pc[c] = "initAwait" /\ pc' = [pc EXCEPT ![c] = "notify"] /\ spot[c] = "await"
        /\ inbox[c] \ {"lost"} # {} /\ spot' = [spot EXCEPT ![c] = "queued"]
        /\ UNCHANGED <<lock, tail, pipe>>
    BY <1>7 DEF ReceivesVersion, ServerInitializes, Goto
  <2>2. \A d \in Caller : pc'[d] # "initAwait" /\ (pc'[d] = "notify" => d = c)
    BY <1>0, <1>a, <2>1 DEF Handshake
  <2>3. pipe = <<>> /\ tail = <<>>
    BY <1>h, <2>1 DEF Reached
  <2>4. lock = {}
    BY <1>0, <1>a, <2>1 DEF CTypeOK, Handshake
  <2> QED
    BY <1>0, <1>g, <2>1, <2>2, <2>3, <2>4 DEF CTypeOK
<1>8. CASE ChildReads
  <2>1. /\ pipe # <<>> /\ pipe' = Tail(pipe) /\ asked' \subseteq asked \cup {Head(pipe)}
        /\ pc' = pc /\ UNCHANGED <<wire, id, spot, lock, tail, answers, inbox>>
    BY <1>8 DEF ChildReads, vars
  <2>2. \A d \in Caller : pc[d] # "notify"
    BY <1>h, <2>1
  <2>3. ASSUME NEW d \in Caller, pc[d] = "initAwait" PROVE Awaits(d)'
    <3>1. Awaits(d) /\ ~Reached(d)
      BY <1>h, <2>1, <2>3
    <3>2. Reached(d)' => Head(pipe) = wire[Len(wire)]
      BY <2>1, <3>1 DEF Reached
    <3>3. Reached(d)' => Len(pipe) = 1
      BY <1>0, <2>1, <3>1, <3>2, TailFacts
    <3>4. Reached(d)' => pipe' = <<>>
      BY <1>0, <2>1, <3>3, TailFacts
    <3>5. \A k \in DOMAIN pipe' : pipe'[k] = wire[Len(wire)] => k = Len(pipe')
      <4>1. \A k \in DOMAIN Tail(pipe) : k + 1 \in DOMAIN pipe /\ Tail(pipe)[k] = pipe[k + 1] /\ k \in Nat
        BY <1>0, <2>1, TailFacts
      <4>2. Len(pipe') = Len(pipe) - 1 /\ Len(pipe) \in Nat
        BY <1>0, <2>1, TailFacts
      <4> QED
        BY <2>1, <3>1, <4>1, <4>2
    <3> QED
      BY <2>1, <3>1, <3>4, <3>5
  <2> QED
    BY <1>g, <2>1, <2>2, <2>3
<1>9. ASSUME NEW m \in asked, ChildAnswers(m) PROVE QuietInv'
  <2>1. PICK says \in Says(m.method) : answers' = Append(answers, [id |-> m.id, says |-> says])
    BY <1>9 DEF ChildAnswers
  <2>2. pc' = pc /\ UNCHANGED <<wire, id, spot, lock, tail, pipe, inbox>> /\ asked' \subseteq asked
    BY <1>9 DEF ChildAnswers, stdio, vars
  <2>3. PICK i \in Requests : m = wire[i]
    BY <1>0 DEF OriginInv
  <2>4. ASSUME NEW d \in Caller, pc[d] = "initAwait", Reached(d)' PROVE Reached(d)
    <3>1. \A k \in DOMAIN answers' : (k \in DOMAIN answers /\ answers'[k] = answers[k])
                                     \/ answers'[k].id = m.id
      BY <1>0, <2>1
    <3>2. m.id = id[d] => m = wire[Len(wire)]
      BY <1>0, <2>3, <2>4, LastIsOwn
    <3> QED
      BY <2>2, <2>4, <3>1, <3>2 DEF Reached
  <2> QED
    BY <1>g, <1>h, <2>2, <2>4
<1>10. CASE ReaderRoutes \/ ReaderEnds
  <2>1. pc' = pc /\ UNCHANGED <<wire, id, spot, lock, tail, pipe, asked>>
    BY <1>10 DEF ReaderRoutes, ReaderEnds, vars, process
  <2>2. ASSUME NEW d \in Caller, Reached(d)' PROVE Reached(d)
    <3>1. CASE ReaderRoutes
      <4>1. answers # <<>> /\ answers' = Tail(answers)
            /\ (inbox'[d] = inbox[d] \/ Head(answers).id = id[d])
        BY <3>1 DEF ReaderRoutes, Addressee, Registered
      <4>2. \A k \in DOMAIN answers' : \E j \in DOMAIN answers : answers'[k] = answers[j]
        BY <1>0, <4>1, TailFacts
      <4>3. \E j \in DOMAIN answers : Head(answers) = answers[j]
        BY <1>0, <4>1, TailFacts
      <4> QED
        BY <2>1, <2>2, <4>1, <4>2, <4>3 DEF Reached
    <3>2. CASE ReaderEnds
      <4>1. answers' = answers /\ inbox'[d] \in {inbox[d], {"lost"}}
        BY <3>2 DEF ReaderEnds, process
      <4> QED
        BY <2>1, <2>2, <4>1 DEF Reached
    <3> QED
      BY <1>10, <3>1, <3>2
  <2> QED
    BY <1>g, <1>h, <2>1, <2>2
<1>11. CASE CShutdown \/ ChildLeaves \/ UNCHANGED cvars
  BY <1>u, <1>11 DEF CShutdown, ShutdownTransport, ChildLeaves, cvars, stdio, process, vars
<1> QED
  BY <1>0, <1>1, <1>2, <1>3, <1>4, <1>5, <1>6, <1>7, <1>8, <1>9, <1>10, <1>11, CStepCases

LEMMA AcceptStep == CInv /\ [CNext]_cvars => AcceptInv'
<1> SUFFICES ASSUME CInv, [CNext]_cvars PROVE AcceptInv'
  OBVIOUS
<1>0. /\ CTypeOK /\ ClientInv /\ GateInv /\ WireInv /\ OriginInv /\ AcceptInv
      /\ pc \in [Caller -> Places] /\ wire \in Seq(Message)
      /\ Len(wire) \in Nat /\ DOMAIN wire = 1 .. Len(wire)
  BY DEF CInv, ClientInv, CTypeOK, TypeOK
<1>w. WireInv'
  BY ClientStep DEF ClientInv
<1> HIDE DEF Message
<1>a. \A c, d \in Caller : pc[c] \in Handshake /\ d # c =>
        spot[d] = "out" /\ d \notin lock /\ pc[d] \in {"idle", "gate", "done"}
  BY <1>0, Alone
<1>1. \/ wire' = wire
      \/ \E c \in Caller, m \in Message :
           /\ WriteEnds(c) /\ wire' = Append(wire, m)
           /\ pc[c] = "notify" <=> m.method = "initialized"
  <2>1. ASSUME NEW c \in Caller, WriteEnds(c), wire' # wire
        PROVE  \E m \in Message : wire' = Append(wire, m) /\ (pc[c] = "notify" <=> m.method = "initialized")
    <3>1. Send(c) \/ SendInitialized(c)
      BY <2>1, WriteEndsSends DEF vars
    <3>2. pc[c] \in {"initSend", "callSend", "notify"}
      BY <3>1 DEF Send, SendInitialized
    <3> QED
      BY <1>0, <3>1, <3>2, SendAdds DEF CTypeOK
  <2> QED
    BY <1>0, <2>1, CStepCases DEF MovesOutside, CPrepare, Prepare, Acquire, WriteStarts, Departs,
       ReceivesVersion, ServerInitializes, CShutdown, ShutdownTransport, ChildReads, ChildAnswers,
       ChildLeaves, ReaderRoutes, ReaderEnds, cvars, vars
<1>2. \A c \in Caller : pc'[c] = "notify" /\ pc[c] # "notify" => ReceivesVersion(c)
  BY <1>0, CStepCases, WriteEndsMoves, ZenonT(60) DEF MovesOutside, InTransport, CPrepare, Prepare, Acquire,
     WriteStarts, Departs, ReceivesVersion, ServerInitializes, CShutdown, ShutdownTransport,
     ChildReads, ChildAnswers, ChildLeaves, ReaderRoutes, ReaderEnds, cvars, vars, Goto, Timeable
<1>3. ASSUME NEW c \in Caller, pc'[c] = "flush", pc[c] # "flush" PROVE WriteEnds(c) /\ pc[c] = "notify"
  <2>1. \E d \in Caller : WriteEnds(d)
    BY <1>0, <1>3, CStepCases, ZenonT(60) DEF MovesOutside, InTransport, CPrepare, Prepare, Acquire, WriteStarts,
       Departs, ReceivesVersion, ServerInitializes, CShutdown, ShutdownTransport, ChildReads,
       ChildAnswers, ChildLeaves, ReaderRoutes, ReaderEnds, cvars, vars, Goto, Timeable
  <2> QED
    BY <1>0, <1>3, <2>1, WriteEndsMoves DEF Timeable
<1>4. negotiated' # negotiated => \E c \in Caller : pc[c] = "flush"
  BY <1>0, CStepCases DEF MovesOutside, CPrepare, Prepare, Acquire, WriteStarts, WriteEnds, Departs,
     ReceivesVersion, ServerInitializes, CShutdown, ShutdownTransport, ChildReads, ChildAnswers,
     ChildLeaves, ReaderRoutes, ReaderEnds, cvars, vars, cell
<1>5. accepted \subseteq accepted' /\ \A i \in DOMAIN wire : i \in DOMAIN wire' /\ wire'[i] = wire[i]
  BY Grows
<1>6. ASSUME NEW c \in Caller, pc'[c] = "notify" PROVE (wire[Len(wire)].id \in accepted)'
  <2>1. CASE pc[c] = "notify"
    <3>1. wire' = wire
      BY <1>1, <1>6, <1>a, <2>1, WriteEndsMoves, <1>0 DEF WriteEnds, Handshake
    <3> QED
      BY <1>0, <1>5, <2>1, <3>1 DEF AcceptInv
  <2>2. CASE pc[c] # "notify"
    <3>1. /\ pc[c] = "initAwait" /\ UNCHANGED <<wire, accepted>>
          /\ inbox[c] = {"version"} \/ inbox[c] = {"result"}
      BY <1>2, <1>6, <2>2 DEF ReceivesVersion, ServerInitializes, process
    <3>2. PICK says \in inbox[c] : says \in {"version", "result"}
      BY <3>1
    <3>3. PICK i \in Requests : AnswersRequest(id[c], says, i)
      BY <1>0, <3>2 DEF OriginInv
    <3>4. id[c] \in accepted
      BY <1>0, <3>1, <3>2, <3>3, AnswerIsOwn
    <3> QED
      BY <1>0, <3>1, <3>4, LastIsOwn
  <2> QED
    BY <2>1, <2>2
<1>7. ASSUME NEW c \in Caller, pc'[c] = "flush" PROVE (wire[Len(wire) - 1].id \in accepted)'
  <2>1. CASE pc[c] = "flush"
    <3>1. wire' = wire
      BY <1>0, <1>1, <1>7, <1>a, <2>1 DEF WriteEnds, Handshake, CTypeOK, Timeable
    <3> QED
      BY <1>0, <1>5, <2>1, <3>1 DEF AcceptInv
  <2>2. CASE pc[c] # "flush"
    <3>1. WriteEnds(c) /\ pc[c] = "notify"
      BY <1>3, <1>7, <2>2
    <3>2. PICK m \in Message : wire' = Append(wire, m)
      <4>1. Send(c) \/ SendInitialized(c)
        BY <1>7, <2>2, <3>1, WriteEndsSends DEF vars
      <4> QED
        BY <1>0, <4>1, SendAdds DEF CTypeOK
    <3>3. wire # <<>> /\ wire[Len(wire)].id \in accepted
      BY <1>0, <3>1 DEF WireInv, AcceptInv
    <3>4. Len(wire') - 1 = Len(wire) /\ Len(wire) \in DOMAIN wire
      BY <1>0, <3>2, <3>3, AppendFacts
    <3> QED
      BY <1>5, <3>3, <3>4
  <2> QED
    BY <2>1, <2>2
<1>8. ASSUME negotiated # None PROVE AcceptedBeforeCalls'
  <2>1. PICK k \in Sent("initialized") :
          /\ k > 1 /\ wire[k - 1].method = "initialize" /\ wire[k - 1].id \in accepted
          /\ \A i \in Sent("call") : k < i
    BY <1>0, <1>8 DEF AcceptInv, AcceptedBeforeCalls
  <2>2. k \in 1 .. Len(wire) /\ k - 1 \in DOMAIN wire
    BY <1>0, <2>1 DEF Sent
  <2>3. \A i \in DOMAIN wire' : i \in DOMAIN wire \/ i = Len(wire) + 1
    BY <1>0, <1>1, AppendFacts
  <2>4. \A i \in Sent("call")' : k < i
    BY <1>0, <1>5, <2>1, <2>2, <2>3 DEF Sent
  <2> QED
    BY <1>5, <2>1, <2>2, <2>4 DEF AcceptedBeforeCalls, Sent
<1>9. ASSUME negotiated = None, negotiated' # None PROVE AcceptedBeforeCalls'
  <2>1. PICK c \in Caller : pc[c] = "flush"
    BY <1>4, <1>9
  <2>2. wire' = wire
    BY <1>0, <1>1, <1>a, <2>1 DEF WriteEnds, Handshake, CTypeOK, Timeable
  <2>3. wire # <<>> /\ wire[Len(wire)].method = "initialized" /\ wire[Len(wire) - 1].id \in accepted
    BY <1>0, <2>1 DEF WireInv, AcceptInv
  <2>4. Len(wire) \in Sent("initialized")
    BY <1>0, <2>3 DEF Sent
  <2>5. Len(wire) > 1 /\ wire[Len(wire) - 1].method = "initialize"
    BY <1>0, <2>4 DEF WireInv, HandshakesDoNotOverlap
  <2>6. Sent("call") = {} /\ Sent("call")' = {}
    BY <1>0, <1>9, <2>2 DEF WireInv, Sent
  <2> QED
    BY <1>5, <2>2, <2>3, <2>4, <2>5, <2>6 DEF AcceptedBeforeCalls, Sent
<1>10. ASSUME negotiated' = None PROVE AcceptedBeforeCalls'
  BY <1>w, <1>10 DEF WireInv, AcceptedBeforeCalls
<1> QED
  BY <1>6, <1>7, <1>8, <1>9, <1>10 DEF AcceptInv

-----------------------------------------------------------------------------
(* What holds in every state.                                              *)

LEMMA CInvAlways == CSpec => []CInv
<1>1. CInv /\ [CNext]_cvars => CInv'
  BY CTypeStep, ClientStep, MutexStep, OriginStep, QuietStep, AcceptStep DEF CInv
<1> QED
  BY <1>1, CInvInit, PTL DEF CSpec

\* Client and transport keep the shape of client.rs:18-27 and stdio.rs:31-45
\* together.
THEOREM CTypeCorrect == CSpec => []CTypeOK
BY CInvAlways, PTL DEF CInv

\* The notification under no timeout (client.rs:93-97) never waits for the
\* mutex, for a torn line or for room in the pipe, whatever the pipe holds and
\* however many callers gave up before it.
THEOREM NotifyNeverWaits == CSpec => []NotifyFindsRoom
<1>1. CInv => NotifyFindsRoom
  BY DEF CInv, QuietInv
<1> QED
  BY <1>1, CInvAlways, PTL

\* No call goes out, and no version is believed in (client.rs:52-110), before
\* an initialize the child itself accepted was followed by `initialized`: a late
\* answer to an abandoned handshake never counts for a later one.
THEOREM ServerAccepted == CSpec => []AcceptedBeforeCalls
<1>1. CInv => AcceptedBeforeCalls
  BY DEF CInv, AcceptInv
<1> QED
  BY <1>1, CInvAlways, PTL

\* Torn lines, late answers, a full pipe and a child that leaves change nothing
\* about the client: every behaviour over stdio (stdio.rs) is one of McpClient.
THEOREM OverStdioIsClient == CSpec => ImplementsMcpClient
<1>1. CInit => Init
  BY DEF CInit
<1> QED
  BY <1>1, CStepIsStep, CInvAlways, PTL DEF CSpec, Spec, ImplementsMcpClient
=============================================================================
