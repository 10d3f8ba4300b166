----------------------------- MODULE StdioClient -----------------------------
(***************************************************************************)
(* McpClient over the stdio transport: the handshake of client.rs with     *)
(* each await of StdioTransport's request(), notify() and write_line() a   *)
(* step of its own, so that timeouts, torn lines, late answers, a pipe     *)
(* that fills and a child that exits meet ensure_initialized.  The client  *)
(* stays in the place McpClient knows until its line is with the child.    *)
(* What is left to StdioTransport: a line written in more than two pieces, *)
(* the steps inside drain_pending, the await between a failed write and    *)
(* the removal of its entry, and lines nobody asked for.                   *)
(***************************************************************************)
EXTENDS McpClient

CONSTANT PipeCap  \* whole lines the stdin pipe holds before a write blocks

ASSUME PipeAssumption == PipeCap \in Nat \ {0}

VARIABLES
  spot,     \* each caller: "out" of the transport, "queued" for the stdin
            \* mutex, "locked", "writing" (payload out, newline not), "await"
  lock,     \* callers inside the stdin mutex
  pending,  \* ids in the pending map
  inbox,    \* each caller's oneshot channel: {} or what was sent
  tail,     \* fragments written after the last newline
  pipe,     \* lines the child has not read: messages, or NoMessage
  asked,    \* requests the child has read and not answered
  answers,  \* lines of stdout the reader has not taken: [id, says]
  accepted, \* history: ids of initialize the child answered with a version
            \* the client supports
  child,    \* "running", "gone"
  reader    \* "reading", "stopped"

caller == <<pc, cell, nextId, id, result>>
stdio == <<spot, lock, pending, inbox, tail, pipe>>
process == <<asked, answers, accepted, child>>
cvars == <<vars, stdio, process, reader>>

NoMessage == [method |-> "none"]

CInit ==
  /\ Init
  /\ spot = [c \in Caller |-> "out"]
  /\ lock = {} /\ pending = {}
  /\ inbox = [c \in Caller |-> {}]
  /\ tail = <<>> /\ pipe = <<>>
  /\ asked = {} /\ answers = <<>> /\ accepted = {}
  /\ child = "running"
  /\ reader = "reading"

At(c, place) == spot' = [spot EXCEPT ![c] = place]
Notifying(c) == pc[c] = "notify"

-----------------------------------------------------------------------------
(* A caller in the transport.                                              *)

\* request(): the id is drawn, and its sender registered before anything is
\* written.  The map's lock is awaited between the two (stdio.rs:252); its
\* holders never wait while they hold it, and until the sender is registered
\* nobody else can tell that the id is drawn, so the two are one step.
CPrepare(c) ==
  /\ Prepare(c)
  /\ pending' = pending \cup {id'[c]}
  /\ At(c, "queued")
  /\ UNCHANGED <<lock, inbox, tail, pipe, process, reader>>

\* Mutated form: stdin is not behind a mutex.
NoMutex == TRUE

LockFree == lock = {}

Acquire(c) ==
  /\ spot[c] = "queued" /\ LockFree
  /\ lock' = lock \cup {c}
  /\ At(c, "locked")
  /\ UNCHANGED <<vars, pending, inbox, tail, pipe, process, reader>>

\* Part of the payload fits whatever the pipe holds.
WriteStarts(c) ==
  /\ spot[c] = "locked" /\ ~closed /\ child = "running"
  /\ tail' = Append(tail, c)
  /\ At(c, "writing")
  /\ UNCHANGED <<vars, lock, pending, inbox, pipe, process, reader>>

Method(c) == CASE pc[c] = "initSend" -> "initialize"
               [] pc[c] = "notify"   -> "initialized"
               [] OTHER              -> "call"
Outgoing(c) == [method |-> Method(c), id |-> IF Notifying(c) THEN 0 ELSE id[c], from |-> c]

NextPlace(c) ==
  CASE pc[c] = "initSend" -> "initAwait"
    [] pc[c] = "notify"   -> "flush"
    [] OTHER              -> "callAwait"

\* The line is complete.  Glued to a torn one it is no message, and its caller
\* waits all the same; notify() has returned.
WriteEnds(c) ==
  /\ spot[c] = "writing" /\ child = "running" /\ Len(pipe) < PipeCap
  /\ tail' = <<>>
  /\ lock' = lock \ {c}
  /\ At(c, IF Notifying(c) THEN "out" ELSE "await")
  /\ IF tail = <<c>>
     THEN /\ pipe' = Append(pipe, Outgoing(c))
          /\ wire' = Append(wire, Outgoing(c))
          /\ Goto(c, NextPlace(c))
     ELSE /\ pipe' = Append(pipe, NoMessage)
          /\ UNCHANGED wire
          /\ IF Notifying(c) THEN Goto(c, "flush") ELSE UNCHANGED pc
  /\ UNCHANGED <<cell, nextId, id, result, closed, pending, inbox, process, reader>>

\* Mutated form: a caller that leaves early keeps its guard.
LeaveHolding(c) ==
  /\ At(c, "out")
  /\ inbox' = [inbox EXCEPT ![c] = {}]
  /\ UNCHANGED <<lock, tail, pipe, process, reader>>

\* The caller leaves the transport: its guard and its receiver go.
Leave(c) ==
  /\ At(c, "out")
  /\ lock' = lock \ {c}
  /\ inbox' = [inbox EXCEPT ![c] = {}]
  /\ UNCHANGED <<tail, pipe, process, reader>>

\* stdin was taken, or the child has closed its end: the entry is removed.
WriteFails(c) ==
  /\ spot[c] \in {"locked", "writing"}
  /\ (spot[c] = "locked" /\ closed) \/ child = "gone"
  /\ Finish(c, "transport")
  /\ pending' = IF Notifying(c) THEN pending ELSE pending \ {id[c]}
  /\ Leave(c)

\* The timeout, or the caller's own client: what it wrote stays, and so does
\* its entry in the map.
CTimesOut(c) == TimeOut(c) /\ Leave(c) /\ UNCHANGED pending
CDropped(c)  == spot[c] # "out" /\ Disconnect(c) /\ Leave(c) /\ UNCHANGED pending

\* rx.await completes, and ensure_initialized or invoke goes on.
Receive(c) ==
  /\ spot[c] = "await"
  /\ \/ inbox[c] \in {{"error"}, {"lost"}} /\ ServerRefuses(c) /\ At(c, "out")
     \/ inbox[c] = {"other"} /\ ServerNamesOther(c) /\ At(c, "out")
     \/ inbox[c] \in {{"version"}, {"result"}} /\ ServerReturns(c) /\ At(c, "out")
     \/ inbox[c] \in {{"version"}, {"result"}} /\ ServerInitializes(c) /\ At(c, "queued")
  /\ inbox' = [inbox EXCEPT ![c] = {}]
  /\ UNCHANGED <<lock, pending, tail, pipe, process, reader>>

CEnter(c) == Enter(c) /\ UNCHANGED <<stdio, process, reader>>

\* Steps of the client outside the transport.
CGate(c) ==
  /\ Admit(c) \/ Wake(c) \/ Settle(c)
  /\ UNCHANGED <<stdio, process, reader>>

\* A dropped caller that was not in the transport.
CLeaves(c) ==
  /\ spot[c] = "out" /\ Disconnect(c)
  /\ UNCHANGED <<stdio, process, reader>>

\* shutdown() takes stdin under its mutex.
CShutdown ==
  /\ LockFree
  /\ ShutdownTransport
  /\ UNCHANGED <<stdio, process, reader>>

-----------------------------------------------------------------------------
(* The child and the reader task.                                          *)

ChildReads ==
  /\ child = "running" /\ pipe # <<>>
  /\ pipe' = Tail(pipe)
  /\ asked' = asked \cup ({Head(pipe)} \cap [method : {"initialize", "call"}, id : Nat, from : Caller])
  /\ UNCHANGED <<vars, spot, lock, pending, inbox, tail, answers, accepted, child, reader>>

Says(method) == IF method = "call" THEN {"result", "error"} ELSE {"version", "other", "error"}

\* In any order, and however late.
ChildAnswers(m) ==
  /\ child = "running" /\ m \in asked
  /\ asked' = asked \ {m}
  /\ \E says \in Says(m.method) :
       /\ answers' = Append(answers, [id |-> m.id, says |-> says])
       /\ accepted' = IF says = "version" THEN accepted \cup {m.id} ELSE accepted
  /\ UNCHANGED <<vars, stdio, child, reader>>

ChildLeaves ==
  /\ child = "running"
  /\ child' = "gone"
  /\ UNCHANGED <<vars, stdio, asked, answers, accepted, reader>>

\* Callers whose sender is registered under one of the ids; the senders of
\* dropped callers go nowhere.
Registered(ids) == {c \in Caller : spot[c] # "out" /\ ~Notifying(c) /\ id[c] \in ids}

\* Mutated form: an answer goes to whoever has waited longest.
AddresseeFirst(a) ==
  {c \in Registered(pending) : \A d \in Registered(pending) : id[c] <= id[d]}

Addressee(a) == Registered(pending \cap {a.id})

ReaderRoutes ==
  /\ reader = "reading" /\ answers # <<>>
  /\ LET a == Head(answers) IN
       /\ pending' = pending \ {a.id}
       /\ inbox' = [c \in Caller |-> IF c \in Addressee(a) THEN {a.says} ELSE inbox[c]]
  /\ answers' = Tail(answers)
  /\ UNCHANGED <<vars, spot, lock, tail, pipe, asked, accepted, child, reader>>

\* EOF: everybody registered is failed with a synthetic JSON-RPC error.
ReaderEnds ==
  /\ reader = "reading" /\ answers = <<>> /\ child = "gone"
  /\ reader' = "stopped"
  /\ pending' = {}
  /\ inbox' = [c \in Caller |-> IF c \in Registered(pending) THEN {"lost"} ELSE inbox[c]]
  /\ UNCHANGED <<vars, spot, lock, tail, pipe, process>>

-----------------------------------------------------------------------------
OwnCStep(c) ==
  \/ CPrepare(c) \/ Acquire(c) \/ WriteStarts(c) \/ WriteEnds(c) \/ WriteFails(c)
  \/ Receive(c) \/ CGate(c)

CNext ==
  \/ \E c \in Caller : CEnter(c) \/ OwnCStep(c) \/ CTimesOut(c) \/ CDropped(c) \/ CLeaves(c)
  \/ CShutdown
  \/ ChildReads \/ (\E m \in asked : ChildAnswers(m)) \/ ChildLeaves
  \/ ReaderRoutes \/ ReaderEnds

CSpec == CInit /\ [][CNext]_cvars

\* The runtime polls ready tasks and the timer fires.  The child owes nothing.
CFairness ==
  /\ \A c \in Caller : WF_cvars(OwnCStep(c)) /\ WF_cvars(CTimesOut(c))
  /\ WF_cvars(ReaderRoutes) /\ WF_cvars(ReaderEnds)

CFairSpec == CSpec /\ CFairness

-----------------------------------------------------------------------------
(* Properties.                                                             *)

\* The shape of client and transport together (client.rs:18-27,
\* stdio.rs:31-45): who is in the transport is in a place that calls it, and
\* who holds the mutex is between taking it and the end of its line.
CTypeOK ==
  /\ TypeOK
  /\ spot \in [Caller -> {"out", "queued", "locked", "writing", "await"}]
  /\ inbox \in [Caller -> SUBSET {"version", "other", "error", "result", "lost"}]
  /\ \A c \in Caller :
       /\ spot[c] # "out" <=> pc[c] \in Timeable \cup {"notify"}
       /\ c \in lock <=> spot[c] \in {"locked", "writing"}
  /\ lock \subseteq Caller /\ pending \subseteq 1 .. nextId - 1
  /\ tail \in Seq(Caller)
  /\ pipe \in Seq(Message \cup {NoMessage}) /\ Len(pipe) <= PipeCap
  /\ asked \subseteq Message
  /\ answers \in Seq([id : Nat, says : {"version", "other", "error", "result"}])
  /\ child \in {"running", "gone"} /\ reader \in {"reading", "stopped"}

\* notify() is under no timeout and keeps the OnceCell's permit (client.rs:93-97
\* says the handshake already bounded it).  It needs no timeout: its caller
\* finds the mutex free, the line before it complete, and the pipe empty,
\* because the child has answered the last thing that was written.
NotifyFindsRoom ==
  \A c \in Caller : Notifying(c) =>
    /\ lock \subseteq {c}
    /\ pipe = <<>>
    /\ tail = IF spot[c] = "writing" THEN <<c>> ELSE <<>>

\* The client believes in a handshake only when the server did: the cell is set
\* and calls go out after an `initialized` that follows directly an initialize
\* which the child itself accepted, not one that an earlier caller gave up on.
\* The child here sends no requests of its own: one whose id is that of a
\* pending initialize would be taken for its response, and without a result
\* client.rs:74-79 assumes the advertised version.
AcceptedBeforeCalls ==
  negotiated # None \/ Sent("call") # {} =>
    \E k \in Sent("initialized") :
      /\ k > 1 /\ wire[k - 1].method = "initialize"
      /\ wire[k - 1].id \in accepted
      /\ \A i \in Sent("call") : k < i

\* Over the stdio transport the client does what McpClient says of it: in
\* particular a torn line never makes the server miss an `initialized`, and
\* nothing reaches it after shutdown_transport.
ImplementsMcpClient == Spec
=============================================================================
