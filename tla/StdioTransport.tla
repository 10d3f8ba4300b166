--------------------------- MODULE StdioTransport ---------------------------
(***************************************************************************)
(* The stdio MCP transport (src/mcp/transport/stdio.rs): concurrent        *)
(* callers share one child process.  A caller registers a oneshot sender   *)
(* under its request id, writes one line to the child's stdin under a      *)
(* mutex, and waits.  A reader task matches lines of the child's stdout to *)
(* the registered ids and fails everybody when stdout ends or a line is    *)
(* too long.  shutdown() closes stdin, waits, and kills; Drop kills.       *)
(*                                                                         *)
(* A caller is identified with its request id: McpClient draws ids from    *)
(* one counter (client.rs:47) so no two requests share one.                *)
(***************************************************************************)
EXTENDS Naturals, Sequences

CONSTANTS
  Req,          \* requests a client makes over the life of the transport
  Notes,        \* notifications it sends (no id, nothing awaited)
  NoId,         \* the JSON null id of a synthetic error, and "no id"
  Cancellable,  \* may a caller's future be dropped (timeout, disconnect)?
  MuteChild,    \* may the child close stdout while it still reads stdin?
  StrayKinds,   \* unsolicited lines the child may emit
  MaxStray,     \* how many of them (bound)
  PipeCap,      \* lines the stdin pipe holds before a write blocks
  OutCap        \* lines the stdout pipe holds before the child blocks

Writers == Req \cup Notes
AllStrayKinds == {"duplicate", "request", "notification", "junk", "huge"}

ASSUME IdAssumption   == NoId \notin Writers /\ Req \cap Notes = {}
ASSUME FlagAssumption == Cancellable \in BOOLEAN /\ MuteChild \in BOOLEAN
ASSUME StrayAssumption == StrayKinds \subseteq AllStrayKinds
ASSUME BoundAssumption == MaxStray \in Nat /\ PipeCap \in Nat \ {0} /\ OutCap \in Nat \ {0}

VARIABLES
  pc,         \* where each writer is in request() / notify()
  pending,    \* ids in the pending map
  reply,      \* what each request's channel holds, then what it returned
  stdinLock,  \* writers inside the stdin mutex
  stdin,      \* "open", or "taken" once shutdown or Drop dropped ChildStdin
  tail,       \* fragments written after the last newline
  lines,      \* complete lines the child has not read
  child,      \* "running", "leaving" (stdin closed), "gone" (exited)
  muted,      \* the child closed stdout early
  killed,     \* start_kill was called
  asked,      \* requests the child has read and not answered
  answered,   \* requests the child has answered
  strays,     \* unsolicited lines emitted so far
  fromChild,  \* lines of stdout the reader has not taken
  reader,     \* "reading", "draining", "stopped"
  drained,    \* ids taken out of the map by drain_pending, not yet failed
  cause,      \* the message drain_pending sends
  sd          \* shutdown(): "no", "closing", "waiting", "killing", "done",
              \* and "dropped" once Drop ran

callers == <<pc, pending, reply, stdinLock, tail, lines>>
process == <<child, muted, asked, answered, strays>>
readers == <<reader, drained, cause>>
vars == <<callers, stdin, process, killed, fromChild, readers, sd>>

-----------------------------------------------------------------------------
(* Lines and replies.                                                      *)

LineKind  == {"response", "request", "notification", "junk", "huge"}
ReplyKind == {"none", "response", "request", "exited", "tooLarge", "writeError", "dropped"}
Line      == [kind : LineKind,  id : Req \cup {NoId}]
Reply     == [kind : ReplyKind, id : Req \cup {NoId}]
Fragment  == [id : Writers, whole : BOOLEAN]

Blank(kind) == [kind |-> kind, id |-> NoId]
Empty       == Blank("none")

\* A line parses as a JsonRpcResponse when it carries an id: result and error
\* are optional, so a request of the server's own parses as one too.
ParsesAsResponse(line) == line.kind \in {"response", "request"}

\* What the child makes of a line: one whole message, or nothing it can use.
IsMessage(line, w) == line = <<[id |-> w, whole |-> TRUE]>>

\* oneshot::Sender::send fills the channel unless the receiver is gone.
Deliver(r, m) == [reply EXCEPT ![r] = IF pc[r] = "done" THEN @ ELSE m]

Goto(w, place) == pc' = [pc EXCEPT ![w] = place]

Init ==
  /\ pc = [w \in Writers |-> "idle"]
  /\ pending = {}
  /\ reply = [r \in Req |-> Empty]
  /\ stdinLock = {}
  /\ stdin = "open"
  /\ tail = <<>>
  /\ lines = <<>>
  /\ child = "running"
  /\ muted = FALSE
  /\ killed = FALSE
  /\ asked = {}
  /\ answered = {}
  /\ strays = 0
  /\ fromChild = <<>>
  /\ reader = "reading"
  /\ drained = {}
  /\ cause = "none"
  /\ sd = "no"

-----------------------------------------------------------------------------
(* Callers: request(), notify() and write_line().                          *)

Outside == <<stdin, process, killed, fromChild, readers, sd>>

\* request(): the sender goes into the map before anything is written.
Register(r) ==
  /\ pc[r] = "idle" /\ sd # "dropped"
  /\ pending' = pending \cup {r}
  /\ Goto(r, "queued")
  /\ UNCHANGED <<reply, stdinLock, tail, lines, Outside>>

\* Mutated form: a notification registers a sender too.
NotifyRegisters(n) ==
  /\ pc[n] = "idle" /\ sd # "dropped"
  /\ pending' = pending \cup {n}
  /\ Goto(n, "queued")
  /\ UNCHANGED <<reply, stdinLock, tail, lines, Outside>>

\* notify(): straight to write_line.
Notify(n) ==
  /\ pc[n] = "idle" /\ sd # "dropped"
  /\ Goto(n, "queued")
  /\ UNCHANGED <<pending, reply, stdinLock, tail, lines, Outside>>

\* Mutated form: stdin is not behind a mutex.
NoMutex == TRUE

LockFree == stdinLock = {}

\* write_line: lock stdin; fail at once, without the guard, when ChildStdin was
\* taken.
Acquire(w) ==
  /\ pc[w] = "queued" /\ LockFree
  /\ IF stdin = "open"
     THEN stdinLock' = stdinLock \cup {w} /\ Goto(w, "payload")
     ELSE UNCHANGED stdinLock /\ Goto(w, "broken")
  /\ UNCHANGED <<pending, reply, tail, lines, Outside>>

CanWrite == child = "running" /\ Len(lines) < PipeCap

\* write_all(payload) got some bytes into the pipe.
WriteSome(w) ==
  /\ pc[w] = "payload" /\ CanWrite
  /\ tail' = Append(tail, [id |-> w, whole |-> FALSE])
  /\ Goto(w, "rest")
  /\ UNCHANGED <<pending, reply, stdinLock, lines, Outside>>

\* write_all(payload) finished.
WriteRest(w) ==
  /\ pc[w] = "rest" /\ CanWrite
  /\ tail' = [tail EXCEPT ![Len(tail)] = [id |-> w, whole |-> TRUE]]
  /\ Goto(w, "newline")
  /\ UNCHANGED <<pending, reply, stdinLock, lines, Outside>>

\* write_all(b"\n") and flush; the guard is dropped.
WriteNewline(w) ==
  /\ pc[w] = "newline" /\ CanWrite
  /\ lines' = Append(lines, tail)
  /\ tail' = <<>>
  /\ stdinLock' = stdinLock \ {w}
  /\ Goto(w, IF w \in Req THEN "await" ELSE "done")
  /\ UNCHANGED <<pending, reply, Outside>>

\* A write found the read end of the pipe closed: write_line returns, and the
\* guard is dropped.
WriteFails(w) ==
  /\ pc[w] \in {"payload", "rest", "newline"} /\ child # "running"
  /\ stdinLock' = stdinLock \ {w}
  /\ Goto(w, "broken")
  /\ UNCHANGED <<pending, reply, tail, lines, Outside>>

\* Mutated form: the entry of a failed write stays.
ForgetNothing(w) == pending

\* write_line has returned Err: request() waits for the map's lock, removes its
\* own entry and returns the error.
Forget(w) == pending \ {w}
GiveUp(w) ==
  /\ pc[w] = "broken"
  /\ pending' = Forget(w)
  /\ reply' = IF w \in Req THEN [reply EXCEPT ![w] = Blank("writeError")] ELSE reply
  /\ Goto(w, "done")
  /\ UNCHANGED <<stdinLock, tail, lines, Outside>>

\* rx.await completes.
Receive(r) ==
  /\ pc[r] = "await" /\ reply[r] # Empty
  /\ Goto(r, "done")
  /\ UNCHANGED <<pending, reply, stdinLock, tail, lines, Outside>>

\* Mutated form: the mutex guard of a dropped caller is not dropped.
ReleaseNothing(w) == stdinLock

\* The caller's future is dropped where it is suspended: the mutex guard and
\* the receiver go, what was written stays, and so does the map entry.
Suspended == {"queued", "payload", "rest", "newline", "broken", "await"}
Release(w) == stdinLock \ {w}
Cancel(w) ==
  /\ Cancellable /\ pc[w] \in Suspended
  /\ stdinLock' = Release(w)
  /\ reply' = IF w \in Req THEN [reply EXCEPT ![w] = Blank("dropped")] ELSE reply
  /\ Goto(w, "done")
  /\ UNCHANGED <<pending, tail, lines, Outside>>

CallerStep(w) ==
  \/ Acquire(w) \/ WriteSome(w) \/ WriteRest(w) \/ WriteNewline(w)
  \/ WriteFails(w) \/ GiveUp(w)
  \/ w \in Req /\ Receive(w)

-----------------------------------------------------------------------------
(* The child process, as far as its pipes show.                            *)

ChildReads ==
  /\ child = "running" /\ lines # <<>>
  /\ lines' = Tail(lines)
  /\ asked' = asked \cup {r \in Req : IsMessage(Head(lines), r)}
  /\ UNCHANGED <<pc, pending, reply, stdinLock, stdin, tail, child, muted,
                 killed, answered, strays, fromChild, readers, sd>>

StdoutOpen == child # "gone" /\ ~muted /\ reader # "stopped"
Emit(line) ==
  /\ StdoutOpen /\ Len(fromChild) < OutCap
  /\ fromChild' = Append(fromChild, line)

ChildAnswers(r) ==
  /\ r \in asked
  /\ Emit([kind |-> "response", id |-> r])
  /\ asked' = asked \ {r}
  /\ answered' = answered \cup {r}
  /\ UNCHANGED <<callers, stdin, child, muted, killed, strays, readers, sd>>

\* Lines nobody asked for: a second answer, a request of the server's own
\* (its ids are its own counter, and may collide), a notification, a line
\* that does not parse, a line over MAX_LINE_BYTES.
Stray(kind) ==
  CASE kind = "duplicate" -> [kind : {"response"}, id : answered]
    [] kind = "request"   -> [kind : {"request"}, id : Req]
    [] OTHER              -> {Blank(kind)}

ChildStrays ==
  /\ strays < MaxStray
  /\ \E kind \in StrayKinds : \E line \in Stray(kind) : Emit(line)
  /\ strays' = strays + 1
  /\ UNCHANGED <<callers, stdin, child, muted, killed, asked, answered, readers, sd>>

ChildMutes ==
  /\ MuteChild /\ child = "running" /\ ~muted
  /\ muted' = TRUE
  /\ UNCHANGED <<callers, stdin, child, killed, asked, answered, strays,
                 fromChild, readers, sd>>

\* The child exits (by itself, at EOF of stdin, or killed): the kernel closes
\* stdin (fd 0) before stdout (fd 1); what stdout holds stays readable.
ChildLeaves ==
  /\ child = "running"
  /\ child' = "leaving"
  /\ UNCHANGED <<callers, stdin, muted, killed, asked, answered, strays,
                 fromChild, readers, sd>>

ChildGone ==
  /\ child = "leaving"
  /\ child' = "gone"
  /\ UNCHANGED <<callers, stdin, muted, killed, asked, answered, strays,
                 fromChild, readers, sd>>

-----------------------------------------------------------------------------
(* The reader task.                                                        *)

Unread == <<pc, stdinLock, tail, lines, stdin, process, killed, sd>>

\* Mutated form: a response goes to whoever waits.
ClaimAny(line) == IF ParsesAsResponse(line) THEN pending ELSE {}

\* id_key(line) is in the map: remove the sender and send, under the map lock.
Claim(line) == IF ParsesAsResponse(line) THEN pending \cap {line.id} ELSE {}
ReaderRoutes ==
  /\ reader = "reading" /\ fromChild # <<>>
  /\ \E r \in Claim(Head(fromChild)) :
       /\ pending' = pending \ {r}
       /\ reply' = Deliver(r, Head(fromChild))
  /\ fromChild' = Tail(fromChild)
  /\ UNCHANGED <<Unread, readers>>

\* A notification (broadcast; nothing in the gateway subscribes), a line that
\* does not parse, or an id nobody waits for.
ReaderIgnores ==
  /\ reader = "reading" /\ fromChild # <<>>
  /\ Head(fromChild).kind # "huge" /\ Claim(Head(fromChild)) = {}
  /\ fromChild' = Tail(fromChild)
  /\ UNCHANGED <<pending, reply, Unread, readers>>

\* Mutated form: the reader leaves its loop without draining.
TakeNothing(why) ==
  /\ drained' = {}
  /\ pending' = pending
  /\ cause' = why
  /\ reader' = "draining"

\* drain_pending: take the whole map under its lock, send afterwards.
TakePending(why) ==
  /\ drained' = pending
  /\ pending' = {}
  /\ cause' = why
  /\ reader' = "draining"

ReaderOverflows ==
  /\ reader = "reading" /\ fromChild # <<>>
  /\ Head(fromChild).kind = "huge"
  /\ TakePending("tooLarge")
  /\ UNCHANGED <<fromChild, reply, Unread>>

ReaderEnds ==
  /\ reader = "reading" /\ fromChild = <<>>
  /\ muted \/ child = "gone"
  /\ TakePending("exited")
  /\ UNCHANGED <<fromChild, reply, Unread>>

ReaderFails(r) ==
  /\ reader = "draining" /\ r \in drained
  /\ drained' = drained \ {r}
  /\ reply' = Deliver(r, Blank(cause))
  /\ UNCHANGED <<pending, fromChild, reader, cause, Unread>>

ReaderStops ==
  /\ reader = "draining" /\ drained = {}
  /\ reader' = "stopped"
  /\ UNCHANGED <<pending, reply, fromChild, drained, cause, Unread>>

ReaderStep ==
  \/ ReaderRoutes \/ ReaderIgnores \/ ReaderOverflows \/ ReaderEnds
  \/ (\E r \in Req : ReaderFails(r)) \/ ReaderStops

-----------------------------------------------------------------------------
(* shutdown() and Drop.                                                    *)

Elsewhere == <<callers, process, fromChild, readers>>

Shutdown ==
  /\ sd = "no"
  /\ sd' = "closing"
  /\ UNCHANGED <<stdin, killed, Elsewhere>>

ShutdownTakesStdin ==
  /\ sd = "closing" /\ LockFree
  /\ stdin' = "taken"
  /\ sd' = "waiting"
  /\ UNCHANGED <<killed, Elsewhere>>

ShutdownReaps ==
  /\ sd = "waiting" /\ child = "gone"
  /\ sd' = "done"
  /\ UNCHANGED <<stdin, killed, Elsewhere>>

ShutdownTimesOut ==
  /\ sd = "waiting" /\ child # "gone"
  /\ sd' = "killing"
  /\ UNCHANGED <<stdin, killed, Elsewhere>>

ShutdownKills ==
  /\ sd = "killing"
  /\ killed' = TRUE
  /\ sd' = "done"
  /\ UNCHANGED <<stdin, Elsewhere>>

\* The last Arc goes when no call is in progress: start_kill, then the fields
\* (ChildStdin among them) are dropped.
DropTransport ==
  /\ sd \in {"no", "done"}
  /\ \A w \in Writers : pc[w] \in {"idle", "done"}
  /\ killed' = TRUE
  /\ stdin' = "taken"
  /\ sd' = "dropped"
  /\ UNCHANGED Elsewhere

ShutdownStep ==
  \/ ShutdownTakesStdin \/ ShutdownReaps \/ ShutdownTimesOut \/ ShutdownKills

-----------------------------------------------------------------------------
Next ==
  \/ \E r \in Req : Register(r)
  \/ \E n \in Notes : Notify(n)
  \/ \E w \in Writers : CallerStep(w)
  \/ \E w \in Writers : Cancel(w)
  \/ ChildReads
  \/ \E r \in Req : ChildAnswers(r)
  \/ ChildStrays \/ ChildMutes \/ ChildLeaves \/ ChildGone
  \/ ReaderStep
  \/ Shutdown \/ ShutdownStep \/ DropTransport

Spec == Init /\ [][Next]_vars

(* Fairness.  The runtime keeps polling tasks that are ready, so every step *)
(* of the gateway's own is weakly fair; a killed process does exit.         *)
FairGateway ==
  /\ \A w \in Writers : WF_vars(CallerStep(w))
  /\ WF_vars(ReaderStep)
  /\ WF_vars(ShutdownStep)
  /\ WF_vars(killed /\ ChildLeaves)
  /\ WF_vars(ChildGone)

\* With upstream_timeout_secs > 0 every request's future is dropped in time.
\* A premise of the properties that need it, no part of the specification.
FairTimeouts == \A r \in Req : WF_vars(Cancel(r))

\* Only the gateway's own steps are sure to come.
GatewaySpec == Spec /\ FairGateway
-----------------------------------------------------------------------------
(* Properties.                                                             *)

\* The shape of the state of one transport (stdio.rs:35-44 and its tasks).
TypeOK ==
  /\ pc \in [Writers -> {"idle", "done"} \cup Suspended]
  /\ pending \subseteq Req
  /\ reply \in [Req -> Reply]
  /\ stdinLock \subseteq Writers
  /\ stdin \in {"open", "taken"}
  /\ tail \in Seq(Fragment)
  /\ lines \in Seq(Seq(Fragment))
  /\ child \in {"running", "leaving", "gone"}
  /\ muted \in BOOLEAN /\ killed \in BOOLEAN
  /\ asked \subseteq Req /\ answered \subseteq Req
  /\ strays \in 0 .. MaxStray
  /\ fromChild \in Seq(Line)
  /\ reader \in {"reading", "draining", "stopped"}
  /\ drained \subseteq Req
  /\ cause \in {"none", "exited", "tooLarge"}
  /\ sd \in {"no", "closing", "waiting", "killing", "done", "dropped"}

\* A caller that waits will be sent something: its sender is in the map of a
\* reader that still reads, or among those drain_pending is about to fail
\* ("so callers don't hang forever", stdio.rs:8-9).  It needs the sender to
\* be registered before the line is written, and the child to close stdin
\* before stdout.
NoStrandedCaller ==
  \A r \in Req : pc[r] = "await" /\ reply[r] = Empty =>
    (r \in pending /\ reader = "reading") \/ r \in drained

\* What a caller gets as its response is the answer of the server to its own
\* request ("matches responses to in-flight requests by id", stdio.rs:5-6),
\* however late other answers come and whoever gave up meanwhile, provided the
\* server sends no request of its own: one of an id in flight would pass for it.
OwnAnswer ==
  \A r \in Req : reply[r].kind \in {"response", "request"} =>
    reply[r] = [kind |-> "response", id |-> r] /\ r \in answered

\* The map keeps no sender of a finished call, except of callers that were
\* dropped (a timeout leaves its entry behind, DESIGN.md R11.2).
OnlyAbandonedLeak ==
  \A r \in pending : pc[r] = "done" => reply[r].kind = "dropped"

\* Only a caller that was dropped in the middle of its line spoils one: every
\* line ends in a whole message, and what stands before it, on that line or on
\* the unfinished one of a living child, was left there by dropped callers,
\* whoever else writes, times out or shuts down meanwhile (stdio.rs:186-199).
\* That lines are whole messages without exception (stdio.rs:3-4) is not so.
Spoilt(f) == pc[f.id] = "done" /\ (f.id \in Req => reply[f.id].kind = "dropped")
OnlyDroppedWritersTear ==
  /\ \A i \in DOMAIN lines :
       LET n == Len(lines[i]) IN
         n > 0 /\ lines[i][n].whole /\ \A k \in 1 .. n - 1 : Spoilt(lines[i][k])
  /\ child = "running" => \A k \in DOMAIN tail :
       Spoilt(tail[k]) \/ (k = Len(tail) /\ tail[k].id \in stdinLock)

\* Nothing is written once shutdown has taken stdin, not even by a writer
\* that was in the middle of a line (stdio.rs:166-169, 187-190).
NoWriteAfterClose ==
  [][stdin = "taken" => tail' = tail /\ Len(lines') <= Len(lines)]_vars

\* Once the child has exited or was killed every call ends, with no timer to end
\* it: the answers still in stdout, the drain, the broken pipe and the taken
\* stdin reach whoever is registered, queues, writes or comes late ("so callers
\* don't hang forever", stdio.rs:8-9).  The exceptions are a reader that left
\* before the child did, after an oversized line or when stdout was closed early.
CallsEndWithChild ==
  \A r \in Req :
    (child = "gone" \/ killed) /\ pc[r] # "idle"
      ~> pc[r] = "done" \/ cause = "tooLarge" \/ muted

\* Where requests are timed, shutdown() returns, and the child is then gone or
\* going (stdio.rs:161-184).
ShutdownEndsChild ==
  FairTimeouts =>
    (sd = "closing" ~> (sd \in {"done", "dropped"} /\ child = "gone"))

(* The transport implements the abstract call.                             *)
status ==
  [r \in Req |-> CASE pc[r] = "idle" -> "idle" [] pc[r] = "done" -> "closed"
                   [] OTHER -> "open"]
Abstract(kind) ==
  CASE kind \in {"response", "request"} -> "answer"
    [] kind = "dropped"                 -> "dropped"
    [] OTHER                            -> "error"
result ==
  [r \in Req |-> IF pc[r] = "done" THEN Abstract(reply[r].kind) ELSE "none"]
link ==
  IF reader = "reading" /\ child = "running" /\ stdin = "open" THEN "up" ELSE "down"

Rpc == INSTANCE RpcCall WITH Call <- Req, status <- status, result <- result,
                             served <- answered, link <- link

\* Each call closes once, with its own answer, or with an error after the
\* child, its stdout or stdin was lost, or because its caller gave up.
ImplementsRpcCall == Rpc!Spec

=============================================================================
