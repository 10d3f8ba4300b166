------------------------ MODULE StdioTransportProofs ------------------------
(***************************************************************************)
(* Theorems about StdioTransport, for every set of requests and every      *)
(* bound.                                                                  *)
(***************************************************************************)
EXTENDS StdioTransport, SequenceTheorems, TLAPS

\* One name for every definition a step of the next-state relation opens.
USE DEF Writers, Line, Reply, Fragment, LineKind, ReplyKind, Blank, Empty, Goto

-----------------------------------------------------------------------------
(* Type correctness.                                                       *)

LEMMA TypeInit == Init => TypeOK
<1> SUFFICES ASSUME Init PROVE TypeOK
  OBVIOUS
<1>1. reply \in [Req -> Reply] /\ pc \in [Writers -> {"idle", "done"} \cup Suspended]
  BY DEF Init
<1>2. <<>> \in Seq(Fragment) /\ <<>> \in Seq(Seq(Fragment)) /\ <<>> \in Seq(Line)
  OBVIOUS
<1>3. 0 \in 0 .. MaxStray
  BY BoundAssumption
<1> HIDE DEF Fragment, Line, Reply
<1> QED
  BY <1>1, <1>2, <1>3 DEF Init, TypeOK

LEMMA TypeCaller ==
  ASSUME TypeOK, NEW w \in Writers, CallerStep(w) \/ Cancel(w)
  PROVE  TypeOK'
<1> USE DEF TypeOK, Suspended, Outside, process, readers
<1>1. CASE Acquire(w)
  BY <1>1 DEF Acquire
<1>2. CASE WriteSome(w)
  BY <1>2 DEF WriteSome
<1>3. CASE WriteRest(w)
  <2>1. [id |-> w, whole |-> TRUE] \in Fragment
    OBVIOUS
  <2>2. tail' \in Seq(Fragment)
    <3>1. CASE tail = <<>>
      <4>1. tail' = [i \in 1 .. 0 |-> tail[i]]
        BY <1>3, <3>1 DEF WriteRest
      <4> QED
        BY <4>1
    <3>2. CASE tail # <<>>
      <4>1. Len(tail) \in 1 .. Len(tail)
        BY <3>2
      <4> QED
        BY <1>3, <2>1, <4>1, ExceptSeq DEF WriteRest
    <3> QED
      BY <3>1, <3>2
  <2> HIDE DEF Fragment
  <2> QED
    BY <1>3, <2>2 DEF WriteRest
<1>4. CASE WriteNewline(w)
  BY <1>4 DEF WriteNewline
<1>5. CASE WriteFails(w)
  BY <1>5 DEF WriteFails
<1>6. CASE GiveUp(w)
  BY <1>6 DEF GiveUp, Forget
<1>7. CASE w \in Req /\ Receive(w)
  BY <1>7 DEF Receive
<1>8. CASE Cancel(w)
  BY <1>8 DEF Cancel, Release
<1> QED
  BY <1>1, <1>2, <1>3, <1>4, <1>5, <1>6, <1>7, <1>8 DEF CallerStep

\* The lines a child may emit unasked are lines.
LEMMA StrayIsLine ==
  ASSUME TypeOK, NEW kind \in StrayKinds, NEW line \in Stray(kind)
  PROVE  /\ line \in Line
         /\ kind # "huge" => line.kind # "huge"
         /\ kind # "request" => line.kind # "request"
         /\ line.kind = "response" => line.id \in answered
<1>1. kind \in AllStrayKinds
  BY StrayAssumption
<1> QED
  BY <1>1 DEF Stray, AllStrayKinds, TypeOK

LEMMA TypeStep == TypeOK /\ [Next]_vars => TypeOK'
<1> SUFFICES ASSUME TypeOK, [Next]_vars PROVE TypeOK'
  OBVIOUS
<1> USE DEF TypeOK, callers, process, readers
<1>1. ASSUME NEW r \in Req, Register(r) PROVE TypeOK'
  BY <1>1 DEF Register, Outside, Suspended
<1>2. ASSUME NEW n \in Notes, Notify(n) PROVE TypeOK'
  BY <1>2 DEF Notify, Outside, Suspended
<1>3. ASSUME NEW w \in Writers, CallerStep(w) \/ Cancel(w) PROVE TypeOK'
  BY <1>3, TypeCaller
<1>4. CASE ChildReads
  BY <1>4 DEF ChildReads
<1>5. ASSUME NEW r \in Req, ChildAnswers(r) PROVE TypeOK'
  BY <1>5 DEF ChildAnswers, Emit
<1>6. CASE ChildStrays
  <2>0. PICK kind \in StrayKinds : \E line \in Stray(kind) : Emit(line)
    BY <1>6 DEF ChildStrays
  <2>1. PICK line \in Stray(kind) : Emit(line)
    BY <2>0
  <2>2. line \in Line
    BY StrayIsLine
  <2>3. strays' \in 0 .. MaxStray
    BY <1>6, BoundAssumption DEF ChildStrays
  <2> QED
    BY <1>6, <2>1, <2>2, <2>3 DEF ChildStrays, Emit
<1>7. CASE ChildMutes \/ ChildLeaves \/ ChildGone
  BY <1>7, ZenonT(60) DEF ChildMutes, ChildLeaves, ChildGone
<1>8. CASE ReaderRoutes
  <2>1. PICK r \in Claim(Head(fromChild)) : reply' = Deliver(r, Head(fromChild))
    BY <1>8 DEF ReaderRoutes
  <2>2. Head(fromChild) \in Reply /\ Tail(fromChild) \in Seq(Line)
    <3>1. Head(fromChild) \in Line /\ Tail(fromChild) \in Seq(Line)
      <4> HIDE DEF Line
      <4> QED
        BY <1>8 DEF ReaderRoutes
    <3>2. Head(fromChild).kind \in {"response", "request"}
      BY <2>1 DEF Claim, ParsesAsResponse
    <3> QED
      BY <3>1, <3>2
  <2>3. reply' \in [Req -> Reply]
    BY <2>1, <2>2 DEF Deliver
  <2> HIDE DEF Reply, Line, Fragment
  <2> QED
    BY <1>8, <2>2, <2>3 DEF ReaderRoutes, Unread
<1>9. CASE ReaderIgnores
  BY <1>9 DEF ReaderIgnores, Unread
<1>10. CASE ReaderOverflows \/ ReaderEnds
  BY <1>10 DEF ReaderOverflows, ReaderEnds, TakePending, Unread
<1>11. ASSUME NEW r \in Req, ReaderFails(r) PROVE TypeOK'
  BY <1>11 DEF ReaderFails, Deliver, Unread
<1>12. CASE ReaderStops
  BY <1>12 DEF ReaderStops, Unread
<1>13. CASE Shutdown \/ ShutdownStep \/ DropTransport
  BY <1>13, ZenonT(60) DEF Shutdown, ShutdownStep, ShutdownTakesStdin, ShutdownReaps,
               ShutdownTimesOut, ShutdownKills, DropTransport, Elsewhere
<1>14. CASE UNCHANGED vars
  BY <1>14 DEF vars
<1> QED
  BY <1>1, <1>2, <1>3, <1>4, <1>5, <1>6, <1>7, <1>8, <1>9, <1>10, <1>11,
     <1>12, <1>13, <1>14 DEF Next, ReaderStep

\* The state of a transport keeps its shape (stdio.rs:35-44).
THEOREM TypeCorrect == Spec => []TypeOK
BY TypeInit, TypeStep, PTL DEF Spec

-----------------------------------------------------------------------------
(* The stdin mutex: nothing is written after shutdown took stdin.          *)

\* Only the holder of the mutex is inside write_all, and it found stdin open.
Writing == {"payload", "rest", "newline"}
LockInv ==
  \A w \in Writers : pc[w] \in Writing => w \in stdinLock /\ stdin = "open"

LEMMA LockStep == TypeOK /\ LockInv /\ [Next]_vars => LockInv'
<1> SUFFICES ASSUME TypeOK, LockInv, [Next]_vars PROVE LockInv'
  OBVIOUS
<1> HIDE DEF Line, Reply, Fragment
<1> USE DEF TypeOK, LockInv, Writing, callers, process, readers
<1>1. ASSUME NEW r \in Req, Register(r) PROVE LockInv'
  BY <1>1 DEF Register, Outside
<1>2. ASSUME NEW n \in Notes, Notify(n) PROVE LockInv'
  BY <1>2 DEF Notify, Outside
<1>3. ASSUME NEW w \in Writers, CallerStep(w) \/ Cancel(w) PROVE LockInv'
  BY <1>3, IdAssumption DEF CallerStep, Acquire, LockFree, WriteSome, WriteRest, WriteNewline,
               WriteFails, GiveUp, Receive, Cancel, Release, Suspended, Outside
<1>4. CASE ChildReads \/ ChildStrays \/ ChildMutes \/ ChildLeaves \/ ChildGone
  BY <1>4 DEF ChildReads, ChildStrays, ChildMutes, ChildLeaves, ChildGone
<1>5. ASSUME NEW r \in Req, ChildAnswers(r) PROVE LockInv'
  BY <1>5 DEF ChildAnswers
<1>6. CASE ReaderStep
  BY <1>6 DEF ReaderStep, ReaderRoutes, ReaderIgnores, ReaderOverflows, ReaderEnds,
               ReaderFails, ReaderStops, Unread
<1>7. CASE Shutdown \/ ShutdownStep \/ DropTransport
  BY <1>7 DEF Shutdown, ShutdownStep, ShutdownTakesStdin, LockFree, ShutdownReaps,
               ShutdownTimesOut, ShutdownKills, DropTransport, Elsewhere
<1>8. CASE UNCHANGED vars
  BY <1>8 DEF vars
<1> QED
  BY <1>1, <1>2, <1>3, <1>4, <1>5, <1>6, <1>7, <1>8 DEF Next

\* Once shutdown has taken stdin no byte follows, for any number of writers.
THEOREM ClosedStaysClosed == Spec => NoWriteAfterClose
<1>1. Init => LockInv
  BY DEF Init, LockInv, Writing
<1>2. TypeOK /\ LockInv /\ [Next]_vars
        => [stdin = "taken" => tail' = tail /\ Len(lines') <= Len(lines)]_vars
  <2> SUFFICES ASSUME TypeOK, LockInv, Next, stdin = "taken"
               PROVE  tail' = tail /\ Len(lines') <= Len(lines)
    BY DEF vars
  <2> HIDE DEF Line, Reply, Fragment
  <2>0. Len(lines) \in Nat /\ (lines # <<>> => Len(Tail(lines)) <= Len(lines))
    BY DEF TypeOK
  <2>1. CASE tail' = tail /\ (lines' = lines \/ (lines # <<>> /\ lines' = Tail(lines)))
    BY <2>0, <2>1
  <2>2. ASSUME NEW w \in Writers PROVE ~(WriteSome(w) \/ WriteRest(w) \/ WriteNewline(w))
    BY DEF LockInv, Writing, WriteSome, WriteRest, WriteNewline
  <2>3. ASSUME NEW w \in Writers, CallerStep(w) \/ Cancel(w)
        PROVE  tail' = tail /\ lines' = lines
    BY <2>2, <2>3 DEF CallerStep, Acquire, WriteFails, GiveUp, Receive, Cancel
  <2>4. CASE ChildReads
    BY <2>1, <2>4 DEF ChildReads
  <2>5. CASE ~ChildReads
    <3>1. tail' = tail /\ lines' = lines
      BY <2>3, <2>5 DEF Next, Register, Notify, ChildAnswers, ChildStrays, ChildMutes,
         ChildLeaves, ChildGone, ReaderStep, ReaderRoutes, ReaderIgnores, ReaderOverflows,
         ReaderEnds, ReaderFails, ReaderStops, Unread, Shutdown, ShutdownStep,
         ShutdownTakesStdin, ShutdownReaps, ShutdownTimesOut, ShutdownKills,
         DropTransport, Elsewhere, callers
    <3> QED
      BY <2>1, <3>1
  <2> QED
    BY <2>4, <2>5
<1> QED
  BY <1>1, <1>2, TypeInit, TypeStep, LockStep, PTL DEF Spec, NoWriteAfterClose

-----------------------------------------------------------------------------
(* Correlation: a response belongs to the request that receives it.        *)

\* The answers on their way are answers the child gave, and nothing on its
\* way is a request of the server's own.
AnswersGiven ==
  \A i \in 1 .. Len(fromChild) :
    /\ fromChild[i].kind # "request"
    /\ fromChild[i].kind = "response" => fromChild[i].id \in answered

AnswerInv == AnswersGiven /\ OwnAnswer

LEMMA AnswerInit == Init => AnswerInv
BY DEF Init, AnswerInv, AnswersGiven, OwnAnswer

LEMMA AnswerStep ==
  ASSUME "request" \notin StrayKinds, TypeOK, AnswerInv, [Next]_vars
  PROVE  AnswerInv'
<1> HIDE DEF Line, Reply, Fragment
<1> USE DEF AnswerInv, AnswersGiven, OwnAnswer
<1>0. fromChild \in Seq(Line) /\ reply \in [Req -> Reply] /\ pc \in [Writers -> {"idle", "done"} \cup Suspended]
  BY DEF TypeOK
<1>1. CASE UNCHANGED <<reply, fromChild, answered>>
  BY <1>1
<1>2. ASSUME NEW w \in Writers, CallerStep(w) \/ Cancel(w) PROVE AnswerInv'
  BY <1>0, <1>2 DEF CallerStep, Acquire, WriteSome, WriteRest, WriteNewline, WriteFails,
     GiveUp, Receive, Cancel, Outside, process
<1>3. ASSUME NEW r \in Req, ChildAnswers(r) PROVE AnswerInv'
  <2>1. PICK line \in Line : line = [kind |-> "response", id |-> r] /\ Emit(line)
    BY <1>3 DEF ChildAnswers, Line
  <2> QED
    BY <1>0, <1>3, <2>1 DEF ChildAnswers, Emit, callers
<1>4. CASE ChildStrays
  <2>1. PICK kind \in StrayKinds : \E line \in Stray(kind) : Emit(line)
    BY <1>4 DEF ChildStrays
  <2>2. PICK line \in Stray(kind) : Emit(line)
    BY <2>1
  <2>3. line \in Line /\ line.kind # "request" /\ (line.kind = "response" => line.id \in answered)
    BY StrayIsLine
  <2> QED
    BY <1>0, <1>4, <2>2, <2>3 DEF ChildStrays, Emit, callers
<1>5. CASE ReaderRoutes
  <2>1. PICK r \in Claim(Head(fromChild)) : reply' = Deliver(r, Head(fromChild))
    BY <1>5 DEF ReaderRoutes
  <2>2. Head(fromChild) \in Line /\ Head(fromChild) = fromChild[1] /\ 1 \in 1 .. Len(fromChild)
    BY <1>0, <1>5 DEF ReaderRoutes
  <2>3. Head(fromChild).kind = "response" /\ Head(fromChild).id = r /\ r \in answered
    BY <2>1, <2>2 DEF Claim, ParsesAsResponse
  <2>4. Head(fromChild) = [kind |-> "response", id |-> r]
    BY <2>2, <2>3 DEF Line
  <2>5. OwnAnswer'
    BY <1>0, <1>5, <2>1, <2>3, <2>4 DEF Deliver, ReaderRoutes, Unread, process
  <2>6. AnswersGiven'
    BY <1>0, <1>5 DEF ReaderRoutes, Unread, process
  <2> QED
    BY <2>5, <2>6
<1>6. CASE ReaderIgnores
  BY <1>0, <1>6 DEF ReaderIgnores, Unread, process
<1>7. ASSUME NEW r \in Req, ReaderFails(r) PROVE AnswerInv'
  <2>1. cause \notin {"response", "request"}
    BY DEF TypeOK
  <2> QED
    BY <1>0, <1>7, <2>1 DEF ReaderFails, Deliver, Unread, process
<1>8. CASE \/ \E r \in Req : Register(r)
           \/ \E n \in Notes : Notify(n)
           \/ ChildReads \/ ChildMutes \/ ChildLeaves \/ ChildGone
           \/ ReaderOverflows \/ ReaderEnds \/ ReaderStops
           \/ Shutdown \/ ShutdownStep \/ DropTransport
  BY <1>1, <1>8 DEF Register, Notify, Outside, ChildReads, ChildMutes, ChildLeaves, ChildGone,
     ReaderOverflows, ReaderEnds, ReaderStops, Unread, Shutdown, ShutdownStep,
     ShutdownTakesStdin, ShutdownReaps, ShutdownTimesOut, ShutdownKills, DropTransport,
     Elsewhere, callers, process
<1>9. CASE UNCHANGED vars
  BY <1>1, <1>9 DEF vars, callers, process
<1> QED
  BY <1>2, <1>3, <1>4, <1>5, <1>6, <1>7, <1>8, <1>9 DEF Next, ReaderStep

\* A server that sends no requests of its own cannot make a caller receive
\* anything but the answer it gave to that caller's own request.
THEOREM AnswersCorrelate ==
  ASSUME "request" \notin StrayKinds
  PROVE  Spec => []OwnAnswer
<1>1. TypeOK /\ AnswerInv /\ [Next]_vars => AnswerInv'
  BY AnswerStep
<1>2. AnswerInv => OwnAnswer
  BY DEF AnswerInv
<1> QED
  BY <1>1, <1>2, TypeInit, TypeStep, AnswerInit, PTL DEF Spec

-----------------------------------------------------------------------------
(* Draining: nobody waits on a reader that has stopped.                    *)

Registered == {"queued", "payload", "rest", "newline", "await"}

\* A child that keeps stdout as long as stdin, and sends no oversized line,
\* takes the reader down only by exiting: after that no write succeeds, so a
\* caller that waits registered before the map was taken.
DrainInv ==
  /\ ~muted
  /\ \A i \in 1 .. Len(fromChild) : fromChild[i].kind # "huge"
  /\ reader = "reading" => drained = {}
  /\ reader # "reading" => child = "gone" /\ cause # "none"
  /\ \A r \in Req : pc[r] \in Registered /\ reply[r] = Empty => r \in pending \cup drained

DrainedInv == DrainInv /\ NoStrandedCaller

LEMMA DrainInit == Init => DrainedInv
BY IdAssumption DEF Init, DrainedInv, DrainInv, NoStrandedCaller, Registered

LEMMA DrainStep ==
  ASSUME MuteChild = FALSE, "huge" \notin StrayKinds, TypeOK, DrainedInv, [Next]_vars
  PROVE  DrainedInv'
<1> HIDE DEF Line, Reply, Fragment
<1> USE DEF DrainedInv, DrainInv, NoStrandedCaller, Registered
<1>0. fromChild \in Seq(Line) /\ reply \in [Req -> Reply] /\ pc \in [Writers -> {"idle", "done"} \cup Suspended]
  BY DEF TypeOK
<1>1. ASSUME NEW r \in Req, Register(r) PROVE DrainedInv'
  BY <1>0, <1>1 DEF Register, Outside, process, readers
<1>2. ASSUME NEW n \in Notes, Notify(n) PROVE DrainedInv'
  BY <1>0, <1>2, IdAssumption DEF Notify, Outside, process, readers
<1>3. ASSUME NEW w \in Writers, CallerStep(w) \/ Cancel(w) PROVE DrainedInv'
  <2> USE <1>0 DEF Outside, process, readers, CanWrite
  <2>1. CASE Acquire(w)
    BY <2>1 DEF Acquire
  <2>2. CASE WriteSome(w) \/ WriteRest(w) \/ WriteFails(w)
    BY <2>2 DEF WriteSome, WriteRest, WriteFails
  <2>3. CASE WriteNewline(w)
    BY <2>3 DEF WriteNewline
  <2>4. CASE GiveUp(w)
    BY <2>4 DEF GiveUp, Forget
  <2>5. CASE Cancel(w)
    BY <2>5 DEF Cancel
  <2>6. CASE w \in Req /\ Receive(w)
    BY <2>6 DEF Receive
  <2> QED
    BY <1>3, <2>1, <2>2, <2>3, <2>4, <2>5, <2>6 DEF CallerStep
<1>4. CASE ChildReads \/ ChildMutes \/ ChildLeaves \/ ChildGone
  BY <1>4 DEF ChildReads, ChildMutes, ChildLeaves, ChildGone, callers, readers
<1>5. ASSUME NEW r \in Req, ChildAnswers(r) PROVE DrainedInv'
  <2>1. PICK line \in Line : line = [kind |-> "response", id |-> r] /\ Emit(line)
    BY <1>5 DEF ChildAnswers, Line
  <2> QED
    BY <1>0, <1>5, <2>1 DEF ChildAnswers, Emit, callers, readers
<1>6. CASE ChildStrays
  <2>1. PICK kind \in StrayKinds : \E line \in Stray(kind) : Emit(line)
    BY <1>6 DEF ChildStrays
  <2>2. PICK line \in Stray(kind) : Emit(line)
    BY <2>1
  <2>3. line \in Line /\ line.kind # "huge"
    BY StrayIsLine
  <2> QED
    BY <1>0, <1>6, <2>2, <2>3 DEF ChildStrays, Emit, callers, readers
<1>7. CASE ReaderRoutes
  <2>1. PICK r \in Claim(Head(fromChild)) :
          pending' = pending \ {r} /\ reply' = Deliver(r, Head(fromChild))
    BY <1>7 DEF ReaderRoutes
  <2>2. Head(fromChild) # Empty
    BY <2>1 DEF Claim, ParsesAsResponse
  <2>3. \A q \in Req : reply'[q] = Empty => reply[q] = Empty
    BY <1>0, <2>1, <2>2 DEF Deliver
  <2>4. r \in Req /\ (pc[r] # "done" => reply'[r] # Empty)
    BY <1>0, <2>1, <2>2 DEF Deliver, Claim, TypeOK
  <2> QED
    BY <1>0, <1>7, <2>1, <2>3, <2>4 DEF ReaderRoutes, Unread, process, readers
<1>8. CASE ReaderIgnores
  BY <1>0, <1>8 DEF ReaderIgnores, Unread, process, readers
<1>9. CASE ReaderOverflows
  <2>1. Head(fromChild) = fromChild[1] /\ 1 \in 1 .. Len(fromChild)
    BY <1>0, <1>9 DEF ReaderOverflows
  <2> QED
    BY <1>9, <2>1 DEF ReaderOverflows
<1>10. CASE ReaderEnds
  BY <1>0, <1>10 DEF ReaderEnds, TakePending, Unread, process
<1>11. ASSUME NEW r \in Req, ReaderFails(r) PROVE DrainedInv'
  BY <1>0, <1>11 DEF ReaderFails, Deliver, Unread, process
<1>12. CASE ReaderStops
  BY <1>12 DEF ReaderStops, Unread, process
<1>13. CASE Shutdown \/ ShutdownStep \/ DropTransport
  BY <1>13 DEF Shutdown, ShutdownStep, ShutdownTakesStdin, ShutdownReaps, ShutdownTimesOut,
     ShutdownKills, DropTransport, Elsewhere, callers, process, readers
<1>14. CASE UNCHANGED vars
  BY <1>14 DEF vars, callers, process, readers
<1> QED
  BY <1>1, <1>2, <1>3, <1>4, <1>5, <1>6, <1>7, <1>8, <1>9, <1>10, <1>11, <1>12, <1>13,
     <1>14 DEF Next, ReaderStep

\* With such a child a caller that waits will be sent something, whatever the
\* interleaving of registration, writing, exit and draining.
THEOREM NobodyStranded ==
  ASSUME MuteChild = FALSE, "huge" \notin StrayKinds
  PROVE  Spec => []NoStrandedCaller
<1>1. TypeOK /\ DrainedInv /\ [Next]_vars => DrainedInv'
  BY DrainStep
<1>2. DrainedInv => NoStrandedCaller
  BY DEF DrainedInv
<1> QED
  BY <1>1, <1>2, TypeInit, TypeStep, DrainInit, PTL DEF Spec
=============================================================================
