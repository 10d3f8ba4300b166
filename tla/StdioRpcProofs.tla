--------------------------- MODULE StdioRpcProofs ---------------------------
(***************************************************************************)
(* More theorems about StdioTransport, for every set of requests and every *)
(* bound: what the map and the pipe are left with when callers give up,    *)
(* and that the transport implements RpcCall.                              *)
(***************************************************************************)
EXTENDS StdioTransportProofs

Places == {"idle", "done"} \cup Suspended

\* The steps that change nothing a caller can see.
Unseen ==
  \/ ChildReads \/ (\E r \in Req : ChildAnswers(r))
  \/ ChildStrays \/ ChildMutes \/ ChildLeaves \/ ChildGone
  \/ ReaderIgnores \/ ReaderStops
  \/ Shutdown \/ ShutdownStep \/ DropTransport
  \/ UNCHANGED vars

\* Every step of the transport is one of these.
LEMMA StepCases ==
  ASSUME [Next]_vars
  PROVE  \/ \E r \in Req : Register(r) \/ Receive(r) \/ ReaderFails(r)
         \/ \E n \in Notes : Notify(n)
         \/ \E w \in Writers : \/ Acquire(w) \/ WriteSome(w) \/ WriteRest(w) \/ WriteNewline(w)
                               \/ WriteFails(w) \/ GiveUp(w) \/ Cancel(w)
         \/ ReaderRoutes \/ ReaderOverflows \/ ReaderEnds
         \/ Unseen
BY DEF Next, CallerStep, ReaderStep, Unseen

\* What the abstract call does not see leaves the callers and the pipe's end alone.
LEMMA UnseenKeeps ==
  ASSUME Unseen
  PROVE  UNCHANGED <<pc, pending, reply, stdinLock, tail, drained, cause>>
BY DEF Unseen, ChildReads, ChildAnswers, ChildStrays, ChildMutes, ChildLeaves, ChildGone,
   ReaderIgnores, ReaderStops, Shutdown, ShutdownStep, ShutdownTakesStdin, ShutdownReaps,
   ShutdownTimesOut, ShutdownKills, DropTransport, Elsewhere, Unread, callers, readers, vars

-----------------------------------------------------------------------------
(* The pending map.                                                        *)

\* Who is in the map, or among those about to be failed, has begun its call;
\* nobody is in both; the channel of a caller in the map is empty.
LeakInv ==
  /\ \A r \in Req : pc[r] = "idle" => reply[r] = Empty
  /\ \A r \in pending \cup drained : pc[r] # "idle"
  /\ pending \cap drained = {}
  /\ \A r \in pending : pc[r] # "done" => reply[r] = Empty
  /\ OnlyAbandonedLeak

LEMMA LeakStep == TypeOK /\ LeakInv /\ [Next]_vars => LeakInv'
<1> SUFFICES ASSUME TypeOK, LeakInv, [Next]_vars PROVE LeakInv'
  OBVIOUS
<1>0. /\ pc \in [Writers -> Places] /\ reply \in [Req -> Reply]
      /\ pending \subseteq Req /\ drained \subseteq Req /\ Req \cap Notes = {}
      /\ Writers = Req \cup Notes
  BY IdAssumption DEF TypeOK, Places, Writers
<1> HIDE DEF Line, Reply, Fragment, Writers
<1> USE <1>0 DEF LeakInv, OnlyAbandonedLeak
<1>1. ASSUME NEW r \in Req, Register(r) PROVE LeakInv'
  BY <1>1 DEF Register, Outside, readers, Goto
<1>2. ASSUME NEW r \in Req, Receive(r) PROVE LeakInv'
  BY <1>2 DEF Receive, Outside, readers, Goto
<1>3. ASSUME NEW r \in Req, ReaderFails(r) PROVE LeakInv'
  BY <1>3 DEF ReaderFails, Deliver, Unread
<1>4. ASSUME NEW n \in Notes, Notify(n) PROVE LeakInv'
  BY <1>4 DEF Notify, Outside, readers, Goto
<1>5. ASSUME NEW w \in Writers,
             Acquire(w) \/ WriteSome(w) \/ WriteRest(w) \/ WriteNewline(w) \/ WriteFails(w)
      PROVE  LeakInv'
  <2>1. UNCHANGED <<pending, drained, reply>>
    BY <1>5 DEF Acquire, WriteSome, WriteRest, WriteNewline, WriteFails, Outside, readers
  <2>2. PICK place \in Places : /\ pc' = [pc EXCEPT ![w] = place]
                                /\ place # "idle" /\ (w \in Req => place # "done")
    <3>1. CASE WriteNewline(w)
      <4>1. \/ w \in Req /\ pc' = [pc EXCEPT ![w] = "await"]
            \/ w \notin Req /\ pc' = [pc EXCEPT ![w] = "done"]
        BY <3>1 DEF WriteNewline, Goto
      <4> QED
        BY <4>1 DEF Places, Suspended
    <3>2. CASE ~WriteNewline(w)
      BY <1>5, <3>2 DEF Acquire, WriteSome, WriteRest, WriteFails, Goto, Places, Suspended
    <3> QED
      BY <3>1, <3>2
  <2>3. pc[w] \notin {"idle", "done"}
    BY <1>5 DEF Acquire, WriteSome, WriteRest, WriteNewline, WriteFails
  <2> QED
    BY <2>1, <2>2, <2>3
<1>6. ASSUME NEW w \in Writers, GiveUp(w) PROVE LeakInv'
  BY <1>6 DEF GiveUp, Forget, Outside, readers, Goto
<1>7. ASSUME NEW w \in Writers, Cancel(w) PROVE LeakInv'
  BY <1>7 DEF Cancel, Outside, readers, Goto, Suspended, Blank
<1>8. CASE ReaderRoutes
  <2>1. PICK r \in Claim(Head(fromChild)) :
          pending' = pending \ {r} /\ reply' = Deliver(r, Head(fromChild))
    BY <1>8 DEF ReaderRoutes
  <2>2. r \in pending
    BY <2>1 DEF Claim
  <2>3. \A q \in Req : q # r \/ pc[q] = "done" => reply'[q] = reply[q]
    BY <2>1 DEF Deliver
  <2> QED
    BY <1>8, <2>1, <2>2, <2>3 DEF ReaderRoutes, Unread, readers
<1>9. CASE ReaderOverflows \/ ReaderEnds
  BY <1>9 DEF ReaderOverflows, ReaderEnds, TakePending, Unread
<1>10. CASE Unseen
  BY <1>10, UnseenKeeps
<1> QED
  BY <1>1, <1>2, <1>3, <1>4, <1>5, <1>6, <1>7, <1>8, <1>9, <1>10, StepCases

\* Whatever is answered, fails, times out or drains in which order, the map
\* keeps no sender of a call that ended by itself (stdio.rs:112-132, 205-256).
THEOREM LeakOnlyAbandoned == Spec => []OnlyAbandonedLeak
<1>1. Init => LeakInv
  BY IdAssumption DEF Init, LeakInv, OnlyAbandonedLeak, Writers
<1>2. LeakInv => OnlyAbandonedLeak
  BY DEF LeakInv
<1> QED
  BY <1>1, <1>2, TypeInit, TypeStep, LeakStep, PTL DEF Spec

-----------------------------------------------------------------------------
(* Torn lines.                                                             *)

\* The mutex has one holder at most, and the holder is inside write_line.
OneWriter ==
  /\ \A w, v \in stdinLock : w = v
  /\ \A w \in Writers : w \in stdinLock <=> pc[w] \in Writing

\* What a living child has of an unfinished line was left by dropped callers,
\* except for the last fragment while its writer is about to finish it.
TailInv ==
  child = "running" =>
    /\ \A k \in DOMAIN tail : Spoilt(tail[k]) \/ (k = Len(tail) /\ pc[tail[k].id] \in {"rest", "newline"})
    /\ \A w \in Writers : pc[w] \in {"rest", "newline"} =>
         /\ tail # <<>> /\ tail[Len(tail)].id = w
         /\ pc[w] = "newline" => tail[Len(tail)].whole

\* A finished line ends in a whole message, after fragments nobody finishes.
Finished(line) ==
  /\ Len(line) > 0 /\ line[Len(line)].whole
  /\ \A k \in 1 .. Len(line) - 1 : Spoilt(line[k])

TearInv == OneWriter /\ TailInv /\ \A i \in DOMAIN lines : Finished(lines[i])

\* A call that ended stays ended, with the outcome it had.
LEMMA DoneStays ==
  ASSUME TypeOK, [Next]_vars, NEW w \in Writers, pc[w] = "done"
  PROVE  pc'[w] = "done" /\ (w \in Req => reply'[w] = reply[w])
<1>0. pc \in [Writers -> Places] /\ reply \in [Req -> Reply]
  BY DEF TypeOK, Places
<1> HIDE DEF Line, Reply, Fragment, Writers
<1>1. pc'[w] = "done"
  BY <1>0, StepCases, UnseenKeeps DEF Register, Receive, ReaderFails, Notify, Acquire, WriteSome,
     WriteRest, WriteNewline, WriteFails, GiveUp, Cancel, ReaderRoutes, ReaderOverflows, ReaderEnds,
     Unread, Goto, Suspended
<1>2. w \in Req => reply'[w] = reply[w]
  BY <1>0, StepCases, UnseenKeeps DEF Register, Receive, ReaderFails, Notify, Acquire, WriteSome,
     WriteRest, WriteNewline, WriteFails, GiveUp, Cancel, ReaderRoutes, ReaderOverflows, ReaderEnds,
     Unread, Deliver, Suspended
<1> QED
  BY <1>1, <1>2

\* Who has given up in the middle of a line will not finish it.
LEMMA SpoiltStays ==
  ASSUME TypeOK, [Next]_vars, NEW f \in Fragment, Spoilt(f)
  PROVE  pc'[f.id] = "done" /\ (f.id \in Req => reply'[f.id].kind = "dropped")
<1>1. f.id \in Writers
  BY DEF Fragment
<1> QED
  BY <1>1, DoneStays DEF Spoilt

\* The line a newline completes.
LEMMA NewLine ==
  ASSUME TypeOK, TearInv, NEW w \in Writers, WriteNewline(w)
  PROVE  /\ Finished(tail) /\ tail[Len(tail)].id = w
         /\ lines' = Append(lines, tail)
<1>1. child = "running" /\ pc[w] = "newline" /\ lines' = Append(lines, tail)
  BY DEF WriteNewline, CanWrite
<1>2. tail # <<>> /\ tail[Len(tail)].id = w /\ tail[Len(tail)].whole
  BY <1>1 DEF TearInv, TailInv
<1>3. tail \in Seq(Fragment)
  BY DEF TypeOK
<1> HIDE DEF Fragment
<1>4. Len(tail) \in Nat \ {0} /\ DOMAIN tail = 1 .. Len(tail)
  BY <1>2, <1>3
<1>5. \A k \in 1 .. Len(tail) - 1 : Spoilt(tail[k])
  BY <1>1, <1>4 DEF TearInv, TailInv
<1> QED
  BY <1>1, <1>2, <1>4, <1>5 DEF Finished

LEMMA OneWriterStep == TypeOK /\ OneWriter /\ [Next]_vars => OneWriter'
<1> SUFFICES ASSUME TypeOK, OneWriter, [Next]_vars PROVE OneWriter'
  OBVIOUS
<1>0. pc \in [Writers -> Places] /\ stdinLock \subseteq Writers /\ Req \subseteq Writers /\ Notes \subseteq Writers
  BY DEF TypeOK, Places, Writers
<1> HIDE DEF Line, Reply, Fragment, Writers
<1> USE <1>0 DEF OneWriter, Writing
<1>1. CASE UNCHANGED <<pc, stdinLock>>
  BY <1>1
<1>2. ASSUME NEW w \in Writers, Acquire(w) PROVE OneWriter'
  BY <1>2 DEF Acquire, LockFree, Goto
<1>3. ASSUME NEW w \in Writers, WriteSome(w) \/ WriteRest(w) PROVE OneWriter'
  BY <1>3 DEF WriteSome, WriteRest, Goto
<1>4. ASSUME NEW w \in Writers, WriteNewline(w) \/ WriteFails(w) \/ GiveUp(w) PROVE OneWriter'
  BY <1>4 DEF WriteNewline, WriteFails, GiveUp, Goto
<1>5. ASSUME NEW w \in Writers, Cancel(w) PROVE OneWriter'
  BY <1>5 DEF Cancel, Release, Suspended, Goto
<1>6. ASSUME NEW r \in Req, Register(r) \/ Receive(r) PROVE OneWriter'
  BY <1>6 DEF Register, Receive, Goto
<1>7. ASSUME NEW n \in Notes, Notify(n) PROVE OneWriter'
  BY <1>7 DEF Notify, Goto
<1>8. CASE (\E r \in Req : ReaderFails(r)) \/ ReaderRoutes \/ ReaderOverflows \/ ReaderEnds \/ Unseen
  BY <1>1, <1>8, UnseenKeeps DEF ReaderFails, ReaderRoutes, ReaderOverflows, ReaderEnds, Unread
<1> QED
  BY <1>2, <1>3, <1>4, <1>5, <1>6, <1>7, <1>8, StepCases

LEMMA TailStep == TypeOK /\ TearInv /\ [Next]_vars => TailInv'
<1> SUFFICES ASSUME TypeOK, TearInv, [Next]_vars, child' = "running" PROVE TailInv'
  BY DEF TailInv
<1>0. /\ pc \in [Writers -> Places] /\ tail \in Seq(Fragment) /\ Req \subseteq Writers /\ Notes \subseteq Writers
      /\ Len(tail) \in Nat /\ DOMAIN tail = 1 .. Len(tail)
      /\ \A k \in DOMAIN tail : tail[k] \in Fragment
      /\ \A f \in Fragment : f.id \in Writers
  <2>1. pc \in [Writers -> Places] /\ tail \in Seq(Fragment) /\ Req \subseteq Writers /\ Notes \subseteq Writers
    BY DEF TypeOK, Places, Writers
  <2>2. \A f \in Fragment : f.id \in Writers
    BY DEF Fragment
  <2> HIDE DEF Fragment
  <2> QED
    BY <2>1, <2>2
<1> HIDE DEF Line, Reply, Fragment, Writers
<1>r. child = "running"
  <2>1. ASSUME NEW w \in Writers, \/ Acquire(w) \/ WriteSome(w) \/ WriteRest(w) \/ WriteNewline(w)
                                  \/ WriteFails(w) \/ GiveUp(w) \/ Cancel(w) \/ Receive(w)
                                  \/ Register(w) \/ Notify(w)
        PROVE  child' = child
    BY <2>1 DEF Acquire, WriteSome, WriteRest, WriteNewline, WriteFails, GiveUp, Cancel, Receive,
       Register, Notify, Outside, process
  <2>2. CASE Unseen
    BY <2>2 DEF Unseen, ChildReads, ChildAnswers, ChildStrays, ChildMutes, ChildLeaves, ChildGone,
       ReaderIgnores, ReaderStops, Shutdown, ShutdownStep, ShutdownTakesStdin, ShutdownReaps,
       ShutdownTimesOut, ShutdownKills, DropTransport, Elsewhere, Unread, callers, process, vars
  <2> QED
    BY <1>0, <2>1, <2>2, StepCases DEF ReaderFails, ReaderRoutes, ReaderOverflows, ReaderEnds, Unread, process
<1>t. /\ \A k \in DOMAIN tail : Spoilt(tail[k]) \/ (k = Len(tail) /\ pc[tail[k].id] \in {"rest", "newline"})
      /\ \A w \in Writers : pc[w] \in {"rest", "newline"} =>
           /\ tail # <<>> /\ tail[Len(tail)].id = w
           /\ pc[w] = "newline" => tail[Len(tail)].whole
  BY <1>r DEF TearInv, TailInv
<1>s. \A f \in Fragment : Spoilt(f) => pc'[f.id] = "done" /\ (f.id \in Req => reply'[f.id].kind = "dropped")
  BY SpoiltStays
<1>u. ASSUME tail' = tail, \A w \in Writers : pc[w] \in {"rest", "newline"} \/ pc'[w] \in {"rest", "newline"}
                                                => pc'[w] = pc[w]
      PROVE  TailInv'
  <2>1. \A k \in DOMAIN tail : Spoilt(tail[k]) => Spoilt(tail[k])'
    BY <1>0, <1>s, <1>u DEF Spoilt
  <2> QED
    BY <1>0, <1>t, <1>u, <2>1 DEF TailInv
<1>1. ASSUME NEW w \in Writers, Acquire(w) \/ GiveUp(w) \/ Register(w) \/ Notify(w) \/ Receive(w)
      PROVE  TailInv'
  <2>1. /\ tail' = tail /\ pc[w] \notin {"rest", "newline"}
        /\ \E place \in Places \ {"rest", "newline"} : pc' = [pc EXCEPT ![w] = place]
    BY <1>1 DEF Acquire, GiveUp, Register, Notify, Receive, Goto, Places, Suspended
  <2> QED
    BY <1>0, <1>u, <2>1
<1>2. ASSUME NEW w \in Writers, WriteFails(w) PROVE TailInv'
  BY <1>r, <1>2 DEF WriteFails
<1>3. ASSUME NEW w \in Writers, WriteSome(w) PROVE TailInv'
  <2>1. /\ pc[w] = "payload" /\ pc' = [pc EXCEPT ![w] = "rest"]
        /\ tail' = Append(tail, [id |-> w, whole |-> FALSE])
    BY <1>3 DEF WriteSome, Goto
  <2> DEFINE f == [id |-> w, whole |-> FALSE]
  <2>2. f \in Fragment /\ f.id = w
    BY DEF Fragment
  <2> HIDE DEF f
  <2>3. /\ Len(tail') = Len(tail) + 1 /\ DOMAIN tail' = 1 .. Len(tail) + 1 /\ tail' # <<>>
        /\ tail'[Len(tail) + 1] = f /\ \A k \in DOMAIN tail : tail'[k] = tail[k]
    BY <1>0, <2>1, <2>2, SMTT(60) DEF f
  <2>4. \A v \in Writers : pc[v] \notin {"rest", "newline"}
    BY <2>1 DEF TearInv, OneWriter, Writing
  <2>5. \A k \in DOMAIN tail : Spoilt(tail[k])'
    <3>1. \A k \in DOMAIN tail : Spoilt(tail[k])
      BY <1>0, <1>t, <2>4
    <3> QED
      BY <1>0, <1>s, <2>3, <3>1 DEF Spoilt
  <2> QED
    BY <1>0, <2>1, <2>2, <2>3, <2>4, <2>5 DEF TailInv
<1>4. ASSUME NEW w \in Writers, WriteRest(w) PROVE TailInv'
  <2>1. /\ pc[w] = "rest" /\ pc' = [pc EXCEPT ![w] = "newline"]
        /\ tail' = [tail EXCEPT ![Len(tail)] = [id |-> w, whole |-> TRUE]]
    BY <1>4 DEF WriteRest, Goto
  <2>2. tail # <<>> /\ Len(tail) \in DOMAIN tail
    BY <1>0, <1>t, <2>1
  <2>3. /\ DOMAIN tail' = DOMAIN tail /\ Len(tail') = Len(tail)
        /\ tail'[Len(tail)].id = w /\ tail'[Len(tail)].whole
        /\ \A k \in DOMAIN tail : k # Len(tail) => tail'[k] = tail[k]
    BY <1>0, <2>1, <2>2
  <2>4. tail' # <<>>
    BY <2>2, <2>3
  <2>5. \A v \in Writers : pc[v] \in {"rest", "newline"} => v = w
    BY <1>t, <2>1
  <2>6. \A k \in DOMAIN tail : k # Len(tail) => Spoilt(tail[k])'
    BY <1>0, <1>s, <1>t, <2>3 DEF Spoilt
  <2> QED
    BY <1>0, <2>1, <2>2, <2>3, <2>4, <2>5, <2>6 DEF TailInv
<1>5. ASSUME NEW w \in Writers, WriteNewline(w) PROVE TailInv'
  <2>1. /\ pc[w] = "newline" /\ pc' = [pc EXCEPT ![w] = IF w \in Req THEN "await" ELSE "done"]
        /\ tail' = <<>>
    BY <1>5 DEF WriteNewline, Goto
  <2>2. \A v \in Writers : pc[v] \in {"rest", "newline"} => v = w
    BY <1>t, <2>1
  <2> QED
    BY <1>0, <2>1, <2>2 DEF TailInv
<1>6. ASSUME NEW w \in Writers, Cancel(w) PROVE TailInv'
  <2>1. /\ tail' = tail /\ pc' = [pc EXCEPT ![w] = "done"]
        /\ w \in Req => reply' = [reply EXCEPT ![w] = [kind |-> "dropped", id |-> NoId]]
    BY <1>6 DEF Cancel, Goto, Blank
  <2>2. pc'[w] = "done" /\ (w \in Req => reply'[w].kind = "dropped")
    BY <1>0, <2>1 DEF TypeOK
  <2>3. \A k \in DOMAIN tail : tail[k].id = w => Spoilt(tail[k])'
    BY <2>1, <2>2 DEF Spoilt
  <2>4. \A k \in DOMAIN tail : Spoilt(tail[k]) => Spoilt(tail[k])'
    BY <1>0, <1>s, <2>1 DEF Spoilt
  <2> QED
    BY <1>0, <1>t, <2>1, <2>3, <2>4 DEF TailInv
<1>7. CASE (\E r \in Req : ReaderFails(r)) \/ ReaderRoutes \/ ReaderOverflows \/ ReaderEnds \/ Unseen
  BY <1>u, <1>7, UnseenKeeps DEF ReaderFails, ReaderRoutes, ReaderOverflows, ReaderEnds, Unread
<1> QED
  BY <1>0, <1>1, <1>2, <1>3, <1>4, <1>5, <1>6, <1>7, StepCases

LEMMA LinesStep ==
  ASSUME TypeOK, TearInv, [Next]_vars
  PROVE  \A i \in DOMAIN lines' : Finished(lines[i])'
<1>0. lines \in Seq(Seq(Fragment)) /\ tail \in Seq(Fragment)
  BY DEF TypeOK
<1> HIDE DEF Line, Reply, Fragment, Writers
<1>s. \A f \in Fragment : Spoilt(f) => pc'[f.id] = "done" /\ (f.id \in Req => reply'[f.id].kind = "dropped")
  BY SpoiltStays
<1>1. ASSUME NEW line \in Seq(Fragment), Finished(line)
      PROVE  /\ Len(line) > 0 /\ line[Len(line)].whole
             /\ \A k \in 1 .. Len(line) - 1 : pc'[line[k].id] = "done"
                                              /\ (line[k].id \in Req => reply'[line[k].id].kind = "dropped")
  <2>1. \A k \in 1 .. Len(line) - 1 : line[k] \in Fragment
    OBVIOUS
  <2> QED
    BY <1>1, <1>s, <2>1 DEF Finished
<1>2. ASSUME NEW i \in DOMAIN lines', lines'[i] \in Seq(Fragment), Finished(lines'[i]) PROVE Finished(lines[i])'
  BY <1>1, <1>2 DEF Finished, Spoilt
<1>3. \A i \in DOMAIN lines : lines[i] \in Seq(Fragment) /\ Finished(lines[i])
  BY <1>0 DEF TearInv
<1>4. \/ lines' = lines
      \/ lines # <<>> /\ lines' = Tail(lines)
      \/ \E w \in Writers : WriteNewline(w)
  <2>1. ASSUME NEW w \in Writers, \/ Acquire(w) \/ WriteSome(w) \/ WriteRest(w)
                                  \/ WriteFails(w) \/ GiveUp(w) \/ Cancel(w) \/ Receive(w)
                                  \/ Register(w) \/ Notify(w)
        PROVE  lines' = lines
    BY <2>1 DEF Acquire, WriteSome, WriteRest, WriteFails, GiveUp, Cancel, Receive, Register, Notify
  <2>2. CASE Unseen
    BY <2>2 DEF Unseen, ChildReads, ChildAnswers, ChildStrays, ChildMutes, ChildLeaves, ChildGone,
       ReaderIgnores, ReaderStops, Shutdown, ShutdownStep, ShutdownTakesStdin, ShutdownReaps,
       ShutdownTimesOut, ShutdownKills, DropTransport, Elsewhere, Unread, callers, vars
  <2> QED
    BY <2>1, <2>2, StepCases DEF ReaderFails, ReaderRoutes, ReaderOverflows, ReaderEnds, Unread, Writers
<1>5. CASE lines' = lines
  BY <1>2, <1>3, <1>5
<1>6. CASE lines # <<>> /\ lines' = Tail(lines)
  <2>1. \A i \in DOMAIN lines' : i + 1 \in DOMAIN lines /\ lines'[i] = lines[i + 1]
    BY <1>0, <1>6
  <2> QED
    BY <1>2, <1>3, <2>1
<1>7. ASSUME NEW w \in Writers, WriteNewline(w) PROVE \A i \in DOMAIN lines' : Finished(lines[i])'
  <2>1. Finished(tail) /\ lines' = Append(lines, tail)
    BY <1>7, NewLine
  <2>2. \A i \in DOMAIN lines' : (i \in DOMAIN lines /\ lines'[i] = lines[i]) \/ lines'[i] = tail
    BY <1>0, <2>1
  <2> QED
    BY <1>0, <1>2, <1>3, <2>1, <2>2
<1> QED
  BY <1>4, <1>5, <1>6, <1>7

LEMMA TearAlways == Spec => [](TypeOK /\ TearInv)
<1>1. Init => TearInv
  BY DEF Init, TearInv, OneWriter, TailInv, Writing
<1>2. TypeOK /\ TearInv /\ [Next]_vars => TearInv'
  BY OneWriterStep, TailStep, LinesStep DEF TearInv
<1> QED
  BY <1>1, <1>2, TypeInit, TypeStep, PTL DEF Spec

\* However many writers race for stdin and wherever they are dropped, only a
\* dropped one leaves anything but whole messages behind (stdio.rs:186-199).
THEOREM OnlyTheDroppedTear == Spec => []OnlyDroppedWritersTear
<1>1. TypeOK /\ TearInv => OnlyDroppedWritersTear
  <2> SUFFICES ASSUME TypeOK, TearInv PROVE OnlyDroppedWritersTear
    OBVIOUS
  <2>1. tail \in Seq(Fragment) /\ \A f \in Fragment : f.id \in Writers
    BY DEF TypeOK, Fragment
  <2> HIDE DEF Fragment
  <2>2. \A k \in DOMAIN tail : tail[k].id \in Writers
    BY <2>1
  <2> QED
    BY <2>2 DEF OnlyDroppedWritersTear, TearInv, OneWriter, TailInv, Finished, Writing
<1> QED
  BY <1>1, TearAlways, PTL

-----------------------------------------------------------------------------
(* The transport implements the abstract call.                             *)

\* A caller fails only after something was lost: its write broke on a closed
\* pipe, or the reader has left its loop and says why.
FailInv ==
  /\ \A w \in Writers : pc[w] = "broken" => stdin = "taken" \/ child # "running"
  /\ \A r \in Req : reply[r].kind \in {"exited", "tooLarge"} => reader # "reading"
  /\ reader = "draining" => cause \in {"exited", "tooLarge"}
  /\ \A r \in Req : reply[r].kind \in {"writeError", "dropped"} => pc[r] = "done"
  /\ \A r \in Req : reply[r].kind = "none" => reply[r] = Empty

\* The child sees each request once, and only after its caller wrote it.
OnceInv ==
  /\ \A r \in Req, i \in DOMAIN lines : IsMessage(lines[i], r) =>
       /\ pc[r] \in {"await", "done"} /\ r \notin asked \cup answered
       /\ \A j \in DOMAIN lines : IsMessage(lines[j], r) => j = i
  /\ \A r \in asked \cup answered : pc[r] \in {"await", "done"}
  /\ asked \cap answered = {}

\* What was lost stays lost.
LEMMA LostStays ==
  ASSUME TypeOK, [Next]_vars
  PROVE  /\ stdin = "taken" => stdin' = "taken"
         /\ child # "running" => child' # "running"
         /\ reader # "reading" => reader' # "reading"
         /\ UNCHANGED <<stdin, child, reader>> \/ UNCHANGED <<pc, reply, answered>>
<1>1. ASSUME NEW w \in Writers, \/ Acquire(w) \/ WriteSome(w) \/ WriteRest(w) \/ WriteNewline(w)
                                \/ WriteFails(w) \/ GiveUp(w) \/ Cancel(w) \/ Receive(w)
                                \/ Register(w) \/ Notify(w) \/ ReaderFails(w)
      PROVE  UNCHANGED <<stdin, child, reader>>
  BY <1>1 DEF Acquire, WriteSome, WriteRest, WriteNewline, WriteFails, GiveUp, Cancel, Receive,
     Register, Notify, ReaderFails, Outside, Unread, process, readers
<1>2. CASE ReaderRoutes
  BY <1>2 DEF ReaderRoutes, Unread, process, readers
<1>3. CASE ReaderOverflows \/ ReaderEnds \/ ReaderStops
  BY <1>3 DEF ReaderOverflows, ReaderEnds, ReaderStops, TakePending, Unread, process
<1>4. CASE Unseen
  <2>1. CASE ReaderStops
    BY <1>3, <2>1
  <2>2. CASE ~ReaderStops
    BY <1>4, <2>2 DEF Unseen, ChildReads, ChildAnswers, ChildStrays, ChildMutes, ChildLeaves, ChildGone,
       ReaderIgnores, Shutdown, ShutdownStep, ShutdownTakesStdin, ShutdownReaps, ShutdownTimesOut,
       ShutdownKills, DropTransport, Elsewhere, Unread, callers, process, readers, vars
  <2> QED
    BY <2>1, <2>2
<1> QED
  BY <1>1, <1>2, <1>3, <1>4, StepCases DEF Writers

LEMMA FailStep == TypeOK /\ FailInv /\ [Next]_vars => FailInv'
<1> SUFFICES ASSUME TypeOK, FailInv, [Next]_vars PROVE FailInv'
  OBVIOUS
<1>0. /\ pc \in [Writers -> Places] /\ reply \in [Req -> Reply] /\ Req \subseteq Writers
      /\ \A m \in Reply : m.kind \in ReplyKind
  BY DEF TypeOK, Places, Writers, Reply
<1> HIDE DEF Line, Reply, Fragment, Writers
<1>1. \A w \in Writers : pc'[w] = "broken" => stdin' = "taken" \/ child' # "running"
  <2>1. ASSUME NEW w \in Writers, pc'[w] = "broken", pc[w] # "broken"
        PROVE  stdin = "taken" \/ child # "running"
    BY <1>0, <2>1, StepCases, UnseenKeeps DEF Register, Receive, ReaderFails, Notify, Acquire, WriteSome,
       WriteRest, WriteNewline, WriteFails, GiveUp, Cancel, ReaderRoutes, ReaderOverflows, ReaderEnds,
       Unread, Goto, TypeOK
  <2> QED
    BY <2>1, LostStays DEF FailInv
<1>2. ASSUME NEW r \in Req, reply'[r] # reply[r]
      PROVE  \/ reply'[r].kind \in {"exited", "tooLarge"} /\ reader = "draining" /\ reader' = "draining"
             \/ reply'[r].kind \in {"writeError", "dropped"} /\ pc'[r] = "done"
             \/ reply'[r].kind \in {"response", "request"}
  <2>1. ASSUME NEW w \in Writers, GiveUp(w) \/ Cancel(w)
        PROVE  reply'[r].kind \in {"writeError", "dropped"} /\ pc'[r] = "done"
    BY <1>0, <1>2, <2>1 DEF GiveUp, Cancel, Goto, Blank
  <2>2. ASSUME NEW q \in Req, ReaderFails(q)
        PROVE  reply'[r].kind \in {"exited", "tooLarge"} /\ reader = "draining" /\ reader' = "draining"
    BY <1>0, <1>2, <2>2 DEF ReaderFails, Deliver, Blank, FailInv
  <2>3. ASSUME ReaderRoutes PROVE reply'[r].kind \in {"response", "request"}
    BY <1>0, <1>2, <2>3 DEF ReaderRoutes, Deliver, Claim, ParsesAsResponse
  <2> QED
    BY <1>2, <2>1, <2>2, <2>3, StepCases, UnseenKeeps DEF Register, Receive, Notify, Acquire, WriteSome,
       WriteRest, WriteNewline, WriteFails, ReaderOverflows, ReaderEnds
<1>3. reader' = "draining" => cause' \in {"exited", "tooLarge"}
  <2>1. CASE ReaderOverflows \/ ReaderEnds
    BY <2>1 DEF ReaderOverflows, ReaderEnds, TakePending
  <2>2. CASE ~(ReaderOverflows \/ ReaderEnds)
    <3>1. cause' = cause
      BY <2>2, StepCases, UnseenKeeps DEF Register, Receive, ReaderFails, Notify, Acquire, WriteSome,
         WriteRest, WriteNewline, WriteFails, GiveUp, Cancel, ReaderRoutes, Outside, readers
    <3>2. reader' = reader \/ reader' # "draining"
      BY <2>2, StepCases DEF Register, Receive, ReaderFails, Notify, Acquire, WriteSome,
         WriteRest, WriteNewline, WriteFails, GiveUp, Cancel, ReaderRoutes, Outside, readers,
         Unseen, ChildReads, ChildAnswers, ChildStrays, ChildMutes, ChildLeaves, ChildGone,
         ReaderIgnores, ReaderStops, Shutdown, ShutdownStep, ShutdownTakesStdin, ShutdownReaps,
         ShutdownTimesOut, ShutdownKills, DropTransport, Elsewhere, vars
    <3> QED
      BY <3>1, <3>2 DEF FailInv
  <2> QED
    BY <2>1, <2>2
<1>4. \A r \in Req : pc[r] = "done" => pc'[r] = "done"
  BY <1>0, DoneStays
<1> QED
  BY <1>0, <1>1, <1>2, <1>3, <1>4, LostStays DEF FailInv

LEMMA OnceStep == TypeOK /\ TearInv /\ OnceInv /\ [Next]_vars => OnceInv'
<1> SUFFICES ASSUME TypeOK, TearInv, OnceInv, [Next]_vars PROVE OnceInv'
  OBVIOUS
<1>0. /\ pc \in [Writers -> Places] /\ Req \subseteq Writers /\ Notes \subseteq Writers
      /\ lines \in Seq(Seq(Fragment)) /\ tail \in Seq(Fragment)
      /\ Len(lines) \in Nat /\ DOMAIN lines = 1 .. Len(lines)
  <2>1. /\ pc \in [Writers -> Places] /\ Req \subseteq Writers /\ Notes \subseteq Writers
        /\ lines \in Seq(Seq(Fragment)) /\ tail \in Seq(Fragment)
    BY DEF TypeOK, Places, Writers
  <2> HIDE DEF Fragment
  <2> QED
    BY <2>1
<1> HIDE DEF Line, Reply, Fragment, Writers
<1>p. \A r \in Req : pc[r] \in {"await", "done"} => pc'[r] \in {"await", "done"}
  BY <1>0, StepCases, UnseenKeeps DEF Register, Receive, ReaderFails, Notify, Acquire, WriteSome,
     WriteRest, WriteNewline, WriteFails, GiveUp, Cancel, ReaderRoutes, ReaderOverflows, ReaderEnds,
     Unread, Goto, Suspended
<1>o. \A r \in Req, i \in DOMAIN lines : IsMessage(lines[i], r) =>
        /\ pc[r] \in {"await", "done"} /\ r \notin asked \cup answered
        /\ \A j \in DOMAIN lines : IsMessage(lines[j], r) => j = i
  BY DEF OnceInv
<1>u. ASSUME UNCHANGED <<lines, asked, answered>> PROVE OnceInv'
  <2>1. \A r \in Req, i \in DOMAIN lines : IsMessage(lines[i], r) =>
          /\ pc'[r] \in {"await", "done"} /\ r \notin asked \cup answered
          /\ \A j \in DOMAIN lines : IsMessage(lines[j], r) => j = i
    BY <1>o, <1>p
  <2>2. asked \cap answered = {} /\ \A r \in asked \cup answered : pc'[r] \in {"await", "done"}
    <3>1. asked \cup answered \subseteq Req
      BY DEF TypeOK
    <3> QED
      BY <1>p, <3>1 DEF OnceInv
  <2> QED
    BY <1>u, <2>1, <2>2 DEF OnceInv, IsMessage
<1>1. ASSUME NEW w \in Writers, WriteNewline(w) PROVE OnceInv'
  <2>1. /\ pc[w] = "newline" /\ pc' = [pc EXCEPT ![w] = IF w \in Req THEN "await" ELSE "done"]
        /\ UNCHANGED <<asked, answered>> /\ lines' = Append(lines, tail)
        /\ Finished(tail) /\ tail[Len(tail)].id = w
    BY <1>1, NewLine DEF WriteNewline, Goto, Outside, process
  <2>2. /\ DOMAIN lines' = 1 .. Len(lines) + 1 /\ lines'[Len(lines) + 1] = tail
        /\ \A i \in DOMAIN lines : lines'[i] = lines[i]
    BY <1>0, <2>1, AppendProperties
  <2>3. \A r \in Req : IsMessage(tail, r) => r = w
    BY <2>1 DEF IsMessage
  <2>4. w \in Req => /\ pc'[w] = "await" /\ w \notin asked \cup answered
                     /\ \A i \in DOMAIN lines : ~IsMessage(lines[i], w)
    BY <1>0, <2>1 DEF OnceInv
  <2>5. ASSUME NEW r \in Req, NEW i \in DOMAIN lines', IsMessage(lines'[i], r)
        PROVE  /\ pc'[r] \in {"await", "done"} /\ r \notin asked \cup answered
               /\ \A j \in DOMAIN lines' : IsMessage(lines'[j], r) => j = i
    <3>1. CASE i = Len(lines) + 1
      <4>1. r = w /\ w \in Req
        BY <2>2, <2>3, <2>5, <3>1
      <4>2. \A j \in DOMAIN lines' : IsMessage(lines'[j], r) => j = i
        BY <1>0, <2>2, <2>4, <3>1, <4>1, SMTT(60)
      <4> QED
        BY <2>4, <4>1, <4>2
    <3>2. CASE i \in DOMAIN lines
      <4>1. r # w
        BY <2>2, <2>4, <2>5, <3>2
      <4> QED
        BY <1>0, <1>o, <1>p, <2>2, <2>3, <2>5, <3>2, <4>1, SMTT(60)
    <3> QED
      BY <1>0, <2>2, <3>1, <3>2
  <2> QED
    BY <1>p, <2>1, <2>5 DEF OnceInv, IsMessage
<1>2. CASE ChildReads
  <2>1. /\ lines # <<>> /\ lines' = Tail(lines) /\ UNCHANGED <<pc, answered>>
        /\ asked' = asked \cup {r \in Req : IsMessage(Head(lines), r)}
    BY <1>2 DEF ChildReads
  <2>2. /\ 1 \in DOMAIN lines /\ Head(lines) = lines[1]
        /\ \A i \in DOMAIN lines' : i \in Nat \ {0} /\ i + 1 \in DOMAIN lines /\ lines'[i] = lines[i + 1]
    BY <1>0, <2>1
  <2>3. ASSUME NEW r \in Req, NEW i \in DOMAIN lines', IsMessage(lines'[i], r)
        PROVE  /\ pc[r] \in {"await", "done"} /\ r \notin asked' \cup answered
               /\ \A j \in DOMAIN lines' : IsMessage(lines'[j], r) => j = i
    <3>1. /\ pc[r] \in {"await", "done"} /\ r \notin asked \cup answered
          /\ \A j \in DOMAIN lines : IsMessage(lines[j], r) => j = i + 1
      BY <2>2, <2>3 DEF OnceInv
    <3>2. ~IsMessage(Head(lines), r)
      BY <2>2, <3>1
    <3>3. \A j \in DOMAIN lines' : IsMessage(lines'[j], r) => j = i
      BY <2>2, <3>1
    <3> QED
      BY <2>1, <3>1, <3>2, <3>3
  <2>4. \A r \in Req : IsMessage(Head(lines), r) => pc[r] \in {"await", "done"} /\ r \notin answered
    BY <2>2 DEF OnceInv
  <2> QED
    BY <2>1, <2>3, <2>4 DEF OnceInv, IsMessage
<1>3. ASSUME NEW r \in Req, ChildAnswers(r) PROVE OnceInv'
  <2>1. /\ r \in asked /\ asked' = asked \ {r} /\ answered' = answered \cup {r}
        /\ UNCHANGED <<pc, lines>>
    BY <1>3 DEF ChildAnswers, callers
  <2> QED
    BY <2>1 DEF OnceInv, IsMessage
<1>4. ASSUME NEW w \in Writers, \/ Acquire(w) \/ WriteSome(w) \/ WriteRest(w)
                                \/ WriteFails(w) \/ GiveUp(w) \/ Cancel(w) \/ Receive(w)
                                \/ Register(w) \/ Notify(w)
      PROVE  UNCHANGED <<lines, asked, answered>>
  BY <1>4 DEF Acquire, WriteSome, WriteRest, WriteFails, GiveUp, Cancel, Receive, Register, Notify,
     Outside, process
<1>5. CASE Unseen /\ ~ChildReads /\ ~(\E r \in Req : ChildAnswers(r))
  BY <1>u, <1>5 DEF Unseen, ChildStrays, ChildMutes, ChildLeaves, ChildGone, ReaderIgnores, ReaderStops,
     Shutdown, ShutdownStep, ShutdownTakesStdin, ShutdownReaps, ShutdownTimesOut, ShutdownKills,
     DropTransport, Elsewhere, Unread, callers, process, vars
<1>6. CASE (\E r \in Req : ReaderFails(r)) \/ ReaderRoutes \/ ReaderOverflows \/ ReaderEnds
  BY <1>u, <1>6 DEF ReaderFails, ReaderRoutes, ReaderOverflows, ReaderEnds, Unread, process
<1> QED
  BY <1>0, <1>u, <1>1, <1>2, <1>3, <1>4, <1>5, <1>6, StepCases

RpcInv == TypeOK /\ AnswerInv /\ TearInv /\ FailInv /\ OnceInv

\* Losing the link is the only thing the caller does not see happen to itself.
LEMMA LinkStays ==
  ASSUME TypeOK, [Next]_vars
  PROVE  /\ link' = link \/ (link = "up" /\ link' = "down")
         /\ UNCHANGED <<pc, reply, answered>> \/ link' = link
BY LostStays DEF link, TypeOK

\* A step that ends no call changes no outcome.
LEMMA OutcomeStays ==
  ASSUME TypeOK, [Next]_vars, \A r \in Req : pc'[r] = "done" => pc[r] = "done"
  PROVE  result' = result
<1>1. Req \subseteq Writers
  BY DEF Writers
<1>2. \A r \in Req : /\ pc'[r] = "done" <=> pc[r] = "done"
                     /\ pc[r] = "done" => reply'[r] = reply[r]
  BY <1>1, DoneStays
<1> QED
  BY <1>2 DEF result

\* A call that ends, closes, and keeps what its channel holds then.
LEMMA CallEnds ==
  ASSUME TypeOK, [Next]_vars, NEW r \in Req, pc[r] \in Suspended, pc' = [pc EXCEPT ![r] = "done"],
         answered' = answered
  PROVE  Rpc!Close(r, Abstract(reply'[r].kind))
<1>0. pc \in [Writers -> Places] /\ Req \subseteq Writers
  BY DEF TypeOK, Places, Writers
<1>1. link' = link
  BY <1>0, LinkStays DEF Suspended
<1>2. \A q \in Req : q # r => pc'[q] = pc[q] /\ (pc[q] = "done" => reply'[q] = reply[q])
  BY <1>0, DoneStays
<1>3. status[r] = "open" /\ status' = [status EXCEPT ![r] = "closed"]
  BY <1>0, <1>2 DEF status, Suspended
<1>4. result' = [result EXCEPT ![r] = Abstract(reply'[r].kind)]
  BY <1>0, <1>2 DEF result
<1> QED
  BY <1>1, <1>3, <1>4 DEF Rpc!Close

LEMMA RpcInit == Init => Rpc!Init
<1> SUFFICES ASSUME Init PROVE Rpc!Init
  OBVIOUS
<1>1. Req \subseteq Writers
  BY DEF Writers
<1> QED
  BY <1>1 DEF Init, Rpc!Init, status, result, link

LEMMA RpcStep == RpcInv /\ [Next]_vars => [Rpc!Next]_Rpc!vars
<1> SUFFICES ASSUME RpcInv, [Next]_vars PROVE [Rpc!Next]_Rpc!vars
  OBVIOUS
<1>0. /\ TypeOK /\ pc \in [Writers -> Places] /\ reply \in [Req -> Reply]
      /\ Req \subseteq Writers /\ Notes \subseteq Writers /\ Req \cap Notes = {} /\ Writers = Req \cup Notes
      /\ asked \subseteq Req /\ \A m \in Reply : m.kind \in ReplyKind
  BY IdAssumption DEF RpcInv, TypeOK, Places, Writers, Reply
<1> HIDE DEF Line, Reply, Fragment, Writers
<1>u. ASSUME answered' = answered, \A r \in Req : pc'[r] = pc[r] PROVE [Rpc!Next]_Rpc!vars
  <2>1. status' = status
    BY <1>u DEF status
  <2>2. result' = result
    BY <1>0, <1>u, OutcomeStays
  <2>3. link' = link \/ (link = "up" /\ link' = "down")
    BY <1>0, LinkStays
  <2> QED
    BY <1>u, <2>1, <2>2, <2>3 DEF Rpc!Next, Rpc!LoseLink, Rpc!vars
\* A call goes on, from place to place in the transport.
<1>g. ASSUME NEW r \in Writers, NEW place \in Suspended, pc[r] \in Suspended,
             pc' = [pc EXCEPT ![r] = place], answered' = answered
      PROVE  [Rpc!Next]_Rpc!vars
  <2>1. status' = status
    BY <1>0, <1>g DEF status, Suspended
  <2>2. result' = result
    BY <1>0, <1>g, OutcomeStays DEF Suspended
  <2>3. link' = link \/ (link = "up" /\ link' = "down")
    BY <1>0, LinkStays
  <2> QED
    BY <1>g, <2>1, <2>2, <2>3 DEF Rpc!Next, Rpc!LoseLink, Rpc!vars
\* It closes with what its channel holds.
<1>c. ASSUME NEW r \in Req, Rpc!Return(r) \/ Rpc!Fail(r) \/ Rpc!Abandon(r) PROVE [Rpc!Next]_Rpc!vars
  BY <1>c DEF Rpc!Next
<1>1. ASSUME NEW r \in Req, Register(r) PROVE [Rpc!Next]_Rpc!vars
  <2>1. pc[r] = "idle" /\ pc' = [pc EXCEPT ![r] = "queued"] /\ UNCHANGED <<answered, stdin, child, reader>>
    BY <1>1 DEF Register, Goto, Outside, process, readers
  <2>2. status[r] = "idle" /\ status' = [status EXCEPT ![r] = "open"]
    BY <1>0, <2>1 DEF status
  <2>3. result' = result
    BY <1>0, <2>1, OutcomeStays
  <2>4. link' = link
    BY <2>1 DEF link
  <2> QED
    BY <2>1, <2>2, <2>3, <2>4 DEF Rpc!Next, Rpc!Open
<1>2. ASSUME NEW r \in Req, Receive(r) PROVE [Rpc!Next]_Rpc!vars
  <2>1. /\ pc[r] = "await" /\ reply[r] # Empty /\ pc' = [pc EXCEPT ![r] = "done"]
        /\ UNCHANGED <<reply, answered>>
    BY <1>2 DEF Receive, Goto, Outside, process
  <2>2. Rpc!Close(r, Abstract(reply[r].kind))
    BY <1>0, <2>1, CallEnds DEF Suspended
  <2>3. reply[r].kind \in {"response", "request", "exited", "tooLarge"}
    BY <1>0, <2>1 DEF RpcInv, FailInv, ReplyKind
  <2>4. CASE reply[r].kind \in {"response", "request"}
    BY <1>c, <2>2, <2>4 DEF RpcInv, AnswerInv, OwnAnswer, Rpc!Return, Abstract
  <2>5. CASE reply[r].kind \in {"exited", "tooLarge"}
    <3>1. link = "down"
      BY <2>5 DEF RpcInv, FailInv, link
    <3> QED
      BY <1>c, <2>2, <2>5, <3>1 DEF Rpc!Fail, Abstract
  <2> QED
    BY <2>3, <2>4, <2>5
<1>3. ASSUME NEW w \in Writers, GiveUp(w) PROVE [Rpc!Next]_Rpc!vars
  <2>1. /\ pc[w] = "broken" /\ pc' = [pc EXCEPT ![w] = "done"] /\ answered' = answered
        /\ w \in Req => reply'[w].kind = "writeError"
    BY <1>0, <1>3 DEF GiveUp, Goto, Outside, process, Blank
  <2>2. CASE w \in Req
    <3>1. Rpc!Close(w, "error")
      BY <1>0, <2>1, <2>2, CallEnds DEF Suspended, Abstract
    <3>2. link = "down"
      BY <2>1 DEF RpcInv, FailInv, link
    <3> QED
      BY <1>c, <2>2, <3>1, <3>2 DEF Rpc!Fail
  <2> QED
    BY <1>0, <1>u, <2>1, <2>2
<1>4. ASSUME NEW w \in Writers, Cancel(w) PROVE [Rpc!Next]_Rpc!vars
  <2>1. /\ pc[w] \in Suspended /\ pc' = [pc EXCEPT ![w] = "done"] /\ answered' = answered
        /\ w \in Req => reply'[w].kind = "dropped"
    BY <1>0, <1>4 DEF Cancel, Goto, Outside, process, Blank
  <2>2. CASE w \in Req
    <3>1. Rpc!Close(w, "dropped")
      BY <1>0, <2>1, <2>2, CallEnds DEF Abstract
    <3> QED
      BY <1>c, <2>2, <3>1 DEF Rpc!Abandon
  <2> QED
    BY <1>0, <1>u, <2>1, <2>2
<1>5. ASSUME NEW w \in Writers,
             Acquire(w) \/ WriteSome(w) \/ WriteRest(w) \/ WriteFails(w) \/ WriteNewline(w)
      PROVE  [Rpc!Next]_Rpc!vars
  <2>1. CASE w \in Req
    <3>1. answered' = answered /\ pc[w] \in Suspended
      BY <1>5 DEF Acquire, WriteSome, WriteRest, WriteFails, WriteNewline, Outside, process, Suspended
    <3>2. \E place \in Suspended : pc' = [pc EXCEPT ![w] = place]
      BY <1>5, <2>1 DEF Acquire, WriteSome, WriteRest, WriteFails, WriteNewline, Goto, Suspended
    <3> QED
      BY <1>g, <3>1, <3>2
  <2>2. CASE w \notin Req
    <3>1. answered' = answered /\ \A r \in Req : pc'[r] = pc[r]
      BY <1>0, <1>5, <2>2 DEF Acquire, WriteSome, WriteRest, WriteFails, WriteNewline, Goto, Outside, process
    <3> QED
      BY <1>u, <3>1
  <2> QED
    BY <2>1, <2>2
<1>6. ASSUME NEW n \in Notes, Notify(n) PROVE [Rpc!Next]_Rpc!vars
  <2>1. answered' = answered /\ \A r \in Req : pc'[r] = pc[r]
    BY <1>0, <1>6 DEF Notify, Goto, Outside, process
  <2> QED
    BY <1>u, <2>1
<1>7. ASSUME NEW r \in Req, ChildAnswers(r) PROVE [Rpc!Next]_Rpc!vars
  <2>1. /\ r \in asked /\ answered' = answered \cup {r} /\ UNCHANGED <<pc, reply, stdin, child, reader>>
    BY <1>7 DEF ChildAnswers, callers, readers
  <2>2. r \notin answered /\ status[r] # "idle"
    BY <2>1 DEF RpcInv, OnceInv, status
  <2>3. status' = status /\ result' = result /\ link' = link
    BY <2>1 DEF status, result, link
  <2> QED
    BY <2>1, <2>2, <2>3 DEF Rpc!Next, Rpc!Serve
<1>8. CASE \/ \E r \in Req : ReaderFails(r)
           \/ ReaderRoutes \/ ReaderOverflows \/ ReaderEnds
           \/ Unseen /\ ~(\E r \in Req : ChildAnswers(r))
  <2>1. pc' = pc /\ answered' = answered
    BY <1>8 DEF ReaderFails, ReaderRoutes, ReaderOverflows, ReaderEnds, Unread, process, Unseen,
       ChildReads, ChildStrays, ChildMutes, ChildLeaves, ChildGone, ReaderIgnores, ReaderStops,
       Shutdown, ShutdownStep, ShutdownTakesStdin, ShutdownReaps, ShutdownTimesOut, ShutdownKills,
       DropTransport, Elsewhere, callers, vars
  <2> QED
    BY <1>u, <2>1
<1> QED
  BY <1>1, <1>2, <1>3, <1>4, <1>5, <1>6, <1>7, <1>8, StepCases

\* Over a server that sends no requests of its own every call closes once: with
\* its own answer, with an error after the link was lost, or because its caller
\* gave up (stdio.rs behind the McpTransport trait).
THEOREM ImplementsCall ==
  ASSUME "request" \notin StrayKinds
  PROVE  Spec => ImplementsRpcCall
<1>1. Init => RpcInv
  <2>1. Init => FailInv
    <3> SUFFICES ASSUME Init PROVE FailInv
      OBVIOUS
    <3>1. Req \subseteq Writers /\ \A r \in Req : reply[r] = Empty /\ reply[r].kind = "none"
      BY DEF Init, Empty, Blank, Writers
    <3> QED
      BY <3>1 DEF Init, FailInv
  <2>3. Init => OnceInv
    BY DEF Init, OnceInv
  <2>2. Init => TearInv
    BY DEF Init, TearInv, OneWriter, TailInv, Writing
  <2> QED
    BY <2>1, <2>2, <2>3, TypeInit, AnswerInit DEF RpcInv
<1>2. RpcInv /\ [Next]_vars => RpcInv'
  <2>1. TypeOK /\ AnswerInv /\ [Next]_vars => AnswerInv'
    BY AnswerStep
  <2> QED
    BY <2>1, TypeStep, OneWriterStep, TailStep, LinesStep, FailStep, OnceStep DEF RpcInv, TearInv
<1> QED
  BY <1>1, <1>2, RpcInit, RpcStep, PTL DEF Spec, ImplementsRpcCall, Rpc!Spec
=============================================================================
