------------------------- MODULE NativeProcessProofs -------------------------
(* Proofs about NativeProcess, for every value of its constants.            *)
EXTENDS NativeProcess, TLAPS

(* TypeOK is not inductive alone: a reader takes from a pipe what was       *)
(* written to it, so a pipe must never hold more than that.                 *)
PipeInv == \A s \in Streams : pipe[s] <= written[s]

TypeInv == TypeOK /\ PipeInv

LEMMA EventType ==
  ASSUME TypeOK, channel # <<>>
  PROVE  /\ Head(channel) \in Chunk \union ReadError
         /\ Tail(channel) \in Seq(Chunk \union ReadError)
  BY DEF TypeOK

(* What accept does with the next event keeps the types.                    *)
LEMMA AcceptType ==
  ASSUME TypeOK, channel # <<>>
  PROVE  /\ AcceptError(Head(channel)) \in Errors \union {"none"}
         /\ AcceptError(Head(channel)) = "none" /\ Extend(Head(channel)) =>
              captured' \in [Streams -> Nat]
<1> DEFINE event == Head(channel)
<1>1. event \in Chunk \union ReadError
  BY EventType
<1>2. AcceptError(event) \in Errors \union {"none"}
  BY DEF AcceptError, LimitError, Errors
<1>3. AcceptError(event) = "none" /\ Extend(event) =>
        captured' \in [Streams -> Nat]
  BY <1>1 DEF AcceptError, Extend, Chunk, ReadError, TypeOK
<1>. QED  BY <1>2, <1>3

LEMMA TypeInvInit == Init => TypeInv
<1>. SUFFICES ASSUME Init PROVE TypeInv
  OBVIOUS
<1>1. channel \in Seq(Chunk \union ReadError)
  BY DEF Init
<1>2. /\ captured \in [Streams -> Nat]
      /\ written \in [Streams -> Nat]
      /\ pipe \in [Streams -> Nat]
      /\ PipeInv
  BY DEF Init, PipeInv
<1>3. /\ holds \in [Streams -> SUBSET Procs]
      /\ reader \in [Streams -> {"none", "reading", "ended"}]
  BY DEF Init
<1>. QED  BY <1>1, <1>2, <1>3 DEF Init, TypeInv, TypeOK

LEMMA TypeInvProcess ==
  ASSUME TypeInv, NEW p \in Procs, Process(p)
  PROVE  TypeInv'
<1>. USE DEF TypeInv, TypeOK, PipeInv, controllerVars, treeVars, streamVars,
             fileVars
<1>1. ASSUME NEW s \in Streams, Write(p, s)  PROVE TypeInv'
  BY <1>1 DEF Write
<1>2. ASSUME NEW s \in Streams, CloseStream(p, s)  PROVE TypeInv'
  BY <1>2 DEF CloseStream
<1>3. CASE ChangeFiles(p)
  BY <1>3, LimitsAssumption DEF ChangeFiles
<1>4. ASSUME NEW d \in Descendants, Fork(p, d)  PROVE TypeInv'
  BY <1>4 DEF Fork, Procs
<1>5. CASE Exit(p)
  BY <1>5 DEF Exit, End
<1>6. CASE Die(p)
  BY <1>6 DEF Die, End
<1>. QED  BY <1>1, <1>2, <1>3, <1>4, <1>5, <1>6 DEF Process

LEMMA TypeInvReader ==
  ASSUME TypeInv, NEW s \in Streams, Reader(s)
  PROVE  TypeInv'
<1>. USE DEF TypeInv, TypeOK, PipeInv, controllerVars, treeVars, streamVars,
             fileVars
<1>1. CASE Read(s)
  <2>1. PICK n \in 1 .. ChunkBytes :
          /\ n <= pipe[s]
          /\ channel' = Append(channel,
                               [kind |-> "data", stream |-> s,
                                from |-> written[s] - pipe[s],
                                upto |-> written[s] - pipe[s] + n])
          /\ pipe' = [pipe EXCEPT ![s] = @ - n]
    BY <1>1 DEF Read
  <2>2. [kind |-> "data", stream |-> s, from |-> written[s] - pipe[s],
         upto |-> written[s] - pipe[s] + n] \in Chunk
    BY <2>1, LimitsAssumption DEF Chunk
  <2>3. channel' \in Seq(Chunk \union ReadError)
    BY <2>1, <2>2
  <2>4. pipe' \in [Streams -> Nat] /\ PipeInv'
    BY <1>1, <2>1, LimitsAssumption DEF Read
  <2>. QED  BY <1>1, <2>3, <2>4 DEF Read
<1>2. CASE ReadEnd(s)
  BY <1>2 DEF ReadEnd
<1>3. CASE ReadFails(s)
  <2>1. [kind |-> "error", stream |-> s] \in ReadError
    BY DEF ReadError
  <2>. QED  BY <1>3, <2>1 DEF ReadFails
<1>. QED  BY <1>1, <1>2, <1>3 DEF Reader

LEMMA TypeInvController ==
  ASSUME TypeInv, Controller
  PROVE  TypeInv'
<1>. USE DEF TypeInv, TypeOK, PipeInv, controllerVars, treeVars, streamVars,
             fileVars
<1>1. CASE LaunchFails
  BY <1>1 DEF LaunchFails, Return, Errors
<1>2. CASE Launch
  BY <1>2 DEF Launch, Procs
<1>3. CASE TryWait
  BY <1>3 DEF TryWait, LeaveLoop, Errors
<1>4. CASE CheckDeadline
  BY <1>4 DEF CheckDeadline, LeaveLoop, Errors
<1>5. CASE LiveScan
  BY <1>5 DEF LiveScan, LeaveLoop, Errors, ScanErrors, ScanError
<1>6. CASE Recv
  <2>1. CASE channel = <<>>
    BY <1>6, <2>1 DEF Recv
  <2>2. CASE channel # <<>>
    BY <1>6, <2>2, EventType, AcceptType DEF Recv, LeaveLoop
  <2>. QED  BY <2>1, <2>2
<1>7. CASE Terminate
  BY <1>7 DEF Terminate, Signalled, Procs
<1>8. CASE Reap
  BY <1>8 DEF Reap
<1>9. CASE JoinStdout
  BY <1>9 DEF JoinStdout
<1>10. CASE JoinStderr
  BY <1>10 DEF JoinStderr, Return
<1>11. CASE Drain
  <2>1. CASE channel = <<>>
    BY <1>11, <2>1 DEF Drain
  <2>2. CASE channel # <<>>
    <3>1. doomed' \subseteq Procs
      BY <1>11, <2>2 DEF Drain, Signalled, Procs
    <3>. QED  BY <1>11, <2>2, <3>1, EventType, AcceptType DEF Drain, Return
  <2>. QED  BY <2>1, <2>2
<1>12. CASE FinalScan
  BY <1>12 DEF FinalScan, Return, Errors, ScanErrors, ScanError
<1>. QED
  BY <1>1, <1>2, <1>3, <1>4, <1>5, <1>6, <1>7, <1>8, <1>9, <1>10, <1>11,
     <1>12 DEF Controller

LEMMA TypeInvStep == TypeInv /\ [Next]_vars => TypeInv'
<1>. SUFFICES ASSUME TypeInv, [Next]_vars PROVE TypeInv'
  OBVIOUS
<1>1. CASE Expire
  BY <1>1 DEF Expire, TypeInv, TypeOK, PipeInv, controllerVars, treeVars,
              streamVars, fileVars
<1>2. CASE UNCHANGED vars
  BY <1>2 DEF vars, TypeInv, TypeOK, PipeInv, controllerVars, treeVars,
              streamVars, fileVars
<1>. QED
  BY <1>1, <1>2, TypeInvProcess, TypeInvReader, TypeInvController DEF Next

LEMMA TypeInvAlways == Spec => []TypeInv
  BY TypeInvInit, TypeInvStep, PTL DEF Spec

(* Every reachable state has the types, whatever the limits, the number of  *)
(* descendants and the size of the pipes and of the buffers.                *)
THEOREM TypeCorrect == Spec => []TypeOK
<1>1. TypeInv => TypeOK
  BY DEF TypeInv
<1>. QED  BY <1>1, TypeInvAlways, PTL

-----------------------------------------------------------------------------
(* The process tree.                                                        *)

(* Where the controller is says what is left of the child and the readers.  *)
ChildInv ==
  /\ pc = "launch" => child = "unborn"
  /\ child = "unborn" => execution = "none"
  /\ child = "unborn" /\ pc # "launch" =>
       pc = "done" /\ result = "ProcessLaunch"
  /\ pc \in {"join_stdout", "join_stderr", "drain", "final_scan", "done"} =>
       child \in {"reaped", "unborn"}
  /\ Child \in alive => child = "running"
  /\ pc # "done" => result = "none"

ReaderInv ==
  /\ pc \in {"join_stderr", "drain", "final_scan"} =>
       reader["stdout"] = "ended"
  /\ pc \in {"drain", "final_scan"} => reader["stderr"] = "ended"
  /\ pc = "done" /\ result # "ProcessLaunch" =>
       \A s \in Streams : reader[s] = "ended"
  /\ pc \in {"drain", "final_scan"} => execution = "exited"

(* Once the group has been signalled nobody is left to fork.                *)
KillInv ==
  /\ GroupKill /\ execution \in Errors /\ pc # "terminate" =>
       alive \subseteq doomed
  /\ execution \in Errors =>
       pc \in {"terminate", "reap", "join_stdout", "join_stderr", "done"}

(* A child that has forked nothing is the only process; after its end no    *)
(* file changes.                                                            *)
FileInv ==
  /\ unborn = Descendants => alive \subseteq {Child}
  /\ result = "ok" /\ unborn = Descendants =>
       /\ alive = {}
       /\ output <= MaxOutputBytes
       /\ ~unsafe

TreeInv == TypeInv /\ ChildInv /\ ReaderInv /\ KillInv /\ FileInv

LEMMA TreeInvInit == Init => TreeInv
  BY TypeInvInit
     DEF Init, TreeInv, ChildInv, ReaderInv, KillInv, FileInv, Errors

LEMMA TreeInvProcess ==
  ASSUME TreeInv, NEW p \in Procs, Process(p)
  PROVE  TreeInv'
<1>1. TypeInv'
  BY TypeInvProcess DEF TreeInv
<1>. USE DEF TreeInv, ChildInv, ReaderInv, KillInv, FileInv, TypeInv, TypeOK,
             controllerVars, treeVars, streamVars, fileVars
<1>2. ASSUME NEW s \in Streams, Write(p, s) \/ CloseStream(p, s)
      PROVE  TreeInv'
  BY <1>1, <1>2 DEF Write, CloseStream
<1>3. CASE ChangeFiles(p)
  BY <1>1, <1>3 DEF ChangeFiles, Runs
<1>4. ASSUME NEW d \in Descendants, Fork(p, d)  PROVE TreeInv'
  <2>1. ChildInv' /\ ReaderInv'
    BY <1>4, LimitsAssumption DEF Fork
  <2>2. KillInv'
    BY <1>4 DEF Fork, Runs
  <2>3. FileInv'
    BY <1>4 DEF Fork
  <2>. QED  BY <1>1, <2>1, <2>2, <2>3
<1>5. CASE Exit(p) \/ Die(p)
  BY <1>1, <1>5 DEF Exit, Die, End, Runs, Errors
<1>. QED  BY <1>2, <1>3, <1>4, <1>5 DEF Process

LEMMA TreeInvReader ==
  ASSUME TreeInv, NEW s \in Streams, Reader(s)
  PROVE  TreeInv'
<1>1. TypeInv'
  BY TypeInvReader DEF TreeInv
<1>2. /\ UNCHANGED <<controllerVars, treeVars, fileVars>>
      /\ \A r \in Streams : reader[r] = "ended" => reader'[r] = "ended"
  BY DEF Reader, Read, ReadEnd, ReadFails, TreeInv, TypeInv, TypeOK
<1>. QED
  BY <1>1, <1>2
     DEF TreeInv, ChildInv, ReaderInv, KillInv, FileInv, controllerVars,
         treeVars, fileVars, Streams

LEMMA TreeInvController ==
  ASSUME TreeInv, Controller
  PROVE  TreeInv'
<1>1. TypeInv'
  BY TypeInvController DEF TreeInv
<1>. USE DEF TreeInv, ChildInv, ReaderInv, KillInv, FileInv, TypeInv, TypeOK,
             controllerVars, treeVars, streamVars, fileVars
<1>2. CASE LaunchFails
  BY <1>1, <1>2 DEF LaunchFails, Return, Errors
<1>3. CASE Launch
  BY <1>1, <1>3 DEF Launch, Errors
<1>4. CASE TryWait
  BY <1>1, <1>4 DEF TryWait, LeaveLoop, Errors
<1>5. CASE CheckDeadline
  BY <1>1, <1>5 DEF CheckDeadline, LeaveLoop, Errors
<1>6. CASE LiveScan
  BY <1>1, <1>6 DEF LiveScan, LeaveLoop, Errors
<1>7. CASE Recv
  BY <1>1, <1>7 DEF Recv, LeaveLoop, Errors
<1>8. CASE Terminate
  BY <1>1, <1>8 DEF Terminate, Signalled
<1>9. CASE Reap
  BY <1>1, <1>9 DEF Reap
<1>10. CASE JoinStdout
  BY <1>1, <1>10 DEF JoinStdout
<1>11. CASE JoinStderr
  BY <1>1, <1>11 DEF JoinStderr, Return, Errors, Streams
<1>12. CASE Drain
  BY <1>1, <1>12 DEF Drain, Return, Errors, AcceptError, LimitError, Streams
<1>13. CASE FinalScan
  <2>1. PICK error \in ScanErrors :
          Return(IF error # "none" THEN error
                 ELSE IF status = "success" THEN "ok" ELSE "ProcessFailed")
    BY <1>13 DEF FinalScan
  <2>2. pc = "final_scan" /\ pc' = "done" /\ alive' = alive
    BY <1>13 DEF FinalScan, Return
  <2>3. FileInv'
    <3>1. CASE unborn = Descendants /\ result' = "ok"
      <4>1. alive = {}
        BY <2>2, <3>1
      <4>2. ScannedSizes = {output} /\ ScannedUnsafe = {unsafe}
        BY <4>1 DEF ScannedSizes, ScannedUnsafe
      <4>3. error \in {"Io", ScanError(output, unsafe)}
        BY <2>1, <4>2 DEF ScanErrors
      <4>4. error = "none"
        BY <2>1, <3>1, <4>3 DEF Return, ScanError
      <4>5. ~unsafe /\ output <= MaxOutputBytes
        BY <4>3, <4>4, LimitsAssumption DEF ScanError
      <4>6. UNCHANGED <<output, unsafe, unborn>>
        BY <1>13 DEF FinalScan
      <4>. QED  BY <2>2, <4>1, <4>5, <4>6
    <3>2. CASE ~(unborn = Descendants /\ result' = "ok")
      BY <1>13, <2>2, <3>2 DEF FinalScan
    <3>. QED  BY <3>1, <3>2
  <2>4. ChildInv'
    BY <1>13, <2>2 DEF FinalScan
  <2>5. ReaderInv'
    BY <1>13, <2>2 DEF FinalScan, Streams
  <2>6. KillInv'
    BY <1>13, <2>2 DEF FinalScan, Errors
  <2>. QED  BY <1>1, <2>3, <2>4, <2>5, <2>6
<1>. QED
  BY <1>2, <1>3, <1>4, <1>5, <1>6, <1>7, <1>8, <1>9, <1>10, <1>11, <1>12,
     <1>13 DEF Controller

LEMMA TreeInvStep == TreeInv /\ [Next]_vars => TreeInv'
<1>. SUFFICES ASSUME TreeInv, [Next]_vars PROVE TreeInv'
  OBVIOUS
<1>1. TypeInv'
  BY TypeInvStep DEF TreeInv
<1>2. CASE Expire \/ UNCHANGED vars
  BY <1>1, <1>2
     DEF Expire, vars, TreeInv, ChildInv, ReaderInv, KillInv, FileInv,
         controllerVars, treeVars, streamVars, fileVars
<1>. QED
  BY <1>2, TreeInvProcess, TreeInvReader, TreeInvController DEF Next

LEMMA TreeInvAlways == Spec => []TreeInv
  BY TreeInvInit, TreeInvStep, PTL DEF Spec

(* run returns with its child reaped and both its reader threads ended.     *)
THEOREM NothingIsLeft == Spec => []NothingLeft
<1>1. TreeInv => NothingLeft
  BY DEF TreeInv, ChildInv, ReaderInv, NothingLeft
<1>. QED  BY <1>1, TreeInvAlways, PTL

(* After a run that was cut short no process of the group runs any more.    *)
THEOREM NobodySurvives == Spec => []NoSurvivors
<1>1. TreeInv => NoSurvivors
  BY DEF TreeInv, KillInv, NoSurvivors
<1>. QED  BY <1>1, TreeInvAlways, PTL

(* What an Ok run of a child that forked nothing left is within its bound.  *)
THEOREM OkOutputIsBounded == Spec => []OkOutputBounded
<1>1. TreeInv => OkOutputBounded
  BY DEF TreeInv, FileInv, OkOutputBounded
<1>. QED  BY <1>1, TreeInvAlways, PTL

-----------------------------------------------------------------------------
(* The log.  As long as no event has been refused, the events of a stream   *)
(* that are in the channel are consecutive chunks: the first one starts     *)
(* where the captured bytes end, and the last one ends where the pipe       *)
(* starts.                                                                  *)

Accepting == execution \in {"none", "exited"} /\ result \in {"none", "ok"}

Of(i, s) == channel[i].stream = s

NoneOf(s, from, upto) == \A i \in from .. upto : ~Of(i, s)

IsData(i) == channel[i].kind = "data"

FirstStarts(s) ==
  \A i \in 1 .. Len(channel) :
    Of(i, s) /\ IsData(i) /\ NoneOf(s, 1, i - 1) =>
      channel[i].from = captured[s]

NextFollows(s) ==
  \A i, k \in 1 .. Len(channel) :
    i < k /\ Of(i, s) /\ Of(k, s) /\ NoneOf(s, i + 1, k - 1) /\ IsData(k) =>
      IsData(i) /\ channel[k].from = channel[i].upto

LastEnds(s) ==
  \A i \in 1 .. Len(channel) :
    Of(i, s) /\ IsData(i) /\ NoneOf(s, i + 1, Len(channel)) =>
      channel[i].upto = written[s] - pipe[s]

EmptyMeansKept(s) ==
  NoneOf(s, 1, Len(channel)) => captured[s] = written[s] - pipe[s]

EndedSaysWhy(s) ==
  reader[s] = "ended" =>
    \/ \E i \in 1 .. Len(channel) : Of(i, s) /\ ~IsData(i)
    \/ pipe[s] = 0 /\ holds[s] = {}

Chained(s) ==
  FirstStarts(s) /\ NextFollows(s) /\ LastEnds(s) /\ EmptyMeansKept(s)
  /\ EndedSaysWhy(s)

(* What holds of the channel whether or not an event was refused.           *)
EventInv ==
  /\ pc = "launch" => \A s \in Streams : reader[s] = "none"
  /\ \A i \in 1 .. Len(channel), s \in Streams :
       /\ Of(i, s) /\ ~IsData(i) => reader[s] = "ended"
       /\ Of(i, s) /\ IsData(i) => channel[i].upto <= written[s] - pipe[s]

LogInv ==
  /\ TreeInv
  /\ EventInv
  /\ Accepting => \A s \in Streams : Chained(s)
  /\ pc = "final_scan" \/ result = "ok" => channel = <<>>
  /\ result = "ok" => Accepting /\ pc = "done"
  /\ \A s \in Streams : captured[s] <= MaxLogBytes
  /\ \A s \in Streams :
       execution = LimitError(s) \/ result = LimitError(s) =>
         written[s] > MaxLogBytes

(* How the events follow one another is a matter of the channel alone.      *)
LEMMA SameChannelFollows ==
  ASSUME NEW s \in Streams, NextFollows(s), channel' = channel
  PROVE  NextFollows(s)'
  BY Zenon DEF NextFollows, NoneOf, Of, IsData

LEMMA LogInvInit == Init => LogInv
<1>. SUFFICES ASSUME Init PROVE LogInv
  OBVIOUS
<1>1. Len(channel) = 0
  BY DEF Init
<1>2. EventInv
  BY <1>1 DEF EventInv, Init
<1>3. \A s \in Streams : Chained(s)
  BY <1>1 DEF Init, Chained, FirstStarts, NextFollows, LastEnds,
             EmptyMeansKept, EndedSaysWhy
<1>. QED
  BY <1>2, <1>3, TreeInvInit, LimitsAssumption
     DEF LogInv, Init, Accepting, LimitError

(* A step that appends nothing, takes nothing and moves no byte from a pipe *)
(* to the channel keeps the chain.                                          *)
LEMMA LogInvProcess ==
  ASSUME LogInv, NEW p \in Procs, Process(p)
  PROVE  LogInv'
<1>1. TreeInv'
  BY TreeInvProcess DEF LogInv
<1>2. UNCHANGED <<channel, reader, captured, execution, result, pc>>
  BY DEF Process, Write, CloseStream, ChangeFiles, Fork, Exit, Die,
         controllerVars, streamVars
<1>3. ASSUME NEW s \in Streams
      PROVE  /\ written'[s] - pipe'[s] = written[s] - pipe[s]
             /\ written[s] <= written'[s]
             /\ reader[s] = "ended" => pipe'[s] = pipe[s]
             /\ holds[s] = {} => holds'[s] = {}
  <2>. USE DEF controllerVars, streamVars, treeVars, fileVars, LogInv, TreeInv,
               TypeInv, TypeOK
  <2>1. CASE \E r \in Streams : Write(p, r)
    BY <1>1, <2>1 DEF Write
  <2>2. CASE \E r \in Streams : CloseStream(p, r)
    BY <2>2 DEF CloseStream
  <2>3. CASE ChangeFiles(p)
    BY <2>3 DEF ChangeFiles
  <2>4. CASE \E d \in Descendants : Fork(p, d)
    BY <2>4 DEF Fork
  <2>5. CASE Exit(p) \/ Die(p)
    BY <2>5 DEF Exit, Die, End
  <2>. QED  BY <2>1, <2>2, <2>3, <2>4, <2>5 DEF Process
<1>4. EventInv'
  BY <1>2, <1>3 DEF LogInv, EventInv, Of, IsData
<1>5. ASSUME Accepting, NEW s \in Streams  PROVE Chained(s)'
  <2>1. Chained(s)
    BY <1>5 DEF LogInv
  <2>2. FirstStarts(s)'
    BY <2>1, <1>2 DEF Chained, FirstStarts, NoneOf, Of, IsData
  <2>3. NextFollows(s)'
    BY <2>1, <1>2, SameChannelFollows DEF Chained
  <2>4. LastEnds(s)' /\ EmptyMeansKept(s)' /\ EndedSaysWhy(s)'
    BY <2>1, <1>2, <1>3
       DEF Chained, LastEnds, EmptyMeansKept, EndedSaysWhy, NoneOf, Of, IsData
  <2>. QED  BY <2>2, <2>3, <2>4 DEF Chained
<1>6. \A s \in Streams :
        execution = LimitError(s) \/ result = LimitError(s) =>
          written'[s] > MaxLogBytes
  <2>1. SUFFICES ASSUME NEW s \in Streams, written[s] > MaxLogBytes
                 PROVE  written'[s] > MaxLogBytes
    BY DEF LogInv
  <2>2. written[s] \in Nat /\ written'[s] \in Nat
    BY <1>1 DEF LogInv, TreeInv, TypeInv, TypeOK
  <2>. QED  BY <2>1, <2>2, <1>3, LimitsAssumption
<1>. QED
  BY <1>1, <1>2, <1>4, <1>5, <1>6 DEF LogInv, Accepting, LimitError

(* A reader appends one event; what was in the channel stays in front.      *)
LEMMA Appended ==
  ASSUME TypeOK, NEW e, e \in Chunk \union ReadError,
         channel' = Append(channel, e)
  PROVE  /\ Len(channel) \in Nat
         /\ Len(channel') = Len(channel) + 1
         /\ \A i \in 1 .. Len(channel) : channel'[i] = channel[i]
         /\ channel'[Len(channel) + 1] = e
  BY DEF TypeOK

LEMMA ReadKeepsChain ==
  ASSUME LogInv, TypeOK', NEW s \in Streams, Read(s)
  PROVE  /\ EventInv'
         /\ \A r \in Streams : Chained(r) => Chained(r)'
<1>1. PICK n \in 1 .. ChunkBytes :
        /\ n <= pipe[s]
        /\ channel' = Append(channel,
                             [kind |-> "data", stream |-> s,
                              from |-> written[s] - pipe[s],
                              upto |-> written[s] - pipe[s] + n])
        /\ pipe' = [pipe EXCEPT ![s] = @ - n]
  BY DEF Read
<1> DEFINE e == [kind |-> "data", stream |-> s, from |-> written[s] - pipe[s],
                 upto |-> written[s] - pipe[s] + n]
           L == Len(channel)
<1>2. TypeOK /\ PipeInv /\ reader[s] = "reading"
  BY DEF LogInv, TreeInv, TypeInv, Read
<1>3. e \in Chunk
  BY <1>1, <1>2, LimitsAssumption DEF Chunk, TypeOK, PipeInv
<1>4. /\ L \in Nat
      /\ Len(channel') = L + 1
      /\ \A i \in 1 .. L : channel'[i] = channel[i]
      /\ channel'[L + 1] = e
  BY <1>1, <1>2, <1>3, Appended
<1>5. /\ e.kind = "data" /\ e.stream = s
      /\ e.from = written[s] - pipe[s]
      /\ e.upto = written[s] - pipe[s] + n
  OBVIOUS
<1>6. /\ UNCHANGED <<pc, written, reader, captured, holds>>
      /\ \A r \in Streams : written'[r] - pipe'[r] =
           IF r = s THEN e.upto ELSE written[r] - pipe[r]
  BY <1>1, <1>2, <1>5 DEF Read, TypeOK, controllerVars, treeVars
<1>7. \A r \in Streams : written[r] - pipe[r] \in Nat /\ n \in Nat \ {0}
  <2>1. n \in Nat \ {0}
    BY LimitsAssumption
  <2>2. ASSUME NEW r \in Streams  PROVE written[r] - pipe[r] \in Nat
    <3>1. written[r] \in Nat /\ pipe[r] \in Nat
      BY <1>2 DEF TypeOK
    <3>2. pipe[r] <= written[r]
      BY <1>2 DEF PipeInv
    <3>. QED  BY <3>1, <3>2
  <2>. QED  BY <2>1, <2>2
<1>. HIDE DEF e, L
<1>8. EventInv'
  <2>1. EventInv
    BY DEF LogInv
  <2>2. pc' = "launch" => \A r \in Streams : reader'[r] = "none"
    BY <1>6, <2>1 DEF EventInv
  <2>3. ASSUME NEW i \in 1 .. (L + 1), NEW r \in Streams, Of(i, r)'
        PROVE  /\ ~IsData(i)' => reader'[r] = "ended"
               /\ IsData(i)' => channel'[i].upto <= written'[r] - pipe'[r]
    <3>1. CASE i = L + 1
      BY <3>1, <2>3, <1>4, <1>5, <1>6, <1>7 DEF Of, IsData
    <3>2. CASE i \in 1 .. L
      <4>1. /\ ~IsData(i) => reader[r] = "ended"
            /\ IsData(i) => channel[i].upto <= written[r] - pipe[r]
        BY <3>2, <2>3, <2>1, <1>4 DEF EventInv, Of, IsData, L
      <4>2. CASE ~IsData(i)
        BY <4>1, <4>2, <3>2, <1>4, <1>6 DEF IsData
      <4>3. CASE IsData(i)
        <5>1. channel[i].upto \in Nat
          <6>1. channel \in Seq(Chunk \union ReadError)
            BY <1>2, Zenon DEF TypeOK
          <6>2. channel[i] \in Chunk \/ channel[i] \in ReadError
            BY <3>2, <6>1 DEF L
          <6>3. CASE channel[i] \in Chunk
            BY <6>3 DEF Chunk
          <6>4. CASE channel[i] \in ReadError
            BY <6>4, <4>3 DEF ReadError, IsData
          <6>. QED  BY <6>2, <6>3, <6>4
        <5>. QED  BY <4>1, <4>3, <5>1, <3>2, <1>4, <1>5, <1>6, <1>7 DEF IsData
      <4>. QED  BY <4>2, <4>3
    <3>. QED  BY <3>1, <3>2, <1>4
  <2>. QED  BY <2>2, <2>3, <1>4 DEF EventInv
<1>9. ASSUME NEW r \in Streams, Chained(r)  PROVE Chained(r)'
  <2>. USE DEF NoneOf, Of, IsData
  <2>1. FirstStarts(r)'
    <3>1. ASSUME NEW i \in 1 .. (L + 1), Of(i, r)', IsData(i)',
                 NoneOf(r, 1, i - 1)'
          PROVE  channel'[i].from = captured[r]
      <4>1. CASE i \in 1 .. L
        BY <4>1, <3>1, <1>4, <1>9 DEF Chained, FirstStarts, L
      <4>2. CASE i = L + 1
        <5>1. r = s /\ channel'[i].from = written[s] - pipe[s]
          BY <4>2, <3>1, <1>4, <1>5
        <5>2. NoneOf(r, 1, L)
          BY <4>2, <3>1, <1>4
        <5>. QED  BY <5>1, <5>2, <1>9 DEF Chained, EmptyMeansKept, L
      <4>. QED  BY <4>1, <4>2, <1>4
    <3>. QED  BY <3>1, <1>4, <1>6 DEF FirstStarts
  <2>2. NextFollows(r)'
    <3>1. ASSUME NEW i \in 1 .. (L + 1), NEW k \in 1 .. (L + 1),
                 i < k, Of(i, r)', Of(k, r)', NoneOf(r, i + 1, k - 1)',
                 IsData(k)'
          PROVE  IsData(i)' /\ channel'[k].from = channel'[i].upto
      <4>1. i \in 1 .. L
        BY <3>1, <1>4
      <4>2. CASE k \in 1 .. L
        BY <4>1, <4>2, <3>1, <1>4, <1>9 DEF Chained, NextFollows, L
      <4>3. CASE k = L + 1
        <5>1. r = s /\ channel'[k].from = written[s] - pipe[s]
          BY <4>3, <3>1, <1>4, <1>5
        <5>2. NoneOf(r, i + 1, L)
          BY <4>1, <4>3, <3>1, <1>4
        <5>3. IsData(i)
          BY <4>1, <3>1, <1>2, <1>4, <5>1 DEF LogInv, EventInv, L
        <5>4. channel[i].upto = written[r] - pipe[r]
          BY <4>1, <3>1, <1>4, <1>9, <5>2, <5>3 DEF Chained, LastEnds, L
        <5>. QED  BY <4>1, <5>1, <5>3, <5>4, <1>4
      <4>. QED  BY <4>2, <4>3, <1>4
    <3>. QED  BY <3>1, <1>4 DEF NextFollows
  <2>3. LastEnds(r)'
    BY <1>4, <1>5, <1>6, <1>9 DEF Chained, LastEnds, L
  <2>4. EmptyMeansKept(r)'
    BY <1>4, <1>5, <1>6, <1>9 DEF Chained, EmptyMeansKept, L
  <2>5. EndedSaysWhy(r)'
    <3>1. SUFFICES ASSUME reader[r] = "ended"
                   PROVE  \/ \E i \in 1 .. (L + 1) : Of(i, r)' /\ ~IsData(i)'
                          \/ pipe'[r] = 0 /\ holds'[r] = {}
      BY <1>4, <1>6 DEF EndedSaysWhy
    <3>2. r # s /\ pipe'[r] = pipe[r] /\ holds'[r] = holds[r]
      BY <3>1, <1>1, <1>2, <1>6 DEF TypeOK
    <3>. QED  BY <3>1, <3>2, <1>4, <1>9 DEF Chained, EndedSaysWhy, L
  <2>. QED  BY <2>1, <2>2, <2>3, <2>4, <2>5 DEF Chained
<1>. QED  BY <1>8, <1>9

LEMMA ReadFailsKeepsChain ==
  ASSUME LogInv, NEW s \in Streams, ReadFails(s)
  PROVE  /\ EventInv'
         /\ \A r \in Streams : Chained(r) => Chained(r)'
<1> DEFINE e == [kind |-> "error", stream |-> s]
           L == Len(channel)
<1>1. TypeOK /\ EventInv /\ reader[s] = "reading"
  BY DEF LogInv, TreeInv, TypeInv, ReadFails
<1>2. /\ L \in Nat
      /\ Len(channel') = L + 1
      /\ \A i \in 1 .. L : channel'[i] = channel[i]
      /\ channel'[L + 1] = e
  BY <1>1, Appended DEF ReadFails, ReadError
<1>3. e.kind # "data" /\ e.stream = s
  OBVIOUS
<1>4. /\ UNCHANGED <<pc, written, pipe, captured, holds>>
      /\ reader'[s] = "ended"
      /\ \A r \in Streams \ {s} : reader'[r] = reader[r]
  BY <1>1 DEF ReadFails, TypeOK, controllerVars, treeVars
<1>. HIDE DEF e, L
<1>5. EventInv'
  <2>1. pc # "launch"
    BY <1>1 DEF EventInv
  <2>2. ASSUME NEW i \in 1 .. (L + 1), NEW r \in Streams, Of(i, r)'
        PROVE  /\ ~IsData(i)' => reader'[r] = "ended"
               /\ IsData(i)' => channel'[i].upto <= written[r] - pipe[r]
    <3>1. CASE i = L + 1
      BY <3>1, <2>2, <1>2, <1>3, <1>4 DEF Of, IsData
    <3>2. CASE i \in 1 .. L
      BY <3>2, <2>2, <1>1, <1>2, <1>4 DEF EventInv, Of, IsData, L
    <3>. QED  BY <3>1, <3>2, <1>2
  <2>. QED  BY <2>1, <2>2, <1>2, <1>4 DEF EventInv
<1>6. ASSUME NEW r \in Streams, Chained(r)  PROVE Chained(r)'
  <2>. USE DEF NoneOf, Of, IsData
  <2>1. FirstStarts(r)'
    BY <1>2, <1>3, <1>4, <1>6 DEF Chained, FirstStarts, L
  <2>2. NextFollows(r)'
    <3>1. ASSUME NEW i \in 1 .. (L + 1), NEW k \in 1 .. (L + 1),
                 i < k, Of(i, r)', Of(k, r)', NoneOf(r, i + 1, k - 1)',
                 IsData(k)'
          PROVE  IsData(i)' /\ channel'[k].from = channel'[i].upto
      <4>1. i \in 1 .. L /\ k \in 1 .. L
        BY <3>1, <1>2, <1>3
      <4>. QED  BY <4>1, <3>1, <1>2, <1>6 DEF Chained, NextFollows, L
    <3>. QED  BY <3>1, <1>2 DEF NextFollows
  <2>3. LastEnds(r)'
    BY <1>2, <1>3, <1>4, <1>6 DEF Chained, LastEnds, L
  <2>4. EmptyMeansKept(r)'
    BY <1>2, <1>3, <1>4, <1>6 DEF Chained, EmptyMeansKept, L
  <2>5. EndedSaysWhy(r)'
    BY <1>2, <1>3, <1>4, <1>6 DEF Chained, EndedSaysWhy, L
  <2>. QED  BY <2>1, <2>2, <2>3, <2>4, <2>5 DEF Chained
<1>. QED  BY <1>5, <1>6

LEMMA LogInvReader ==
  ASSUME LogInv, NEW s \in Streams, Reader(s)
  PROVE  LogInv'
<1>1. TreeInv' /\ TypeOK'
  BY TreeInvReader DEF LogInv, TreeInv, TypeInv
<1>2. EventInv' /\ \A r \in Streams : Chained(r) => Chained(r)'
  <2>1. CASE Read(s)
    BY <2>1, <1>1, ReadKeepsChain
  <2>2. CASE ReadFails(s)
    BY <2>2, ReadFailsKeepsChain
  <2>3. CASE ReadEnd(s)
    <3>1. /\ UNCHANGED <<pc, written, pipe, channel, captured, holds>>
          /\ pipe[s] = 0 /\ holds[s] = {} /\ reader[s] = "reading"
          /\ reader'[s] = "ended"
          /\ \A r \in Streams \ {s} : reader'[r] = reader[r]
      BY <2>3 DEF ReadEnd, controllerVars, treeVars, LogInv, TreeInv, TypeInv,
                  TypeOK
    <3>2. EventInv'
      BY <3>1 DEF LogInv, EventInv, Of, IsData
    <3>3. ASSUME NEW r \in Streams, Chained(r)  PROVE Chained(r)'
      <4>1. FirstStarts(r)'
        BY <3>1, <3>3, Zenon DEF Chained, FirstStarts, NoneOf, Of, IsData
      <4>2. NextFollows(r)'
        BY <3>1, <3>3, SameChannelFollows DEF Chained
      <4>3. LastEnds(r)'
        BY <3>1, <3>3, Zenon DEF Chained, LastEnds, NoneOf, Of, IsData
      <4>4. EmptyMeansKept(r)'
        BY <3>1, <3>3, Zenon DEF Chained, EmptyMeansKept, NoneOf, Of
      <4>5. EndedSaysWhy(r)'
        BY <3>1, <3>3 DEF Chained, EndedSaysWhy, Of, IsData
      <4>. QED  BY <4>1, <4>2, <4>3, <4>4, <4>5 DEF Chained
    <3>. QED  BY <3>2, <3>3
  <2>. QED  BY <2>1, <2>2, <2>3 DEF Reader
<1>3. UNCHANGED <<pc, execution, result, captured, written>>
  BY DEF Reader, Read, ReadEnd, ReadFails, controllerVars
<1>4. pc = "final_scan" \/ result = "ok" => UNCHANGED channel
  <2>1. pc = "final_scan" \/ result = "ok" => reader[s] = "ended"
    BY DEF LogInv, TreeInv, ReaderInv, Streams
  <2>. QED  BY <2>1 DEF Reader, Read, ReadEnd, ReadFails
<1>. QED
  BY <1>1, <1>2, <1>3, <1>4 DEF LogInv, Accepting, LimitError

(* The head of the channel is taken, whatever becomes of it.                *)
LEMMA Taken ==
  ASSUME TypeOK, channel # <<>>, channel' = Tail(channel)
  PROVE  /\ Len(channel) \in Nat \ {0}
         /\ Len(channel') = Len(channel) - 1
         /\ \A i \in 1 .. Len(channel') : channel'[i] = channel[i + 1]
         /\ Head(channel) = channel[1]
  BY DEF TypeOK

LEMMA TakenEventInv ==
  ASSUME LogInv, channel # <<>>, channel' = Tail(channel), pc' # "launch",
         UNCHANGED <<written, pipe, reader>>
  PROVE  EventInv'
<1>1. TypeOK
  BY DEF LogInv, TreeInv, TypeInv
<1>. QED  BY <1>1, Taken DEF LogInv, EventInv, Of, IsData

(* An accepted chunk starts where the captured bytes end, so that what is   *)
(* captured now ends where the chunk does.                                  *)
LEMMA AcceptKeepsChain ==
  ASSUME LogInv, Accepting, channel # <<>>, channel' = Tail(channel),
         AcceptError(Head(channel)) = "none", Extend(Head(channel)),
         UNCHANGED <<written, pipe, reader, holds>>,
         NEW s \in Streams
  PROVE  Chained(s)'
<1> DEFINE event == Head(channel)
           L == Len(channel)
<1>1. TypeOK /\ Chained(s)
  BY DEF LogInv, TreeInv, TypeInv
<1>2. /\ L \in Nat \ {0}
      /\ Len(channel') = L - 1
      /\ \A i \in 1 .. (L - 1) : channel'[i] = channel[i + 1]
      /\ event = channel[1]
  BY <1>1, Taken
<1>3. event \in Chunk
  <2>1. event.kind # "error"
    BY DEF AcceptError
  <2>. QED  BY <1>1, <2>1, EventType DEF ReadError
<1>4. captured'[s] = IF event.stream = s THEN event.upto ELSE captured[s]
  <2>1. event.stream = s => event.from = captured[s]
    BY <1>1, <1>2, <1>3
       DEF Chained, FirstStarts, NoneOf, Of, IsData, Chunk
  <2>. QED  BY <1>1, <1>3, <2>1 DEF Extend, Chunk, TypeOK
<1>. HIDE DEF event, L
<1>5. IsData(1)
  BY <1>2, <1>3 DEF IsData, Chunk
<1>6. \A j \in 2 .. L :
        /\ j - 1 \in 1 .. (L - 1)
        /\ channel'[j - 1] = channel[j]
  BY <1>2
<1>. USE DEF NoneOf, Of, IsData
<1>7. FirstStarts(s)'
  <2>1. ASSUME NEW i \in 1 .. (L - 1), Of(i, s)', IsData(i)',
               NoneOf(s, 1, i - 1)'
        PROVE  channel'[i].from = captured'[s]
    <3>1. i + 1 \in 2 .. L /\ Of(i + 1, s) /\ IsData(i + 1)
      BY <2>1, <1>2
    <3>2. NoneOf(s, 2, i)
      <4>1. SUFFICES ASSUME NEW j \in 2 .. i PROVE ~Of(j, s)
        OBVIOUS
      <4>2. channel'[j - 1] = channel[j]
        BY <2>1, <1>2, <1>6
      <4>3. j - 1 \in 1 .. (i - 1)
        BY <1>2
      <4>. QED  BY <2>1, <4>2, <4>3
    <3>3. CASE event.stream = s
      BY <3>1, <3>2, <3>3, <1>1, <1>2, <1>4 DEF Chained, NextFollows, L
    <3>4. CASE event.stream # s
      <4>1. NoneOf(s, 1, i)
        BY <3>2, <3>4, <1>2
      <4>. QED  BY <3>1, <3>4, <4>1, <1>1, <1>2, <1>4
                DEF Chained, FirstStarts, L
    <3>. QED  BY <3>3, <3>4
  <2>. QED  BY <2>1, <1>2 DEF FirstStarts
<1>8. NextFollows(s)'
  <2>1. ASSUME NEW i \in 1 .. (L - 1), NEW k \in 1 .. (L - 1),
               i < k, Of(i, s)', Of(k, s)', NoneOf(s, i + 1, k - 1)',
               IsData(k)'
        PROVE  IsData(i)' /\ channel'[k].from = channel'[i].upto
    <3>1. /\ i + 1 \in 1 .. L /\ k + 1 \in 1 .. L /\ i + 1 < k + 1
          /\ Of(i + 1, s) /\ Of(k + 1, s) /\ IsData(k + 1)
      BY <2>1, <1>2
    <3>2. NoneOf(s, (i + 1) + 1, (k + 1) - 1)
      <4>1. SUFFICES ASSUME NEW j \in (i + 2) .. k PROVE ~Of(j, s)
        BY <1>2
      <4>2. channel'[j - 1] = channel[j]
        BY <2>1, <1>2, <1>6
      <4>3. j - 1 \in (i + 1) .. (k - 1)
        BY <1>2
      <4>. QED  BY <2>1, <4>2, <4>3
    <3>3. IsData(i + 1) /\ channel[k + 1].from = channel[i + 1].upto
      BY <3>1, <3>2, <1>1 DEF Chained, NextFollows, L
    <3>. QED  BY <3>3, <1>2
  <2>. QED  BY <2>1, <1>2 DEF NextFollows
<1>9. LastEnds(s)'
  <2>1. ASSUME NEW i \in 1 .. (L - 1), Of(i, s)', IsData(i)',
               \A j \in (i + 1) .. (L - 1) : ~Of(j, s)'
        PROVE  channel'[i].upto = written[s] - pipe[s]
    <3>1. i + 1 \in 1 .. L /\ Of(i + 1, s) /\ IsData(i + 1)
      BY <2>1, <1>2
    <3>2. NoneOf(s, (i + 1) + 1, L)
      <4>1. SUFFICES ASSUME NEW j \in (i + 2) .. L PROVE ~Of(j, s)
        BY <1>2
      <4>2. channel'[j - 1] = channel[j]
        BY <2>1, <1>2, <1>6
      <4>3. j - 1 \in (i + 1) .. (L - 1)
        BY <1>2
      <4>. QED  BY <2>1, <4>2, <4>3
    <3>. QED  BY <3>1, <3>2, <1>1, <1>2 DEF Chained, LastEnds, L
  <2>. QED  BY <2>1, <1>2 DEF LastEnds
<1>10. EmptyMeansKept(s)'
  <2>1. SUFFICES ASSUME \A j \in 1 .. (L - 1) : ~Of(j, s)'
                 PROVE  captured'[s] = written[s] - pipe[s]
    BY <1>2 DEF EmptyMeansKept
  <2>2. NoneOf(s, 2, L)
    <3>1. SUFFICES ASSUME NEW j \in 2 .. L PROVE ~Of(j, s)
      OBVIOUS
    <3>. QED  BY <2>1, <1>2, <1>6
  <2>3. CASE event.stream = s
    BY <2>2, <2>3, <1>1, <1>2, <1>4, <1>5 DEF Chained, LastEnds, L
  <2>4. CASE event.stream # s
    BY <2>2, <2>4, <1>1, <1>2, <1>4 DEF Chained, EmptyMeansKept, L
  <2>. QED  BY <2>3, <2>4
<1>11. EndedSaysWhy(s)'
  <2>1. ASSUME NEW i \in 1 .. L, Of(i, s), ~IsData(i)
        PROVE  \E k \in 1 .. (L - 1) : Of(k, s)' /\ ~IsData(k)'
    <3>1. i # 1
      BY <2>1, <1>5
    <3>2. i - 1 \in 1 .. (L - 1) /\ channel'[i - 1] = channel[i]
      BY <3>1, <1>2, <1>6
    <3>. QED  BY <2>1, <3>2
  <2>. QED  BY <2>1, <1>1, <1>2 DEF Chained, EndedSaysWhy, L
<1>. QED  BY <1>7, <1>8, <1>9, <1>10, <1>11 DEF Chained

(* A limit that is crossed was really crossed by what the processes wrote.  *)
LEMMA RefusedIsReal ==
  ASSUME LogInv, Accepting, channel # <<>>, NEW s \in Streams,
         AcceptError(Head(channel)) = LimitError(s)
  PROVE  written[s] > MaxLogBytes
<1> DEFINE event == Head(channel)
<1>1. /\ event = channel[1] /\ 1 \in 1 .. Len(channel)
      /\ TypeOK /\ PipeInv /\ Chained(s) /\ EventInv
  BY DEF LogInv, TreeInv, TypeInv, TypeOK
<1>2. event \in Chunk /\ event.stream = s /\ Exceeds(event)
  BY <1>1, EventType DEF AcceptError, LimitError, ReadError, Streams, Chunk
<1>3. event.from = captured[s]
  BY <1>1, <1>2 DEF Chained, FirstStarts, NoneOf, Of, IsData, Chunk
<1>4. event.upto <= written[s] - pipe[s]
  BY <1>1, <1>2 DEF EventInv, Of, IsData, Chunk
<1>5. /\ written[s] \in Nat /\ pipe[s] \in Nat /\ captured[s] \in Nat
      /\ event.upto \in Nat
  BY <1>1, <1>2 DEF TypeOK, Chunk
<1>. QED  BY <1>2, <1>3, <1>4, <1>5, LimitsAssumption DEF Exceeds

(* A step of the controller that does not touch the channel or the readers  *)
(* only has to keep what LogInv says of pc, execution and result.           *)
LEMMA SameLog ==
  ASSUME LogInv, TreeInv', pc' = "launch" => pc = "launch",
         UNCHANGED <<written, pipe, reader, channel, captured, holds>>,
         Accepting' => Accepting,
         pc' = "final_scan" \/ result' = "ok" => channel = <<>>,
         result' = "ok" => Accepting' /\ pc' = "done",
         \A s \in Streams :
           execution' = LimitError(s) \/ result' = LimitError(s) =>
             execution = LimitError(s) \/ result = LimitError(s)
  PROVE  LogInv'
<1>1. EventInv'
  BY DEF LogInv, EventInv, Of, IsData
<1>2. ASSUME NEW s \in Streams, Chained(s)  PROVE Chained(s)'
  <2>1. NextFollows(s)'
    BY <1>2, SameChannelFollows DEF Chained
  <2>2. FirstStarts(s)' /\ LastEnds(s)'
    BY <1>2 DEF Chained, FirstStarts, LastEnds, NoneOf, Of, IsData
  <2>3. EmptyMeansKept(s)' /\ EndedSaysWhy(s)'
    BY <1>2 DEF Chained, EmptyMeansKept, EndedSaysWhy, NoneOf, Of, IsData
  <2>. QED  BY <2>1, <2>2, <2>3 DEF Chained
<1>. QED  BY <1>1, <1>2 DEF LogInv, LimitError

(* A step that receives an event: it is kept or it ends the run.            *)
LEMMA ReceiveKeepsLog ==
  ASSUME LogInv, TreeInv', Accepting, channel # <<>>, channel' = Tail(channel),
         UNCHANGED <<written, pipe, reader, holds>>,
         pc' \notin {"launch", "final_scan"}, result # "ok", result' # "ok",
         LET error == AcceptError(Head(channel))
         IN  \/ /\ error = "none"
                /\ Extend(Head(channel))
                /\ UNCHANGED <<execution, result>>
             \/ /\ error # "none"
                /\ ~Accepting'
                /\ UNCHANGED captured
                /\ execution' \in {execution, error}
                /\ result' \in {result, error}
  PROVE  LogInv'
<1> DEFINE event == Head(channel)
<1>1. TypeOK /\ TypeOK' /\ EventInv'
  BY TakenEventInv DEF LogInv, TreeInv, TypeInv
<1>2. CASE AcceptError(event) = "none"
  <2>1. \A s \in Streams : Chained(s)'
    BY <1>2, AcceptKeepsChain
  <2>2. captured'[event.stream] <= MaxLogBytes
    <3>1. event \in Chunk /\ ~Exceeds(event)
      BY <1>1, <1>2, EventType DEF AcceptError, ReadError, LimitError
    <3>. QED
      BY <1>1, <1>2, <3>1, LimitsAssumption
         DEF Extend, Exceeds, Chunk, TypeOK
  <2>3. \A s \in Streams : captured'[s] <= MaxLogBytes
    BY <1>1, <1>2, <2>2 DEF Extend, LogInv, TypeOK
  <2>. QED  BY <1>1, <1>2, <2>1, <2>3 DEF LogInv, Accepting, LimitError
<1>3. CASE AcceptError(event) # "none"
  <2>1. \A s \in Streams : captured'[s] <= MaxLogBytes
    BY <1>3 DEF LogInv
  <2>2. ASSUME NEW s \in Streams,
               execution' = LimitError(s) \/ result' = LimitError(s)
        PROVE  written'[s] > MaxLogBytes
    <3>1. CASE AcceptError(event) = LimitError(s)
      BY <3>1, RefusedIsReal
    <3>2. CASE AcceptError(event) # LimitError(s)
      BY <2>2, <3>2, <1>3 DEF LogInv
    <3>. QED  BY <3>1, <3>2
  <2>. QED  BY <1>1, <1>3, <2>1, <2>2 DEF LogInv
<1>. QED  BY <1>2, <1>3

LEMMA LogInvController ==
  ASSUME LogInv, Controller
  PROVE  LogInv'
<1>1. /\ TreeInv' /\ TreeInv /\ TypeInv
      /\ pc \in {"try_wait", "deadline", "live_scan", "recv", "drain"} =>
           Accepting /\ result = "none"
  BY TreeInvController
     DEF LogInv, TreeInv, TypeInv, TypeOK, ChildInv, KillInv, Accepting
<1>. USE DEF controllerVars, treeVars, streamVars, fileVars, Accepting,
             LimitError, LogInv, TreeInv, ChildInv, ReaderInv
<1>2. CASE LaunchFails
  BY <1>1, <1>2, SameLog DEF LaunchFails, Return
<1>3. CASE Launch
  <2>1. /\ UNCHANGED <<execution, result, written, pipe, channel, captured>>
        /\ pc' = "try_wait" /\ pc = "launch"
        /\ \A s \in Streams : reader[s] = "none" /\ reader'[s] = "reading"
    BY <1>3 DEF Launch, EventInv
  <2>2. \A i \in 1 .. Len(channel), s \in Streams : Of(i, s) => IsData(i)
    BY <2>1 DEF EventInv
  <2>3. EventInv'
    BY <2>1, <2>2 DEF EventInv, Of, IsData
  <2>4. ASSUME NEW s \in Streams, Chained(s)  PROVE Chained(s)'
    <3>1. NextFollows(s)'
      BY <2>1, <2>4, SameChannelFollows DEF Chained
    <3>2. FirstStarts(s)' /\ LastEnds(s)'
      BY <2>1, <2>4 DEF Chained, FirstStarts, LastEnds, NoneOf, Of, IsData
    <3>3. EmptyMeansKept(s)' /\ EndedSaysWhy(s)'
      BY <2>1, <2>4 DEF Chained, EmptyMeansKept, EndedSaysWhy, NoneOf, Of
    <3>. QED  BY <3>1, <3>2, <3>3 DEF Chained
  <2>. QED  BY <1>1, <2>1, <2>3, <2>4
<1>4. CASE TryWait
  BY <1>1, <1>4, SameLog DEF TryWait, LeaveLoop
<1>5. CASE CheckDeadline
  BY <1>1, <1>5, SameLog DEF CheckDeadline, LeaveLoop
<1>6. CASE LiveScan
  BY <1>1, <1>6, SameLog DEF LiveScan, LeaveLoop, ScanErrors, ScanError
<1>7. CASE Recv
  <2>1. CASE channel = <<>>
    BY <1>1, <1>7, <2>1, SameLog DEF Recv
  <2>2. CASE channel # <<>>
    BY <1>1, <1>7, <2>2, ReceiveKeepsLog DEF Recv, LeaveLoop, AcceptError
  <2>. QED  BY <2>1, <2>2
<1>8. CASE Terminate
  BY <1>1, <1>8, SameLog DEF Terminate
<1>9. CASE Reap
  BY <1>1, <1>9, SameLog DEF Reap
<1>10. CASE JoinStdout
  BY <1>1, <1>10, SameLog DEF JoinStdout
<1>11. CASE JoinStderr
  BY <1>1, <1>11, SameLog DEF JoinStderr, Return, TypeInv, TypeOK, Errors
<1>12. CASE Drain
  <2>1. CASE channel = <<>>
    BY <1>1, <1>12, <2>1, SameLog DEF Drain
  <2>2. CASE channel # <<>>
    BY <1>1, <1>12, <2>2, ReceiveKeepsLog DEF Drain, Return, AcceptError
  <2>. QED  BY <2>1, <2>2
<1>13. CASE FinalScan
  BY <1>1, <1>13, SameLog DEF FinalScan, Return, ScanErrors, ScanError
<1>. QED
  BY <1>2, <1>3, <1>4, <1>5, <1>6, <1>7, <1>8, <1>9, <1>10, <1>11, <1>12,
     <1>13 DEF Controller

LEMMA LogInvStep == LogInv /\ [Next]_vars => LogInv'
<1>. SUFFICES ASSUME LogInv, [Next]_vars PROVE LogInv'
  OBVIOUS
<1>1. CASE Expire \/ UNCHANGED vars
  <2>1. /\ TreeInv'
        /\ UNCHANGED <<pc, execution, result, written, pipe, reader, channel,
                       captured, holds>>
    BY <1>1, TreeInvStep
       DEF LogInv, Next, Expire, vars, controllerVars, treeVars, streamVars
  <2>. QED  BY <2>1, SameLog DEF LogInv, Accepting
<1>. QED
  BY <1>1, LogInvProcess, LogInvReader, LogInvController DEF Next

LEMMA LogInvAlways == Spec => []LogInv
  BY LogInvInit, LogInvStep, PTL DEF Spec

(* A good run has kept everything.                                          *)
LEMMA GoodIsComplete == LogInv => OkComplete
<1>1. SUFFICES ASSUME LogInv, result = "ok" PROVE captured = written
  BY DEF OkComplete
<1>2. /\ TypeOK /\ Accepting /\ channel = <<>>
      /\ \A s \in Streams : reader[s] = "ended"
  BY <1>1 DEF LogInv, TreeInv, TypeInv, ReaderInv
<1>3. ASSUME NEW s \in Streams  PROVE captured[s] = written[s]
  <2>1. Chained(s) /\ Len(channel) = 0
    BY <1>1, <1>2 DEF LogInv
  <2>2. captured[s] = written[s] - pipe[s] /\ pipe[s] = 0
    BY <1>2, <2>1 DEF Chained, EmptyMeansKept, EndedSaysWhy, NoneOf
  <2>. QED  BY <1>2, <2>2 DEF TypeOK
<1>. QED  BY <1>2, <1>3 DEF TypeOK

(* A log that run returns with Ok is every byte the processes wrote.        *)
THEOREM OkIsComplete == Spec => []OkComplete
  BY GoodIsComplete, LogInvAlways, PTL

(* The next chunk of a stream always continues what is kept of it.          *)
THEOREM LogInOrder == Spec => []InOrder
<1>1. LogInv => InOrder
  <2>1. SUFFICES ASSUME LogInv, execution \in {"none", "exited"},
                        result = "none",
                        NEW i \in 1 .. Len(channel),
                        channel[i].kind = "data",
                        \A j \in 1 .. (i - 1) :
                          channel[j].stream # channel[i].stream
                 PROVE  channel[i].from = captured[channel[i].stream]
    BY DEF InOrder
  <2>2. channel[i].stream \in Streams
    BY <2>1 DEF LogInv, TreeInv, TypeInv, TypeOK, Chunk, ReadError
  <2>3. FirstStarts(channel[i].stream)
    BY <2>1, <2>2 DEF LogInv, Accepting, Chained
  <2>. QED  BY <2>1, <2>3 DEF FirstStarts, NoneOf, Of, IsData
<1>. QED  BY <1>1, LogInvAlways, PTL

(* The captured log is within its limit, and the limit is never reported of *)
(* processes that did not write more than it.                               *)
THEOREM LogIsLimited == Spec => []LogLimit
<1>1. LogInv => LogLimit
  BY DEF LogInv, LogLimit
<1>. QED  BY <1>1, LogInvAlways, PTL

-----------------------------------------------------------------------------
(* run implements BoundedRun.                                               *)

LEMMA WriteEmits ==
  ASSUME LogInv, NEW p \in Procs, NEW s \in Streams, Write(p, s)
  PROVE  Contract!Emit(s)
<1>1. result # "ok"
  BY DEF LogInv, TreeInv, ReaderInv, Write
<1>. QED
  BY <1>1 DEF Contract!Emit, Write, Outcome, controllerVars

LEMMA AcceptKeeps ==
  ASSUME LogInv, LogInv', Accepting, result = "none", result' = "none",
         channel # <<>>, AcceptError(Head(channel)) = "none",
         Extend(Head(channel)), UNCHANGED written
  PROVE  \E s \in Streams : Contract!Keep(s)
<1> DEFINE event == Head(channel)
           s == event.stream
<1>1. /\ TypeOK /\ TypeOK' /\ PipeInv /\ EventInv
      /\ event = channel[1] /\ 1 \in 1 .. Len(channel)
  BY DEF LogInv, TreeInv, TypeInv, TypeOK
<1>2. event \in Chunk
  BY <1>1, EventType DEF AcceptError, ReadError
<1>3. Chained(s)
  BY <1>2 DEF LogInv, Chunk
<1>4. event.from = captured[s]
  BY <1>1, <1>2, <1>3 DEF Chained, FirstStarts, NoneOf, Of, IsData, Chunk
<1>5. event.upto <= written[s] - pipe[s]
  BY <1>1, <1>2 DEF EventInv, Of, IsData, Chunk
<1>6. /\ written[s] \in Nat /\ pipe[s] \in Nat /\ captured[s] \in Nat
      /\ event.upto \in Nat /\ event.from < event.upto
  BY <1>1, <1>2 DEF TypeOK, Chunk
<1>7. captured' = [captured EXCEPT ![s] = event.upto]
  <2>1. captured' = [captured EXCEPT
                       ![s] = captured[s] + (event.upto - event.from)]
    BY DEF Extend
  <2>2. captured[s] + (event.upto - event.from) = event.upto
    BY <1>4, <1>6
  <2>. QED  BY <2>1, <2>2
<1>8. event.upto \in captured[s] .. written[s]
  BY <1>4, <1>5, <1>6
<1>9. event.upto <= MaxLogBytes
  <2>1. captured'[s] <= MaxLogBytes /\ captured'[s] = event.upto
    BY <1>1, <1>2, <1>7 DEF LogInv, Chunk, TypeOK
  <2>. QED  BY <2>1
<1>10. Outcome = "running" /\ Outcome' = "running"
  BY DEF Outcome
<1>. QED
  BY <1>2, <1>7, <1>8, <1>9, <1>10 DEF Contract!Keep, Chunk

LEMMA ControllerImplements ==
  ASSUME LogInv, LogInv', Controller
  PROVE  [Contract!Next]_Contract!vars
<1>1. pc # "done" /\ result = "none"
      /\ (pc \in {"recv", "drain"} => Accepting)
  BY DEF LogInv, TreeInv, TypeInv, TypeOK, ChildInv, KillInv, Accepting,
         Controller, LaunchFails, Launch, TryWait, CheckDeadline, LiveScan,
         Recv, Terminate, Reap, JoinStdout, JoinStderr, Drain, FinalScan
<1>2. UNCHANGED written
  BY DEF Controller, LaunchFails, Launch, TryWait, CheckDeadline, LiveScan,
         Recv, Terminate, Reap, JoinStdout, JoinStderr, Drain, FinalScan,
         streamVars
<1>3. CASE UNCHANGED <<captured, result>>
  BY <1>2, <1>3 DEF Contract!vars, Outcome
<1>4. CASE result' # "none" /\ UNCHANGED captured
  <2>1. CASE result' = "ok"
    <3>1. captured = written
      <4>1. (LogInv => OkComplete)'
        BY GoodIsComplete, PTL
      <4>. QED  BY <4>1, <1>2, <1>4, <2>1 DEF OkComplete
    <3>. QED
      BY <1>1, <1>2, <1>4, <2>1, <3>1
         DEF Contract!Next, Contract!ReturnGood, Outcome
  <2>2. CASE result' # "ok"
    BY <1>1, <1>2, <1>4, <2>2 DEF Contract!Next, Contract!ReturnBad, Outcome
  <2>. QED  BY <2>1, <2>2
<1>5. CASE /\ pc \in {"recv", "drain"} /\ channel # <<>> /\ UNCHANGED result
           /\ AcceptError(Head(channel)) = "none" /\ Extend(Head(channel))
  BY <1>1, <1>2, <1>5, AcceptKeeps DEF Contract!Next
<1>6. CASE Recv \/ Drain
  BY <1>1, <1>3, <1>4, <1>5, <1>6 DEF Recv, Drain, LeaveLoop, Return, AcceptError
<1>7. CASE JoinStderr \/ FinalScan \/ LaunchFails
  BY <1>1, <1>3, <1>4, <1>7 DEF JoinStderr, FinalScan, LaunchFails, Return
<1>8. CASE \/ Launch \/ TryWait \/ CheckDeadline \/ LiveScan
           \/ Terminate \/ Reap \/ JoinStdout
  BY <1>3, <1>8
     DEF Launch, TryWait, CheckDeadline, LiveScan, Terminate, Reap, JoinStdout
<1>. QED  BY <1>6, <1>7, <1>8 DEF Controller

(* Every behaviour of run is a behaviour of the contract: what is kept is   *)
(* bounded and never more than was written, and a good run has kept it all. *)
THEOREM RunImplementsContract == Spec => ImplementsContract
<1>1. Init => Contract!Init
  BY DEF Init, Contract!Init, Outcome
<1>2. LogInv /\ LogInv' /\ [Next]_vars => [Contract!Next]_Contract!vars
  <2>. SUFFICES ASSUME LogInv, LogInv', [Next]_vars
                PROVE  [Contract!Next]_Contract!vars
    OBVIOUS
  <2>1. CASE UNCHANGED <<result, written, captured>>
    BY <2>1 DEF Contract!vars, Outcome
  <2>2. CASE \E p \in Procs, s \in Streams : Write(p, s)
    BY <2>2, WriteEmits DEF Contract!Next
  <2>3. CASE Controller
    BY <2>3, ControllerImplements
  <2>4. ASSUME NEW p \in Procs, Process(p)
        PROVE  \/ UNCHANGED <<result, written, captured>>
               \/ \E s \in Streams : Write(p, s)
    BY <2>4
       DEF Process, CloseStream, ChangeFiles, Fork, Exit, Die, controllerVars,
           streamVars
  <2>5. ASSUME NEW s \in Streams, Reader(s)
        PROVE  UNCHANGED <<result, written, captured>>
    BY <2>5 DEF Reader, Read, ReadEnd, ReadFails, controllerVars
  <2>6. CASE Expire \/ UNCHANGED vars
    BY <2>1, <2>6 DEF Expire, vars, controllerVars, streamVars
  <2>. QED  BY <2>1, <2>2, <2>3, <2>4, <2>5, <2>6 DEF Next
<1>. QED
  BY <1>1, <1>2, LogInvAlways, PTL DEF Spec, ImplementsContract, Contract!Spec
=============================================================================
