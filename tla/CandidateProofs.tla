---------------------------- MODULE CandidateProofs ----------------------------
(* Proofs about CandidateProcess, for every limit, buffer and set of         *)
(* descendants, whether or not killpg is refused.                            *)
EXTENDS MCCapture, TLAPS

Places ==
  {"popen", "wait", "kill_exit", "kill", "reap", "join", "interrupt", "close",
   "check_termination", "check_readers", "check_flags", "done"}
Unreported == {"PIPES_UNAVAILABLE", "TERMINATION_FAILED"}
AllResults ==
  Unreported \union {"none", "READER_TIMEOUT", "READER_FAILED", "TIMEOUT", "LOG_OVERSIZE", "exit"}

MainTypes ==
  /\ pc \in Places
  /\ result \in AllResults
  /\ timedOut \in BOOLEAN
  /\ overflow \in BOOLEAN
  /\ readerFailed \in BOOLEAN
  /\ termFailed \in BOOLEAN

TreeTypes ==
  /\ child \in {"unborn", "running", "zombie", "reaped"}
  /\ unborn \subseteq Descendants
  /\ alive \subseteq Procs
  /\ holds \in [Streams -> SUBSET Procs]

StreamTypes ==
  /\ written \in [Streams -> Nat]
  /\ held \in [Streams -> Nat]
  /\ kept \in [Streams -> Nat]
  /\ reader \in [Streams -> {"none", "reading", "killing", "ended"}]

-----------------------------------------------------------------------------
(* Who is left.                                                             *)

(* The members of the group that run code are among those that a kill       *)
(* reached, or the kill was recorded as failed; and a child that was reaped *)
(* does not run.  A reader may record its failure after the check, when the *)
(* group is known to be gone.                                               *)
TreeInv ==
  /\ Child \in alive => child = "running"
  /\ pc = "popen" => child = "unborn" /\ alive = {}
  /\ pc # "popen" => child # "unborn" \/ result = "PIPES_UNAVAILABLE"
  /\ pc = "kill_exit" => child = "reaped"
  /\ pc \in {"reap", "join", "interrupt", "close", "check_termination"} /\ ~termFailed
       => Group \subseteq doomed
  /\ pc \in {"join", "interrupt", "close", "check_termination"} /\ ~termFailed
       => child = "reaped"
  /\ pc \in {"check_readers", "check_flags"} \/ (pc = "done" /\ result \notin Unreported)
       => child = "reaped" /\ Group \subseteq doomed

ResultInv ==
  /\ pc # "done" <=> result = "none"
  /\ pc = "check_flags" => ReadersEnded
  /\ pc = "done" /\ result \notin Unreported \union {"READER_TIMEOUT"} => ReadersEnded

(* What the readers do to the bytes.                                        *)
LogInv ==
  /\ \A s \in Streams : kept[s] <= MaxLogBytes /\ kept[s] + held[s] <= written[s]
  /\ ~overflow => \A s \in Streams : kept[s] + held[s] = written[s]
  /\ overflow => \E s \in Streams : written[s] > MaxLogBytes
  /\ ~overflow /\ ~readerFailed =>
       \A s \in Streams : /\ reader[s] # "killing"
                          /\ reader[s] = "ended" => held[s] = 0 /\ holds[s] = {}
  /\ result = "exit" => ~overflow /\ ~readerFailed

Inv ==
  /\ MainTypes /\ TreeTypes /\ StreamTypes
  /\ TreeInv /\ ResultInv /\ LogInv

LEMMA InitInv == Init => Inv
<1>. SUFFICES ASSUME Init PROVE Inv
  OBVIOUS
<1>1. MainTypes
  BY DEF Init, MainTypes, Places, AllResults
<1>2. TreeTypes /\ StreamTypes
  BY DEF Init, TreeTypes, StreamTypes
<1>3. TreeInv /\ ResultInv
  BY DEF Init, TreeInv, ResultInv, Unreported
<1>4. LogInv
  BY RunAssumption DEF Init, LogInv
<1>. QED  BY <1>1, <1>2, <1>3, <1>4 DEF Inv

-----------------------------------------------------------------------------
(* The processes.                                                           *)

LEMMA ProcessStep ==
  ASSUME Inv, NEW p \in Procs, Process(p)
  PROVE  Inv'
<1>1. UNCHANGED <<mainVars, flagVars, reader, kept, pipes, doomed>>
  BY DEF Process, Write, CloseStream, Fork, Escape, Exit, Die, End, streamVars, treeVars
<1>2. MainTypes'
  BY <1>1 DEF Inv, MainTypes, mainVars, flagVars
<1>3. ResultInv'
  BY <1>1 DEF Inv, ResultInv, ReadersEnded, mainVars
<1>4. ASSUME NEW s \in Streams, Write(p, s)
      PROVE  Inv'
  <2>1. UNCHANGED treeVars /\ p \in holds[s]
    BY <1>4 DEF Write
  <2>2. TreeTypes' /\ TreeInv'
    BY <1>1, <2>1 DEF Inv, TreeTypes, TreeInv, treeVars, mainVars, flagVars, Group
  <2>3. /\ written' = [written EXCEPT ![s] = @ + 1]
        /\ held' = [held EXCEPT ![s] = @ + 1]
    BY <1>4 DEF Write
  <2>4. StreamTypes'
    BY <1>1, <2>3 DEF Inv, StreamTypes
  <2>5. \A t \in Streams : /\ kept'[t] = kept[t] /\ written[t] \in Nat /\ held[t] \in Nat
                           /\ kept[t] \in Nat
                           /\ written'[t] = IF t = s THEN written[t] + 1 ELSE written[t]
                           /\ held'[t] = IF t = s THEN held[t] + 1 ELSE held[t]
    BY <1>1, <2>3 DEF Inv, StreamTypes
  <2>6. LogInv'
    <3>1. /\ \A t \in Streams : kept'[t] <= MaxLogBytes /\ kept'[t] + held'[t] <= written'[t]
          /\ ~overflow' => \A t \in Streams : kept'[t] + held'[t] = written'[t]
      BY <1>1, <2>5 DEF Inv, LogInv, flagVars
    <3>2. overflow' => \E t \in Streams : written'[t] > MaxLogBytes
      BY <1>1, <2>5, RunAssumption DEF Inv, LogInv, flagVars
    <3>3. ~overflow' /\ ~readerFailed' =>
            \A t \in Streams : /\ reader'[t] # "killing"
                               /\ reader'[t] = "ended" => held'[t] = 0 /\ holds'[t] = {}
      BY <1>1, <2>1, <2>5 DEF Inv, LogInv, flagVars, treeVars
    <3>4. result' = "exit" => ~overflow' /\ ~readerFailed'
      BY <1>1 DEF Inv, LogInv, mainVars, flagVars
    <3>. QED  BY <3>1, <3>2, <3>3, <3>4 DEF LogInv
  <2>. QED  BY <1>2, <1>3, <2>2, <2>4, <2>6 DEF Inv
<1>5. ASSUME UNCHANGED <<written, held>>,
             \A s \in Streams : holds[s] = {} => holds'[s] = {}
      PROVE  StreamTypes' /\ LogInv'
  BY <1>1, <1>5 DEF Inv, StreamTypes, LogInv, mainVars, flagVars
<1>6. ASSUME NEW s \in Streams, CloseStream(p, s)
      PROVE  Inv'
  <2>1. TreeTypes' /\ TreeInv'
    BY <1>1, <1>6 DEF Inv, TreeTypes, TreeInv, CloseStream, mainVars, flagVars, Group
  <2>2. UNCHANGED <<written, held>> /\ \A t \in Streams : holds[t] = {} => holds'[t] = {}
    BY <1>6 DEF CloseStream, streamVars, Inv, TreeTypes
  <2>. QED  BY <1>2, <1>3, <1>5, <2>1, <2>2 DEF Inv
<1>7. ASSUME NEW d \in Descendants, Fork(p, d)
      PROVE  Inv'
  <2>1. d # Child
    BY RunAssumption
  <2>2. TreeTypes'
    BY <1>7 DEF Inv, TreeTypes, Fork, Procs
  <2>3. TreeInv'
    BY <1>1, <1>7, <2>1 DEF Inv, TreeInv, Fork, Runs, mainVars, flagVars, Group
  <2>4. UNCHANGED <<written, held>> /\ \A t \in Streams : holds[t] = {} => holds'[t] = {}
    BY <1>7 DEF Fork, streamVars, Inv, TreeTypes
  <2>. QED  BY <1>2, <1>3, <1>5, <2>2, <2>3, <2>4 DEF Inv
<1>8. CASE Escape(p)
  <2>1. TreeTypes' /\ TreeInv'
    BY <1>1, <1>8 DEF Inv, TreeTypes, TreeInv, Escape, mainVars, flagVars, Group
  <2>2. UNCHANGED <<written, held>> /\ \A t \in Streams : holds[t] = {} => holds'[t] = {}
    BY <1>8 DEF Escape, streamVars
  <2>. QED  BY <1>2, <1>3, <1>5, <2>1, <2>2 DEF Inv
<1>9. CASE p \in alive /\ End(p)
  <2>1. TreeTypes'
    BY <1>9 DEF Inv, TreeTypes, End
  <2>2. TreeInv'
    BY <1>1, <1>9 DEF Inv, TreeInv, End, mainVars, flagVars, Group
  <2>3. UNCHANGED <<written, held>> /\ \A t \in Streams : holds[t] = {} => holds'[t] = {}
    BY <1>9 DEF End, streamVars, Inv, TreeTypes
  <2>. QED  BY <1>2, <1>3, <1>5, <2>1, <2>2, <2>3 DEF Inv
<1>. QED  BY <1>4, <1>6, <1>7, <1>8, <1>9 DEF Process, Exit, Die, Runs

-----------------------------------------------------------------------------
(* A kill.                                                                  *)

(* A kill that is said to have worked has reached the whole group; it       *)
(* revives nobody.                                                          *)
LEMMA KillFacts ==
  ASSUME Inv, KillOrRecord
  PROVE  /\ UNCHANGED <<unborn, alive, escaped, holds>>
         /\ doomed \subseteq doomed'
         /\ child' \in {child, "reaped"}
         /\ child' # child => child = "zombie"
         /\ termFailed' \in BOOLEAN /\ (termFailed => termFailed')
         /\ ~termFailed' => Group \subseteq doomed'
BY DEF KillOrRecord, KillGroup, Signal, SignalNobody, Refused, GroupAbsent, Group, Inv,
       MainTypes

LEMMA KillTree ==
  ASSUME Inv, KillOrRecord, pc' = pc, result' = result
  PROVE  TreeTypes' /\ TreeInv'
<1>. USE KillFacts
<1>1. TreeTypes'
  BY DEF Inv, TreeTypes
<1>2. Group' = Group
  BY DEF Group
<1>. QED  BY <1>1, <1>2 DEF Inv, MainTypes, TreeInv

-----------------------------------------------------------------------------
(* The readers.                                                             *)

LEMMA ChunkSize ==
  ASSUME Inv, NEW s \in Streams
  PROVE  /\ Available(s) \in Nat /\ Available(s) <= held[s]
         /\ Remaining(s) \in Nat
BY RunAssumption DEF Inv, StreamTypes, LogInv, Available, Remaining

LEMMA ReadChunkStep ==
  ASSUME Inv, NEW s \in Streams, ReadChunk(s)
  PROVE  Inv'
<1>. DEFINE n == Available(s)
            fits == n <= Remaining(s)
<1>1. /\ reader[s] = "reading" /\ pc # "done"
      /\ held' = [held EXCEPT ![s] = @ - n]
      /\ kept' = [kept EXCEPT ![s] = @ + IF fits THEN n ELSE Remaining(s)]
      /\ overflow' = (overflow \/ ~fits)
      /\ reader' = IF fits THEN reader ELSE [reader EXCEPT ![s] = "killing"]
      /\ UNCHANGED <<mainVars, readerFailed, termFailed, treeVars, written, pipes>>
  BY DEF ReadChunk
<1>2. n \in Nat /\ n <= held[s] /\ Remaining(s) \in Nat /\ Remaining(s) = MaxLogBytes - kept[s]
  BY ChunkSize DEF Remaining
<1>. HIDE DEF n
<1>3. MainTypes'
  BY <1>1 DEF Inv, MainTypes, mainVars
<1>4. TreeTypes' /\ TreeInv'
  BY <1>1 DEF Inv, TreeTypes, TreeInv, mainVars, treeVars, Group
<1>5. StreamTypes'
  BY <1>1, <1>2 DEF Inv, StreamTypes
<1>6. ResultInv'
  BY <1>1 DEF Inv, StreamTypes, ResultInv, ReadersEnded, mainVars
<1>7. LogInv'
  <2>1. CASE fits
    <3>1. \A t \in Streams : /\ kept'[t] = IF t = s THEN kept[t] + n ELSE kept[t]
                             /\ held'[t] = IF t = s THEN held[t] - n ELSE held[t]
                             /\ kept[t] \in Nat /\ held[t] \in Nat /\ written[t] \in Nat
      BY <1>1, <1>2, <2>1 DEF Inv, StreamTypes
    <3>2. UNCHANGED <<overflow, reader, written, holds, result, readerFailed>>
      BY <1>1, <2>1 DEF Inv, MainTypes, mainVars, treeVars
    <3>3. \A t \in Streams : kept'[t] <= MaxLogBytes /\ kept'[t] + held'[t] = kept[t] + held[t]
      BY <3>1, <1>2, <2>1, RunAssumption DEF Inv, LogInv
    <3>4. \A t \in Streams : reader[t] = "ended" => held'[t] = held[t]
      BY <3>1, <1>1
    <3>. QED  BY <3>2, <3>3, <3>4 DEF Inv, LogInv
  <2>2. CASE ~fits
    <3>1. written'[s] > MaxLogBytes
      BY <1>1, <1>2, <2>2, RunAssumption DEF Inv, StreamTypes, LogInv
    <3>2. \A t \in Streams : kept'[t] <= MaxLogBytes /\ kept'[t] + held'[t] <= written'[t]
      BY <1>1, <1>2, <2>2, RunAssumption DEF Inv, StreamTypes, LogInv
    <3>3. overflow' /\ result' # "exit"
      BY <1>1, <2>2 DEF Inv, ResultInv, mainVars
    <3>. QED  BY <3>1, <3>2, <3>3 DEF LogInv
  <2>. QED  BY <2>1, <2>2
<1>. QED  BY <1>3, <1>4, <1>5, <1>6, <1>7 DEF Inv

LEMMA OtherReaderSteps ==
  ASSUME Inv, NEW s \in Streams, ReadEnd(s) \/ ReadFails(s) \/ ReaderKills(s)
  PROVE  Inv'
<1>1. /\ reader[s] \in {"reading", "killing"}
      /\ \E r \in {"ended", "killing"} : reader' = [reader EXCEPT ![s] = r]
      /\ UNCHANGED <<mainVars, overflow, written, held, kept>>
  BY DEF ReadEnd, ReadFails, ReaderKills, flagVars
<1>2. StreamTypes'
  BY <1>1 DEF Inv, StreamTypes
<1>3. ResultInv'
  BY <1>1 DEF Inv, StreamTypes, ResultInv, ReadersEnded, mainVars
<1>4. MainTypes'
  BY <1>1, KillFacts DEF Inv, MainTypes, mainVars, ReadEnd, ReadFails, ReaderKills, flagVars
<1>5. TreeTypes' /\ TreeInv'
  <2>1. CASE ReadEnd(s) \/ ReadFails(s)
    BY <2>1, <1>1
       DEF ReadEnd, ReadFails, flagVars, treeVars, Inv, TreeTypes, TreeInv, Group, mainVars
  <2>2. CASE ReaderKills(s)
    BY <2>2, <1>1, KillTree DEF ReaderKills, mainVars
  <2>. QED  BY <2>1, <2>2
<1>6. LogInv'
  <2>1. CASE ReadEnd(s)
    BY <2>1, <1>1 DEF ReadEnd, Inv, StreamTypes, LogInv, flagVars, treeVars, mainVars
  <2>2. CASE ReadFails(s)
    <3>1. result # "exit"
      BY <1>1 DEF Inv, StreamTypes, ResultInv, ReadersEnded, Unreported, MainTypes
    <3>. QED
      BY <2>2, <3>1, <1>1 DEF ReadFails, Inv, LogInv, treeVars, mainVars
  <2>3. CASE ReaderKills(s)
    <3>1. overflow \/ readerFailed
      BY <2>3 DEF ReaderKills, Inv, MainTypes, LogInv
    <3>2. readerFailed' = readerFailed /\ holds' = holds
      BY <2>3, KillFacts DEF ReaderKills
    <3>. QED  BY <3>1, <3>2, <1>1 DEF Inv, LogInv, mainVars
  <2>. QED  BY <2>1, <2>2, <2>3
<1>. QED  BY <1>2, <1>3, <1>4, <1>5, <1>6 DEF Inv

-----------------------------------------------------------------------------
(* The caller.                                                              *)

LEMMA PopenStep ==
  ASSUME Inv, Popen \/ PopenFails
  PROVE  Inv'
<1>. USE DEF Inv, MainTypes, TreeTypes, StreamTypes
<1>1. CASE Popen
  <2>1. MainTypes' /\ TreeTypes' /\ StreamTypes'
    BY <1>1 DEF Popen, Places, AllResults, flagVars, Procs
  <2>2. TreeInv'
    BY <1>1 DEF Popen, TreeInv, Unreported
  <2>3. ResultInv'
    BY <1>1 DEF Popen, ResultInv
  <2>4. LogInv'
    BY <1>1 DEF Popen, LogInv, flagVars
  <2>. QED  BY <2>1, <2>2, <2>3, <2>4
<1>2. CASE PopenFails
  BY <1>2
     DEF PopenFails, Return, Places, AllResults, Unreported, TreeInv, ResultInv, LogInv,
         flagVars, treeVars, streamVars, Group, ReadersEnded
<1>. QED  BY <1>1, <1>2

(* A step of the caller that touches neither bytes nor readers.             *)
LEMMA MainLogs ==
  ASSUME Inv, UNCHANGED <<overflow, readerFailed, streamVars, holds>>,
         result' = "exit" => result = "exit" \/ (~overflow /\ ~readerFailed)
  PROVE  StreamTypes' /\ LogInv' /\ ReadersEnded' = ReadersEnded
<1>1. StreamTypes'
  BY DEF Inv, StreamTypes, streamVars
<1>2. LogInv'
  BY DEF Inv, LogInv, streamVars
<1>3. ReadersEnded' = ReadersEnded
  BY DEF ReadersEnded, streamVars
<1>. QED  BY <1>1, <1>2, <1>3

LEMMA WaitSteps ==
  ASSUME Inv, WaitReturns \/ WaitTimesOut \/ WaitFails \/ Kill \/ Reap
  PROVE  Inv'
<1>1. UNCHANGED <<overflow, readerFailed, streamVars, result>>
  BY DEF WaitReturns, WaitTimesOut, WaitFails, Kill, Reap, flagVars
<1>2. UNCHANGED <<holds, unborn, alive, escaped>>
  BY KillFacts DEF WaitReturns, WaitTimesOut, WaitFails, Kill, Reap, treeVars
<1>3. StreamTypes' /\ LogInv' /\ ReadersEnded' = ReadersEnded
  BY <1>1, <1>2, MainLogs
<1>4. MainTypes'
  BY <1>1, KillFacts
     DEF Inv, MainTypes, Places, WaitReturns, WaitTimesOut, WaitFails, Kill, Reap, flagVars
<1>5. ResultInv'
  BY <1>1, <1>3 DEF Inv, ResultInv, WaitReturns, WaitTimesOut, WaitFails, Kill, Reap
<1>6. TreeTypes'
  BY <1>2, KillFacts
     DEF Inv, TreeTypes, WaitReturns, WaitTimesOut, WaitFails, Kill, Reap, treeVars
<1>7. TreeInv'
  <2>1. CASE WaitReturns \/ WaitTimesOut \/ WaitFails
    BY <2>1, <1>1 DEF Inv, TreeInv, ResultInv, WaitReturns, WaitTimesOut, WaitFails, treeVars
  <2>2. CASE Reap
    BY <2>2, <1>1 DEF Inv, MainTypes, TreeInv, ResultInv, Reap, Group
  <2>3. CASE Kill
    <3>1. Group' = Group
      BY <1>2 DEF Group
    <3>2. pc \in {"kill", "kill_exit"} /\ pc' \in {"join", "reap"}
          /\ (pc' = "join" => pc = "kill_exit")
      BY <2>3 DEF Kill
    <3>. QED  BY <2>3, <3>1, <3>2, <1>1, <1>2, KillFacts DEF Kill, Inv, TreeInv
  <2>. QED  BY <2>1, <2>2, <2>3
<1>. QED  BY <1>3, <1>4, <1>5, <1>6, <1>7 DEF Inv

LEMMA CheckSteps ==
  ASSUME Inv, Join \/ Interrupt \/ Close \/ CheckTermination \/ CheckReaders \/ CheckFlags
  PROVE  Inv'
<1>. USE DEF Join, Interrupt, Close, CheckTermination, CheckReaders, CheckFlags, Return
<1>1. UNCHANGED <<timedOut, flagVars, treeVars, streamVars>>
  OBVIOUS
<1>2. result' = "exit" => ~overflow /\ ~readerFailed
  BY DEF Inv, ResultInv
<1>3. StreamTypes' /\ LogInv' /\ ReadersEnded' = ReadersEnded
  BY <1>1, <1>2, MainLogs DEF flagVars, treeVars
<1>4. MainTypes'
  BY <1>1 DEF Inv, MainTypes, Places, AllResults, Unreported, flagVars
<1>5. TreeTypes'
  BY <1>1 DEF Inv, TreeTypes, treeVars
<1>6. ResultInv'
  BY <1>3 DEF Inv, ResultInv, Unreported
<1>7. TreeInv'
  BY <1>1 DEF Inv, MainTypes, TreeInv, ResultInv, Unreported, flagVars, treeVars, Group
<1>. QED  BY <1>3, <1>4, <1>5, <1>6, <1>7 DEF Inv

LEMMA Step == Inv /\ [Next]_vars => Inv'
<1>. SUFFICES ASSUME Inv, [Next]_vars PROVE Inv'
  OBVIOUS
<1>1. CASE Main
  BY <1>1, PopenStep, WaitSteps, CheckSteps DEF Main
<1>2. ASSUME NEW s \in Streams, Reader(s) PROVE Inv'
  BY <1>2, ReadChunkStep, OtherReaderSteps DEF Reader
<1>3. CASE UNCHANGED vars
  BY <1>3
     DEF vars, mainVars, flagVars, treeVars, streamVars, Inv, MainTypes, TreeTypes,
         StreamTypes, TreeInv, ResultInv, LogInv, Group, ReadersEnded
<1>. QED  BY <1>1, <1>2, <1>3, ProcessStep DEF Next

LEMMA Invariant == Spec => []Inv
BY InitInv, Step, PTL DEF Spec

(* A log never holds more than its limit, and more than that was written    *)
(* when the call says so.                                                   *)
THEOREM CandidateLogLimit == Spec => []LogLimit
<1>1. Inv => LogLimit
  BY DEF Inv, LogInv, LogLimit
<1>. QED  BY <1>1, Invariant, PTL

(* A call that does not say that it could not, has reaped the converter and *)
(* killed its whole group, even when killpg was refused, descendants were   *)
(* forked meanwhile or a reader killed first; and it leaves no reader.      *)
THEOREM CandidateLeftIsReported == Spec => []LeftIsReported
<1>1. Inv => LeftIsReported
  BY DEF Inv, TreeInv, ResultInv, Unreported, LeftIsReported
<1>. QED  BY <1>1, Invariant, PTL

-----------------------------------------------------------------------------
(* The contract.                                                            *)

LEMMA InitContract == Init => Contract!Init
BY DEF Init, Contract!Init, Outcome

LEMMA SameOutcome ==
  ASSUME UNCHANGED result
  PROVE  Outcome' = Outcome
BY DEF Outcome

(* After a good run nobody holds a stream any more.                         *)
LEMMA ProcessContract ==
  ASSUME Inv, NEW p \in Procs, Process(p)
  PROVE  [Contract!Next]_Contract!vars
<1>1. UNCHANGED <<result, kept>>
  BY DEF Process, Write, CloseStream, Fork, Escape, Exit, Die, End, mainVars, streamVars
<1>2. Outcome' = Outcome
  BY <1>1, SameOutcome
<1>3. ASSUME NEW s \in Streams, Write(p, s)
      PROVE  Contract!Emit(s)
  <2>1. p \in holds[s] /\ written' = [written EXCEPT ![s] = @ + 1]
    BY <1>3 DEF Write
  <2>2. result # "exit"
    <3>1. result = "exit" => pc = "done" /\ ReadersEnded /\ ~overflow /\ ~readerFailed
      BY DEF Inv, MainTypes, ResultInv, LogInv, Unreported
    <3>. QED  BY <3>1, <2>1 DEF Inv, LogInv, ReadersEnded
  <2>3. Outcome # "good"
    BY <2>2 DEF Outcome
  <2>. QED  BY <1>1, <1>2, <2>1, <2>3 DEF Contract!Emit
<1>4. CASE UNCHANGED written
  BY <1>1, <1>2, <1>4 DEF Contract!vars
<1>5. UNCHANGED written \/ \E s \in Streams : Write(p, s)
  BY DEF Process, CloseStream, Fork, Escape, Exit, Die, End, streamVars
<1>. QED  BY <1>3, <1>4, <1>5 DEF Contract!Next

LEMMA ReaderContract ==
  ASSUME Inv, NEW s \in Streams, Reader(s)
  PROVE  [Contract!Next]_Contract!vars
<1>1. UNCHANGED <<result, written>>
  BY DEF Reader, ReadChunk, ReadEnd, ReadFails, ReaderKills, mainVars
<1>2. Outcome' = Outcome
  BY <1>1, SameOutcome
<1>3. CASE ReadChunk(s)
  <2>. DEFINE n == Available(s)
              m == IF n <= Remaining(s) THEN n ELSE Remaining(s)
  <2>1. pc # "done" /\ kept' = [kept EXCEPT ![s] = @ + m]
    BY <1>3 DEF ReadChunk
  <2>2. /\ n \in Nat /\ n <= held[s]
        /\ Remaining(s) \in Nat /\ Remaining(s) = MaxLogBytes - kept[s]
    BY ChunkSize DEF Remaining
  <2>3. Outcome = "running"
    BY <2>1 DEF Inv, ResultInv, Outcome
  <2>. HIDE DEF n
  <2>4. kept[s] + m \in kept[s] .. written[s] /\ kept[s] + m <= MaxLogBytes
    BY <2>2, RunAssumption DEF Inv, StreamTypes, LogInv
  <2>. QED  BY <1>1, <1>2, <2>1, <2>3, <2>4 DEF Contract!Next, Contract!Keep
<1>4. CASE ~ReadChunk(s)
  <2>1. UNCHANGED kept
    BY <1>4 DEF Reader, ReadEnd, ReadFails, ReaderKills
  <2>. QED  BY <1>1, <1>2, <2>1 DEF Contract!vars
<1>. QED  BY <1>3, <1>4

(* A good run is returned when both readers came to the end of their pipes  *)
(* and no byte was dropped on the way.                                      *)
LEMMA MainContract ==
  ASSUME Inv, Main
  PROVE  [Contract!Next]_Contract!vars
<1>1. UNCHANGED <<written, kept>>
  BY DEF Main, PopenFails, Popen, WaitReturns, WaitTimesOut, WaitFails, Kill, Reap, Join,
         Interrupt, Close, CheckTermination, CheckReaders, CheckFlags, streamVars
<1>2. CASE UNCHANGED result
  BY <1>1, <1>2, SameOutcome DEF Contract!vars
<1>3. CASE result' # result
  <2>1. pc # "done" /\ result = "none" /\ result' \in AllResults \ {"none"}
    BY <1>3
       DEF Main, PopenFails, Popen, WaitReturns, WaitTimesOut, WaitFails, Kill, Reap, Join,
           Interrupt, Close, CheckTermination, CheckReaders, CheckFlags, Return, AllResults,
           Unreported, Inv, ResultInv
  <2>2. CASE result' = "exit"
    <3>1. pc = "check_flags" /\ ~overflow /\ ~readerFailed
      BY <2>2, <2>1
         DEF Main, PopenFails, Popen, WaitReturns, WaitTimesOut, WaitFails, Kill, Reap, Join,
             Interrupt, Close, CheckTermination, CheckReaders, CheckFlags, Return
    <3>2. \A s \in Streams : held[s] = 0 /\ kept[s] + held[s] = written[s]
      BY <3>1 DEF Inv, ResultInv, LogInv, ReadersEnded
    <3>3. kept = written
      BY <3>2 DEF Inv, StreamTypes
    <3>. QED  BY <1>1, <2>1, <2>2, <3>3 DEF Outcome, Contract!Next, Contract!ReturnGood
  <2>3. CASE result' # "exit"
    BY <1>1, <2>1, <2>3 DEF Outcome, Contract!Next, Contract!ReturnBad
  <2>. QED  BY <2>2, <2>3
<1>. QED  BY <1>2, <1>3

LEMMA ContractStep == Inv /\ [Next]_vars => [Contract!Next]_Contract!vars
<1>. SUFFICES ASSUME Inv, [Next]_vars PROVE [Contract!Next]_Contract!vars
  OBVIOUS
<1>1. CASE UNCHANGED vars
  BY <1>1 DEF vars, mainVars, streamVars, Contract!vars, Outcome
<1>. QED  BY <1>1, MainContract, ReaderContract, ProcessContract DEF Next

(* run_bounded_process is a BoundedRun: an exit status comes with logs that *)
(* hold everything that the processes wrote, and nothing is written later.  *)
THEOREM CandidateImplementsContract == Spec => ImplementsContract
BY InitContract, ContractStep, Invariant, PTL DEF Spec, ImplementsContract, Contract!Spec

-----------------------------------------------------------------------------
(* Campaigns (NativeUnits), for every set of campaigns and of set-ups.       *)

(* A behaviour of MCCapture is one of CandidateProcess, which stutters when  *)
(* it is a campaign that runs.                                               *)
LEMMA BothIsCandidate == BothSpec => Spec
<1>1. BothInit => Init
  BY DEF BothInit
<1>2. [BothNext]_bothVars => [Next]_vars
  BY DEF BothNext, RunNext, CampaignNext, bothVars
<1>. QED  BY <1>1, <1>2, PTL DEF BothSpec, Spec

PlanFields ==
  {"pool", "pdf", "running", "cached", "after", "edited", "edits", "deaths", "counts",
   "phase", "before"}
CampaignFields == {"pc", "manifests", "listed", "broken", "pool", "tools"}
ObservationFields ==
  {"request", "by", "identity", "source", "fonts", "tools", "together", "count"}

Live == {"arriving", "waiting", "ready", "converting", "measuring", "captured", "storing"}
After == {"build", "validate", "approve", "rename", "published"}
CampaignSteps ==
  {"start", "load", "probe", "closing", "failed", "dead"} \cup Native!Phases \cup After

PlanInv ==
  /\ DOMAIN plan = PlanFields
  /\ \A q \in Native!Requests : plan.phase[q] \in Native!Phases
  /\ Native!Requests = Native!Sources \X {1, 2}
  /\ plan.counts \subseteq Nat \ {0}
  /\ plan.running \subseteq Campaigns

States == Live \cup {"todo", "done", "failed"}
StateInv ==
  /\ at \in [Campaigns -> [Native!Requests -> States]]
  /\ DOMAIN obs = Campaigns /\ \A c \in Campaigns : DOMAIN obs[c] = Native!Requests
  /\ DOMAIN camp = Campaigns
  /\ \A c \in Campaigns : DOMAIN camp[c] = CampaignFields /\ camp[c].pc \in CampaignSteps
  /\ "manifests" \in DOMAIN world /\ world["manifests"] \in Nat

(* Where the observations of a campaign are.                                *)
RunInv(c) ==
  /\ \A q \in Native!Requests : at[c][q] \in Live => camp[c].pc \in {plan.phase[q], "dead"}
  /\ camp[c].pool = "released" =>
       /\ camp[c].pc \in After \cup {"failed", "dead"}
       /\ \A q \in Native!Requests : at[c][q] \notin Live
  /\ camp[c].pc \in After => \A q \in Native!Requests : at[c][q] = "done"

(* What an observation that is under way has recorded.                      *)
Observed(c, q) ==
  /\ DOMAIN obs[c][q] = ObservationFields
  /\ obs[c][q].request = q /\ DOMAIN obs[c][q].tools = Native!ToolsOf(q)
  /\ obs[c][q].by = IF Native!UsesCache(c, q) THEN "cache" ELSE c
  /\ at[c][q] \in {"captured", "storing"} \/ (at[c][q] = "measuring" /\ Native!IsOffice(q))
       => obs[c][q].count \in Nat \ {0}
ObsInv(c) == \A q \in Native!Requests : at[c][q] \in Live => Observed(c, q)

(* The two observations of the gate are never cached, and run together.     *)
GateInv(c) ==
  \A q \in Native!Gate :
    /\ at[c][q] \notin {"captured", "storing"}
    /\ at[c][q] \in {"ready", "converting", "measuring"}
         \/ (at[c][q] = "done" /\ camp[c].pc # "failed")
         => obs[c][q].by = c /\ obs[c][q].together

(* What has been compared, and holds as long as the manifests are the same. *)
Listed(c) == \A q \in Native!Requests : obs[c][q].source = camp[c].listed[q[1]]
CheckInv(c) ==
  /\ camp[c].pc \notin {"start", "dead"} =>
       camp[c].manifests \in Nat /\ camp[c].manifests <= world["manifests"]
  /\ camp[c].pc \notin {"start", "load", "dead"} /\ world["manifests"] = camp[c].manifests =>
       manifest = camp[c].listed
  /\ camp[c].pc \in {"validate", "approve", "rename", "published"} => Native!PairsAgree(c)
  /\ camp[c].pc \in {"approve", "rename", "published"} =>
       /\ \A q \in Native!Requests : Native!ExecutionIsBound(c, q)
       /\ Native!NoncesDiffer(c)
  /\ camp[c].pc = "approve" /\ world["manifests"] = camp[c].manifests => Listed(c)
  /\ camp[c].pc \in {"rename", "published"} => Listed(c)

UnitsInv ==
  /\ PlanInv /\ StateInv /\ Native!CacheIsTrue
  /\ \A c \in Campaigns : RunInv(c) /\ ObsInv(c) /\ GateInv(c) /\ CheckInv(c)

LEMMA UnitsBegin == Native!Init => UnitsInv
<1>. SUFFICES ASSUME Native!Init PROVE UnitsInv
  OBVIOUS
<1>1. PICK p \in Plans : plan = Native!SetUp(p)
  BY DEF Native!Init
<1>2. /\ DOMAIN plan = PlanFields /\ plan.phase = Native!PhaseOf(p)
      /\ plan.pool = p.pool /\ plan.counts = p.counts /\ plan.running = p.running
  BY <1>1 DEF Native!SetUp, PlanFields
<1>3. Native!Requests = Native!Runs(p)
  BY <1>2 DEF Native!Requests, Native!PhaseOf
<1>4. \A q \in Native!Requests : plan.phase[q] \in Native!Phases
  BY <1>2, <1>3 DEF Native!PhaseOf, Native!Phases
<1>5. PlanInv
  BY <1>2, <1>3, <1>4, PlansAssumption
    DEF PlanInv, Native!PlansAssumption, Native!Runs, Native!Sources
<1>6. \A c \in Campaigns : /\ camp[c].pc = "start" /\ camp[c].pool = "none"
                           /\ DOMAIN camp[c] = CampaignFields
                           /\ DOMAIN obs[c] = Native!Requests
                           /\ \A q \in Native!Requests : at[c][q] = "todo"
  BY DEF Native!Init, CampaignFields
<1>7. StateInv
  <2>1. at \in [Campaigns -> [Native!Requests -> States]]
    BY DEF Native!Init, States
  <2>2. DOMAIN obs = Campaigns /\ DOMAIN camp = Campaigns
    BY DEF Native!Init
  <2>3. "manifests" \in DOMAIN world /\ world["manifests"] \in Nat
    BY DEF Native!Init, Native!Files
  <2>. QED  BY <1>6, <2>1, <2>2, <2>3 DEF StateInv, CampaignSteps
<1>8. Native!CacheIsTrue
  BY DEF Native!Init, Native!CacheIsTrue
<1>9. \A c \in Campaigns : RunInv(c) /\ ObsInv(c) /\ GateInv(c) /\ CheckInv(c)
  <2>1. Native!Gate \subseteq Native!Requests
    BY DEF Native!Gate, Native!Members
  <2>. QED  BY <1>6, <2>1 DEF RunInv, ObsInv, GateInv, CheckInv, Live, After
<1>. QED  BY <1>5, <1>7, <1>8, <1>9 DEF UnitsInv

(* What an observation changes: its own request and, at the barrier, those  *)
(* that wait there, which then run.                                         *)
Same(c, p) == at'[c][p] = at[c][p] /\ obs'[c][p] = obs[c][p]
Released(c, p) ==
  /\ at[c][p] = "waiting" /\ at'[c][p] = "ready"
  /\ obs'[c][p] = [obs[c][p] EXCEPT !.together = TRUE]
ObserveFrame(c, q) ==
  /\ plan' = plan /\ world' = world /\ manifest' = manifest
  /\ \A d \in Campaigns \ {c} : camp'[d] = camp[d] /\ at'[d] = at[d] /\ obs'[d] = obs[d]
  /\ camp'[c].pc = camp[c].pc /\ camp'[c].pool = camp[c].pool
  /\ camp'[c].manifests = camp[c].manifests /\ camp'[c].listed = camp[c].listed
  /\ camp'[c].tools = camp[c].tools
  /\ \A p \in Native!Requests \ {q} : Same(c, p) \/ Released(c, p)
  /\ at[c][q] \in Live \/ (at[c][q] = "todo" /\ camp[c].pc = plan.phase[q])

LEMMA AtEffect ==
  ASSUME StateInv, NEW c \in Campaigns, NEW q \in Native!Requests, NEW to \in States,
         Native!At(c, q, to)
  PROVE  /\ at' \in [Campaigns -> [Native!Requests -> States]]
         /\ at'[c][q] = to
         /\ \A p \in Native!Requests \ {q} : at'[c][p] = at[c][p]
         /\ \A d \in Campaigns \ {c} : at'[d] = at[d]
  BY DEF StateInv, Native!At

LEMMA HasEffect ==
  ASSUME StateInv, NEW c \in Campaigns, NEW q \in Native!Requests, NEW o,
         Native!Has(c, q, o)
  PROVE  /\ DOMAIN obs' = Campaigns /\ \A d \in Campaigns : DOMAIN obs'[d] = Native!Requests
         /\ obs'[c][q] = o
         /\ \A p \in Native!Requests \ {q} : obs'[c][p] = obs[c][p]
         /\ \A d \in Campaigns \ {c} : obs'[d] = obs[d]
  BY DEF StateInv, Native!Has

LEMMA FailsEffect ==
  ASSUME NEW c \in Campaigns, NEW q \in Native!Requests, Native!Fails(c, q)
  PROVE  Native!At(c, q, "failed") /\ Native!Has(c, q, Native!Nothing)
  BY DEF Native!Fails, Native!Has

(* One action moves one request of a campaign from a state to others.       *)
LEMMA MoveEffect ==
  ASSUME StateInv, NEW c \in Campaigns, NEW q \in Native!Requests, NEW to \in States,
         Native!At(c, q, to), obs' = obs \/ \E o : Native!Has(c, q, o),
         UNCHANGED <<plan, world, manifest, camp>>,
         at[c][q] \in Live \/ (at[c][q] = "todo" /\ camp[c].pc = plan.phase[q])
  PROVE  StateInv' /\ ObserveFrame(c, q)
<1>1. /\ at' \in [Campaigns -> [Native!Requests -> States]]
      /\ \A p \in Native!Requests \ {q} : at'[c][p] = at[c][p]
      /\ \A d \in Campaigns \ {c} : at'[d] = at[d]
  BY AtEffect
<1>2. /\ DOMAIN obs' = Campaigns /\ \A d \in Campaigns : DOMAIN obs'[d] = Native!Requests
      /\ \A p \in Native!Requests \ {q} : obs'[c][p] = obs[c][p]
      /\ \A d \in Campaigns \ {c} : obs'[d] = obs[d]
  <2>1. CASE obs' = obs
    BY <2>1 DEF StateInv
  <2>2. CASE \E o : Native!Has(c, q, o)
    BY <2>2, HasEffect
  <2>. QED  BY <2>1, <2>2
<1>3. Native!Requests' = Native!Requests
  BY DEF Native!Requests
<1>4. StateInv'
  BY <1>1, <1>2, <1>3 DEF StateInv
<1>5. ObserveFrame(c, q)
  BY <1>1, <1>2 DEF ObserveFrame, Same
<1>. QED  BY <1>4, <1>5

LEMMA ObserveEffect ==
  ASSUME PlanInv, StateInv, NEW c \in Campaigns, NEW q \in Native!Requests, Native!Observe(c, q)
  PROVE  StateInv' /\ ObserveFrame(c, q)
<1>1. CASE Native!Take(c, q)
  <2>1. at[c][q] = "todo" /\ camp[c].pc = plan.phase[q] /\ UNCHANGED <<plan, world, manifest, camp>>
    BY <1>1 DEF Native!Take, Native!MayTake
  <2>2. \E to \in States : Native!At(c, q, to) /\ \E o : Native!Has(c, q, o)
    BY <1>1, FailsEffect
      DEF Native!Take, Native!Materialize, Native!ReadSource, States, Live
  <2>. QED  BY <2>1, <2>2, MoveEffect
<1>2. CASE Native!Arrive(c, q)
  <2>. DEFINE waiting == {p \in Native!Gate : at[c][p] = "waiting"}
  <2>1. at[c][q] = "arriving" /\ UNCHANGED <<plan, world, manifest, camp>>
    BY <1>2 DEF Native!Arrive
  <2>2. CASE Native!Fails(c, q)
    BY <2>1, <2>2, FailsEffect, MoveEffect DEF States, Live
  <2>3. CASE Native!At(c, q, "waiting") /\ UNCHANGED obs
    BY <2>1, <2>3, MoveEffect DEF States, Live
  <2>4. CASE /\ at' = [at EXCEPT ![c] = [p \in Native!Requests |->
                         IF p \in waiting \cup {q} THEN "ready" ELSE at[c][p]]]
             /\ obs' = [obs EXCEPT ![c] = [p \in Native!Requests |->
                          IF p \in waiting \cup {q} THEN [obs[c][p] EXCEPT !.together = TRUE]
                          ELSE obs[c][p]]]
    <3>1. /\ at' \in [Campaigns -> [Native!Requests -> States]]
          /\ \A d \in Campaigns \ {c} : at'[d] = at[d] /\ obs'[d] = obs[d]
          /\ DOMAIN obs' = Campaigns /\ \A d \in Campaigns : DOMAIN obs'[d] = Native!Requests
      BY <2>4 DEF StateInv, States, Live
    <3>2. \A p \in Native!Requests \ {q} : Same(c, p) \/ Released(c, p)
      BY <2>4 DEF StateInv, Same, Released
    <3>3. Native!Requests' = Native!Requests
      BY <2>1 DEF Native!Requests
    <3>4. StateInv'
      BY <2>1, <3>1, <3>3 DEF StateInv
    <3>. QED  BY <2>1, <3>1, <3>2, <3>4 DEF ObserveFrame, Live
  <2>. QED  BY <1>2, <2>2, <2>3, <2>4 DEF Native!Arrive
<1>3. CASE Native!GiveUp(c, q)
  <2>1. /\ at[c][q] = "waiting" /\ UNCHANGED <<plan, world, manifest>>
        /\ camp' = [camp EXCEPT ![c].broken = TRUE]
        /\ Native!At(c, q, "failed") /\ Native!Has(c, q, Native!Nothing)
    BY <1>3, FailsEffect DEF Native!GiveUp
  <2>2. "failed" \in States /\ "waiting" \in Live
    BY DEF States, Live
  <2>3. /\ at' \in [Campaigns -> [Native!Requests -> States]]
        /\ \A p \in Native!Requests \ {q} : at'[c][p] = at[c][p]
        /\ \A d \in Campaigns \ {c} : at'[d] = at[d]
    BY <2>1, <2>2, AtEffect
  <2>4. /\ DOMAIN obs' = Campaigns /\ \A d \in Campaigns : DOMAIN obs'[d] = Native!Requests
        /\ \A p \in Native!Requests \ {q} : obs'[c][p] = obs[c][p]
        /\ \A d \in Campaigns \ {c} : obs'[d] = obs[d]
    BY <2>1, HasEffect
  <2>5. DOMAIN camp' = Campaigns /\ \A d \in Campaigns \ {c} : camp'[d] = camp[d]
    BY <2>1 DEF StateInv
  <2>6. /\ camp'[c] = [camp[c] EXCEPT !.broken = TRUE] /\ DOMAIN camp[c] = CampaignFields
        /\ camp[c].pc \in CampaignSteps
    BY <2>1 DEF StateInv
  <2>7. /\ DOMAIN camp'[c] = CampaignFields /\ camp'[c].pc = camp[c].pc
        /\ camp'[c].pool = camp[c].pool
        /\ camp'[c].manifests = camp[c].manifests /\ camp'[c].listed = camp[c].listed
        /\ camp'[c].tools = camp[c].tools
    BY <2>6 DEF CampaignFields
  <2>8. Native!Requests' = Native!Requests
    BY <2>1 DEF Native!Requests
  <2>9. StateInv'
    BY <2>1, <2>3, <2>4, <2>5, <2>6, <2>7, <2>8 DEF StateInv
  <2>10. ObserveFrame(c, q)
    BY <2>1, <2>2, <2>3, <2>4, <2>5, <2>7 DEF ObserveFrame, Same
  <2>. QED  BY <2>9, <2>10
<1>4. CASE Native!Run(c, q)
  <2>1. at[c][q] = "ready" /\ UNCHANGED <<plan, world, manifest, camp>>
    BY <1>4 DEF Native!Run
  <2>2. \E to \in States : Native!At(c, q, to) /\ (obs' = obs \/ \E o : Native!Has(c, q, o))
    BY <1>4, FailsEffect DEF Native!Run, States, Live
  <2>3. "ready" \in Live
    BY DEF Live
  <2>. QED  BY <2>1, <2>2, <2>3, MoveEffect
<1>5. CASE Native!Converted(c, q)
  <2>1. at[c][q] = "converting" /\ UNCHANGED <<plan, world, manifest, camp>>
    BY <1>5 DEF Native!Converted
  <2>2. \E to \in States : Native!At(c, q, to) /\ (obs' = obs \/ \E o : Native!Has(c, q, o))
    BY <1>5, FailsEffect DEF Native!Converted, States, Live
  <2>3. "converting" \in Live
    BY DEF Live
  <2>. QED  BY <2>1, <2>2, <2>3, MoveEffect
<1>6. CASE Native!Measured(c, q)
  <2>1. at[c][q] = "measuring" /\ UNCHANGED <<plan, world, manifest, camp>>
    BY <1>6 DEF Native!Measured
  <2>2. \E to \in States : Native!At(c, q, to) /\ (obs' = obs \/ \E o : Native!Has(c, q, o))
    BY <1>6, FailsEffect DEF Native!Measured, States, Live
  <2>3. "measuring" \in Live
    BY DEF Live
  <2>. QED  BY <2>1, <2>2, <2>3, MoveEffect
<1>7. CASE Native!LockEntry(c, q)
  <2>1. at[c][q] = "captured" /\ UNCHANGED <<plan, world, manifest, camp>>
    BY <1>7 DEF Native!LockEntry
  <2>2. \E to \in States : Native!At(c, q, to) /\ (obs' = obs \/ \E o : Native!Has(c, q, o))
    BY <1>7, FailsEffect DEF Native!LockEntry, States, Live
  <2>3. "captured" \in Live
    BY DEF Live
  <2>. QED  BY <2>1, <2>2, <2>3, MoveEffect
<1>8. CASE Native!Store(c, q)
  <2>1. at[c][q] = "storing" /\ UNCHANGED <<plan, world, manifest, camp>>
    BY <1>8 DEF Native!Store
  <2>2. \E to \in States : Native!At(c, q, to) /\ (obs' = obs \/ \E o : Native!Has(c, q, o))
    BY <1>8, FailsEffect DEF Native!Store, States, Live
  <2>3. "storing" \in Live
    BY DEF Live
  <2>. QED  BY <2>1, <2>2, <2>3, MoveEffect
<1>. QED  BY <1>1, <1>2, <1>3, <1>4, <1>5, <1>6, <1>7, <1>8 DEF Native!Observe

CampInv(c) == RunInv(c) /\ ObsInv(c) /\ GateInv(c) /\ CheckInv(c)

(* A campaign of which nothing changes keeps its invariant, as long as the  *)
(* manifests only grow older.                                               *)
LEMMA CampKept ==
  ASSUME NEW c \in Campaigns, CampInv(c),
         camp'[c] = camp[c], at'[c] = at[c], obs'[c] = obs[c],
         plan'.phase = plan.phase, plan'.pdf = plan.pdf, plan'.cached = plan.cached,
         plan'.pool = plan.pool,
         world["manifests"] \in Nat, world'["manifests"] \in Nat,
         world["manifests"] <= world'["manifests"],
         world'["manifests"] = world["manifests"] => manifest' = manifest
  PROVE  CampInv(c)'
<1>1. /\ Native!Requests' = Native!Requests /\ Native!Gate' = Native!Gate
      /\ Native!Sources' = Native!Sources
  BY DEF Native!Requests, Native!Gate, Native!Members, Native!Sources
<1>2. \A q \in Native!Requests : /\ Native!IsOffice(q)' = Native!IsOffice(q)
                                /\ Native!UsesCache(c, q)' = Native!UsesCache(c, q)
                                /\ Native!ToolsOf(q)' = Native!ToolsOf(q)
  BY DEF Native!IsOffice, Native!UsesCache, Native!ToolsOf
<1>3. RunInv(c)'
  BY <1>1 DEF CampInv, RunInv
<1>4. \A q \in Native!Requests : Observed(c, q)' = Observed(c, q)
  BY <1>2 DEF Observed
<1>5. ObsInv(c)'
  BY <1>1, <1>4 DEF CampInv, ObsInv
<1>6. GateInv(c)'
  BY <1>1 DEF CampInv, GateInv
<1>7. Native!PairsAgree(c)' = Native!PairsAgree(c)
  BY <1>1 DEF Native!PairsAgree
<1>8. \A q \in Native!Requests : Native!ExecutionIsBound(c, q)' = Native!ExecutionIsBound(c, q)
  BY <1>2 DEF Native!ExecutionIsBound
<1>9. Native!NoncesDiffer(c)' = Native!NoncesDiffer(c)
  BY <1>1 DEF Native!NoncesDiffer, Native!Nonce
<1>10. Listed(c)' = Listed(c)
  BY <1>1 DEF Listed
<1>11. CheckInv(c)'
  BY <1>1, <1>7, <1>8, <1>9, <1>10 DEF CampInv, CheckInv
<1>. QED  BY <1>3, <1>5, <1>6, <1>11 DEF CampInv

(* What an observation must yield for its own request.                      *)
Own(c, q) ==
  /\ at'[c][q] \in Live => Observed(c, q)'
  /\ q \in Native!Gate =>
       /\ at'[c][q] \notin {"captured", "storing"}
       /\ at'[c][q] \in {"ready", "converting", "measuring", "done"} =>
            obs'[c][q].by = c /\ obs'[c][q].together

LEMMA ObserveKeeps ==
  ASSUME PlanInv, StateInv, NEW c \in Campaigns, NEW q \in Native!Requests, CampInv(c),
         ObserveFrame(c, q), Own(c, q)
  PROVE  CampInv(c)'
<1>1. /\ Native!Requests' = Native!Requests /\ Native!Gate' = Native!Gate
      /\ Native!Gate \subseteq Native!Requests
  BY DEF Native!Requests, Native!Gate, Native!Members, ObserveFrame
<1>2. /\ camp[c].pc = plan.phase[q] \/ camp[c].pc = "dead"
      /\ camp[c].pc \notin After \cup {"closing"}
  BY DEF CampInv, RunInv, ObserveFrame, PlanInv, Native!Phases, After
<1>3. \A p \in Native!Requests \ {q} : Observed(c, p) /\ at[c][p] \in Live => Observed(c, p)'
  <2>. SUFFICES ASSUME NEW p \in Native!Requests \ {q}, Observed(c, p), at[c][p] \in Live
                PROVE  Observed(c, p)'
    OBVIOUS
  <2>1. /\ Native!IsOffice(p)' = Native!IsOffice(p)
        /\ Native!UsesCache(c, p)' = Native!UsesCache(c, p)
        /\ Native!ToolsOf(p)' = Native!ToolsOf(p)
    BY DEF Native!IsOffice, Native!UsesCache, Native!ToolsOf, ObserveFrame
  <2>2. CASE Same(c, p)
    BY <2>1, <2>2 DEF Observed, Same
  <2>3. CASE Released(c, p)
    <3>1. /\ DOMAIN obs'[c][p] = ObservationFields /\ at'[c][p] = "ready"
          /\ obs'[c][p].request = obs[c][p].request /\ obs'[c][p].tools = obs[c][p].tools
          /\ obs'[c][p].by = obs[c][p].by
      BY <2>3 DEF Observed, Released, ObservationFields
    <3>. QED  BY <2>1, <3>1 DEF Observed
  <2>. QED  BY <2>2, <2>3 DEF ObserveFrame
<1>4. \A p \in Native!Requests \ {q} : at'[c][p] \in Live <=> at[c][p] \in Live
  BY DEF ObserveFrame, Same, Released, Live
<1>5. RunInv(c)'
  <2>1. at'[c][q] \in Live => camp'[c].pc \in {plan.phase[q], "dead"}
    BY <1>2 DEF ObserveFrame
  <2>2. \A p \in Native!Requests : at'[c][p] \in Live => camp'[c].pc \in {plan.phase[p], "dead"}
    BY <1>4, <2>1 DEF ObserveFrame, CampInv, RunInv
  <2>3. camp'[c].pool # "released"
    BY <1>2 DEF CampInv, RunInv, ObserveFrame, PlanInv, Native!Phases
  <2>4. camp'[c].pc \notin After
    BY <1>2 DEF ObserveFrame
  <2>5. plan'.phase = plan.phase
    BY DEF ObserveFrame
  <2>. QED  BY <1>1, <2>2, <2>3, <2>4, <2>5 DEF RunInv
<1>6. ObsInv(c)'
  BY <1>1, <1>3, <1>4 DEF ObsInv, CampInv, Own
<1>7. GateInv(c)'
  <2>. SUFFICES ASSUME NEW p \in Native!Gate
                PROVE  /\ at'[c][p] \notin {"captured", "storing"}
                       /\ at'[c][p] \in {"ready", "converting", "measuring"}
                            \/ (at'[c][p] = "done" /\ camp'[c].pc # "failed")
                            => obs'[c][p].by = c /\ obs'[c][p].together
    BY <1>1 DEF GateInv
  <2>1. CASE p = q
    BY <2>1 DEF Own
  <2>2. CASE p # q /\ Same(c, p)
    BY <2>2 DEF CampInv, GateInv, Same, ObserveFrame
  <2>3. CASE p # q /\ Released(c, p)
    <3>1. Observed(c, p) /\ ~Native!UsesCache(c, p)
      BY <2>3, <1>1 DEF CampInv, ObsInv, Released, Live, Native!UsesCache, Native!Gate, Native!Members
    <3>. QED  BY <2>3, <3>1 DEF Released, Observed, ObservationFields
  <2>. QED  BY <1>1, <2>1, <2>2, <2>3 DEF ObserveFrame
<1>8. CheckInv(c)'
  BY <1>2 DEF CampInv, CheckInv, ObserveFrame, After
<1>. QED  BY <1>5, <1>6, <1>7, <1>8 DEF CampInv

LEMMA FailedIsOwn ==
  ASSUME StateInv, NEW c \in Campaigns, NEW q \in Native!Requests, Native!Fails(c, q)
  PROVE  Own(c, q)
<1>1. at'[c][q] = "failed"
  BY FailsEffect, AtEffect DEF States
<1>. QED  BY <1>1 DEF Own, Live

LEMMA ObserveOwn ==
  ASSUME PlanInv, StateInv, NEW c \in Campaigns, NEW q \in Native!Requests, CampInv(c),
         Native!Observe(c, q)
  PROVE  Own(c, q)
<1>. DEFINE to == at'[c][q]
            o == obs'[c][q]
<1>1. /\ plan' = plan
      /\ Native!IsOffice(q)' = Native!IsOffice(q)
      /\ Native!UsesCache(c, q)' = Native!UsesCache(c, q)
      /\ Native!ToolsOf(q)' = Native!ToolsOf(q)
  BY ObserveEffect DEF ObserveFrame, Native!IsOffice, Native!UsesCache, Native!ToolsOf
<1>2. at[c][q] \in Live => Observed(c, q)
  BY DEF CampInv, ObsInv
<1>3. q \in Native!Gate =>
        /\ ~Native!UsesCache(c, q) /\ at[c][q] \notin {"captured", "storing"}
        /\ at[c][q] \in {"ready", "converting", "measuring"} =>
             obs[c][q].by = c /\ obs[c][q].together
  BY DEF CampInv, GateInv, Native!UsesCache, Native!Gate, Native!Members
<1>4. CASE Native!Take(c, q)
  <2>1. CASE Native!Materialize(c, q) /\ Native!UsesCache(c, q)
    <3>1. CASE Native!Fails(c, q)
      BY <3>1, FailedIsOwn
    <3>2. CASE Native!At(c, q, "done")
      <4>1. to = "done"
        BY <3>2, AtEffect DEF States
      <4>. QED  BY <4>1, <2>1, <1>3 DEF Own, Live
    <3>. QED  BY <2>1, <3>1, <3>2 DEF Native!Materialize
  <2>2. CASE Native!ReadSource(c, q)
    <3>1. CASE Native!Fails(c, q)
      BY <3>1, FailedIsOwn
    <3>2. CASE /\ Native!At(c, q, IF q \in Native!Gate THEN "arriving" ELSE "ready")
               /\ Native!Has(c, q, Native!Observation(c, q))
      <4>1. to = IF q \in Native!Gate THEN "arriving" ELSE "ready"
        BY <3>2, AtEffect DEF States, Live
      <4>2. o = Native!Observation(c, q)
        BY <3>2, HasEffect
      <4>3. /\ DOMAIN o = ObservationFields /\ o.request = q
            /\ DOMAIN o.tools = Native!ToolsOf(q)
            /\ o.by = IF Native!UsesCache(c, q) THEN "cache" ELSE c
        BY <4>2 DEF Native!Observation, ObservationFields
      <4>4. Observed(c, q)'
        BY <4>1, <4>3, <1>1 DEF Observed
      <4>. QED  BY <4>1, <4>4 DEF Own
    <3>. QED  BY <2>2, <3>1, <3>2 DEF Native!ReadSource
  <2>. QED  BY <1>4, <2>1, <2>2 DEF Native!Take
<1>5. CASE Native!Arrive(c, q)
  <2>. DEFINE waiting == {p \in Native!Gate : at[c][p] = "waiting"}
  <2>1. at[c][q] = "arriving" /\ Observed(c, q)
    BY <1>5, <1>2 DEF Native!Arrive, Live
  <2>2. CASE Native!Fails(c, q)
    BY <2>2, FailedIsOwn
  <2>3. CASE Native!At(c, q, "waiting") /\ UNCHANGED obs
    <3>1. to = "waiting" /\ o = obs[c][q]
      BY <2>3, AtEffect DEF States, Live
    <3>2. Observed(c, q)'
      BY <3>1, <2>1, <1>1 DEF Observed
    <3>. QED  BY <3>1, <3>2 DEF Own
  <2>4. CASE /\ at' = [at EXCEPT ![c] = [p \in Native!Requests |->
                         IF p \in waiting \cup {q} THEN "ready" ELSE at[c][p]]]
             /\ obs' = [obs EXCEPT ![c] = [p \in Native!Requests |->
                          IF p \in waiting \cup {q} THEN [obs[c][p] EXCEPT !.together = TRUE]
                          ELSE obs[c][p]]]
    <3>1. to = "ready" /\ o = [obs[c][q] EXCEPT !.together = TRUE]
      BY <2>4 DEF StateInv
    <3>2. /\ DOMAIN o = ObservationFields /\ o.request = q /\ o.tools = obs[c][q].tools
          /\ o.by = obs[c][q].by /\ o.together
      BY <3>1, <2>1 DEF Observed, ObservationFields
    <3>3. Observed(c, q)'
      BY <3>1, <3>2, <2>1, <1>1 DEF Observed
    <3>. QED  BY <3>1, <3>2, <3>3, <2>1, <1>3 DEF Own, Observed
  <2>. QED  BY <1>5, <2>2, <2>3, <2>4 DEF Native!Arrive
<1>6. CASE Native!GiveUp(c, q)
  BY <1>6, FailedIsOwn DEF Native!GiveUp
<1>7. CASE Native!Run(c, q)
  <2>1. at[c][q] = "ready" /\ Observed(c, q)
    BY <1>7, <1>2 DEF Native!Run, Live
  <2>2. CASE Native!Fails(c, q)
    BY <2>2, FailedIsOwn
  <2>3. CASE Native!IsOffice(q) /\ Native!At(c, q, "converting") /\ UNCHANGED obs
    <3>1. to = "converting" /\ o = obs[c][q]
      BY <2>3, AtEffect DEF States, Live
    <3>2. Observed(c, q)'
      BY <3>1, <2>1, <1>1 DEF Observed
    <3>. QED  BY <3>1, <3>2, <2>1, <1>3 DEF Own
  <2>4. CASE ~Native!IsOffice(q) /\ Native!At(c, q, "measuring") /\ UNCHANGED obs
    <3>1. to = "measuring" /\ o = obs[c][q]
      BY <2>4, AtEffect DEF States, Live
    <3>2. Observed(c, q)'
      BY <3>1, <2>1, <2>4, <1>1 DEF Observed
    <3>. QED  BY <3>1, <3>2, <2>1, <1>3 DEF Own
  <2>. QED  BY <1>7, <2>2, <2>3, <2>4 DEF Native!Run
<1>8. CASE Native!Converted(c, q)
  <2>1. at[c][q] = "converting" /\ Observed(c, q)
    BY <1>8, <1>2 DEF Native!Converted, Live
  <2>2. CASE Native!Fails(c, q)
    BY <2>2, FailedIsOwn
  <2>3. CASE /\ Native!At(c, q, "measuring")
             /\ \E n \in plan.counts : Native!Has(c, q, [obs[c][q] EXCEPT !.count = n])
    <3>1. PICK n \in plan.counts : Native!Has(c, q, [obs[c][q] EXCEPT !.count = n])
      BY <2>3
    <3>2. to = "measuring" /\ o = [obs[c][q] EXCEPT !.count = n] /\ n \in Nat \ {0}
      BY <2>3, <3>1, AtEffect, HasEffect DEF States, Live, PlanInv
    <3>3. /\ DOMAIN o = ObservationFields /\ o.request = q /\ o.tools = obs[c][q].tools
          /\ o.by = obs[c][q].by /\ o.together = obs[c][q].together /\ o.count = n
      BY <3>2, <2>1 DEF Observed, ObservationFields
    <3>4. Observed(c, q)'
      BY <3>2, <3>3, <2>1, <1>1 DEF Observed
    <3>. QED  BY <3>2, <3>3, <3>4, <2>1, <1>3 DEF Own
  <2>. QED  BY <1>8, <2>2, <2>3 DEF Native!Converted
<1>9. CASE Native!Measured(c, q)
  <2>1. at[c][q] = "measuring" /\ Observed(c, q)
    BY <1>9, <1>2 DEF Native!Measured, Live
  <2>2. CASE Native!Fails(c, q)
    BY <2>2, FailedIsOwn
  <2>3. CASE /\ Native!At(c, q, IF Native!UsesCache(c, q) THEN "captured" ELSE "done")
             /\ Native!Has(c, q, [obs[c][q] EXCEPT !.identity = 0,
                        !.count = IF Native!IsOffice(q) THEN @ ELSE 1])
    <3>1. to = IF Native!UsesCache(c, q) THEN "captured" ELSE "done"
      BY <2>3, AtEffect DEF States, Live
    <3>2. o = [obs[c][q] EXCEPT !.identity = 0, !.count = IF Native!IsOffice(q) THEN @ ELSE 1]
      BY <2>3, HasEffect
    <3>3. /\ DOMAIN o = ObservationFields /\ o.request = q /\ o.tools = obs[c][q].tools
          /\ o.by = obs[c][q].by /\ o.together = obs[c][q].together
      BY <3>2, <2>1 DEF Observed, ObservationFields
    <3>4. o.count \in Nat \ {0}
      BY <3>2, <2>1 DEF Observed, ObservationFields
    <3>5. Observed(c, q)'
      BY <3>3, <3>4, <2>1, <1>1 DEF Observed
    <3>. QED  BY <3>1, <3>3, <3>5, <2>1, <1>3 DEF Own
  <2>. QED  BY <1>9, <2>2, <2>3 DEF Native!Measured
<1>10. CASE Native!LockEntry(c, q)
  <2>1. at[c][q] = "captured" /\ Observed(c, q) /\ q \notin Native!Gate
    BY <1>10, <1>2, <1>3 DEF Native!LockEntry, Live
  <2>2. CASE Native!Fails(c, q)
    BY <2>2, FailedIsOwn
  <2>3. CASE Native!At(c, q, "done")
    <3>1. to = "done"
      BY <2>3, AtEffect DEF States
    <3>. QED  BY <3>1, <2>1 DEF Own, Live
  <2>4. CASE Native!At(c, q, "storing") /\ UNCHANGED obs
    <3>1. to = "storing" /\ o = obs[c][q]
      BY <2>4, AtEffect DEF States, Live
    <3>2. Observed(c, q)'
      BY <3>1, <2>1, <1>1 DEF Observed
    <3>. QED  BY <3>1, <3>2, <2>1 DEF Own
  <2>. QED  BY <1>10, <2>2, <2>3, <2>4 DEF Native!LockEntry
<1>11. CASE Native!Store(c, q)
  <2>1. at[c][q] = "storing" /\ q \notin Native!Gate
    BY <1>11, <1>3 DEF Native!Store
  <2>2. CASE Native!Fails(c, q)
    BY <2>2, FailedIsOwn
  <2>3. CASE Native!At(c, q, "done")
    <3>1. to = "done"
      BY <2>3, AtEffect DEF States
    <3>. QED  BY <3>1, <2>1 DEF Own, Live
  <2>. QED  BY <1>11, <2>2, <2>3 DEF Native!Store
<1>. QED  BY <1>4, <1>5, <1>6, <1>7, <1>8, <1>9, <1>10, <1>11 DEF Native!Observe

LEMMA ObserveKeepsCache ==
  ASSUME PlanInv, StateInv, NEW c \in Campaigns, NEW q \in Native!Requests, CampInv(c),
         Native!CacheIsTrue, Native!Observe(c, q)
  PROVE  Native!CacheIsTrue'
<1>1. plan' = plan
  BY ObserveEffect DEF ObserveFrame
<1>2. \A r : Native!ToolsOf(r)' = Native!ToolsOf(r) /\ Native!IsOffice(r)' = Native!IsOffice(r)
  BY <1>1 DEF Native!ToolsOf, Native!IsOffice
<1>3. CASE cache' = cache
  BY <1>2, <1>3 DEF Native!CacheIsTrue
<1>4. CASE Native!Store(c, q) /\ cache' # cache
  <2>. DEFINE key == Native!Key(c, q)
              entry == obs[c][q]
  <2>1. /\ cache' = [k \in DOMAIN cache \cup {key} |->
                       IF k \in DOMAIN cache THEN cache[k] ELSE entry]
        /\ Native!EntryMatches(key, entry)
    BY <1>4 DEF Native!Store
  <2>2. Observed(c, q) /\ entry.count > 0
    BY <1>4 DEF Native!Store, CampInv, ObsInv, Live, Observed
  <2>3. key.request = q
    BY DEF Native!Key
  <2>4. /\ entry.request = key.request /\ entry.source = key.source
        /\ \A t \in Native!ToolsOf(key.request) : entry.tools[t] = key.tools[t]
        /\ Native!IsOffice(key.request) => entry.fonts = key.fonts
    BY <2>1, <2>2, <2>3 DEF Native!EntryMatches, Observed, Native!IsOffice
  <2>. HIDE DEF key, entry
  <2>. QED  BY <1>2, <2>1, <2>2, <2>4 DEF Native!CacheIsTrue
<1>5. cache' = cache \/ Native!Store(c, q)
  BY DEF Native!Observe, Native!Take, Native!Arrive, Native!GiveUp, Native!Run,
    Native!Converted, Native!Measured, Native!LockEntry
<1>. QED  BY <1>3, <1>4, <1>5

(* What a step of a campaign itself changes: only its own record, and the   *)
(* observations when they are thrown away.                                  *)
StepFrame(c) ==
  /\ plan' = plan /\ world' = world /\ manifest' = manifest /\ at' = at
  /\ \A d \in Campaigns \ {c} : camp'[d] = camp[d] /\ obs'[d] = obs[d]
  /\ obs'[c] = obs[c] \/ camp'[c].pc = "failed"

Idle(c) == \A q \in Native!Requests : at[c][q] \notin Live

LEMMA StepKeeps ==
  ASSUME PlanInv, StateInv, NEW c \in Campaigns, CampInv(c), StepFrame(c), Idle(c),
         camp[c].pc # "failed",
         camp'[c].pool = "released" => camp'[c].pc \in After \cup {"failed"},
         camp'[c].pc \in After => \A q \in Native!Requests : at[c][q] = "done",
         CheckInv(c)'
  PROVE  CampInv(c)'
<1>1. /\ Native!Requests' = Native!Requests /\ Native!Gate' = Native!Gate
      /\ Native!Gate \subseteq Native!Requests
  BY DEF Native!Requests, Native!Gate, Native!Members, StepFrame
<1>2. RunInv(c)'
  BY <1>1 DEF StepFrame, RunInv, Idle
<1>3. ObsInv(c)'
  BY <1>1 DEF StepFrame, ObsInv, Idle
<1>4. GateInv(c)'
  BY <1>1 DEF StepFrame, GateInv, CampInv, Idle, Live
<1>. QED  BY <1>2, <1>3, <1>4 DEF CampInv

LEMMA StepState ==
  ASSUME StateInv, NEW c \in Campaigns, StepFrame(c), NEW r, camp' = [camp EXCEPT ![c] = r],
         DOMAIN r = CampaignFields, r.pc \in CampaignSteps,
         DOMAIN obs' = Campaigns, DOMAIN obs'[c] = Native!Requests
  PROVE  StateInv'
<1>1. Native!Requests' = Native!Requests
  BY DEF Native!Requests, StepFrame
<1>2. DOMAIN camp' = Campaigns /\ camp'[c] = r
  BY DEF StateInv
<1>. QED  BY <1>1, <1>2 DEF StateInv, StepFrame

(* The frame of a step that throws its observations away unless ok.         *)
LEMMA KeepsEffect ==
  ASSUME StateInv, NEW c \in Campaigns, NEW ok \in BOOLEAN, Native!Keeps(c, ok)
  PROVE  /\ DOMAIN obs' = Campaigns /\ DOMAIN obs'[c] = Native!Requests
         /\ \A d \in Campaigns \ {c} : obs'[d] = obs[d]
         /\ ok => obs'[c] = obs[c]
  BY DEF StateInv, Native!Keeps

LEMMA GoesEffect ==
  ASSUME StateInv, NEW c \in Campaigns, NEW to \in CampaignSteps, Native!Goes(c, to)
  PROVE  /\ \A d \in Campaigns \ {c} : camp'[d] = camp[d]
         /\ camp' = [camp EXCEPT ![c] = camp'[c]]
         /\ DOMAIN camp'[c] = CampaignFields /\ camp'[c].pc = to
         /\ camp'[c].pool = camp[c].pool /\ camp'[c].tools = camp[c].tools
         /\ camp'[c].manifests = camp[c].manifests /\ camp'[c].listed = camp[c].listed
<1>. DEFINE r == [camp[c] EXCEPT !.pc = to]
<1>1. camp' = [camp EXCEPT ![c] = r]
  BY DEF StateInv, Native!Goes
<1>2. /\ DOMAIN r = CampaignFields /\ r.pc = to
      /\ r.pool = camp[c].pool /\ r.tools = camp[c].tools
      /\ r.manifests = camp[c].manifests /\ r.listed = camp[c].listed
  BY DEF StateInv, CampaignFields
<1>. HIDE DEF r
<1>3. camp'[c] = r /\ \A d \in Campaigns \ {c} : camp'[d] = camp[d]
  BY <1>1 DEF StateInv
<1>4. camp' = [camp EXCEPT ![c] = camp'[c]]
  BY <1>1, <1>3
<1>. QED  BY <1>2, <1>3, <1>4

LEMMA OutsidePhasesIdle ==
  ASSUME PlanInv, NEW c \in Campaigns, CampInv(c), camp[c].pc \notin Native!Phases \cup {"dead"}
  PROVE  Idle(c)
  BY DEF PlanInv, CampInv, RunInv, Idle

LEMMA TrustKeeps ==
  ASSUME PlanInv, StateInv, NEW c \in Campaigns, CampInv(c), Native!Trust(c)
  PROVE  StateInv' /\ StepFrame(c) /\ CampInv(c)'
<1>. DEFINE r == [camp[c] EXCEPT !.pc = "load", !.manifests = world["manifests"]]
<1>1. /\ camp[c].pc = "start" /\ camp' = [camp EXCEPT ![c] = r]
      /\ UNCHANGED <<plan, world, manifest, at, obs>>
  BY DEF Native!Trust, StateInv
<1>2. /\ DOMAIN r = CampaignFields /\ r.pc = "load" /\ r.manifests = world["manifests"]
      /\ r.pool = camp[c].pool
  BY DEF StateInv, CampaignFields
<1>3. camp'[c] = r /\ \A d \in Campaigns \ {c} : camp'[d] = camp[d]
  BY <1>1 DEF StateInv
<1>4. StepFrame(c)
  BY <1>1, <1>3 DEF StepFrame
<1>5. StateInv'
  <2>. HIDE DEF r
  <2>. QED  BY <1>1, <1>2, <1>4, StepState DEF CampaignSteps, StateInv
<1>6. Idle(c)
  BY <1>1, OutsidePhasesIdle DEF Native!Phases
<1>7. CheckInv(c)'
  BY <1>1, <1>2, <1>3 DEF CheckInv, StateInv
<1>8. camp[c].pool # "released"
  BY <1>1 DEF CampInv, RunInv, After
<1>. QED  BY <1>1, <1>2, <1>3, <1>4, <1>5, <1>6, <1>7, <1>8, StepKeeps DEF After

LEMMA LoadKeeps ==
  ASSUME PlanInv, StateInv, NEW c \in Campaigns, CampInv(c), Native!Load(c)
  PROVE  StateInv' /\ StepFrame(c) /\ CampInv(c)'
<1>. DEFINE to == IF Native!PoolIsValid /\ Native!FontsAreValid THEN "probe" ELSE "failed"
            r == [camp[c] EXCEPT !.pc = to, !.listed = manifest]
<1>1. /\ camp[c].pc = "load" /\ camp' = [camp EXCEPT ![c] = r]
      /\ UNCHANGED <<plan, world, manifest, at, obs>>
  BY DEF Native!Load, StateInv
<1>2. /\ DOMAIN r = CampaignFields /\ r.pc \in {"probe", "failed"} /\ r.listed = manifest
      /\ r.pool = camp[c].pool /\ r.manifests = camp[c].manifests
  BY DEF StateInv, CampaignFields
<1>3. camp'[c] = r /\ \A d \in Campaigns \ {c} : camp'[d] = camp[d]
  BY <1>1 DEF StateInv
<1>4. StepFrame(c)
  BY <1>1, <1>3 DEF StepFrame
<1>5. StateInv'
  <2>. HIDE DEF r
  <2>. QED  BY <1>1, <1>2, <1>4, StepState DEF CampaignSteps, StateInv
<1>6. Idle(c)
  BY <1>1, OutsidePhasesIdle DEF Native!Phases
<1>7. CheckInv(c)'
  <2>. HIDE DEF r
  <2>. QED  BY <1>1, <1>2, <1>3 DEF CheckInv, CampInv
<1>8. camp[c].pool # "released"
  BY <1>1 DEF CampInv, RunInv, After
<1>. HIDE DEF r
<1>. QED  BY <1>1, <1>2, <1>3, <1>4, <1>5, <1>6, <1>7, <1>8, StepKeeps DEF After

LEMMA ProbeKeeps ==
  ASSUME PlanInv, StateInv, NEW c \in Campaigns, CampInv(c), Native!Probe(c)
  PROVE  StateInv' /\ StepFrame(c) /\ CampInv(c)'
<1>1. PICK r : /\ camp' = [camp EXCEPT ![c] = r]
               /\ DOMAIN r = CampaignFields /\ r.pc \in {"closing", "preflight"}
               /\ r.manifests = camp[c].manifests /\ r.listed = camp[c].listed
               /\ r.pool \in {camp[c].pool, "held"}
  <2>1. CASE Native!Goes(c, "closing")
    <3>. DEFINE r == [camp[c] EXCEPT !.pc = "closing"]
    <3>1. camp' = [camp EXCEPT ![c] = r]
      BY <2>1 DEF Native!Goes, StateInv
    <3>2. /\ DOMAIN r = CampaignFields /\ r.pc = "closing" /\ r.pool = camp[c].pool
          /\ r.manifests = camp[c].manifests /\ r.listed = camp[c].listed
      BY DEF StateInv, CampaignFields
    <3>. HIDE DEF r
    <3>. QED  BY <3>1, <3>2
  <2>2. CASE camp' = [camp EXCEPT ![c].pc = "preflight", ![c].pool = "held",
                   ![c].tools = [t \in Native!Tools |-> Native!Copy(t)]]
    <3>. DEFINE tools == [t \in Native!Tools |-> Native!Copy(t)]
                r == [camp[c] EXCEPT !.pc = "preflight", !.pool = "held", !.tools = tools]
    <3>1. camp' = [camp EXCEPT ![c] = r]
      BY <2>2 DEF StateInv
    <3>2. /\ DOMAIN r = CampaignFields /\ r.pc = "preflight" /\ r.pool = "held"
          /\ r.manifests = camp[c].manifests /\ r.listed = camp[c].listed
      BY DEF StateInv, CampaignFields
    <3>. HIDE DEF r
    <3>. QED  BY <3>1, <3>2
  <2>. QED  BY <2>1, <2>2 DEF Native!Probe
<1>2. camp[c].pc = "probe" /\ UNCHANGED <<plan, world, manifest, at, obs>>
  BY DEF Native!Probe
<1>3. camp'[c] = r /\ \A d \in Campaigns \ {c} : camp'[d] = camp[d]
  BY <1>1 DEF StateInv
<1>4. StepFrame(c)
  BY <1>2, <1>3 DEF StepFrame
<1>5. StateInv'
  BY <1>1, <1>2, <1>4, StepState DEF CampaignSteps, StateInv, Native!Phases
<1>6. Idle(c)
  BY <1>2, OutsidePhasesIdle DEF Native!Phases
<1>7. CheckInv(c)'
  BY <1>1, <1>2, <1>3 DEF CheckInv, CampInv
<1>8. camp[c].pool # "released"
  BY <1>2 DEF CampInv, RunInv, After
<1>9. /\ camp[c].pc # "failed"
      /\ camp'[c].pool = "released" => camp'[c].pc \in After \cup {"failed"}
      /\ camp'[c].pc \in After => \A q \in Native!Requests : at[c][q] = "done"
  BY <1>1, <1>2, <1>3, <1>8 DEF After
<1>. QED  BY <1>4, <1>5, <1>6, <1>7, <1>9, StepKeeps

LEMMA EndPhaseKeeps ==
  ASSUME PlanInv, StateInv, NEW c \in Campaigns, CampInv(c), Native!EndPhase(c)
  PROVE  StateInv' /\ StepFrame(c) /\ CampInv(c)'
<1>1. /\ camp[c].pc \in Native!Phases
      /\ \A q \in Native!Members(camp[c].pc) : at[c][q] \in {"done", "failed"}
      /\ UNCHANGED <<plan, world, manifest, at, obs>>
  BY DEF Native!EndPhase
<1>2. PICK to \in {"closing", "gate", "rest"} : Native!Goes(c, to)
  BY DEF Native!EndPhase, Native!Phases, Native!PhaseAfter
<1>3. to \in CampaignSteps
  BY DEF CampaignSteps, Native!Phases
<1>4. /\ \A d \in Campaigns \ {c} : camp'[d] = camp[d]
      /\ camp' = [camp EXCEPT ![c] = camp'[c]]
      /\ DOMAIN camp'[c] = CampaignFields /\ camp'[c].pc = to /\ camp'[c].pool = camp[c].pool
      /\ camp'[c].manifests = camp[c].manifests /\ camp'[c].listed = camp[c].listed
  BY <1>2, <1>3, GoesEffect
<1>5. StepFrame(c)
  BY <1>1, <1>4 DEF StepFrame
<1>6. StateInv'
  <2>1. PICK r : r = camp'[c]
    OBVIOUS
  <2>. QED  BY <1>1, <1>3, <1>4, <1>5, <2>1, StepState DEF StateInv
<1>7. Idle(c)
  BY <1>1 DEF CampInv, RunInv, Idle, Live, Native!Members, Native!Phases
<1>8. CheckInv(c)'
  BY <1>1, <1>4 DEF CheckInv, CampInv, Native!Phases
<1>9. camp[c].pool # "released" /\ camp[c].pc # "failed"
  BY <1>1 DEF CampInv, RunInv, After, Native!Phases
<1>. QED  BY <1>4, <1>5, <1>6, <1>7, <1>8, <1>9, StepKeeps DEF After

LEMMA CloseKeeps ==
  ASSUME PlanInv, StateInv, NEW c \in Campaigns, CampInv(c), Native!Close(c)
  PROVE  StateInv' /\ StepFrame(c) /\ CampInv(c)'
<1>1. PICK ok \in BOOLEAN :
        /\ ok <=> \A q \in Native!Requests : at[c][q] = "done"
        /\ camp' = [camp EXCEPT ![c].pool = "released",
                               ![c].pc = IF ok THEN "build" ELSE "failed"]
        /\ Native!Keeps(c, ok)
  BY DEF Native!Close
<1>. DEFINE r == [camp[c] EXCEPT !.pool = "released", !.pc = IF ok THEN "build" ELSE "failed"]
<1>2. camp[c].pc = "closing" /\ UNCHANGED <<plan, world, manifest, at>>
  BY DEF Native!Close
<1>3. /\ camp' = [camp EXCEPT ![c] = r] /\ camp'[c] = r
      /\ \A d \in Campaigns \ {c} : camp'[d] = camp[d]
  BY <1>1 DEF StateInv
<1>4. /\ DOMAIN r = CampaignFields /\ r.pc = IF ok THEN "build" ELSE "failed"
      /\ r.manifests = camp[c].manifests /\ r.listed = camp[c].listed
  BY DEF StateInv, CampaignFields
<1>. HIDE DEF r
<1>5. /\ DOMAIN obs' = Campaigns /\ DOMAIN obs'[c] = Native!Requests
      /\ \A d \in Campaigns \ {c} : obs'[d] = obs[d]
      /\ ok => obs'[c] = obs[c]
  BY <1>1, KeepsEffect
<1>6. StepFrame(c)
  BY <1>2, <1>3, <1>4, <1>5 DEF StepFrame
<1>7. StateInv'
  BY <1>3, <1>4, <1>5, <1>6, StepState DEF CampaignSteps, After
<1>8. Idle(c)
  BY <1>2, OutsidePhasesIdle DEF Native!Phases
<1>9. CheckInv(c)'
  BY <1>2, <1>3, <1>4 DEF CheckInv, CampInv
<1>10. /\ camp[c].pc # "failed"
       /\ camp'[c].pool = "released" => camp'[c].pc \in After \cup {"failed"}
       /\ camp'[c].pc \in After => \A q \in Native!Requests : at[c][q] = "done"
  BY <1>1, <1>2, <1>3, <1>4 DEF After
<1>. QED  BY <1>6, <1>7, <1>8, <1>9, <1>10, StepKeeps

(* A check of the inventory: the campaign goes on or fails.                 *)
LEMMA HoldsEffect ==
  ASSUME PlanInv, StateInv, NEW c \in Campaigns, CampInv(c), camp[c].pc \in After \ {"published"},
         NEW ok \in BOOLEAN, NEW to \in After, Native!Holds(c, ok, to),
         UNCHANGED <<plan, world, manifest, at>>
  PROVE  /\ StateInv' /\ StepFrame(c) /\ Idle(c)
         /\ camp'[c].pc = IF ok THEN to ELSE "failed"
         /\ camp'[c].manifests = camp[c].manifests /\ camp'[c].listed = camp[c].listed
         /\ camp'[c].tools = camp[c].tools
         /\ ok => obs'[c] = obs[c]
         /\ CheckInv(c)' => CampInv(c)'
<1>1. Native!Goes(c, IF ok THEN to ELSE "failed") /\ Native!Keeps(c, ok)
  BY DEF Native!Holds
<1>2. PICK next \in CampaignSteps : next = IF ok THEN to ELSE "failed"
  BY DEF CampaignSteps
<1>3. /\ \A d \in Campaigns \ {c} : camp'[d] = camp[d]
      /\ camp' = [camp EXCEPT ![c] = camp'[c]]
      /\ DOMAIN camp'[c] = CampaignFields /\ camp'[c].pc = next /\ camp'[c].pool = camp[c].pool
      /\ camp'[c].manifests = camp[c].manifests /\ camp'[c].listed = camp[c].listed
      /\ camp'[c].tools = camp[c].tools
  BY <1>1, <1>2, GoesEffect
<1>4. /\ DOMAIN obs' = Campaigns /\ DOMAIN obs'[c] = Native!Requests
      /\ \A d \in Campaigns \ {c} : obs'[d] = obs[d]
      /\ ok => obs'[c] = obs[c]
  BY <1>1, KeepsEffect
<1>5. StepFrame(c)
  BY <1>2, <1>3, <1>4 DEF StepFrame
<1>6. StateInv'
  <2>1. PICK r : r = camp'[c]
    OBVIOUS
  <2>. QED  BY <1>3, <1>4, <1>5, <2>1, StepState
<1>7. Idle(c)
  BY OutsidePhasesIdle DEF Native!Phases, After
<1>8. CheckInv(c)' => CampInv(c)'
  <2>1. \A q \in Native!Requests : at[c][q] = "done"
    BY DEF CampInv, RunInv
  <2>2. camp[c].pc # "failed"
    BY DEF After
  <2>. QED  BY <1>2, <1>3, <1>5, <1>7, <2>1, <2>2, StepKeeps
<1>. QED  BY <1>2, <1>3, <1>4, <1>5, <1>6, <1>7, <1>8

LEMMA ChecksKept ==
  ASSUME NEW c \in Campaigns, plan' = plan, obs'[c] = obs[c],
         camp'[c].tools = camp[c].tools, camp'[c].listed = camp[c].listed
  PROVE  /\ Native!PairsAgree(c)' <=> Native!PairsAgree(c)
         /\ (\A q \in Native!Requests : Native!ExecutionIsBound(c, q))'
              <=> \A q \in Native!Requests : Native!ExecutionIsBound(c, q)
         /\ Native!NoncesDiffer(c)' <=> Native!NoncesDiffer(c)
         /\ Listed(c)' <=> Listed(c)
<1>1. Native!Requests' = Native!Requests /\ Native!Sources' = Native!Sources
  BY DEF Native!Requests, Native!Sources
<1>2. Native!PairsAgree(c)' <=> Native!PairsAgree(c)
  BY <1>1 DEF Native!PairsAgree
<1>3. \A q : Native!ExecutionIsBound(c, q)' <=> Native!ExecutionIsBound(c, q)
  BY DEF Native!ExecutionIsBound, Native!ToolsOf, Native!IsOffice
<1>4. Native!NoncesDiffer(c)' <=> Native!NoncesDiffer(c)
  BY <1>1 DEF Native!NoncesDiffer, Native!Nonce
<1>5. Listed(c)' <=> Listed(c)
  BY <1>1 DEF Listed
<1>. QED  BY <1>1, <1>2, <1>3, <1>4, <1>5

LEMMA BuildKeeps ==
  ASSUME PlanInv, StateInv, NEW c \in Campaigns, CampInv(c), Native!Build(c)
  PROVE  StateInv' /\ StepFrame(c) /\ CampInv(c)'
<1>1. PICK ok \in BOOLEAN :
        ok <=> /\ Native!InputsAreTrusted(c) /\ Native!PairsAgree(c) /\ Native!ToolsAgree(c)
  OBVIOUS
<1>2. ok = (/\ Native!InputsAreTrusted(c) /\ Native!PairsAgree(c) /\ Native!ToolsAgree(c))
  BY <1>1
<1>3. camp[c].pc = "build" /\ UNCHANGED <<plan, world, manifest, at>>
  BY DEF Native!Build
<1>4. Native!Holds(c, ok, "validate")
  BY <1>2 DEF Native!Build
<1>5. camp[c].pc \in After \ {"published"} /\ "validate" \in After
  BY <1>3 DEF After
<1>6. /\ StateInv' /\ StepFrame(c)
      /\ camp'[c].pc = IF ok THEN "validate" ELSE "failed"
      /\ camp'[c].manifests = camp[c].manifests /\ camp'[c].listed = camp[c].listed
      /\ camp'[c].tools = camp[c].tools
      /\ ok => obs'[c] = obs[c]
      /\ CheckInv(c)' => CampInv(c)'
  BY <1>3, <1>4, <1>5, HoldsEffect
<1>7. ok => Native!PairsAgree(c)'
  BY <1>1, <1>3, <1>6, ChecksKept
<1>8. CheckInv(c)'
  BY <1>3, <1>6, <1>7 DEF CheckInv, CampInv
<1>. QED  BY <1>6, <1>8

LEMMA ValidateKeeps ==
  ASSUME PlanInv, StateInv, NEW c \in Campaigns, CampInv(c), Native!Validate(c)
  PROVE  StateInv' /\ StepFrame(c) /\ CampInv(c)'
<1>1. PICK ok \in BOOLEAN :
        /\ Native!Holds(c, ok, "approve")
        /\ ok => /\ \A s \in Native!Sources : Native!SourceIsBound(c, s)
                 /\ \A q \in Native!Requests : Native!ExecutionIsBound(c, q)
                 /\ Native!NoncesDiffer(c)
  BY DEF Native!Validate
<1>2. camp[c].pc = "validate" /\ UNCHANGED <<plan, world, manifest, at>>
  BY DEF Native!Validate
<1>3. camp[c].pc \in After \ {"published"} /\ "approve" \in After
  BY <1>2 DEF After
<1>4. /\ StateInv' /\ StepFrame(c)
      /\ camp'[c].pc = IF ok THEN "approve" ELSE "failed"
      /\ camp'[c].manifests = camp[c].manifests /\ camp'[c].listed = camp[c].listed
      /\ camp'[c].tools = camp[c].tools
      /\ ok => obs'[c] = obs[c]
      /\ CheckInv(c)' => CampInv(c)'
  BY <1>1, <1>2, <1>3, HoldsEffect
<1>5. ok /\ world["manifests"] = camp[c].manifests => Listed(c)
  <2>. SUFFICES ASSUME ok, world["manifests"] = camp[c].manifests, NEW q \in Native!Requests
                PROVE  obs[c][q].source = camp[c].listed[q[1]]
    BY DEF Listed
  <2>1. manifest = camp[c].listed
    BY <1>2 DEF CampInv, CheckInv
  <2>2. q[1] \in Native!Sources /\ q[2] \in {1, 2} /\ q = <<q[1], q[2]>>
    BY DEF PlanInv
  <2>. QED  BY <1>1, <2>1, <2>2 DEF Native!SourceIsBound
<1>6. ok => /\ Native!PairsAgree(c)'
            /\ (\A q \in Native!Requests : Native!ExecutionIsBound(c, q))'
            /\ Native!NoncesDiffer(c)'
            /\ world["manifests"] = camp[c].manifests => Listed(c)'
  BY <1>1, <1>2, <1>4, <1>5, ChecksKept DEF CampInv, CheckInv
<1>7. CheckInv(c)'
  BY <1>2, <1>4, <1>6 DEF CheckInv, CampInv
<1>. QED  BY <1>4, <1>7

LEMMA ApproveKeeps ==
  ASSUME PlanInv, StateInv, NEW c \in Campaigns, CampInv(c), Native!Approve(c)
  PROVE  StateInv' /\ StepFrame(c) /\ CampInv(c)'
<1>1. PICK ok \in BOOLEAN :
        Native!Holds(c, ok, "rename") /\ (ok => Native!InputsAreTrusted(c))
  BY DEF Native!Approve
<1>2. camp[c].pc = "approve" /\ UNCHANGED <<plan, world, manifest, at>>
  BY DEF Native!Approve
<1>3. camp[c].pc \in After \ {"published"} /\ "rename" \in After
  BY <1>2 DEF After
<1>4. /\ StateInv' /\ StepFrame(c)
      /\ camp'[c].pc = IF ok THEN "rename" ELSE "failed"
      /\ camp'[c].manifests = camp[c].manifests /\ camp'[c].listed = camp[c].listed
      /\ camp'[c].tools = camp[c].tools
      /\ ok => obs'[c] = obs[c]
      /\ CheckInv(c)' => CampInv(c)'
  BY <1>1, <1>2, <1>3, HoldsEffect
<1>5. ok => Listed(c)
  BY <1>1, <1>2 DEF Native!InputsAreTrusted, CampInv, CheckInv
<1>6. ok => /\ Native!PairsAgree(c)'
            /\ (\A q \in Native!Requests : Native!ExecutionIsBound(c, q))'
            /\ Native!NoncesDiffer(c)' /\ Listed(c)'
  BY <1>2, <1>4, <1>5, ChecksKept DEF CampInv, CheckInv
<1>7. CheckInv(c)'
  BY <1>2, <1>4, <1>6 DEF CheckInv, CampInv
<1>. QED  BY <1>4, <1>7

LEMMA RenameKeeps ==
  ASSUME PlanInv, StateInv, NEW c \in Campaigns, CampInv(c), Native!Rename(c)
  PROVE  StateInv' /\ StepFrame(c) /\ CampInv(c)'
<1>1. /\ camp[c].pc = "rename" /\ UNCHANGED <<plan, world, manifest, at, obs>>
      /\ Native!Goes(c, "published") /\ "published" \in CampaignSteps
  BY DEF Native!Rename, CampaignSteps, After
<1>2. /\ \A d \in Campaigns \ {c} : camp'[d] = camp[d]
      /\ camp' = [camp EXCEPT ![c] = camp'[c]]
      /\ DOMAIN camp'[c] = CampaignFields /\ camp'[c].pc = "published"
      /\ camp'[c].pool = camp[c].pool /\ camp'[c].tools = camp[c].tools
      /\ camp'[c].manifests = camp[c].manifests /\ camp'[c].listed = camp[c].listed
  BY <1>1, GoesEffect
<1>3. StepFrame(c)
  BY <1>1, <1>2 DEF StepFrame
<1>4. StateInv'
  <2>1. PICK r : r = camp'[c]
    OBVIOUS
  <2>. QED  BY <1>1, <1>2, <1>3, <2>1, StepState DEF StateInv
<1>5. Idle(c)
  BY <1>1, OutsidePhasesIdle DEF Native!Phases
<1>6. CheckInv(c)'
  BY <1>1, <1>2, ChecksKept DEF CheckInv, CampInv
<1>7. \A q \in Native!Requests : at[c][q] = "done"
  BY <1>1 DEF CampInv, RunInv, After
<1>8. /\ camp[c].pc # "failed"
      /\ camp'[c].pool = "released" => camp'[c].pc \in After \cup {"failed"}
      /\ camp'[c].pc \in After => \A q \in Native!Requests : at[c][q] = "done"
  BY <1>1, <1>2, <1>7 DEF After
<1>. QED  BY <1>3, <1>4, <1>5, <1>6, <1>8, StepKeeps

LEMMA DieKeeps ==
  ASSUME PlanInv, StateInv, NEW c \in Campaigns, CampInv(c), Native!Die(c)
  PROVE  PlanInv' /\ StateInv' /\ CampInv(c)'
<1>1. /\ camp[c].pc \notin Native!Ended /\ UNCHANGED <<world, manifest, at, obs>>
      /\ plan' = [plan EXCEPT !.deaths = @ - 1] /\ Native!Goes(c, "dead")
      /\ "dead" \in CampaignSteps
  BY DEF Native!Die, CampaignSteps
<1>2. /\ DOMAIN plan' = PlanFields /\ plan'.phase = plan.phase /\ plan'.pdf = plan.pdf
      /\ plan'.pool = plan.pool /\ plan'.cached = plan.cached /\ plan'.counts = plan.counts
      /\ plan'.running = plan.running
  BY <1>1 DEF PlanInv, PlanFields
<1>3. /\ \A d \in Campaigns \ {c} : camp'[d] = camp[d]
      /\ camp' = [camp EXCEPT ![c] = camp'[c]]
      /\ DOMAIN camp'[c] = CampaignFields /\ camp'[c].pc = "dead"
      /\ camp'[c].pool = camp[c].pool
  BY <1>1, GoesEffect
<1>4. /\ Native!Requests' = Native!Requests /\ Native!Sources' = Native!Sources
      /\ Native!Gate' = Native!Gate /\ Native!Gate \subseteq Native!Requests
  BY <1>2 DEF Native!Requests, Native!Sources, Native!Gate, Native!Members
<1>5. PlanInv'
  BY <1>2, <1>4 DEF PlanInv
<1>6. StateInv'
  BY <1>1, <1>3, <1>4 DEF StateInv
<1>7. RunInv(c)'
  BY <1>1, <1>3, <1>4 DEF RunInv, CampInv, After
<1>8. ObsInv(c)'
  <2>1. \A q : /\ Native!IsOffice(q)' = Native!IsOffice(q)
               /\ Native!UsesCache(c, q)' = Native!UsesCache(c, q)
               /\ Native!ToolsOf(q)' = Native!ToolsOf(q)
    BY <1>2 DEF Native!IsOffice, Native!UsesCache, Native!ToolsOf
  <2>2. \A q : Observed(c, q)' = Observed(c, q)
    BY <1>1, <2>1 DEF Observed
  <2>. QED  BY <1>1, <1>4, <2>2 DEF CampInv, ObsInv
<1>9. GateInv(c)'
  BY <1>1, <1>4 DEF GateInv, CampInv, Native!Ended
<1>10. CheckInv(c)'
  BY <1>3 DEF CheckInv
<1>. QED  BY <1>5, <1>6, <1>7, <1>8, <1>9, <1>10 DEF CampInv

LEMMA EditKeeps ==
  ASSUME PlanInv, StateInv, NEW f, Native!Edit(f)
  PROVE  /\ PlanInv' /\ StateInv'
         /\ \A c \in Campaigns : CampInv(c) => CampInv(c)'
<1>1. /\ plan' = [plan EXCEPT !.edits = @ - 1] /\ world' = [world EXCEPT ![f] = @ + 1]
      /\ f # "manifests" => manifest' = manifest
      /\ UNCHANGED <<camp, at, obs>>
  BY DEF Native!Edit
<1>2. /\ DOMAIN plan' = PlanFields /\ plan'.phase = plan.phase /\ plan'.pdf = plan.pdf
      /\ plan'.pool = plan.pool /\ plan'.cached = plan.cached /\ plan'.counts = plan.counts
      /\ plan'.running = plan.running
  BY <1>1 DEF PlanInv, PlanFields
<1>3. /\ "manifests" \in DOMAIN world' /\ world'["manifests"] \in Nat
      /\ world["manifests"] \in Nat /\ world["manifests"] <= world'["manifests"]
      /\ world'["manifests"] = world["manifests"] => manifest' = manifest
  BY <1>1 DEF StateInv
<1>4. Native!Requests' = Native!Requests /\ Native!Sources' = Native!Sources
  BY <1>2 DEF Native!Requests, Native!Sources
<1>5. PlanInv'
  BY <1>2, <1>4 DEF PlanInv
<1>6. StateInv'
  BY <1>1, <1>3, <1>4 DEF StateInv
<1>7. \A c \in Campaigns : CampInv(c) => CampInv(c)'
  BY <1>1, <1>2, <1>3, CampKept
<1>. QED  BY <1>5, <1>6, <1>7

LEMMA StepOfCampaign ==
  ASSUME UnitsInv, NEW c \in Campaigns, Native!Step(c)
  PROVE  UnitsInv'
<1>1. PlanInv /\ StateInv /\ \A d \in Campaigns : CampInv(d)
  BY DEF UnitsInv, CampInv
<1>2. CASE \E q \in Native!Requests : Native!Observe(c, q)
  <2>1. PICK q \in Native!Requests : Native!Observe(c, q)
    BY <1>2
  <2>2. StateInv' /\ ObserveFrame(c, q) /\ Own(c, q) /\ Native!CacheIsTrue'
    BY <1>1, <2>1, ObserveEffect, ObserveOwn, ObserveKeepsCache DEF UnitsInv
  <2>3. CampInv(c)'
    BY <1>1, <2>2, ObserveKeeps
  <2>4. \A d \in Campaigns \ {c} : CampInv(d)'
    BY <1>1, <2>2, CampKept DEF ObserveFrame, StateInv
  <2>5. PlanInv'
    BY <1>1, <2>2 DEF PlanInv, ObserveFrame, Native!Requests, Native!Sources
  <2>. QED  BY <2>2, <2>3, <2>4, <2>5 DEF UnitsInv, CampInv
<1>3. CASE \/ Native!Trust(c) \/ Native!Load(c) \/ Native!Probe(c) \/ Native!EndPhase(c)
           \/ Native!Close(c) \/ Native!Build(c) \/ Native!Validate(c) \/ Native!Approve(c)
           \/ Native!Rename(c)
  <2>1. StateInv' /\ StepFrame(c) /\ CampInv(c)'
    BY <1>1, <1>3, TrustKeeps, LoadKeeps, ProbeKeeps, EndPhaseKeeps, CloseKeeps, BuildKeeps,
       ValidateKeeps, ApproveKeeps, RenameKeeps
  <2>2. \A d \in Campaigns \ {c} : CampInv(d)'
    BY <1>1, <2>1, CampKept DEF StepFrame, StateInv
  <2>3. PlanInv'
    BY <1>1, <2>1 DEF PlanInv, StepFrame, Native!Requests, Native!Sources
  <2>4. cache' = cache
    BY <1>3 DEF Native!Trust, Native!Load, Native!Probe, Native!EndPhase, Native!Close,
      Native!Build, Native!Validate, Native!Approve, Native!Rename
  <2>5. Native!CacheIsTrue'
    BY <2>1, <2>4 DEF UnitsInv, Native!CacheIsTrue, Native!ToolsOf, Native!IsOffice, StepFrame
  <2>. QED  BY <2>1, <2>2, <2>3, <2>5 DEF UnitsInv, CampInv
<1>. QED  BY <1>2, <1>3 DEF Native!Step

LEMMA UnitsKept == UnitsInv /\ [BothNext]_bothVars => UnitsInv'
<1>. SUFFICES ASSUME UnitsInv, [BothNext]_bothVars PROVE UnitsInv'
  OBVIOUS
<1>1. PlanInv /\ StateInv /\ Native!CacheIsTrue /\ \A d \in Campaigns : CampInv(d)
  BY DEF UnitsInv, CampInv
<1>2. CASE \E c \in Campaigns : Native!Step(c)
  BY <1>2, StepOfCampaign
<1>3. CASE \E c \in Campaigns : Native!Die(c)
  <2>1. PICK c \in Campaigns : Native!Die(c)
    BY <1>3
  <2>2. PlanInv' /\ StateInv' /\ CampInv(c)'
    BY <1>1, <2>1, DieKeeps
  <2>3. plan' = [plan EXCEPT !.deaths = @ - 1] /\ UNCHANGED <<world, manifest, at, obs, cache>>
    BY <2>1 DEF Native!Die
  <2>4. /\ plan'.phase = plan.phase /\ plan'.pdf = plan.pdf
        /\ plan'.pool = plan.pool /\ plan'.cached = plan.cached
    BY <1>1, <2>3 DEF PlanInv, PlanFields
  <2>5. \A d \in Campaigns \ {c} : camp'[d] = camp[d]
    BY <1>1, <2>1 DEF Native!Die, Native!Goes, StateInv
  <2>6. \A d \in Campaigns \ {c} : CampInv(d)'
    BY <1>1, <2>3, <2>4, <2>5, CampKept DEF StateInv
  <2>7. Native!CacheIsTrue'
    BY <1>1, <2>3, <2>4 DEF Native!CacheIsTrue, Native!ToolsOf, Native!IsOffice
  <2>. QED  BY <2>2, <2>6, <2>7 DEF UnitsInv, CampInv
<1>4. CASE \E f \in plan.edited : Native!Edit(f)
  <2>1. PICK f \in plan.edited : Native!Edit(f)
    BY <1>4
  <2>2. PlanInv' /\ StateInv' /\ \A c \in Campaigns : CampInv(c)'
    BY <1>1, <2>1, EditKeeps
  <2>3. plan'.pdf = plan.pdf /\ cache' = cache
    BY <1>1, <2>1 DEF Native!Edit, PlanInv, PlanFields
  <2>4. Native!CacheIsTrue'
    BY <1>1, <2>3 DEF Native!CacheIsTrue, Native!ToolsOf, Native!IsOffice
  <2>. QED  BY <2>2, <2>4 DEF UnitsInv, CampInv
<1>5. CASE UNCHANGED nativeVars
  <2>1. UNCHANGED <<plan, world, manifest, camp, at, obs, cache>>
    BY <1>5 DEF nativeVars
  <2>2. PlanInv' /\ StateInv'
    <3>1. Native!Requests' = Native!Requests /\ Native!Sources' = Native!Sources
      BY <2>1 DEF Native!Requests, Native!Sources
    <3>2. PlanInv'
      BY <1>1, <2>1, <3>1 DEF PlanInv
    <3>3. StateInv'
      BY <1>1, <2>1, <3>1 DEF StateInv
    <3>. QED  BY <3>2, <3>3
  <2>3. \A c \in Campaigns : CampInv(c)'
    BY <1>1, <2>1, CampKept DEF StateInv
  <2>4. Native!CacheIsTrue'
    BY <1>1, <2>1 DEF Native!CacheIsTrue, Native!ToolsOf, Native!IsOffice
  <2>. QED  BY <2>2, <2>3, <2>4 DEF UnitsInv, CampInv
<1>. QED  BY <1>2, <1>3, <1>4, <1>5 DEF BothNext, RunNext, CampaignNext, Native!Next, bothVars

LEMMA UnitsHold == BothSpec => []UnitsInv
<1>1. BothInit => UnitsInv
  BY UnitsBegin DEF BothInit
<1>. QED  BY <1>1, UnitsKept, PTL DEF BothSpec

(* A campaign that has published observed what its inventory says: of every  *)
(* source two executions that are not the same, of the content and with the  *)
(* tools and the fonts that the inventory names, which agree on the pages,   *)
(* the two of the gate side by side; whatever is edited between two looks,   *)
(* and whichever campaigns fill the cache.                                   *)
THEOREM CampaignInventoryIsTrue == BothSpec => []InventoryIsTrue
<1>1. UnitsInv => InventoryIsTrue
  <2>. SUFFICES ASSUME UnitsInv, NEW c \in plan.running, camp[c].pc = "published"
                PROVE  /\ \A q \in Native!Requests :
                            /\ obs[c][q].source = camp[c].listed[q[1]]
                            /\ \A t \in Native!ToolsOf(q) : obs[c][q].tools[t] = camp[c].tools[t].digest
                            /\ Native!IsOffice(q) => obs[c][q].fonts = camp[c].listed["fonts"]
                       /\ \A s \in Native!Sources :
                            /\ obs[c][<<s, 1>>].count = obs[c][<<s, 2>>].count
                            /\ Native!Nonce(obs[c][<<s, 1>>]) # Native!Nonce(obs[c][<<s, 2>>])
                       /\ \A q \in Native!Gate : obs[c][q].by = c /\ obs[c][q].together
    BY DEF InventoryIsTrue, Native!InventoryIsTrue
  <2>1. c \in Campaigns /\ PlanInv
    BY DEF UnitsInv, PlanInv
  <2>2. RunInv(c) /\ GateInv(c) /\ CheckInv(c)
    BY <2>1 DEF UnitsInv
  <2>3. /\ Listed(c) /\ Native!PairsAgree(c) /\ Native!NoncesDiffer(c)
        /\ \A q \in Native!Requests : Native!ExecutionIsBound(c, q)
    BY <2>2 DEF CheckInv
  <2>4. \A q \in Native!Requests :
          /\ obs[c][q].source = camp[c].listed[q[1]]
          /\ \A t \in Native!ToolsOf(q) : obs[c][q].tools[t] = camp[c].tools[t].digest
          /\ Native!IsOffice(q) => obs[c][q].fonts = camp[c].listed["fonts"]
    BY <2>3 DEF Listed, Native!ExecutionIsBound
  <2>5. \A s \in Native!Sources :
          /\ obs[c][<<s, 1>>].count = obs[c][<<s, 2>>].count
          /\ Native!Nonce(obs[c][<<s, 1>>]) # Native!Nonce(obs[c][<<s, 2>>])
    <3>1. \A s \in Native!Sources : /\ <<s, 1>> \in Native!Requests /\ <<s, 2>> \in Native!Requests
                                   /\ <<s, 1>> # <<s, 2>>
      BY <2>1 DEF PlanInv
    <3>2. \A s \in Native!Sources : obs[c][<<s, 1>>].count = obs[c][<<s, 2>>].count
      BY <2>3 DEF Native!PairsAgree
    <3>3. \A p, q \in Native!Requests :
            Native!Nonce(obs[c][p]) = Native!Nonce(obs[c][q]) => p = q
      BY <2>3 DEF Native!NoncesDiffer
    <3>4. \A s \in Native!Sources :
            Native!Nonce(obs[c][<<s, 1>>]) # Native!Nonce(obs[c][<<s, 2>>])
      BY <3>1, <3>3
    <3>. QED  BY <3>2, <3>4
  <2>6. \A q \in Native!Gate : obs[c][q].by = c /\ obs[c][q].together
    <3>1. \A q \in Native!Gate : q \in Native!Requests /\ at[c][q] = "done"
      BY <2>2 DEF RunInv, After, Native!Gate, Native!Members
    <3>. QED  BY <2>2, <3>1 DEF GateInv
  <2>. QED  BY <2>4, <2>5, <2>6
<1>. QED  BY <1>1, UnitsHold, PTL

(* An entry of the shared cache is an observation of the source, the tools   *)
(* and the fonts that its key names, however the campaigns that look for it, *)
(* make it or die while they make it interleave.                             *)
THEOREM CampaignCacheIsTrue == BothSpec => []CacheIsTrue
<1>1. UnitsInv => CacheIsTrue
  BY DEF UnitsInv, CacheIsTrue
<1>. QED  BY <1>1, UnitsHold, PTL

(* When the pool of a campaign has removed the copies of the tools, no       *)
(* process of the campaign runs from one, however its observations ended.    *)
THEOREM CampaignPoolOutlivesRuns == BothSpec => []PoolOutlivesRuns
<1>1. UnitsInv => PoolOutlivesRuns
  BY DEF UnitsInv, PlanInv, RunInv, Live, PoolOutlivesRuns, Native!PoolOutlivesRuns
<1>. QED  BY <1>1, UnitsHold, PTL
=============================================================================
