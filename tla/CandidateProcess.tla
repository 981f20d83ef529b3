--------------------------- MODULE CandidateProcess ---------------------------
(***************************************************************************)
(* run_bounded_process of evaluate/multiformat_candidate_process.py: the   *)
(* evaluation harness runs a converter under a timeout and a log limit.    *)
(*                                                                         *)
(* Unlike NativeProcess, every wait of the controller has a timeout, the   *)
(* group is killed after every run, and the reader threads kill it too.    *)
(* The clock is left out: a wait with a timeout may give up at any moment. *)
(***************************************************************************)
EXTENDS Integers

CONSTANTS
  Descendants,  (* processes the converter may fork                        *)
  MaxLogBytes,  (* max_log_bytes                                           *)
  ChunkBytes,   (* what source.read asks for                               *)
  HeldBytes,    (* capacity of a pipe and of the buffer of its reader      *)
  WriteBound,   (* bound: bytes the processes write to each stream         *)
  MayRefuse     (* whether the system can refuse killpg                    *)

Child == "child"
Procs == {Child} \union Descendants
Streams == {"stdout", "stderr"}

ASSUME RunAssumption ==
  /\ Child \notin Descendants
  /\ MaxLogBytes \in Nat
  /\ ChunkBytes \in Nat \ {0}
  /\ HeldBytes \in Nat /\ HeldBytes >= ChunkBytes
  /\ WriteBound \in Nat
  /\ MayRefuse \in BOOLEAN

VARIABLES
  pc,            (* where run_bounded_process is                           *)
  result,        (* the failure it raised, or "exit"                       *)
  timedOut,      (* timeout_error is set                                   *)
  overflow,      (* the event that a reader sets                           *)
  readerFailed,  (* reader_failures is not empty                           *)
  termFailed,    (* termination_failures is not empty                      *)
  child,         (* the converter as the kernel sees it                    *)
  unborn,        (* descendants not forked yet                             *)
  alive,         (* processes that have not ended                          *)
  escaped,       (* processes that left the group of the converter         *)
  doomed,        (* processes a SIGKILL was sent to                        *)
  holds,         (* per stream, the processes that hold its write end      *)
  written,       (* per stream, bytes written to its pipe                  *)
  held,          (* per stream, bytes that source.read has not returned    *)
  reader,        (* per stream, its reader thread                          *)
  kept,          (* per stream, bytes in its log file                      *)
  pipes          (* the read ends in this process                          *)

mainVars == <<pc, result, timedOut>>
flagVars == <<overflow, readerFailed, termFailed>>
treeVars == <<child, unborn, alive, escaped, doomed, holds>>
streamVars == <<written, held, reader, kept>>
vars == <<mainVars, flagVars, treeVars, streamVars, pipes>>

Init ==
  /\ pc = "popen"
  /\ result = "none"
  /\ timedOut = FALSE
  /\ overflow = FALSE
  /\ readerFailed = FALSE
  /\ termFailed = FALSE
  /\ child = "unborn"
  /\ unborn = Descendants
  /\ alive = {}
  /\ escaped = {}
  /\ doomed = {}
  /\ holds = [s \in Streams |-> {}]
  /\ written = [s \in Streams |-> 0]
  /\ held = [s \in Streams |-> 0]
  /\ reader = [s \in Streams |-> "none"]
  /\ kept = [s \in Streams |-> 0]
  /\ pipes = "open"

-----------------------------------------------------------------------------
(* The processes.                                                           *)

Runs(p) == p \in alive \ doomed

Write(p, s) ==
  /\ Runs(p)
  /\ p \in holds[s]
  /\ pipes # "closed"
  /\ held[s] < HeldBytes
  /\ written[s] < WriteBound
  /\ written' = [written EXCEPT ![s] = @ + 1]
  /\ held' = [held EXCEPT ![s] = @ + 1]
  /\ UNCHANGED <<mainVars, flagVars, treeVars, reader, kept, pipes>>

CloseStream(p, s) ==
  /\ Runs(p)
  /\ p \in holds[s]
  /\ holds' = [holds EXCEPT ![s] = @ \ {p}]
  /\ UNCHANGED <<mainVars, flagVars, child, unborn, alive, escaped, doomed,
                 streamVars, pipes>>

Fork(p, d) ==
  /\ Runs(p)
  /\ d \in unborn
  /\ unborn' = unborn \ {d}
  /\ alive' = alive \union {d}
  /\ escaped' = IF p \in escaped THEN escaped \union {d} ELSE escaped
  /\ holds' = [s \in Streams |->
                 IF p \in holds[s] THEN holds[s] \union {d} ELSE holds[s]]
  /\ UNCHANGED <<mainVars, flagVars, child, doomed, streamVars, pipes>>

(* setsid: the converter leads its session already and cannot.              *)
Escape(p) ==
  /\ Runs(p)
  /\ p # Child
  /\ escaped' = escaped \union {p}
  /\ UNCHANGED <<mainVars, flagVars, child, unborn, alive, doomed, holds,
                 streamVars, pipes>>

End(p) ==
  /\ alive' = alive \ {p}
  /\ holds' = [s \in Streams |-> holds[s] \ {p}]
  /\ child' = IF p = Child THEN "zombie" ELSE child
  /\ UNCHANGED <<mainVars, flagVars, unborn, escaped, doomed, streamVars,
                 pipes>>

Exit(p) == Runs(p) /\ End(p)

Die(p) == p \in alive \intersect doomed /\ End(p)

Process(p) ==
  \/ \E s \in Streams : Write(p, s) \/ CloseStream(p, s)
  \/ \E d \in Descendants : Fork(p, d)
  \/ Escape(p) \/ Exit(p) \/ Die(p)

-----------------------------------------------------------------------------
(* _kill_process_group.                                                     *)

Group == alive \ escaped

(* killpg finds a member: a zombie leader is one until it is reaped.        *)
Signal ==
  /\ Group # {} \/ child = "zombie"
  /\ doomed' = doomed \union Group
  /\ UNCHANGED child

(* killpg finds nobody.                                                     *)
SignalNobody ==
  /\ Group = {} /\ child = "reaped"
  /\ UNCHANGED <<doomed, child>>

(* killpg is refused: poll reaps the child if it has ended, and the group   *)
(* counts as absent if it was the last member; then the child alone is      *)
(* killed, which may be refused too.                                        *)
Refused ==
  /\ MayRefuse
  /\ Group # {} \/ child = "zombie"
  /\ child' = IF child = "zombie" THEN "reaped" ELSE child
  /\ \/ doomed' = doomed \union (alive \intersect {Child})
     \/ UNCHANGED doomed

GroupAbsent == child' = "reaped" /\ Group = {}

(* What it returns is ok.                                                   *)
KillGroup(ok) ==
  \/ Signal /\ ok
  \/ SignalNobody /\ ok
  \/ Refused /\ (ok <=> GroupAbsent)

(* A caller that records a failed kill among the termination_failures.      *)
KillOrRecord ==
  /\ \E ok \in BOOLEAN :
       /\ KillGroup(ok)
       /\ termFailed' = (termFailed \/ ~ok)
  /\ UNCHANGED <<unborn, alive, escaped, holds>>

-----------------------------------------------------------------------------
(* _drain_bounded, in a thread per stream.                                  *)

(* Mutant of Available: source.read always returns a whole chunk.           *)
AvailableAlways(s) == ChunkBytes

(* source.read returns a whole chunk, or what is left at the end.           *)
Available(s) ==
  IF held[s] >= ChunkBytes THEN ChunkBytes
  ELSE IF holds[s] = {} THEN held[s] ELSE 0

Remaining(s) == MaxLogBytes - kept[s]

(* After run_bounded_process has returned, the log file is closed and the   *)
(* write fails.                                                             *)
ReadChunk(s) ==
  LET n == Available(s)
      fits == n <= Remaining(s)
  IN  /\ reader[s] = "reading"
      /\ pc # "done"
      /\ n > 0
      /\ held' = [held EXCEPT ![s] = @ - n]
      /\ kept' = [kept EXCEPT ![s] = @ + IF fits THEN n ELSE Remaining(s)]
      /\ overflow' = (overflow \/ ~fits)
      /\ reader' = IF fits THEN reader ELSE [reader EXCEPT ![s] = "killing"]
      /\ UNCHANGED <<mainVars, readerFailed, termFailed, treeVars, written,
                     pipes>>

ReadEnd(s) ==
  /\ reader[s] = "reading"
  /\ held[s] = 0
  /\ holds[s] = {}
  /\ reader' = [reader EXCEPT ![s] = "ended"]
  /\ UNCHANGED <<mainVars, flagVars, treeVars, written, held, kept, pipes>>

(* The read or the write of a chunk raises.                                 *)
ReadFails(s) ==
  /\ reader[s] = "reading"
  /\ readerFailed' = TRUE
  /\ reader' = [reader EXCEPT ![s] = "killing"]
  /\ UNCHANGED <<mainVars, overflow, termFailed, treeVars, written, held, kept,
                 pipes>>

ReaderKills(s) ==
  /\ reader[s] = "killing"
  /\ KillOrRecord
  /\ reader' = [reader EXCEPT ![s] = "ended"]
  /\ UNCHANGED <<mainVars, overflow, readerFailed, written, held, kept, pipes>>

Reader(s) == ReadChunk(s) \/ ReadEnd(s) \/ ReadFails(s) \/ ReaderKills(s)

-----------------------------------------------------------------------------
(* The thread that calls run_bounded_process.                               *)

Return(r) ==
  /\ result' = r
  /\ pc' = "done"

PopenFails ==
  /\ pc = "popen"
  /\ Return("PIPES_UNAVAILABLE")
  /\ UNCHANGED <<timedOut, flagVars, treeVars, streamVars, pipes>>

Popen ==
  /\ pc = "popen"
  /\ pc' = "wait"
  /\ child' = "running"
  /\ alive' = {Child}
  /\ holds' = [s \in Streams |-> {Child}]
  /\ reader' = [s \in Streams |-> "reading"]
  /\ UNCHANGED <<result, timedOut, flagVars, unborn, escaped, doomed, written,
                 held, kept, pipes>>

(* process.wait: the poll of a reader may have reaped the child already.    *)
WaitReturns ==
  /\ pc = "wait"
  /\ child \in {"zombie", "reaped"}
  /\ child' = "reaped"
  /\ pc' = "kill_exit"
  /\ UNCHANGED <<result, timedOut, flagVars, unborn, alive, escaped, doomed,
                 holds, streamVars, pipes>>

WaitTimesOut ==
  /\ pc = "wait"
  /\ timedOut' = TRUE
  /\ pc' = "kill"
  /\ UNCHANGED <<result, flagVars, treeVars, streamVars, pipes>>

WaitFails ==
  /\ pc = "wait"
  /\ termFailed' = TRUE
  /\ pc' = "kill"
  /\ UNCHANGED <<result, timedOut, overflow, readerFailed, treeVars, streamVars,
                 pipes>>

Kill ==
  /\ \/ pc = "kill_exit" /\ pc' = "join"
     \/ pc = "kill" /\ pc' = "reap"
  /\ KillOrRecord
  /\ UNCHANGED <<result, timedOut, overflow, readerFailed, streamVars, pipes>>

(* _reap_parent                                                             *)
Reap ==
  /\ pc = "reap"
  /\ pc' = "join"
  /\ \/ /\ child \in {"zombie", "reaped"}
        /\ child' = "reaped"
        /\ UNCHANGED termFailed
     \/ /\ termFailed' = TRUE
        /\ UNCHANGED child
  /\ UNCHANGED <<result, timedOut, overflow, readerFailed, unborn, alive,
                 escaped, doomed, holds, streamVars, pipes>>

ReadersEnded == \A s \in Streams : reader[s] = "ended"

(* Mutant of Join: the readers are joined without a timeout.                *)
JoinForEver ==
  /\ pc = "join"
  /\ ReadersEnded
  /\ pc' = "close"
  /\ UNCHANGED <<result, timedOut, flagVars, treeVars, streamVars, pipes>>

Join ==
  /\ pc = "join"
  /\ IF ReadersEnded THEN pc' = "close" ELSE pc' = "interrupt"
  /\ UNCHANGED <<result, timedOut, flagVars, treeVars, streamVars, pipes>>

(* The read ends are closed under the readers, which are joined again.      *)
Interrupt ==
  /\ pc = "interrupt"
  /\ pipes' = "interrupted"
  /\ pc' = "close"
  /\ UNCHANGED <<result, timedOut, flagVars, treeVars, streamVars>>

Close ==
  /\ pc = "close"
  /\ pipes' = IF ReadersEnded THEN "closed" ELSE pipes
  /\ pc' = "check_termination"
  /\ UNCHANGED <<result, timedOut, flagVars, treeVars, streamVars>>

CheckTermination ==
  /\ pc = "check_termination"
  /\ \/ /\ termFailed
        /\ Return("TERMINATION_FAILED")
     \/ /\ ~termFailed
        /\ pc' = "check_readers"
        /\ UNCHANGED result
  /\ UNCHANGED <<timedOut, flagVars, treeVars, streamVars, pipes>>

(* Mutant of CheckReaders: a reader that is still alive is not looked for.  *)
CheckNoReaders ==
  /\ pc = "check_readers"
  /\ pc' = "check_flags"
  /\ UNCHANGED <<result, timedOut, flagVars, treeVars, streamVars, pipes>>

CheckReaders ==
  /\ pc = "check_readers"
  /\ \/ /\ ~ReadersEnded
        /\ Return("READER_TIMEOUT")
     \/ /\ ReadersEnded
        /\ pc' = "check_flags"
        /\ UNCHANGED result
  /\ UNCHANGED <<timedOut, flagVars, treeVars, streamVars, pipes>>

CheckFlags ==
  /\ pc = "check_flags"
  /\ Return(IF readerFailed THEN "READER_FAILED"
            ELSE IF timedOut THEN "TIMEOUT"
            ELSE IF overflow THEN "LOG_OVERSIZE" ELSE "exit")
  /\ UNCHANGED <<timedOut, flagVars, treeVars, streamVars, pipes>>

Main ==
  \/ PopenFails \/ Popen
  \/ WaitReturns \/ WaitTimesOut \/ WaitFails
  \/ Kill \/ Reap \/ Join \/ Interrupt \/ Close
  \/ CheckTermination \/ CheckReaders \/ CheckFlags

Next ==
  \/ Main
  \/ \E s \in Streams : Reader(s)
  \/ \E p \in Procs : Process(p)

Spec == Init /\ [][Next]_vars

(* Every wait of the main thread ends, by what it waits for or by its       *)
(* timeout; nothing is assumed of the converter or of the readers.          *)
FairSpec == Spec /\ WF_vars(Main)

-----------------------------------------------------------------------------
(* Properties.                                                              *)

(* A log is within its limit, which is the accepted maximum: LOG_OVERSIZE   *)
(* is raised only when more was written.                                    *)
LogLimit ==
  /\ \A s \in Streams : kept[s] <= MaxLogBytes
  /\ overflow => \E s \in Streams : written[s] > MaxLogBytes

(* What a call leaves behind, its failure says: unless it says that it could *)
(* not be done, the converter is reaped, no process of its group runs code   *)
(* any more, and no reader thread outlives the call.                         *)
LeftIsReported ==
  pc = "done" =>
    /\ result \notin {"PIPES_UNAVAILABLE", "TERMINATION_FAILED"}
         => child = "reaped" /\ Group \subseteq doomed
    /\ ~ReadersEnded
         => result \in {"PIPES_UNAVAILABLE", "TERMINATION_FAILED", "READER_TIMEOUT"}

(* The call returns, even when a process that escaped keeps a pipe open.    *)
Returns == <>(pc = "done")

(* run_bounded_process implements the contract of a bounded run.            *)
Outcome ==
  IF result = "none" THEN "running" ELSE IF result = "exit" THEN "good"
  ELSE "bad"

Contract == INSTANCE BoundedRun WITH outcome <- Outcome

ImplementsContract == Contract!Spec
=============================================================================
