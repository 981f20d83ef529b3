---------------------------- MODULE NativeProcess ----------------------------
(***************************************************************************)
(* SystemCommandRunner::run of crates/document2html-native/src/process.rs: *)
(* one converter process (LibreOffice, pdftohtml, pdfinfo) run to its end  *)
(* under a deadline, a log limit and an output limit.                      *)
(*                                                                         *)
(* Four kinds of actors interleave: the controller (the thread that calls  *)
(* run), one reader thread per stream, the processes of the group that the *)
(* child leads, and the clock.  A chunk of a stream is represented by the  *)
(* interval of byte offsets it covers, so that loss, duplication and       *)
(* reordering are visible; the bytes themselves are left out.              *)
(***************************************************************************)
EXTENDS Integers, Sequences

CONSTANTS
  Descendants,     (* processes the child may fork                         *)
  MaxLogBytes,     (* ProcessLimits.max_log_bytes                          *)
  MaxOutputBytes,  (* ProcessLimits.max_output_bytes                       *)
  ChunkBytes,      (* size of a reader's buffer                            *)
  PipeBytes,       (* capacity of a pipe                                   *)
  WriteBound,      (* bound: bytes the group writes to each stream         *)
  OutputBound,     (* bound: bytes the group puts below monitored_root     *)
  GroupKill        (* whether the group signal reaches the descendants:    *)
                   (* FALSE where /bin/kill cannot be run                  *)

Child == "child"
Procs == {Child} \union Descendants
Streams == {"stdout", "stderr"}

ASSUME LimitsAssumption ==
  /\ Child \notin Descendants
  /\ MaxLogBytes \in Nat
  /\ MaxOutputBytes \in Nat
  /\ ChunkBytes \in Nat \ {0}
  /\ PipeBytes \in Nat \ {0}
  /\ WriteBound \in Nat
  /\ OutputBound \in Nat
  /\ GroupKill \in BOOLEAN

VARIABLES
  pc,         (* where the controller is in run                            *)
  execution,  (* value of the closure that holds the observation loop      *)
  result,     (* what run returned                                         *)
  child,      (* the child as the kernel sees it                           *)
  status,     (* its exit status                                           *)
  unborn,     (* descendants not forked yet                                *)
  alive,      (* processes that have not ended                             *)
  doomed,     (* processes a SIGKILL was sent to                           *)
  holds,      (* per stream, the processes that hold its write end         *)
  written,    (* per stream, bytes written to its pipe so far              *)
  pipe,       (* per stream, bytes in its pipe                             *)
  reader,     (* per stream, its reader thread                             *)
  channel,    (* the events sent and not received                          *)
  captured,   (* CapturedStreams, as lengths                               *)
  output,     (* bytes in regular files below monitored_root               *)
  unsafe,     (* whether a link or a special file is below monitored_root  *)
  expired     (* whether the deadline has passed                           *)

controllerVars == <<pc, execution, result>>
treeVars == <<child, status, unborn, alive, doomed, holds>>
streamVars == <<written, pipe, reader, channel>>
fileVars == <<output, unsafe>>
vars == <<controllerVars, treeVars, streamVars, captured, fileVars, expired>>

Chunk ==
  {c \in [kind : {"data"}, stream : Streams, from : Nat, upto : Nat] :
     c.from < c.upto}
ReadError == [kind : {"error"}, stream : Streams]

Init ==
  /\ pc = "launch"
  /\ execution = "none"
  /\ result = "none"
  /\ child = "unborn"
  /\ status = "none"
  /\ unborn = Descendants
  /\ alive = {}
  /\ doomed = {}
  /\ holds = [s \in Streams |-> {}]
  /\ written = [s \in Streams |-> 0]
  /\ pipe = [s \in Streams |-> 0]
  /\ reader = [s \in Streams |-> "none"]
  /\ channel = <<>>
  /\ captured = [s \in Streams |-> 0]
  /\ output = 0
  /\ unsafe = FALSE
  /\ expired = FALSE

-----------------------------------------------------------------------------
(* The process group.  A process that a SIGKILL was sent to runs no more    *)
(* code; it ends when the kernel gets to it.                                *)

Runs(p) == p \in alive \ doomed

End(p) ==
  /\ alive' = alive \ {p}
  /\ holds' = [s \in Streams |-> holds[s] \ {p}]

Write(p, s) ==
  /\ Runs(p)
  /\ p \in holds[s]
  /\ reader[s] = "reading"
  /\ pipe[s] < PipeBytes
  /\ written[s] < WriteBound
  /\ written' = [written EXCEPT ![s] = @ + 1]
  /\ pipe' = [pipe EXCEPT ![s] = @ + 1]
  /\ UNCHANGED <<controllerVars, treeVars, reader, channel, captured, fileVars,
                 expired>>

CloseStream(p, s) ==
  /\ Runs(p)
  /\ p \in holds[s]
  /\ holds' = [holds EXCEPT ![s] = @ \ {p}]
  /\ UNCHANGED <<controllerVars, child, status, unborn, alive, doomed,
                 streamVars, captured, fileVars, expired>>

ChangeFiles(p) ==
  /\ Runs(p)
  /\ output' \in 0 .. OutputBound
  /\ unsafe' \in BOOLEAN
  /\ UNCHANGED <<controllerVars, treeVars, streamVars, captured, expired>>

Fork(p, d) ==
  /\ Runs(p)
  /\ d \in unborn
  /\ unborn' = unborn \ {d}
  /\ alive' = alive \union {d}
  /\ holds' = [s \in Streams |->
                 IF p \in holds[s] THEN holds[s] \union {d} ELSE holds[s]]
  /\ UNCHANGED <<controllerVars, child, status, doomed, streamVars, captured,
                 fileVars, expired>>

Exit(p) ==
  /\ Runs(p)
  /\ End(p)
  /\ IF p = Child
       THEN /\ child' = "zombie"
            /\ status' \in {"success", "failure"}
       ELSE UNCHANGED <<child, status>>
  /\ UNCHANGED <<controllerVars, unborn, doomed, streamVars, captured, fileVars,
                 expired>>

Die(p) ==
  /\ p \in alive \intersect doomed
  /\ End(p)
  /\ IF p = Child
       THEN /\ child' = "zombie"
            /\ status' = "failure"
       ELSE UNCHANGED <<child, status>>
  /\ UNCHANGED <<controllerVars, unborn, doomed, streamVars, captured, fileVars,
                 expired>>

Process(p) ==
  \/ \E s \in Streams : Write(p, s) \/ CloseStream(p, s)
  \/ ChangeFiles(p)
  \/ \E d \in Descendants : Fork(p, d)
  \/ Exit(p)
  \/ Die(p)

-----------------------------------------------------------------------------
(* The reader threads.                                                      *)

Read(s) ==
  /\ reader[s] = "reading"
  /\ \E n \in 1 .. ChunkBytes :
       /\ n <= pipe[s]
       /\ LET from == written[s] - pipe[s]
          IN  channel' = Append(channel, [kind |-> "data", stream |-> s,
                                          from |-> from, upto |-> from + n])
       /\ pipe' = [pipe EXCEPT ![s] = @ - n]
  /\ UNCHANGED <<controllerVars, treeVars, written, reader, captured, fileVars,
                 expired>>

ReadEnd(s) ==
  /\ reader[s] = "reading"
  /\ pipe[s] = 0
  /\ holds[s] = {}
  /\ reader' = [reader EXCEPT ![s] = "ended"]
  /\ UNCHANGED <<controllerVars, treeVars, written, pipe, channel, captured,
                 fileVars, expired>>

ReadFails(s) ==
  /\ reader[s] = "reading"
  /\ channel' = Append(channel, [kind |-> "error", stream |-> s])
  /\ reader' = [reader EXCEPT ![s] = "ended"]
  /\ UNCHANGED <<controllerVars, treeVars, written, pipe, captured, fileVars,
                 expired>>

Reader(s) == Read(s) \/ ReadEnd(s) \/ ReadFails(s)

-----------------------------------------------------------------------------
(* The controller.                                                          *)

Return(r) ==
  /\ result' = r
  /\ pc' = "done"

LaunchFails ==
  /\ pc = "launch"
  /\ Return("ProcessLaunch")
  /\ UNCHANGED <<execution, treeVars, streamVars, captured, fileVars, expired>>

Launch ==
  /\ pc = "launch"
  /\ pc' = "try_wait"
  /\ child' = "running"
  /\ alive' = {Child}
  /\ holds' = [s \in Streams |-> {Child}]
  /\ reader' = [s \in Streams |-> "reading"]
  /\ UNCHANGED <<execution, result, status, unborn, doomed, written, pipe,
                 channel, captured, fileVars, expired>>

(* The loop ends with an error: terminate is called where the error is      *)
(* made and again after the loop.  The second call finds the child reaped   *)
(* and its group signalled, so the two are one step here.                   *)
LeaveLoop(error) ==
  /\ execution' = error
  /\ pc' = "terminate"

TryWait ==
  /\ pc = "try_wait"
  /\ \/ /\ child = "zombie"
        /\ child' = "reaped"
        /\ execution' = "exited"
        /\ pc' = "join_stdout"
     \/ /\ child = "running"
        /\ pc' = "deadline"
        /\ UNCHANGED <<child, execution>>
     \/ /\ LeaveLoop("Io")
        /\ UNCHANGED child
  /\ UNCHANGED <<result, status, unborn, alive, doomed, holds, streamVars,
                 captured, fileVars, expired>>

(* Mutant of CheckDeadline: the deadline is not tested.                     *)
CheckNoDeadline ==
  /\ pc = "deadline"
  /\ pc' = "live_scan"
  /\ UNCHANGED <<execution, result, treeVars, streamVars, captured, fileVars,
                 expired>>

CheckDeadline ==
  /\ pc = "deadline"
  /\ \/ /\ expired
        /\ LeaveLoop("Timeout")
     \/ /\ ~expired
        /\ pc' = "live_scan"
        /\ UNCHANGED execution
  /\ UNCHANGED <<result, treeVars, streamVars, captured, fileVars, expired>>

(* What directory_size sees: while a process is alive the tree changes      *)
(* under the walk, which is not atomic, so a file may be missed or counted  *)
(* at two places, and an entry of another kind may be passed over.          *)
ScannedSizes == IF alive = {} THEN {output} ELSE 0 .. OutputBound

ScannedUnsafe == IF alive = {} THEN {unsafe} ELSE {FALSE, unsafe}

ScanError(size, entry) ==
  IF entry THEN "UnsafeOutput"
  ELSE IF size > MaxOutputBytes THEN "OutputLimit" ELSE "none"

(* What a scan can report.  Reading a directory or an entry can fail.       *)
ScanErrors ==
  {"Io"} \union
  {ScanError(size, entry) : size \in ScannedSizes, entry \in ScannedUnsafe}

LiveScan ==
  /\ pc = "live_scan"
  /\ \E error \in ScanErrors :
       \/ /\ error # "none"
          /\ LeaveLoop(error)
       \/ /\ error = "none"
          /\ pc' = "recv"
          /\ UNCHANGED execution
  /\ UNCHANGED <<result, treeVars, streamVars, captured, fileVars, expired>>

(* Mutant of Exceeds: the limit itself is refused.                          *)
ExceedsAtLimit(event) ==
  captured[event.stream] + (event.upto - event.from) >= MaxLogBytes

Exceeds(event) ==
  captured[event.stream] + (event.upto - event.from) > MaxLogBytes

LimitError(s) == IF s = "stdout" THEN "StdoutLimit" ELSE "StderrLimit"

(* CapturedStreams::accept: the error it returns, and its effect.           *)
AcceptError(event) ==
  IF event.kind = "error" THEN "Io"
  ELSE IF Exceeds(event) THEN LimitError(event.stream) ELSE "none"

(* Mutant of Extend: the whole buffer is kept, not what was read into it.   *)
ExtendByBuffer(event) ==
  captured' = [captured EXCEPT ![event.stream] = @ + ChunkBytes]

Extend(event) ==
  captured' = [captured EXCEPT ![event.stream] = @ + (event.upto - event.from)]

Recv ==
  /\ pc = "recv"
  /\ \/ /\ channel = <<>>
        /\ pc' = "try_wait"
        /\ UNCHANGED <<execution, channel, captured>>
     \/ /\ channel # <<>>
        /\ channel' = Tail(channel)
        /\ LET error == AcceptError(Head(channel))
           IN  \/ /\ error = "none"
                  /\ Extend(Head(channel))
                  /\ pc' = "try_wait"
                  /\ UNCHANGED execution
               \/ /\ error # "none"
                  /\ LeaveLoop(error)
                  /\ UNCHANGED captured
  /\ UNCHANGED <<result, treeVars, written, pipe, reader, fileVars, expired>>

(* terminate: SIGKILL to the group, SIGKILL to the child, wait.             *)
(* Mutant of Signalled: only the child is killed, never its group.          *)
SignalledChild == alive \intersect {Child}

Signalled == IF GroupKill THEN alive ELSE alive \intersect {Child}

Terminate ==
  /\ pc = "terminate"
  /\ doomed' = doomed \union Signalled
  /\ pc' = "reap"
  /\ UNCHANGED <<execution, result, child, status, unborn, alive, holds,
                 streamVars, captured, fileVars, expired>>

(* Mutant of Reap: terminate does not wait for the child.                   *)
ReapNothing ==
  /\ pc = "reap"
  /\ pc' = "join_stdout"
  /\ UNCHANGED <<execution, result, treeVars, streamVars, captured, fileVars,
                 expired>>

Reap ==
  /\ pc = "reap"
  /\ child = "zombie"
  /\ child' = "reaped"
  /\ pc' = "join_stdout"
  /\ UNCHANGED <<execution, result, status, unborn, alive, doomed, holds,
                 streamVars, captured, fileVars, expired>>

(* Mutant of JoinStdout: the thread is not waited for.                      *)
LeaveStdout ==
  /\ pc = "join_stdout"
  /\ pc' = "join_stderr"
  /\ UNCHANGED <<execution, result, treeVars, streamVars, captured, fileVars,
                 expired>>

JoinStdout ==
  /\ pc = "join_stdout"
  /\ reader["stdout"] = "ended"
  /\ pc' = "join_stderr"
  /\ UNCHANGED <<execution, result, treeVars, streamVars, captured, fileVars,
                 expired>>

JoinStderr ==
  /\ pc = "join_stderr"
  /\ reader["stderr"] = "ended"
  /\ \/ /\ execution = "exited"
        /\ pc' = "drain"
        /\ UNCHANGED result
     \/ /\ execution # "exited"
        /\ Return(execution)
  /\ UNCHANGED <<execution, treeVars, streamVars, captured, fileVars, expired>>

(* Mutant of Drain: what is left in the channel is not received.            *)
DrainNothing ==
  /\ pc = "drain"
  /\ pc' = "final_scan"
  /\ UNCHANGED <<execution, result, treeVars, streamVars, captured, fileVars,
                 expired>>

(* drain_events.  accept calls terminate when a limit is crossed, not when  *)
(* the event is a read error; the child is already reaped.                  *)
Drain ==
  /\ pc = "drain"
  /\ \/ /\ channel = <<>>
        /\ pc' = "final_scan"
        /\ UNCHANGED <<result, channel, captured, doomed>>
     \/ /\ channel # <<>>
        /\ channel' = Tail(channel)
        /\ LET error == AcceptError(Head(channel))
           IN  \/ /\ error = "none"
                  /\ Extend(Head(channel))
                  /\ UNCHANGED <<pc, result, doomed>>
               \/ /\ error # "none"
                  /\ Return(error)
                  /\ doomed' = IF error = "Io" THEN doomed
                               ELSE doomed \union Signalled
                  /\ UNCHANGED captured
  /\ UNCHANGED <<execution, child, status, unborn, alive, holds, written, pipe,
                 reader, fileVars, expired>>

(* Mutant of FinalScan: the tree is not scanned again.                      *)
FinalNoScan ==
  /\ pc = "final_scan"
  /\ Return(IF status = "success" THEN "ok" ELSE "ProcessFailed")
  /\ UNCHANGED <<execution, treeVars, streamVars, captured, fileVars, expired>>

(* enforce_final_output_limit and the test of the exit status.              *)
FinalScan ==
  /\ pc = "final_scan"
  /\ \E error \in ScanErrors :
       Return(IF error # "none" THEN error
              ELSE IF status = "success" THEN "ok" ELSE "ProcessFailed")
  /\ UNCHANGED <<execution, treeVars, streamVars, captured, fileVars, expired>>

Controller ==
  \/ LaunchFails \/ Launch
  \/ TryWait \/ CheckDeadline \/ LiveScan \/ Recv
  \/ Terminate \/ Reap
  \/ JoinStdout \/ JoinStderr
  \/ Drain \/ FinalScan

Expire ==
  /\ ~expired
  /\ expired' = TRUE
  /\ UNCHANGED <<controllerVars, treeVars, streamVars, captured, fileVars>>

Next ==
  \/ Controller
  \/ \E s \in Streams : Reader(s)
  \/ \E p \in Procs : Process(p)
  \/ Expire

Spec == Init /\ [][Next]_vars

(* The threads of this program are scheduled, the clock advances and the    *)
(* kernel delivers a SIGKILL; nothing is assumed of the converter, nor that *)
(* a read ever fails.                                                       *)
Fairness ==
  /\ WF_vars(Controller)
  /\ \A s \in Streams : WF_vars(Read(s) \/ ReadEnd(s))
  /\ \A p \in Procs : WF_vars(Die(p))
  /\ WF_vars(Expire)

FairSpec == Spec /\ Fairness
-----------------------------------------------------------------------------
(* Properties.                                                              *)

Errors ==
  {"ProcessLaunch", "Io", "Timeout", "UnsafeOutput", "OutputLimit",
   "StdoutLimit", "StderrLimit", "ProcessFailed"}

(* Every variable has its type; a chunk of a stream is never empty.         *)
TypeOK ==
  /\ pc \in {"launch", "try_wait", "deadline", "live_scan", "recv",
             "terminate", "reap", "join_stdout", "join_stderr", "drain",
             "final_scan", "done"}
  /\ execution \in {"none", "exited"} \union Errors
  /\ result \in {"none", "ok"} \union Errors
  /\ child \in {"unborn", "running", "zombie", "reaped"}
  /\ status \in {"none", "success", "failure"}
  /\ unborn \subseteq Descendants
  /\ alive \subseteq Procs
  /\ doomed \subseteq Procs
  /\ holds \in [Streams -> SUBSET Procs]
  /\ written \in [Streams -> Nat]
  /\ pipe \in [Streams -> Nat]
  /\ reader \in [Streams -> {"none", "reading", "ended"}]
  /\ channel \in Seq(Chunk \union ReadError)
  /\ captured \in [Streams -> Nat]
  /\ output \in Nat
  /\ unsafe \in BOOLEAN
  /\ expired \in BOOLEAN

(* A returned log is the whole log: what run returns with Ok holds every    *)
(* byte the processes wrote, including those that were in a pipe or in the  *)
(* channel when the child exited.                                           *)
OkComplete == result = "ok" => captured = written

(* The log is never corrupted: the next chunk of a stream that the          *)
(* controller receives starts where what it has kept of the stream ends, so *)
(* that no step loses, repeats or reorders bytes of it.                     *)
InOrder ==
  execution \in {"none", "exited"} /\ result = "none" =>
    \A i \in 1 .. Len(channel) :
      /\ channel[i].kind = "data"
      /\ \A j \in 1 .. (i - 1) : channel[j].stream # channel[i].stream
      => channel[i].from = captured[channel[i].stream]

(* The log kept in memory is within its limit, and a limit is reported only *)
(* when the processes did write more than it: the limit itself is accepted. *)
LogLimit ==
  /\ \A s \in Streams : captured[s] <= MaxLogBytes
  /\ \A s \in Streams : result = LimitError(s) => written[s] > MaxLogBytes

(* run returns with nothing of its own left: the child is reaped and both   *)
(* reader threads have ended.                                               *)
NothingLeft ==
  pc = "done" /\ result # "ProcessLaunch" =>
    /\ child = "reaped"
    /\ \A s \in Streams : reader[s] = "ended"

(* A run that the controller cut short leaves no process that still runs    *)
(* code, wherever the group can be signalled.                               *)
NoSurvivors ==
  GroupKill /\ pc = "done" /\ execution \in Errors => alive \subseteq doomed

(* A child that forked nothing and whose run is Ok left at most             *)
(* max_output_bytes of regular files and nothing else.                      *)
OkOutputBounded ==
  result = "ok" /\ unborn = Descendants => output <= MaxOutputBytes /\ ~unsafe

(* run implements the contract of a bounded run.                            *)
Outcome ==
  IF result = "none" THEN "running" ELSE IF result = "ok" THEN "good" ELSE "bad"

Contract == INSTANCE BoundedRun WITH outcome <- Outcome, kept <- captured

ImplementsContract == Contract!Spec

(* A run that has sent a SIGKILL returns.                                   *)
KillReturns == GroupKill => (doomed # {} ~> pc = "done")

(* The child exited and one of its descendants holds a pipe open.           *)
OrphanHoldsPipe == execution = "exited" /\ \E s \in Streams : holds[s] # {}

(* Nothing but such a descendant can keep run from returning.               *)
ReturnsUnlessHeld == <>(pc = "done" \/ OrphanHoldsPipe)

(* "Each stage runs with a 120-second default deadline": run returns.       *)
Deadline == <>(pc = "done")
=============================================================================
