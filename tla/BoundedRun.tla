------------------------------ MODULE BoundedRun ------------------------------
(***************************************************************************)
(* What running a converter under limits promises, whoever does it:        *)
(* SystemCommandRunner::run (NativeProcess) and run_bounded_process        *)
(* (CandidateProcess) both implement this.                                 *)
(*                                                                         *)
(* Processes emit bytes on streams; the runner keeps a bounded prefix of   *)
(* each stream; it returns once.  A run may be reported good only when it  *)
(* has kept all there is, and then there is nothing more to come.          *)
(***************************************************************************)
EXTENDS Integers

CONSTANTS
  Streams,     (* the streams of the processes                             *)
  MaxLogBytes  (* how many bytes of a stream may be kept                   *)

VARIABLES
  outcome,  (* "running", "good" or "bad"                                  *)
  written,  (* per stream, bytes emitted so far                            *)
  kept      (* per stream, bytes kept so far                               *)

vars == <<outcome, written, kept>>

Init ==
  /\ outcome = "running"
  /\ written = [s \in Streams |-> 0]
  /\ kept = [s \in Streams |-> 0]

(* A process may go on after a bad run, never after a good one.             *)
Emit(s) ==
  /\ outcome # "good"
  /\ written' = [written EXCEPT ![s] = @ + 1]
  /\ UNCHANGED <<outcome, kept>>

Keep(s) ==
  /\ outcome = "running"
  /\ \E n \in kept[s] .. written[s] :
       /\ n <= MaxLogBytes
       /\ kept' = [kept EXCEPT ![s] = n]
  /\ UNCHANGED <<outcome, written>>

ReturnGood ==
  /\ outcome = "running"
  /\ kept = written
  /\ outcome' = "good"
  /\ UNCHANGED <<written, kept>>

ReturnBad ==
  /\ outcome = "running"
  /\ outcome' = "bad"
  /\ UNCHANGED <<written, kept>>

Next == ReturnGood \/ ReturnBad \/ \E s \in Streams : Emit(s) \/ Keep(s)

Spec == Init /\ [][Next]_vars
=============================================================================
