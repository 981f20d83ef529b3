----------------------------- MODULE FilePublish -----------------------------
(***************************************************************************)
(* publish_created_file of evaluate/multiformat_metric_file_publish.py:    *)
(* publish one file under a name that nothing has, by way of a pending     *)
(* name that several callers share.                                        *)
(*                                                                         *)
(* A file is named by the publisher that created it, which stands for the  *)
(* descriptor that the publisher keeps; a name holds a file or nobody's.   *)
(* A step may be followed by an error or an interruption, a process may    *)
(* die, and the power may fail once: a name, or a file, then has any of    *)
(* the states that it has had since the last fsync of what holds it.       *)
(***************************************************************************)
EXTENDS Naturals

CONSTANTS
  Publishers,   (* processes that call publish_created_file                *)
  Nobody,       (* not one of them                                         *)
  MayLosePower  (* whether the power may fail                              *)

PublishAssumption ==
  /\ Nobody \notin Publishers
  /\ MayLosePower \in BOOLEAN

VARIABLES
  pc,          (* per publisher, where it is in _publish                   *)
  pending,     (* whose file has the pending name, or Nobody               *)
  destination, (* whose file has the destination, or Nobody                *)
  content,     (* per publisher, "none", "part" or "whole"                 *)
  disk,        (* what pending, destination and content may be on disk     *)
  lost         (* the power has failed                                     *)

names == <<pending, destination>>
vars == <<pc, names, content, disk, lost>>

Init ==
  /\ pc = [p \in Publishers |-> "check"]
  /\ pending = Nobody
  /\ destination = Nobody
  /\ content = [p \in Publishers |-> "none"]
  /\ disk = [pending |-> {Nobody}, destination |-> {Nobody},
             content |-> [p \in Publishers |-> {"none"}]]
  /\ lost = FALSE

Goto(p, l) == pc' = [pc EXCEPT ![p] = l]

-----------------------------------------------------------------------------

(* lexists                                                                  *)
Check(p) ==
  /\ pc[p] = "check"
  /\ Goto(p, IF destination = Nobody THEN "create" ELSE "failed")
  /\ UNCHANGED <<names, content, disk, lost>>

(* The pending name is given to p's file, or taken from whatever has it.    *)
SetPending(n) ==
  /\ pending' = n
  /\ disk' = [disk EXCEPT !.pending = @ \union {n}]

(* O_CREAT | O_EXCL.  An interruption between it and the try leaves the     *)
(* file.                                                                    *)
CreatePending(p) ==
  /\ pc[p] = "create"
  /\ \/ /\ pending = Nobody
        /\ SetPending(p)
        /\ Goto(p, "write") \/ Goto(p, "left")
     \/ Goto(p, "failed") /\ UNCHANGED <<pending, disk>>
  /\ UNCHANGED <<destination, content, lost>>

(* A part of the payload is written, or the rest.                           *)
WriteMore(p, more) ==
  /\ content' = [content EXCEPT ![p] = more]
  /\ disk' = [disk EXCEPT !.content[p] = @ \union {more}]

(* Mutant of WritePayload: the file is not synced.                          *)
WriteUnsynced(p) ==
  /\ pc[p] = "write"
  /\ \/ content[p] = "none" /\ WriteMore(p, "part") /\ UNCHANGED pc
     \/ WriteMore(p, "whole") /\ Goto(p, "validate")
  /\ UNCHANGED <<names, lost>>

(* os.write as often as it takes, and fsync.                                *)
WritePayload(p) ==
  /\ pc[p] = "write"
  /\ \/ /\ content[p] # "whole"
        /\ WriteMore(p, IF content[p] = "none" THEN "part" ELSE "whole")
        /\ UNCHANGED pc
     \/ /\ content[p] = "whole"
        /\ disk' = [disk EXCEPT !.content[p] = {"whole"}]
        /\ Goto(p, "validate")
        /\ UNCHANGED content
  /\ UNCHANGED <<names, lost>>

(* The pending name has p's file, and what is read back from the descriptor *)
(* is the payload; the validator, which may refuse it, is called; the       *)
(* payload and the name are looked at once more.                            *)
Validate(p) ==
  /\ pc[p] = "validate"
  /\ pending = p /\ content[p] = "whole"
  /\ Goto(p, "recheck")
  /\ UNCHANGED <<names, content, disk, lost>>

Recheck(p) ==
  /\ pc[p] = "recheck"
  /\ pending = p /\ content[p] = "whole"
  /\ Goto(p, "rename")
  /\ UNCHANGED <<names, content, disk, lost>>

(* The rename goes by name, and replaces nothing.                           *)
Rename(p) ==
  /\ pc[p] = "rename"
  /\ pending # Nobody /\ destination = Nobody
  /\ destination' = pending /\ pending' = Nobody
  /\ disk' = [disk EXCEPT !.pending = @ \union {Nobody},
                         !.destination = @ \union {pending}]
  /\ Goto(p, "sync")
  /\ UNCHANGED <<content, lost>>

(* Mutant of SyncParent: the new name is not synced.                        *)
SyncNothing(p) ==
  /\ pc[p] = "sync" /\ Goto(p, "verify")
  /\ UNCHANGED <<names, content, disk, lost>>

SyncParent(p) ==
  /\ pc[p] = "sync"
  /\ disk' = [disk EXCEPT !.pending = {pending}, !.destination = {destination}]
  /\ Goto(p, "verify")
  /\ UNCHANGED <<names, content, lost>>

(* The last look at the destination: an error here removes nothing.         *)
Verify(p) ==
  /\ pc[p] = "verify"
  /\ \/ destination = p /\ Goto(p, "ok")
     \/ Goto(p, "failed")
  /\ UNCHANGED <<names, content, disk, lost>>

Trying == {"write", "validate", "recheck", "rename", "sync", "verify"}

(* A step inside the try fails, or is followed by an interruption before    *)
(* the publication is noted: the clean-up follows.                          *)
Raise(p) ==
  /\ pc[p] \in Trying
  /\ Goto(p, "discard")
  /\ UNCHANGED <<names, content, disk, lost>>

(* The pending file is removed if it is p's: after a rename whose sync has  *)
(* failed there is nothing to remove, and the destination stays.  The file  *)
(* stays when one of the calls that the removal makes fails.                *)
DiscardPending(p) ==
  /\ pc[p] = "discard"
  /\ \/ /\ IF pending = p THEN SetPending(Nobody) ELSE UNCHANGED <<pending, disk>>
        /\ Goto(p, "failed")
     \/ Goto(p, "left") /\ UNCHANGED <<pending, disk>>
  /\ UNCHANGED <<destination, content, lost>>

Publish(p) ==
  \/ Check(p) \/ CreatePending(p) \/ WritePayload(p) \/ Validate(p) \/ Recheck(p)
  \/ Rename(p) \/ SyncParent(p) \/ Verify(p) \/ Raise(p) \/ DiscardPending(p)

-----------------------------------------------------------------------------
Over(p) == pc[p] \in {"ok", "failed", "left", "dead"}

Die(p) ==
  /\ ~Over(p)
  /\ Goto(p, "dead")
  /\ UNCHANGED <<names, content, disk, lost>>

(* Nothing in the code removes the pending file of a process that died or   *)
(* was cut short: an operator does, once the process is over.               *)
ClearPending ==
  /\ \E p \in Publishers : pending = p /\ Over(p)
  /\ SetPending(Nobody)
  /\ UNCHANGED <<pc, destination, content, lost>>

PowerFails ==
  /\ MayLosePower /\ ~lost
  /\ lost' = TRUE
  /\ pending' \in disk.pending
  /\ destination' \in disk.destination
  /\ content' \in [Publishers -> {"none", "part", "whole"}]
  /\ \A p \in Publishers : content'[p] \in disk.content[p]
  /\ pc' = [p \in Publishers |-> IF Over(p) THEN pc[p] ELSE "dead"]
  /\ UNCHANGED disk

Next == PowerFails \/ ClearPending \/ \E p \in Publishers : Publish(p) \/ Die(p)

Spec == Init /\ [][Next]_vars

-----------------------------------------------------------------------------
(* Properties.                                                              *)

(* Whoever finds the destination finds a whole file, after a power failure  *)
(* too.                                                                     *)
DestinationIsWhole == destination # Nobody => content[destination] = "whole"

(* A call that succeeded has published its own file, for good.              *)
OkIsForGood == \A p \in Publishers : pc[p] = "ok" => destination = p

(* A call that has failed, and whose clean-up came to its end, leaves no    *)
(* pending file, as long as the power does not fail: a rename or a removal  *)
(* that is not synced may be undone.  A call is "left" when it was          *)
(* interrupted before the try or failed in its clean-up.                    *)
FailedLeavesNothing ==
  ~lost => \A p \in Publishers : pc[p] = "failed" => pending # p

-----------------------------------------------------------------------------
(* What the contract of the publishers sees.                                *)
PublishedBy == destination

Recoverable == disk.destination

Outcome ==
  [p \in Publishers |->
     CASE pc[p] = "ok" -> "ok"
       [] pc[p] \in {"failed", "left"} -> "failed"
       [] OTHER -> "running"]

=============================================================================
