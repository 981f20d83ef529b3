---------------------------- MODULE AtomicPublish ----------------------------
(***************************************************************************)
(* atomic_publish of evaluate/multiformat_atomic_publish.py: publish a     *)
(* directory tree under a name, with a READY file as the sign that it is   *)
(* complete.                                                               *)
(*                                                                         *)
(* Several processes publish to one destination; a process may die at any  *)
(* moment, a step of it may be followed by an error or an interruption,    *)
(* and the machine may lose its power once.  A directory is named by the   *)
(* publisher that created it.  A change is on disk for sure once an fsync  *)
(* of what holds it has returned; until then a power failure may leave any *)
(* of the states that it has had since the last one.  A file system that   *)
(* does not let directories be synced is left out.                         *)
(***************************************************************************)
EXTENDS Integers

CONSTANTS
  Publishers,  (* processes that call atomic_publish                       *)
  Nobody,      (* not one of them                                          *)
  Files,       (* what the writer of a publisher puts into its tree        *)
  MayLosePower (* whether the power may fail                               *)

(* No writer of the harness publishes an empty tree.                        *)
PublishAssumption ==
  /\ Nobody \notin Publishers
  /\ Files # {}
  /\ MayLosePower \in BOOLEAN

VARIABLES
  pc,      (* per publisher, where it is in atomic_publish                 *)
  at,      (* per publisher, the name its directory has                    *)
  files,   (* per publisher, the files in its directory                    *)
  ready,   (* the publishers whose directory has a READY file              *)
  disk,    (* of each publisher, the names that its directory may have on  *)
           (* disk (at); the files, and the publishers whose READY, may be *)
           (* there or not, whatever files and ready say (files, ready)    *)
  lost     (* the power has failed                                         *)

treeVars == <<at, files, ready>>
vars == <<pc, treeVars, disk, lost>>

Names == {"none", "staging", "destination"}

Init ==
  /\ pc = [p \in Publishers |-> "check"]
  /\ at = [p \in Publishers |-> "none"]
  /\ files = [p \in Publishers |-> {}]
  /\ ready = {}
  /\ disk = [at |-> [p \in Publishers |-> {"none"}],
             files |-> [p \in Publishers |-> {}], ready |-> {}]
  /\ lost = FALSE

Goto(p, l) == pc' = [pc EXCEPT ![p] = l]

Occupied == \E p \in Publishers : at[p] = "destination"

-----------------------------------------------------------------------------

(* The destination is looked for before anything is done, and again before  *)
(* the rename.                                                              *)
Check(p) ==
  /\ pc[p] = "check"
  /\ Goto(p, IF Occupied THEN "failed" ELSE "stage")
  /\ UNCHANGED <<treeVars, disk, lost>>

(* The name of a directory changes, and may or may not do so on disk.       *)
Named(names) ==
  /\ at' = names
  /\ disk' = [disk EXCEPT !.at = [p \in Publishers |-> @[p] \union {names[p]}]]

(* An entry of q's directory is written or removed.                         *)
ChangeFile(q, present) ==
  \E f \in IF present THEN Files \ files[q] ELSE files[q] :
    /\ files' = [files EXCEPT ![q] = IF present THEN @ \union {f} ELSE @ \ {f}]
    /\ disk' = [disk EXCEPT !.files[q] = @ \union {f}]
    /\ UNCHANGED ready

ChangeReady(q, present) ==
  /\ q \in IF present THEN Publishers \ ready ELSE ready
  /\ ready' = IF present THEN ready \union {q} ELSE ready \ {q}
  /\ disk' = [disk EXCEPT !.ready = @ \union {q}]
  /\ UNCHANGED files

(* mkdtemp                                                                  *)
Stage(p) ==
  /\ pc[p] = "stage"
  /\ \/ Named([at EXCEPT ![p] = "staging"]) /\ Goto(p, "stat")
     \/ Goto(p, "failed") /\ UNCHANGED <<at, disk>>
  /\ UNCHANGED <<files, ready, lost>>

(* The identity of the staging directory is read before the try: an error   *)
(* here, or an interruption, leaves the empty directory.                    *)
Stat(p) ==
  /\ pc[p] = "stat"
  /\ \/ Goto(p, "write")
     \/ Goto(p, "left")
  /\ UNCHANGED <<treeVars, disk, lost>>

(* The writer, which may put a READY file there by mistake.                 *)
Write(p) ==
  /\ pc[p] = "write"
  /\ ChangeFile(p, TRUE) \/ ChangeReady(p, TRUE)
  /\ UNCHANGED <<pc, at, lost>>

WriterEnds(p) ==
  /\ pc[p] = "write"
  /\ files[p] = Files
  /\ Goto(p, "reserve")
  /\ UNCHANGED <<treeVars, disk, lost>>

Reserve(p) ==
  /\ pc[p] = "reserve"
  /\ Goto(p, IF p \in ready THEN "remove" ELSE "sync_tree")
  /\ UNCHANGED <<treeVars, disk, lost>>

SyncTree(p) ==
  /\ pc[p] = "sync_tree"
  /\ Goto(p, "recheck")
  /\ disk' = [disk EXCEPT !.files[p] = {}, !.ready = @ \ {p}]
  /\ UNCHANGED <<treeVars, lost>>

Recheck(p) ==
  /\ pc[p] = "recheck"
  /\ Goto(p, IF Occupied THEN "remove" ELSE "rename")
  /\ UNCHANGED <<treeVars, disk, lost>>

Empty(p) == files[p] = {} /\ p \notin ready

(* rename replaces a directory that is empty, and no other.                 *)
Rename(p) ==
  /\ pc[p] = "rename"
  /\ \A q \in Publishers : at[q] = "destination" => Empty(q)
  /\ Named([q \in Publishers |->
              IF q = p THEN "destination"
              ELSE IF at[q] = "destination" THEN "none" ELSE at[q]])
  /\ Goto(p, "sync_parent")
  /\ UNCHANGED <<files, ready, lost>>

SyncParent(p) ==
  /\ pc[p] = "sync_parent"
  /\ Goto(p, "write_ready")
  /\ disk' = [disk EXCEPT !.at = [q \in Publishers |-> {at[q]}]]
  /\ UNCHANGED <<treeVars, lost>>

(* _write_ready writes a synced file and renames it to READY, in whichever  *)
(* directory is the destination.                                            *)
WriteReady(p) ==
  /\ pc[p] = "write_ready"
  /\ \E q \in Publishers : at[q] = "destination" /\ ChangeReady(q, TRUE)
  /\ Goto(p, "sync_ready")
  /\ UNCHANGED <<at, lost>>

SyncReady(p) ==
  /\ pc[p] = "sync_ready"
  /\ Goto(p, "complete")
  /\ \E q \in Publishers :
       /\ at[q] = "destination"
       /\ disk' = [disk EXCEPT !.files[q] = {}, !.ready = @ \ {q}]
  /\ UNCHANGED <<treeVars, lost>>

(* complete = True; an interruption between it and the return fails a call  *)
(* that has published, and removes nothing.                                 *)
Complete(p) ==
  /\ pc[p] = "complete"
  /\ \/ Goto(p, "ok")
     \/ Goto(p, "left")
  /\ UNCHANGED <<treeVars, disk, lost>>

Trying ==
  {"write", "reserve", "sync_tree", "recheck", "rename", "sync_parent",
   "write_ready", "sync_ready", "complete"}

(* An error or an interruption inside the try, before the next step or in   *)
(* place of it: a sync that has failed may have synced nothing.             *)
Raise(p) ==
  /\ pc[p] \in Trying
  /\ Goto(p, "remove")
  /\ UNCHANGED <<treeVars, disk, lost>>

-----------------------------------------------------------------------------
(* _remove_owned_directory: the directory that p created, by its inode, at  *)
(* the staging name or at the destination.                                  *)
Own(p) == {q \in {p} : at[q] \in {"staging", "destination"}}

(* Mutant of Remove: only the staging directory is removed.                 *)
RemoveStaging(p) ==
  /\ pc[p] = "remove"
  /\ Named(IF at[p] = "staging" THEN [at EXCEPT ![p] = "none"] ELSE at)
  /\ Goto(p, "failed")
  /\ UNCHANGED <<files, ready, lost>>

(* rmtree removes one entry after the other, in any order ...               *)
RemoveEntry(p) ==
  /\ pc[p] = "remove"
  /\ \E q \in Own(p) : ChangeFile(q, FALSE) \/ ChangeReady(q, FALSE)
  /\ UNCHANGED <<pc, at, lost>>

(* ... and then the directory.                                              *)
Remove(p) ==
  /\ pc[p] = "remove"
  /\ \A q \in Own(p) : Empty(q)
  /\ Named([q \in Publishers |-> IF q \in Own(p) THEN "none" ELSE at[q]])
  /\ Goto(p, "failed")
  /\ UNCHANGED <<files, ready, lost>>

(* lstat or rmtree raises, or is interrupted.                               *)
RemovalFails(p) ==
  /\ pc[p] = "remove"
  /\ Goto(p, "left")
  /\ UNCHANGED <<treeVars, disk, lost>>

Publish(p) ==
  \/ Check(p) \/ Stage(p) \/ Stat(p) \/ Write(p) \/ WriterEnds(p) \/ Reserve(p)
  \/ SyncTree(p) \/ Recheck(p) \/ Rename(p) \/ SyncParent(p) \/ WriteReady(p)
  \/ SyncReady(p) \/ Complete(p) \/ Raise(p)
  \/ RemoveEntry(p) \/ Remove(p) \/ RemovalFails(p)

-----------------------------------------------------------------------------
Over(p) == pc[p] \in {"ok", "failed", "left", "dead", "torn"}

(* Where a process is that dies: "torn" when it was removing its tree.      *)
Dead(p) == IF pc[p] = "remove" THEN "torn" ELSE "dead"

(* The process dies, and removes nothing more.                              *)
Die(p) ==
  /\ ~Over(p)
  /\ Goto(p, Dead(p))
  /\ UNCHANGED <<treeVars, disk, lost>>

(* Of what is not on disk for sure, anything may be there.                  *)
PowerFails ==
  /\ MayLosePower
  /\ ~lost
  /\ lost' = TRUE
  /\ at' \in [Publishers -> Names]
  /\ \A p \in Publishers : at'[p] \in disk.at[p]
  /\ \A p, q \in Publishers :
       at'[p] = "destination" /\ at'[q] = "destination" => p = q
  /\ files' \in [Publishers -> SUBSET Files]
  /\ \A p \in Publishers : files'[p] \ disk.files[p] = files[p] \ disk.files[p]
  /\ ready' \in SUBSET Publishers
  /\ ready' \ disk.ready = ready \ disk.ready
  /\ pc' = [p \in Publishers |-> IF Over(p) THEN pc[p] ELSE Dead(p)]
  /\ UNCHANGED disk

Next == PowerFails \/ \E p \in Publishers : Publish(p) \/ Die(p)

Spec == Init /\ [][Next]_vars

-----------------------------------------------------------------------------
(* Properties.                                                              *)

Published(p) == at[p] = "destination" /\ p \in ready

(* A published tree is complete, its rename too is on disk before it has a  *)
(* READY file, and it stays so when the power fails, also after its         *)
(* publisher has died.  A tree that its publisher withdraws is an           *)
(* exception, as are those whose removal failed or was cut short: rmtree    *)
(* takes their entries in any order, READY first or last.                   *)
ReadyIsDurable ==
  \A p \in Publishers :
    Published(p) /\ pc[p] \notin {"remove", "torn", "left", "failed"}
    => /\ files[p] = Files
       /\ disk.files[p] = {}
       /\ disk.at[p] = {"destination"}

(* A call that succeeded has published the complete tree, for good: no      *)
(* other publisher and no power failure takes anything away from it.        *)
OkIsForGood ==
  \A p \in Publishers : pc[p] = "ok" => Published(p) /\ files[p] = Files

(* A call that has failed, and whose clean-up came to its end, has left     *)
(* nothing behind, as long as the power does not fail: a power failure may  *)
(* bring back what was removed.  A call is "left" when it failed before the *)
(* try, in its clean-up or after its last step.                             *)
FailedLeavesNothing ==
  ~lost => \A p \in Publishers : pc[p] = "failed" => at[p] = "none"

-----------------------------------------------------------------------------
(* What the contract of the publishers sees.                                *)
PublishedBy ==
  IF \E p \in Publishers : Published(p)
    THEN CHOOSE p \in Publishers : Published(p) ELSE Nobody

(* The trees that have the destination and a READY file on disk, perhaps    *)
(* and for sure: whose tree may be published after a power failure.         *)
MayRecover(p) == "destination" \in disk.at[p] /\ p \in ready \union disk.ready
Recovers(p) == disk.at[p] = {"destination"} /\ p \in ready \ disk.ready

Recoverable ==
  {p \in Publishers : MayRecover(p)} \union
  {n \in {Nobody} : \A p \in Publishers : ~Recovers(p)}

Outcome ==
  [p \in Publishers |->
     CASE pc[p] = "ok" -> "ok"
       [] pc[p] \in {"failed", "left"} -> "failed"
       [] OTHER -> "running"]

=============================================================================
