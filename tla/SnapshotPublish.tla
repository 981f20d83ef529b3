--------------------------- MODULE SnapshotPublish ---------------------------
(***************************************************************************)
(* publish_snapshot of evaluate/multiformat_snapshot_publish.py: publish a *)
(* directory tree that has no readiness marker, by one rename that never   *)
(* replaces anything, while a lock file keeps other publishers away.       *)
(*                                                                         *)
(* An error or an interruption (KeyboardInterrupt) may come between any    *)
(* two steps and is followed by the clean-up; a process may also die       *)
(* without any.  A directory and a lock file are named by the publisher    *)
(* that created them, which stands for the inode that the code compares.   *)
(***************************************************************************)
EXTENDS Integers

CONSTANTS
  Publishers,   (* processes that call publish_snapshot                    *)
  Nobody,       (* not one of them                                         *)
  Files,        (* what the writer of a publisher puts into its tree       *)
  Interrupts,   (* whether the rename may be interrupted before the code   *)
                (* has noted that it is done                               *)
  CleanupFails  (* whether the removal of a directory may fail             *)

PublishAssumption ==
  /\ Nobody \notin Publishers
  /\ Files # {}
  /\ Interrupts \in BOOLEAN
  /\ CleanupFails \in BOOLEAN

VARIABLES
  pc,       (* per publisher, where it is in publish_snapshot              *)
  renamed,  (* publishers that have noted their rename                     *)
  failing,  (* publishers that have an error to raise                      *)
  at,       (* per publisher, the name its directory has                   *)
  files,    (* per publisher, the files in its directory                   *)
  lock      (* whose lock file exists                                      *)

vars == <<pc, renamed, failing, at, files, lock>>

Init ==
  /\ pc = [p \in Publishers |-> "check"]
  /\ renamed = {}
  /\ failing = {}
  /\ at = [p \in Publishers |-> "none"]
  /\ files = [p \in Publishers |-> {}]
  /\ lock = Nobody

Goto(p, l) == pc' = [pc EXCEPT ![p] = l]

Occupied == \E p \in Publishers : at[p] = "target"

(* An error, or an interruption: the clean-up follows.                      *)
Fails(p) ==
  /\ Goto(p, "remove")
  /\ failing' = failing \union {p}

-----------------------------------------------------------------------------

Check(p) ==
  /\ pc[p] = "check"
  /\ Goto(p, IF Occupied THEN "failed" ELSE "lock")
  /\ UNCHANGED <<renamed, failing, at, files, lock>>

(* Mutant of AcquireLock: a lock that exists is opened.                     *)
OpenLock(p) ==
  /\ pc[p] = "lock"
  /\ lock' = p
  /\ Goto(p, "recheck")
  /\ UNCHANGED <<renamed, failing, at, files>>

(* acquire_lock                                                             *)
AcquireLock(p) ==
  /\ pc[p] = "lock"
  /\ \/ lock = Nobody /\ lock' = p /\ Goto(p, "recheck")
     \/ lock' = lock /\ Goto(p, "failed")
  /\ UNCHANGED <<renamed, failing, at, files>>

Recheck(p) ==
  /\ pc[p] = "recheck"
  /\ \/ ~Occupied /\ Goto(p, "stage") /\ UNCHANGED failing
     \/ Fails(p)
  /\ UNCHANGED <<renamed, at, files, lock>>

(* mkdtemp, and the directory is opened.                                    *)
Stage(p) ==
  /\ pc[p] = "stage"
  /\ \/ at' = [at EXCEPT ![p] = "staging"] /\ Goto(p, "write")
        /\ UNCHANGED failing
     \/ at' \in {at, [at EXCEPT ![p] = "staging"]} /\ Fails(p)
  /\ UNCHANGED <<renamed, files, lock>>

Write(p) ==
  /\ pc[p] = "write"
  /\ \E f \in Files \ files[p] : files' = [files EXCEPT ![p] = @ \union {f}]
  /\ UNCHANGED <<pc, renamed, failing, at, lock>>

(* The writer is done, its directory is still there; before_publish.        *)
WriterEnds(p) ==
  /\ pc[p] = "write"
  /\ \/ files[p] = Files /\ Goto(p, "rename") /\ UNCHANGED failing
     \/ Fails(p)
  /\ UNCHANGED <<renamed, at, files, lock>>

Moved(p) == [at EXCEPT ![p] = "target"]

(* _atomic_rename_noreplace, and renamed = True.                            *)
Rename(p) ==
  /\ pc[p] = "rename"
  /\ \/ /\ ~Occupied
        /\ at' = Moved(p)
        /\ renamed' = renamed \union {p}
        /\ Goto(p, "verify")
        /\ UNCHANGED failing
     \/ Interrupts /\ ~Occupied /\ at' = Moved(p) /\ Fails(p)
        /\ UNCHANGED renamed
     \/ Fails(p) /\ UNCHANGED <<at, renamed>>
  /\ UNCHANGED <<files, lock>>

(* verify_directory_identity, and published = True.                         *)
Verify(p) ==
  /\ pc[p] = "verify"
  /\ \/ Goto(p, "unlock") /\ UNCHANGED failing
     \/ Fails(p)
  /\ UNCHANGED <<renamed, at, files, lock>>

-----------------------------------------------------------------------------
(* _cleanup                                                                 *)

(* _clean_directory_fd empties the directory that p has open, whatever its  *)
(* name is.                                                                 *)
RemoveEntry(p) ==
  /\ pc[p] = "remove"
  /\ \E f \in files[p] : files' = [files EXCEPT ![p] = @ \ {f}]
  /\ UNCHANGED <<pc, renamed, failing, at, lock>>

(* Mutant of RemoveDirectory: whatever has the name is removed.             *)
RemoveByName(p) ==
  /\ pc[p] = "remove"
  /\ at' = [q \in Publishers |->
              IF at[q] = "target" \/ q = p THEN "none" ELSE at[q]]
  /\ Goto(p, "unlock")
  /\ UNCHANGED <<renamed, failing, files, lock>>

Believed(p) == IF p \in renamed THEN "target" ELSE "staging"

(* The directory is removed by the name p believes it has, if the name is   *)
(* that of its directory.                                                   *)
RemoveDirectory(p) ==
  /\ pc[p] = "remove"
  /\ \/ /\ files[p] = {}
        /\ at' = IF at[p] = Believed(p) THEN [at EXCEPT ![p] = "none"] ELSE at
     \/ CleanupFails /\ UNCHANGED at
  /\ Goto(p, "unlock")
  /\ UNCHANGED <<renamed, failing, files, lock>>

End(p) == Goto(p, IF p \in failing THEN "failed" ELSE "ok")

(* A lock that is not removed is an error, of a published tree too.         *)
Unlock(p) ==
  /\ pc[p] = "unlock"
  /\ \/ lock = p /\ lock' = Nobody /\ End(p)
     \/ lock' = lock /\ Goto(p, "failed")
  /\ UNCHANGED <<renamed, failing, at, files>>

Publish(p) ==
  \/ Check(p) \/ AcquireLock(p) \/ Recheck(p) \/ Stage(p) \/ Write(p)
  \/ WriterEnds(p) \/ Rename(p) \/ Verify(p)
  \/ RemoveEntry(p) \/ RemoveDirectory(p) \/ Unlock(p)

-----------------------------------------------------------------------------
Die(p) ==
  /\ pc[p] \notin {"ok", "failed", "dead"}
  /\ Goto(p, "dead")
  /\ UNCHANGED <<renamed, failing, at, files, lock>>

(* An operator removes the lock that a dead process left.                   *)
ClearLock ==
  /\ \E p \in Publishers : lock = p /\ pc[p] \in {"failed", "dead"}
  /\ lock' = Nobody
  /\ UNCHANGED <<pc, renamed, failing, at, files>>

Next == ClearLock \/ \E p \in Publishers : Publish(p) \/ Die(p)

Spec == Init /\ [][Next]_vars

-----------------------------------------------------------------------------
(* Properties.                                                              *)

Working(p) ==
  pc[p] \in {"recheck", "stage", "write", "rename", "verify", "remove",
             "unlock"}

(* At most one live publisher is past the lock, and it has the lock file.   *)
LockExcludes == \A p \in Publishers : Working(p) => lock = p

(* A call that succeeded has published the complete tree for good, and      *)
(* locks nobody out.                                                        *)
OkIsForGood ==
  \A p \in Publishers :
    pc[p] = "ok" => at[p] = "target" /\ files[p] = Files /\ lock # p

(* As long as nothing fails after the rename, and no process dies while it  *)
(* removes what it published, whoever sees the target sees all of it.       *)
TargetIsComplete ==
  \A p \in Publishers :
    at[p] = "target" /\ p \notin failing => files[p] = Files

(* What publish_snapshot is for: when a call has ended, the target is a     *)
(* complete tree, or it is not there.                                       *)
EndedIsComplete ==
  \A p \in Publishers :
    pc[p] \in {"ok", "failed"} /\ at[p] = "target" => files[p] = Files

(* What the contract of the publishers sees.                                *)
PublishedBy ==
  IF Occupied THEN CHOOSE p \in Publishers : at[p] = "target" ELSE Nobody

Outcome ==
  [p \in Publishers |->
     IF pc[p] \in {"ok", "failed"} THEN pc[p] ELSE "running"]

=============================================================================
