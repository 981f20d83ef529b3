------------------------------ MODULE MCPublish ------------------------------
(***************************************************************************)
(* The three publishers of the harness, each under its own faults, against *)
(* one contract: AtomicPublish (tree), SnapshotPublish (snapshot) and      *)
(* FilePublish (file).  One of them is checked in each behaviour.          *)
(***************************************************************************)
EXTENDS Naturals

CONSTANTS
  Publishers, Nobody,
  TreePublishers,  (* those of a tree: fewer, as the power may fail too     *)
  Files

VARIABLES
  which,
  tpc, tat, tfiles, tready, tdisk, tlost,
  spc, srenamed, sfailing, sat, sfiles, slock,
  fpc, fpending, fdestination, fcontent, fdisk, flost

treeVars == <<tpc, tat, tfiles, tready, tdisk, tlost>>
snapshotVars == <<spc, srenamed, sfailing, sat, sfiles, slock>>
fileVars == <<fpc, fpending, fdestination, fcontent, fdisk, flost>>
vars == <<which, treeVars, snapshotVars, fileVars>>

Tree == INSTANCE AtomicPublish WITH
  Publishers <- TreePublishers, MayLosePower <- TRUE,
  pc <- tpc, at <- tat, files <- tfiles, ready <- tready, disk <- tdisk, lost <- tlost

Snapshot == INSTANCE SnapshotPublish WITH
  Interrupts <- TRUE, CleanupFails <- TRUE,
  pc <- spc, renamed <- srenamed, failing <- sfailing, at <- sat, files <- sfiles,
  lock <- slock

File == INSTANCE FilePublish WITH
  MayLosePower <- TRUE,
  pc <- fpc, pending <- fpending, destination <- fdestination, content <- fcontent,
  disk <- fdisk, lost <- flost

ASSUME MCAssumption ==
  /\ TreePublishers \subseteq Publishers
  /\ Tree!PublishAssumption /\ Snapshot!PublishAssumption /\ File!PublishAssumption

Init ==
  /\ which \in {"tree", "snapshot", "file"}
  /\ Tree!Init /\ Snapshot!Init /\ File!Init

Next ==
  /\ UNCHANGED which
  /\ \/ which = "tree" /\ Tree!Next /\ UNCHANGED <<snapshotVars, fileVars>>
     \/ which = "snapshot" /\ Snapshot!Next /\ UNCHANGED <<treeVars, fileVars>>
     \/ which = "file" /\ File!Next /\ UNCHANGED <<treeVars, snapshotVars>>

Spec == Init /\ [][Next]_vars

-----------------------------------------------------------------------------
(* A call that succeeded has published all that it was given, for good: no  *)
(* other publisher, no clean-up and no power failure takes it away; and it  *)
(* locks nobody out.                                                        *)
OkIsForGood == Tree!OkIsForGood /\ Snapshot!OkIsForGood /\ File!OkIsForGood

(* Who finds a publication finds the whole of it, of a tree and of a file   *)
(* after a power failure too: of a tree, when it has a READY file and its   *)
(* publisher neither removes it nor has failed to, or died while it did; of *)
(* a snapshot, when its publisher has not failed; of a file always.         *)
PublishedIsWhole ==
  Tree!ReadyIsDurable /\ Snapshot!TargetIsComplete /\ File!DestinationIsWhole

(* A call that has failed, and whose clean-up came to its end, has removed  *)
(* the directory that it made at either name, or the pending file that it   *)
(* made, as long as the power does not fail.                                *)
FailedLeavesNothing == Tree!FailedLeavesNothing /\ File!FailedLeavesNothing

(* At most one live publisher of a snapshot is past the lock, and has it.   *)
LockExcludes == Snapshot!LockExcludes

(* Each of them implements the contract of the publishers.  A snapshot is   *)
(* published without any sync: of its name nothing is said after a power    *)
(* failure, which its publishers here do not meet.                          *)
Published ==
  CASE which = "tree" -> Tree!PublishedBy
    [] which = "snapshot" -> Snapshot!PublishedBy
    [] which = "file" -> File!PublishedBy

Recoverable ==
  CASE which = "tree" -> Tree!Recoverable
    [] which = "snapshot" -> {Snapshot!PublishedBy}
    [] which = "file" -> File!Recoverable

Lost ==
  CASE which = "tree" -> tlost
    [] which = "snapshot" -> FALSE
    [] which = "file" -> flost

Outcome ==
  [p \in Publishers |->
     CASE which = "tree" /\ p \in TreePublishers -> Tree!Outcome[p]
       [] which = "snapshot" -> Snapshot!Outcome[p]
       [] which = "file" -> File!Outcome[p]
       [] OTHER -> "running"]

Contract == INSTANCE CreateOnly WITH
  published <- Published, recoverable <- Recoverable, lost <- Lost, outcome <- Outcome

ImplementsContract == Contract!Spec
=============================================================================
