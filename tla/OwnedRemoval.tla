----------------------------- MODULE OwnedRemoval -----------------------------
(***************************************************************************)
(* The removal of the workspace of a native unit, name by name, while      *)
(* other people move files (evaluate/multiformat_native_unit_cleanup.py).  *)
(* An entry is first moved into a directory that the remover has made, its *)
(* tombstone, and removed there if it is the one that was meant; when a    *)
(* step fails it is put back, if that works.                               *)
(*                                                                         *)
(* The workspace w holds one file.  Level 1 is the removal of w from its   *)
(* parent, level 2 that of the file from w.  Others reach every name, also *)
(* those in tombstones, and in w while w is in one, by a descriptor; but   *)
(* nobody reaches a tombstone from the moment that it is made read-only    *)
(* until its entry is removed.  The code makes it writable again right     *)
(* before it calls unlinkat: a swap between these two calls is left out,   *)
(* as is one that moves a tombstone itself.                                *)
(***************************************************************************)
EXTENDS Naturals

CONSTANT MaxMoves   \* bound on the moves by others

Nodes == {"w", "c", "f"}   \* the workspace, its file, somebody's file
Levels == {1, 2}

VARIABLES
  at,        \* node -> [dir, level]: at the name of that level, in its directory or in
             \* its tombstone; or Away, or Gone when the remover has removed it
  moves,
  level,     \* the level that is being removed
  pc,        \* level -> its step
  expected,  \* level -> the node that is meant, if there is one
  removal    \* "running", "done" or "failed"

vars == <<at, moves, level, pc, expected, removal>>

Place(l) == [level |-> l, tombstone |-> FALSE]
Tombstone(l) == [level |-> l, tombstone |-> TRUE]
Away == [level |-> 0, tombstone |-> FALSE]
Gone == [level |-> 0, tombstone |-> TRUE]

There(p) == {n \in Nodes : at[n] = p}

Init ==
  /\ at = [n \in Nodes |-> CASE n = "w" -> Place(1) [] n = "c" -> Place(2) [] OTHER -> Away]
  /\ moves = 0 /\ level = 1 /\ pc = [l \in Levels |-> "mkdir"]
  /\ expected = [l \in Levels |-> IF l = 1 THEN {"w"} ELSE {}]
  /\ removal = "running"

-----------------------------------------------------------------------------
Sealed(l) == pc[l] \in {"recheck", "unlink"}

\* The tombstone of the level exists, and is the remover's to use.
Made(l) == l <= level /\ pc[l] \notin {"mkdir", "return", "raise"}

TakeAway(n) ==
  \E l \in Levels :
    /\ at[n] = Place(l) \/ (at[n] = Tombstone(l) /\ ~Sealed(l))
    /\ at' = [at EXCEPT ![n] = Away]

\* A name holds one node, and w cannot be moved into itself.
PutThere(n) ==
  \E l \in Levels : \E p \in {Place(l), Tombstone(l)} :
    /\ at[n] = Away /\ There(p) = {}
    /\ p = Tombstone(l) => Made(l) /\ ~Sealed(l)
    /\ l = 2 => n # "w" /\ at["w"] # Gone
    /\ at' = [at EXCEPT ![n] = p]

Move(n) ==
  /\ moves < MaxMoves /\ moves' = moves + 1 /\ removal = "running"
  /\ TakeAway(n) \/ PutThere(n)
  /\ UNCHANGED <<level, pc, expected, removal>>

-----------------------------------------------------------------------------
(* The remover at its level.                                                *)

On(step) == removal = "running" /\ pc[level] = step
Goto(step) == pc' = [pc EXCEPT ![level] = step]

\* rename without replacement, which fails when the target is taken.
Rename(from, to) == at' = [n \in Nodes |-> IF at[n] = from THEN to ELSE at[n]]

\* The tombstone is made and opened; that may fail.
MakeTombstone ==
  /\ On("mkdir") /\ (Goto("capture") \/ Goto("raise"))
  /\ UNCHANGED <<at, moves, level, expected, removal>>

\* The rename may fail for other reasons too.
Capture ==
  /\ On("capture")
  /\ \/ /\ There(Place(level)) # {} /\ There(Tombstone(level)) = {}
        /\ Rename(Place(level), Tombstone(level))
        /\ Goto("open")
     \/ Goto("put back") /\ UNCHANGED at
  /\ UNCHANGED <<moves, level, expected, removal>>

\* Mutant of Meant: the workspace is known by its name.
ByName == level = 1 \/ There(Tombstone(level)) = expected[level]

\* The entry in the tombstone has the inode that was meant.
Meant == There(Tombstone(level)) = expected[level]

\* The captured entry, which may be a link or not to be read, is opened and compared.
Open ==
  /\ On("open")
  /\ \/ /\ There(Tombstone(level)) # {}
        /\ Goto(IF ~Meant THEN "give back" ELSE IF level = 1 THEN "scan" ELSE "seal")
     \/ Goto("put back")
  /\ UNCHANGED <<at, moves, level, expected, removal>>

\* _clean_directory: the entries of the workspace are listed, and each is removed.
Scan ==
  /\ On("scan")
  /\ \/ There(Place(2)) = {} /\ Goto("seal") /\ UNCHANGED <<level, expected>>
     \/ /\ There(Place(2)) # {}
        /\ expected' = [expected EXCEPT ![2] = There(Place(2))]
        /\ pc' = [pc EXCEPT ![1] = "seal"] /\ level' = 2
     \/ Goto("restore") /\ UNCHANGED <<level, expected>>
  /\ UNCHANGED <<at, moves, removal>>

\* The tombstone is made read-only: whatever others have done to it is done.
Seal ==
  /\ On("seal") /\ (Goto("recheck") \/ Goto("restore"))
  /\ UNCHANGED <<at, moves, level, expected, removal>>

\* What is not meant any more stays in the tombstone.
Recheck ==
  /\ On("recheck") /\ Goto(IF Meant THEN "unlink" ELSE "rmdir after an error")
  /\ UNCHANGED <<at, moves, level, expected, removal>>

\* A directory must be empty; and the call may fail for other reasons too.
Remove ==
  /\ On("unlink")
  /\ \/ /\ level = 1 => There(Place(2)) = {}
        /\ Rename(Tombstone(level), Gone)
        /\ Goto("rmdir")
     \/ Goto("restore") /\ UNCHANGED at
  /\ UNCHANGED <<moves, level, expected, removal>>

\* Whatever is in the tombstone goes back to the name, if that is free and it works: the
\* entry that could not be opened, or that was not meant.
PutBack ==
  /\ On("put back") \/ On("give back")
  /\ Goto(IF On("give back") THEN "restore" ELSE "rmdir after an error")
  /\ \/ There(Place(level)) = {} /\ Rename(Tombstone(level), Place(level))
     \/ UNCHANGED at
  /\ UNCHANGED <<moves, level, expected, removal>>

\* The handler of an error: the entry goes back, if it is the one that was meant.
Restore ==
  /\ On("restore") /\ Goto("rmdir after an error")
  /\ \/ Meant /\ There(Place(level)) = {} /\ Rename(Tombstone(level), Place(level))
     \/ UNCHANGED at
  /\ UNCHANGED <<moves, level, expected, removal>>

\* The tombstone is removed, if nothing is in it; if not, or when the removal fails, that
\* is an error, also when the entry has been removed.
RemoveTombstone ==
  /\ \/ On("rmdir") /\ There(Tombstone(level)) = {} /\ Goto("return")
     \/ On("rmdir") /\ Goto("raise")
     \/ On("rmdir after an error") /\ Goto("raise")
  /\ UNCHANGED <<at, moves, level, expected, removal>>

\* What fails in the workspace is handled as an error of the workspace.
Return ==
  /\ On("return") \/ On("raise")
  /\ IF level = 2
     THEN /\ level' = 1 /\ UNCHANGED removal
          /\ pc' = IF On("raise") THEN [pc EXCEPT ![1] = "restore"] ELSE pc
     ELSE /\ removal' = IF On("raise") THEN "failed" ELSE "done"
          /\ UNCHANGED <<level, pc>>
  /\ UNCHANGED <<at, moves, expected>>

\* An interruption skips the handler, and leaves the entry where it is.
Interrupt ==
  /\ removal = "running" /\ pc[level] # "raise"
  /\ Goto(IF pc[level] \in {"mkdir", "return"} THEN "raise" ELSE "rmdir after an error")
  /\ UNCHANGED <<at, moves, level, expected, removal>>

Next ==
  \/ \E n \in Nodes : Move(n)
  \/ MakeTombstone \/ Capture \/ Open \/ Scan \/ Seal \/ Recheck \/ Remove
  \/ PutBack \/ Restore \/ RemoveTombstone \/ Return \/ Interrupt

Spec == Init /\ [][Next]_vars

-----------------------------------------------------------------------------
(* Only the workspace that was made, and what was in it when it was listed, *)
(* is removed, however names change hands meanwhile; and a removal that     *)
(* succeeded has removed the workspace, and hides nothing in a tombstone.   *)
(* One that fails may have removed the workspace too, or leave an entry in  *)
(* a tombstone.                                                             *)
OwnedOnly ==
  /\ There(Gone) \subseteq {"w"} \cup expected[2]
  /\ removal = "done" =>
       /\ "w" \in There(Gone)
       /\ \A l \in Levels : There(Tombstone(l)) = {}
=============================================================================
