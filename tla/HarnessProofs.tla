----------------------------- MODULE HarnessProofs -----------------------------
(* Proofs about the parts of the harness, for any number of publishers, of  *)
(* units, of sources and of changes by others: the publishers, the pictures *)
(* of a candidate, the removal of a workspace, the capture of a candidate   *)
(* and, from ScanProofs, the readers of files and trees.                    *)
EXTENDS MCHarness, TLAPS, SequenceTheorems, FiniteSetTheorems

-----------------------------------------------------------------------------
(* 1. The publishers.  Each by itself first, then what holds for the three. *)

(* The constants fit each publisher.                                        *)
LEMMA Assumptions ==
  /\ Tree!PublishAssumption
  /\ Snapshot!PublishAssumption
  /\ File!PublishAssumption
BY MCAssumption
   DEF Tree!PublishAssumption, Snapshot!PublishAssumption, File!PublishAssumption

-----------------------------------------------------------------------------
(* The publisher of a tree.  How far its call has come.                     *)

Staged == {"write", "reserve", "sync_tree", "recheck", "rename"}
TreeMoved == {"sync_parent", "write_ready", "sync_ready", "complete", "ok"}
TreeOver == {"ok", "failed", "left", "dead", "torn"}
TreePlaces == {"check", "stage", "stat", "remove"} \union Staged \union TreeMoved \union TreeOver

TreeTypeOK ==
  /\ tpc \in [TreePublishers -> TreePlaces]
  /\ tat \in [TreePublishers -> Tree!Names]
  /\ tfiles \in [TreePublishers -> SUBSET Files]
  /\ tready \subseteq TreePublishers
  /\ tdisk \in [at : [TreePublishers -> SUBSET Tree!Names],
               files : [TreePublishers -> SUBSET Files], ready : SUBSET TreePublishers]
  /\ tlost \in BOOLEAN

(* Where the tree of a publisher is, what is in it and how much of it has   *)
(* been synced follow from how far its call has come.  A READY file is      *)
(* synced, or its removal, under no name but that of a tree that was synced *)
(* before, unless the tree is withdrawn.                                    *)
OwnTree(p) ==
  /\ tat[p] \in tdisk.at[p]
  /\ tpc[p] \in {"check", "stage"} =>
       tdisk.at[p] = {"none"} /\ p \notin tready \union tdisk.ready
  /\ tpc[p] \in Staged \union {"stat"} => tat[p] = "staging" /\ "destination" \notin tdisk.at[p]
  /\ tpc[p] \in TreeMoved => tat[p] = "destination"
  /\ tpc[p] \in TreeMoved \union (Staged \ {"write"}) => tfiles[p] = Files
  /\ tpc[p] \in TreeMoved \union {"recheck", "rename"} => tdisk.files[p] = {}
  /\ tpc[p] = "sync_tree" => p \notin tready
  /\ tpc[p] \in {"recheck", "rename", "sync_parent", "write_ready"}
       => p \notin tready \union tdisk.ready
  /\ tpc[p] \in {"sync_ready", "complete", "ok"} => p \in tready
  /\ tpc[p] \in {"complete", "ok"} => p \notin tdisk.ready
  /\ tpc[p] = "failed" /\ ~tlost => tat[p] = "none"
  /\ tpc[p] \notin {"remove", "torn", "left", "failed"} /\ Tree!MayRecover(p)
       => tfiles[p] = Files /\ tdisk.files[p] = {} /\ tdisk.at[p] = {"destination"}

OneDestination ==
  \A p, q \in TreePublishers :
    tat[p] = "destination" /\ tat[q] = "destination" => p = q

(* Once the parent is synced, no other tree has the destination on disk.    *)
TreeAlone(p) ==
  tpc[p] \in {"write_ready", "sync_ready", "complete", "ok"} =>
    /\ tdisk.at[p] = {"destination"}
    /\ \A q \in TreePublishers : "destination" \in tdisk.at[q] => q = p

TreeInv ==
  /\ TreeTypeOK
  /\ \A p \in TreePublishers : OwnTree(p) /\ TreeAlone(p)
  /\ OneDestination
  /\ tlost => \A p \in TreePublishers : tpc[p] \in TreeOver

LEMMA TreeInitInv ==
  ASSUME Tree!PublishAssumption
  PROVE  Tree!Init => TreeInv
<1>. SUFFICES ASSUME Tree!Init PROVE TreeInv
  OBVIOUS
<1>1. /\ tat \in [TreePublishers -> Tree!Names] /\ tfiles \in [TreePublishers -> SUBSET Files]
      /\ tpc \in [TreePublishers -> TreePlaces]
      /\ tdisk \in [at : [TreePublishers -> SUBSET Tree!Names],
                   files : [TreePublishers -> SUBSET Files], ready : SUBSET TreePublishers]
  BY DEF Tree!Init, Tree!Names, TreePlaces
<1>2. TreeTypeOK
  BY <1>1 DEF Tree!Init, TreeTypeOK
<1>3. ASSUME NEW p \in TreePublishers PROVE OwnTree(p) /\ TreeAlone(p)
  BY <1>3 DEF Tree!Init, OwnTree, TreeAlone, Staged, TreeMoved, Tree!MayRecover
<1>4. OneDestination /\ ~tlost
  BY DEF Tree!Init, OneDestination
<1>. QED  BY <1>2, <1>3, <1>4 DEF TreeInv

(* A call that still runs has seen no power failure.                        *)
LEMMA TreeAlive ==
  ASSUME TreeInv, NEW p \in TreePublishers, tpc[p] \notin TreeOver
  PROVE  tlost = FALSE
BY DEF TreeInv, TreeTypeOK

(* An entry of p's tree that changes changes nothing else.                  *)
LEMMA TreeChangeFile ==
  ASSUME TreeTypeOK, NEW p \in TreePublishers, NEW present \in BOOLEAN,
         Tree!ChangeFile(p, present)
  PROVE  /\ tfiles' \in [TreePublishers -> SUBSET Files] /\ tready' = tready
         /\ tdisk' \in [at : [TreePublishers -> SUBSET Tree!Names],
                        files : [TreePublishers -> SUBSET Files], ready : SUBSET TreePublishers]
         /\ tdisk'.at = tdisk.at /\ tdisk'.ready = tdisk.ready
         /\ \A q \in TreePublishers \ {p} :
              tfiles'[q] = tfiles[q] /\ tdisk'.files[q] = tdisk.files[q]
BY DEF Tree!ChangeFile, TreeTypeOK

(* Until the tree has its final name.                                       *)
LEMMA TreeEarlySteps ==
  ASSUME Tree!PublishAssumption, TreeInv, NEW p \in TreePublishers,
         \/ Tree!Check(p) \/ Tree!Stage(p) \/ Tree!Stat(p) \/ Tree!Write(p)
         \/ Tree!WriterEnds(p) \/ Tree!Reserve(p) \/ Tree!SyncTree(p) \/ Tree!Recheck(p)
  PROVE  TreeInv'
<1>1. tlost = FALSE
  <2>1. tpc[p] \notin TreeOver
    BY DEF Tree!Check, Tree!Stage, Tree!Stat, Tree!Write, Tree!WriterEnds, Tree!Reserve,
           Tree!SyncTree, Tree!Recheck, TreeOver
  <2>. QED  BY <2>1, TreeAlive
<1>. USE <1>1 DEF Tree!PublishAssumption, TreeInv, TreeTypeOK, TreePlaces, Staged,
                  TreeMoved, TreeOver, Tree!Names, Tree!MayRecover,
                  OwnTree, OneDestination, TreeAlone, Tree!Goto, Tree!treeVars
<1>2. CASE Tree!Check(p)
  BY <1>2 DEF Tree!Check
<1>3. CASE Tree!Stage(p)
  BY <1>3 DEF Tree!Stage, Tree!Named
<1>4. CASE Tree!Stat(p)
  BY <1>4 DEF Tree!Stat
<1>5. CASE Tree!Write(p)
  <2>1. CASE Tree!ChangeFile(p, TRUE)
    <3>1. UNCHANGED <<tpc, tat, tlost>> /\ tpc[p] = "write"
      BY <1>5 DEF Tree!Write
    <3>0. /\ tfiles' \in [TreePublishers -> SUBSET Files] /\ tready' = tready
          /\ tdisk' \in [at : [TreePublishers -> SUBSET Tree!Names],
                         files : [TreePublishers -> SUBSET Files], ready : SUBSET TreePublishers]
          /\ tdisk'.at = tdisk.at /\ tdisk'.ready = tdisk.ready
          /\ \A q \in TreePublishers \ {p} :
               tfiles'[q] = tfiles[q] /\ tdisk'.files[q] = tdisk.files[q]
      BY <2>1, TreeChangeFile
    <3>2. ASSUME NEW r \in TreePublishers PROVE OwnTree(r)'
      BY <3>0, <3>1
    <3>3. ASSUME NEW r \in TreePublishers PROVE TreeAlone(r)'
      BY <3>0, <3>1
    <3>. QED  BY <3>0, <3>1, <3>2, <3>3
  <2>2. CASE Tree!ChangeReady(p, TRUE)
    BY <1>5, <2>2 DEF Tree!Write, Tree!ChangeReady
  <2>. QED  BY <1>5, <2>1, <2>2 DEF Tree!Write
<1>6. CASE Tree!WriterEnds(p)
  BY <1>6 DEF Tree!WriterEnds
<1>7. CASE Tree!Reserve(p)
  BY <1>7 DEF Tree!Reserve
<1>8. CASE Tree!SyncTree(p)
  <2>1. /\ tdisk'.at = tdisk.at /\ tdisk'.ready = tdisk.ready \ {p}
        /\ tdisk'.files = [tdisk.files EXCEPT ![p] = {}]
        /\ tdisk' \in [at : [TreePublishers -> SUBSET Tree!Names],
                       files : [TreePublishers -> SUBSET Files], ready : SUBSET TreePublishers]
    BY <1>8 DEF Tree!SyncTree
  <2>. QED  BY <1>8, <2>1 DEF Tree!SyncTree
<1>9. CASE Tree!Recheck(p)
  BY <1>9 DEF Tree!Recheck
<1>. QED  BY <1>2, <1>3, <1>4, <1>5, <1>6, <1>7, <1>8, <1>9

LEMMA TreeLateSteps ==
  ASSUME Tree!PublishAssumption, TreeInv, NEW p \in TreePublishers,
         \/ Tree!Rename(p) \/ Tree!SyncParent(p) \/ Tree!WriteReady(p) \/ Tree!SyncReady(p)
         \/ Tree!Complete(p) \/ Tree!Raise(p) \/ Tree!RemoveEntry(p) \/ Tree!Remove(p)
         \/ Tree!RemovalFails(p) \/ Tree!Die(p)
  PROVE  TreeInv'
<1>1. tlost = FALSE
  <2>1. tpc[p] \notin TreeOver
    BY DEF Tree!Rename, Tree!SyncParent, Tree!WriteReady, Tree!SyncReady, Tree!Complete,
           Tree!Raise, Tree!Trying, Tree!RemoveEntry, Tree!Remove, Tree!RemovalFails,
           Tree!Die, Tree!Over, TreeOver
  <2>. QED  BY <2>1, TreeAlive
<1>. USE <1>1 DEF Tree!PublishAssumption, TreeInv, TreeTypeOK, TreePlaces, Staged,
                  TreeMoved, TreeOver, Tree!Names, Tree!MayRecover,
                  OwnTree, OneDestination, TreeAlone, Tree!Goto, Tree!treeVars
<1>2. CASE Tree!Rename(p)
  BY <1>2 DEF Tree!Rename, Tree!Named, Tree!Empty
<1>3. CASE Tree!SyncParent(p)
  BY <1>3 DEF Tree!SyncParent
<1>4. CASE Tree!WriteReady(p)
  BY <1>4 DEF Tree!WriteReady, Tree!ChangeReady
<1>5. CASE Tree!SyncReady(p)
  <2>0. PICK q \in TreePublishers :
          /\ tat[q] = "destination"
          /\ tdisk' = [tdisk EXCEPT !.files[q] = {}, !.ready = @ \ {q}]
    BY <1>5 DEF Tree!SyncReady
  <2>1. q = p /\ tpc[p] = "sync_ready"
    BY <1>5, <2>0 DEF Tree!SyncReady
  <2>2. /\ tdisk'.at = tdisk.at /\ tdisk'.ready = tdisk.ready \ {p}
        /\ tdisk'.files = [tdisk.files EXCEPT ![p] = {}]
        /\ tdisk' \in [at : [TreePublishers -> SUBSET Tree!Names],
                       files : [TreePublishers -> SUBSET Files], ready : SUBSET TreePublishers]
    BY <2>0, <2>1
  <2>3. tpc' = [tpc EXCEPT ![p] = "complete"] /\ UNCHANGED <<tat, tfiles, tready, tlost>>
    BY <1>5 DEF Tree!SyncReady
  <2>4. ASSUME NEW r \in TreePublishers PROVE OwnTree(r)'
    BY <2>1, <2>2, <2>3
  <2>5. ASSUME NEW r \in TreePublishers PROVE TreeAlone(r)'
    BY <2>1, <2>2, <2>3
  <2>. QED  BY <2>2, <2>3, <2>4, <2>5
<1>6. CASE Tree!Complete(p)
  BY <1>6 DEF Tree!Complete
<1>7. CASE Tree!Raise(p)
  BY <1>7 DEF Tree!Raise, Tree!Trying
<1>8. CASE Tree!RemoveEntry(p)
  <2>1. CASE Tree!ChangeFile(p, FALSE)
    <3>1. UNCHANGED <<tpc, tat, tlost>> /\ tpc[p] = "remove"
      BY <1>8 DEF Tree!RemoveEntry
    <3>0. /\ tfiles' \in [TreePublishers -> SUBSET Files] /\ tready' = tready
          /\ tdisk' \in [at : [TreePublishers -> SUBSET Tree!Names],
                         files : [TreePublishers -> SUBSET Files], ready : SUBSET TreePublishers]
          /\ tdisk'.at = tdisk.at /\ tdisk'.ready = tdisk.ready
          /\ \A q \in TreePublishers \ {p} :
               tfiles'[q] = tfiles[q] /\ tdisk'.files[q] = tdisk.files[q]
      BY <2>1, TreeChangeFile
    <3>2. ASSUME NEW r \in TreePublishers PROVE OwnTree(r)'
      BY <3>0, <3>1
    <3>3. ASSUME NEW r \in TreePublishers PROVE TreeAlone(r)'
      BY <3>0, <3>1
    <3>. QED  BY <3>0, <3>1, <3>2, <3>3
  <2>2. CASE Tree!ChangeReady(p, FALSE)
    BY <1>8, <2>2 DEF Tree!RemoveEntry, Tree!ChangeReady
  <2>3. Tree!ChangeFile(p, FALSE) \/ Tree!ChangeReady(p, FALSE)
    BY <1>8 DEF Tree!RemoveEntry, Tree!Own
  <2>. QED  BY <2>1, <2>2, <2>3
<1>9. CASE Tree!Remove(p)
  BY <1>9 DEF Tree!Remove, Tree!Own, Tree!Empty, Tree!Named
<1>10. CASE Tree!RemovalFails(p)
  BY <1>10 DEF Tree!RemovalFails
<1>11. CASE Tree!Die(p)
  BY <1>11 DEF Tree!Die, Tree!Dead, Tree!Over
<1>. QED  BY <1>2, <1>3, <1>4, <1>5, <1>6, <1>7, <1>8, <1>9, <1>10, <1>11

(* What a power failure takes: what is on disk for sure stays.              *)
LEMMA TreePowerLeaves ==
  ASSUME TreeInv, Tree!PowerFails
  PROVE  /\ tlost = FALSE /\ tlost' = TRUE /\ UNCHANGED tdisk
         /\ tpc' \in [TreePublishers -> TreeOver]
         /\ \A p \in TreePublishers :
              /\ tat'[p] \in tdisk.at[p]
              /\ tfiles'[p] \ tdisk.files[p] = tfiles[p] \ tdisk.files[p]
              /\ p \in tready' \ tdisk.ready <=> p \in tready \ tdisk.ready
              /\ tpc[p] \in TreeOver => tpc'[p] = tpc[p]
              /\ tpc[p] \notin TreeOver => tpc'[p] = IF tpc[p] = "remove" THEN "torn" ELSE "dead"
BY DEF Tree!PowerFails, Tree!Over, Tree!Dead, TreeInv, TreeTypeOK, TreeOver

(* A success is on disk, so the power failure leaves it.                    *)
LEMMA TreePowerStep ==
  ASSUME TreeInv, Tree!PowerFails
  PROVE  TreeInv'
<1>1. /\ tat' \in [TreePublishers -> Tree!Names]
      /\ tfiles' \in [TreePublishers -> SUBSET Files]
      /\ tready' \subseteq TreePublishers
      /\ OneDestination'
  BY DEF Tree!PowerFails, OneDestination
<1>2. TreeTypeOK'
  BY <1>1, TreePowerLeaves DEF TreeInv, TreeTypeOK, TreePlaces
<1>3. ASSUME NEW p \in TreePublishers PROVE OwnTree(p)'
  <2>1. Tree!MayRecover(p)' <=> Tree!MayRecover(p)
    BY TreePowerLeaves DEF Tree!MayRecover
  <2>2. tpc'[p] # tpc[p] => tpc'[p] \in {"torn", "dead"} /\ tpc[p] \notin TreeOver
    BY TreePowerLeaves
  <2>3. OwnTree(p) /\ tfiles'[p] \in SUBSET Files
    BY <1>1 DEF TreeInv
  <2>4. tpc'[p] = "ok" => tpc[p] = "ok" /\ tat[p] = "destination" /\ tdisk.at[p] = {"destination"}
    BY <2>2 DEF TreeInv, OwnTree, TreeAlone, TreeMoved
  <2>5. tpc'[p] \notin {"remove", "torn", "left", "failed"} /\ Tree!MayRecover(p)'
          => tfiles'[p] = Files /\ tdisk'.files[p] = {} /\ tdisk'.at[p] = {"destination"}
    <3>1. tpc'[p] \notin {"remove", "torn", "left", "failed"}
            => tpc[p] \notin {"remove", "torn", "left", "failed"}
      BY TreePowerLeaves DEF TreeOver
    <3>. QED  BY <3>1, <2>1, <2>3, TreePowerLeaves DEF OwnTree
  <2>. QED
    BY <2>2, <2>3, <2>4, <2>5, TreePowerLeaves DEF OwnTree, Staged, TreeMoved, TreeOver
<1>4. ASSUME NEW p \in TreePublishers PROVE TreeAlone(p)'
  BY TreePowerLeaves DEF TreeInv, TreeAlone, TreeOver
<1>. QED  BY <1>1, <1>2, <1>3, <1>4, TreePowerLeaves DEF TreeInv

LEMMA TreeStep ==
  ASSUME Tree!PublishAssumption
  PROVE  TreeInv /\ [Tree!Next]_(Tree!vars) => TreeInv'
<1>. SUFFICES ASSUME TreeInv, [Tree!Next]_(Tree!vars) PROVE TreeInv'
  OBVIOUS
<1>1. CASE UNCHANGED Tree!vars
  BY <1>1 DEF Tree!vars, Tree!treeVars, TreeInv, TreeTypeOK, OwnTree, OneDestination,
              TreeAlone, Tree!MayRecover
<1>2. ASSUME NEW p \in TreePublishers, Tree!Publish(p) \/ Tree!Die(p)
      PROVE  TreeInv'
  BY <1>2, TreeEarlySteps, TreeLateSteps DEF Tree!Publish
<1>. QED  BY <1>1, <1>2, TreePowerStep DEF Tree!Next

LEMMA TreeInvariant ==
  ASSUME Tree!PublishAssumption
  PROVE  Tree!Spec => []TreeInv
BY TreeInitInv, TreeStep, PTL DEF Tree!Spec

(* A tree that has a READY file under its final name, and that is not       *)
(* withdrawn, is complete, and both the tree and its name were on disk      *)
(* before the READY file was made.                                          *)
THEOREM TreeReadyIsDurable ==
  ASSUME Tree!PublishAssumption
  PROVE  Tree!Spec => []Tree!ReadyIsDurable
<1>1. TreeInv => Tree!ReadyIsDurable
  BY DEF TreeInv, OwnTree, Tree!ReadyIsDurable, Tree!Published, Tree!MayRecover
<1>. QED  BY <1>1, TreeInvariant, PTL

(* No other call and no power failure takes anything from a success.        *)
THEOREM TreeOkIsForGood ==
  ASSUME Tree!PublishAssumption
  PROVE  Tree!Spec => []Tree!OkIsForGood
<1>1. TreeInv => Tree!OkIsForGood
  BY DEF TreeInv, OwnTree, TreeMoved, Tree!OkIsForGood, Tree!Published
<1>. QED  BY <1>1, TreeInvariant, PTL

(* A call that failed, and whose clean-up came to its end, has removed the  *)
(* directory it made, whichever of its two names it had.                    *)
THEOREM TreeFailedLeavesNothing ==
  ASSUME Tree!PublishAssumption
  PROVE  Tree!Spec => []Tree!FailedLeavesNothing
<1>1. TreeInv => Tree!FailedLeavesNothing
  BY DEF TreeInv, OwnTree, Tree!FailedLeavesNothing
<1>. QED  BY <1>1, TreeInvariant, PTL

-----------------------------------------------------------------------------
(* The contract.                                                            *)

OneTree == INSTANCE CreateOnly WITH
  Publishers <- TreePublishers, published <- Tree!PublishedBy,
  recoverable <- Tree!Recoverable, lost <- tlost, outcome <- Tree!Outcome

LEMMA TreeWhoPublished ==
  ASSUME OneDestination
  PROVE  /\ \A p \in TreePublishers : Tree!Published(p) => Tree!PublishedBy = p
         /\ Tree!PublishedBy # Nobody =>
              \E p \in TreePublishers : Tree!Published(p) /\ Tree!PublishedBy = p
<1>1. ASSUME NEW p \in TreePublishers, Tree!Published(p)
      PROVE  Tree!PublishedBy = p
  <2>1. (CHOOSE q \in TreePublishers : Tree!Published(q)) = p
    BY <1>1 DEF OneDestination, Tree!Published
  <2>. QED  BY <2>1, <1>1 DEF Tree!PublishedBy
<1>. QED  BY <1>1 DEF Tree!PublishedBy

(* The same after a step.                                                   *)
LEMMA TreeWhoPublishes ==
  ASSUME OneDestination'
  PROVE  /\ \A p \in TreePublishers : Tree!Published(p)' => Tree!PublishedBy' = p
         /\ (\A p \in TreePublishers : ~Tree!Published(p)') => Tree!PublishedBy' = Nobody
<1>1. ASSUME NEW p \in TreePublishers, Tree!Published(p)'
      PROVE  Tree!PublishedBy' = p
  <2>1. (CHOOSE q \in TreePublishers : tat'[q] = "destination" /\ q \in tready') = p
    BY <1>1 DEF OneDestination, Tree!Published
  <2>. QED  BY <2>1, <1>1 DEF Tree!PublishedBy, Tree!Published
<1>. QED  BY <1>1 DEF Tree!PublishedBy

(* A step after which the same trees are published.                         *)
LEMMA TreeSamePublished ==
  ASSUME OneDestination, OneDestination',
         \A p \in TreePublishers : Tree!Published(p)' <=> Tree!Published(p)
  PROVE  Tree!PublishedBy' = Tree!PublishedBy
<1>1. CASE \E p \in TreePublishers : Tree!Published(p)
  BY <1>1, TreeWhoPublished, TreeWhoPublishes
<1>2. CASE ~\E p \in TreePublishers : Tree!Published(p)
  BY <1>2, TreeWhoPublishes DEF Tree!PublishedBy
<1>. QED  BY <1>1, <1>2

(* What is published is on disk, perhaps.                                   *)
LEMMA TreeIsRecoverable ==
  ASSUME Tree!PublishAssumption, TreeInv
  PROVE  Tree!PublishedBy \in Tree!Recoverable
<1>1. CASE \E p \in TreePublishers : Tree!Published(p)
  <2>1. PICK p \in TreePublishers : Tree!Published(p)
    BY <1>1
  <2>2. Tree!PublishedBy = p
    BY <2>1, TreeWhoPublished DEF TreeInv
  <2>3. Tree!MayRecover(p)
    BY <2>1 DEF Tree!Published, Tree!MayRecover, TreeInv, OwnTree
  <2>. QED  BY <2>2, <2>3 DEF Tree!Recoverable
<1>2. CASE \A p \in TreePublishers : ~Tree!Published(p)
  <2>1. \A p \in TreePublishers : ~Tree!Recovers(p)
    BY <1>2 DEF Tree!Published, Tree!Recovers, TreeInv, OwnTree
  <2>. QED  BY <1>2, <2>1 DEF Tree!PublishedBy, Tree!Recoverable
<1>. QED  BY <1>1, <1>2

(* The outcome of a call is settled when it ends.                           *)
TreeEnded == {"ok", "failed", "left"}

LEMMA TreeSettledOutcome ==
  ASSUME TreeTypeOK, NEW p \in TreePublishers, NEW l \in TreePlaces, Tree!Goto(p, l),
         tpc[p] \notin TreeEnded
  PROVE  /\ Tree!Outcome[p] = "running"
         /\ l \notin TreeEnded => Tree!Outcome' = Tree!Outcome
         /\ l = "ok" => Tree!Outcome' = [Tree!Outcome EXCEPT ![p] = "ok"]
         /\ l \in {"failed", "left"} => Tree!Outcome' = [Tree!Outcome EXCEPT ![p] = "failed"]
<1>1. tpc' = [tpc EXCEPT ![p] = l] /\ tpc \in [TreePublishers -> TreePlaces]
  BY DEF Tree!Goto, TreeTypeOK
<1>. QED  BY <1>1 DEF Tree!Outcome, TreeEnded

LEMMA TreeInitContract == Tree!Init => OneTree!Init
BY DEF Tree!Init, OneTree!Init, Tree!PublishedBy, Tree!Published, Tree!Outcome,
       Tree!Recoverable, Tree!MayRecover, Tree!Recovers

(* A step that changes nothing of what may be found, now or after a power   *)
(* failure, and after which p is at l.                                      *)
LEMMA TreeQuietStep ==
  ASSUME TreeInv, TreeInv', NEW p \in TreePublishers, NEW l \in TreePlaces \ {"ok"},
         Tree!Goto(p, l), tpc[p] \notin TreeOver, UNCHANGED tlost,
         \A q \in TreePublishers :
           /\ Tree!Published(q)' <=> Tree!Published(q)
           /\ Tree!MayRecover(q)' <=> Tree!MayRecover(q)
           /\ Tree!Recovers(q)' <=> Tree!Recovers(q)
  PROVE  [OneTree!Next]_(OneTree!vars)
<1>1. Tree!PublishedBy' = Tree!PublishedBy
  BY TreeSamePublished DEF TreeInv
<1>2. Tree!Recoverable' = Tree!Recoverable
  BY DEF Tree!Recoverable
<1>3. ~tlost /\ tpc[p] \notin TreeEnded
  BY TreeAlive DEF TreeEnded, TreeOver
<1>. QED
  BY <1>1, <1>2, <1>3, TreeSettledOutcome
     DEF TreeInv, OneTree!Fail, OneTree!Next, OneTree!vars, TreeEnded

(* A step that changes what may be found after a power failure: a change    *)
(* that is not published, or a sync.                                        *)
LEMMA TreeSettleStep ==
  ASSUME Tree!PublishAssumption, TreeInv, TreeInv', NEW p \in TreePublishers,
         UNCHANGED tlost, tpc[p] \notin TreeOver,
         \/ UNCHANGED tpc
         \/ \E l \in TreePlaces \ TreeOver : Tree!Goto(p, l),
         \A q \in TreePublishers :
           /\ Tree!Published(q)' <=> Tree!Published(q)
           /\ Tree!MayRecover(q)' => Tree!MayRecover(q)
           /\ Tree!Recovers(q) => Tree!Recovers(q)'
  PROVE  [OneTree!Next]_(OneTree!vars)
<1>1. Tree!PublishedBy' = Tree!PublishedBy
  BY TreeSamePublished DEF TreeInv
<1>2. Tree!Recoverable' \subseteq Tree!Recoverable
  BY DEF Tree!Recoverable
<1>3. ~tlost /\ Tree!Outcome' = Tree!Outcome
  <2>1. CASE UNCHANGED tpc
    BY <2>1, TreeAlive DEF Tree!Outcome
  <2>2. ASSUME NEW l \in TreePlaces \ TreeOver, Tree!Goto(p, l)
        PROVE  Tree!Outcome' = Tree!Outcome
    BY <2>2, TreeSettledOutcome DEF TreeInv, TreeEnded, TreeOver
  <2>. QED  BY <2>1, <2>2, TreeAlive
<1>4. Tree!PublishedBy \in Tree!Recoverable'
  <2>1. Tree!PublishedBy' \in Tree!Recoverable'
    <3>1. CASE \E q \in TreePublishers : Tree!Published(q)'
      <4>1. PICK q \in TreePublishers : Tree!Published(q)'
        BY <3>1
      <4>2. Tree!PublishedBy' = q
        BY <4>1, TreeWhoPublishes DEF TreeInv
      <4>3. Tree!MayRecover(q)'
        BY <4>1 DEF Tree!Published, Tree!MayRecover, TreeInv, OwnTree
      <4>. QED  BY <4>2, <4>3 DEF Tree!Recoverable
    <3>2. CASE \A q \in TreePublishers : ~Tree!Published(q)'
      <4>1. \A q \in TreePublishers : ~Tree!Recovers(q)'
        BY <3>2 DEF Tree!Published, Tree!Recovers, TreeInv, OwnTree
      <4>2. Tree!PublishedBy' = Nobody
        BY <3>2, TreeWhoPublishes DEF TreeInv
      <4>. QED  BY <4>1, <4>2 DEF Tree!Recoverable
    <3>. QED  BY <3>1, <3>2
  <2>. QED  BY <2>1, <1>1
<1>. QED
  BY <1>1, <1>2, <1>3, <1>4 DEF OneTree!Next, OneTree!Settle, OneTree!Recorded

LEMMA TreeQuietContract ==
  ASSUME TreeInv, TreeInv', NEW p \in TreePublishers,
         \/ Tree!Check(p) \/ Tree!Stage(p) \/ Tree!Stat(p) \/ Tree!WriterEnds(p)
         \/ Tree!Reserve(p) \/ Tree!Recheck(p) \/ Tree!Raise(p) \/ Tree!Remove(p)
         \/ Tree!RemovalFails(p) \/ Tree!Die(p)
  PROVE  [OneTree!Next]_(OneTree!vars)
<1>. USE DEF Tree!treeVars
<1>1. /\ tpc[p] \notin TreeOver /\ UNCHANGED tlost
      /\ \E l \in TreePlaces \ {"ok"} : Tree!Goto(p, l)
  BY DEF Tree!Check, Tree!Stage, Tree!Stat, Tree!WriterEnds, Tree!Reserve, Tree!Recheck,
         Tree!Raise, Tree!Trying, Tree!Remove, Tree!RemovalFails, Tree!Die, Tree!Over,
         Tree!Dead, TreePlaces, Staged, TreeMoved, TreeOver
<1>2. ASSUME NEW q \in TreePublishers
      PROVE  /\ Tree!Published(q)' <=> Tree!Published(q)
             /\ Tree!MayRecover(q)' <=> Tree!MayRecover(q)
             /\ Tree!Recovers(q)' <=> Tree!Recovers(q)
  <2>. USE DEF TreeInv, TreeTypeOK, OwnTree, Tree!Published, Tree!MayRecover, Tree!Recovers
  <2>1. CASE Tree!Stage(p)
    BY <2>1 DEF Tree!Stage, Tree!Named
  <2>2. CASE Tree!Remove(p)
    BY <2>2 DEF Tree!Remove, Tree!Empty, Tree!Own, Tree!Named
  <2>3. CASE ~(Tree!Stage(p) \/ Tree!Remove(p))
    BY <2>3 DEF Tree!Check, Tree!Stat, Tree!WriterEnds, Tree!Reserve, Tree!Recheck,
       Tree!Raise, Tree!RemovalFails, Tree!Die
  <2>. QED  BY <2>1, <2>2, <2>3
<1>. QED  BY <1>1, <1>2, TreeQuietStep

LEMMA TreeSettleContract ==
  ASSUME Tree!PublishAssumption, TreeInv, TreeInv', NEW p \in TreePublishers,
         \/ Tree!Write(p) \/ Tree!SyncTree(p) \/ Tree!Rename(p) \/ Tree!SyncParent(p)
         \/ Tree!SyncReady(p)
  PROVE  [OneTree!Next]_(OneTree!vars)
<1>1. /\ tpc[p] \notin TreeOver /\ UNCHANGED tlost
      /\ \/ UNCHANGED tpc
         \/ \E l \in TreePlaces \ TreeOver : Tree!Goto(p, l)
  BY DEF Tree!Write, Tree!SyncTree, Tree!Rename, Tree!SyncParent, Tree!SyncReady,
         TreePlaces, Staged, TreeMoved, TreeOver
<1>2. ASSUME NEW q \in TreePublishers
      PROVE  /\ Tree!Published(q)' <=> Tree!Published(q)
             /\ Tree!MayRecover(q)' => Tree!MayRecover(q)
             /\ Tree!Recovers(q) => Tree!Recovers(q)'
  <2>. USE DEF TreeInv, TreeTypeOK, OwnTree, Tree!Published, Tree!MayRecover, Tree!Recovers,
               Tree!treeVars
  <2>1. CASE Tree!Write(p)
    <3>1. CASE Tree!ChangeFile(p, TRUE)
      BY <2>1, <3>1, TreeChangeFile DEF Tree!Write
    <3>2. CASE Tree!ChangeReady(p, TRUE)
      BY <2>1, <3>2 DEF Tree!Write, Tree!ChangeReady, Staged
    <3>. QED  BY <2>1, <3>1, <3>2 DEF Tree!Write
  <2>2. CASE Tree!SyncTree(p)
    BY <2>2 DEF Tree!SyncTree
  <2>3. CASE Tree!Rename(p)
    BY <2>3 DEF Tree!Rename, Tree!Named, Tree!Empty, Staged, TreeMoved
  <2>4. CASE Tree!SyncParent(p)
    BY <2>4 DEF Tree!SyncParent
  <2>5. CASE Tree!SyncReady(p)
    <3>1. PICK r \in TreePublishers : tdisk' = [tdisk EXCEPT !.files[r] = {}, !.ready = @ \ {r}]
      BY <2>5 DEF Tree!SyncReady
    <3>2. tdisk'.at = tdisk.at /\ tdisk'.ready = tdisk.ready \ {r} /\ UNCHANGED <<tat, tready>>
      BY <2>5, <3>1 DEF Tree!SyncReady
    <3>. QED  BY ONLY <3>2 DEF Tree!Published, Tree!MayRecover, Tree!Recovers
  <2>. QED  BY <2>1, <2>2, <2>3, <2>4, <2>5
<1>. QED  BY <1>1, <1>2, TreeSettleStep

(* The READY file is what publishes a tree.                                 *)
LEMMA TreeReadyContract ==
  ASSUME Tree!PublishAssumption, TreeInv, TreeInv', NEW p \in TreePublishers, Tree!WriteReady(p)
  PROVE  [OneTree!Next]_(OneTree!vars)
<1>1. /\ tpc[p] = "write_ready" /\ tat[p] = "destination" /\ p \notin tready /\ tat' = tat
      /\ Tree!Goto(p, "sync_ready") /\ tlost' = tlost
  BY DEF Tree!WriteReady, TreeInv, OwnTree, TreeMoved
<1>2. tready' = tready \union {p} /\ tdisk' = [tdisk EXCEPT !.ready = @ \union {p}]
  BY <1>1 DEF Tree!WriteReady, Tree!ChangeReady, TreeInv, OneDestination
<1>3. Tree!PublishedBy' = p
  BY <1>1, <1>2, TreeWhoPublishes DEF TreeInv, Tree!Published
<1>4. Tree!PublishedBy = Nobody
  BY <1>1 DEF TreeInv, OneDestination, Tree!PublishedBy, Tree!Published
<1>5. Tree!Outcome[p] = "running" /\ Tree!Outcome' = Tree!Outcome
  BY <1>1, TreeSettledOutcome DEF TreeInv, TreePlaces, TreeMoved, TreeEnded
<1>6. p \in Tree!Recoverable' /\ Tree!Recoverable' \subseteq Tree!Recoverable \union {p}
  <2>1. \A q \in TreePublishers \ {p} : Tree!MayRecover(q)' => Tree!MayRecover(q)
    BY <1>2 DEF Tree!MayRecover, TreeInv, TreeTypeOK
  <2>2. \A q \in TreePublishers : Tree!Recovers(q) => Tree!Recovers(q)'
    BY <1>1, <1>2 DEF Tree!Recovers, TreeInv, TreeTypeOK
  <2>3. Tree!MayRecover(p)'
    BY <1>1, <1>2 DEF Tree!MayRecover, TreeInv, TreeTypeOK, OwnTree
  <2>. QED  BY <2>1, <2>2, <2>3 DEF Tree!Recoverable
<1>7. ~tlost
  BY <1>1, TreeAlive DEF TreeOver
<1>. QED
  BY <1>1, <1>3, <1>4, <1>5, <1>6, <1>7 DEF OneTree!Next, OneTree!Appear, OneTree!Recorded

(* A call succeeds when nothing else can be found any more; one that is     *)
(* interrupted at its end has failed.                                       *)
LEMMA TreeSuccessContract ==
  ASSUME Tree!PublishAssumption, TreeInv, TreeInv', NEW p \in TreePublishers, Tree!Complete(p)
  PROVE  [OneTree!Next]_(OneTree!vars)
<1>1. /\ tpc[p] = "complete" /\ Tree!Published(p) /\ UNCHANGED <<tat, tready, tdisk, tlost>>
      /\ Tree!Goto(p, "ok") \/ Tree!Goto(p, "left")
  BY DEF Tree!Complete, Tree!treeVars, TreeInv, OwnTree, TreeMoved, Tree!Published
<1>2. \A q \in TreePublishers :
        /\ Tree!Published(q)' <=> Tree!Published(q)
        /\ Tree!MayRecover(q)' <=> Tree!MayRecover(q)
        /\ Tree!Recovers(q)' <=> Tree!Recovers(q)
  BY <1>1 DEF Tree!Published, Tree!MayRecover, Tree!Recovers
<1>3. CASE Tree!Goto(p, "left")
  BY <1>1, <1>2, <1>3, TreeQuietStep DEF TreePlaces, TreeOver
<1>4. CASE Tree!Goto(p, "ok")
  <2>1. Tree!PublishedBy = p /\ Tree!PublishedBy' = Tree!PublishedBy
    BY <1>1, <1>2, TreeWhoPublished, TreeSamePublished DEF TreeInv
  <2>2. Tree!Outcome[p] = "running" /\ Tree!Outcome' = [Tree!Outcome EXCEPT ![p] = "ok"]
    BY <1>1, <1>4, TreeSettledOutcome DEF TreeInv, TreePlaces, TreeMoved, TreeEnded
  <2>3. Tree!Recoverable = {p} /\ Tree!Recoverable' = Tree!Recoverable
    <3>1. \A q \in TreePublishers : Tree!MayRecover(q) <=> q = p
      BY <1>1 DEF Tree!MayRecover, TreeInv, TreeAlone, OwnTree
    <3>2. Tree!Recovers(p)
      BY <1>1 DEF Tree!Recovers, TreeInv, TreeAlone, OwnTree
    <3>. QED  BY <3>1, <3>2, <1>2 DEF Tree!Recoverable
  <2>4. ~tlost
    BY <1>1, TreeAlive DEF TreeOver
  <2>. QED  BY <1>1, <2>1, <2>2, <2>3, <2>4 DEF OneTree!Next, OneTree!Succeed
<1>. QED  BY <1>1, <1>3, <1>4

(* A tree is withdrawn when its READY file is removed.                      *)
LEMMA TreeWithdrawContract ==
  ASSUME Tree!PublishAssumption, TreeInv, TreeInv', NEW p \in TreePublishers,
         Tree!RemoveEntry(p)
  PROVE  [OneTree!Next]_(OneTree!vars)
<1>1. /\ tpc[p] = "remove" /\ tpc' = tpc /\ tat' = tat /\ tlost' = tlost
      /\ tdisk'.at = tdisk.at
      /\ \/ tready' = tready /\ tdisk'.ready = tdisk.ready
         \/ /\ tready' = tready \ {p} /\ p \in tready
            /\ tdisk'.ready = tdisk.ready \union {p}
  <2>1. Tree!ChangeFile(p, FALSE) \/ Tree!ChangeReady(p, FALSE)
    BY DEF Tree!RemoveEntry, Tree!Own
  <2>2. CASE Tree!ChangeFile(p, FALSE)
    BY <2>2, TreeChangeFile DEF Tree!RemoveEntry, TreeInv
  <2>3. CASE Tree!ChangeReady(p, FALSE)
    <3>1. p \in tready /\ tready' = tready \ {p}
      BY <2>3 DEF Tree!ChangeReady
    <3>2. tdisk' = [tdisk EXCEPT !.ready = @ \union {p}]
      BY <2>3 DEF Tree!ChangeReady
    <3>3. tdisk'.at = tdisk.at /\ tdisk'.ready = tdisk.ready \union {p}
      BY <3>2 DEF TreeInv, TreeTypeOK
    <3>. QED  BY <3>1, <3>3 DEF Tree!RemoveEntry
  <2>. QED  BY <2>1, <2>2, <2>3
<1>2. Tree!Outcome[p] = "running" /\ Tree!Outcome' = Tree!Outcome
  BY <1>1 DEF Tree!Outcome
<1>3. \A q \in TreePublishers : Tree!MayRecover(q)' <=> Tree!MayRecover(q)
  BY <1>1 DEF Tree!MayRecover
<1>4. CASE tat[p] = "destination" /\ p \in tready \ tready'
  <2>1. Tree!PublishedBy = p
    BY <1>4, TreeWhoPublished DEF TreeInv, Tree!Published
  <2>2. Tree!PublishedBy' = Nobody
    BY <1>1, <1>4 DEF TreeInv, OneDestination, Tree!PublishedBy, Tree!Published
  <2>3. Tree!Recoverable' \subseteq Tree!Recoverable \union {Nobody}
    BY <1>3 DEF Tree!Recoverable
  <2>4. \A q \in TreePublishers : ~Tree!Recovers(q)'
    BY <1>1, <1>4 DEF Tree!Recovers, TreeInv, OneDestination, OwnTree
  <2>5. Nobody \in Tree!Recoverable'
    BY <2>4 DEF Tree!Recoverable
  <2>6. ~tlost
    BY <1>1, TreeAlive DEF TreeOver
  <2>. QED
    BY <1>1, <1>2, <2>1, <2>2, <2>3, <2>5, <2>6
       DEF OneTree!Next, OneTree!Withdraw, OneTree!Recorded
<1>5. CASE ~(tat[p] = "destination" /\ p \in tready \ tready')
  <2>1. \A q \in TreePublishers :
          /\ Tree!Published(q)' <=> Tree!Published(q)
          /\ Tree!Recovers(q) => Tree!Recovers(q)'
    BY <1>1, <1>5 DEF Tree!Published, Tree!Recovers, TreeInv, OwnTree
  <2>. QED  BY <1>1, <1>3, <2>1, TreeSettleStep DEF TreeOver
<1>. QED  BY <1>4, <1>5

(* The power failure publishes what the disk may hold, and takes away no    *)
(* success.                                                                 *)
LEMMA TreePowerContract ==
  ASSUME Tree!PublishAssumption, TreeInv, TreeInv', Tree!PowerFails
  PROVE  [OneTree!Next]_(OneTree!vars)
<1>1. Tree!Outcome' = Tree!Outcome
  BY TreePowerLeaves DEF Tree!Outcome, TreeOver
<1>2. Tree!Recoverable' = Tree!Recoverable
  BY TreePowerLeaves DEF Tree!Recoverable, Tree!MayRecover, Tree!Recovers
<1>3. Tree!PublishedBy' \in Tree!Recoverable
  <2>1. CASE \E q \in TreePublishers : Tree!Published(q)'
    <3>1. PICK q \in TreePublishers : Tree!Published(q)'
      BY <2>1
    <3>2. Tree!PublishedBy' = q
      BY <3>1, TreeWhoPublishes DEF TreeInv
    <3>3. Tree!MayRecover(q)
      BY <3>1, TreePowerLeaves DEF Tree!MayRecover, Tree!Published
    <3>. QED  BY <3>2, <3>3 DEF Tree!Recoverable
  <2>2. CASE \A q \in TreePublishers : ~Tree!Published(q)'
    <3>1. Tree!PublishedBy' = Nobody
      BY <2>2, TreeWhoPublishes DEF TreeInv
    <3>2. \A q \in TreePublishers : ~Tree!Recovers(q)
      BY <2>2, TreePowerLeaves DEF Tree!Recovers, Tree!Published
    <3>. QED  BY <3>1, <3>2 DEF Tree!Recoverable
  <2>. QED  BY <2>1, <2>2
<1>. QED
  BY <1>1, <1>2, <1>3, TreePowerLeaves DEF OneTree!Next, OneTree!PowerFails

LEMMA TreeContractStep ==
  ASSUME Tree!PublishAssumption
  PROVE  TreeInv /\ TreeInv' /\ [Tree!Next]_(Tree!vars) => [OneTree!Next]_(OneTree!vars)
<1>. SUFFICES ASSUME TreeInv, TreeInv',
           [Tree!Next]_(Tree!vars) PROVE [OneTree!Next]_(OneTree!vars)
  OBVIOUS
<1>1. CASE UNCHANGED Tree!vars
  BY <1>1 DEF Tree!vars, Tree!treeVars, OneTree!vars, Tree!PublishedBy, Tree!Published,
     Tree!Outcome, Tree!Recoverable, Tree!MayRecover, Tree!Recovers
<1>2. ASSUME NEW p \in TreePublishers, Tree!Publish(p) \/ Tree!Die(p)
      PROVE  [OneTree!Next]_(OneTree!vars)
  BY <1>2, TreeQuietContract, TreeSettleContract, TreeReadyContract, TreeSuccessContract,
     TreeWithdrawContract
     DEF Tree!Publish
<1>. QED  BY <1>1, <1>2, TreePowerContract DEF Tree!Next

(* atomic_publish is a publisher of one name, whatever dies or fails at     *)
(* whatever step, and if the power fails.                                   *)
THEOREM TreeImplementsContract ==
  ASSUME Tree!PublishAssumption
  PROVE  Tree!Spec => OneTree!Spec
BY TreeInitContract, TreeContractStep, TreeInvariant, PTL DEF Tree!Spec, OneTree!Spec

(* The publisher of a snapshot.                                             *)

SnapshotPlaces ==
  {"check", "lock", "recheck", "stage", "write", "rename", "verify", "remove",
   "unlock", "ok", "failed", "dead"}

SnapshotTypeOK ==
  /\ spc \in [Publishers -> SnapshotPlaces]
  /\ srenamed \subseteq Publishers
  /\ sfailing \subseteq Publishers
  /\ sat \in [Publishers -> {"none", "staging", "target"}]
  /\ sfiles \in [Publishers -> SUBSET Files]
  /\ slock \in Publishers \union {Nobody}

(* Where the directory of a publisher is and what is in it follows from how *)
(* far its call has come.                                                   *)
OwnSnapshot(p) ==
  /\ spc[p] \in {"check", "lock", "recheck", "stage"} => sat[p] = "none"
  /\ spc[p] \in {"write", "rename"} => sat[p] = "staging"
  /\ spc[p] = "rename" => sfiles[p] = Files
  /\ spc[p] = "remove" => p \in sfailing
  /\ spc[p] = "verify" \/ (spc[p] = "unlock" /\ p \notin sfailing)
       => sat[p] = "target" /\ sfiles[p] = Files

OneTarget ==
  \A p, q \in Publishers : sat[p] = "target" /\ sat[q] = "target" => p = q

SnapshotInv ==
  /\ SnapshotTypeOK
  /\ \A p \in Publishers : OwnSnapshot(p)
  /\ OneTarget
  /\ Snapshot!LockExcludes
  /\ Snapshot!OkIsForGood
  /\ Snapshot!TargetIsComplete

LEMMA SnapshotInitInv ==
  ASSUME Snapshot!PublishAssumption
  PROVE  Snapshot!Init => SnapshotInv
BY DEF Snapshot!PublishAssumption, Snapshot!Init, SnapshotInv, SnapshotTypeOK,
       SnapshotPlaces, OwnSnapshot, OneTarget, Snapshot!LockExcludes, Snapshot!Working,
       Snapshot!OkIsForGood, Snapshot!TargetIsComplete

(* Before the rename, and after it.                                         *)
LEMMA SnapshotEarlySteps ==
  ASSUME Snapshot!PublishAssumption, SnapshotInv, NEW p \in Publishers,
         Snapshot!Check(p) \/ Snapshot!AcquireLock(p) \/ Snapshot!Recheck(p)
         \/ Snapshot!Stage(p) \/ Snapshot!Write(p) \/ Snapshot!WriterEnds(p)
  PROVE  SnapshotInv'
<1>. USE DEF Snapshot!PublishAssumption, SnapshotInv, SnapshotTypeOK, SnapshotPlaces,
             OwnSnapshot, OneTarget, Snapshot!LockExcludes, Snapshot!Working,
             Snapshot!OkIsForGood,
         Snapshot!TargetIsComplete, Snapshot!Goto, Snapshot!Fails
<1>1. CASE Snapshot!Check(p)
  BY <1>1 DEF Snapshot!Check
<1>2. CASE Snapshot!AcquireLock(p)
  BY <1>2 DEF Snapshot!AcquireLock
<1>3. CASE Snapshot!Recheck(p)
  BY <1>3 DEF Snapshot!Recheck
<1>4. CASE Snapshot!Stage(p)
  BY <1>4 DEF Snapshot!Stage
<1>5. CASE Snapshot!Write(p)
  BY <1>5 DEF Snapshot!Write
<1>6. CASE Snapshot!WriterEnds(p)
  BY <1>6 DEF Snapshot!WriterEnds
<1>. QED  BY <1>1, <1>2, <1>3, <1>4, <1>5, <1>6

LEMMA SnapshotLateSteps ==
  ASSUME Snapshot!PublishAssumption, SnapshotInv, NEW p \in Publishers,
         Snapshot!Rename(p) \/ Snapshot!Verify(p) \/ Snapshot!RemoveEntry(p)
         \/ Snapshot!RemoveDirectory(p) \/ Snapshot!Unlock(p) \/ Snapshot!Die(p)
  PROVE  SnapshotInv'
<1>. USE DEF Snapshot!PublishAssumption, SnapshotInv, SnapshotTypeOK, SnapshotPlaces,
             OwnSnapshot, OneTarget, Snapshot!LockExcludes, Snapshot!Working,
             Snapshot!OkIsForGood,
         Snapshot!TargetIsComplete, Snapshot!Goto, Snapshot!Fails
<1>1. CASE Snapshot!Rename(p)
  BY <1>1 DEF Snapshot!Rename, Snapshot!Moved, Snapshot!Occupied
<1>2. CASE Snapshot!Verify(p)
  BY <1>2 DEF Snapshot!Verify
<1>3. CASE Snapshot!RemoveEntry(p)
  BY <1>3 DEF Snapshot!RemoveEntry
<1>4. CASE Snapshot!RemoveDirectory(p)
  BY <1>4 DEF Snapshot!RemoveDirectory, Snapshot!Believed
<1>5. CASE Snapshot!Unlock(p)
  BY <1>5 DEF Snapshot!Unlock, Snapshot!End
<1>6. CASE Snapshot!Die(p)
  BY <1>6 DEF Snapshot!Die
<1>. QED  BY <1>1, <1>2, <1>3, <1>4, <1>5, <1>6

LEMMA SnapshotStep ==
  ASSUME Snapshot!PublishAssumption
  PROVE  SnapshotInv /\ [Snapshot!Next]_(Snapshot!vars) => SnapshotInv'
<1>. SUFFICES ASSUME SnapshotInv, [Snapshot!Next]_(Snapshot!vars) PROVE SnapshotInv'
  OBVIOUS
<1>1. CASE Snapshot!ClearLock
  BY <1>1
     DEF Snapshot!PublishAssumption, Snapshot!ClearLock, SnapshotInv, SnapshotTypeOK,
         SnapshotPlaces, OwnSnapshot, OneTarget, Snapshot!LockExcludes, Snapshot!Working,
         Snapshot!OkIsForGood, Snapshot!TargetIsComplete
<1>2. ASSUME NEW p \in Publishers, Snapshot!Publish(p) \/ Snapshot!Die(p)
      PROVE  SnapshotInv'
  BY <1>2, SnapshotEarlySteps, SnapshotLateSteps DEF Snapshot!Publish
<1>3. CASE UNCHANGED Snapshot!vars
  BY <1>3
     DEF Snapshot!vars, SnapshotInv, SnapshotTypeOK, SnapshotPlaces, OwnSnapshot,
         OneTarget, Snapshot!LockExcludes, Snapshot!Working,
         Snapshot!OkIsForGood, Snapshot!TargetIsComplete
<1>. QED  BY <1>1, <1>2, <1>3 DEF Snapshot!Next

LEMMA SnapshotInvariant ==
  ASSUME Snapshot!PublishAssumption
  PROVE  Snapshot!Spec => []SnapshotInv
BY SnapshotInitInv, SnapshotStep, PTL DEF Snapshot!Spec

(* At most one publisher that is alive is past the lock, and the lock file  *)
(* is its own, whoever dies and however often an operator clears a stale    *)
(* lock.                                                                    *)
THEOREM SnapshotLockExcludes ==
  ASSUME Snapshot!PublishAssumption
  PROVE  Snapshot!Spec => []Snapshot!LockExcludes
<1>1. SnapshotInv => Snapshot!LockExcludes
  BY DEF SnapshotInv
<1>. QED  BY <1>1, SnapshotInvariant, PTL

(* A call that succeeded has published its whole tree, which no clean-up of *)
(* another call removes, and has left no lock behind.                       *)
THEOREM SnapshotOkIsForGood ==
  ASSUME Snapshot!PublishAssumption
  PROVE  Snapshot!Spec => []Snapshot!OkIsForGood
<1>1. SnapshotInv => Snapshot!OkIsForGood
  BY DEF SnapshotInv
<1>. QED  BY <1>1, SnapshotInvariant, PTL

(* Whoever finds the target of a call that has not failed finds all of it.  *)
THEOREM SnapshotTargetIsComplete ==
  ASSUME Snapshot!PublishAssumption
  PROVE  Snapshot!Spec => []Snapshot!TargetIsComplete
<1>1. SnapshotInv => Snapshot!TargetIsComplete
  BY DEF SnapshotInv
<1>. QED  BY <1>1, SnapshotInvariant, PTL

-----------------------------------------------------------------------------
(* The contract.                                                            *)

OneSnapshot == INSTANCE CreateOnly WITH
  published <- Snapshot!PublishedBy, recoverable <- {Snapshot!PublishedBy}, lost <- FALSE,
  outcome <- Snapshot!Outcome

LEMMA SnapshotWhoPublished ==
  ASSUME OneTarget
  PROVE  /\ \A p \in Publishers : sat[p] = "target" => Snapshot!PublishedBy = p
         /\ ~Snapshot!Occupied => Snapshot!PublishedBy = Nobody
<1>1. ASSUME NEW p \in Publishers, sat[p] = "target"
      PROVE  Snapshot!PublishedBy = p
  <2>1. (CHOOSE q \in Publishers : sat[q] = "target") = p
    BY <1>1 DEF OneTarget
  <2>. QED  BY <2>1, <1>1 DEF Snapshot!PublishedBy, Snapshot!Occupied
<1>. QED  BY <1>1 DEF Snapshot!PublishedBy

(* As long as no directory comes to the target or leaves it, the            *)
(* publication is the same.                                                 *)
LEMMA SnapshotSamePublished ==
  ASSUME OneTarget, OneTarget',
         \A p \in Publishers : sat'[p] = "target" <=> sat[p] = "target"
  PROVE  Snapshot!PublishedBy' = Snapshot!PublishedBy
<1>1. CASE Snapshot!Occupied
  <2>1. PICK p \in Publishers : sat[p] = "target"
    BY <1>1 DEF Snapshot!Occupied
  <2>2. sat'[p] = "target"
    BY <2>1
  <2>3. Snapshot!PublishedBy = p
    BY <2>1, SnapshotWhoPublished
  <2>4. Snapshot!PublishedBy' = p
    <3>1. (CHOOSE q \in Publishers : sat'[q] = "target") = p
      BY <2>2 DEF OneTarget
    <3>. QED  BY <3>1, <2>2 DEF Snapshot!PublishedBy, Snapshot!Occupied
  <2>. QED  BY <2>3, <2>4
<1>2. CASE ~Snapshot!Occupied
  BY <1>2 DEF Snapshot!Occupied, Snapshot!PublishedBy
<1>. QED  BY <1>1, <1>2

LEMMA SnapshotNobodyPublished ==
  ASSUME ~Snapshot!Occupied
  PROVE  Snapshot!PublishedBy = Nobody
BY DEF Snapshot!PublishedBy

(* The outcome of a call is settled when it ends.                           *)
LEMMA SnapshotSettledOutcome ==
  ASSUME SnapshotTypeOK, NEW p \in Publishers, NEW l \in SnapshotPlaces,
         Snapshot!Goto(p, l), spc[p] \notin {"ok", "failed"}
  PROVE  /\ Snapshot!Outcome[p] = "running"
         /\ l \notin {"ok", "failed"} => Snapshot!Outcome' = Snapshot!Outcome
         /\ l \in {"ok", "failed"} => Snapshot!Outcome' = [Snapshot!Outcome EXCEPT ![p] = l]
<1>1. spc' = [spc EXCEPT ![p] = l] /\ spc \in [Publishers -> SnapshotPlaces]
  BY DEF Snapshot!Goto, SnapshotTypeOK
<1>. QED  BY <1>1 DEF Snapshot!Outcome

LEMMA SnapshotInitContract == Snapshot!Init => OneSnapshot!Init
BY DEF Snapshot!Init, OneSnapshot!Init, Snapshot!PublishedBy, Snapshot!Occupied,
       Snapshot!Outcome

(* A step that moves no directory, and after which p is at l.               *)
LEMMA SnapshotQuietStep ==
  ASSUME SnapshotInv, SnapshotInv', NEW p \in Publishers, NEW l \in SnapshotPlaces \ {"ok"},
         Snapshot!Goto(p, l), spc[p] \notin {"ok", "failed"},
         \A q \in Publishers : sat'[q] = "target" <=> sat[q] = "target"
  PROVE  OneSnapshot!Fail(p) \/ UNCHANGED OneSnapshot!vars
<1>1. Snapshot!PublishedBy' = Snapshot!PublishedBy
  BY SnapshotSamePublished DEF SnapshotInv
<1>. QED  BY <1>1, SnapshotSettledOutcome DEF SnapshotInv, OneSnapshot!Fail,
            OneSnapshot!vars

LEMMA SnapshotRenameContract ==
  ASSUME SnapshotInv, SnapshotInv', NEW p \in Publishers, Snapshot!Rename(p)
  PROVE  [OneSnapshot!Next]_(OneSnapshot!vars)
<1>1. /\ sat[p] = "staging" /\ spc[p] = "rename"
      /\ sat \in [Publishers -> {"none", "staging", "target"}]
  BY DEF SnapshotInv, SnapshotTypeOK, OwnSnapshot, Snapshot!Rename
<1>2. \/ /\ ~Snapshot!Occupied /\ sat' = Snapshot!Moved(p)
         /\ \E l \in {"verify", "remove"} : Snapshot!Goto(p, l)
      \/ sat' = sat /\ Snapshot!Goto(p, "remove")
  BY DEF Snapshot!Rename, Snapshot!Fails
<1>3. CASE ~Snapshot!Occupied /\ sat' = Snapshot!Moved(p)
       /\ \E l \in {"verify", "remove"} : Snapshot!Goto(p, l)
  <2>1. Snapshot!PublishedBy = Nobody
    BY <1>3, SnapshotNobodyPublished
  <2>2. Snapshot!PublishedBy' = p
    <3>1. sat'[p] = "target"
      BY <1>1, <1>3 DEF Snapshot!Moved
    <3>2. OneTarget'
      BY DEF SnapshotInv
    <3>3. (CHOOSE q \in Publishers : sat'[q] = "target") = p
      BY <3>1, <3>2 DEF OneTarget
    <3>. QED  BY <3>1, <3>3 DEF Snapshot!PublishedBy, Snapshot!Occupied
  <2>3. Snapshot!Outcome[p] = "running" /\ Snapshot!Outcome' = Snapshot!Outcome
    BY <1>1, <1>3, SnapshotSettledOutcome DEF SnapshotInv, SnapshotPlaces
  <2>. QED  BY <2>1, <2>2, <2>3 DEF OneSnapshot!Next, OneSnapshot!Appear, OneSnapshot!Recorded
<1>4. CASE sat' = sat /\ Snapshot!Goto(p, "remove")
  BY <1>1, <1>4, SnapshotQuietStep DEF SnapshotPlaces, OneSnapshot!Next
<1>. QED  BY <1>2, <1>3, <1>4

LEMMA SnapshotRemoveContract ==
  ASSUME Snapshot!PublishAssumption, SnapshotInv, SnapshotInv', NEW p \in Publishers,
         Snapshot!RemoveDirectory(p)
  PROVE  [OneSnapshot!Next]_(OneSnapshot!vars)
<1>1. /\ spc[p] = "remove" /\ Snapshot!Goto(p, "unlock")
      /\ sat \in [Publishers -> {"none", "staging", "target"}]
      /\ sat' = sat \/ sat' = [sat EXCEPT ![p] = "none"]
  BY DEF SnapshotInv, SnapshotTypeOK, Snapshot!RemoveDirectory
<1>2. CASE sat[p] = "target" /\ sat' = [sat EXCEPT ![p] = "none"]
  <2>1. Snapshot!PublishedBy = p
    BY <1>2, SnapshotWhoPublished DEF SnapshotInv
  <2>2. ~Snapshot!Occupied'
    BY <1>1, <1>2 DEF SnapshotInv, OneTarget, Snapshot!Occupied
  <2>3. Snapshot!PublishedBy' = Nobody
    BY <2>2 DEF Snapshot!PublishedBy
  <2>4. Snapshot!Outcome[p] = "running" /\ Snapshot!Outcome' = Snapshot!Outcome
    BY <1>1, SnapshotSettledOutcome DEF SnapshotInv, SnapshotPlaces
  <2>. QED  BY <2>1, <2>3, <2>4 DEF OneSnapshot!Next, OneSnapshot!Withdraw, OneSnapshot!Recorded
<1>3. CASE ~(sat[p] = "target" /\ sat' = [sat EXCEPT ![p] = "none"])
  <2>1. \A q \in Publishers : sat'[q] = "target" <=> sat[q] = "target"
    BY <1>1, <1>3
  <2>. QED  BY <1>1, <2>1, SnapshotQuietStep DEF SnapshotPlaces, OneSnapshot!Next
<1>. QED  BY <1>2, <1>3

LEMMA SnapshotUnlockContract ==
  ASSUME SnapshotInv, SnapshotInv', NEW p \in Publishers, Snapshot!Unlock(p)
  PROVE  [OneSnapshot!Next]_(OneSnapshot!vars)
<1>1. spc[p] = "unlock" /\ UNCHANGED sat
      /\ \/ Snapshot!Goto(p, "failed")
         \/ Snapshot!Goto(p, "ok") /\ p \notin sfailing
  BY DEF Snapshot!Unlock, Snapshot!End
<1>2. CASE Snapshot!Goto(p, "failed")
  BY <1>1, <1>2, SnapshotQuietStep DEF SnapshotPlaces, OneSnapshot!Next
<1>3. CASE Snapshot!Goto(p, "ok") /\ p \notin sfailing
  <2>1. Snapshot!PublishedBy = p
    BY <1>1, <1>3, SnapshotWhoPublished DEF SnapshotInv, OwnSnapshot
  <2>2. Snapshot!PublishedBy' = Snapshot!PublishedBy
    BY <1>1, SnapshotSamePublished DEF SnapshotInv
  <2>3. Snapshot!Outcome[p] = "running"
  /\ Snapshot!Outcome' = [Snapshot!Outcome EXCEPT ![p] = "ok"]
    BY <1>1, <1>3, SnapshotSettledOutcome DEF SnapshotInv, SnapshotPlaces
  <2>. QED  BY <2>1, <2>2, <2>3 DEF OneSnapshot!Next, OneSnapshot!Succeed
<1>. QED  BY <1>1, <1>2, <1>3

LEMMA SnapshotOtherContract ==
  ASSUME SnapshotInv, SnapshotInv', NEW p \in Publishers,
         \/ Snapshot!Check(p) \/ Snapshot!AcquireLock(p) \/ Snapshot!Recheck(p)
         \/ Snapshot!Stage(p) \/ Snapshot!Write(p) \/ Snapshot!WriterEnds(p)
         \/ Snapshot!Verify(p) \/ Snapshot!RemoveEntry(p) \/ Snapshot!Die(p)
  PROVE  [OneSnapshot!Next]_(OneSnapshot!vars)
<1>1. sat \in [Publishers -> {"none", "staging", "target"}]
  BY DEF SnapshotInv, SnapshotTypeOK
<1>2. \A q \in Publishers : sat'[q] = "target" <=> sat[q] = "target"
  <2>1. CASE Snapshot!Stage(p)
    BY <1>1, <2>1 DEF Snapshot!Stage, SnapshotInv, OwnSnapshot
  <2>2. CASE ~Snapshot!Stage(p)
    BY <2>2 DEF Snapshot!Check, Snapshot!AcquireLock, Snapshot!Recheck, Snapshot!Write,
       Snapshot!WriterEnds, Snapshot!Verify, Snapshot!RemoveEntry, Snapshot!Die
  <2>. QED  BY <2>1, <2>2
<1>3. CASE Snapshot!Write(p) \/ Snapshot!RemoveEntry(p)
  <2>1. Snapshot!PublishedBy' = Snapshot!PublishedBy
    BY <1>2, SnapshotSamePublished DEF SnapshotInv
  <2>2. Snapshot!Outcome' = Snapshot!Outcome
    BY <1>3 DEF Snapshot!Write, Snapshot!RemoveEntry, Snapshot!Outcome
  <2>. QED  BY <2>1, <2>2 DEF OneSnapshot!vars
<1>4. CASE ~(Snapshot!Write(p) \/ Snapshot!RemoveEntry(p))
  <2>1. /\ spc[p] \notin {"ok", "failed"}
        /\ \E l \in SnapshotPlaces \ {"ok"} : Snapshot!Goto(p, l)
    BY <1>4
       DEF Snapshot!Check, Snapshot!AcquireLock, Snapshot!Recheck, Snapshot!Stage,
           Snapshot!WriterEnds, Snapshot!Verify, Snapshot!Die, Snapshot!Fails,
           SnapshotPlaces
  <2>. QED  BY <1>2, <2>1, SnapshotQuietStep DEF OneSnapshot!Next
<1>. QED  BY <1>3, <1>4

LEMMA SnapshotContractStep ==
  ASSUME Snapshot!PublishAssumption
  PROVE  SnapshotInv /\ SnapshotInv' /\ [Snapshot!Next]_(Snapshot!vars)
         => [OneSnapshot!Next]_(OneSnapshot!vars)
<1>. SUFFICES ASSUME SnapshotInv, SnapshotInv',
           [Snapshot!Next]_(Snapshot!vars) PROVE [OneSnapshot!Next]_(OneSnapshot!vars)
  OBVIOUS
<1>1. CASE Snapshot!ClearLock \/ UNCHANGED Snapshot!vars
  BY <1>1 DEF Snapshot!ClearLock, Snapshot!vars, OneSnapshot!vars, Snapshot!PublishedBy,
     Snapshot!Occupied, Snapshot!Outcome
<1>2. ASSUME NEW p \in Publishers, Snapshot!Publish(p) \/ Snapshot!Die(p)
      PROVE  [OneSnapshot!Next]_(OneSnapshot!vars)
  BY <1>2, SnapshotRenameContract, SnapshotRemoveContract, SnapshotUnlockContract,
     SnapshotOtherContract DEF Snapshot!Publish
<1>. QED  BY <1>1, <1>2 DEF Snapshot!Next

(* publish_snapshot is a publisher of one name: what is under the target is *)
(* one call's, which alone may take it away, and not once it has succeeded. *)
THEOREM SnapshotImplementsContract ==
  ASSUME Snapshot!PublishAssumption
  PROVE  Snapshot!Spec => OneSnapshot!Spec
BY SnapshotInitContract, SnapshotContractStep, SnapshotInvariant, PTL DEF Snapshot!Spec,
   OneSnapshot!Spec

-----------------------------------------------------------------------------
(* The publisher of a file.  What may be at the two names, and where.       *)

FilePlaces ==
  {"check", "create", "write", "validate", "recheck", "rename", "sync", "verify",
   "discard", "ok", "failed", "left", "dead"}

FileContents == [Publishers -> {"none", "part", "whole"}]

FileTypeOK ==
  /\ fpc \in [Publishers -> FilePlaces]
  /\ fpending \in Publishers \union {Nobody}
  /\ fdestination \in Publishers \union {Nobody}
  /\ fcontent \in FileContents
  /\ fdisk \in [pending : SUBSET (Publishers \union {Nobody}),
               destination : SUBSET (Publishers \union {Nobody}),
               content : [Publishers -> SUBSET {"none", "part", "whole"}]]
  /\ flost \in BOOLEAN

(* The pending name is that of the call that is between its creation and    *)
(* its rename, so the rename, which goes by name, moves the caller's file;  *)
(* what may be at the destination on disk has been synced before, and only  *)
(* a call that has not synced the name leaves a doubt about it.             *)
OwnFile(p) ==
  /\ fpc[p] \in {"check", "create"} => fpending # p
  /\ fpc[p] \in {"write", "validate", "recheck", "rename"} => fpending = p
  /\ fpc[p] \in {"validate", "recheck", "rename"}
       => fcontent[p] = "whole" /\ fdisk.content[p] = {"whole"}
  /\ fpc[p] \in {"sync", "verify", "ok"} => fdestination = p
  /\ fpc[p] \in {"verify", "ok"} => fdisk.destination = {p}
  /\ fpc[p] \in {"sync", "verify", "ok"} => fpending # p \/ flost
  /\ fpc[p] = "failed" => fpending # p \/ flost
  /\ fcontent[p] \in fdisk.content[p]
  /\ p \in fdisk.destination => fcontent[p] = "whole" /\ fdisk.content[p] = {"whole"}

Durable ==
  /\ fpending \in fdisk.pending
  /\ fdestination \in fdisk.destination
  /\ flost => \A p \in Publishers : fpc[p] \in {"ok", "failed", "left", "dead"}

FileInv ==
  /\ FileTypeOK
  /\ \A p \in Publishers : OwnFile(p)
  /\ Durable

LEMMA FileInitInv ==
  ASSUME File!PublishAssumption
  PROVE  File!Init => FileInv
<1>. SUFFICES ASSUME File!Init PROVE FileInv
  OBVIOUS
<1>1. fcontent \in FileContents
  BY DEF File!Init, FileContents
<1>2. FileTypeOK
  BY <1>1 DEF File!Init, FileTypeOK, FilePlaces
<1>3. (\A p \in Publishers : OwnFile(p)) /\ Durable
  BY DEF File!PublishAssumption, File!Init, OwnFile, Durable
<1>. QED  BY <1>2, <1>3 DEF FileInv

(* A call that still runs has seen no power failure.                        *)
LEMMA FileAlive ==
  ASSUME FileInv, NEW p \in Publishers, ~File!Over(p)
  PROVE  flost = FALSE
BY DEF FileInv, FileTypeOK, Durable, File!Over

(* A step of the call of p.                                                 *)
LEMMA FileCallStep ==
  ASSUME File!PublishAssumption, FileInv, NEW p \in Publishers, File!Publish(p) \/ File!Die(p)
  PROVE  FileInv'
<1>0. flost = FALSE
  <2>1. ~File!Over(p)
    BY DEF File!Publish, File!Die, File!Over, File!Check, File!CreatePending, File!WritePayload,
           File!Validate, File!Recheck, File!Rename, File!SyncParent, File!Verify, File!Raise,
           File!Trying, File!DiscardPending
  <2>. QED  BY <2>1, FileAlive
<1>. USE <1>0 DEF File!PublishAssumption, FileInv, FileTypeOK, FilePlaces, FileContents, OwnFile,
                  Durable, File!Goto, File!names
<1>1. CASE File!Check(p)
  BY <1>1 DEF File!Check
<1>2. CASE File!CreatePending(p)
  BY <1>2 DEF File!CreatePending, File!SetPending
<1>3. CASE File!WritePayload(p)
  BY <1>3 DEF File!WritePayload, File!WriteMore
<1>4. CASE File!Validate(p)
  BY <1>4 DEF File!Validate
<1>5. CASE File!Recheck(p)
  BY <1>5 DEF File!Recheck
<1>6. CASE File!Rename(p)
  BY <1>6 DEF File!Rename
<1>7. CASE File!SyncParent(p)
  BY <1>7 DEF File!SyncParent
<1>8. CASE File!Verify(p)
  BY <1>8 DEF File!Verify
<1>9. CASE File!Raise(p)
  BY <1>9 DEF File!Raise, File!Trying
<1>10. CASE File!DiscardPending(p)
  BY <1>10 DEF File!DiscardPending, File!SetPending
<1>11. CASE File!Die(p)
  BY <1>11 DEF File!Die, File!Over
<1>. QED
  BY <1>1, <1>2, <1>3, <1>4, <1>5, <1>6, <1>7, <1>8, <1>9, <1>10, <1>11 DEF File!Publish

(* The power fails: what was synced is still there.                         *)
LEMMA FilePowerStep ==
  ASSUME File!PublishAssumption, FileInv, File!PowerFails
  PROVE  FileInv'
<1>1. \A p \in Publishers : fpc'[p] = IF File!Over(p) THEN fpc[p] ELSE "dead"
  BY DEF File!PowerFails
<1>2. \A p \in Publishers : fcontent'[p] \in fdisk.content[p]
  BY DEF File!PowerFails
<1>3. /\ fdisk' = fdisk /\ flost' = TRUE
      /\ fpending' \in fdisk.pending /\ fdestination' \in fdisk.destination
  BY DEF File!PowerFails
<1>4. FileTypeOK'
  <2>1. fpc' \in [Publishers -> FilePlaces] /\ fcontent' \in FileContents
    BY DEF FileInv, FileTypeOK, File!PowerFails, FilePlaces, FileContents
  <2>. QED  BY <1>3, <2>1 DEF FileInv, FileTypeOK
<1>5. Durable'
  BY <1>1, <1>3 DEF Durable, File!Over
<1>6. ASSUME NEW p \in Publishers
      PROVE  OwnFile(p)'
  <2>1. OwnFile(p)
    BY DEF FileInv
  <2>. QED  BY <1>1, <1>2, <1>3, <2>1 DEF OwnFile, File!Over
<1>. QED  BY <1>4, <1>5, <1>6 DEF FileInv

LEMMA FileStep ==
  ASSUME File!PublishAssumption
  PROVE  FileInv /\ [File!Next]_(File!vars) => FileInv'
<1>. SUFFICES ASSUME FileInv, [File!Next]_(File!vars) PROVE FileInv'
  OBVIOUS
<1>1. CASE File!ClearPending
  BY <1>1
     DEF File!PublishAssumption, File!ClearPending, File!SetPending, File!Over, FileInv, FileTypeOK,
         FilePlaces, FileContents, OwnFile, Durable
<1>2. CASE UNCHANGED File!vars
  BY <1>2 DEF File!vars, File!names, FileInv, FileTypeOK, FilePlaces, FileContents, OwnFile,
      Durable
<1>. QED  BY <1>1, <1>2, FileCallStep, FilePowerStep DEF File!Next

LEMMA FileInvariant ==
  ASSUME File!PublishAssumption
  PROVE  File!Spec => []FileInv
BY FileInitInv, FileStep, PTL DEF File!Spec

(* Each behaviour is one of every publisher: those that are not chosen do   *)
(* nothing.                                                                 *)
LEMMA TreeHolds ==
  /\ Spec => Tree!Spec
  /\ Spec => []TreeInv
  /\ Spec => [][Tree!Next]_(Tree!vars)
<1>1. Init => Tree!Init
  BY DEF Init
<1>2. [Next]_vars => [Tree!Next]_(Tree!vars)
  BY DEF Next, vars, treeVars, Tree!vars, Tree!treeVars
<1>. QED  BY <1>1, <1>2, Assumptions, TreeInvariant, PTL DEF Spec, Tree!Spec

LEMMA SnapshotHolds ==
  /\ Spec => Snapshot!Spec
  /\ Spec => []SnapshotInv
  /\ Spec => [][Snapshot!Next]_(Snapshot!vars)
<1>1. Init => Snapshot!Init
  BY DEF Init
<1>2. [Next]_vars => [Snapshot!Next]_(Snapshot!vars)
  BY DEF Next, vars, snapshotVars, Snapshot!vars
<1>. QED  BY <1>1, <1>2, Assumptions, SnapshotInvariant, PTL DEF Spec, Snapshot!Spec

LEMMA FileHolds ==
  ASSUME File!PublishAssumption
  PROVE  /\ Spec => []FileInv
         /\ Spec => [][File!Next]_(File!vars)
<1>1. Init => File!Init
  BY DEF Init
<1>2. [Next]_vars => [File!Next]_(File!vars)
  BY DEF Next, vars, fileVars, File!vars, File!names
<1>. QED  BY <1>1, <1>2, FileInvariant, PTL DEF Spec, File!Spec

OneFile == INSTANCE CreateOnly WITH
  published <- File!PublishedBy, recoverable <- File!Recoverable, lost <- flost,
  outcome <- File!Outcome

LEMMA OneFileInit == File!Init => OneFile!Init
BY DEF File!Init, OneFile!Init, File!PublishedBy, File!Recoverable, File!Outcome

(* The outcome of a call is settled when it ends.                           *)
FileEnded == {"ok", "failed", "left"}

LEMMA FileSettled ==
  ASSUME FileTypeOK, NEW p \in Publishers, NEW l \in FilePlaces, File!Goto(p, l),
         fpc[p] \notin FileEnded
  PROVE  /\ File!Outcome[p] = "running"
         /\ l \notin FileEnded => File!Outcome' = File!Outcome
         /\ l = "ok" => File!Outcome' = [File!Outcome EXCEPT ![p] = "ok"]
         /\ l \in {"failed", "left"} => File!Outcome' = [File!Outcome EXCEPT ![p] = "failed"]
<1>1. fpc' = [fpc EXCEPT ![p] = l] /\ fpc \in [Publishers -> FilePlaces]
  BY DEF File!Goto, FileTypeOK
<1>. QED  BY <1>1 DEF File!Outcome, FileEnded

(* The rename publishes, and the disk may hold either name.                 *)
LEMMA FileRenameContract ==
  ASSUME FileInv, NEW p \in Publishers, File!Rename(p)
  PROVE  [OneFile!Next]_(OneFile!vars)
<1>1. /\ fpc[p] = "rename" /\ fpending = p /\ fdestination = Nobody /\ fdestination' = p
      /\ fdisk'.destination = fdisk.destination \union {p}
      /\ File!Goto(p, "sync") /\ flost' = flost
  BY DEF File!Rename, FileInv, FileTypeOK, OwnFile
<1>2. File!Outcome[p] = "running" /\ File!Outcome' = File!Outcome
  BY <1>1, FileSettled DEF FileInv, FilePlaces, FileEnded
<1>3. flost = FALSE
  BY <1>1, FileAlive DEF File!Over
<1>. QED
  BY <1>1, <1>2, <1>3
     DEF File!PublishedBy, File!Recoverable, OneFile!Next, OneFile!Appear, OneFile!Recorded

(* The sync of the parent leaves no doubt.                                  *)
LEMMA FileSyncContract ==
  ASSUME FileInv, NEW p \in Publishers, File!SyncParent(p)
  PROVE  [OneFile!Next]_(OneFile!vars)
<1>1. /\ fpc[p] = "sync" /\ fdestination' = fdestination
      /\ fdisk'.destination = {fdestination} /\ fdestination \in fdisk.destination
      /\ File!Goto(p, "verify") /\ flost' = flost
  BY DEF File!SyncParent, File!names, FileInv, FileTypeOK, Durable
<1>2. File!Outcome' = File!Outcome
  BY <1>1, FileSettled DEF FileInv, FilePlaces, FileEnded
<1>3. flost = FALSE
  BY <1>1, FileAlive DEF File!Over
<1>. QED
  BY <1>1, <1>2, <1>3
     DEF File!PublishedBy, File!Recoverable, OneFile!Next, OneFile!Settle, OneFile!Recorded

LEMMA FileVerifyContract ==
  ASSUME FileInv, NEW p \in Publishers, File!Verify(p)
  PROVE  [OneFile!Next]_(OneFile!vars)
<1>1. /\ fpc[p] = "verify" /\ UNCHANGED <<fdestination, fdisk, flost>>
      /\ \/ fdestination = p /\ File!Goto(p, "ok")
         \/ File!Goto(p, "failed")
  BY DEF File!Verify, File!names
<1>2. flost = FALSE
  BY <1>1, FileAlive DEF File!Over
<1>3. CASE fdestination = p /\ File!Goto(p, "ok")
  <2>1. File!Outcome[p] = "running" /\ File!Outcome' = [File!Outcome EXCEPT ![p] = "ok"]
    BY <1>1, <1>3, FileSettled DEF FileInv, FilePlaces, FileEnded
  <2>2. fdisk.destination = {p}
    BY <1>1 DEF FileInv, OwnFile
  <2>. QED
    BY <1>1, <1>2, <1>3, <2>1, <2>2
       DEF File!PublishedBy, File!Recoverable, OneFile!Next, OneFile!Succeed
<1>4. CASE File!Goto(p, "failed")
  <2>1. File!Outcome[p] = "running" /\ File!Outcome' = [File!Outcome EXCEPT ![p] = "failed"]
    BY <1>1, <1>4, FileSettled DEF FileInv, FilePlaces, FileEnded
  <2>. QED
    BY <1>1, <1>2, <2>1 DEF File!PublishedBy, File!Recoverable, OneFile!Next, OneFile!Fail
<1>. QED  BY <1>1, <1>3, <1>4

LEMMA FileOtherContract ==
  ASSUME FileInv, NEW p \in Publishers,
         \/ File!Check(p) \/ File!CreatePending(p) \/ File!WritePayload(p)
         \/ File!Validate(p) \/ File!Recheck(p) \/ File!Raise(p)
         \/ File!DiscardPending(p) \/ File!Die(p)
  PROVE  [OneFile!Next]_(OneFile!vars)
<1>1. /\ ~File!Over(p)
      /\ fpc' = fpc \/ \E l \in FilePlaces \ {"ok"} : File!Goto(p, l)
  BY DEF File!Check, File!CreatePending, File!WritePayload, File!Validate, File!Recheck,
         File!Raise, File!Trying, File!DiscardPending, File!Die, File!Over, FilePlaces
<1>2. UNCHANGED <<fdestination, flost>>
  BY DEF File!Check, File!CreatePending, File!WritePayload, File!Validate, File!Recheck,
         File!Raise, File!DiscardPending, File!Die, File!names
<1>3. fdisk'.destination = fdisk.destination
  BY DEF File!Check, File!CreatePending, File!SetPending, File!WritePayload, File!WriteMore,
         File!Validate, File!Recheck, File!Raise, File!DiscardPending, File!Die, FileInv,
         FileTypeOK
<1>4. /\ File!PublishedBy' = File!PublishedBy /\ File!Recoverable' = File!Recoverable
      /\ ~flost
  BY <1>1, <1>2, <1>3, FileAlive DEF File!PublishedBy, File!Recoverable
<1>5. CASE fpc' = fpc
  BY <1>2, <1>4, <1>5 DEF File!Outcome, OneFile!vars
<1>6. ASSUME NEW l \in FilePlaces \ {"ok"}, File!Goto(p, l)
      PROVE  [OneFile!Next]_(OneFile!vars)
  <2>1. fpc[p] \notin FileEnded
    BY <1>1 DEF File!Over, FileEnded
  <2>2. \/ File!Outcome' = File!Outcome
        \/ /\ File!Outcome[p] = "running"
           /\ File!Outcome' = [File!Outcome EXCEPT ![p] = "failed"]
    BY <1>6, <2>1, FileSettled DEF FileInv, FileEnded
  <2>. QED  BY <1>2, <1>4, <2>2 DEF OneFile!Next, OneFile!Fail, OneFile!vars
<1>. QED  BY <1>1, <1>5, <1>6

(* The power failure leaves what the disk may hold.                         *)
LEMMA FilePowerContract ==
  ASSUME FileInv, File!PowerFails
  PROVE  [OneFile!Next]_(OneFile!vars)
<1>1. File!Outcome' = File!Outcome
  BY DEF File!PowerFails, File!Outcome, File!Over
<1>2. fdestination' \in fdisk.destination /\ fdisk' = fdisk /\ flost' = TRUE /\ ~flost
  BY DEF File!PowerFails
<1>. QED
  BY <1>1, <1>2 DEF File!PublishedBy, File!Recoverable, OneFile!Next, OneFile!PowerFails

LEMMA FileContractStep == FileInv /\ [File!Next]_(File!vars) => [OneFile!Next]_(OneFile!vars)
<1>. SUFFICES ASSUME FileInv, [File!Next]_(File!vars) PROVE [OneFile!Next]_(OneFile!vars)
  OBVIOUS
<1>1. CASE File!ClearPending \/ UNCHANGED File!vars
  <2>1. UNCHANGED <<fdestination, flost, fpc>> /\ fdisk'.destination = fdisk.destination
    BY <1>1 DEF File!ClearPending, File!SetPending, File!vars, File!names, FileInv, FileTypeOK
  <2>. QED  BY <2>1 DEF OneFile!vars, File!PublishedBy, File!Recoverable, File!Outcome
<1>2. ASSUME NEW p \in Publishers, File!Publish(p) \/ File!Die(p)
      PROVE  [OneFile!Next]_(OneFile!vars)
  BY <1>2, FileRenameContract, FileSyncContract, FileVerifyContract, FileOtherContract
     DEF File!Publish
<1>. QED  BY <1>1, <1>2, FilePowerContract DEF File!Next

-----------------------------------------------------------------------------
(* The parts of the harness do not disturb each other.                      *)
LEMMA HarnessPublishes == HarnessSpec => Spec
<1>1. HarnessInit => Init
  BY DEF HarnessInit
<1>2. [HarnessNext]_<<part, vars, candidateVars, unitVars, scanVars, removalVars>>
        => [Next]_vars
  BY DEF HarnessNext
<1>. QED  BY <1>1, <1>2, PTL DEF HarnessSpec, Spec

(* Whoever is told that a publication succeeded finds it whole, for good,   *)
(* whatever the other callers, their clean-up or a power failure do.        *)
THEOREM PublishOkIsForGood == HarnessSpec => []OkIsForGood
<1>1. HarnessSpec => []Tree!OkIsForGood /\ []Snapshot!OkIsForGood
  BY HarnessPublishes, TreeHolds, SnapshotHolds, Assumptions, TreeOkIsForGood,
     SnapshotOkIsForGood, PTL
<1>2. HarnessSpec => []File!OkIsForGood
  <2>1. FileInv => File!OkIsForGood
    BY DEF FileInv, OwnFile, File!OkIsForGood
  <2>. QED  BY <2>1, HarnessPublishes, FileHolds, Assumptions, PTL
<1>3. Tree!OkIsForGood /\ Snapshot!OkIsForGood /\ File!OkIsForGood => OkIsForGood
  BY DEF OkIsForGood
<1>. QED  BY <1>1, <1>2, <1>3, PTL

(* Whoever finds a publication that did not fail finds the whole of it.     *)
THEOREM PublishPublishedIsWhole == HarnessSpec => []PublishedIsWhole
<1>1. HarnessSpec => []Tree!ReadyIsDurable /\ []Snapshot!TargetIsComplete
  BY HarnessPublishes, TreeHolds, SnapshotHolds, Assumptions, TreeReadyIsDurable,
     SnapshotTargetIsComplete, PTL
<1>2. HarnessSpec => []File!DestinationIsWhole
  <2>1. FileInv => File!DestinationIsWhole
    BY DEF FileInv, FileTypeOK, OwnFile, Durable, File!DestinationIsWhole
  <2>. QED  BY <2>1, HarnessPublishes, FileHolds, Assumptions, PTL
<1>3. Tree!ReadyIsDurable /\ Snapshot!TargetIsComplete /\ File!DestinationIsWhole
      => PublishedIsWhole
  BY DEF PublishedIsWhole
<1>. QED  BY <1>1, <1>2, <1>3, PTL

(* A call that failed, and whose clean-up came to its end, keeps neither a  *)
(* directory nor the pending name, until the power fails.                   *)
THEOREM PublishFailedLeavesNothing == HarnessSpec => []FailedLeavesNothing
<1>1. HarnessSpec => []Tree!FailedLeavesNothing
  BY HarnessPublishes, TreeHolds, Assumptions, TreeFailedLeavesNothing, PTL
<1>2. HarnessSpec => []File!FailedLeavesNothing
  <2>1. FileInv => File!FailedLeavesNothing
    BY DEF FileInv, OwnFile, File!FailedLeavesNothing
  <2>. QED  BY <2>1, HarnessPublishes, FileHolds, Assumptions, PTL
<1>3. Tree!FailedLeavesNothing /\ File!FailedLeavesNothing => FailedLeavesNothing
  BY DEF FailedLeavesNothing
<1>. QED  BY <1>1, <1>2, <1>3, PTL

(* The lock of publish_snapshot keeps out every second live caller.         *)
THEOREM PublishLockExcludes == HarnessSpec => []LockExcludes
<1>1. HarnessSpec => []Snapshot!LockExcludes
  BY HarnessPublishes, SnapshotHolds, Assumptions, SnapshotLockExcludes, PTL
<1>2. Snapshot!LockExcludes => LockExcludes
  BY DEF LockExcludes
<1>. QED  BY <1>1, <1>2, PTL

-----------------------------------------------------------------------------
(* The contract.                                                            *)

WhichInv == which \in {"tree", "snapshot", "file"}

LEMMA Which == Spec => []WhichInv
<1>1. Init => WhichInv
  BY DEF Init, WhichInv
<1>2. WhichInv /\ [Next]_vars => WhichInv'
  BY DEF Next, vars, WhichInv
<1>. QED  BY <1>1, <1>2, PTL DEF Spec

(* A step of the contract, of the publishers Part, in terms of what the     *)
(* state is before it and after it.                                         *)
ContractMove(Part, pub, pub2, rec, rec2, gone, gone2, out, out2) ==
  \/ /\ pub2 = pub /\ rec2 = rec /\ out2 = out
     /\ gone2 = gone
  \/ /\ ~gone /\ gone2 = TRUE /\ pub2 \in rec
     /\ rec2 = rec /\ out2 = out
  \/ /\ ~gone /\ gone2 = gone
     /\ pub2 \in rec2 /\ rec2 \subseteq rec \union {pub2}
     /\ out2 = out
     /\ \/ pub2 = pub
        \/ \E p \in Part :
             /\ out[p] = "running"
             /\ \/ pub = Nobody /\ pub2 = p
                \/ pub = p /\ pub2 = Nobody
  \/ /\ ~gone /\ gone2 = gone
     /\ pub2 = pub /\ rec2 = rec
     /\ \E p \in Part :
          /\ out[p] = "running"
          /\ \/ pub = p /\ rec = {p} /\ out2 = [out EXCEPT ![p] = "ok"]
             \/ out2 = [out EXCEPT ![p] = "failed"]

(* A step of a publisher of some of the names is one of the contract: the   *)
(* others run, and do nothing.                                              *)
LEMMA Widen ==
  ASSUME NEW Part \in SUBSET Publishers, NEW pub, NEW pub2, NEW rec, NEW rec2,
         NEW gone, NEW gone2, NEW out, NEW out2,
         Published = pub, Published' = pub2,
         Recoverable = rec, Recoverable' = rec2,
         Lost = gone, Lost' = gone2,
         Outcome = [p \in Publishers |-> IF p \in Part THEN out[p] ELSE "running"],
         Outcome' = [p \in Publishers |-> IF p \in Part THEN out2[p] ELSE "running"],
         DOMAIN out = Part,
         ContractMove(Part, pub, pub2, rec, rec2, gone, gone2, out, out2)
  PROVE  [Contract!Next]_(Contract!vars)
<1>1. CASE pub2 = pub /\ rec2 = rec /\ out2 = out /\ gone2 = gone
  BY <1>1 DEF Contract!vars
<1>2. CASE ~gone /\ gone2 = TRUE /\ pub2 \in rec /\ rec2 = rec /\ out2 = out
  BY <1>2 DEF Contract!Next, Contract!PowerFails
<1>3. CASE /\ ~gone /\ gone2 = gone
           /\ pub2 \in rec2 /\ rec2 \subseteq rec \union {pub2}
           /\ out2 = out /\ pub2 = pub
  BY <1>3 DEF Contract!Next, Contract!Settle, Contract!Recorded
<1>4. ASSUME NEW p \in Part, out[p] = "running",
             ~gone, gone2 = gone, pub2 \in rec2, rec2 \subseteq rec \union {pub2},
             out2 = out, pub = Nobody /\ pub2 = p
      PROVE  Contract!Next
  BY <1>4 DEF Contract!Next, Contract!Appear, Contract!Recorded
<1>5. ASSUME NEW p \in Part, out[p] = "running",
             ~gone, gone2 = gone, pub2 \in rec2, rec2 \subseteq rec \union {pub2},
             out2 = out, pub = p /\ pub2 = Nobody
      PROVE  Contract!Next
  BY <1>5 DEF Contract!Next, Contract!Withdraw, Contract!Recorded
<1>6. ASSUME NEW p \in Part, out[p] = "running", ~gone, gone2 = gone, pub2 = pub, rec2 = rec,
             pub = p /\ rec = {p} /\ out2 = [out EXCEPT ![p] = "ok"]
      PROVE  Contract!Next
  <2>1. Outcome' = [Outcome EXCEPT ![p] = "ok"] /\ Outcome[p] = "running"
    BY <1>6
  <2>. QED  BY <1>6, <2>1 DEF Contract!Next, Contract!Succeed
<1>7. ASSUME NEW p \in Part, out[p] = "running", ~gone, gone2 = gone, pub2 = pub, rec2 = rec,
             out2 = [out EXCEPT ![p] = "failed"]
      PROVE  Contract!Next
  <2>1. Outcome' = [Outcome EXCEPT ![p] = "failed"] /\ Outcome[p] = "running"
    BY <1>7
  <2>. QED  BY <1>7, <2>1 DEF Contract!Next, Contract!Fail
<1>. QED  BY <1>1, <1>2, <1>3, <1>4, <1>5, <1>6, <1>7 DEF ContractMove

LEMMA TreeContract ==
  ASSUME which = "tree", which' = "tree", TreeInv, TreeInv', [Tree!Next]_(Tree!vars)
  PROVE  [Contract!Next]_(Contract!vars)
<1>1. [OneTree!Next]_(OneTree!vars)
  BY TreeContractStep, Assumptions
<1>2. /\ Published = Tree!PublishedBy /\ Published' = Tree!PublishedBy'
      /\ Recoverable = Tree!Recoverable /\ Recoverable' = Tree!Recoverable'
      /\ Lost = tlost /\ Lost' = tlost'
  BY DEF Published, Recoverable, Lost
<1>3. /\ Outcome = [p \in Publishers |->
                      IF p \in TreePublishers THEN Tree!Outcome[p] ELSE "running"]
      /\ Outcome' = [p \in Publishers |->
                       IF p \in TreePublishers THEN Tree!Outcome'[p] ELSE "running"]
      /\ DOMAIN Tree!Outcome = TreePublishers
  BY MCAssumption DEF Outcome, Tree!Outcome
<1>4. ContractMove(TreePublishers, Tree!PublishedBy, Tree!PublishedBy',
                   Tree!Recoverable, Tree!Recoverable', tlost, tlost',
                   Tree!Outcome, Tree!Outcome')
  BY <1>1
     DEF ContractMove, OneTree!Next, OneTree!vars, OneTree!Appear, OneTree!Withdraw,
         OneTree!Settle, OneTree!Recorded, OneTree!PowerFails, OneTree!Succeed, OneTree!Fail
<1>. QED  BY <1>2, <1>3, <1>4, Widen, MCAssumption

LEMMA SnapshotContract ==
  ASSUME which = "snapshot", which' = "snapshot", SnapshotInv, SnapshotInv',
         [Snapshot!Next]_(Snapshot!vars)
  PROVE  [Contract!Next]_(Contract!vars)
<1>1. [OneSnapshot!Next]_(OneSnapshot!vars)
  BY SnapshotContractStep, Assumptions
<1>2. /\ Published = Snapshot!PublishedBy /\ Published' = Snapshot!PublishedBy'
      /\ Recoverable = {Snapshot!PublishedBy} /\ Recoverable' = {Snapshot!PublishedBy'}
      /\ Lost = FALSE /\ Lost' = FALSE
  BY DEF Published, Recoverable, Lost
<1>3. /\ Outcome = [p \in Publishers |->
                      IF p \in Publishers THEN Snapshot!Outcome[p] ELSE "running"]
      /\ Outcome' = [p \in Publishers |->
                       IF p \in Publishers THEN Snapshot!Outcome'[p] ELSE "running"]
      /\ DOMAIN Snapshot!Outcome = Publishers
  BY DEF Outcome, Snapshot!Outcome
<1>4. ContractMove(Publishers, Snapshot!PublishedBy, Snapshot!PublishedBy',
                   {Snapshot!PublishedBy}, {Snapshot!PublishedBy'}, FALSE, FALSE,
                   Snapshot!Outcome, Snapshot!Outcome')
  BY <1>1
     DEF ContractMove, OneSnapshot!Next, OneSnapshot!vars, OneSnapshot!Appear, OneSnapshot!Withdraw,
         OneSnapshot!Settle, OneSnapshot!Recorded, OneSnapshot!PowerFails, OneSnapshot!Succeed, OneSnapshot!Fail
<1>. QED  BY <1>2, <1>3, <1>4, Widen, MCAssumption

LEMMA FileContract ==
  ASSUME which = "file", which' = "file", FileInv, [File!Next]_(File!vars)
  PROVE  [Contract!Next]_(Contract!vars)
<1>1. [OneFile!Next]_(OneFile!vars)
  BY FileContractStep
<1>2. /\ Published = File!PublishedBy /\ Published' = File!PublishedBy'
      /\ Recoverable = File!Recoverable /\ Recoverable' = File!Recoverable'
      /\ Lost = flost /\ Lost' = flost'
  BY DEF Published, Recoverable, Lost
<1>3. /\ Outcome = [p \in Publishers |->
                      IF p \in Publishers THEN File!Outcome[p] ELSE "running"]
      /\ Outcome' = [p \in Publishers |->
                       IF p \in Publishers THEN File!Outcome'[p] ELSE "running"]
      /\ DOMAIN File!Outcome = Publishers
  BY DEF Outcome, File!Outcome
<1>4. ContractMove(Publishers, File!PublishedBy, File!PublishedBy',
                   File!Recoverable, File!Recoverable', flost, flost',
                   File!Outcome, File!Outcome')
  BY <1>1
     DEF ContractMove, OneFile!Next, OneFile!vars, OneFile!Appear, OneFile!Withdraw,
         OneFile!Settle, OneFile!Recorded, OneFile!PowerFails, OneFile!Succeed, OneFile!Fail
<1>. QED  BY <1>2, <1>3, <1>4, Widen, MCAssumption

LEMMA InitContract == Init => Contract!Init
<1>. SUFFICES ASSUME Init PROVE Contract!Init
  OBVIOUS
<1>1. Published = Nobody
  BY DEF Init, Published, Tree!Init, Tree!PublishedBy, Tree!Published, Snapshot!Init,
         Snapshot!PublishedBy, Snapshot!Occupied, File!Init, File!PublishedBy
<1>2. Outcome = [p \in Publishers |-> "running"]
  BY DEF Init, Outcome, Tree!Init, Tree!Outcome, Snapshot!Init, Snapshot!Outcome,
         File!Init, File!Outcome
<1>3. Recoverable = {Nobody}
  <2>1. Tree!Recoverable = {Nobody}
    BY DEF Init, Tree!Init, Tree!Recoverable, Tree!MayRecover, Tree!Recovers
  <2>2. Snapshot!PublishedBy = Nobody /\ File!Recoverable = {Nobody}
    BY DEF Init, Snapshot!Init, Snapshot!PublishedBy, Snapshot!Occupied, File!Init,
           File!Recoverable
  <2>. QED  BY <2>1, <2>2 DEF Init, Recoverable
<1>4. Lost = FALSE
  BY DEF Init, Lost, Tree!Init, File!Init
<1>. QED  BY <1>1, <1>2, <1>3, <1>4 DEF Contract!Init

(* Each publisher implements CreateOnly: a name gets one publication, which *)
(* only its own call withdraws, and never once that call has succeeded; and *)
(* it succeeds when a power failure can no longer take it away.             *)
THEOREM PublishImplementsContract == HarnessSpec => ImplementsContract
<1>1. HarnessSpec => [][Tree!Next]_(Tree!vars) /\ []TreeInv
  BY HarnessPublishes, TreeHolds, PTL
<1>2. HarnessSpec => [][Snapshot!Next]_(Snapshot!vars) /\ []SnapshotInv
  BY HarnessPublishes, SnapshotHolds, PTL
<1>3. HarnessSpec => [][File!Next]_(File!vars) /\ []FileInv
  BY HarnessPublishes, FileHolds, Assumptions, PTL
<1>4. ASSUME WhichInv, [Next]_vars,
             TreeInv, TreeInv', [Tree!Next]_(Tree!vars),
             SnapshotInv, SnapshotInv', [Snapshot!Next]_(Snapshot!vars),
             FileInv, [File!Next]_(File!vars)
      PROVE  [Contract!Next]_(Contract!vars)
  <2>1. which' = which
    BY <1>4 DEF Next, vars
  <2>. QED  BY <1>4, <2>1, TreeContract, SnapshotContract, FileContract DEF WhichInv
<1>. QED
  BY HarnessPublishes, <1>1, <1>2, <1>3, <1>4, Which, InitContract, PTL
     DEF Spec, ImplementsContract, Contract!Spec

-----------------------------------------------------------------------------
(* 2. The pictures of the units of a candidate (UnitCapture).               *)

(* Pictures.  What the page shows at each step, and what has been captured  *)
(* of the units so far.  An impostor among the units is found out when its  *)
(* unit is photographed: until then the records may be wrong.               *)

PictureRecords ==
  [roots : Seq(Nat), seen : SUBSET Pictures!Units,
   picture : Seq(Nat \X SUBSET Pictures!Units)]

BeforeUnits == {"goto", "resources", "check requests", "prepare", "check", "discover", "hide"}
AfterUnits == {"last check", "close context", "close browser", "judge"}

PictureTypeInv ==
  /\ ukind \in {"units", "pages", "security"} /\ udoc \in Pictures!Documents
  /\ uunit \in Pictures!Units /\ ucaptured \in Seq(PictureRecords)
  /\ uresult \in {"running", "ok", "failed"}
  /\ uresult = "ok" => upc = "judge"
  /\ ufailures \in {"none", "closing", "before"}

(* Only for security are scripts looked for, and only units are isolated.   *)
StepInv ==
  /\ upc \in BeforeUnits \cup AfterUnits
              \cup {"isolate", "extract", "shoot", "look for scripts"}
  /\ upc = "look for scripts" => ukind = "security"
  /\ ukind = "security" => upc \in {"goto", "look for scripts"} \cup AfterUnits
  /\ upc \in {"hide", "isolate"} => ukind = "units"
  /\ upc \in BeforeUnits =>
       /\ uhidden = {} /\ uactive = Pictures!NoUnit
       /\ uunit = 1 /\ ucaptured = <<>>
  /\ ukind = "pages" => uhidden = {}
  /\ upc \in {"extract"} /\ ukind = "pages" => uunit = 1 /\ ucaptured = <<>>

(* Nothing was reported before the browser was closed.                      *)
ReportInv ==
  /\ upc \in {"close context", "close browser", "judge"} => ufailures # "before"
  /\ uresult = "ok" => ~urequests

(* All pages: the first n are in the picture.                               *)
PagesDone(n) ==
  /\ \A v \in 1..n : udoc.impostor # v /\ Pictures!Visible(v)
  /\ ucaptured = <<[roots |-> [u \in Pictures!Units |-> Pictures!Found(u)],
                    seen |-> Pictures!Seen,
                    picture |-> [v \in 1..n |-> <<v, Pictures!Seen>>]]>>

PagesInv ==
  ukind = "pages" =>
    /\ upc = "shoot" => PagesDone(uunit - 1)
    /\ upc \in AfterUnits => PagesDone(LastUnit)

(* Each unit by itself: the first n have a picture.                         *)
UnitsDone(n) ==
  /\ Len(ucaptured) >= n
  /\ \A v \in 1..n : udoc.impostor # v
  /\ udoc.impostor = 0 => \A v \in 1..n : ucaptured[v] = Pictures!Alone(v)

UnitsInv ==
  ukind = "units" =>
    /\ upc = "isolate" =>
         /\ UnitsDone(uunit - 1) /\ Len(ucaptured) = uunit - 1
         /\ uactive \in 0..(LastUnit + 1)
         /\ udoc.impostor = 0 => /\ uactive # 0
                                 /\ uhidden = Pictures!Units \ {uactive}
    /\ upc \in {"extract", "shoot"} =>
         /\ UnitsDone(uunit - 1)
         /\ uactive \in 0..LastUnit
         /\ udoc.impostor = 0 => /\ uhidden = Pictures!Units \ {uunit}
                                 /\ uactive = uunit
    /\ upc = "extract" => Len(ucaptured) = uunit - 1
    /\ upc = "shoot" =>
         /\ Len(ucaptured) = uunit
         /\ udoc.impostor = 0 =>
              ucaptured[uunit] = [roots |-> <<uunit>>, seen |-> Pictures!Seen, picture |-> <<>>]
    /\ upc \in AfterUnits => UnitsDone(LastUnit) /\ Len(ucaptured) = LastUnit

PictureInv ==
  /\ PictureTypeInv
  /\ uresult # "failed" => StepInv /\ ReportInv /\ PagesInv /\ UnitsInv

LEMMA UnitsType ==
  /\ Pictures!Units = 1..LastUnit /\ Pictures!NoUnit = LastUnit + 1
  /\ 1 \in Pictures!Units /\ LastUnit \in Nat /\ Pictures!Impostor = 0
  /\ \A u \in Pictures!Units : u \in Nat /\ u >= 1 /\ u <= LastUnit
BY HarnessAssumption DEF Pictures!Units, Pictures!NoUnit, Pictures!Impostor

(* The page, what it displays and the records: a step that changes none of  *)
(* them keeps what has been captured.                                       *)
LEMMA PagesKeep ==
  ASSUME PagesInv, UNCHANGED <<ukind, udoc, uhidden, ucaptured>>,
         \/ UNCHANGED <<upc, uunit>>
         \/ upc \in AfterUnits /\ upc' \in AfterUnits
         \/ upc' \notin AfterUnits \cup {"shoot"}
  PROVE  PagesInv'
<1>1. \A n : PagesDone(n) => PagesDone(n)'
  BY DEF PagesDone, Pictures!Visible, Pictures!Displayed, Pictures!Found, Pictures!Seen
<1>. QED  BY <1>1 DEF PagesInv, AfterUnits

LEMMA UnitsKeep ==
  ASSUME UnitsInv, UNCHANGED <<ukind, udoc, uhidden, uactive, ucaptured>>,
         \/ UNCHANGED <<upc, uunit>>
         \/ upc \in AfterUnits /\ upc' \in AfterUnits
         \/ upc' \notin AfterUnits \cup {"isolate", "extract", "shoot"}
  PROVE  UnitsInv'
<1>1. \A n : UnitsDone(n) => UnitsDone(n)'
  BY DEF UnitsDone, Pictures!Alone
<1>. QED  BY <1>1 DEF UnitsInv, AfterUnits, Pictures!Seen, Pictures!Visible, Pictures!Displayed

LEMMA PicturesType ==
  ASSUME PictureTypeInv, [Pictures!Next]_unitVars
  PROVE  PictureTypeInv'
<1>1. ASSUME Pictures!Fail PROVE uresult' = "failed" /\ UNCHANGED <<upc, uunit, ucaptured>>
  BY <1>1 DEF Pictures!Fail
<1>2. ASSUME NEW step, Pictures!Goto(step)
      PROVE  upc' = step /\ UNCHANGED <<uunit, ucaptured, uresult>>
  BY <1>2 DEF Pictures!Goto
<1>3. CASE UNCHANGED <<ukind, udoc, uunit, ucaptured>> /\ ufailures' \in {"none", "closing",
    "before"}
           /\ (uresult' = "failed" \/ (uresult = "running" /\ uresult' = uresult)
                \/ (uresult' = "ok" /\ upc' = "judge") \/ UNCHANGED <<uresult, upc>>)
  BY <1>3 DEF PictureTypeInv
<1>4. CASE Pictures!Extract
  <2>. DEFINE rec == [roots |-> Pictures!Roots, seen |-> Pictures!Seen, picture |-> <<>>]
  <2>1. Pictures!Roots \in Seq(Nat)
    <3>1. \A u \in Pictures!Units : Pictures!Found(u) \in Nat
      BY UnitsType DEF Pictures!Found
    <3>2. [u \in Pictures!Units |-> Pictures!Found(u)] \in Seq(Nat)
      BY <3>1, UnitsType
    <3>3. <<Pictures!Found(uunit)>> \in Seq(Nat)
      BY <3>1 DEF PictureTypeInv
    <3>. QED  BY <3>2, <3>3 DEF Pictures!Roots
  <2>2. Pictures!Seen \in SUBSET Pictures!Units
    BY DEF Pictures!Seen
  <2>3. rec \in PictureRecords
    BY <2>1, <2>2 DEF PictureRecords
  <2>4. ucaptured' = Append(ucaptured, rec)
    BY <1>4 DEF Pictures!Extract
  <2>. HIDE DEF rec
  <2>5. ucaptured' \in Seq(PictureRecords)
    BY <2>3, <2>4, AppendProperties DEF PictureTypeInv
  <2>6. UNCHANGED <<ukind, udoc, uunit, uresult, ufailures>> /\ uresult = "running"
    BY <1>4 DEF Pictures!Extract, Pictures!page, Pictures!reports, Pictures!At
  <2>. QED  BY <2>5, <2>6 DEF PictureTypeInv
<1>5. CASE Pictures!Screenshot
  <2>1. UNCHANGED <<ukind, udoc, ufailures>> /\ uresult = "running" /\ upc = "shoot"
    BY <1>5 DEF Pictures!Screenshot, Pictures!page, Pictures!reports, Pictures!At
  <2>2. CASE Pictures!Fail
    BY <1>1, <2>1, <2>2 DEF PictureTypeInv
  <2>3. CASE Pictures!Shoot(uunit) /\ uresult' = uresult /\ uunit' \in {uunit, uunit + 1}
             /\ (uunit' = uunit + 1 => uunit < LastUnit)
    <3>. DEFINE n == Len(ucaptured)
                old == ucaptured[n]
                shot == <<uunit, Pictures!Seen>>
                new == [old EXCEPT !.picture = Append(@, shot)]
    <3>1. uunit' \in Pictures!Units
      BY <2>3, UnitsType DEF PictureTypeInv
    <3>2. ucaptured \in Seq(PictureRecords)
      BY DEF PictureTypeInv
    <3>3. ucaptured' = [ucaptured EXCEPT ![n] = new]
      BY <2>3 DEF Pictures!Shoot
    <3>4. CASE n = 0
      <4>1. ucaptured' = ucaptured
        BY <3>2, <3>3, <3>4
      <4>. QED  BY <2>1, <2>3, <3>1, <4>1 DEF PictureTypeInv
    <3>5. CASE n # 0
      <4>1. n \in 1..Len(ucaptured) /\ old \in PictureRecords
        BY <3>2, <3>5
      <4>2. shot \in Nat \X SUBSET Pictures!Units
        BY UnitsType DEF PictureTypeInv, Pictures!Seen
      <4>3. new \in PictureRecords
        <5>1. old.picture \in Seq(Nat \X SUBSET Pictures!Units)
          BY <4>1 DEF PictureRecords
        <5>2. Append(old.picture, shot) \in Seq(Nat \X SUBSET Pictures!Units)
          BY <4>2, <5>1, AppendProperties
        <5>. QED  BY <4>1, <5>2 DEF PictureRecords
      <4>. HIDE DEF new, old
      <4>4. ucaptured' \in Seq(PictureRecords)
        BY <3>2, <3>3, <4>1, <4>3, ExceptSeq
      <4>. QED  BY <2>1, <2>3, <3>1, <4>4 DEF PictureTypeInv
    <3>. QED  BY <3>4, <3>5
  <2>4. \/ Pictures!Fail
        \/ /\ Pictures!Shoot(uunit) /\ uresult' = uresult
           /\ (uunit < LastUnit /\ uunit' = uunit + 1) \/ uunit' = uunit
    BY <1>5 DEF Pictures!Screenshot
  <2>5. uunit \in Nat
    BY UnitsType DEF PictureTypeInv
  <2>. QED  BY <2>2, <2>3, <2>4, <2>5
<1>6. CASE Pictures!Request \/ Pictures!Failure
  <2>1. UNCHANGED <<ukind, udoc, upc, uunit, ucaptured, uresult>>
    BY <1>6 DEF Pictures!Request, Pictures!Failure, Pictures!page
  <2>2. ufailures' \in {"none", "closing", "before"}
    BY <1>6 DEF Pictures!Request, Pictures!Failure, PictureTypeInv
  <2>. QED  BY <2>1, <2>2, <1>3
<1>7. CASE UNCHANGED unitVars
  BY <1>7, <1>3 DEF unitVars, PictureTypeInv
<1>8. CASE Pictures!Step /\ ~Pictures!Extract /\ ~Pictures!Screenshot
  <2>1. UNCHANGED <<ukind, udoc, ufailures>> /\ uresult = "running"
    BY <1>8 DEF Pictures!Step, Pictures!Load, Pictures!Resources, Pictures!CheckRequests,
      Pictures!Prepare, Pictures!Check, Pictures!Discover, Pictures!Hide, Pictures!Isolate,
      Pictures!ExtractFails, Pictures!LastCheck, Pictures!LookForScripts,
      Pictures!CloseContext, Pictures!CloseBrowser, Pictures!Judge, Pictures!At,
      Pictures!page, Pictures!reports
  <2>2. UNCHANGED <<uunit, ucaptured>>
    BY <1>8, <1>1, <1>2 DEF Pictures!Step, Pictures!Load, Pictures!Resources,
      Pictures!CheckRequests, Pictures!Prepare, Pictures!Check, Pictures!Discover,
      Pictures!Hide, Pictures!Isolate, Pictures!ExtractFails, Pictures!LastCheck,
      Pictures!LookForScripts, Pictures!CloseContext, Pictures!CloseBrowser,
      Pictures!Judge, Pictures!Browser
  <2>3. \/ uresult' = "failed" \/ uresult' = uresult
        \/ uresult' = "ok" /\ upc' = "judge"
    BY <1>8, <1>1, <1>2 DEF Pictures!Step, Pictures!Load, Pictures!Resources,
      Pictures!CheckRequests, Pictures!Prepare, Pictures!Check, Pictures!Discover,
      Pictures!Hide, Pictures!Isolate, Pictures!ExtractFails, Pictures!LastCheck,
      Pictures!LookForScripts, Pictures!CloseContext, Pictures!CloseBrowser,
      Pictures!Judge, Pictures!Browser, Pictures!At
  <2>. QED  BY <2>1, <2>2, <2>3, <1>3 DEF PictureTypeInv
<1>. QED  BY <1>4, <1>5, <1>6, <1>7, <1>8 DEF Pictures!Next, Pictures!Step

(* The steps before the first unit: nothing is captured, and what was       *)
(* reported ends the capture.                                               *)
LEMMA PicturesBefore ==
  ASSUME PictureInv, uresult = "running", uresult' # "failed",
         \/ Pictures!Load \/ Pictures!Resources \/ Pictures!CheckRequests
         \/ Pictures!Prepare \/ Pictures!Check \/ Pictures!Discover
         \/ Pictures!LookForScripts
  PROVE  PictureInv'
<1>1. /\ UNCHANGED <<ukind, udoc, uhidden, uactive, ufailures, uunit, ucaptured, uresult>>
      /\ upc \in (BeforeUnits \ {"hide"}) \cup {"look for scripts"}
      /\ upc' \in BeforeUnits \cup {"look for scripts", "extract", "close context"}
      /\ upc' \in BeforeUnits \cup {"extract"} => upc \in BeforeUnits
      /\ upc' = "hide" => ukind = "units"
      /\ upc' = "extract" => ukind # "units"
      /\ upc' = "look for scripts" => ukind = "security"
      /\ upc = "goto" => (ukind = "security" <=> upc' = "look for scripts")
      /\ upc' = "close context" => upc = "look for scripts" /\ ufailures = "none"
  BY DEF Pictures!Load, Pictures!Resources, Pictures!CheckRequests, Pictures!Prepare,
    Pictures!Check, Pictures!Discover, Pictures!LookForScripts, Pictures!At, Pictures!Fail,
    Pictures!Goto, Pictures!Browser, Pictures!page, Pictures!display, Pictures!reports,
    BeforeUnits
<1>2. PictureTypeInv'
  BY <1>1 DEF PictureInv, PictureTypeInv
<1>3. StepInv /\ ReportInv /\ PagesInv /\ UnitsInv
  BY DEF PictureInv
<1>4. StepInv'
  BY <1>1, <1>3 DEF StepInv, BeforeUnits, AfterUnits
<1>5. ReportInv'
  BY <1>1, <1>3 DEF ReportInv, BeforeUnits
<1>6. ukind = "security" \/ upc' # "close context"
  BY <1>1, <1>3 DEF StepInv
<1>7. PagesInv'
  <2>1. CASE ukind = "security"
    BY <1>1, <2>1 DEF PagesInv
  <2>2. CASE ukind # "security"
    BY <1>1, <1>3, <1>6, <2>2, PagesKeep DEF BeforeUnits, AfterUnits
  <2>. QED  BY <2>1, <2>2
<1>8. UnitsInv'
  <2>1. CASE ukind = "units"
    BY <1>1, <1>3, <1>6, <2>1, UnitsKeep DEF BeforeUnits, AfterUnits
  <2>2. CASE ukind # "units"
    BY <1>1, <2>2 DEF UnitsInv
  <2>. QED  BY <2>1, <2>2
<1>. QED  BY <1>2, <1>4, <1>5, <1>7, <1>8 DEF PictureInv

(* The steps after the last unit, and what is reported meanwhile.           *)
LEMMA PicturesAfter ==
  ASSUME PictureInv, uresult = "running", uresult' # "failed",
         \/ Pictures!LastCheck \/ Pictures!CloseContext \/ Pictures!CloseBrowser
         \/ Pictures!Judge \/ Pictures!Request \/ Pictures!Failure
  PROVE  PictureInv'
<1>1. /\ UNCHANGED <<ukind, udoc, uhidden, uactive, uunit, ucaptured>>
      /\ UNCHANGED upc \/ (upc \in AfterUnits /\ upc' \in AfterUnits)
      /\ uresult' \in {"running", "ok"} /\ (uresult' = "ok" => upc' = "judge" /\ ~urequests')
  <2>1. CASE Pictures!Request \/ Pictures!Failure
    BY <2>1 DEF Pictures!Request, Pictures!Failure, Pictures!page, Pictures!display
  <2>2. CASE Pictures!LastCheck \/ Pictures!CloseContext \/ Pictures!CloseBrowser
    BY <2>2 DEF Pictures!LastCheck, Pictures!CloseContext, Pictures!CloseBrowser,
      Pictures!At, Pictures!Fail, Pictures!Goto, Pictures!page, Pictures!display, AfterUnits
  <2>3. CASE Pictures!Judge
    BY <2>3 DEF Pictures!Judge, Pictures!At, Pictures!page, Pictures!display, Pictures!reports
  <2>. QED  BY <2>1, <2>2, <2>3
<1>2. StepInv /\ ReportInv /\ PagesInv /\ UnitsInv /\ PictureTypeInv
  BY DEF PictureInv
<1>3. ufailures' \in {"none", "closing", "before"}
  BY <1>2 DEF Pictures!LastCheck, Pictures!CloseContext, Pictures!CloseBrowser,
    Pictures!Judge, Pictures!Request, Pictures!Failure, Pictures!reports, PictureTypeInv
<1>4. upc' \in {"close context", "close browser", "judge"} => ufailures' # "before"
  BY <1>2 DEF Pictures!LastCheck, Pictures!CloseContext, Pictures!CloseBrowser,
    Pictures!Judge, Pictures!Request, Pictures!Failure, Pictures!At, Pictures!Goto,
    Pictures!Fail, Pictures!Noticed, Pictures!Listening, Pictures!Closing,
    Pictures!reports, PictureTypeInv, ReportInv
<1>5. PictureTypeInv'
  BY <1>1, <1>2, <1>3 DEF PictureTypeInv
<1>6. StepInv'
  BY <1>1, <1>2 DEF StepInv, BeforeUnits, AfterUnits
<1>7. ReportInv'
  BY <1>1, <1>4 DEF ReportInv
<1>8. PagesInv' /\ UnitsInv'
  BY <1>1, <1>2, PagesKeep, UnitsKeep
<1>. QED  BY <1>5, <1>6, <1>7, <1>8 DEF PictureInv

(* All units are hidden, and then one is shown.                             *)
LEMMA PicturesHide ==
  ASSUME PictureInv, uresult = "running", uresult' # "failed",
         Pictures!Hide \/ Pictures!Isolate
  PROVE  PictureInv'
<1>1. /\ UNCHANGED <<ukind, udoc, urequests, ufailures, uunit, ucaptured, uresult>>
      /\ upc \in {"hide", "isolate"} /\ upc' \in {"isolate", "extract"}
  BY DEF Pictures!Hide, Pictures!Isolate, Pictures!At, Pictures!Fail, Pictures!Goto,
    Pictures!Browser, Pictures!page, Pictures!reports
<1>2. StepInv /\ ReportInv /\ UnitsInv /\ PictureTypeInv /\ ukind = "units"
  BY <1>1 DEF PictureInv, StepInv
<1>3. PictureTypeInv' /\ StepInv' /\ ReportInv' /\ PagesInv'
  BY <1>1, <1>2 DEF PictureTypeInv, StepInv, ReportInv, PagesInv, BeforeUnits, AfterUnits
<1>4. udoc.impostor = 0 => \A u \in Pictures!Units : Pictures!Found(u) = u
  BY UnitsType DEF Pictures!Found
<1>5. \A u \in Pictures!Units : Pictures!Found(u) \in 0..LastUnit
  BY UnitsType DEF Pictures!Found
<1>6. UnitsInv'
  <2>1. CASE Pictures!Hide
    <3>1. /\ uhidden' = {Pictures!Found(u) : u \in Pictures!Units} /\ uactive' = uactive
          /\ uactive = LastUnit + 1 /\ uunit = 1 /\ ucaptured = <<>> /\ upc' = "isolate"
      BY <2>1, <1>1, <1>2, UnitsType DEF Pictures!Hide, Pictures!At, Pictures!Browser,
        Pictures!Goto, Pictures!Fail, StepInv, BeforeUnits
    <3>2. udoc.impostor = 0 => uhidden' = Pictures!Units /\ uhidden' = Pictures!Units \ {uactive}
      BY <3>1, <1>4, UnitsType
    <3>. QED  BY <1>1, <3>1, <3>2, UnitsType DEF UnitsInv, UnitsDone, AfterUnits
  <2>2. CASE Pictures!Isolate
    <3>1. /\ uhidden' = (uhidden \cup ({uactive} \ {LastUnit + 1})) \ {Pictures!Found(uunit)}
          /\ uactive' = Pictures!Found(uunit) /\ upc = "isolate" /\ upc' = "extract"
      BY <2>2, <1>1, UnitsType DEF Pictures!Isolate, Pictures!At, Pictures!Browser,
        Pictures!Goto, Pictures!Fail, Pictures!NowHidden
    <3>2. /\ UnitsDone(uunit - 1) /\ Len(ucaptured) = uunit - 1
          /\ uactive \in 0..(LastUnit + 1)
          /\ udoc.impostor = 0 => uactive # 0 /\ uhidden = Pictures!Units \ {uactive}
      BY <1>2, <3>1 DEF UnitsInv
    <3>3. uunit \in Pictures!Units
      BY <1>2 DEF PictureTypeInv
    <3>4. udoc.impostor = 0 => uhidden' = Pictures!Units \ {uunit} /\ uactive' = uunit
      BY <1>4, <3>1, <3>2, <3>3, UnitsType
    <3>5. uactive' \in 0..LastUnit
      BY <1>5, <3>1, <3>3
    <3>6. UnitsDone(uunit - 1)'
      BY <1>1, <3>2 DEF UnitsDone, Pictures!Alone
    <3>. QED  BY <1>1, <3>1, <3>2, <3>4, <3>5, <3>6 DEF UnitsInv, AfterUnits
  <2>. QED  BY <2>1, <2>2
<1>. QED  BY <1>3, <1>6 DEF PictureInv

LEMMA PicturesExtract ==
  ASSUME PictureInv, uresult = "running", Pictures!Extract
  PROVE  PictureInv'
<1>. DEFINE rec == [roots |-> Pictures!Roots, seen |-> Pictures!Seen, picture |-> <<>>]
<1>1. /\ UNCHANGED <<ukind, udoc, uhidden, uactive, urequests, ufailures, uunit, uresult>>
      /\ upc = "extract" /\ upc' = "shoot" /\ ucaptured' = Append(ucaptured, rec)
  BY DEF Pictures!Extract, Pictures!At, Pictures!page, Pictures!display, Pictures!reports
<1>2. PictureTypeInv /\ StepInv /\ ReportInv /\ PagesInv /\ UnitsInv
  BY DEF PictureInv
<1>3. PictureTypeInv'
  <2>1. Pictures!Extract => [Pictures!Next]_unitVars
    BY DEF Pictures!Next, Pictures!Step
  <2>. QED  BY <1>2, <2>1, PicturesType
<1>4. StepInv' /\ ReportInv'
  BY <1>1, <1>2 DEF StepInv, ReportInv, BeforeUnits, AfterUnits
<1>5. uunit \in Pictures!Units /\ uunit \in Nat
  BY <1>2, UnitsType DEF PictureTypeInv
<1>6. PagesInv'
  <2>. SUFFICES ASSUME ukind = "pages" PROVE PagesDone(uunit - 1)'
    BY <1>1 DEF PagesInv, AfterUnits
  <2>1. uunit = 1 /\ ucaptured = <<>> /\ uhidden = {}
    BY <1>1, <1>2 DEF StepInv
  <2>2. ucaptured' = <<rec>>
    BY <1>1, <2>1
  <2>3. Pictures!Roots = [u \in Pictures!Units |-> Pictures!Found(u)]
    BY DEF Pictures!Roots
  <2>4. [v \in 1..(1 - 1) |-> <<v, Pictures!Seen>>] = <<>>
    OBVIOUS
  <2>5. PagesDone(0)'
    <3>1. Pictures!Seen' = Pictures!Seen /\ \A u : Pictures!Found(u)' = Pictures!Found(u)
      BY <1>1 DEF Pictures!Seen, Pictures!Visible, Pictures!Displayed, Pictures!Found
    <3>. QED  BY <2>2, <2>3, <2>4, <3>1 DEF PagesDone
  <2>. QED  BY <1>1, <2>1, <2>5
<1>7. UnitsInv'
  <2>. SUFFICES ASSUME ukind = "units" PROVE UnitsInv'
    BY <1>1 DEF UnitsInv
  <2>1. /\ UnitsDone(uunit - 1) /\ Len(ucaptured) = uunit - 1
        /\ uactive \in 0..LastUnit
        /\ udoc.impostor = 0 => uhidden = Pictures!Units \ {uunit} /\ uactive = uunit
    BY <1>1, <1>2 DEF UnitsInv
  <2>2. udoc.impostor = 0 => Pictures!Roots = <<uunit>>
    BY <1>5, UnitsType DEF Pictures!Roots, Pictures!Found
  <2>3. ucaptured \in Seq(PictureRecords) /\ ucaptured' \in Seq(PictureRecords)
    BY <1>2, <1>3 DEF PictureTypeInv
  <2>. HIDE DEF rec
  <2>4. /\ Len(ucaptured') = uunit /\ ucaptured'[uunit] = rec
        /\ \A v \in 1..(uunit - 1) : ucaptured'[v] = ucaptured[v]
    BY <1>1, <1>5, <2>1, <2>3
  <2>5. UnitsDone(uunit - 1)'
    BY <1>1, <1>5, <2>1, <2>4 DEF UnitsDone, Pictures!Alone
  <2>6. Pictures!Seen' = Pictures!Seen
    BY <1>1 DEF Pictures!Seen, Pictures!Visible, Pictures!Displayed
  <2>7. udoc.impostor = 0 =>
          rec = [roots |-> <<uunit>>, seen |-> Pictures!Seen, picture |-> <<>>]
    BY <2>2 DEF rec
  <2>. QED  BY <1>1, <2>1, <2>4, <2>5, <2>6, <2>7 DEF UnitsInv, AfterUnits
<1>. QED  BY <1>3, <1>4, <1>6, <1>7 DEF PictureInv

(* The pictures of the first n pages, and one more.                         *)
Taken(n, all) == [v \in 1..n |-> <<v, all>>]

LEMMA TakenNext ==
  ASSUME NEW n \in Nat, n >= 1, NEW all
  PROVE  Append(Taken(n - 1, all), <<n, all>>) = Taken(n, all)
<1>. DEFINE T == {<<v, all>> : v \in Nat}
            m == n - 1
            old == Taken(m, all)
            new == Append(old, <<n, all>>)
<1>1. m \in Nat /\ m + 1 = n
  OBVIOUS
<1>2. old \in [1..m -> T] /\ \A v \in 1..m : old[v] = <<v, all>>
  BY <1>1 DEF Taken
<1>3. old \in Seq(T) /\ Len(old) = m
  <2>. HIDE DEF old, T, m
  <2>. QED  BY <1>1, <1>2
<1>4. <<n, all>> \in T
  OBVIOUS
<1>5. /\ new \in Seq(T) /\ Len(new) = m + 1 /\ new[m + 1] = <<n, all>>
      /\ \A v \in 1..m : new[v] = old[v]
  <2>. HIDE DEF old, T, m
  <2>. QED  BY <1>3, <1>4, AppendProperties
<1>6. Taken(n, all) \in [1..n -> T] /\ \A v \in 1..n : Taken(n, all)[v] = <<v, all>>
  BY DEF Taken
<1>7. Taken(n, all) \in Seq(T) /\ Len(Taken(n, all)) = n
  BY <1>6
<1>8. \A v \in 1..n : new[v] = Taken(n, all)[v]
  <2>. SUFFICES ASSUME NEW v \in 1..n PROVE new[v] = <<v, all>>
    BY <1>6
  <2>. HIDE DEF new, old
  <2>1. CASE v = n
    BY <2>1, <1>1, <1>5
  <2>2. CASE v # n
    <3>1. v \in 1..m
      BY <2>2, <1>1
    <3>. QED  BY <3>1, <1>2, <1>5
  <2>. QED  BY <2>1, <2>2
<1>. HIDE DEF new, T, m
<1>9. Len(new) = n /\ new \in Seq(T)
  BY <1>1, <1>5
<1>10. new = Taken(n, all)
  BY <1>7, <1>8, <1>9, SeqEqual
<1>. QED  BY <1>10 DEF new, old, m

(* What a picture of unit uunit changes.                                    *)
Shot == <<uunit, Pictures!Seen>>

LEMMA PictureAdded ==
  ASSUME NEW r, NEW s, NEW p, NEW q
  PROVE  [[roots |-> r, seen |-> s, picture |-> p] EXCEPT !.picture = Append(@, q)]
           = [roots |-> r, seen |-> s, picture |-> Append(p, q)]
OBVIOUS

LEMMA ShotStep ==
  ASSUME PictureInv, uresult = "running", uresult' # "failed", Pictures!Screenshot
  PROVE  /\ UNCHANGED <<ukind, udoc, uhidden, uactive, urequests, ufailures, uresult>>
         /\ upc = "shoot" /\ udoc.impostor # uunit /\ Pictures!Visible(uunit)
         /\ ucaptured' = [ucaptured EXCEPT ![Len(ucaptured)].picture = Append(@, Shot)]
         /\ \/ /\ uunit < LastUnit /\ uunit' = uunit + 1
               /\ upc' = IF ukind = "pages" THEN "shoot" ELSE "isolate"
            \/ uunit = LastUnit /\ uunit' = uunit /\ upc' = "last check"
         /\ uunit \in Pictures!Units /\ uunit \in Nat /\ uunit >= 1 /\ LastUnit \in Nat
         /\ ucaptured \in Seq(PictureRecords)
         /\ PictureTypeInv' /\ ReportInv'
<1>1. /\ UNCHANGED <<ukind, udoc, uhidden, uactive, urequests, ufailures, uresult>>
      /\ upc = "shoot" /\ udoc.impostor # uunit /\ Pictures!Visible(uunit)
      /\ ucaptured' = [ucaptured EXCEPT ![Len(ucaptured)].picture = Append(@, Shot)]
      /\ IF uunit < LastUnit
         THEN uunit' = uunit + 1 /\ upc' = IF ukind = "pages" THEN "shoot" ELSE "isolate"
         ELSE uunit' = uunit /\ upc' = "last check"
  BY DEF Pictures!Screenshot, Pictures!At, Pictures!Fail, Pictures!CanShoot, Pictures!Shoot,
    Pictures!page, Pictures!display, Pictures!reports, Shot
<1>2. PictureTypeInv /\ ReportInv
  BY DEF PictureInv
<1>3. PictureTypeInv'
  <2>1. Pictures!Screenshot => [Pictures!Next]_unitVars
    BY DEF Pictures!Next, Pictures!Step
  <2>. QED  BY <1>2, <2>1, PicturesType
<1>4. uunit \in Pictures!Units /\ ucaptured \in Seq(PictureRecords)
  BY <1>2 DEF PictureTypeInv
<1>5. uunit \in Nat /\ uunit >= 1 /\ uunit <= LastUnit /\ LastUnit \in Nat
  BY <1>4, UnitsType
<1>6. ReportInv'
  BY <1>1, <1>2 DEF ReportInv
<1>7. \/ /\ uunit < LastUnit /\ uunit' = uunit + 1
         /\ upc' = IF ukind = "pages" THEN "shoot" ELSE "isolate"
      \/ uunit = LastUnit /\ uunit' = uunit /\ upc' = "last check"
  <2>1. CASE uunit < LastUnit
    BY <1>1, <2>1
  <2>2. CASE uunit = LastUnit
    BY <1>1, <1>5, <2>2
  <2>3. uunit < LastUnit \/ uunit = LastUnit
    BY <1>5
  <2>. QED  BY <2>1, <2>2, <2>3
<1>. QED  BY <1>1, <1>3, <1>4, <1>5, <1>6, <1>7, Zenon

LEMMA PagesShoot ==
  ASSUME PictureInv, uresult = "running", uresult' # "failed", Pictures!Screenshot,
         ukind = "pages"
  PROVE  PictureInv'
<1>. DEFINE roots == [u \in Pictures!Units |-> Pictures!Found(u)]
            all == Pictures!Seen
            rec(n) == [roots |-> roots, seen |-> all, picture |-> Taken(n, all)]
<1>1. /\ UNCHANGED <<ukind, udoc, uhidden, uactive, urequests, ufailures, uresult>>
      /\ upc = "shoot" /\ udoc.impostor # uunit /\ Pictures!Visible(uunit)
      /\ ucaptured' = [ucaptured EXCEPT ![Len(ucaptured)].picture = Append(@, Shot)]
      /\ \/ uunit < LastUnit /\ uunit' = uunit + 1 /\ upc' = "shoot"
         \/ uunit = LastUnit /\ uunit' = uunit /\ upc' = "last check"
      /\ uunit \in Pictures!Units /\ uunit \in Nat /\ uunit >= 1 /\ LastUnit \in Nat
      /\ PictureTypeInv' /\ ReportInv'
  BY ShotStep
<1>10. uunit \in Nat /\ uunit >= 1
  BY <1>1
<1>2. StepInv /\ PagesInv
  BY <1>1 DEF PictureInv
<1>3. /\ \A v \in 1..(uunit - 1) : udoc.impostor # v /\ Pictures!Visible(v)
      /\ ucaptured = <<rec(uunit - 1)>>
  BY <1>1, <1>2 DEF PagesInv, PagesDone, Taken
<1>4. Append(Taken(uunit - 1, all), Shot) = Taken(uunit, all)
  <2>. DEFINE a == all
  <2>1. Shot = <<uunit, a>>
    BY DEF Shot
  <2>. HIDE DEF a
  <2>2. Append(Taken(uunit - 1, a), <<uunit, a>>) = Taken(uunit, a)
    BY <1>1, TakenNext
  <2>. QED  BY <2>1, <2>2 DEF a
<1>5. ucaptured' = <<rec(uunit)>>
  <2>. DEFINE old == rec(uunit - 1)
              new == [old EXCEPT !.picture = Append(@, Shot)]
  <2>1. old.picture = Taken(uunit - 1, all)
    OBVIOUS
  <2>2. new = [roots |-> roots, seen |-> all, picture |-> Append(Taken(uunit - 1, all), Shot)]
    <3>. HIDE DEF roots, all
    <3>. QED  BY SMTT(30)
  <2>3. new = rec(uunit)
    BY <1>4, <2>2
  <2>4. ucaptured' = [<<old>> EXCEPT ![1] = new]
    <3>1. ucaptured = <<old>> /\ Len(ucaptured) = 1 /\ ucaptured[1] = old
      <4>. HIDE DEF rec
      <4>. QED  BY <1>3
    <3>2. ucaptured' = [ucaptured EXCEPT ![1].picture = Append(@, Shot)]
      BY <1>1, <3>1
    <3>. HIDE DEF rec
    <3>. QED  BY <3>1, <3>2
  <2>. HIDE DEF old, new
  <2>5. [<<old>> EXCEPT ![1] = new] = <<new>>
    OBVIOUS
  <2>. QED  BY <2>3, <2>4, <2>5
<1>6. \A n \in Nat : n = uunit => PagesDone(n)'
  <2>1. /\ Pictures!Seen' = Pictures!Seen
        /\ \A u : Pictures!Found(u)' = Pictures!Found(u)
        /\ \A u : Pictures!Visible(u)' = Pictures!Visible(u)
    BY <1>1 DEF Pictures!Seen, Pictures!Visible, Pictures!Displayed, Pictures!Found
  <2>2. \A n \in Nat : (PagesDone(n)' <=>
          /\ \A v \in 1..n : udoc.impostor # v /\ Pictures!Visible(v)
          /\ ucaptured' = <<rec(n)>>)
    BY <1>1, <2>1 DEF PagesDone, Taken
  <2>3. \A v \in 1..uunit : v = uunit \/ v \in 1..(uunit - 1)
    <3>1. \A v, n \in Nat : n >= 1 /\ v \in 1..n => v = n \/ v \in 1..(n - 1)
      OBVIOUS
    <3>2. \A v \in 1..uunit : v \in Nat
      BY <1>10
    <3>. QED  BY <1>10, <3>1, <3>2
  <2>4. \A v \in 1..uunit : udoc.impostor # v /\ Pictures!Visible(v)
    BY <1>1, <1>3, <2>3, Zenon
  <2>. QED  BY <1>5, <2>2, <2>4
<1>7. PagesInv'
  <2>1. upc' = "shoot" => PagesDone(uunit - 1)'
    BY <1>1, <1>6
  <2>2. upc' \in AfterUnits => PagesDone(LastUnit)'
    BY <1>1, <1>6 DEF AfterUnits
  <2>. QED  BY <2>1, <2>2 DEF PagesInv
<1>8. StepInv'
  <2>1. uhidden = {}
    BY <1>2, <1>1 DEF StepInv
  <2>. QED  BY <1>1, <2>1 DEF StepInv, BeforeUnits, AfterUnits
<1>9. UnitsInv'
  BY <1>1 DEF UnitsInv
<1>. QED  BY <1>1, <1>7, <1>8, <1>9 DEF PictureInv

LEMMA UnitsShoot ==
  ASSUME PictureInv, uresult = "running", uresult' # "failed", Pictures!Screenshot,
         ukind = "units"
  PROVE  PictureInv'
<1>1. /\ UNCHANGED <<ukind, udoc, uhidden, uactive, urequests, ufailures, uresult>>
      /\ upc = "shoot" /\ udoc.impostor # uunit /\ Pictures!Visible(uunit)
      /\ \/ uunit < LastUnit /\ uunit' = uunit + 1 /\ upc' = "isolate"
         \/ uunit = LastUnit /\ uunit' = uunit /\ upc' = "last check"
      /\ uunit \in Pictures!Units /\ uunit \in Nat /\ uunit >= 1 /\ LastUnit \in Nat
      /\ ucaptured \in Seq(PictureRecords)
      /\ PictureTypeInv' /\ ReportInv'
  BY ShotStep
<1>11. ucaptured' = [ucaptured EXCEPT ![Len(ucaptured)].picture = Append(@, Shot)]
  BY ShotStep
<1>2. StepInv /\ UnitsInv
  BY <1>1 DEF PictureInv
<1>3. /\ UnitsDone(uunit - 1) /\ uactive \in 0..LastUnit /\ Len(ucaptured) = uunit
      /\ udoc.impostor = 0 =>
           /\ uhidden = Pictures!Units \ {uunit} /\ uactive = uunit
           /\ ucaptured[uunit] = [roots |-> <<uunit>>, seen |-> Pictures!Seen, picture |-> <<>>]
  BY <1>1, <1>2 DEF UnitsInv
<1>12. /\ uunit \in Nat /\ uunit >= 1 /\ Len(ucaptured) = uunit /\ LastUnit \in Nat
       /\ ucaptured \in Seq(PictureRecords) /\ uactive \in 0..LastUnit
  BY <1>1, <1>3, Zenon
<1>4. udoc.impostor = 0 => Pictures!Seen = {uunit}
  <2>. SUFFICES ASSUME udoc.impostor = 0 PROVE Pictures!Seen = {uunit}
    OBVIOUS
  <2>1. \A u \in Pictures!Units : Pictures!Visible(u) => u \notin uhidden
    BY DEF Pictures!Visible, Pictures!Displayed
  <2>. QED  BY <1>1, <1>3, <2>1 DEF Pictures!Seen
<1>5. /\ Len(ucaptured') = uunit
      /\ \A v \in 1..(uunit - 1) : ucaptured'[v] = ucaptured[v]
      /\ udoc.impostor = 0 => ucaptured'[uunit] = Pictures!Alone(uunit)
  <2>. DEFINE old == ucaptured[uunit]
              new == [old EXCEPT !.picture = Append(@, Shot)]
  <2>1. ucaptured' = [ucaptured EXCEPT ![uunit] = new]
    <3>1. Len(ucaptured) = uunit
      BY <1>3
    <3>. QED  BY <1>11, <3>1
  <2>2. udoc.impostor = 0 => new = Pictures!Alone(uunit)
    <3>. SUFFICES ASSUME udoc.impostor = 0 PROVE new = Pictures!Alone(uunit)
      OBVIOUS
    <3>1. old = [roots |-> <<uunit>>, seen |-> {uunit}, picture |-> <<>>]
      BY <1>3, <1>4
    <3>2. Append(<<>>, Shot) = <<<<uunit, {uunit}>>>>
      BY <1>4 DEF Shot
    <3>3. old.picture = <<>>
      BY <3>1
    <3>4. new = [roots |-> <<uunit>>, seen |-> {uunit}, picture |-> Append(<<>>, Shot)]
      <4>. DEFINE e == <<>>
                  r == <<uunit>>
                  a == {uunit}
      <4>1. old = [roots |-> r, seen |-> a, picture |-> e]
        BY <3>1
      <4>. HIDE DEF e, r, a, old
      <4>2. [[roots |-> r, seen |-> a, picture |-> e] EXCEPT !.picture = Append(@, Shot)]
              = [roots |-> r, seen |-> a, picture |-> Append(e, Shot)]
        BY PictureAdded
      <4>3. new = [roots |-> r, seen |-> a, picture |-> Append(e, Shot)]
        BY <4>1, <4>2
      <4>. QED  BY <4>3 DEF r, e, a
    <3>. QED  BY <3>2, <3>4 DEF Pictures!Alone
  <2>. HIDE DEF old, new
  <2>3. uunit \in 1..Len(ucaptured)
    BY <1>12
  <2>4. Len(ucaptured') = Len(ucaptured) /\ DOMAIN ucaptured = 1..Len(ucaptured)
    BY <1>12, <2>1, <2>3
  <2>5. \A v \in 1..(uunit - 1) : v \in 1..Len(ucaptured) /\ v # uunit
    BY <1>12
  <2>6. ucaptured'[uunit] = new
    BY <2>1, <2>3, <2>4
  <2>7. \A v \in 1..(uunit - 1) : ucaptured'[v] = ucaptured[v]
    BY <2>1, <2>4, <2>5
  <2>. QED  BY <1>3, <2>2, <2>4, <2>6, <2>7
<1>6. \A n \in Nat : n = uunit => UnitsDone(n)'
  <2>1. \A v \in 1..uunit : v = uunit \/ v \in 1..(uunit - 1)
    BY <1>12
  <2>2. \A v \in 1..(uunit - 1) : udoc.impostor # v
    BY <1>3 DEF UnitsDone
  <2>3. \A v \in 1..uunit : udoc.impostor # v
    BY <1>1, <2>1, <2>2
  <2>4. udoc.impostor = 0 => \A v \in 1..(uunit - 1) : ucaptured'[v] = Pictures!Alone(v)
    BY <1>3, <1>5 DEF UnitsDone
  <2>5. udoc.impostor = 0 => \A v \in 1..uunit : ucaptured'[v] = Pictures!Alone(v)
    BY <1>5, <2>1, <2>4
  <2>6. \A v : Pictures!Alone(v)' = Pictures!Alone(v)
    BY DEF Pictures!Alone
  <2>7. Len(ucaptured') >= uunit
    BY <1>12, <1>5
  <2>. QED  BY <1>1, <2>3, <2>5, <2>7 DEF UnitsDone, Pictures!Alone
<1>7. UnitsInv'
  <2>1. CASE upc' = "isolate"
    <3>1. uunit' - 1 = uunit /\ Len(ucaptured') = uunit' - 1
      BY <1>1, <1>5, <2>1
    <3>2. UnitsDone(uunit - 1)'
      BY <1>1, <1>6, <3>1
    <3>3. /\ uactive' \in 0..(LastUnit + 1)
          /\ udoc.impostor = 0 => uactive' # 0 /\ uhidden' = Pictures!Units \ {uactive'}
      <4>1. udoc.impostor = 0 => uhidden = Pictures!Units \ {uunit} /\ uactive = uunit
        BY <1>3
      <4>2. UNCHANGED <<udoc, uhidden, uactive>>
        BY <1>1
      <4>. QED  BY <1>12, <4>1, <4>2 DEF Pictures!Units
    <3>. QED  BY <1>1, <2>1, <3>1, <3>2, <3>3 DEF UnitsInv, AfterUnits
  <2>2. CASE uunit = LastUnit /\ upc' = "last check"
    <3>1. UnitsDone(LastUnit)'
      BY <1>1, <1>6, <2>2
    <3>. QED  BY <1>1, <1>5, <2>2, <3>1 DEF UnitsInv, AfterUnits
  <2>. QED  BY <1>1, <2>1, <2>2
<1>8. StepInv'
  BY <1>1 DEF StepInv, BeforeUnits, AfterUnits
<1>9. PagesInv'
  BY <1>1 DEF PagesInv
<1>. QED  BY <1>1, <1>7, <1>8, <1>9 DEF PictureInv

LEMMA PicturesStep ==
  ASSUME PictureInv, [Pictures!Next]_unitVars
  PROVE  PictureInv'
<1>1. PictureTypeInv'
  BY PicturesType DEF PictureInv
<1>2. CASE uresult' = "failed"
  BY <1>1, <1>2 DEF PictureInv
<1>3. CASE UNCHANGED unitVars /\ uresult' # "failed"
  <2>1. UNCHANGED <<ukind, udoc, uhidden, uactive, urequests, ufailures, upc, uunit,
                    ucaptured, uresult>>
    BY <1>3 DEF unitVars
  <2>2. uresult # "failed" => StepInv' /\ ReportInv'
    BY <2>1 DEF PictureInv, StepInv, ReportInv
  <2>. QED  BY <1>1, <1>3, <2>1, <2>2, PagesKeep, UnitsKeep DEF PictureInv
<1>4. CASE Pictures!Next /\ uresult' # "failed"
  <2>0. uresult = "running"
    BY <1>4 DEF Pictures!Next, Pictures!Step, Pictures!Request, Pictures!Failure,
      Pictures!Listening, Pictures!Load, Pictures!Resources, Pictures!CheckRequests,
      Pictures!Prepare, Pictures!Check, Pictures!Discover, Pictures!Hide, Pictures!Isolate,
      Pictures!Extract, Pictures!ExtractFails, Pictures!Screenshot, Pictures!LastCheck,
      Pictures!LookForScripts, Pictures!CloseContext, Pictures!CloseBrowser,
      Pictures!Judge, Pictures!At
  <2>1. CASE Pictures!Screenshot
    <3>1. ukind \in {"pages", "units"}
      <4>1. upc = "shoot"
        BY <2>1 DEF Pictures!Screenshot, Pictures!At
      <4>. QED  BY <2>0, <4>1 DEF PictureInv, StepInv, AfterUnits, PictureTypeInv
    <3>. QED  BY <1>4, <2>0, <2>1, <3>1, PagesShoot, UnitsShoot
  <2>2. CASE Pictures!Extract
    BY <2>0, <2>2, PicturesExtract
  <2>3. CASE Pictures!Hide \/ Pictures!Isolate
    BY <1>4, <2>0, <2>3, PicturesHide
  <2>4. CASE Pictures!ExtractFails
    BY <1>4, <2>4 DEF Pictures!ExtractFails, Pictures!Fail
  <2>5. CASE \/ Pictures!Load \/ Pictures!Resources \/ Pictures!CheckRequests
             \/ Pictures!Prepare \/ Pictures!Check \/ Pictures!Discover
             \/ Pictures!LookForScripts
    BY <1>4, <2>0, <2>5, PicturesBefore
  <2>6. CASE \/ Pictures!LastCheck \/ Pictures!CloseContext \/ Pictures!CloseBrowser
             \/ Pictures!Judge \/ Pictures!Request \/ Pictures!Failure
    BY <1>4, <2>0, <2>6, PicturesAfter
  <2>. QED  BY <1>4, <2>1, <2>2, <2>3, <2>4, <2>5, <2>6 DEF Pictures!Next, Pictures!Step
<1>. QED  BY <1>2, <1>3, <1>4

LEMMA PicturesInit == Pictures!Init => PictureInv
BY UnitsType DEF Pictures!Init, PictureInv, PictureTypeInv, StepInv, ReportInv, PagesInv,
  UnitsInv, BeforeUnits, AfterUnits

(* An impostor and a unit that is not shown are found out by their pictures.*)
LEMMA PicturesTrue == PictureInv => Pictures!PicturesAreTrue
<1>. SUFFICES ASSUME PictureInv, uresult = "ok" PROVE Pictures!PicturesAreTrue
  BY DEF Pictures!PicturesAreTrue
<1>1. /\ upc = "judge" /\ upc \in AfterUnits /\ PagesInv /\ UnitsInv
      /\ ~urequests /\ ufailures # "before"
      /\ udoc.impostor \in 0..LastUnit /\ ucaptured \in Seq(PictureRecords)
  BY DEF PictureInv, PictureTypeInv, ReportInv, AfterUnits, Pictures!Documents
<1>2. Pictures!Units = 1..LastUnit /\ LastUnit \in Nat
  BY UnitsType
<1>3. ASSUME ukind = "units" PROVE ucaptured = [u \in Pictures!Units |-> Pictures!Alone(u)]
  <2>1. UnitsDone(LastUnit) /\ Len(ucaptured) = LastUnit
    BY <1>1, <1>3 DEF UnitsInv
  <2>2. udoc.impostor = 0
    <3>1. \A v \in 1..LastUnit : udoc.impostor # v
      BY <2>1 DEF UnitsDone
    <3>. QED  BY <1>1, <1>2, <3>1
  <2>3. \A v \in 1..LastUnit : ucaptured[v] = Pictures!Alone(v)
    BY <2>1, <2>2 DEF UnitsDone
  <2>4. ucaptured = [v \in 1..Len(ucaptured) |-> ucaptured[v]]
    BY <1>1
  <2>. QED  BY <1>2, <2>1, <2>3, <2>4
<1>4. ASSUME ukind = "pages" PROVE ucaptured = <<Pictures!Together>>
  <2>1. PagesDone(LastUnit)
    BY <1>1, <1>4 DEF PagesInv
  <2>2. udoc.impostor = 0
    <3>1. \A v \in 1..LastUnit : udoc.impostor # v
      BY <2>1 DEF PagesDone
    <3>. QED  BY <1>1, <1>2, <3>1
  <2>3. \A u \in Pictures!Units : Pictures!Found(u) = u
    BY <1>2, <2>2 DEF Pictures!Found
  <2>4. Pictures!Seen = Pictures!Units
    BY <1>2, <2>1 DEF PagesDone, Pictures!Seen
  <2>5. /\ [u \in Pictures!Units |-> Pictures!Found(u)] = [u \in Pictures!Units |-> u]
        /\ [v \in 1..LastUnit |-> <<v, Pictures!Seen>>]
             = [u \in Pictures!Units |-> <<u, Pictures!Units>>]
    BY <1>2, <2>3, <2>4
  <2>. QED  BY <2>1, <2>4, <2>5 DEF PagesDone, Pictures!Together
<1>. QED  BY <1>1, <1>3, <1>4 DEF Pictures!PicturesAreTrue

THEOREM HarnessPicturesAreTrue == HarnessSpec => []PicturesAreTrue
<1>1. HarnessInit => PictureInv
  BY PicturesInit DEF HarnessInit
<1>2. PictureInv /\ [HarnessNext]_<<part, vars, candidateVars, unitVars, scanVars, removalVars>>
        => PictureInv'
  <2>1. [HarnessNext]_<<part, vars, candidateVars, unitVars, scanVars, removalVars>>
          => [Pictures!Next]_unitVars
    BY DEF HarnessNext
  <2>. QED  BY <2>1, PicturesStep
<1>3. PictureInv => PicturesAreTrue
  BY PicturesTrue DEF PicturesAreTrue
<1>. QED  BY <1>1, <1>2, <1>3, PTL DEF HarnessSpec

-----------------------------------------------------------------------------
(* 3. The removal of a workspace (OwnedRemoval).                            *)

(* Removal.  What is in a tombstone when it was compared after others were  *)
(* kept out of it is what was meant; and the workspace is removed only when *)
(* the tombstone of the last file that was in it is empty.                  *)

RemovalSteps ==
  {"mkdir", "capture", "open", "scan", "seal", "recheck", "unlink", "put back", "give back",
   "restore", "rmdir", "rmdir after an error", "return", "raise"}

RemovalPlaces ==
  {Removal!Away, Removal!Gone} \cup {Removal!Place(l) : l \in Removal!Levels}
    \cup {Removal!Tombstone(l) : l \in Removal!Levels}

RemovalTypeInv ==
  /\ rat \in [Removal!Nodes -> RemovalPlaces]
  /\ rlevel \in Removal!Levels /\ rpc \in [Removal!Levels -> RemovalSteps]
  /\ DOMAIN rexpected = Removal!Levels /\ rexpected[1] = {"w"}
  /\ rremoval \in {"running", "done", "failed"}

(* Before anything is removed, and on the way to a success.                 *)
Beginning == {"mkdir", "capture", "open", "scan"}
Succeeding == Beginning \cup {"seal", "recheck", "unlink", "rmdir", "return"}

RemovalStepInv ==
  /\ rlevel = 2 => rpc[1] = "seal"
  /\ rpc[2] # "scan"
  /\ rpc[1] \in Beginning => rpc[2] = "mkdir"
  /\ rremoval = "done" => rlevel = 1 /\ rpc[1] = "return"
  /\ rremoval = "failed" => rlevel = 1

InTombstone(l) == Removal!There(Removal!Tombstone(l))
Removed == Removal!There(Removal!Gone)

MeantInv == \A l \in {1, 2} : rpc[l] = "unlink" => InTombstone(l) = rexpected[l]

EmptyInv ==
  /\ \A l \in {1, 2} : rpc[l] = "return" => InTombstone(l) = {}
  /\ rlevel = 1 /\ rpc[1] \in Succeeding => InTombstone(2) = {}

GoneInv ==
  /\ Removed \subseteq {"w"} \cup rexpected[2]
  /\ rpc[1] \in {"rmdir", "return"} => "w" \in Removed
  /\ rpc[1] \in Beginning => Removed = {}

RemovalInv == RemovalTypeInv /\ RemovalStepInv /\ MeantInv /\ EmptyInv /\ GoneInv

LEMMA RemovalPlacesDiffer ==
  /\ Removal!Levels = {1, 2}
  /\ \A l \in {1, 2} :
       /\ Removal!Tombstone(l) # Removal!Gone /\ Removal!Place(l) # Removal!Gone
       /\ Removal!Tombstone(l) # Removal!Away /\ Removal!Place(l) # Removal!Away
       /\ \A m \in {1, 2} : Removal!Place(l) # Removal!Tombstone(m)
  /\ Removal!Tombstone(1) # Removal!Tombstone(2) /\ Removal!Place(1) # Removal!Place(2)
  /\ Removal!Away # Removal!Gone
  /\ Removal!Away \in RemovalPlaces /\ Removal!Gone \in RemovalPlaces
  /\ \A l \in {1, 2} :
       Removal!Place(l) \in RemovalPlaces /\ Removal!Tombstone(l) \in RemovalPlaces
BY DEF Removal!Levels, Removal!Tombstone, Removal!Place, Removal!Gone, Removal!Away,
  RemovalPlaces

(* What a rename does to what is where.                                     *)
LEMMA RenameMoves ==
  ASSUME NEW from, NEW to, from # to, rat \in [Removal!Nodes -> RemovalPlaces],
         to \in RemovalPlaces, Removal!Rename(from, to)
  PROVE  /\ rat' \in [Removal!Nodes -> RemovalPlaces]
         /\ Removal!There(to)' = Removal!There(to) \cup Removal!There(from)
         /\ \A p : p # from /\ p # to => Removal!There(p)' = Removal!There(p)
         /\ Removal!There(from)' = {}
BY DEF Removal!Rename, Removal!There

(* A move by somebody else reaches nothing that is gone, no tombstone that  *)
(* is read-only, and brings nothing into one that is not the remover's.     *)
LEMMA MovesReach ==
  ASSUME RemovalInv, NEW n \in Removal!Nodes, Removal!Move(n)
  PROVE  RemovalInv'
<1>. USE RemovalPlacesDiffer
<1>1. /\ UNCHANGED <<rlevel, rpc, rexpected, rremoval>> /\ rremoval = "running"
      /\ \/ \E l \in {1, 2} :
              /\ \/ rat[n] = Removal!Place(l)
                 \/ rat[n] = Removal!Tombstone(l) /\ ~Removal!Sealed(l)
              /\ rat' = [rat EXCEPT ![n] = Removal!Away]
         \/ \E l \in {1, 2} : \E p \in {Removal!Place(l), Removal!Tombstone(l)} :
              /\ rat[n] = Removal!Away /\ rat' = [rat EXCEPT ![n] = p]
              /\ p = Removal!Tombstone(l) => Removal!Made(l) /\ ~Removal!Sealed(l)
  BY DEF Removal!Move, Removal!TakeAway, Removal!PutThere
<1>2. rat \in [Removal!Nodes -> RemovalPlaces]
  BY DEF RemovalInv, RemovalTypeInv
<1>3. /\ rat' \in [Removal!Nodes -> RemovalPlaces]
      /\ Removed' = Removed
      /\ \A l \in {1, 2} : /\ Removal!Sealed(l) => InTombstone(l)' = InTombstone(l)
                           /\ ~Removal!Made(l) => InTombstone(l)' \subseteq InTombstone(l)
  <2>1. ASSUME NEW l \in {1, 2}, rat' = [rat EXCEPT ![n] = Removal!Away],
               \/ rat[n] = Removal!Place(l)
               \/ rat[n] = Removal!Tombstone(l) /\ ~Removal!Sealed(l)
        PROVE  <1>3!1 /\ <1>3!2 /\ <1>3!3
    <3>1. rat' \in [Removal!Nodes -> RemovalPlaces] /\ Removed' = Removed
      BY <1>2, <2>1 DEF Removal!There, Removed
    <3>2. ASSUME NEW m \in {1, 2}
          PROVE  /\ InTombstone(m)' \subseteq InTombstone(m)
                 /\ m # l \/ rat[n] = Removal!Place(l) => InTombstone(m)' = InTombstone(m)
      BY <1>2, <2>1, <3>2 DEF Removal!There, InTombstone
    <3>. QED  BY <2>1, <3>1, <3>2
  <2>2. ASSUME NEW l \in {1, 2}, NEW p \in {Removal!Place(l), Removal!Tombstone(l)},
               rat[n] = Removal!Away, rat' = [rat EXCEPT ![n] = p],
               p = Removal!Tombstone(l) => Removal!Made(l) /\ ~Removal!Sealed(l)
        PROVE  <1>3!1 /\ <1>3!2 /\ <1>3!3
    <3>1. rat' \in [Removal!Nodes -> RemovalPlaces] /\ Removed' = Removed
      BY <1>2, <2>2 DEF Removal!There, Removed
    <3>2. ASSUME NEW m \in {1, 2}, p # Removal!Tombstone(m)
          PROVE  InTombstone(m)' = InTombstone(m)
      BY <1>2, <2>2, <3>2 DEF Removal!There, InTombstone
    <3>. QED  BY <2>2, <3>1, <3>2
  <2>. QED  BY <1>1, <2>1, <2>2
<1>4. RemovalTypeInv' /\ RemovalStepInv' /\ GoneInv'
  BY <1>1, <1>3 DEF RemovalInv, RemovalTypeInv, RemovalStepInv, GoneInv
<1>5. MeantInv'
  <2>1. \A l \in {1, 2} : rpc[l] = "unlink" => Removal!Sealed(l)
    BY DEF Removal!Sealed
  <2>. QED  BY <1>1, <1>3, <2>1 DEF RemovalInv, MeantInv
<1>6. EmptyInv'
  <2>1. /\ \A l \in {1, 2} : rpc[l] = "return" => ~Removal!Made(l)
        /\ rlevel = 1 => ~Removal!Made(2)
    BY DEF Removal!Made
  <2>2. \A l \in {1, 2} : rpc[l] = "return" => InTombstone(l)' = {}
    BY <1>3, <2>1 DEF RemovalInv, EmptyInv
  <2>3. rlevel = 1 /\ rpc[1] \in Succeeding => InTombstone(2)' = {}
    BY <1>3, <2>1 DEF RemovalInv, EmptyInv
  <2>. QED  BY <1>1, <2>2, <2>3 DEF EmptyInv
<1>. QED  BY <1>4, <1>5, <1>6 DEF RemovalInv

(* What a step at a level may do.                                           *)
StepOf(l, step) ==
  /\ rlevel = l /\ rremoval = "running" /\ UNCHANGED <<rlevel, rexpected, rremoval>>
  /\ step \in RemovalSteps \ {"mkdir"} /\ rpc' = [rpc EXCEPT ![l] = step]
  /\ rat' \in [Removal!Nodes -> RemovalPlaces]
  /\ \A m \in {1, 2} : m # l => InTombstone(m)' = InTombstone(m)
  /\ step \in Beginning => rpc[l] \in Beginning
  /\ step = "scan" => l = 1
  /\ step \in {"seal", "recheck", "unlink", "rmdir"} => rpc[l] \in Succeeding
  /\ step = "unlink" => InTombstone(l)' = rexpected[l]
  /\ step = "rmdir" => rpc[l] = "unlink"
  /\ Removed' = IF step = "rmdir" THEN Removed \cup rexpected[l] ELSE Removed
  /\ step = "return" => rpc[l] = "rmdir" /\ InTombstone(l)' = {}

LEMMA StepOfKeeps ==
  ASSUME RemovalInv, NEW l \in {1, 2}, NEW step, StepOf(l, step)
  PROVE  RemovalInv'
<1>1. /\ rpc \in [{1, 2} -> RemovalSteps] /\ rpc'[l] = step
      /\ \A m \in {1, 2} : m # l => rpc'[m] = rpc[m]
      /\ rpc' \in [{1, 2} -> RemovalSteps]
  BY RemovalPlacesDiffer DEF RemovalInv, RemovalTypeInv, StepOf
<1>2. RemovalTypeInv'
  BY <1>1, RemovalPlacesDiffer DEF RemovalInv, RemovalTypeInv, StepOf
<1>3. l = 2 => rpc[1] = "seal"
  BY DEF RemovalInv, RemovalStepInv, StepOf
<1>4. RemovalStepInv'
  BY <1>1, <1>3 DEF RemovalInv, RemovalStepInv, StepOf, Beginning
<1>5. MeantInv'
  <2>. SUFFICES ASSUME NEW m \in {1, 2}, rpc'[m] = "unlink"
                PROVE  InTombstone(m)' = rexpected'[m]
    BY DEF MeantInv
  <2>. QED  BY <1>1 DEF RemovalInv, MeantInv, StepOf
<1>6. EmptyInv'
  <2>1. ASSUME NEW m \in {1, 2}, rpc'[m] = "return"
        PROVE  InTombstone(m)' = {}
    BY <1>1, <2>1 DEF RemovalInv, EmptyInv, StepOf
  <2>2. ASSUME l = 1, step \in Succeeding
        PROVE  InTombstone(2)' = {}
    <3>1. rpc[1] \in Succeeding
      BY <2>2 DEF StepOf, Succeeding, Beginning
    <3>. QED  BY <2>2, <3>1 DEF RemovalInv, EmptyInv, StepOf
  <2>3. rlevel' = l
    BY DEF StepOf
  <2>. QED  BY <1>1, <2>1, <2>2, <2>3 DEF EmptyInv
<1>7. GoneInv'
  <2>1. rexpected' = rexpected /\ rexpected[1] = {"w"}
    BY DEF RemovalInv, RemovalTypeInv, StepOf
  <2>2. Removed \subseteq Removed' /\ Removed' \subseteq {"w"} \cup rexpected'[2]
    BY <2>1 DEF RemovalInv, GoneInv, StepOf
  <2>3. ASSUME rpc'[1] \in {"rmdir", "return"}
        PROVE  "w" \in Removed'
    BY <1>1, <1>3, <2>1, <2>2, <2>3 DEF RemovalInv, GoneInv, StepOf
  <2>4. ASSUME rpc'[1] \in Beginning
        PROVE  Removed' = {}
    BY <1>1, <1>3, <2>4 DEF RemovalInv, GoneInv, StepOf, Beginning
  <2>. QED  BY <2>2, <2>3, <2>4 DEF GoneInv
<1>. QED  BY <1>2, <1>4, <1>5, <1>6, <1>7 DEF RemovalInv

(* The steps that move nothing.                                             *)
LEMMA RemoverWaits ==
  ASSUME RemovalInv,
         \/ Removal!MakeTombstone \/ Removal!Open \/ Removal!Seal \/ Removal!Recheck
         \/ Removal!RemoveTombstone \/ Removal!Interrupt
  PROVE  RemovalInv'
<1>. USE RemovalPlacesDiffer
<1>. PICK l \in {1, 2} : rlevel = l
  BY DEF RemovalInv, RemovalTypeInv
<1>1. /\ rremoval = "running" /\ UNCHANGED <<rat, rlevel, rexpected, rremoval>>
      /\ rat \in [Removal!Nodes -> RemovalPlaces]
  BY DEF Removal!MakeTombstone, Removal!Open, Removal!Seal, Removal!Recheck,
    Removal!RemoveTombstone, Removal!Interrupt, Removal!On, RemovalInv, RemovalTypeInv
<1>2. Removed' = Removed /\ \A m \in {1, 2} : InTombstone(m)' = InTombstone(m)
  BY <1>1 DEF Removed, InTombstone, Removal!There, Removal!Gone, Removal!Tombstone
<1>3. ASSUME NEW step \in RemovalSteps \ {"mkdir"}, rpc' = [rpc EXCEPT ![l] = step],
             step \in Beginning => rpc[l] \in Beginning,
             step = "scan" => l = 1,
             step \in {"seal", "recheck", "unlink"} => rpc[l] \in Succeeding,
             step = "unlink" => InTombstone(l) = rexpected[l],
             step # "rmdir",
             step = "return" => rpc[l] = "rmdir" /\ InTombstone(l) = {}
      PROVE  RemovalInv'
  BY <1>1, <1>2, <1>3, StepOfKeeps DEF StepOf
<1>4. CASE Removal!MakeTombstone
  <2>1. rpc[l] = "mkdir"
    BY <1>4 DEF Removal!MakeTombstone, Removal!On
  <2>2. PICK step \in {"capture", "raise"} : rpc' = [rpc EXCEPT ![l] = step]
    BY <1>4 DEF Removal!MakeTombstone, Removal!Goto
  <2>. QED  BY <1>3, <2>1, <2>2 DEF RemovalSteps, Beginning
<1>5. CASE Removal!Open
  <2>1. rpc[l] = "open"
    BY <1>5 DEF Removal!Open, Removal!On
  <2>2. PICK step \in {"give back", "scan", "seal", "put back"} :
          rpc' = [rpc EXCEPT ![l] = step] /\ (step = "scan" => l = 1)
    BY <1>5 DEF Removal!Open, Removal!Goto
  <2>. QED  BY <1>3, <2>1, <2>2 DEF RemovalSteps, Beginning, Succeeding
<1>6. CASE Removal!Seal
  <2>1. rpc[l] = "seal"
    BY <1>6 DEF Removal!Seal, Removal!On
  <2>2. PICK step \in {"recheck", "restore"} : rpc' = [rpc EXCEPT ![l] = step]
    BY <1>6 DEF Removal!Seal, Removal!Goto
  <2>. QED  BY <1>3, <2>1, <2>2 DEF RemovalSteps, Beginning, Succeeding
<1>7. CASE Removal!Recheck
  <2>1. rpc[l] = "recheck"
    BY <1>7 DEF Removal!Recheck, Removal!On
  <2>2. PICK step \in {"unlink", "rmdir after an error"} :
          /\ rpc' = [rpc EXCEPT ![l] = step]
          /\ step = "unlink" => InTombstone(l) = rexpected[l]
    BY <1>7 DEF Removal!Recheck, Removal!Goto, Removal!Meant, InTombstone
  <2>. QED  BY <1>3, <2>1, <2>2 DEF RemovalSteps, Beginning, Succeeding
<1>8. CASE Removal!RemoveTombstone
  <2>1. PICK step \in {"return", "raise"} :
          /\ rpc' = [rpc EXCEPT ![l] = step]
          /\ step = "return" => rpc[l] = "rmdir" /\ InTombstone(l) = {}
    BY <1>8 DEF Removal!RemoveTombstone, Removal!On, Removal!Goto, InTombstone
  <2>. QED  BY <1>3, <2>1 DEF RemovalSteps, Beginning
<1>9. CASE Removal!Interrupt
  <2>1. PICK step \in {"raise", "rmdir after an error"} : rpc' = [rpc EXCEPT ![l] = step]
    BY <1>9 DEF Removal!Interrupt, Removal!Goto
  <2>. QED  BY <1>3, <2>1 DEF RemovalSteps, Beginning
<1>. QED  BY <1>4, <1>5, <1>6, <1>7, <1>8, <1>9

(* The steps between the levels.                                            *)
LEMMA RemoverTurns ==
  ASSUME RemovalInv, Removal!Scan \/ Removal!Return
  PROVE  RemovalInv'
<1>. USE RemovalPlacesDiffer
<1>1. /\ UNCHANGED rat /\ rremoval = "running"
      /\ rpc \in [{1, 2} -> RemovalSteps] /\ rlevel \in {1, 2}
  BY DEF Removal!Scan, Removal!Return, Removal!On, RemovalInv, RemovalTypeInv
<1>2. Removed' = Removed /\ \A m \in {1, 2} : InTombstone(m)' = InTombstone(m)
  BY <1>1 DEF Removed, InTombstone, Removal!There, Removal!Gone, Removal!Tombstone
<1>3. CASE Removal!Scan
  <2>1. rpc[rlevel] = "scan"
    BY <1>3 DEF Removal!Scan, Removal!On
  <2>2. rlevel = 1 /\ rpc[1] = "scan" /\ rpc[2] = "mkdir"
    BY <1>1, <2>1 DEF RemovalInv, RemovalStepInv, Beginning
  <2>3. Removed = {} /\ InTombstone(2) = {}
    BY <2>2 DEF RemovalInv, GoneInv, EmptyInv, Beginning, Succeeding
  <2>4. /\ rremoval' = rremoval
        /\ \E step \in {"seal", "restore"} : rpc' = [rpc EXCEPT ![1] = step]
        /\ \/ UNCHANGED <<rlevel, rexpected>>
           \/ /\ rlevel' = 2 /\ rexpected' = [rexpected EXCEPT ![2] = Removal!There(Removal!Place(2))]
              /\ rpc' = [rpc EXCEPT ![1] = "seal"]
    BY <1>3, <2>2 DEF Removal!Scan, Removal!Goto
  <2>5. /\ rpc' \in [{1, 2} -> RemovalSteps] /\ rpc'[2] = "mkdir"
        /\ rpc'[1] \in {"seal", "restore"} /\ (rlevel' = 2 => rpc'[1] = "seal")
        /\ rlevel' \in {1, 2}
    BY <1>1, <2>2, <2>4 DEF RemovalSteps
  <2>6. RemovalTypeInv'
    BY <1>1, <2>4, <2>5 DEF RemovalInv, RemovalTypeInv
  <2>7. RemovalStepInv'
    BY <1>1, <2>4, <2>5 DEF RemovalInv, RemovalStepInv, Beginning
  <2>8. MeantInv' /\ EmptyInv' /\ GoneInv'
    BY <1>2, <2>3, <2>5 DEF MeantInv, EmptyInv, GoneInv, Beginning
  <2>. QED  BY <2>6, <2>7, <2>8 DEF RemovalInv
<1>4. CASE Removal!Return
  <2>1. rpc[rlevel] \in {"return", "raise"} /\ rexpected' = rexpected
    BY <1>4 DEF Removal!Return, Removal!On
  <2>2. CASE rlevel = 2
    <3>1. rpc[1] = "seal"
      BY <2>2 DEF RemovalInv, RemovalStepInv
    <3>2. /\ rlevel' = 1 /\ rremoval' = rremoval
          /\ \/ rpc[2] = "raise" /\ rpc' = [rpc EXCEPT ![1] = "restore"]
             \/ rpc[2] = "return" /\ rpc' = rpc
      BY <1>4, <2>1, <2>2 DEF Removal!Return, Removal!On
    <3>3. /\ rpc' \in [{1, 2} -> RemovalSteps] /\ rpc'[2] = rpc[2]
          /\ rpc'[1] \in {"seal", "restore"} /\ (rpc'[1] = "seal" => rpc[2] = "return")
          /\ rpc[2] \in {"return", "raise"}
      BY <1>1, <3>1, <3>2 DEF RemovalSteps
    <3>4. RemovalTypeInv'
      BY <1>1, <2>1, <3>2, <3>3 DEF RemovalInv, RemovalTypeInv
    <3>5. RemovalStepInv'
      BY <1>1, <3>2, <3>3 DEF RemovalInv, RemovalStepInv, Beginning
    <3>6. MeantInv' /\ GoneInv'
      BY <1>2, <2>1, <3>3 DEF RemovalInv, MeantInv, GoneInv, Beginning
    <3>7. EmptyInv'
      BY <1>2, <3>3 DEF RemovalInv, EmptyInv, Succeeding, Beginning
    <3>. QED  BY <3>4, <3>5, <3>6, <3>7 DEF RemovalInv
  <2>3. CASE rlevel = 1
    <3>1. /\ UNCHANGED <<rlevel, rpc, rexpected>> /\ rpc[1] \in {"return", "raise"}
          /\ rremoval' = IF rpc[1] = "raise" THEN "failed" ELSE "done"
      BY <1>4, <2>1, <2>3 DEF Removal!Return, Removal!On
    <3>2. RemovalTypeInv' /\ RemovalStepInv'
      BY <1>1, <2>3, <3>1 DEF RemovalInv, RemovalTypeInv, RemovalStepInv
    <3>3. MeantInv' /\ GoneInv' /\ EmptyInv'
      BY <1>2, <3>1 DEF RemovalInv, MeantInv, GoneInv, EmptyInv
    <3>. QED  BY <3>2, <3>3 DEF RemovalInv
  <2>. QED  BY <1>1, <2>2, <2>3
<1>. QED  BY <1>3, <1>4

(* The entry of a name is put into its tombstone, back, or is removed.      *)
LEMMA RemoverMoves ==
  ASSUME RemovalInv,
         Removal!Capture \/ Removal!PutBack \/ Removal!Restore \/ Removal!Remove
  PROVE  RemovalInv'
<1>. USE RemovalPlacesDiffer
<1>. PICK l \in {1, 2} : rlevel = l
  BY DEF RemovalInv, RemovalTypeInv
<1>1. /\ rremoval = "running" /\ UNCHANGED <<rlevel, rexpected, rremoval>>
      /\ rat \in [Removal!Nodes -> RemovalPlaces]
  BY DEF Removal!Capture, Removal!PutBack, Removal!Restore, Removal!Remove, Removal!On,
    RemovalInv, RemovalTypeInv
<1>2. CASE Removal!Capture \/ Removal!PutBack \/ Removal!Restore
  <2>1. /\ \/ UNCHANGED rat
           \/ Removal!Rename(Removal!Place(l), Removal!Tombstone(l))
           \/ Removal!Rename(Removal!Tombstone(l), Removal!Place(l))
        /\ \E step \in {"open", "put back", "restore", "rmdir after an error"} :
             rpc' = [rpc EXCEPT ![l] = step] /\ (step = "open" => rpc[l] = "capture")
    BY <1>2 DEF Removal!Capture, Removal!PutBack, Removal!Restore, Removal!On, Removal!Goto
  <2>2. /\ rat' \in [Removal!Nodes -> RemovalPlaces] /\ Removed' = Removed
        /\ \A m \in {1, 2} : m # l => InTombstone(m)' = InTombstone(m)
    <3>1. CASE UNCHANGED rat
      BY <1>1, <3>1 DEF Removal!There, Removed, InTombstone, Removal!Gone, Removal!Tombstone
    <3>2. CASE Removal!Rename(Removal!Place(l), Removal!Tombstone(l))
      <4>1. /\ rat' \in [Removal!Nodes -> RemovalPlaces]
            /\ \A p : p # Removal!Place(l) /\ p # Removal!Tombstone(l)
                       => Removal!There(p)' = Removal!There(p)
        BY <1>1, <3>2, RenameMoves
      <4>. QED  BY <4>1 DEF Removed, InTombstone
    <3>3. CASE Removal!Rename(Removal!Tombstone(l), Removal!Place(l))
      BY <1>1, <3>3, RenameMoves DEF Removed, InTombstone, Removal!Gone, Removal!Tombstone
    <3>. QED  BY <2>1, <3>1, <3>2, <3>3
  <2>3. PICK step \in {"open", "put back", "restore", "rmdir after an error"} :
          rpc' = [rpc EXCEPT ![l] = step] /\ (step = "open" => rpc[l] = "capture")
    BY <2>1
  <2>4. StepOf(l, step)
    BY <1>1, <2>2, <2>3 DEF StepOf, RemovalSteps, Beginning
  <2>. QED  BY <2>4, StepOfKeeps
<1>3. CASE Removal!Remove
  <2>1. rpc[l] = "unlink"
    BY <1>3 DEF Removal!Remove, Removal!On
  <2>2. InTombstone(l) = rexpected[l]
    BY <2>1 DEF RemovalInv, MeantInv
  <2>3. CASE rpc' = [rpc EXCEPT ![l] = "restore"] /\ UNCHANGED rat
    <3>1. Removed' = Removed /\ \A m \in {1, 2} : InTombstone(m)' = InTombstone(m)
      BY <2>3 DEF Removed, InTombstone, Removal!There, Removal!Gone, Removal!Tombstone
    <3>2. StepOf(l, "restore")
      BY <1>1, <2>3, <3>1 DEF StepOf, RemovalSteps, Beginning
    <3>. QED  BY <3>2, StepOfKeeps
  <2>4. CASE /\ rpc' = [rpc EXCEPT ![l] = "rmdir"]
             /\ Removal!Rename(Removal!Tombstone(l), Removal!Gone)
    <3>1. /\ rat' \in [Removal!Nodes -> RemovalPlaces]
          /\ Removed' = Removed \cup rexpected[l]
          /\ \A m \in {1, 2} : m # l => InTombstone(m)' = InTombstone(m)
      BY <1>1, <2>2, <2>4, RenameMoves DEF Removed, InTombstone, Removal!Gone, Removal!Tombstone
    <3>2. StepOf(l, "rmdir")
      BY <1>1, <2>1, <2>4, <3>1 DEF StepOf, RemovalSteps, Beginning, Succeeding
    <3>. QED  BY <3>2, StepOfKeeps
  <2>. QED  BY <1>3, <2>3, <2>4 DEF Removal!Remove, Removal!Goto
<1>. QED  BY <1>2, <1>3

LEMMA RemovalInit == Removal!Init => RemovalInv
BY RemovalPlacesDiffer DEF Removal!Init, Removal!There, Removal!Nodes, RemovalInv,
  RemovalTypeInv, RemovalStepInv, MeantInv, EmptyInv, GoneInv, RemovalSteps, Removed,
  InTombstone, Beginning, Succeeding

LEMMA RemovalOwned == RemovalInv => Removal!OwnedOnly
BY RemovalPlacesDiffer DEF Removal!OwnedOnly, RemovalInv, RemovalStepInv, GoneInv, EmptyInv,
  Removed, InTombstone, Succeeding

(* Only the workspace that was made and what was in it when it was listed   *)
(* is removed; and a removal that succeeds has removed the workspace and    *)
(* leaves nothing in a tombstone.                                           *)
THEOREM HarnessOwnedOnly == HarnessSpec => []OwnedOnly
<1>1. HarnessInit => RemovalInv
  BY RemovalInit DEF HarnessInit
<1>2. RemovalInv /\ [HarnessNext]_<<part, vars, candidateVars, unitVars, scanVars, removalVars>>
        => RemovalInv'
  <2>. SUFFICES ASSUME RemovalInv, Removal!Next \/ UNCHANGED removalVars
                PROVE  RemovalInv'
    BY DEF HarnessNext
  <2>1. CASE UNCHANGED removalVars
    BY <2>1 DEF removalVars, RemovalInv, RemovalTypeInv, RemovalStepInv, MeantInv, EmptyInv,
      GoneInv, Removed, InTombstone, Removal!There
  <2>2. CASE Removal!Next
    BY <2>2, MovesReach, RemoverWaits, RemoverTurns, RemoverMoves DEF Removal!Next
  <2>. QED  BY <2>1, <2>2
<1>3. RemovalInv => OwnedOnly
  BY RemovalOwned DEF OwnedOnly
<1>. QED  BY <1>1, <1>2, <1>3, PTL DEF HarnessSpec

-----------------------------------------------------------------------------
(* 4. The capture of a candidate: what a READY manifest rests on is what    *)
(* was attested, for any sources and any number of replacements.            *)

(* The sources of the corpus, in some order.                                *)
N == Cardinality(Sources)

LEMMA SameCardinality == Candidate!Cardinality(Sources) = Cardinality(Sources)
BY DEF Candidate!Cardinality, Cardinality

LEMMA SourcesInOrder ==
  /\ N \in Nat /\ Candidate!SourceSeq \in [1..N -> Sources]
  /\ Len(Candidate!SourceSeq) = N
  /\ \A s \in Sources : \E i \in 1..N : Candidate!SourceSeq[i] = s
<1>. DEFINE q == Candidate!SourceSeq
<1>1. N \in Nat /\ ExistsBijection(1..N, Sources)
  BY HarnessAssumption, FS_CardinalityType DEF N
<1>2. \E f \in [1..N -> Sources] : IsInjective(f)
  BY <1>1 DEF ExistsBijection, Bijection, Injection
<1>3. q = CHOOSE f \in [1..N -> Sources] : IsInjective(f)
  BY SameCardinality DEF Candidate!SourceSeq, Candidate!SetToSeq, Candidate!IsInjective,
    IsInjective, N
<1>4. q \in [1..N -> Sources] /\ IsInjective(q)
  BY <1>2, <1>3
<1>5. q \in Injection(1..N, Sources)
  BY <1>4 DEF Injection
<1>6. Cardinality(1..N) = N
  BY <1>1, FS_Interval
<1>7. q \in Surjection(1..N, Sources)
  BY <1>5, <1>6, HarnessAssumption, FS_Injection DEF N
<1>8. \A s \in Sources : \E i \in 1..N : q[i] = s
  BY <1>7 DEF Surjection
<1>9. Len(q) = N
  BY <1>1, <1>4
<1>. QED  BY <1>1, <1>4, <1>8, <1>9

StepNames == {"hash", "stage", "convert", "confirm", "browse", "measure", "shoot"}

LEMMA IsSeq ==
  ASSUME NEW S, NEW n \in Nat, NEW f, f \in [1..n -> S]
  PROVE  f \in Seq(S) /\ Len(f) = n
OBVIOUS

(* One clean run: seven steps for each source.                              *)
LEMMA CleanRunSteps ==
  ASSUME NEW r
  PROVE  /\ Candidate!CleanRun(r) \in Seq(StepNames \X {r} \X Sources)
         /\ Len(Candidate!CleanRun(r)) = 7 * N
         /\ Candidate!CleanRun(r) \in [1..(7 * N) -> StepNames \X {r} \X Sources]
         /\ \A i \in 1..(7 * N) :
              LET t == Candidate!CleanRun(r) IN
              /\ t[i] = <<Candidate!Steps[((i - 1) % 7) + 1], r,
                          Candidate!SourceSeq[((i - 1) \div 7) + 1]>>
              /\ t[i] \in StepNames \X {r} \X Sources
              /\ ((i - 1) % 7) + 1 \in 1..7 /\ ((i - 1) \div 7) + 1 \in 1..N
<1>. DEFINE t == Candidate!CleanRun(r)
            step(i) == ((i - 1) % 7) + 1
            place(i) == ((i - 1) \div 7) + 1
<1>1. N \in Nat /\ Len(Candidate!SourceSeq) = N /\ 7 * N \in Nat
      /\ Candidate!SourceSeq \in [1..N -> Sources]
  BY SourcesInOrder
<1>2. Len(Candidate!Steps) = 7
  BY DEF Candidate!Steps
<1>3. t = [i \in 1..(7 * N) |-> <<Candidate!Steps[step(i)], r, Candidate!SourceSeq[place(i)]>>]
  BY <1>1, <1>2 DEF Candidate!CleanRun
<1>4. \A i \in 1..(7 * N) : step(i) \in 1..7 /\ place(i) \in 1..N
  BY <1>1
<1>. HIDE DEF step, place
<1>5. \A j \in 1..7 : Candidate!Steps[j] \in StepNames
  <2>. SUFFICES ASSUME NEW j \in 1..7 PROVE Candidate!Steps[j] \in StepNames
    OBVIOUS
  <2>1. j \in {1, 2, 3, 4, 5, 6, 7}
    OBVIOUS
  <2>. QED  BY <2>1 DEF Candidate!Steps, StepNames
<1>6. t \in [1..(7 * N) -> StepNames \X {r} \X Sources]
  <2>. SUFFICES ASSUME NEW i \in 1..(7 * N)
                PROVE  <<Candidate!Steps[step(i)], r, Candidate!SourceSeq[place(i)]>>
                         \in StepNames \X {r} \X Sources
    BY <1>3
  <2>. QED  BY <1>1, <1>4, <1>5
<1>. HIDE DEF t
<1>8. t \in [1..(7 * N) -> StepNames \X {r} \X Sources] /\ \A i \in 1..(7 * N) : t[i] \in StepNames \X {r} \X Sources
  BY <1>6
<1>7. t \in Seq(StepNames \X {r} \X Sources) /\ Len(t) = 7 * N
  BY <1>1, <1>6
<1>. QED  BY <1>3, <1>4, <1>7, <1>8 DEF t, step, place

(* Capture of a candidate: what the order of its stages means for every     *)
(* rest of them.                                                            *)

WholeNames ==
  {"enter", "resolve", "compare profiles", "probe", "list", "attest", "record", "isolation",
   "copy", "install", "seal", "validate", "recheck", "relist", "security", "compare",
   "write", "accept", "publish"}
Whole == {Candidate!Stage(n) : n \in WholeNames}
Parts == StepNames \X {1, 2} \X Sources
Stages == Whole \cup Parts

Rank(x) ==
  CASE x[1] = "enter" -> 1
    [] x[1] \in {"resolve", "compare profiles", "probe"} -> 2
    [] x[1] = "list" -> 3
    [] x[1] = "attest" -> 4
    [] x[1] \in {"record", "isolation", "copy", "install"} -> 5
    [] x[1] = "seal" -> 6
    [] x[1] = "validate" -> 7
    [] x[1] \in StepNames \cup {"relist", "security"} -> 8
    [] x[1] = "compare" -> 9
    [] x[1] = "write" -> 10
    [] x[1] = "accept" -> 11
    [] x[1] = "publish" -> 12
    [] OTHER -> 0

In(x, t) == \E i \in DOMAIN t : t[i] = x

(* Stages are in their order, and those of rank 0 anywhere.                 *)
Precedes(x, y) == Rank(x) < Rank(y) \/ Rank(x) = 0 \/ Rank(y) = 0
                    \/ (Rank(x) = Rank(y) /\ Rank(x) \in {2, 5, 8})
Ordered(t) == \A i, j \in DOMAIN t : i < j => Precedes(t[i], t[j])

(* A conversion is confirmed, and then its result is looked at.             *)
ThreeInARow(t) ==
  /\ \A i \in DOMAIN t : t[i][1] = "convert" =>
       /\ i + 1 \in DOMAIN t /\ t[i + 1] = <<"confirm", t[i][2], t[i][3]>>
       /\ i + 2 \in DOMAIN t /\ t[i + 2] = <<"browse", t[i][2], t[i][3]>>
  /\ \A i \in DOMAIN t : t[i][1] = "confirm" /\ i > 1 =>
       t[i - 1] = <<"convert", t[i][2], t[i][3]>>
  /\ \A i \in DOMAIN t : t[i][1] = "browse" /\ i > 1 =>
       t[i - 1] = <<"confirm", t[i][2], t[i][3]>>

(* What rests on something else comes after it ...                         *)
Milestones ==
  {Candidate!Stage(n) : n \in {"attest", "seal", "relist", "write", "accept"}}
Follows(t) ==
  \A i \in DOMAIN t : \A x \in Milestones :
    0 < Rank(t[i]) /\ Rank(t[i]) < Rank(x) => \E j \in DOMAIN t : i < j /\ t[j] = x

(* ... a capture without a sandbox only leaves out what is about it ...     *)
Entering(t) ==
  \A i \in DOMAIN t : t[i][1] = "enter" =>
    \A k \in 1..3 : i + k \in DOMAIN t /\ Rank(t[i + k]) = 2

(* ... and what is published is only checked once more.                     *)
PublishIsLast(t) ==
  \A i \in DOMAIN t : t[i][1] = "publish" =>
    Len(t) = i + 1 /\ t[i + 1] = Candidate!Stage("recheck")

Good(t) ==
  /\ t \in Seq(Stages) /\ Ordered(t) /\ ThreeInARow(t)
  /\ Follows(t) /\ Entering(t) /\ PublishIsLast(t)

LEMMA StageFacts ==
  /\ \A x \in Parts : /\ x[1] \in StepNames /\ x[2] \in {1, 2} /\ x[3] \in Sources
                      /\ Rank(x) = 8 /\ x = <<x[1], x[2], x[3]>>
  /\ \A x \in Whole : x[1] \in WholeNames /\ x = Candidate!Stage(x[1])
  /\ \A n \in WholeNames : Candidate!Stage(n) \in Whole /\ Candidate!Stage(n)[1] = n
  /\ \A x : Rank(x) \in 0..12
<1>1. \A x \in Parts : /\ x[1] \in StepNames /\ x[2] \in {1, 2} /\ x[3] \in Sources
                       /\ Rank(x) = 8 /\ x = <<x[1], x[2], x[3]>>
  <2>. SUFFICES ASSUME NEW x \in Parts
                PROVE  /\ x[1] \in StepNames /\ x[2] \in {1, 2} /\ x[3] \in Sources
                       /\ Rank(x) = 8 /\ x = <<x[1], x[2], x[3]>>
    OBVIOUS
  <2>1. x[1] \in StepNames /\ x[2] \in {1, 2} /\ x[3] \in Sources /\ x = <<x[1], x[2], x[3]>>
    BY DEF Parts
  <2>2. \A n \in StepNames :
          n \notin {"enter", "resolve", "compare profiles", "probe", "list", "attest", "record",
                   "isolation", "copy", "install", "seal", "validate"}
    BY DEF StepNames
  <2>3. Rank(x) = 8
    BY <2>1, <2>2 DEF Rank, StepNames
  <2>. QED  BY <2>1, <2>3
<1>2. \A n \in WholeNames : Candidate!Stage(n) \in Whole /\ Candidate!Stage(n)[1] = n
  BY DEF Whole, Candidate!Stage
<1>3. \A x \in Whole : x[1] \in WholeNames /\ x = Candidate!Stage(x[1])
  BY DEF Whole, Candidate!Stage
<1>4. \A x : Rank(x) \in 0..12
  BY DEF Rank
<1>. QED  BY <1>1, <1>2, <1>3, <1>4

(* A rest of good stages is good.                                           *)
LEMMA GoodRest ==
  ASSUME NEW t, Good(t), NEW k \in Nat, k >= 1
  PROVE  Good(SubSeq(t, k, Len(t)))
<1>. DEFINE u == SubSeq(t, k, Len(t))
            d == k - 1
<1>1. t \in Seq(Stages) /\ Len(t) \in Nat /\ DOMAIN t = 1..Len(t)
  BY DEF Good
<1>2. CASE k > Len(t)
  <2>1. u = <<>>
    BY <1>1, <1>2, SubSeqEmpty
  <2>2. u \in Seq(Stages) /\ DOMAIN u = {}
    BY <2>1
  <2>. HIDE DEF u
  <2>3. \A i \in DOMAIN u : FALSE
    BY <2>2
  <2>4. Ordered(u) /\ Follows(u) /\ Entering(u) /\ PublishIsLast(u)
    BY <2>3 DEF Ordered, Follows, Entering, PublishIsLast
  <2>5. ThreeInARow(u)
    <3>1. DOMAIN u = {}
      BY <2>2
    <3>. QED  BY <3>1 DEF ThreeInARow
  <2>. QED  BY <2>2, <2>4, <2>5 DEF Good, u
<1>3. CASE k <= Len(t)
  <2>1. /\ u \in Seq(Stages) /\ Len(u) = Len(t) - d
        /\ \A i \in 1..Len(u) : u[i] = t[i + d]
    <3>1. \A i \in k..Len(t) : t[i] \in Stages
      BY <1>1, <1>3
    <3>2. /\ u \in Seq(Stages) /\ Len(u) = Len(t) - k + 1
          /\ \A i \in 1..(Len(t) - k + 1) : u[i] = t[k + i - 1]
      BY <1>1, <1>3, <3>1, SubSeqProperties
    <3>. QED  BY <1>1, <1>3, <3>2
  <2>. HIDE DEF u
  <2>2. DOMAIN u = 1..Len(u) /\ Len(u) \in Nat /\ d \in Nat /\ Len(u) + d = Len(t)
    BY <1>1, <1>3, <2>1
  <2>. HIDE DEF d
  <2>3. \A i \in 1..Len(u) : i + d \in DOMAIN t /\ u[i] = t[i + d]
    BY <1>1, <2>1, <2>2
  <2>4. Ordered(u)
    BY <2>2, <2>3 DEF Good, Ordered
  <2>5. ThreeInARow(u)
    <3>1. ASSUME NEW i \in DOMAIN u, u[i][1] = "convert"
          PROVE  /\ i + 1 \in DOMAIN u /\ u[i + 1] = <<"confirm", u[i][2], u[i][3]>>
                 /\ i + 2 \in DOMAIN u /\ u[i + 2] = <<"browse", u[i][2], u[i][3]>>
      <4>1. /\ (i + d) + 1 \in DOMAIN t /\ t[(i + d) + 1] = <<"confirm", u[i][2], u[i][3]>>
            /\ (i + d) + 2 \in DOMAIN t /\ t[(i + d) + 2] = <<"browse", u[i][2], u[i][3]>>
        BY SMTT(30), <2>2, <2>3, <3>1 DEF Good, ThreeInARow
      <4>2. i + 1 \in DOMAIN u /\ i + 2 \in DOMAIN u
        BY SMTT(30), <1>1, <2>2, <4>1
      <4>3. (i + 1) + d = (i + d) + 1 /\ (i + 2) + d = (i + d) + 2
        BY <2>2
      <4>4. u[i + 1] = t[(i + 1) + d] /\ u[i + 2] = t[(i + 2) + d]
        BY <2>2, <2>3, <4>2
      <4>5. u[i + 1] = t[(i + d) + 1] /\ u[i + 2] = t[(i + d) + 2]
        BY <4>3, <4>4
      <4>. QED  BY <4>1, <4>2, <4>5, Zenon
    <3>2. ASSUME NEW i \in DOMAIN u, i > 1, NEW n, NEW m, u[i][1] = n,
                 \A j \in DOMAIN t : t[j][1] = n /\ j > 1 => t[j - 1] = <<m, t[j][2], t[j][3]>>
          PROVE  u[i - 1] = <<m, u[i][2], u[i][3]>>
      <4>1. i \in Nat /\ i + d > 1 /\ i + d \in DOMAIN t /\ u[i] = t[i + d]
        BY <2>2, <2>3, <3>2
      <4>2. t[(i + d) - 1] = <<m, u[i][2], u[i][3]>>
        BY <3>2, <4>1
      <4>3. i - 1 \in 1..Len(u) /\ (i - 1) + d = (i + d) - 1
        BY <2>2, <3>2, <4>1
      <4>. QED  BY <2>3, <4>2, <4>3
    <3>3. \A i \in DOMAIN u : u[i][1] = "confirm" /\ i > 1 =>
            u[i - 1] = <<"convert", u[i][2], u[i][3]>>
      <4>1. \A j \in DOMAIN t : t[j][1] = "confirm" /\ j > 1 =>
              t[j - 1] = <<"convert", t[j][2], t[j][3]>>
        BY DEF Good, ThreeInARow
      <4>. QED  BY <3>2, <4>1
    <3>4. \A i \in DOMAIN u : u[i][1] = "browse" /\ i > 1 =>
            u[i - 1] = <<"confirm", u[i][2], u[i][3]>>
      <4>1. \A j \in DOMAIN t : t[j][1] = "browse" /\ j > 1 =>
              t[j - 1] = <<"confirm", t[j][2], t[j][3]>>
        BY DEF Good, ThreeInARow
      <4>. QED  BY <3>2, <4>1
    <3>. QED  BY <3>1, <3>3, <3>4 DEF ThreeInARow
  <2>6. Follows(u)
    <3>. SUFFICES ASSUME NEW i \in DOMAIN u, NEW x \in Milestones,
                         0 < Rank(u[i]), Rank(u[i]) < Rank(x)
                  PROVE  \E j \in DOMAIN u : i < j /\ u[j] = x
      BY DEF Follows
    <3>1. PICK j \in DOMAIN t : i + d < j /\ t[j] = x
      BY <2>2, <2>3 DEF Good, Follows
    <3>2. j - d \in DOMAIN u /\ i < j - d /\ (j - d) + d = j
      BY <1>1, <2>2, <3>1
    <3>. QED  BY <2>2, <2>3, <3>1, <3>2
  <2>8. Entering(u)
    <3>. SUFFICES ASSUME NEW i \in DOMAIN u, u[i][1] = "enter", NEW m \in 1..3
                  PROVE  i + m \in DOMAIN u /\ Rank(u[i + m]) = 2
      BY DEF Entering
    <3>1. (i + d) + m \in DOMAIN t /\ Rank(t[(i + d) + m]) = 2
      BY ZenonT(40), <2>2, <2>3 DEF Good, Entering
    <3>2. i + m \in 1..Len(u) /\ (i + m) + d = (i + d) + m
      BY SMTT(30), <1>1, <2>2, <3>1
    <3>. QED  BY <2>2, <2>3, <3>1, <3>2
  <2>7. PublishIsLast(u)
    <3>. SUFFICES ASSUME NEW i \in DOMAIN u, u[i][1] = "publish"
                  PROVE  Len(u) = i + 1 /\ u[i + 1] = Candidate!Stage("recheck")
      BY DEF PublishIsLast
    <3>1. Len(t) = (i + d) + 1 /\ t[(i + d) + 1] = Candidate!Stage("recheck")
      BY <2>2, <2>3 DEF Good, PublishIsLast
    <3>2. i + 1 \in 1..Len(u) /\ (i + 1) + d = (i + d) + 1 /\ Len(u) = i + 1
      BY <2>2, <3>1
    <3>3. u[i + 1] = t[(i + 1) + d]
      BY <2>3, <3>2
    <3>4. u[i + 1] = t[(i + d) + 1]
      BY <3>2, <3>3
    <3>. QED  BY <3>1, <3>2, <3>4, Zenon
  <2>. QED  BY <2>1, <2>4, <2>5, <2>6, <2>7, <2>8 DEF Good, u
<1>. QED  BY <1>1, <1>2, <1>3

(* The parts of the plan.                                                   *)
Begun(t) ==
  /\ t \in Seq(Stages) /\ Ordered(t) /\ ThreeInARow(t)
  /\ \A i \in DOMAIN t : Rank(t[i]) \in 0..8

Middle(t) ==
  /\ t \in Seq(Stages) /\ ThreeInARow(t)
  /\ \A i \in DOMAIN t : Rank(t[i]) \in {0, 8}
  /\ \A i \in DOMAIN t : t[i][1] \in {"confirm", "browse"} => i > 1

Ending ==
  <<Candidate!Stage("compare"), Candidate!Stage("write"), Candidate!Stage("recheck"),
    Candidate!Stage("accept"), Candidate!Stage("publish"), Candidate!Stage("recheck")>>

LEMMA Joined ==
  ASSUME NEW a \in Seq(Stages), NEW b \in Seq(Stages)
  PROVE  /\ a \o b \in Seq(Stages) /\ Len(a) \in Nat /\ Len(b) \in Nat
         /\ DOMAIN a = 1..Len(a) /\ DOMAIN b = 1..Len(b)
         /\ DOMAIN (a \o b) = 1..(Len(a) + Len(b)) /\ Len(a \o b) = Len(a) + Len(b)
         /\ \A i \in 1..(Len(a) + Len(b)) :
              (a \o b)[i] = IF i <= Len(a) THEN a[i] ELSE b[i - Len(a)]
BY ConcatProperties

LEMMA JoinRows ==
  ASSUME NEW a \in Seq(Stages), NEW b \in Seq(Stages), ThreeInARow(a), ThreeInARow(b),
         \A i \in DOMAIN b : b[i][1] \in {"confirm", "browse"} => i > 1
  PROVE  ThreeInARow(a \o b)
<1>. DEFINE c == a \o b
            n == Len(a)
<1>1. /\ c \in Seq(Stages) /\ Len(c) = n + Len(b) /\ n \in Nat /\ Len(b) \in Nat
      /\ DOMAIN a = 1..n /\ DOMAIN b = 1..Len(b) /\ DOMAIN c = 1..(n + Len(b))
      /\ \A i \in 1..(n + Len(b)) : c[i] = IF i <= n THEN a[i] ELSE b[i - n]
  BY Joined
<1>. HIDE DEF c, n
<1>2. /\ \A i \in 1..n : i \in DOMAIN c /\ c[i] = a[i]
      /\ \A i \in 1..Len(b) : i + n \in DOMAIN c /\ c[i + n] = b[i]
      /\ \A i \in DOMAIN c : i \in Nat /\ i >= 1 /\ (i \in 1..n \/ (i - n \in 1..Len(b) /\ (i - n) + n = i))
  BY <1>1
<1>3. ASSUME NEW i \in DOMAIN c, c[i][1] = "convert"
      PROVE  /\ i + 1 \in DOMAIN c /\ c[i + 1] = <<"confirm", c[i][2], c[i][3]>>
             /\ i + 2 \in DOMAIN c /\ c[i + 2] = <<"browse", c[i][2], c[i][3]>>
  <2>1. CASE i \in 1..n
    <3>1. /\ i + 1 \in 1..n /\ a[i + 1] = <<"confirm", a[i][2], a[i][3]>>
          /\ i + 2 \in 1..n /\ a[i + 2] = <<"browse", a[i][2], a[i][3]>>
      BY <1>1, <1>2, <1>3, <2>1 DEF ThreeInARow
    <3>. QED  BY <1>2, <2>1, <3>1
  <2>2. CASE i - n \in 1..Len(b)
    <3>. DEFINE j == i - n
    <3>1. j + n = i /\ c[i] = b[j] /\ j \in DOMAIN b
      BY <1>1, <1>2, <2>2
    <3>2. /\ j + 1 \in 1..Len(b) /\ b[j + 1] = <<"confirm", b[j][2], b[j][3]>>
          /\ j + 2 \in 1..Len(b) /\ b[j + 2] = <<"browse", b[j][2], b[j][3]>>
      BY <1>1, <1>3, <3>1 DEF ThreeInARow
    <3>3. (j + 1) + n = i + 1 /\ (j + 2) + n = i + 2
      BY <1>1, <1>2
    <3>. HIDE DEF j
    <3>. QED  BY <1>2, <3>1, <3>2, <3>3
  <2>. QED  BY <1>2, <2>1, <2>2
<1>4. ASSUME NEW i \in DOMAIN c, i > 1, NEW p \in {"confirm", "browse"}, NEW q, c[i][1] = p,
             \A j \in DOMAIN a : a[j][1] = p /\ j > 1 => a[j - 1] = <<q, a[j][2], a[j][3]>>,
             \A j \in DOMAIN b : b[j][1] = p /\ j > 1 => b[j - 1] = <<q, b[j][2], b[j][3]>>
      PROVE  c[i - 1] = <<q, c[i][2], c[i][3]>>
  <2>1. CASE i \in 1..n
    <3>1. i - 1 \in 1..n /\ a[i - 1] = <<q, a[i][2], a[i][3]>>
      BY <1>1, <1>2, <1>4, <2>1
    <3>. QED  BY <1>2, <2>1, <3>1
  <2>2. CASE i - n \in 1..Len(b)
    <3>. DEFINE j == i - n
    <3>1. j + n = i /\ c[i] = b[j] /\ j \in DOMAIN b
      BY <1>1, <1>2, <2>2
    <3>2. j > 1
      BY <1>4, <3>1
    <3>. HIDE DEF j
    <3>3. (j - 1) + n = i - 1 /\ j - 1 \in 1..Len(b)
      <4>1. j \in 1..Len(b) /\ i \in Nat /\ n \in Nat /\ Len(b) \in Nat /\ DOMAIN c \subseteq Nat
        BY <1>1, <1>2, <3>1
      <4>. QED  BY <3>1, <3>2, <4>1
    <3>4. b[j - 1] = <<q, b[j][2], b[j][3]>>
      BY <1>4, <3>1, <3>2
    <3>. QED  BY <1>2, <3>1, <3>3, <3>4
  <2>. QED  BY <1>2, <2>1, <2>2
<1>5. \A i \in DOMAIN c : c[i][1] = "confirm" /\ i > 1 => c[i - 1] = <<"convert", c[i][2], c[i][3]>>
  <2>1. /\ \A j \in DOMAIN a : a[j][1] = "confirm" /\ j > 1 => a[j - 1] = <<"convert", a[j][2], a[j][3]>>
        /\ \A j \in DOMAIN b : b[j][1] = "confirm" /\ j > 1 => b[j - 1] = <<"convert", b[j][2], b[j][3]>>
    BY DEF ThreeInARow
  <2>. QED  BY <1>4, <2>1
<1>6. \A i \in DOMAIN c : c[i][1] = "browse" /\ i > 1 => c[i - 1] = <<"confirm", c[i][2], c[i][3]>>
  <2>1. /\ \A j \in DOMAIN a : a[j][1] = "browse" /\ j > 1 => a[j - 1] = <<"confirm", a[j][2], a[j][3]>>
        /\ \A j \in DOMAIN b : b[j][1] = "browse" /\ j > 1 => b[j - 1] = <<"confirm", b[j][2], b[j][3]>>
    BY DEF ThreeInARow
  <2>. QED  BY <1>4, <2>1
<1>. QED  BY <1>3, <1>5, <1>6 DEF ThreeInARow, c

(* The middle part follows what is begun.                                   *)
LEMMA JoinMiddle ==
  ASSUME NEW a, NEW b, Begun(a), Middle(b)
  PROVE  Begun(a \o b)
<1>. DEFINE c == a \o b
            n == Len(a)
<1>1. a \in Seq(Stages) /\ b \in Seq(Stages)
  BY DEF Begun, Middle
<1>2. /\ c \in Seq(Stages) /\ Len(c) = n + Len(b) /\ n \in Nat /\ Len(b) \in Nat
      /\ DOMAIN a = 1..n /\ DOMAIN b = 1..Len(b) /\ DOMAIN c = 1..(n + Len(b))
      /\ \A i \in 1..(n + Len(b)) : c[i] = IF i <= n THEN a[i] ELSE b[i - n]
  BY <1>1, Joined
<1>3. ThreeInARow(c)
  BY <1>1, JoinRows DEF Begun, Middle
<1>. HIDE DEF c, n
<1>4. \A i \in DOMAIN c : \/ i \in DOMAIN a /\ c[i] = a[i]
                          \/ i > n /\ i - n \in DOMAIN b /\ c[i] = b[i - n]
  BY <1>2
<1>5. \A i \in DOMAIN c : Rank(c[i]) \in 0..8 /\ (i > n => Rank(c[i]) \in {0, 8})
  BY <1>2, <1>4 DEF Begun, Middle
<1>6. Ordered(c)
  <2>. SUFFICES ASSUME NEW i \in DOMAIN c, NEW j \in DOMAIN c, i < j
                PROVE  Precedes(c[i], c[j])
    BY DEF Ordered
  <2>1. CASE j > n
    <3>1. Rank(c[j]) \in {0, 8} /\ Rank(c[i]) \in 0..8
      BY <1>5, <2>1
    <3>. QED  BY <3>1 DEF Precedes
  <2>2. CASE ~(j > n)
    <3>1. i \in DOMAIN a /\ j \in DOMAIN a
      BY <1>2, <2>2
    <3>. QED  BY <1>2, <1>4, <3>1 DEF Begun, Ordered
  <2>. QED  BY <2>1, <2>2
<1>. QED  BY <1>2, <1>3, <1>5, <1>6 DEF Begun, c

(* And what is begun ends as the plan does.                                 *)
LEMMA JoinEnding ==
  ASSUME NEW a, Begun(a)
  PROVE  /\ a \o Ending \in Seq(Stages) /\ Ordered(a \o Ending)
         /\ ThreeInARow(a \o Ending) /\ PublishIsLast(a \o Ending)
<1>. DEFINE b == Ending
            c == a \o b
            n == Len(a)
<1>1. a \in Seq(Stages)
  BY DEF Begun
<1>2. /\ b \in Seq(Stages) /\ Len(b) = 6
      /\ b[1] = Candidate!Stage("compare") /\ b[2] = Candidate!Stage("write")
      /\ b[3] = Candidate!Stage("recheck") /\ b[4] = Candidate!Stage("accept")
      /\ b[5] = Candidate!Stage("publish") /\ b[6] = Candidate!Stage("recheck")
  <2>1. \A m \in {"compare", "write", "recheck", "accept", "publish"} :
          Candidate!Stage(m) \in Stages
    BY StageFacts DEF WholeNames, Stages
  <2>2. /\ Candidate!Stage("compare") \in Stages /\ Candidate!Stage("write") \in Stages
        /\ Candidate!Stage("recheck") \in Stages /\ Candidate!Stage("accept") \in Stages
        /\ Candidate!Stage("publish") \in Stages
    BY <2>1
  <2>. QED  BY <2>2 DEF Ending
<1>3. /\ Rank(b[1]) = 9 /\ Rank(b[2]) = 10 /\ Rank(b[3]) = 0 /\ Rank(b[4]) = 11
      /\ Rank(b[5]) = 12 /\ Rank(b[6]) = 0
  BY <1>2 DEF Rank, Candidate!Stage, StepNames
<1>4. /\ b[1][1] = "compare" /\ b[2][1] = "write" /\ b[3][1] = "recheck"
      /\ b[4][1] = "accept" /\ b[5][1] = "publish" /\ b[6][1] = "recheck"
  BY <1>2 DEF Candidate!Stage
<1>. HIDE DEF b
<1>5. /\ c \in Seq(Stages) /\ Len(c) = n + 6 /\ n \in Nat
      /\ DOMAIN a = 1..n /\ DOMAIN b = 1..6 /\ DOMAIN c = 1..(n + 6)
      /\ \A i \in 1..(n + 6) : c[i] = IF i <= n THEN a[i] ELSE b[i - n]
  <2>1. b \in Seq(Stages) /\ Len(b) = 6
    BY <1>2
  <2>2. /\ c \in Seq(Stages) /\ Len(c) = n + Len(b) /\ n \in Nat
        /\ DOMAIN a = 1..n /\ DOMAIN b = 1..Len(b) /\ DOMAIN c = 1..(n + Len(b))
        /\ \A i \in 1..(n + Len(b)) : c[i] = IF i <= n THEN a[i] ELSE b[i - n]
    BY <1>1, <2>1, Joined
  <2>. HIDE DEF c, n
  <2>. QED  BY <2>1, <2>2
<1>6. ThreeInARow(c)
  <2>0. \A i \in 1..6 : i \in {1, 2, 3, 4, 5, 6}
    OBVIOUS
  <2>1. \A i \in DOMAIN b : b[i][1] \notin {"convert", "confirm", "browse"}
    BY <1>4, <1>5, <2>0
  <2>2. ThreeInARow(b)
    <3>. HIDE DEF b
    <3>. QED  BY <2>1 DEF ThreeInARow
  <2>. QED  BY <1>1, <1>2, <2>1, <2>2, JoinRows DEF Begun
<1>. HIDE DEF c, n
<1>7. \A i \in DOMAIN c : \/ i \in DOMAIN a /\ c[i] = a[i]
                          \/ i > n /\ i - n \in 1..6 /\ c[i] = b[i - n]
  <2>. SUFFICES ASSUME NEW i \in DOMAIN c
                PROVE  \/ i \in DOMAIN a /\ c[i] = a[i]
                       \/ i > n /\ i - n \in 1..6 /\ c[i] = b[i - n]
    OBVIOUS
  <2>1. i \in 1..(n + 6) /\ n \in Nat
    BY <1>5
  <2>2. CASE i <= n
    <3>1. i \in 1..n
      BY <2>1, <2>2
    <3>. QED  BY <1>5, <2>1, <2>2, <3>1
  <2>3. CASE ~(i <= n)
    <3>1. i > n /\ i - n \in 1..6
      BY <2>1, <2>3
    <3>. QED  BY <1>5, <2>1, <2>3, <3>1
  <2>. QED  BY <2>2, <2>3
<1>8. Ordered(c)
  <2>. SUFFICES ASSUME NEW i \in DOMAIN c, NEW j \in DOMAIN c, i < j
                PROVE  Precedes(c[i], c[j])
    BY DEF Ordered
  <2>1. CASE j \in DOMAIN a
    <3>1. i \in DOMAIN a /\ c[i] = a[i] /\ c[j] = a[j]
      BY <1>5, <2>1
    <3>. QED  BY <2>1, <3>1 DEF Begun, Ordered
  <2>2. CASE j - n \in 1..6 /\ c[j] = b[j - n] /\ i \in DOMAIN a
    <3>1. Rank(c[i]) \in 0..8
      BY <1>5, <2>2 DEF Begun
    <3>2. j - n \in {1, 2, 3, 4, 5, 6}
      BY <2>2
    <3>3. Rank(c[j]) \in {0, 9, 10, 11, 12}
      BY <1>3, <2>2, <3>2
    <3>. QED  BY <3>1, <3>3 DEF Precedes
  <2>3. CASE i - n \in 1..6 /\ c[i] = b[i - n] /\ j - n \in 1..6 /\ c[j] = b[j - n]
    <3>1. i - n \in {1, 2, 3, 4, 5, 6} /\ j - n \in {1, 2, 3, 4, 5, 6} /\ i - n < j - n
      BY <1>5, <2>3
    <3>. QED  BY <1>3, <2>3, <3>1 DEF Precedes
  <2>. QED  BY <1>5, <1>7, <2>1, <2>2, <2>3
<1>10. PublishIsLast(c)
  <2>. SUFFICES ASSUME NEW i \in DOMAIN c, c[i][1] = "publish"
                PROVE  Len(c) = i + 1 /\ c[i + 1] = Candidate!Stage("recheck")
    BY DEF PublishIsLast
  <2>1. i \notin DOMAIN a \/ c[i] # a[i]
    <3>. SUFFICES ASSUME i \in DOMAIN a, c[i] = a[i] PROVE FALSE
      OBVIOUS
    <3>1. Rank(a[i]) = 12
      BY DEF Rank, StepNames
    <3>. QED  BY <3>1 DEF Begun
  <2>2. i - n \in {1, 2, 3, 4, 5, 6} /\ c[i] = b[i - n]
    BY <1>7, <2>1
  <2>3. i - n = 5
    BY <1>4, <2>2
  <2>4. i = n + 5 /\ i + 1 \in 1..(n + 6) /\ (i + 1) - n = 6 /\ ~(i + 1 <= n)
    BY <1>5, <2>3
  <2>. QED  BY <1>2, <1>5, <2>4
<1>. QED  BY <1>5, <1>6, <1>8, <1>10 DEF c, b

(* The plan.                                                                *)
Start ==
  <<Candidate!Stage("enter"), Candidate!Stage("resolve"), Candidate!Stage("compare profiles"),
    Candidate!Stage("probe"), Candidate!Stage("list"), Candidate!Stage("attest"),
    Candidate!Stage("record"), Candidate!Stage("isolation"), Candidate!Stage("copy"),
    Candidate!Stage("install"), Candidate!Stage("seal"), Candidate!Stage("validate"),
    Candidate!Stage("recheck")>>

LEMMA StartStages ==
  /\ Start \in Seq(Stages) /\ Len(Start) = 13
  /\ \A i \in 1..13 :
       Rank(Start[i]) = <<1, 2, 2, 2, 3, 4, 5, 5, 5, 5, 6, 7, 0>>[i]
  /\ \A i \in 1..13 : Start[i][1] \notin {"convert", "confirm", "browse", "publish"}
<1>. DEFINE Q == {"enter", "resolve", "compare profiles", "probe", "list", "attest", "record",
                  "isolation", "copy", "install", "seal", "validate", "recheck"}
<1>1. \A m \in Q : Candidate!Stage(m) \in Stages
  BY ZenonT(40), StageFacts DEF WholeNames, Stages
<1>2. \A m \in Q : Candidate!Stage(m)[1] = m
  BY DEF Candidate!Stage
<1>3. /\ Rank(Candidate!Stage("enter")) = 1 /\ Rank(Candidate!Stage("resolve")) = 2
      /\ Rank(Candidate!Stage("compare profiles")) = 2 /\ Rank(Candidate!Stage("probe")) = 2
      /\ Rank(Candidate!Stage("list")) = 3 /\ Rank(Candidate!Stage("attest")) = 4
      /\ Rank(Candidate!Stage("record")) = 5 /\ Rank(Candidate!Stage("isolation")) = 5
      /\ Rank(Candidate!Stage("copy")) = 5 /\ Rank(Candidate!Stage("install")) = 5
      /\ Rank(Candidate!Stage("seal")) = 6 /\ Rank(Candidate!Stage("validate")) = 7
      /\ Rank(Candidate!Stage("recheck")) = 0
  BY <1>2 DEF Rank, StepNames
<1>4. \A i \in 1..13 : i \in {1, 2, 3, 4, 5, 6, 7, 8, 9, 10, 11, 12, 13}
  OBVIOUS
<1>5. /\ Start[1] = Candidate!Stage("enter") /\ Start[2] = Candidate!Stage("resolve")
      /\ Start[3] = Candidate!Stage("compare profiles") /\ Start[4] = Candidate!Stage("probe")
      /\ Start[5] = Candidate!Stage("list") /\ Start[6] = Candidate!Stage("attest")
      /\ Start[7] = Candidate!Stage("record") /\ Start[8] = Candidate!Stage("isolation")
      /\ Start[9] = Candidate!Stage("copy") /\ Start[10] = Candidate!Stage("install")
      /\ Start[11] = Candidate!Stage("seal") /\ Start[12] = Candidate!Stage("validate")
      /\ Start[13] = Candidate!Stage("recheck")
      /\ DOMAIN Start = 1..13 /\ Start = [i \in 1..13 |-> Start[i]]
  BY DEF Start
<1>6. ASSUME NEW i \in 1..13
      PROVE  /\ Rank(Start[i]) = <<1, 2, 2, 2, 3, 4, 5, 5, 5, 5, 6, 7, 0>>[i]
             /\ \E m \in Q : Start[i] = Candidate!Stage(m)
  <2>1. Rank(Start[i]) = <<1, 2, 2, 2, 3, 4, 5, 5, 5, 5, 6, 7, 0>>[i]
    <3>1. /\ Rank(Start[1]) = 1 /\ Rank(Start[2]) = 2 /\ Rank(Start[3]) = 2
          /\ Rank(Start[4]) = 2 /\ Rank(Start[5]) = 3 /\ Rank(Start[6]) = 4
          /\ Rank(Start[7]) = 5 /\ Rank(Start[8]) = 5 /\ Rank(Start[9]) = 5
          /\ Rank(Start[10]) = 5 /\ Rank(Start[11]) = 6 /\ Rank(Start[12]) = 7
          /\ Rank(Start[13]) = 0
      BY <1>3, <1>5
    <3>. QED  BY <3>1, <1>4
  <2>2. \E m \in Q : Start[i] = Candidate!Stage(m)
    BY <1>4, <1>5
  <2>. QED  BY <2>1, <2>2
<1>. HIDE DEF Q
<1>8. Start \in Seq(Stages) /\ Len(Start) = 13
  <2>1. \A i \in 1..13 : Start[i] \in Stages
    BY <1>1, <1>6
  <2>2. Start \in [1..13 -> Stages]
    BY <1>5, <2>1
  <2>. QED  BY ZenonT(40), <2>2, IsSeq
<1>7. \A m \in Q : m \notin {"convert", "confirm", "browse", "publish"}
  BY DEF Q
<1>9. \A i \in 1..13 : Start[i][1] \in Q
  BY <1>2, <1>6
<1>10. \A i \in 1..13 : Start[i][1] \notin {"convert", "confirm", "browse", "publish"}
  BY <1>7, <1>9, Zenon
<1>. QED  BY <1>6, <1>8, <1>10

LEMMA BegunStart == Begun(Start)
<1>. DEFINE rank == <<1, 2, 2, 2, 3, 4, 5, 5, 5, 5, 6, 7, 0>>
<1>1. /\ Start \in Seq(Stages) /\ DOMAIN Start = 1..13
      /\ \A i \in 1..13 : Rank(Start[i]) = rank[i]
      /\ \A i \in 1..13 : Start[i][1] \notin {"convert", "confirm", "browse", "publish"}
  BY StartStages
<1>2. \A i \in 1..13 : i \in {1, 2, 3, 4, 5, 6, 7, 8, 9, 10, 11, 12, 13}
  OBVIOUS
<1>3. \A i \in 1..13 : rank[i] \in 0..8
  BY <1>2
<1>4. \A i, j \in 1..13 : i < j =>
        rank[i] < rank[j] \/ rank[j] = 0 \/ (rank[i] = rank[j] /\ rank[i] \in {2, 5, 8})
  BY <1>2
<1>. HIDE DEF rank
<1>5. Ordered(Start)
  <2>1. ASSUME NEW i \in 1..13, NEW j \in 1..13, i < j
        PROVE  Precedes(Start[i], Start[j])
    <3>1. Rank(Start[i]) = rank[i] /\ Rank(Start[j]) = rank[j]
      BY <1>1
    <3>2. rank[i] < rank[j] \/ rank[j] = 0 \/ (rank[i] = rank[j] /\ rank[i] \in {2, 5, 8})
      BY <1>4, <2>1
    <3>. QED  BY <3>1, <3>2 DEF Precedes
  <2>. QED  BY <1>1, <2>1 DEF Ordered
<1>6. ThreeInARow(Start)
  BY <1>1 DEF ThreeInARow
<1>7. \A i \in DOMAIN Start : Rank(Start[i]) \in 0..8
  BY <1>1, <1>3
<1>8. Start \in Seq(Stages)
  BY <1>1
<1>. QED  BY <1>5, <1>6, <1>7, <1>8 DEF Begun

LEMMA MiddleRun == \A r \in {1, 2} : Middle(Candidate!CleanRun(r))
<1>. SUFFICES ASSUME NEW r \in {1, 2} PROVE Middle(Candidate!CleanRun(r))
  OBVIOUS
<1>. DEFINE t == Candidate!CleanRun(r)
            step(i) == ((i - 1) % 7) + 1
            place(i) == ((i - 1) \div 7) + 1
<1>1. /\ t \in [1..(7 * N) -> StepNames \X {r} \X Sources] /\ DOMAIN t = 1..(7 * N)
      /\ \A i \in 1..(7 * N) :
           /\ t[i] = <<Candidate!Steps[step(i)], r, Candidate!SourceSeq[place(i)]>>
           /\ t[i] \in StepNames \X {r} \X Sources
           /\ step(i) \in 1..7 /\ place(i) \in 1..N
  BY CleanRunSteps
<1>2. N \in Nat
  BY SourcesInOrder
<1>3. ASSUME NEW i \in 1..(7 * N)
      PROVE  /\ step(i) \in {3, 4} => i + 1 \in 1..(7 * N) /\ step(i + 1) = step(i) + 1
                                     /\ place(i + 1) = place(i)
             /\ step(i) \in {4, 5} => i > 1 /\ i - 1 \in 1..(7 * N) /\ step(i - 1) = step(i) - 1
                                     /\ place(i - 1) = place(i)
  <2>1. PICK q \in Nat, m \in 0..6 : i - 1 = 7 * q + m
    <3>. DEFINE q0 == (i - 1) \div 7
                m0 == (i - 1) % 7
    <3>1. q0 \in Nat /\ m0 \in 0..6 /\ i - 1 = 7 * q0 + m0
      BY <1>2
    <3>. QED  BY <3>1
  <2>2. i \in Nat /\ step(i) = m + 1 /\ place(i) = q + 1
    BY <2>1, <1>2
  <2>3. ASSUME step(i) \in {3, 4}
        PROVE  i + 1 \in 1..(7 * N) /\ step(i + 1) = step(i) + 1 /\ place(i + 1) = place(i)
    <3>1. m \in {2, 3} /\ (i + 1) - 1 = 7 * q + (m + 1) /\ m + 1 \in 0..6
      BY <2>1, <2>2, <2>3
    <3>2. step(i + 1) = m + 2 /\ place(i + 1) = q + 1
      BY <2>1, <3>1
    <3>3. i + 1 \in 1..(7 * N)
      BY <1>2, <1>3, <2>1, <3>1
    <3>. QED  BY <2>2, <3>2, <3>3
  <2>4. ASSUME step(i) \in {4, 5}
        PROVE  i > 1 /\ i - 1 \in 1..(7 * N) /\ step(i - 1) = step(i) - 1 /\ place(i - 1) = place(i)
    <3>1. m \in {3, 4} /\ (i - 1) - 1 = 7 * q + (m - 1) /\ m - 1 \in 0..6
      BY <2>1, <2>2, <2>4
    <3>2. step(i - 1) = m /\ place(i - 1) = q + 1
      BY <2>1, <3>1
    <3>3. i > 1 /\ i - 1 \in 1..(7 * N)
      BY <1>2, <1>3, <2>1, <3>1
    <3>. QED  BY <2>2, <3>2, <3>3
  <2>. QED  BY <2>3, <2>4
<1>. HIDE DEF step, place
<1>4. \A j \in 1..7 : /\ Candidate!Steps[j] = "convert" <=> j = 3
                      /\ Candidate!Steps[j] = "confirm" <=> j = 4
                      /\ Candidate!Steps[j] = "browse" <=> j = 5
  <2>1. \A j \in 1..7 : j \in {1, 2, 3, 4, 5, 6, 7}
    OBVIOUS
  <2>. QED  BY <2>1 DEF Candidate!Steps
<1>. HIDE DEF t
<1>5. \A i \in 1..(7 * N) : /\ t[i] \in Parts /\ t[i][1] = Candidate!Steps[step(i)]
                            /\ t[i][2] = r /\ t[i][3] = Candidate!SourceSeq[place(i)]
  <2>1. \A i \in 1..(7 * N) : t[i] \in StepNames \X {r} \X Sources
    BY <1>1
  <2>. QED  BY <1>1, <2>1 DEF Parts
<1>6. ThreeInARow(t)
  <2>1. ASSUME NEW i \in 1..(7 * N), t[i][1] = "convert"
        PROVE  /\ i + 1 \in DOMAIN t /\ t[i + 1] = <<"confirm", t[i][2], t[i][3]>>
               /\ i + 2 \in DOMAIN t /\ t[i + 2] = <<"browse", t[i][2], t[i][3]>>
    <3>1. step(i) = 3
      BY <1>1, <1>4, <1>5, <2>1
    <3>2. i + 1 \in 1..(7 * N) /\ step(i + 1) = 4 /\ place(i + 1) = place(i)
      BY <1>3, <3>1
    <3>3. (i + 1) + 1 \in 1..(7 * N) /\ step((i + 1) + 1) = 5 /\ place((i + 1) + 1) = place(i)
      BY <1>3, <3>2
    <3>4. (i + 1) + 1 = i + 2
      OBVIOUS
    <3>5. i + 2 \in 1..(7 * N) /\ step(i + 2) = 5 /\ place(i + 2) = place(i)
      BY <3>3, <3>4
    <3>. QED  BY <1>1, <1>4, <1>5, <3>2, <3>5
  <2>2. ASSUME NEW i \in 1..(7 * N), t[i][1] = "confirm"
        PROVE  i > 1 /\ t[i - 1] = <<"convert", t[i][2], t[i][3]>>
    <3>1. step(i) = 4
      BY <1>1, <1>4, <1>5, <2>2
    <3>2. i > 1 /\ i - 1 \in 1..(7 * N) /\ step(i - 1) = 3 /\ place(i - 1) = place(i)
      BY <1>3, <3>1
    <3>. QED  BY <1>1, <1>4, <1>5, <3>2
  <2>3. ASSUME NEW i \in 1..(7 * N), t[i][1] = "browse"
        PROVE  i > 1 /\ t[i - 1] = <<"confirm", t[i][2], t[i][3]>>
    <3>1. step(i) = 5
      BY <1>1, <1>4, <1>5, <2>3
    <3>2. i > 1 /\ i - 1 \in 1..(7 * N) /\ step(i - 1) = 4 /\ place(i - 1) = place(i)
      BY <1>3, <3>1
    <3>. QED  BY <1>1, <1>4, <1>5, <3>2
  <2>. QED  BY <1>1, <2>1, <2>2, <2>3 DEF ThreeInARow
<1>7. \A i \in DOMAIN t : t[i][1] \in {"confirm", "browse"} => i > 1
  <2>. SUFFICES ASSUME NEW i \in 1..(7 * N), t[i][1] \in {"confirm", "browse"} PROVE i > 1
    BY <1>1
  <2>1. step(i) \in {4, 5}
    BY <1>1, <1>4, <1>5
  <2>. QED  BY <1>3, <2>1
<1>8. t \in Seq(Stages) /\ \A i \in DOMAIN t : Rank(t[i]) \in {0, 8}
  <2>1. \A i \in 1..(7 * N) : t[i] \in Stages /\ Rank(t[i]) = 8
    BY <1>5, StageFacts DEF Stages
  <2>2. t \in [1..(7 * N) -> Stages]
    BY <1>1, <2>1
  <2>. QED  BY <1>1, <1>2, <2>1, <2>2, IsSeq
<1>. QED  BY <1>6, <1>7, <1>8 DEF Middle, t

(* Each source is converted, confirmed and looked at in each run.           *)
LEMMA RunIsComplete ==
  \A r \in {1, 2} : \A s \in Sources : \A n \in {"convert", "confirm", "browse"} :
    In(<<n, r, s>>, Candidate!CleanRun(r))
<1>. SUFFICES ASSUME NEW r \in {1, 2}, NEW s \in Sources,
                     NEW n \in {"convert", "confirm", "browse"}
              PROVE  In(<<n, r, s>>, Candidate!CleanRun(r))
  OBVIOUS
<1>1. PICK p \in 1..N : Candidate!SourceSeq[p] = s
  BY SourcesInOrder
<1>2. PICK j \in 1..7 : Candidate!Steps[j] = n
  <2>1. Candidate!Steps[3] = "convert" /\ Candidate!Steps[4] = "confirm" /\ Candidate!Steps[5] = "browse"
    BY DEF Candidate!Steps
  <2>. QED  BY <2>1
<1>. DEFINE i == 7 * (p - 1) + j
<1>3. i \in 1..(7 * N) /\ ((i - 1) % 7) + 1 = j /\ ((i - 1) \div 7) + 1 = p
  <2>1. N \in Nat /\ p - 1 \in Nat /\ j - 1 \in 0..6 /\ i - 1 = 7 * (p - 1) + (j - 1) /\ p <= N
    BY SourcesInOrder
  <2>2. ((i - 1) % 7) = j - 1 /\ ((i - 1) \div 7) = p - 1
    BY <2>1
  <2>. QED  BY <2>1, <2>2
<1>4. Candidate!CleanRun(r)[i] = <<n, r, s>>
  <2>. HIDE DEF i
  <2>1. Candidate!CleanRun(r)[i] = <<Candidate!Steps[((i - 1) % 7) + 1], r,
                                    Candidate!SourceSeq[((i - 1) \div 7) + 1]>>
    BY <1>3, CleanRunSteps
  <2>. QED  BY <1>1, <1>2, <1>3, <2>1
<1>5. DOMAIN Candidate!CleanRun(r) = 1..(7 * N)
  BY CleanRunSteps
<1>. QED  BY <1>3, <1>4, <1>5 DEF In

LEMMA InJoin ==
  ASSUME NEW a \in Seq(Stages), NEW b \in Seq(Stages), NEW x
  PROVE  In(x, a) \/ In(x, b) => In(x, a \o b)
<1>1. ASSUME NEW i \in DOMAIN a, a[i] = x PROVE In(x, a \o b)
  <2>1. i \in DOMAIN (a \o b) /\ (a \o b)[i] = x
    BY <1>1, Joined
  <2>. QED  BY <2>1 DEF In
<1>2. ASSUME NEW i \in DOMAIN b, b[i] = x PROVE In(x, a \o b)
  <2>1. i + Len(a) \in DOMAIN (a \o b) /\ (a \o b)[i + Len(a)] = x
    BY <1>2, Joined
  <2>. QED  BY <2>1 DEF In
<1>. QED  BY <1>1, <1>2 DEF In

(* A part in which nothing is converted.                                    *)
LEMMA MiddleOther ==
  ASSUME NEW t, NEW n \in Nat, t \in [1..n -> Stages],
         \A i \in 1..n : t[i][1] \in {"recheck", "relist", "security"}
  PROVE  Middle(t)
<1>1. \A i \in 1..n : t[i][1] \notin {"convert", "confirm", "browse"}
  OBVIOUS
<1>2. \A i \in 1..n : Rank(t[i]) \in {0, 8}
  BY DEF Rank, StepNames
<1>3. t \in Seq(Stages) /\ DOMAIN t = 1..n
  BY IsSeq
<1>. QED  BY <1>1, <1>2, <1>3 DEF Middle, ThreeInARow

LEMMA MiddleBetween ==
  /\ Middle(Candidate!Between) /\ Middle(Candidate!Security)
  /\ In(Candidate!Stage("relist"), Candidate!Between)
<1>1. /\ Candidate!Stage("recheck") \in Stages /\ Candidate!Stage("recheck")[1] = "recheck"
      /\ Candidate!Stage("relist") \in Stages /\ Candidate!Stage("relist")[1] = "relist"
      /\ Candidate!Stage("security") \in Stages /\ Candidate!Stage("security")[1] = "security"
  BY StageFacts DEF WholeNames, Stages
<1>2. Middle(Candidate!Between) /\ In(Candidate!Stage("relist"), Candidate!Between)
  <2>. DEFINE t == Candidate!Between
  <2>1. /\ t[1] = Candidate!Stage("recheck") /\ t[2] = Candidate!Stage("relist")
        /\ t[3] = Candidate!Stage("recheck") /\ DOMAIN t = 1..3 /\ t = [i \in 1..3 |-> t[i]]
    BY DEF Candidate!Between
  <2>. HIDE DEF t
  <2>2. \A i \in 1..3 : i = 1 \/ i = 2 \/ i = 3
    OBVIOUS
  <2>3. \A i \in 1..3 : t[i] \in Stages /\ t[i][1] \in {"recheck", "relist", "security"}
    BY <1>1, <2>1, <2>2
  <2>4. Middle(t)
    BY <2>1, <2>3, MiddleOther
  <2>5. In(Candidate!Stage("relist"), t)
    BY <2>1 DEF In
  <2>. QED  BY <2>4, <2>5 DEF t
<1>3. CASE cportable
  <2>. DEFINE t == Candidate!Security
  <2>1. /\ t[1] = Candidate!Stage("security") /\ t[2] = Candidate!Stage("recheck")
        /\ DOMAIN t = 1..2 /\ t = [i \in 1..2 |-> t[i]]
    BY <1>3 DEF Candidate!Security
  <2>. HIDE DEF t
  <2>2. \A i \in 1..2 : i = 1 \/ i = 2
    OBVIOUS
  <2>3. \A i \in 1..2 : t[i] \in Stages /\ t[i][1] \in {"recheck", "relist", "security"}
    BY <1>1, <2>1, <2>2
  <2>4. Middle(t)
    BY <2>1, <2>3, MiddleOther
  <2>. QED  BY <1>2, <2>4 DEF t
<1>4. CASE ~cportable
  <2>. DEFINE t == Candidate!Security
  <2>1. t \in [1..0 -> Stages]
    BY <1>4 DEF Candidate!Security
  <2>. HIDE DEF t
  <2>2. 0 \in Nat /\ \A i \in 1..0 : FALSE
    OBVIOUS
  <2>3. \A i \in 1..0 : t[i][1] \in {"recheck", "relist", "security"}
    BY <2>2
  <2>4. Middle(t)
    BY <2>1, <2>2, <2>3, MiddleOther
  <2>. QED  BY <1>2, <2>4 DEF t
<1>. QED  BY <1>3, <1>4

(* What is left to do and matters later.                                    *)
LEMMA PlanIsGood ==
  /\ Good(Candidate!Plan)
  /\ \A n \in {"list", "attest", "isolation", "seal", "relist", "write", "accept"} :
       In(Candidate!Stage(n), Candidate!Plan)
  /\ \A r \in {1, 2} : \A s \in Sources : \A n \in {"convert", "confirm", "browse"} :
       In(<<n, r, s>>, Candidate!Plan)
  /\ Candidate!Plan # <<>> /\ Head(Candidate!Plan) = Candidate!Stage("enter")
<1>. DEFINE one == Candidate!CleanRun(1)
            two == Candidate!CleanRun(2)
            between == Candidate!Between
            security == Candidate!Security
            a1 == Start \o one
            a2 == a1 \o between
            a3 == a2 \o two
            a4 == a3 \o between
            a5 == a4 \o security
            plan == a5 \o Ending
<1>1. plan = Candidate!Plan
  BY DEF Candidate!Plan, Start, Ending
<1>2. Middle(one) /\ Middle(two) /\ Middle(between) /\ Middle(security)
  BY MiddleRun, MiddleBetween
<1>. HIDE DEF one, two, between, security
<1>3. Begun(a1)
  BY <1>2, BegunStart, JoinMiddle
<1>. HIDE DEF a1
<1>4. Begun(a2)
  BY <1>2, <1>3, JoinMiddle
<1>. HIDE DEF a2
<1>5. Begun(a3)
  BY <1>2, <1>4, JoinMiddle
<1>. HIDE DEF a3
<1>6. Begun(a4)
  BY <1>2, <1>5, JoinMiddle
<1>. HIDE DEF a4
<1>7. Begun(a5)
  BY <1>2, <1>6, JoinMiddle
<1>. HIDE DEF a5
<1>8. plan \in Seq(Stages) /\ Ordered(plan) /\ ThreeInARow(plan) /\ PublishIsLast(plan)
  BY <1>7, JoinEnding
<1>9. /\ Start \in Seq(Stages) /\ one \in Seq(Stages) /\ two \in Seq(Stages)
      /\ between \in Seq(Stages) /\ security \in Seq(Stages) /\ a1 \in Seq(Stages)
      /\ a2 \in Seq(Stages) /\ a3 \in Seq(Stages) /\ a4 \in Seq(Stages) /\ a5 \in Seq(Stages)
      /\ Ending \in Seq(Stages)
  <2>1. Ending \in Seq(Stages)
    <3>1. \A m \in {"compare", "write", "recheck", "accept", "publish"} :
            Candidate!Stage(m) \in Stages
      BY StageFacts DEF WholeNames, Stages
    <3>2. /\ Candidate!Stage("compare") \in Stages /\ Candidate!Stage("write") \in Stages
          /\ Candidate!Stage("recheck") \in Stages /\ Candidate!Stage("accept") \in Stages
          /\ Candidate!Stage("publish") \in Stages
      BY <3>1
    <3>. QED  BY <3>2 DEF Ending
  <2>. QED  BY <1>2, <1>3, <1>4, <1>5, <1>6, <1>7, <2>1, BegunStart DEF Begun, Middle
<1>10. \A x : /\ In(x, Start) => In(x, a1)
              /\ In(x, one) => In(x, a1)
              /\ In(x, a1) => In(x, a2)
              /\ In(x, between) => In(x, a2)
              /\ In(x, a2) => In(x, a3)
              /\ In(x, two) => In(x, a3)
              /\ In(x, a3) => In(x, a4)
              /\ In(x, a4) => In(x, a5)
              /\ In(x, a5) => In(x, plan)
              /\ In(x, Ending) => In(x, plan)
  BY <1>9, InJoin DEF a1, a2, a3, a4, a5
<1>. HIDE DEF plan
<1>11. \A x : In(x, Start) \/ In(x, one) \/ In(x, between) \/ In(x, two) \/ In(x, Ending)
              => In(x, plan)
  BY <1>10
<1>12. \A n \in {"list", "attest", "isolation", "seal"} : In(Candidate!Stage(n), Start)
  <2>1. /\ Start[5] = Candidate!Stage("list") /\ Start[6] = Candidate!Stage("attest")
        /\ Start[8] = Candidate!Stage("isolation") /\ Start[11] = Candidate!Stage("seal")
        /\ DOMAIN Start = 1..13
    BY DEF Start
  <2>2. 5 \in 1..13 /\ 6 \in 1..13 /\ 8 \in 1..13 /\ 11 \in 1..13
    OBVIOUS
  <2>. QED  BY <2>1, <2>2 DEF In
<1>13. In(Candidate!Stage("write"), Ending) /\ In(Candidate!Stage("accept"), Ending)
  <2>1. /\ Ending[2] = Candidate!Stage("write") /\ Ending[4] = Candidate!Stage("accept")
        /\ DOMAIN Ending = 1..6
    BY DEF Ending
  <2>2. 2 \in 1..6 /\ 4 \in 1..6
    OBVIOUS
  <2>. QED  BY <2>1, <2>2 DEF In
<1>14. \A n \in {"list", "attest", "isolation", "seal", "relist", "write", "accept"} :
         In(Candidate!Stage(n), plan)
  BY <1>11, <1>12, <1>13, MiddleBetween DEF between
<1>15. \A r \in {1, 2} : \A s \in Sources : \A n \in {"convert", "confirm", "browse"} :
         In(<<n, r, s>>, plan)
  BY <1>11, RunIsComplete DEF one, two
<1>16. Follows(plan)
  <2>. SUFFICES ASSUME NEW i \in DOMAIN plan, NEW x \in Milestones,
                       0 < Rank(plan[i]), Rank(plan[i]) < Rank(x)
                PROVE  \E j \in DOMAIN plan : i < j /\ plan[j] = x
    BY DEF Follows
  <2>1. PICK j \in DOMAIN plan : plan[j] = x
    BY <1>14 DEF Milestones, In
  <2>2. Rank(plan[i]) \in Nat /\ Rank(x) \in Nat /\ DOMAIN plan \subseteq Nat
    BY SMTT(30), <1>8, StageFacts
  <2>3. ~(j < i)
    BY <1>8, <2>1, <2>2 DEF Ordered, Precedes
  <2>4. j # i
    BY <2>1, <2>2
  <2>. QED  BY <2>1, <2>2, <2>3, <2>4
<1>17. /\ plan # <<>> /\ Head(plan) = Candidate!Stage("enter")
       /\ \A i \in 1..4 : i \in DOMAIN plan /\ plan[i] = Start[i]
  <2>1. \A i \in 1..13 :
          i \in DOMAIN plan /\ plan[i] = Start[i]
    <3>. SUFFICES ASSUME NEW i \in 1..13 PROVE i \in DOMAIN plan /\ plan[i] = Start[i]
      OBVIOUS
    <3>0. i \in DOMAIN Start
      <4>1. Start \in Seq(Stages) /\ Len(Start) = 13
        BY StartStages
      <4>. QED  BY <4>1
    <3>1. i \in DOMAIN a1 /\ a1[i] = Start[i]
      BY <1>9, <3>0, Joined DEF a1
    <3>2. i \in DOMAIN a2 /\ a2[i] = Start[i]
      BY SMTT(30), <1>9, <3>1, Joined DEF a2
    <3>3. i \in DOMAIN a3 /\ a3[i] = Start[i]
      BY SMTT(30), <1>9, <3>2, Joined DEF a3
    <3>4. i \in DOMAIN a4 /\ a4[i] = Start[i]
      BY SMTT(30), <1>9, <3>3, Joined DEF a4
    <3>5. i \in DOMAIN a5 /\ a5[i] = Start[i]
      BY <1>9, <3>4, Joined DEF a5
    <3>. QED  BY <1>9, <3>5, Joined DEF plan
  <2>2. 1 \in DOMAIN plan /\ plan[1] = Start[1]
    BY <2>1
  <2>3. Start[1] = Candidate!Stage("enter")
    BY DEF Start
  <2>. QED  BY <1>8, <2>1, <2>2, <2>3
<1>18. Entering(plan)
  <2>. SUFFICES ASSUME NEW i \in DOMAIN plan, plan[i][1] = "enter", NEW k \in 1..3
                PROVE  i + k \in DOMAIN plan /\ Rank(plan[i + k]) = 2
    BY DEF Entering
  <2>1. Rank(plan[i]) = 1 /\ Rank(plan[1]) = 1 /\ 1 \in DOMAIN plan
    <3>1. Rank(Start[1]) = <<1, 2, 2, 2, 3, 4, 5, 5, 5, 5, 6, 7, 0>>[1]
      BY StartStages
    <3>2. Rank(plan[1]) = 1 /\ 1 \in DOMAIN plan
      BY <1>17, <3>1
    <3>3. \A x : x[1] = "enter" => Rank(x) = 1
      BY DEF Rank, StepNames
    <3>. QED  BY <3>2, <3>3
  <2>2. ~(1 < i)
    BY <1>8, <2>1 DEF Ordered, Precedes
  <2>3. i = 1
    BY <1>8, <2>2
  <2>4. /\ Rank(Start[2]) = 2 /\ Rank(Start[3]) = 2 /\ Rank(Start[4]) = 2
    BY StartStages
  <2>5. k = 1 \/ k = 2 \/ k = 3
    OBVIOUS
  <2>. QED  BY <1>17, <2>3, <2>4, <2>5
<1>. QED  BY <1>1, <1>8, <1>14, <1>15, <1>16, <1>17, <1>18 DEF Good

(* What is left: in the process that is to be started, everything.          *)
Left(x) == ctodo = <<Candidate!Stage("launch")>> \/ In(x, ctodo)
LeftStage(n) == Left(Candidate!Stage(n))

CandidateTypeInv ==
  /\ ctodo = <<Candidate!Stage("launch")>> \/ Good(ctodo)
  /\ cdisk \in [Candidate!Replaceable -> {0, 1}] /\ cedits \in Nat /\ cloaded \in {0, 1}
  /\ ccopies = [p \in Candidate!Copied |-> ccopies[p]]
  /\ \A p \in Candidate!Copied :
       ccopies[p] = Candidate!Nothing \/ ccopies[p].changed \in Nat
  /\ cresult = "failed" => ctodo = <<>>
  /\ cdisk["corpus"] = 1 => cedits >= 1

(* Another version of the corpus than the attested one: at each of the      *)
(* steps that look at the corpus one more replacement is behind it.         *)
CorpusInv ==
  /\ \/ LeftStage("list") \/ cloaded = 0
     \/ cedits >= 1 /\ (cdisk["corpus"] = 0 => cedits >= 2)
  /\ \/ LeftStage("attest") \/ cloaded = 0
     \/ cedits >= 2 /\ (cdisk["corpus"] = 1 => cedits >= 3)
  /\ \/ LeftStage("relist") \/ cloaded = 0
     \/ cedits >= 3 /\ (cdisk["corpus"] = 0 => cedits >= 4)
  /\ \/ LeftStage("write") \/ cloaded = 0 \/ cmanifest.scope["corpus"] # 0
     \/ cedits >= 4 /\ (cdisk["corpus"] = 1 => cedits >= 5)
  /\ LeftStage("accept") \/ cloaded = 0 \/ cedits >= 5

(* A copy is what it was when it was sealed, or its times show it.          *)
AsSealed(p) == ccopies[p] = csealed[p]
Shows(p) ==
  /\ ccopies[p] # Candidate!Nothing /\ csealed[p].changed \in Nat
  /\ ccopies[p].changed > csealed[p].changed
SealInv ==
  /\ LeftStage("seal") => cmade = <<>>
  /\ LeftStage("seal") \/ \A p \in Candidate!Copied : AsSealed(p) \/ Shows(p)

(* What was made from, as far as it was made.                               *)
MadeInv ==
  \A r \in {1, 2} : \A s \in Sources :
    /\ \/ Left(<<"convert", r, s>>)
       \/ /\ <<r, s>> \in DOMAIN cmade
          /\ AsSealed("converter") =>
               cmade[<<r, s>>].converter = csealed["converter"].content
    /\ \/ Left(<<"browse", r, s>>)
       \/ /\ <<r, s>> \in DOMAIN cmade
          /\ AsSealed("fonts") => cmade[<<r, s>>].fonts = csealed["fonts"].content
    /\ \/ Left(<<"confirm", r, s>>)
       \/ <<r, s>> \in DOMAIN cmade /\ cmade[<<r, s>>].source = 0
    /\ ctodo # <<>> /\ Head(ctodo) = <<"confirm", r, s>> =>
         <<r, s>> \in DOMAIN cmade /\ cmade[<<r, s>>].source = cstaged

MadeOf(m) ==
  \A r \in {1, 2} : \A s \in Sources :
    /\ cmade[<<r, s>>].converter = m.artifacts["converter"]
    /\ cmade[<<r, s>>].fonts = m.artifacts["fonts"]
Manifests(m) == m = [status |-> m.status, scope |-> m.scope, artifacts |-> m.artifacts]
WrittenInv ==
  /\ LeftStage("isolation") \/ (cportable => Candidate!Isolated)
  /\ LeftStage("write") \/ (Manifests(cmanifest) /\ MadeOf(cmanifest))
  /\ \/ LeftStage("accept")
     \/ /\ \A f \in Candidate!Scope : cmanifest.scope[f] = 0
        /\ \A p \in Candidate!Copied : cmanifest.artifacts[p] = 0

ReadyInv ==
  Candidate!Ready =>
    ctodo \in {<<Candidate!Stage("recheck")>>, <<>>} /\ Candidate!AsAttested

CandidateInv ==
  /\ CandidateTypeInv
  /\ cresult # "failed" => CorpusInv /\ SealInv /\ MadeInv /\ WrittenInv
  /\ ReadyInv

LEMMA GoodEmpty == Good(<<>>) /\ \A x : ~In(x, <<>>)
<1>. DEFINE t == <<>>
<1>1. t \in Seq(Stages) /\ DOMAIN t = {}
  OBVIOUS
<1>. HIDE DEF t
<1>2. Ordered(t) /\ Follows(t) /\ Entering(t) /\ PublishIsLast(t) /\ ThreeInARow(t)
      /\ \A x : ~In(x, t)
  BY <1>1 DEF Ordered, Follows, Entering, PublishIsLast, ThreeInARow, In
<1>. QED  BY <1>1, <1>2 DEF Good, t

(* A stage is over: what is left then.                                      *)
LEMMA StageOver ==
  ASSUME NEW t, Good(t), t # <<>>
  PROVE  /\ Good(Tail(t)) /\ Head(t) \in Stages /\ In(Head(t), t)
         /\ \A x : In(x, Tail(t)) => In(x, t)
         /\ \A x : In(x, t) => x = Head(t) \/ In(x, Tail(t))
         /\ \A x : In(x, Tail(t)) => Precedes(Head(t), x)
         /\ \A x \in Milestones : 0 < Rank(Head(t)) /\ Rank(Head(t)) < Rank(x) => In(x, Tail(t))
<1>. DEFINE h == Head(t)
            u == Tail(t)
<1>1. /\ t \in Seq(Stages) /\ Len(t) \in Nat /\ Len(t) >= 1 /\ DOMAIN t = 1..Len(t)
  BY DEF Good
<1>2. u = SubSeq(t, 2, Len(t))
  BY <1>1
<1>3. Good(u)
  <2>1. 2 \in Nat /\ 2 >= 1
    OBVIOUS
  <2>2. Good(SubSeq(t, 2, Len(t)))
    BY <2>1, GoodRest
  <2>. QED  BY <1>2, <2>2
<1>4. /\ u \in Seq(Stages) /\ Len(u) = Len(t) - 1 /\ DOMAIN u = 1..(Len(t) - 1)
      /\ \A i \in 1..(Len(t) - 1) : u[i] = t[i + 1]
      /\ h = t[1]
  BY <1>1
<1>. HIDE DEF h, u
<1>5. \A i \in 1..(Len(t) - 1) : i + 1 \in DOMAIN t /\ 1 < i + 1 /\ u[i] = t[i + 1]
  BY <1>1, <1>4
<1>6. 1 \in DOMAIN t /\ \A i \in DOMAIN t : i = 1 \/ (i - 1 \in DOMAIN u /\ u[i - 1] = t[i])
  <2>1. 1 \in DOMAIN t /\ \A i \in DOMAIN t : i = 1 \/ (i - 1 \in 1..(Len(t) - 1) /\ (i - 1) + 1 = i)
    BY <1>1
  <2>. QED  BY <1>4, <2>1
<1>7. h \in Stages /\ In(h, t)
  BY <1>1, <1>4, <1>6 DEF In
<1>8. \A x : In(x, u) => In(x, t) /\ Precedes(h, x)
  BY <1>4, <1>5, <1>6 DEF In, Good, Ordered
<1>9. \A x : In(x, t) => x = h \/ In(x, u)
  BY <1>4, <1>6 DEF In
<1>10. ASSUME NEW x \in Milestones, 0 < Rank(h), Rank(h) < Rank(x) PROVE In(x, u)
  <2>1. PICK j \in DOMAIN t : 1 < j /\ t[j] = x
    BY <1>4, <1>6, <1>10 DEF Good, Follows
  <2>. QED  BY <1>6, <2>1 DEF In
<1>. QED  BY <1>3, <1>7, <1>8, <1>9, <1>10 DEF h, u

LEMMA Single ==
  ASSUME NEW S, NEW u \in Seq(S), Len(u) = 1
  PROVE  u = <<u[1]>>
<1>1. u = [i \in 1..1 |-> u[i]]
  OBVIOUS
<1>2. 1..1 = {1}
  OBVIOUS
<1>. DEFINE x == u[1]
<1>3. [i \in 1..1 |-> u[i]] = [i \in 1..1 |-> x]
  BY <1>2
<1>. HIDE DEF x
<1>4. <<x>> = [i \in 1..1 |-> x]
  OBVIOUS
<1>. QED  BY <1>1, <1>3, <1>4 DEF x

LEMMA NextInARow ==
  ASSUME NEW t, Good(t), t # <<>>
  PROVE  /\ Head(t)[1] = "convert" =>
              /\ In(<<"browse", Head(t)[2], Head(t)[3]>>, Tail(t))
              /\ In(<<"confirm", Head(t)[2], Head(t)[3]>>, Tail(t))
              /\ Tail(t) # <<>>
              /\ Head(Tail(t)) = <<"confirm", Head(t)[2], Head(t)[3]>>
         /\ Tail(t) # <<>> /\ Head(Tail(t))[1] = "confirm" =>
              Head(t) = <<"convert", Head(Tail(t))[2], Head(Tail(t))[3]>>
         /\ Head(t)[1] = "publish" => Tail(t) = <<Candidate!Stage("recheck")>>
<1>. DEFINE h == Head(t)
            u == Tail(t)
<1>1. /\ t \in Seq(Stages) /\ Len(t) \in Nat /\ Len(t) >= 1 /\ DOMAIN t = 1..Len(t)
  BY DEF Good
<1>2. /\ u \in Seq(Stages) /\ Len(u) = Len(t) - 1 /\ DOMAIN u = 1..(Len(t) - 1)
      /\ \A i \in 1..(Len(t) - 1) : u[i] = t[i + 1]
      /\ h = t[1]
      /\ u # <<>> => Len(t) >= 2 /\ Head(u) = t[2]
      /\ Len(t) >= 2 => u # <<>> /\ Head(u) = t[2]
      /\ Len(u) = 1 => u = <<u[1]>>
  <2>1. /\ u \in Seq(Stages) /\ Len(u) = Len(t) - 1 /\ DOMAIN u = 1..(Len(t) - 1)
        /\ \A i \in 1..(Len(t) - 1) : u[i] = t[i + 1]
        /\ h = t[1]
    BY <1>1
  <2>. HIDE DEF u, h
  <2>2. Len(u) \in Nat /\ (u # <<>> <=> Len(u) >= 1) /\ (u # <<>> => Head(u) = u[1])
    BY <2>1
  <2>3. Len(u) = 1 => u = <<u[1]>>
    BY <2>1, Single
  <2>4. Len(t) >= 2 => 1 \in 1..(Len(t) - 1) /\ 1 + 1 = 2
    BY <1>1
  <2>5. Len(t) >= 2 <=> Len(u) >= 1
    BY <1>1, <2>1
  <2>. QED  BY <2>1, <2>2, <2>3, <2>4, <2>5
<1>. HIDE DEF h, u
<1>3. ASSUME h[1] = "convert"
      PROVE  /\ In(<<"browse", h[2], h[3]>>, u) /\ In(<<"confirm", h[2], h[3]>>, u)
             /\ u # <<>> /\ Head(u) = <<"confirm", h[2], h[3]>>
  <2>1. 1 \in DOMAIN t
    BY <1>1
  <2>2. /\ 1 + 1 \in DOMAIN t /\ t[1 + 1] = <<"confirm", h[2], h[3]>>
        /\ 1 + 2 \in DOMAIN t /\ t[1 + 2] = <<"browse", h[2], h[3]>>
    BY <1>2, <1>3, <2>1 DEF Good, ThreeInARow
  <2>3. /\ 1 \in DOMAIN u /\ u[1] = t[2] /\ 2 \in DOMAIN u /\ u[2] = t[3] /\ Len(t) >= 2
        /\ 1 + 1 = 2 /\ 1 + 2 = 3
    BY <1>1, <1>2, <2>2
  <2>4. u[1] = <<"confirm", h[2], h[3]>> /\ u[2] = <<"browse", h[2], h[3]>>
    BY <2>2, <2>3
  <2>. QED  BY <1>2, <2>2, <2>3, <2>4 DEF In
<1>4. ASSUME u # <<>>, Head(u)[1] = "confirm"
      PROVE  h = <<"convert", Head(u)[2], Head(u)[3]>>
  <2>1. 2 \in DOMAIN t /\ 2 > 1 /\ 2 - 1 = 1 /\ t[2][1] = "confirm"
    BY <1>1, <1>2, <1>4
  <2>2. t[2 - 1] = <<"convert", t[2][2], t[2][3]>>
    BY <2>1 DEF Good, ThreeInARow
  <2>. QED  BY <1>2, <1>4, <2>1, <2>2
<1>5. ASSUME h[1] = "publish"
      PROVE  u = <<Candidate!Stage("recheck")>>
  <2>1. 1 \in DOMAIN t
    BY <1>1
  <2>2. Len(t) = 1 + 1 /\ t[1 + 1] = Candidate!Stage("recheck")
    BY <1>2, <1>5, <2>1 DEF Good, PublishIsLast
  <2>3. Len(u) = 1 /\ 1 \in 1..(Len(t) - 1) /\ 1 + 1 = 2
    BY <1>2, <2>2
  <2>4. u[1] = Candidate!Stage("recheck")
    BY <1>2, <2>2, <2>3
  <2>5. u = <<u[1]>>
    BY <1>2, <2>3
  <2>. QED  BY <2>4, <2>5
<1>. QED  BY <1>3, <1>4, <1>5 DEF h, u

(* A stage that is over and did not fail: what it does to the rest.         *)
Now == Head(ctodo)
Is(n) == Now = Candidate!Stage(n)

PopTodo == ctodo # <<>> /\ Good(ctodo) /\ ctodo' = Tail(ctodo)

PopCorpus ==
  /\ UNCHANGED <<cdisk, cedits>>
  /\ cloaded' = IF Is("list") THEN cdisk["corpus"] ELSE cloaded
  /\ Is("attest") => cdisk["corpus"] = 0
  /\ Is("relist") => cdisk["corpus"] = cloaded

PopCopies ==
  /\ ccopies' = ccopies \/ Is("copy") \/ Is("install")
  /\ csealed' = IF Is("seal") THEN ccopies ELSE csealed

Key == <<Now[2], Now[3]>>
PopMade ==
  /\ cstaged' = cstaged \/ Now[1] = "stage"
  /\ Now[1] = "confirm" => cstaged = 0
  /\ \/ Now[1] \notin {"convert", "browse"} /\ cmade' = cmade
     \/ /\ Now[1] \in {"convert", "browse"}
        /\ DOMAIN cmade' = DOMAIN cmade \cup {Key}
        /\ \A k \in DOMAIN cmade : k # Key => cmade'[k] = cmade[k]
        /\ Now[1] = "convert" =>
             /\ cmade'[Key].source = cstaged
             /\ cmade'[Key].converter = ccopies["converter"].content
        /\ Now[1] = "browse" =>
             /\ cmade'[Key].source = cmade[Key].source
             /\ cmade'[Key].converter = cmade[Key].converter
             /\ cmade'[Key].fonts = ccopies["fonts"].content

PopManifest ==
  /\ UNCHANGED <<cportable, cdenied>>
  /\ Is("isolation") /\ cportable => Candidate!Isolated
  /\ \/ /\ Is("write") /\ ccopies = csealed
        /\ cmanifest' = [status |-> "pending",
                         scope |-> [f \in Candidate!Scope |-> cdisk[f]],
                         artifacts |-> [p \in Candidate!Copied |-> ccopies[p].content]]
     \/ Is("accept") /\ Candidate!Valid /\ cmanifest' = cmanifest
     \/ Is("publish") /\ cmanifest' = [cmanifest EXCEPT !.status = "READY"]
     \/ /\ ~Is("write") /\ ~Is("accept") /\ ~Is("publish")
        /\ cmanifest' = cmanifest

PopMove == PopTodo /\ PopCorpus /\ PopCopies /\ PopMade /\ PopManifest

LEMMA LaunchIsNoStage == \A t : Good(t) => t # <<Candidate!Stage("launch")>>
<1>. SUFFICES ASSUME NEW t, Good(t), t = <<Candidate!Stage("launch")>> PROVE FALSE
  OBVIOUS
<1>1. t[1] = Candidate!Stage("launch") /\ Len(t) = 1 /\ t \in Seq(Stages)
  BY DEF Good
<1>2. t[1] \in Stages
  BY <1>1
<1>3. t[1][1] = "launch"
  BY <1>1 DEF Candidate!Stage
<1>4. "launch" \notin StepNames \cup WholeNames
  BY DEF StepNames, WholeNames
<1>. QED  BY <1>2, <1>3, <1>4, StageFacts DEF Stages

LEMMA RankOf ==
  /\ Rank(Candidate!Stage("list")) = 3 /\ Rank(Candidate!Stage("attest")) = 4
  /\ Rank(Candidate!Stage("isolation")) = 5 /\ Rank(Candidate!Stage("copy")) = 5
  /\ Rank(Candidate!Stage("install")) = 5
  /\ Rank(Candidate!Stage("seal")) = 6 /\ Rank(Candidate!Stage("relist")) = 8
  /\ Rank(Candidate!Stage("write")) = 10 /\ Rank(Candidate!Stage("accept")) = 11
  /\ Rank(Candidate!Stage("publish")) = 12
  /\ \A x : x[1] \in StepNames => Rank(x) = 8
  /\ {Candidate!Stage("attest"), Candidate!Stage("seal"), Candidate!Stage("relist"),
      Candidate!Stage("write"), Candidate!Stage("accept")} \subseteq Milestones
<1>1. /\ Rank(Candidate!Stage("list")) = 3 /\ Rank(Candidate!Stage("attest")) = 4
      /\ Rank(Candidate!Stage("isolation")) = 5 /\ Rank(Candidate!Stage("copy")) = 5
      /\ Rank(Candidate!Stage("install")) = 5
      /\ Rank(Candidate!Stage("seal")) = 6 /\ Rank(Candidate!Stage("relist")) = 8
      /\ Rank(Candidate!Stage("write")) = 10 /\ Rank(Candidate!Stage("accept")) = 11
      /\ Rank(Candidate!Stage("publish")) = 12
  BY DEF Rank, StepNames, Candidate!Stage
<1>2. \A n \in StepNames :
        n \notin {"enter", "resolve", "compare profiles", "probe", "list", "attest", "record",
                 "isolation", "copy", "install", "seal", "validate"}
  BY DEF StepNames
<1>3. \A x : x[1] \in StepNames => Rank(x) = 8
  BY <1>2 DEF Rank, StepNames
<1>4. {Candidate!Stage("attest"), Candidate!Stage("seal"), Candidate!Stage("relist"),
       Candidate!Stage("write"), Candidate!Stage("accept")} \subseteq Milestones
  BY DEF Milestones
<1>. QED  BY <1>1, <1>3, <1>4

(* What is left before and after.                                           *)
LEMMA PopLeft ==
  ASSUME PopTodo
  PROVE  /\ Good(ctodo)' /\ Now \in Stages
         /\ \A x : Left(x) <=> x = Now \/ Left(x)'
         /\ \A x : Left(x)' <=> In(x, Tail(ctodo))
         /\ \A x : Left(x)' => Precedes(Now, x)
         /\ \A x : Left(x) /\ 0 < Rank(x) => ~(Rank(x) < Rank(Now))
         /\ \A x \in Milestones : 0 < Rank(Now) /\ Rank(Now) < Rank(x) => Left(x)'
<1>. DEFINE u == Tail(ctodo)
<1>1. /\ Good(u) /\ Now \in Stages
      /\ \A x : In(x, u) => Precedes(Now, x)
      /\ \A x \in Milestones : 0 < Rank(Now) /\ Rank(Now) < Rank(x) => In(x, u)
      /\ \A x : In(x, ctodo) <=> x = Now \/ In(x, u)
  BY StageOver DEF PopTodo, Now
<1>2. ctodo # <<Candidate!Stage("launch")>> /\ u # <<Candidate!Stage("launch")>>
  BY <1>1, LaunchIsNoStage DEF PopTodo
<1>3. ctodo' = u
  BY DEF PopTodo
<1>. HIDE DEF u
<1>4. \A x : (Left(x) <=> In(x, ctodo)) /\ (Left(x)' <=> In(x, u))
  BY <1>2, <1>3 DEF Left, In
<1>5. \A x : Rank(x) \in Nat
  BY StageFacts
<1>6. \A x : Left(x) /\ 0 < Rank(x) => ~(Rank(x) < Rank(Now))
  BY <1>1, <1>4, <1>5 DEF Precedes
<1>7. Good(ctodo)'
  <2>1. \A t : t = u => Good(t)
    BY <1>1
  <2>. QED  BY <1>3, <2>1, Zenon DEF Good
<1>. QED  BY <1>1, <1>4, <1>6, <1>7 DEF u

LEMMA CorpusPops ==
  ASSUME CandidateTypeInv, CorpusInv, WrittenInv, PopTodo, PopCorpus, PopManifest
  PROVE  CorpusInv'
<1>. DEFINE list == Candidate!Stage("list")
            attest == Candidate!Stage("attest")
            relist == Candidate!Stage("relist")
            write == Candidate!Stage("write")
            accept == Candidate!Stage("accept")
            D == cdisk["corpus"]
<1>1. /\ \A x : Left(x) <=> x = Now \/ Left(x)'
      /\ \A x : Left(x) /\ 0 < Rank(x) => ~(Rank(x) < Rank(Now))
      /\ \A x \in Milestones : 0 < Rank(Now) /\ Rank(Now) < Rank(x) => Left(x)'
  BY PopLeft
<1>2. /\ Rank(list) = 3 /\ Rank(attest) = 4 /\ Rank(relist) = 8 /\ Rank(write) = 10
      /\ Rank(accept) = 11
      /\ attest \in Milestones /\ relist \in Milestones /\ write \in Milestones
      /\ accept \in Milestones
  BY RankOf
<1>3. /\ D \in {0, 1} /\ (D = 1 => cedits >= 1) /\ cedits \in Nat /\ cloaded \in {0, 1}
      /\ cdisk' = cdisk /\ cedits' = cedits
  BY DEF CandidateTypeInv, PopCorpus, Candidate!Replaceable, Candidate!Scope
<1>4. /\ Now = list => cloaded' = D
      /\ Now # list => cloaded' = cloaded
      /\ Now = attest => D = 0
      /\ Now = relist => D = cloaded
  BY DEF PopCorpus, Is
<1>5. Now = write => cmanifest'.scope["corpus"] = D
  BY RankOf DEF PopManifest, Is, Candidate!Scope
<1>6. Now = accept => cmanifest.scope["corpus"] = 0 /\ D = cloaded
  BY <1>2, RankOf DEF PopManifest, Is, Candidate!Valid, Candidate!ScopeIsBound,
    Candidate!UnitsAreBound, Candidate!Scope
<1>7. CorpusInv' <=>
        /\ \/ Left(list)' \/ cloaded' = 0
           \/ cedits >= 1 /\ (D = 0 => cedits >= 2)
        /\ \/ Left(attest)' \/ cloaded' = 0
           \/ cedits >= 2 /\ (D = 1 => cedits >= 3)
        /\ \/ Left(relist)' \/ cloaded' = 0
           \/ cedits >= 3 /\ (D = 0 => cedits >= 4)
        /\ \/ Left(write)' \/ cloaded' = 0 \/ cmanifest'.scope["corpus"] # 0
           \/ cedits >= 4 /\ (D = 1 => cedits >= 5)
        /\ Left(accept)' \/ cloaded' = 0 \/ cedits >= 5
  BY <1>3 DEF CorpusInv, LeftStage, Left, In, Candidate!Stage
<1>8. Now # write /\ ~Left(write)' => cmanifest'.scope = cmanifest.scope
  <2>. SUFFICES ASSUME Now # write, ~Left(write)' PROVE cmanifest'.scope = cmanifest.scope
    OBVIOUS
  <2>1. Manifests(cmanifest)
    BY <1>1 DEF WrittenInv, LeftStage
  <2>2. cmanifest' = cmanifest \/ cmanifest' = [cmanifest EXCEPT !.status = "READY"]
    BY DEF PopManifest, Is
  <2>3. [cmanifest EXCEPT !.status = "READY"].scope = cmanifest.scope
    BY <2>1 DEF Manifests
  <2>. QED  BY <2>2, <2>3
<1>9. /\ Left(list) \/ cloaded = 0 \/ (cedits >= 1 /\ (D = 0 => cedits >= 2))
      /\ Left(attest) \/ cloaded = 0 \/ (cedits >= 2 /\ (D = 1 => cedits >= 3))
      /\ Left(relist) \/ cloaded = 0 \/ (cedits >= 3 /\ (D = 0 => cedits >= 4))
      /\ Left(write) \/ cloaded = 0 \/ cmanifest.scope["corpus"] # 0
           \/ (cedits >= 4 /\ (D = 1 => cedits >= 5))
      /\ Left(accept) \/ cloaded = 0 \/ cedits >= 5
  BY DEF CorpusInv, LeftStage
<1>. HIDE DEF list, attest, relist, write, accept, D
<1>10. /\ Now = list => Left(attest)' /\ Left(relist)' /\ Left(write)' /\ Left(accept)'
       /\ Now = attest => ~Left(list)
       /\ Now = relist => ~Left(attest)
       /\ Now = write => ~Left(relist) /\ Left(accept)'
       /\ Now = accept => ~Left(write)
  BY <1>1, <1>2
<1>11. \/ Left(list)' \/ cloaded' = 0
       \/ cedits >= 1 /\ (D = 0 => cedits >= 2)
  BY <1>1, <1>3, <1>4, <1>9
<1>12. \/ Left(attest)' \/ cloaded' = 0
       \/ cedits >= 2 /\ (D = 1 => cedits >= 3)
  BY <1>1, <1>3, <1>4, <1>9, <1>10
<1>13. \/ Left(relist)' \/ cloaded' = 0
       \/ cedits >= 3 /\ (D = 0 => cedits >= 4)
  <2>1. CASE Now = relist
    <3>1. cloaded' = cloaded
      BY <1>2, <1>4, <2>1
    <3>. QED  BY <1>3, <1>4, <1>9, <1>10, <2>1, <3>1
  <2>2. CASE Now # relist
    BY <1>1, <1>3, <1>4, <1>9, <1>10, <2>2
  <2>. QED  BY <2>1, <2>2
<1>14. \/ Left(write)' \/ cloaded' = 0 \/ cmanifest'.scope["corpus"] # 0
       \/ cedits >= 4 /\ (D = 1 => cedits >= 5)
  <2>1. CASE Now = write
    <3>1. cloaded' = cloaded
      BY <1>2, <1>4, <2>1
    <3>. QED  BY <1>3, <1>5, <1>9, <1>10, <2>1, <3>1
  <2>2. CASE Now # write
    BY <1>1, <1>3, <1>4, <1>8, <1>9, <1>10, <2>2
  <2>. QED  BY <2>1, <2>2
<1>15. Left(accept)' \/ cloaded' = 0 \/ cedits >= 5
  <2>1. CASE Now = accept
    <3>1. cloaded' = cloaded
      BY <1>2, <1>4, <2>1
    <3>. QED  BY <1>3, <1>6, <1>9, <1>10, <2>1, <3>1
  <2>2. CASE Now # accept
    BY <1>1, <1>3, <1>4, <1>9, <1>10, <2>2
  <2>. QED  BY <2>1, <2>2
<1>. QED  BY <1>7, <1>11, <1>12, <1>13, <1>14, <1>15 DEF list, attest, relist, write, accept, D

LEMMA SealPops ==
  ASSUME CandidateTypeInv, SealInv, PopTodo, PopCopies, PopMade
  PROVE  SealInv'
<1>. DEFINE seal == Candidate!Stage("seal")
<1>1. /\ \A x : Left(x) <=> x = Now \/ Left(x)'
      /\ \A x : Left(x)' => Precedes(Now, x)
      /\ \A x \in Milestones : 0 < Rank(Now) /\ Rank(Now) < Rank(x) => Left(x)'
  BY PopLeft
<1>2. /\ Rank(seal) = 6 /\ seal \in Milestones
      /\ Is("copy") \/ Is("install") => Rank(Now) = 5
      /\ Is("seal") <=> Now = seal
      /\ Now[1] \in {"convert", "browse"} => Rank(Now) = 8
  BY RankOf DEF Is, StepNames
<1>3. SealInv' <=> /\ Left(seal)' => cmade' = <<>>
                   /\ Left(seal)' \/ \A p \in Candidate!Copied : AsSealed(p)' \/ Shows(p)'
  BY DEF SealInv, LeftStage, Left, In, Candidate!Stage
<1>4. /\ Left(seal) => cmade = <<>>
      /\ Left(seal) \/ \A p \in Candidate!Copied : AsSealed(p) \/ Shows(p)
  BY DEF SealInv, LeftStage
<1>. HIDE DEF seal
<1>5. Left(seal)' => cmade' = <<>>
  <2>. SUFFICES ASSUME Left(seal)' PROVE cmade' = <<>>
    OBVIOUS
  <2>1. Precedes(Now, seal) /\ cmade = <<>>
    BY <1>1, <1>4
  <2>2. ~(Rank(Now) = 8)
    BY <1>2, <2>1 DEF Precedes
  <2>. QED  BY <1>2, <2>1, <2>2 DEF PopMade
<1>6. ASSUME ~Left(seal)', NEW p \in Candidate!Copied
      PROVE  AsSealed(p)' \/ Shows(p)'
  <2>1. CASE Now = seal
    <3>1. ccopies' = ccopies /\ csealed' = ccopies
      BY <1>2, <2>1 DEF PopCopies
    <3>. QED  BY <3>1 DEF AsSealed
  <2>2. CASE Now # seal
    <3>1. ~Left(seal) /\ ~Is("copy") /\ ~Is("install")
      BY <1>1, <1>2, <1>6, <2>2
    <3>2. ccopies' = ccopies /\ csealed' = csealed
      BY <1>2, <2>2, <3>1 DEF PopCopies
    <3>. QED  BY <1>4, <3>1, <3>2 DEF AsSealed, Shows, Candidate!Nothing
  <2>. QED  BY <2>1, <2>2
<1>. QED  BY <1>3, <1>5, <1>6 DEF seal

LEMMA MadePops ==
  ASSUME CandidateTypeInv, SealInv, MadeInv, PopTodo, PopCopies, PopMade
  PROVE  MadeInv'
<1>. DEFINE seal == Candidate!Stage("seal")
            C(r, s) == <<"convert", r, s>>
            B(r, s) == <<"browse", r, s>>
            F(r, s) == <<"confirm", r, s>>
            converter == csealed["converter"].content
            fonts == csealed["fonts"].content
<1>1. /\ \A x : Left(x) <=> x = Now \/ Left(x)'
      /\ \A x : Left(x) /\ 0 < Rank(x) => ~(Rank(x) < Rank(Now))
      /\ \A x \in Milestones : 0 < Rank(Now) /\ Rank(Now) < Rank(x) => Left(x)'
      /\ Now \in Stages
  BY PopLeft
<1>2. /\ Rank(seal) = 6 /\ seal \in Milestones
      /\ Is("copy") \/ Is("install") => Rank(Now) = 5
      /\ Is("seal") <=> Now = seal
      /\ \A x : x[1] \in StepNames => Rank(x) = 8
      /\ {"convert", "browse", "confirm"} \subseteq StepNames
  BY RankOf DEF Is, StepNames
<1>3. ASSUME Now[1] \in StepNames PROVE Now = <<Now[1], Now[2], Now[3]>>
  <2>1. \A n \in StepNames : n \notin WholeNames
    BY DEF StepNames, WholeNames
  <2>. QED  BY <1>1, <1>3, <2>1, StageFacts DEF Stages
<1>4. ASSUME NEW r, NEW s, Now = C(r, s)
      PROVE  Left(B(r, s))' /\ Left(F(r, s))'
  <2>1. Now[1] = "convert" /\ Now[2] = r /\ Now[3] = s
    BY <1>4
  <2>2. In(B(r, s), Tail(ctodo)) /\ In(F(r, s), Tail(ctodo))
    BY <2>1, NextInARow DEF PopTodo, Now
  <2>. QED  BY <2>2, PopLeft
<1>5. ASSUME ctodo' # <<>>, NEW r, NEW s, Head(ctodo') = F(r, s)
      PROVE  Now = C(r, s)
  <2>. DEFINE u == Tail(ctodo)
  <2>1. /\ u # <<>> /\ Head(u) = F(r, s)
        /\ Head(u)[1] = "confirm" /\ Head(u)[2] = r /\ Head(u)[3] = s
    BY <1>5 DEF PopTodo
  <2>2. u # <<>> /\ Head(u)[1] = "confirm" => Now = <<"convert", Head(u)[2], Head(u)[3]>>
    BY NextInARow DEF PopTodo, Now
  <2>. QED  BY <2>1, <2>2
<1>6. MadeInv' <=>
        \A r \in {1, 2} : \A s \in Sources :
          /\ \/ Left(C(r, s))'
             \/ /\ <<r, s>> \in DOMAIN cmade'
                /\ AsSealed("converter")' =>
                     cmade'[<<r, s>>].converter = csealed'["converter"].content
          /\ \/ Left(B(r, s))'
             \/ /\ <<r, s>> \in DOMAIN cmade'
                /\ AsSealed("fonts")' =>
                     cmade'[<<r, s>>].fonts = csealed'["fonts"].content
          /\ \/ Left(F(r, s))'
             \/ <<r, s>> \in DOMAIN cmade' /\ cmade'[<<r, s>>].source = 0
          /\ ctodo' # <<>> /\ Head(ctodo') = F(r, s) =>
               <<r, s>> \in DOMAIN cmade' /\ cmade'[<<r, s>>].source = cstaged'
  BY DEF MadeInv, Left, In, AsSealed
<1>7. \A r \in {1, 2} : \A s \in Sources :
        /\ \/ Left(C(r, s))
           \/ /\ <<r, s>> \in DOMAIN cmade
              /\ AsSealed("converter") => cmade[<<r, s>>].converter = converter
        /\ \/ Left(B(r, s))
           \/ /\ <<r, s>> \in DOMAIN cmade
              /\ AsSealed("fonts") => cmade[<<r, s>>].fonts = fonts
        /\ \/ Left(F(r, s))
           \/ <<r, s>> \in DOMAIN cmade /\ cmade[<<r, s>>].source = 0
        /\ F(r, s) = Now =>
             <<r, s>> \in DOMAIN cmade /\ cmade[<<r, s>>].source = cstaged
  BY DEF MadeInv, PopTodo, Now
<1>8. CASE Left(seal)
  <2>1. cmade = <<>> /\ ~(6 < Rank(Now)) /\ cmade' = cmade
    <3>1. cmade = <<>> /\ ~(6 < Rank(Now))
      BY <1>1, <1>2, <1>8 DEF SealInv, LeftStage
    <3>2. Now[1] \notin {"convert", "browse"}
      BY <1>2, <3>1
    <3>. QED  BY <3>1, <3>2 DEF PopMade
  <2>2. \A x : x[1] \in StepNames => Now # x
    BY <1>2, <2>1
  <2>3. \A r \in {1, 2} : \A s \in Sources : <<r, s>> \notin DOMAIN cmade
    BY <2>1
  <2>4. \A r \in {1, 2} : \A s \in Sources :
          Left(C(r, s)) /\ Left(B(r, s)) /\ Left(F(r, s))
    BY <1>7, <2>3
  <2>5. \A r, s : Now # C(r, s) /\ Now # B(r, s) /\ Now # F(r, s)
    BY <1>2, <2>2
  <2>6. \A r \in {1, 2} : \A s \in Sources :
          Left(C(r, s))' /\ Left(B(r, s))' /\ Left(F(r, s))'
    BY <1>1, <2>4, <2>5
  <2>7. \A r, s : ~(ctodo' # <<>> /\ Head(ctodo') = F(r, s))
    BY <1>5, <2>5
  <2>. QED  BY <1>6, <2>6, <2>7
<1>9. CASE ~Left(seal)
  <2>1. ccopies' = ccopies /\ csealed' = csealed
    <3>1. Now # seal /\ ~Is("copy") /\ ~Is("install")
      BY <1>1, <1>2, <1>9
    <3>. QED  BY <1>2, <3>1 DEF PopCopies
  <2>. SUFFICES
         ASSUME NEW r \in {1, 2}, NEW s \in Sources
         PROVE  /\ \/ Left(C(r, s))'
                   \/ /\ <<r, s>> \in DOMAIN cmade'
                      /\ AsSealed("converter") => cmade'[<<r, s>>].converter = converter
                /\ \/ Left(B(r, s))'
                   \/ /\ <<r, s>> \in DOMAIN cmade'
                      /\ AsSealed("fonts") => cmade'[<<r, s>>].fonts = fonts
                /\ \/ Left(F(r, s))'
                   \/ <<r, s>> \in DOMAIN cmade' /\ cmade'[<<r, s>>].source = 0
                /\ ctodo' # <<>> /\ Head(ctodo') = F(r, s) =>
                     <<r, s>> \in DOMAIN cmade' /\ cmade'[<<r, s>>].source = cstaged'
    BY <1>6, <2>1 DEF AsSealed
  <2>. DEFINE k == <<r, s>>
  <2>2. CASE Now = C(r, s)
    <3>1. /\ Now[1] = "convert" /\ Now[2] = r /\ Now[3] = s /\ Key = k
      BY <2>2 DEF Key
    <3>2. /\ k \in DOMAIN cmade' /\ cmade'[k].source = cstaged
          /\ cmade'[k].converter = ccopies["converter"].content
          /\ cstaged' = cstaged
      BY <3>1 DEF PopMade
    <3>3. Left(B(r, s))' /\ Left(F(r, s))'
      BY <1>4, <2>2
    <3>4. AsSealed("converter") => cmade'[k].converter = converter
      BY <3>2 DEF AsSealed
    <3>. QED  BY <3>2, <3>3, <3>4
  <2>3. CASE Now = B(r, s)
    <3>1. /\ Now[1] = "browse" /\ Now[2] = r /\ Now[3] = s /\ Key = k
          /\ Now # C(r, s) /\ Now # F(r, s)
      BY <2>3 DEF Key
    <3>2. /\ k \in DOMAIN cmade' /\ cmade'[k].source = cmade[k].source
          /\ cmade'[k].converter = cmade[k].converter
          /\ cmade'[k].fonts = ccopies["fonts"].content
      BY <3>1 DEF PopMade
    <3>3. AsSealed("fonts") => cmade'[k].fonts = fonts
      BY <3>2 DEF AsSealed
    <3>4. ~(ctodo' # <<>> /\ Head(ctodo') = F(r, s))
      BY <1>5, <3>1
    <3>5. \/ Left(C(r, s))'
          \/ AsSealed("converter") => cmade[k].converter = converter
      BY <1>1, <1>7, <3>1
    <3>6. Left(F(r, s))' \/ cmade[k].source = 0
      BY <1>1, <1>7, <3>1
    <3>. HIDE DEF C, B, F, k, converter, fonts
    <3>. QED  BY <3>2, <3>3, <3>4, <3>5, <3>6 DEF k
  <2>4. CASE Now # C(r, s) /\ Now # B(r, s)
    <3>1. k \in DOMAIN cmade => k \in DOMAIN cmade' /\ cmade'[k] = cmade[k]
      <4>1. CASE Now[1] \in {"convert", "browse"}
        <5>1. Key # k
          BY <1>2, <1>3, <2>4, <4>1 DEF Key
        <5>. QED  BY <4>1, <5>1 DEF PopMade
      <4>2. CASE Now[1] \notin {"convert", "browse"}
        BY <4>2 DEF PopMade
      <4>. QED  BY <4>1, <4>2
    <3>2. ~(ctodo' # <<>> /\ Head(ctodo') = F(r, s))
      BY <1>5, <2>4
    <3>3. Now = F(r, s) => cstaged = 0
      BY DEF PopMade
    <3>4. Left(C(r, s))' \/ ~Left(C(r, s))
      BY <1>1, <2>4
    <3>5. Left(B(r, s))' \/ ~Left(B(r, s))
      BY <1>1, <2>4
    <3>6. Left(F(r, s))' \/ ~Left(F(r, s)) \/ Now = F(r, s)
      BY <1>1
    <3>. HIDE DEF C, B, F, k, converter, fonts
    <3>. QED  BY <1>7, <3>1, <3>2, <3>3, <3>4, <3>5, <3>6 DEF k
  <2>. QED  BY <2>2, <2>3, <2>4
<1>. QED  BY <1>8, <1>9

LEMMA WrittenPops ==
  ASSUME CandidateTypeInv, SealInv, MadeInv, WrittenInv, PopTodo, PopCopies, PopMade, PopManifest
  PROVE  WrittenInv'
<1>. DEFINE isolation == Candidate!Stage("isolation")
            write == Candidate!Stage("write")
            accept == Candidate!Stage("accept")
            C(r, s) == <<"convert", r, s>>
            B(r, s) == <<"browse", r, s>>
            zero(m) == /\ \A f \in Candidate!Scope : m.scope[f] = 0
                       /\ \A p \in Candidate!Copied : m.artifacts[p] = 0
<1>1. /\ \A x : Left(x) <=> x = Now \/ Left(x)'
      /\ \A x : Left(x) /\ 0 < Rank(x) => ~(Rank(x) < Rank(Now))
      /\ \A x \in Milestones : 0 < Rank(Now) /\ Rank(Now) < Rank(x) => Left(x)'
  BY PopLeft
<1>2. /\ Rank(isolation) = 5 /\ Rank(write) = 10 /\ Rank(accept) = 11
      /\ write \in Milestones /\ accept \in Milestones
      /\ Is("write") <=> Now = write
      /\ Is("accept") <=> Now = accept
      /\ Is("isolation") <=> Now = isolation
      /\ \A x : x[1] \in {"convert", "browse"} => Rank(x) = 8
      /\ write[1] = "write"
  BY RankOf DEF Is, StepNames, Candidate!Stage
<1>3. WrittenInv' <=>
        /\ Left(isolation)' \/ (cportable' => Candidate!Isolated')
        /\ Left(write)' \/ (Manifests(cmanifest)' /\ MadeOf(cmanifest)')
        /\ Left(accept)' \/ zero(cmanifest')
  BY DEF WrittenInv, LeftStage, Left, In, Candidate!Stage, Candidate!Scope, Candidate!Copied,
    Candidate!Programs
<1>4. /\ Left(isolation) \/ (cportable => Candidate!Isolated)
      /\ Left(write) \/ (Manifests(cmanifest) /\ MadeOf(cmanifest))
      /\ Left(accept) \/ zero(cmanifest)
  BY DEF WrittenInv, LeftStage
<1>. HIDE DEF isolation, write, accept
<1>5. Left(isolation)' \/ (cportable' => Candidate!Isolated')
  <2>1. Candidate!Isolated' <=> Candidate!Isolated
    BY DEF PopManifest, Candidate!Isolated
  <2>2. cportable' = cportable /\ (Now = isolation /\ cportable => Candidate!Isolated)
    BY <1>2 DEF PopManifest
  <2>. QED  BY <1>1, <1>4, <2>1, <2>2
<1>6. Left(write)' \/ (Manifests(cmanifest)' /\ MadeOf(cmanifest)')
  <2>1. CASE Now = write
    <3>1. /\ ccopies = csealed /\ cmade' = cmade
          /\ cmanifest'.artifacts = [p \in Candidate!Copied |-> ccopies[p].content]
          /\ cmanifest' = [status |-> cmanifest'.status, scope |-> cmanifest'.scope,
                           artifacts |-> cmanifest'.artifacts]
      <4>1. ~Is("accept") /\ ~Is("publish") /\ Is("write")
        BY <1>2, <2>1, RankOf DEF Is
      <4>2. Now[1] \notin {"convert", "browse"}
        BY <1>2, <2>1
      <4>. QED  BY <4>1, <4>2 DEF PopManifest, PopMade
    <3>2. ASSUME NEW r \in {1, 2}, NEW s \in Sources
          PROVE  ~Left(C(r, s)) /\ ~Left(B(r, s))
      <4>1. Rank(C(r, s)) = 8 /\ Rank(B(r, s)) = 8
        BY <1>2
      <4>. HIDE DEF C, B
      <4>. QED  BY <1>1, <1>2, <2>1, <4>1
    <3>3. ASSUME NEW r \in {1, 2}, NEW s \in Sources
          PROVE  /\ cmade[<<r, s>>].converter = ccopies["converter"].content
                 /\ cmade[<<r, s>>].fonts = ccopies["fonts"].content
      BY <3>1, <3>2 DEF MadeInv, AsSealed
    <3>4. "converter" \in Candidate!Copied /\ "fonts" \in Candidate!Copied
      BY DEF Candidate!Copied, Candidate!Programs
    <3>5. /\ cmanifest'.artifacts["converter"] = ccopies["converter"].content
          /\ cmanifest'.artifacts["fonts"] = ccopies["fonts"].content
      BY <3>1, <3>4
    <3>. QED  BY <3>1, <3>3, <3>5 DEF Manifests, MadeOf
  <2>2. CASE Now # write /\ ~Left(write)'
    <3>1. Manifests(cmanifest) /\ MadeOf(cmanifest)
      BY <1>1, <1>4, <2>2
    <3>2. Now[1] \notin {"convert", "browse"}
      BY <1>1, <1>2, <2>2
    <3>3. cmade' = cmade
      BY <3>2 DEF PopMade
    <3>4. cmanifest' = cmanifest \/ cmanifest' = [cmanifest EXCEPT !.status = "READY"]
      BY <1>2, <2>2 DEF PopManifest
    <3>5. /\ cmanifest'.artifacts = cmanifest.artifacts
          /\ cmanifest' = [status |-> cmanifest'.status, scope |-> cmanifest'.scope,
                           artifacts |-> cmanifest'.artifacts]
      BY <3>1, <3>4 DEF Manifests
    <3>. QED  BY <3>1, <3>3, <3>5 DEF Manifests, MadeOf
  <2>. QED  BY <2>1, <2>2
<1>7. Left(accept)' \/ zero(cmanifest')
  <2>1. CASE Now = accept
    <3>1. cmanifest' = cmanifest /\ Candidate!Valid
      BY <1>2, <2>1, RankOf DEF PopManifest, Is
    <3>2. \A f \in Candidate!Scope : cmanifest.scope[f] = 0
      BY <3>1 DEF Candidate!Valid, Candidate!ScopeIsBound
    <3>3. \A p \in Candidate!Copied : cmanifest.artifacts[p] = 0
      BY <3>1 DEF Candidate!Valid, Candidate!ArtifactsAreBound, Candidate!FontsAreBound,
        Candidate!ToolsAreLocked, Candidate!Copied, Candidate!Programs
    <3>. QED  BY <3>1, <3>2, <3>3
  <2>2. CASE Now # accept /\ ~Left(accept)'
    <3>1. ~Left(accept) /\ Now # write
      BY <1>1, <1>2, <2>2
    <3>2. \/ cmanifest' = cmanifest
          \/ Is("publish") /\ cmanifest' = [cmanifest EXCEPT !.status = "READY"]
      BY <1>2, <2>2, <3>1 DEF PopManifest
    <3>3. Is("publish") => ~Left(write)
      BY <1>1, <1>2, RankOf DEF Is
    <3>4. Is("publish") => Manifests(cmanifest)
      BY <1>4, <3>3
    <3>5. /\ zero(cmanifest)
          /\ cmanifest'.scope = cmanifest.scope /\ cmanifest'.artifacts = cmanifest.artifacts
      BY <1>4, <3>1, <3>2, <3>4 DEF Manifests
    <3>. QED  BY <3>5
  <2>. QED  BY <2>1, <2>2
<1>. QED  BY <1>3, <1>5, <1>6, <1>7 DEF isolation, write, accept

(* Ready is only what was accepted, and then nothing but a check is left.   *)
LEMMA ReadyPops ==
  ASSUME CandidateInv, cresult # "failed",
         PopTodo, PopCorpus, PopCopies, PopMade, PopManifest
  PROVE  ReadyInv'
<1>. DEFINE recheck == Candidate!Stage("recheck")
            body == /\ cloaded = 0 \/ cedits >= 5
                    /\ \A r \in {1, 2} : \A s \in Sources :
                         /\ cmade[<<r, s>>].source = 0 /\ cmade[<<r, s>>].converter = 0
                         /\ cmade[<<r, s>>].fonts = 0
                    /\ \A f \in Candidate!Scope : cmanifest.scope[f] = 0
                    /\ \A p \in Candidate!Copied : cmanifest.artifacts[p] = 0
                    /\ cportable => Candidate!Isolated
            ready(m) == m # Candidate!Nothing /\ m.status = "READY"
<1>1. Candidate!Ready <=> ready(cmanifest)
  BY DEF Candidate!Ready
<1>2. Candidate!AsAttested <=> (Candidate!Ready => body)
  BY DEF Candidate!AsAttested
<1>3. Candidate!AsAttested' <=> (Candidate!Ready' => body')
  BY DEF Candidate!AsAttested
<1>4. Candidate!Ready' <=> ready(cmanifest')
  BY DEF Candidate!Ready, Candidate!Nothing
<1>5. ReadyInv' <=> (Candidate!Ready' => ctodo' \in {<<recheck>>, <<>>} /\ Candidate!AsAttested')
  BY DEF ReadyInv, Candidate!Stage
<1>6. /\ \A x : Left(x) /\ 0 < Rank(x) => ~(Rank(x) < Rank(Now))
      /\ Now[1] = "publish" => Tail(ctodo) = <<recheck>>
  BY PopLeft, NextInARow DEF PopTodo, Now
<1>7. CASE Candidate!Ready
  <2>1. ctodo = <<recheck>> /\ body
    BY <1>2, <1>7 DEF CandidateInv, ReadyInv, PopTodo
  <2>2. Now = recheck /\ Tail(ctodo) = <<>>
    BY <2>1 DEF Now
  <2>3. /\ ~Is("list") /\ ~Is("write") /\ ~Is("accept") /\ ~Is("publish")
        /\ Now[1] \notin {"convert", "browse"}
    BY <2>2 DEF Is, Candidate!Stage
  <2>4. UNCHANGED <<cloaded, cedits, cmade, cmanifest, cportable, cdenied>>
    BY <2>3 DEF PopCorpus, PopMade, PopManifest
  <2>5. body'
    BY <2>1, <2>4 DEF Candidate!Isolated, Candidate!Scope, Candidate!Copied
  <2>6. ctodo' = <<>>
    BY <2>2 DEF PopTodo
  <2>. QED  BY <1>3, <1>5, <2>5, <2>6
<1>8. CASE ~Candidate!Ready /\ ~Is("publish")
  <2>1. ~ready(cmanifest')
    BY <1>1, <1>8 DEF PopManifest
  <2>. QED  BY <1>4, <1>5, <2>1
<1>9. CASE Is("publish")
  <2>1. /\ ctodo' = <<recheck>> /\ Rank(Now) = 12
        /\ Now[1] \notin {"convert", "browse"} /\ ~Is("list")
        /\ ~Is("write") /\ ~Is("accept")
    <3>1. Now[1] = "publish" /\ Rank(Now) = 12
      BY <1>9, RankOf DEF Is, Candidate!Stage
    <3>. QED  BY <1>6, <3>1 DEF PopTodo, Is, Candidate!Stage
  <2>2. /\ ~LeftStage("isolation") /\ ~LeftStage("write") /\ ~LeftStage("accept")
        /\ \A r, s : ~Left(<<"convert", r, s>>) /\ ~Left(<<"confirm", r, s>>)
    <3>1. \A x : Rank(x) \in {5, 8, 10, 11} => ~Left(x)
      BY <1>6, <2>1
    <3>2. \A r, s : Rank(<<"convert", r, s>>) = 8 /\ Rank(<<"confirm", r, s>>) = 8
      BY RankOf DEF StepNames
    <3>. QED  BY <3>1, <3>2, RankOf DEF LeftStage
  <2>3. body
    <3>1. CorpusInv /\ MadeInv /\ WrittenInv
      BY DEF CandidateInv
    <3>2. cloaded = 0 \/ cedits >= 5
      BY <2>2, <3>1 DEF CorpusInv
    <3>3. /\ Manifests(cmanifest) /\ MadeOf(cmanifest)
          /\ \A f \in Candidate!Scope : cmanifest.scope[f] = 0
          /\ \A p \in Candidate!Copied : cmanifest.artifacts[p] = 0
          /\ cportable => Candidate!Isolated
      BY <2>2, <3>1 DEF WrittenInv
    <3>4. ASSUME NEW r \in {1, 2}, NEW s \in Sources
          PROVE  /\ cmade[<<r, s>>].source = 0 /\ cmade[<<r, s>>].converter = 0
                 /\ cmade[<<r, s>>].fonts = 0
      <4>1. cmade[<<r, s>>].source = 0
        BY <2>2, <3>1 DEF MadeInv
      <4>2. "converter" \in Candidate!Copied /\ "fonts" \in Candidate!Copied
        BY DEF Candidate!Copied, Candidate!Programs
      <4>. QED  BY <3>3, <4>1, <4>2 DEF MadeOf
    <3>. QED  BY <3>2, <3>3, <3>4
  <2>4. /\ UNCHANGED <<cloaded, cedits, cmade, cportable, cdenied>>
        /\ cmanifest'.scope = cmanifest.scope /\ cmanifest'.artifacts = cmanifest.artifacts
    <3>1. Manifests(cmanifest)
      BY <2>2 DEF CandidateInv, WrittenInv
    <3>2. cmanifest' = [cmanifest EXCEPT !.status = "READY"]
      BY <1>9, <2>1 DEF PopManifest
    <3>3. cmanifest'.scope = cmanifest.scope /\ cmanifest'.artifacts = cmanifest.artifacts
      BY <3>1, <3>2 DEF Manifests
    <3>. QED  BY <2>1, <3>3 DEF PopCorpus, PopMade, PopManifest
  <2>5. body'
    BY <2>3, <2>4 DEF Candidate!Isolated, Candidate!Scope, Candidate!Copied
  <2>. QED  BY <1>3, <1>5, <2>1, <2>5
<1>. QED  BY <1>7, <1>8, <1>9

(* A stage that fails.                                                      *)
Attests == <<cloaded, cedits, cmade, cmanifest, cportable, cdenied>>
Failed ==
  /\ ctodo # <<>> /\ Good(ctodo) /\ ctodo' = <<>> /\ cresult' = "failed"
  /\ UNCHANGED <<cdisk, cedits>>
  /\ \/ cmanifest' = cmanifest \/ cmanifest' = Candidate!Nothing
     \/ cmanifest'.status = "pending"
  /\ Is("recheck") => UNCHANGED Attests

Popped == PopMove /\ cresult' # "failed"

LEMMA HeadStage ==
  ASSUME CandidateTypeInv, NEW n \in WholeNames \cup StepNames, Candidate!At(n)
  PROVE  /\ ctodo # <<>> /\ Good(ctodo) /\ Now[1] = n /\ cresult # "failed"
         /\ n \in WholeNames => Is(n)
         /\ n \in StepNames => /\ Candidate!Run \in {1, 2} /\ Candidate!Source \in Sources
                               /\ Key = <<Candidate!Run, Candidate!Source>>
<1>1. ctodo # <<>> /\ Now[1] = n /\ cresult # "failed"
  BY DEF Candidate!At, Now, CandidateTypeInv
<1>2. Good(ctodo)
  <2>. SUFFICES ASSUME ctodo = <<Candidate!Stage("launch")>> PROVE FALSE
    BY DEF CandidateTypeInv
  <2>1. Now[1] = "launch"
    BY DEF Now, Candidate!Stage
  <2>2. "launch" \notin WholeNames \cup StepNames
    BY DEF WholeNames, StepNames
  <2>. QED  BY <1>1, <2>1, <2>2
<1>3. Now \in Stages
  BY <1>1, <1>2, StageOver DEF Now
<1>4. \A m \in StepNames : m \notin WholeNames
  BY DEF WholeNames, StepNames
<1>5. n \in WholeNames => Is(n)
  BY <1>1, <1>3, <1>4, StageFacts DEF Stages, Is
<1>6. n \in StepNames => /\ Candidate!Run \in {1, 2} /\ Candidate!Source \in Sources
                         /\ Key = <<Candidate!Run, Candidate!Source>>
  BY <1>1, <1>3, <1>4, StageFacts DEF Stages, Candidate!Run, Candidate!Source, Now, Key
<1>. QED  BY <1>1, <1>2, <1>5, <1>6

LEMMA IsName == \A n : Is(n) => Now[1] = n
BY DEF Is, Candidate!Stage

LEMMA Proceeds ==
  ASSUME ctodo # <<>>, Good(ctodo), cresult # "failed"
  PROVE  /\ Candidate!Proceed(FALSE) => ctodo' = <<>> /\ cresult' = "failed"
         /\ Candidate!Proceed(TRUE) => PopTodo /\ cresult' # "failed"
BY DEF Candidate!Proceed, PopTodo

(* Most stages only look.                                                   *)
LEMMA Looks ==
  ASSUME CandidateTypeInv, NEW n \in WholeNames \cup StepNames,
         Candidate!At(n),
         n \notin {"list", "copy", "install", "seal", "convert", "browse", "write", "accept",
                  "publish"},
         UNCHANGED <<cdisk, cedits, cportable, cdenied, cloaded, ccopies, csealed, cmade,
                     cmanifest>>,
         cstaged' = cstaged \/ n = "stage",
         \/ Candidate!Proceed(FALSE)
         \/ /\ Candidate!Proceed(TRUE)
            /\ n = "attest" => cdisk["corpus"] = 0
            /\ n = "relist" => cdisk["corpus"] = cloaded
            /\ n = "isolation" => (cportable => Candidate!Isolated)
            /\ n = "confirm" => cstaged = 0
  PROVE  Failed \/ Popped
<1>1. ctodo # <<>> /\ Good(ctodo) /\ Now[1] = n /\ cresult # "failed"
  BY HeadStage
<1>2. CASE ctodo' = <<>> /\ cresult' = "failed"
  BY <1>1, <1>2 DEF Failed, Attests
<1>3. CASE /\ PopTodo /\ cresult' # "failed"
           /\ n = "attest" => cdisk["corpus"] = 0
           /\ n = "relist" => cdisk["corpus"] = cloaded
           /\ n = "isolation" => (cportable => Candidate!Isolated)
           /\ n = "confirm" => cstaged = 0
  <2>1. \A m : m # n => ~Is(m)
    BY <1>1, IsName
  <2>2. /\ ~Is("list") /\ ~Is("copy") /\ ~Is("install") /\ ~Is("seal") /\ ~Is("write")
        /\ ~Is("accept") /\ ~Is("publish")
    BY <2>1
  <2>3. /\ Is("attest") => n = "attest"
        /\ Is("relist") => n = "relist"
        /\ Is("isolation") => n = "isolation"
    BY <2>1
  <2>4. PopCorpus
    BY <1>3, <2>2, <2>3 DEF PopCorpus
  <2>5. PopCopies
    BY <2>2 DEF PopCopies
  <2>6. PopMade
    BY <1>1, <1>3 DEF PopMade
  <2>7. PopManifest
    BY <1>3, <2>2, <2>3 DEF PopManifest
  <2>. QED  BY <1>3, <2>4, <2>5, <2>6, <2>7 DEF PopMove, Popped
<1>. QED  BY <1>1, <1>2, <1>3, Proceeds

LEMMA LooksOnly ==
  ASSUME CandidateTypeInv,
         \/ Candidate!Resolve \/ Candidate!Probe \/ Candidate!RequireIsolation
         \/ Candidate!Attest \/ Candidate!Record \/ Candidate!Validate \/ Candidate!Recheck
         \/ Candidate!Relist \/ Candidate!Hash \/ Candidate!StageSource \/ Candidate!Confirm
         \/ Candidate!Measure \/ Candidate!Shoot \/ Candidate!RunSecurity \/ Candidate!Compare
  PROVE  Failed \/ Popped
<1>. USE DEF Candidate!world, Candidate!process, Candidate!runtime, Candidate!source,
             Candidate!runs
<1>0. /\ \A n \in {"resolve", "probe", "isolation", "attest", "record", "validate", "recheck",
                   "relist", "security", "compare"} : n \in WholeNames \cup StepNames
      /\ \A n \in {"hash", "stage", "confirm", "measure", "shoot"} :
           n \in WholeNames \cup StepNames
  BY DEF WholeNames, StepNames
<1>1. CASE Candidate!Resolve
  <2>1. Candidate!Proceed(TRUE) \/ Candidate!Proceed(FALSE)
    BY <1>1 DEF Candidate!Resolve, Candidate!Proceed
  <2>. QED  BY <1>0, <1>1, <2>1, Looks DEF Candidate!Resolve
<1>2. CASE Candidate!Probe
  <2>1. Candidate!Proceed(TRUE) \/ Candidate!Proceed(FALSE)
    BY <1>2 DEF Candidate!Probe, Candidate!Proceed
  <2>. QED  BY <1>0, <1>2, <2>1, Looks DEF Candidate!Probe
<1>3. CASE Candidate!RequireIsolation
  <2>1. \/ Candidate!Proceed(FALSE)
        \/ Candidate!Proceed(TRUE) /\ (cportable => Candidate!Isolated)
    BY <1>3 DEF Candidate!RequireIsolation, Candidate!Proceed
  <2>. QED  BY <1>0, <1>3, <2>1, Looks DEF Candidate!RequireIsolation
<1>4. CASE Candidate!Attest
  <2>1. \/ Candidate!Proceed(FALSE)
        \/ Candidate!Proceed(TRUE) /\ cdisk["corpus"] = 0
    BY <1>4 DEF Candidate!Attest, Candidate!Proceed, Candidate!Attested, Candidate!Scope
  <2>. QED  BY <1>0, <1>4, <2>1, Looks DEF Candidate!Attest
<1>5. CASE Candidate!Record
  BY <1>0, <1>5, Looks DEF Candidate!Record
<1>6. CASE Candidate!Validate
  <2>1. Candidate!Proceed(TRUE) \/ Candidate!Proceed(FALSE)
    BY <1>6 DEF Candidate!Validate, Candidate!Proceed
  <2>. QED  BY <1>0, <1>6, <2>1, Looks DEF Candidate!Validate
<1>7. CASE Candidate!Recheck
  <2>1. Candidate!Proceed(TRUE) \/ Candidate!Proceed(FALSE)
    BY <1>7 DEF Candidate!Recheck, Candidate!Proceed
  <2>. QED  BY <1>0, <1>7, <2>1, Looks DEF Candidate!Recheck
<1>8. CASE Candidate!Relist
  <2>1. \/ Candidate!Proceed(FALSE)
        \/ Candidate!Proceed(TRUE) /\ cdisk["corpus"] = cloaded
    BY <1>8 DEF Candidate!Relist, Candidate!Proceed
  <2>. QED  BY <1>0, <1>8, <2>1, Looks DEF Candidate!Relist
<1>9. CASE Candidate!Hash
  BY <1>0, <1>9, Looks DEF Candidate!Hash
<1>10. CASE Candidate!StageSource
  <2>1. Candidate!Proceed(TRUE) \/ Candidate!Proceed(FALSE)
    BY <1>10 DEF Candidate!StageSource, Candidate!Proceed
  <2>. QED  BY <1>0, <1>10, <2>1, Looks DEF Candidate!StageSource
<1>11. CASE Candidate!Confirm
  <2>1. \/ Candidate!Proceed(FALSE)
        \/ Candidate!Proceed(TRUE) /\ cstaged = 0
    BY <1>11 DEF Candidate!Confirm, Candidate!Proceed
  <2>. QED  BY <1>0, <1>11, <2>1, Looks DEF Candidate!Confirm
<1>12. CASE Candidate!Measure
  BY <1>0, <1>12, Looks DEF Candidate!Measure, Candidate!Produce
<1>13. CASE Candidate!Shoot
  BY <1>0, <1>13, Looks DEF Candidate!Shoot, Candidate!Produce
<1>14. CASE Candidate!RunSecurity
  <2>1. Candidate!Proceed(TRUE) \/ Candidate!Proceed(FALSE)
    BY <1>14 DEF Candidate!RunSecurity, Candidate!Proceed
  <2>. QED  BY <1>0, <1>14, <2>1, Looks DEF Candidate!RunSecurity
<1>15. CASE Candidate!Compare
  <2>1. Candidate!Proceed(TRUE) \/ Candidate!Proceed(FALSE)
    BY <1>15 DEF Candidate!Compare, Candidate!Proceed
  <2>. QED  BY <1>0, <1>15, <2>1, Looks DEF Candidate!Compare
<1>. QED  BY <1>1, <1>2, <1>3, <1>4, <1>5, <1>6, <1>7, <1>8, <1>9, <1>10, <1>11, <1>12, <1>13,
          <1>14, <1>15

(* The stages that prepare the runtime.                                     *)
LEMMA Prepares ==
  ASSUME CandidateTypeInv,
         \/ Candidate!List \/ Candidate!Copy \/ Candidate!Install \/ Candidate!Seal
  PROVE  Failed \/ Popped
<1>. USE DEF Candidate!world, Candidate!process, Candidate!runtime, Candidate!source,
             Candidate!runs
<1>0. \A n \in {"list", "copy", "install", "seal"} : n \in WholeNames \cup StepNames
  BY DEF WholeNames
<1>1. CASE Candidate!List
  <2>1. /\ ctodo # <<>> /\ Good(ctodo) /\ Now[1] = "list" /\ cresult # "failed" /\ Is("list")
    BY <1>0, <1>1, HeadStage DEF Candidate!List, WholeNames
  <2>2. \/ ctodo' = <<>> /\ cresult' = "failed"
        \/ PopTodo /\ cresult' # "failed"
    BY <1>1, <2>1 DEF Candidate!List, Candidate!Proceed, PopTodo
  <2>3. /\ UNCHANGED <<cdisk, cedits, cportable, cdenied, ccopies, csealed, cmade, cmanifest,
                       cstaged>>
        /\ cloaded' = cdisk["corpus"]
    BY <1>1 DEF Candidate!List
  <2>4. \A m : m # "list" => ~Is(m)
    BY <2>1, IsName
  <2>5. /\ ~Is("copy") /\ ~Is("install") /\ ~Is("seal") /\ ~Is("write") /\ ~Is("attest")
        /\ ~Is("accept") /\ ~Is("publish") /\ ~Is("relist") /\ ~Is("isolation") /\ ~Is("recheck")
    BY <2>4
  <2>6. PopCorpus /\ PopCopies /\ PopMade /\ PopManifest
    <3>1. PopCorpus
      BY <2>1, <2>3, <2>5 DEF PopCorpus
    <3>2. PopCopies
      BY <2>3, <2>5 DEF PopCopies
    <3>3. PopMade
      BY <2>1, <2>3 DEF PopMade
    <3>4. PopManifest
      BY <2>3, <2>5 DEF PopManifest
    <3>. QED  BY <3>1, <3>2, <3>3, <3>4
  <2>. QED  BY <2>1, <2>2, <2>3, <2>5, <2>6 DEF Failed, Popped, PopMove, Attests
<1>2. ASSUME NEW n \in {"copy", "install", "seal"},
             Candidate!At(n), Candidate!Proceed(TRUE),
             UNCHANGED <<cdisk, cedits, cportable, cdenied, cloaded, cmade, cmanifest, cstaged>>,
             n = "seal" => csealed' = ccopies /\ ccopies' = ccopies,
             n # "seal" => csealed' = csealed
      PROVE  Popped
  <2>1. /\ ctodo # <<>> /\ Good(ctodo) /\ Now[1] = n /\ cresult # "failed" /\ Is(n)
    BY <1>0, <1>2, HeadStage DEF WholeNames
  <2>2. PopTodo /\ cresult' # "failed"
    BY <1>2, <2>1, Proceeds
  <2>3. \A m : m # n => ~Is(m)
    BY <2>1, IsName
  <2>4. /\ ~Is("list") /\ ~Is("write") /\ ~Is("attest") /\ ~Is("accept") /\ ~Is("publish")
        /\ ~Is("relist") /\ ~Is("isolation") /\ (Is("seal") <=> n = "seal")
    BY <2>1, <2>3
  <2>5. PopCorpus /\ PopMade /\ PopManifest
    BY <1>2, <2>1, <2>4 DEF PopCorpus, PopMade, PopManifest
  <2>6. PopCopies
    <3>1. Is("copy") \/ Is("install") \/ n = "seal"
      BY <1>2, <2>1
    <3>. QED  BY <1>2, <2>4, <3>1 DEF PopCopies
  <2>. QED  BY <2>2, <2>5, <2>6 DEF Popped, PopMove
<1>3. CASE Candidate!Copy
  BY <1>2, <1>3 DEF Candidate!Copy
<1>4. CASE Candidate!Install
  BY <1>2, <1>4 DEF Candidate!Install
<1>5. CASE Candidate!Seal
  BY <1>2, <1>5 DEF Candidate!Seal
<1>. QED  BY <1>1, <1>3, <1>4, <1>5

(* The stages that make something of a source.                              *)
LEMMA Makes ==
  ASSUME CandidateTypeInv, Candidate!Convert \/ Candidate!Browse
  PROVE  Failed \/ Popped
<1>. USE DEF Candidate!world, Candidate!process, Candidate!runtime, Candidate!source,
             Candidate!runs
<1>. DEFINE k == <<Candidate!Run, Candidate!Source>>
<1>1. ASSUME NEW n \in {"convert", "browse"}, Candidate!At(n), Candidate!Produce,
             UNCHANGED <<cdisk, cedits, cportable, cdenied, cloaded, ccopies, csealed, cmanifest,
                         cstaged>>,
             NEW fields,
             cmade' = [y \in DOMAIN cmade \cup {k} |-> IF y = k THEN fields ELSE cmade[y]],
             n = "convert" => /\ fields.source = cstaged
                              /\ fields.converter = ccopies["converter"].content,
             n = "browse" => /\ fields.source = cmade[k].source
                             /\ fields.converter = cmade[k].converter
                             /\ fields.fonts = ccopies["fonts"].content
      PROVE  Failed \/ Popped
  <2>1. /\ ctodo # <<>> /\ Good(ctodo) /\ Now[1] = n /\ cresult # "failed" /\ Key = k
    BY <1>1, HeadStage DEF StepNames
  <2>2. \/ ctodo' = <<>> /\ cresult' = "failed"
        \/ PopTodo /\ cresult' # "failed"
    BY <1>1, <2>1, Proceeds DEF Candidate!Produce
  <2>3. \A m : m # n => ~Is(m)
    BY <2>1, IsName
  <2>4. /\ ~Is("copy") /\ ~Is("install") /\ ~Is("seal") /\ ~Is("write") /\ ~Is("attest")
        /\ ~Is("accept") /\ ~Is("publish") /\ ~Is("relist") /\ ~Is("isolation") /\ ~Is("recheck")
        /\ ~Is("list")
    BY <2>3
  <2>5. PopCorpus /\ PopCopies /\ PopManifest
    BY <1>1, <2>4 DEF PopCorpus, PopCopies, PopManifest
  <2>. HIDE DEF k
  <2>6. /\ DOMAIN cmade' = DOMAIN cmade \cup {Key} /\ cmade'[Key] = fields
        /\ \A y \in DOMAIN cmade : y # Key => cmade'[y] = cmade[y]
    BY <1>1, <2>1
  <2>7. PopMade
    BY <1>1, <2>1, <2>6 DEF PopMade
  <2>. QED  BY <1>1, <2>1, <2>2, <2>4, <2>5, <2>7 DEF Failed, Popped, PopMove, Attests
<1>2. CASE Candidate!Convert
  <2>. DEFINE fields == [source |-> cstaged, converter |-> Candidate!Running("converter"),
                         soffice |-> Candidate!Running("soffice")]
  <2>1. /\ fields.source = cstaged /\ fields.converter = ccopies["converter"].content
    BY DEF Candidate!Running, Candidate!Private
  <2>2. cmade' = [y \in DOMAIN cmade \cup {k} |-> IF y = k THEN fields ELSE cmade[y]]
    BY <1>2 DEF Candidate!Convert, Candidate!Made
  <2>3. PICK new : new = fields
    OBVIOUS
  <2>. HIDE DEF fields
  <2>. QED  BY <1>1, <1>2, <2>1, <2>2, <2>3 DEF Candidate!Convert
<1>3. CASE Candidate!Browse
  <2>. DEFINE fields == [source |-> cmade[k].source, converter |-> cmade[k].converter,
                         soffice |-> cmade[k].soffice,
                         fonts |-> Candidate!Running("fonts"),
                         browser |-> Candidate!Running("soffice")]
  <2>1. /\ fields.source = cmade[k].source /\ fields.converter = cmade[k].converter
        /\ fields.fonts = ccopies["fonts"].content
    BY DEF Candidate!Running, Candidate!Private
  <2>2. cmade' = [y \in DOMAIN cmade \cup {k} |-> IF y = k THEN fields ELSE cmade[y]]
    BY <1>3 DEF Candidate!Browse, Candidate!Made
  <2>3. PICK new : new = fields
    OBVIOUS
  <2>. HIDE DEF fields
  <2>. QED  BY <1>1, <1>3, <2>1, <2>2, <2>3 DEF Candidate!Browse
<1>. QED  BY <1>2, <1>3

(* The stages that write the manifest.                                      *)
LEMMA Writes ==
  ASSUME CandidateTypeInv, Candidate!Write \/ Candidate!Accept \/ Candidate!Publish
  PROVE  Failed \/ Popped
<1>. USE DEF Candidate!world, Candidate!process, Candidate!runtime, Candidate!source,
             Candidate!runs
<1>1. ASSUME NEW n \in {"write", "accept", "publish"}, Candidate!At(n),
             UNCHANGED <<cdisk, cedits, cportable, cdenied, cloaded, ccopies, csealed, cmade,
                         cstaged>>,
             \/ /\ Candidate!Proceed(FALSE)
                /\ cmanifest' = Candidate!Nothing \/ cmanifest'.status = "pending"
             \/ Candidate!Proceed(TRUE),
             Candidate!Proceed(TRUE) => PopManifest
      PROVE  Failed \/ Popped
  <2>1. /\ ctodo # <<>> /\ Good(ctodo) /\ Now[1] = n /\ cresult # "failed"
    BY <1>1, HeadStage DEF WholeNames
  <2>2. \A m : m # n => ~Is(m)
    BY <2>1, IsName
  <2>3. /\ ~Is("copy") /\ ~Is("install") /\ ~Is("seal") /\ ~Is("attest")
        /\ ~Is("relist") /\ ~Is("isolation") /\ ~Is("recheck") /\ ~Is("list")
    BY <2>2
  <2>4. PopCorpus /\ PopCopies /\ PopMade
    BY <1>1, <2>1, <2>3 DEF PopCorpus, PopCopies, PopMade
  <2>5. CASE Candidate!Proceed(TRUE)
    <3>1. PopTodo /\ cresult' # "failed"
      BY <2>1, <2>5, Proceeds
    <3>. QED  BY <1>1, <2>4, <2>5, <3>1 DEF Popped, PopMove
  <2>6. CASE Candidate!Proceed(FALSE)
               /\ (cmanifest' = Candidate!Nothing \/ cmanifest'.status = "pending")
    <3>1. ctodo' = <<>> /\ cresult' = "failed"
      BY <2>1, <2>6, Proceeds
    <3>. QED  BY <1>1, <2>1, <2>3, <2>6, <3>1 DEF Failed
  <2>. QED  BY <1>1, <2>5, <2>6
<1>2. \A m : Is(m) => Now[1] = m
  BY IsName
<1>3. CASE Candidate!Write
  <2>1. Is("write")
    BY <1>3, HeadStage DEF Candidate!Write, WholeNames
  <2>2. /\ cmanifest' = [status |-> "pending",
                         scope |-> [f \in Candidate!Scope |-> cdisk[f]],
                         artifacts |-> [p \in Candidate!Copied |-> ccopies[p].content]]
        /\ \/ Candidate!Proceed(FALSE)
           \/ Candidate!Proceed(TRUE) /\ ccopies = csealed
        /\ UNCHANGED <<cportable, cdenied>>
    BY <1>3 DEF Candidate!Write, Candidate!Proceed, Candidate!Unchanged
  <2>3. cmanifest'.status = "pending"
    BY <2>2
  <2>4. CASE Candidate!Proceed(TRUE) /\ ccopies = csealed
    <3>1. PopManifest
      BY <1>2, <2>1, <2>2, <2>4 DEF PopManifest
    <3>. QED  BY <1>1, <1>3, <2>4, <3>1 DEF Candidate!Write
  <2>5. CASE Candidate!Proceed(FALSE)
    <3>1. Candidate!Proceed(TRUE) => FALSE
      <4>1. ctodo # <<>> /\ Good(ctodo) /\ cresult # "failed"
        BY <1>3, HeadStage DEF Candidate!Write, WholeNames
      <4>. QED  BY <2>5, <4>1, Proceeds
    <3>. QED  BY <1>1, <1>3, <2>3, <2>5, <3>1 DEF Candidate!Write
  <2>. QED  BY <2>2, <2>4, <2>5
<1>4. CASE Candidate!Accept
  <2>1. Is("accept")
    BY <1>4, HeadStage DEF Candidate!Accept, WholeNames
  <2>2. CASE Candidate!Valid
    <3>1. Candidate!Proceed(TRUE) /\ cmanifest' = cmanifest
      BY <1>4, <2>2 DEF Candidate!Accept, Candidate!Proceed
    <3>2. PopManifest
      BY <1>2, <1>4, <2>1, <2>2, <3>1 DEF PopManifest, Candidate!Accept
    <3>. QED  BY <1>1, <1>4, <3>1, <3>2 DEF Candidate!Accept
  <2>3. CASE ~Candidate!Valid
    <3>1. Candidate!Proceed(FALSE) /\ cmanifest' = Candidate!Nothing
      BY <1>4, <2>3 DEF Candidate!Accept, Candidate!Proceed
    <3>2. Candidate!Proceed(TRUE) => FALSE
      <4>1. ctodo # <<>> /\ Good(ctodo) /\ cresult # "failed"
        BY <1>4, HeadStage DEF Candidate!Accept, WholeNames
      <4>. QED  BY <3>1, <4>1, Proceeds
    <3>. QED  BY <1>1, <1>4, <3>1, <3>2 DEF Candidate!Accept
  <2>. QED  BY <2>2, <2>3
<1>5. CASE Candidate!Publish
  <2>1. Is("publish")
    BY <1>5, HeadStage DEF Candidate!Publish, WholeNames
  <2>2. PopManifest
    BY <1>2, <1>5, <2>1 DEF PopManifest, Candidate!Publish
  <2>. QED  BY <1>1, <1>5, <2>2 DEF Candidate!Publish
<1>. QED  BY <1>3, <1>4, <1>5

Steps1 ==
  \/ Candidate!Resolve \/ Candidate!Probe \/ Candidate!RequireIsolation
  \/ Candidate!Attest \/ Candidate!Record \/ Candidate!Validate \/ Candidate!Recheck
  \/ Candidate!Relist \/ Candidate!Hash \/ Candidate!StageSource \/ Candidate!Confirm
  \/ Candidate!Measure \/ Candidate!Shoot \/ Candidate!RunSecurity \/ Candidate!Compare
Steps2 == Candidate!List \/ Candidate!Copy \/ Candidate!Install \/ Candidate!Seal
Steps3 == Candidate!Convert \/ Candidate!Browse
Steps4 == Candidate!Write \/ Candidate!Accept \/ Candidate!Publish

(* A capture without a sandbox leaves out the first stages, the program     *)
(* starts again in the sandbox, and it begins there.                        *)
Unmoved ==
  /\ UNCHANGED <<cportable, cdisk, cedits, cloaded, ccopies, csealed, cstaged, cmade, cmanifest,
                 cresult>>
Skips == Is("enter") /\ Good(ctodo) /\ ctodo # <<>> /\ ctodo' = SubSeq(ctodo, 5, Len(ctodo))
           /\ Unmoved /\ cdenied' = cdenied
Relaunches == Is("compare profiles") /\ Good(ctodo) /\ ctodo # <<>>
                /\ ctodo' = <<Candidate!Stage("launch")>> /\ Unmoved
Launches == ctodo = <<Candidate!Stage("launch")>> /\ ctodo' = Candidate!Plan /\ Unmoved

LEMMA StepKinds ==
  ASSUME CandidateTypeInv, Candidate!Step
  PROVE  Failed \/ Popped \/ Skips \/ Relaunches \/ Launches
<1>. USE DEF Candidate!world, Candidate!process, Candidate!runtime, Candidate!source,
             Candidate!runs
<1>1. CASE Steps1
  BY <1>1, LooksOnly DEF Steps1
<1>2. CASE Steps2
  BY <1>2, Prepares DEF Steps2
<1>3. CASE Steps3
  BY <1>3, Makes DEF Steps3
<1>4. CASE Steps4
  BY <1>4, Writes DEF Steps4
<1>5. CASE Candidate!Enter
  <2>1. ctodo # <<>> /\ Good(ctodo) /\ Is("enter")
    BY <1>5, HeadStage DEF Candidate!Enter, WholeNames
  <2>2. CASE cportable /\ cdisk["lock"] = 0
    <3>1. Candidate!Proceed(TRUE)
      BY <1>5, <2>2 DEF Candidate!Enter
    <3>2. "enter" \in WholeNames \cup StepNames
      BY DEF WholeNames
    <3>. QED  BY <1>5, <3>1, <3>2, Looks DEF Candidate!Enter
  <2>3. CASE ~(cportable /\ cdisk["lock"] = 0)
    BY <1>5, <2>1, <2>3 DEF Candidate!Enter, Skips, Unmoved
  <2>. QED  BY <2>2, <2>3
<1>6. CASE Candidate!CompareProfiles
  <2>1. ctodo # <<>> /\ Good(ctodo) /\ Is("compare profiles")
    BY <1>6, HeadStage DEF Candidate!CompareProfiles, WholeNames
  <2>2. CASE ctoken = cdisk["profile"]
    <3>1. Candidate!Proceed(TRUE)
      BY <1>6, <2>2 DEF Candidate!CompareProfiles
    <3>2. "compare profiles" \in WholeNames \cup StepNames
      BY DEF WholeNames
    <3>. QED  BY <1>6, <3>1, <3>2, Looks DEF Candidate!CompareProfiles
  <2>3. CASE ctoken # cdisk["profile"]
    BY <1>6, <2>1, <2>3 DEF Candidate!CompareProfiles, Relaunches, Unmoved
  <2>. QED  BY <2>2, <2>3
<1>7. CASE Candidate!Launch
  <2>1. ctodo = <<Candidate!Stage("launch")>>
    <3>. SUFFICES ASSUME Good(ctodo) PROVE FALSE
      BY DEF CandidateTypeInv
    <3>1. ctodo # <<>> /\ Now[1] = "launch"
      BY <1>7 DEF Candidate!Launch, Candidate!At, Now
    <3>2. Now \in Stages
      BY <3>1, StageOver DEF Now
    <3>3. "launch" \notin WholeNames \cup StepNames
      BY DEF WholeNames, StepNames
    <3>. QED  BY <3>1, <3>2, <3>3, StageFacts DEF Stages
  <2>. QED  BY <1>7, <2>1 DEF Candidate!Launch, Launches, Unmoved
<1>. QED
  BY <1>1, <1>2, <1>3, <1>4, <1>5, <1>6, <1>7
     DEF Candidate!Step, Steps1, Steps2, Steps3, Steps4

(* The type invariant.                                                      *)
LEMMA TodoStep ==
  ASSUME CandidateTypeInv, Candidate!Step
  PROVE  /\ (ctodo = <<Candidate!Stage("launch")>> \/ Good(ctodo))'
         /\ cresult' = "failed" => ctodo' = <<>>
<1>. DEFINE P(t) == t = <<Candidate!Stage("launch")>> \/ Good(t)
<1>0. P(ctodo') => (ctodo = <<Candidate!Stage("launch")>> \/ Good(ctodo))'
  BY Zenon DEF Good, Ordered, Follows, Entering, PublishIsLast, ThreeInARow, Stages, Whole, Parts,
    Candidate!Stage, Precedes, Rank, Milestones
<1>1. P(ctodo') /\ (cresult' = "failed" => ctodo' = <<>>)
  <2>1. CASE Failed
    BY <2>1, GoodEmpty DEF Failed
  <2>2. CASE Popped
    <3>1. Good(Tail(ctodo))
      BY <2>2, StageOver DEF Popped, PopMove, PopTodo
    <3>. QED  BY <2>2, <3>1 DEF Popped, PopMove, PopTodo
  <2>3. CASE Skips
    <3>1. 5 \in Nat /\ 5 >= 1
      OBVIOUS
    <3>2. Good(SubSeq(ctodo, 5, Len(ctodo)))
      BY <2>3, <3>1, GoodRest DEF Skips
    <3>3. cresult # "failed"
      BY <2>3 DEF Skips, CandidateTypeInv
    <3>. QED  BY <2>3, <3>2, <3>3 DEF Skips, Unmoved
  <2>4. CASE Relaunches
    <3>3. cresult # "failed"
      BY <2>4 DEF Relaunches, CandidateTypeInv
    <3>. QED  BY <2>4, <3>3 DEF Relaunches, Unmoved
  <2>5. CASE Launches
    <3>3. cresult # "failed"
      BY <2>5 DEF Launches, CandidateTypeInv
    <3>. QED  BY <2>5, <3>3, PlanIsGood DEF Launches, Unmoved
  <2>. QED  BY StepKinds, <2>1, <2>2, <2>3, <2>4, <2>5
<1>. HIDE DEF P
<1>. QED  BY SMTT(30), <1>0, <1>1

(* What any step does to the data that the type invariant is about.         *)
CopiesKept ==
  \/ ccopies' = ccopies
  \/ /\ ccopies' = [p \in Candidate!Copied |-> ccopies'[p]]
     /\ \A p \in Candidate!Copied :
          \/ ccopies'[p] = Candidate!Nothing
          \/ ccopies'[p] = ccopies[p]
          \/ ccopies'[p].changed \in Nat

LEMMA StepData ==
  ASSUME CandidateTypeInv, Candidate!Step
  PROVE  /\ UNCHANGED <<cdisk, cedits, cportable>>
         /\ cloaded' = cloaded \/ cloaded' = cdisk["corpus"]
         /\ CopiesKept
<1>. USE DEF Candidate!world, Candidate!process, Candidate!runtime, Candidate!source,
             Candidate!runs
<1>1. CASE Steps1
  BY <1>1 DEF CopiesKept, Steps1, Candidate!Resolve, Candidate!Probe, Candidate!RequireIsolation,
    Candidate!Attest, Candidate!Record, Candidate!Validate, Candidate!Recheck,
    Candidate!Relist, Candidate!Hash, Candidate!StageSource, Candidate!Confirm,
    Candidate!Measure, Candidate!Shoot, Candidate!RunSecurity, Candidate!Compare
<1>2. CASE Steps3 \/ Steps4
  BY <1>2 DEF CopiesKept, Steps3, Steps4, Candidate!Convert, Candidate!Browse, Candidate!Write,
    Candidate!Accept, Candidate!Publish
<1>3. CASE Candidate!List \/ Candidate!Seal
  BY <1>3 DEF CopiesKept, Candidate!List, Candidate!Seal
<1>4. CASE Candidate!Enter \/ Candidate!CompareProfiles \/ Candidate!Launch
  BY <1>4 DEF CopiesKept, Candidate!Enter, Candidate!CompareProfiles, Candidate!Launch
<1>5. CASE Candidate!Copy
  <2>1. \A c : Candidate!CopyOf(c).changed \in Nat
    BY DEF Candidate!CopyOf
  <2>2. ccopies' = [p \in Candidate!Copied |->
                  CASE p = "fonts" -> Candidate!Nothing
                    [] p = "bundle" -> Candidate!CopyOf(cdisk["fonts"])
                    [] OTHER -> Candidate!CopyOf(cdisk[p])]
    BY <1>5 DEF Candidate!Copy
  <2>3. ASSUME NEW p \in Candidate!Copied
        PROVE  ccopies'[p] = Candidate!Nothing \/ ccopies'[p].changed \in Nat
    <3>1. ccopies'[p] = IF p = "fonts" THEN Candidate!Nothing
                        ELSE IF p = "bundle" THEN Candidate!CopyOf(cdisk["fonts"])
                        ELSE Candidate!CopyOf(cdisk[p])
      BY <2>2
    <3>. QED  BY <2>1, <3>1, Zenon
  <2>4. ccopies' = [p \in Candidate!Copied |-> ccopies'[p]]
    BY <2>2
  <2>. QED  BY <1>5, <2>3, <2>4 DEF CopiesKept, Candidate!Copy
<1>6. CASE Candidate!Install
  <2>. DEFINE new == Candidate!CopyOf(ccopies["bundle"].content)
  <2>1. new.changed \in Nat
    BY DEF Candidate!CopyOf
  <2>2. ccopies' = [ccopies EXCEPT !["fonts"] = new] /\ ccopies = [p \in Candidate!Copied |-> ccopies[p]]
    BY <1>6 DEF Candidate!Install, CandidateTypeInv
  <2>. HIDE DEF new
  <2>3. ASSUME NEW p \in Candidate!Copied
        PROVE  ccopies'[p] = ccopies[p] \/ ccopies'[p].changed \in Nat
    BY <2>1, <2>2
  <2>4. ccopies' = [p \in Candidate!Copied |-> ccopies'[p]]
    BY <2>2
  <2>. QED  BY <1>6, <2>3, <2>4 DEF CopiesKept, Candidate!Install
<1>. QED
  BY <1>1, <1>2, <1>3, <1>4, <1>5, <1>6
     DEF Candidate!Step, Steps1, Steps2, Steps3, Steps4

LEMMA TypeStep ==
  ASSUME CandidateTypeInv, Candidate!Step
  PROVE  CandidateTypeInv'
<1>1. /\ (ctodo = <<Candidate!Stage("launch")>> \/ Good(ctodo))'
      /\ cresult' = "failed" => ctodo' = <<>>
  BY TodoStep
<1>2. /\ UNCHANGED <<cdisk, cedits>>
      /\ cloaded' = cloaded \/ cloaded' = cdisk["corpus"]
      /\ CopiesKept
  BY StepData
<1>3. cloaded' \in {0, 1}
  BY <1>2 DEF CandidateTypeInv, Candidate!Replaceable, Candidate!Scope
<1>4. ccopies' = [p \in Candidate!Copied |-> ccopies'[p]]
  BY <1>2 DEF CopiesKept, CandidateTypeInv
<1>5. \A p \in Candidate!Copied :
        ccopies'[p] = Candidate!Nothing \/ ccopies'[p].changed \in Nat
  BY <1>2 DEF CopiesKept, CandidateTypeInv
<1>6. /\ (cdisk \in [Candidate!Replaceable -> {0, 1}] /\ cedits \in Nat)'
      /\ (cdisk["corpus"] = 1 => cedits >= 1)'
  BY <1>2 DEF CandidateTypeInv
<1>7. (ccopies = [p \in Candidate!Copied |-> ccopies[p]])'
  BY <1>4
<1>8. (\A p \in Candidate!Copied :
        ccopies[p] = Candidate!Nothing \/ ccopies[p].changed \in Nat)'
  BY <1>5
<1>. QED  BY <1>1, <1>3, <1>6, <1>7, <1>8 DEF CandidateTypeInv

(* The stages that the invariant asks for.                                  *)
Asked ==
  {Candidate!Stage(n) : n \in {"list", "attest", "isolation", "seal", "relist", "write", "accept"}}
    \cup ({"convert", "confirm", "browse"} \X {1, 2} \X Sources)

(* Nothing happens but that other stages are left, and no fewer.            *)
LEMMA Redone ==
  ASSUME CandidateInv, cresult # "failed", Unmoved, ~Candidate!Ready,
         \A x \in Asked : Left(x) => Left(x)',
         LeftStage("seal")' => cmade = <<>>,
         ctodo' # <<>> => Head(ctodo')[1] # "confirm",
         cdenied' = cdenied \/ LeftStage("isolation")'
  PROVE  (CorpusInv /\ SealInv /\ MadeInv /\ WrittenInv /\ ReadyInv)'
<1>1. \A n \in {"list", "attest", "isolation", "seal", "relist", "write", "accept"} :
        LeftStage(n) => LeftStage(n)'
  BY DEF Asked, LeftStage, Candidate!Stage
<1>2. \A n \in {"convert", "confirm", "browse"} : \A r \in {1, 2} : \A s \in Sources :
        Left(<<n, r, s>>) => Left(<<n, r, s>>)'
  BY DEF Asked
<1>3. CorpusInv'
  BY <1>1 DEF CandidateInv, CorpusInv, Unmoved
<1>4. SealInv'
  BY <1>1 DEF CandidateInv, SealInv, AsSealed, Shows, Unmoved, Candidate!Nothing
<1>5. WrittenInv'
  <2>1. LeftStage("isolation")' \/ (cportable => Candidate!Isolated)'
    BY <1>1 DEF CandidateInv, WrittenInv, Unmoved, Candidate!Isolated, Candidate!Denials
  <2>2. LeftStage("write")' \/ (Manifests(cmanifest) /\ MadeOf(cmanifest))'
    BY <1>1 DEF CandidateInv, WrittenInv, Unmoved, Manifests, MadeOf
  <2>3. \/ LeftStage("accept")'
        \/ (/\ \A f \in Candidate!Scope : cmanifest.scope[f] = 0
            /\ \A p \in Candidate!Copied : cmanifest.artifacts[p] = 0)'
    BY <1>1 DEF CandidateInv, WrittenInv, Unmoved, Candidate!Scope, Candidate!Copied,
      Candidate!Programs
  <2>. QED  BY <2>1, <2>2, <2>3 DEF WrittenInv
<1>6. MadeInv'
  <2>. SUFFICES ASSUME NEW r \in {1, 2}, NEW s \in Sources
                PROVE
      /\ \/ Left(<<"convert", r, s>>)'
         \/ /\ <<r, s>> \in DOMAIN cmade'
            /\ AsSealed("converter")' =>
                 cmade'[<<r, s>>].converter = csealed'["converter"].content
      /\ \/ Left(<<"browse", r, s>>)'
         \/ /\ <<r, s>> \in DOMAIN cmade'
            /\ AsSealed("fonts")' => cmade'[<<r, s>>].fonts = csealed'["fonts"].content
      /\ \/ Left(<<"confirm", r, s>>)'
         \/ <<r, s>> \in DOMAIN cmade' /\ cmade'[<<r, s>>].source = 0
      /\ ctodo' # <<>> /\ Head(ctodo') = <<"confirm", r, s>> =>
           <<r, s>> \in DOMAIN cmade' /\ cmade'[<<r, s>>].source = cstaged'
    BY DEF MadeInv
  <2>1. /\ cmade' = cmade /\ csealed' = csealed /\ ccopies' = ccopies /\ cstaged' = cstaged
        /\ (AsSealed("converter")' <=> AsSealed("converter"))
        /\ (AsSealed("fonts")' <=> AsSealed("fonts"))
    BY DEF Unmoved, AsSealed
  <2>2. /\ \/ Left(<<"convert", r, s>>)
           \/ /\ <<r, s>> \in DOMAIN cmade
              /\ AsSealed("converter") =>
                   cmade[<<r, s>>].converter = csealed["converter"].content
        /\ \/ Left(<<"browse", r, s>>)
           \/ /\ <<r, s>> \in DOMAIN cmade
              /\ AsSealed("fonts") => cmade[<<r, s>>].fonts = csealed["fonts"].content
        /\ \/ Left(<<"confirm", r, s>>)
           \/ <<r, s>> \in DOMAIN cmade /\ cmade[<<r, s>>].source = 0
    BY DEF CandidateInv, MadeInv
  <2>3. /\ Left(<<"convert", r, s>>) => Left(<<"convert", r, s>>)'
        /\ Left(<<"browse", r, s>>) => Left(<<"browse", r, s>>)'
        /\ Left(<<"confirm", r, s>>) => Left(<<"confirm", r, s>>)'
    BY <1>2
  <2>4. ~(ctodo' # <<>> /\ Head(ctodo') = <<"confirm", r, s>>)
    OBVIOUS
  <2>. QED  BY <2>1, <2>2, <2>3, <2>4
<1>7. ReadyInv'
  BY DEF Unmoved, ReadyInv, Candidate!Ready, Candidate!Nothing
<1>. QED  BY <1>3, <1>4, <1>5, <1>6, <1>7

LEMMA AskedRanks == \A x \in Asked : Rank(x) \in 3..12
<1>1. \A x \in {"convert", "confirm", "browse"} \X {1, 2} \X Sources : Rank(x) = 8
  BY RankOf DEF StepNames
<1>2. \A n \in {"list", "attest", "isolation", "seal", "relist", "write", "accept"} :
        Rank(Candidate!Stage(n)) \in 3..12
  BY RankOf
<1>. QED  BY <1>1, <1>2 DEF Asked

LEMMA RankOfFirst ==
  /\ \A x : x[1] = "enter" => Rank(x) = 1
  /\ \A x : x[1] = "compare profiles" => Rank(x) = 2
<1>1. \A x : x[1] = "enter" => Rank(x) = 1
  BY DEF Rank, StepNames
<1>2. \A x : x[1] = "compare profiles" => Rank(x) = 2
  BY DEF Rank, StepNames
<1>. QED  BY <1>1, <1>2

LEMMA ReadyIsShort ==
  ASSUME CandidateInv, Candidate!Ready
  PROVE  ctodo = <<>> \/ Is("recheck")
<1>1. ctodo = <<Candidate!Stage("recheck")>> \/ ctodo = <<>>
  BY DEF CandidateInv, ReadyInv
<1>2. \A x : Head(<<x>>) = x
  OBVIOUS
<1>. QED  BY <1>1, <1>2 DEF Is, Now

LEMMA SkipsKeep ==
  ASSUME CandidateInv, Skips
  PROVE  (CorpusInv /\ SealInv /\ MadeInv /\ WrittenInv /\ ReadyInv)'
<1>. DEFINE t == ctodo
            u == SubSeq(t, 5, Len(t))
<1>1. /\ t \in Seq(Stages) /\ Len(t) \in Nat /\ Len(t) >= 1 /\ DOMAIN t = 1..Len(t) /\ Head(t) = t[1]
  BY DEF Skips, Good
<1>2. t[1] = Candidate!Stage("enter") /\ 1 \in DOMAIN t
  BY <1>1 DEF Skips, Is, Now
<1>3. /\ Rank(t[1]) = 1 /\ Rank(t[2]) = 2 /\ Rank(t[3]) = 2 /\ Rank(t[4]) = 2 /\ Len(t) >= 4
  <2>1. t[1][1] = "enter"
    BY <1>2 DEF Candidate!Stage
  <2>2. \A k \in 1..3 : 1 + k \in DOMAIN t /\ Rank(t[1 + k]) = 2
    BY <1>2, <2>1 DEF Skips, Good, Entering
  <2>3. /\ 1 \in 1..3 /\ 1 + 1 = 2 /\ 2 \in 1..3 /\ 1 + 2 = 3 /\ 3 \in 1..3 /\ 1 + 3 = 4
    OBVIOUS
  <2>4. Rank(t[2]) = 2 /\ Rank(t[3]) = 2 /\ Rank(t[4]) = 2 /\ 4 \in DOMAIN t
    BY <2>2, <2>3
  <2>5. Rank(t[1]) = 1
    BY <2>1, RankOfFirst
  <2>. QED  BY <1>1, <2>4, <2>5
<1>4. /\ Len(u) = Len(t) - 4 /\ DOMAIN u = 1..(Len(t) - 4)
      /\ \A i \in 1..(Len(t) - 4) : u[i] = t[i + 4]
  BY <1>1, <1>3
<1>5. ctodo' = u /\ Good(u) /\ Good(t)
  <2>1. 5 \in Nat /\ 5 >= 1
    OBVIOUS
  <2>. QED  BY <2>1, GoodRest DEF Skips
<1>6. t # <<Candidate!Stage("launch")>> /\ u # <<Candidate!Stage("launch")>>
  BY <1>5, LaunchIsNoStage
<1>. HIDE DEF u
<1>7. \A x : (Left(x) <=> In(x, t)) /\ (Left(x)' <=> In(x, u))
  BY <1>5, <1>6 DEF Left, In
<1>8. \A x : In(x, u) => In(x, t)
  <2>1. \A i \in DOMAIN u : i + 4 \in DOMAIN t /\ u[i] = t[i + 4]
    BY <1>1, <1>3, <1>4
  <2>. QED  BY <2>1 DEF In
<1>9. \A x : In(x, t) /\ Rank(x) >= 3 => In(x, u)
  <2>. SUFFICES ASSUME NEW x, In(x, t), Rank(x) >= 3 PROVE In(x, u)
    OBVIOUS
  <2>1. PICK i \in DOMAIN t : t[i] = x
    BY DEF In
  <2>2. i \notin {1, 2, 3, 4}
    BY <1>3, <2>1
  <2>3. i - 4 \in DOMAIN u /\ (i - 4) + 4 = i
    BY <1>1, <1>4, <2>2
  <2>4. u[i - 4] = x
    BY <1>4, <2>1, <2>3
  <2>. QED  BY <2>3, <2>4 DEF In
<1>10. u # <<>> => Head(u)[1] # "confirm"
  <2>. SUFFICES ASSUME u # <<>>, Head(u)[1] = "confirm" PROVE FALSE
    OBVIOUS
  <2>1. u \in Seq(Stages) /\ Len(u) >= 1 /\ Head(u) = u[1]
    BY <1>5 DEF Good
  <2>2. 1 \in 1..(Len(t) - 4) /\ 1 + 4 = 5 /\ 5 \in DOMAIN t /\ 5 > 1 /\ 5 - 1 = 4
    BY <1>1, <1>4, <2>1
  <2>3. t[5][1] = "confirm"
    BY <1>4, <2>1, <2>2
  <2>4. t[4] = <<"convert", t[5][2], t[5][3]>>
    BY <1>5, <2>2, <2>3 DEF Good, ThreeInARow
  <2>5. t[4][1] \in StepNames
    BY <2>4 DEF StepNames
  <2>. QED  BY <1>3, <2>5, RankOf
<1>11. cresult # "failed"
  BY DEF CandidateInv, CandidateTypeInv, Skips
<1>12. ~Candidate!Ready
  <2>. SUFFICES ASSUME Candidate!Ready PROVE FALSE
    OBVIOUS
  <2>1. Is("recheck")
    BY <1>2, ReadyIsShort DEF Skips
  <2>2. Now[1] = "recheck" /\ Now[1] = "enter"
    BY <2>1, IsName DEF Skips
  <2>. QED  BY <2>2
<1>13. \A x \in Asked : Left(x) => Left(x)'
  BY <1>7, <1>9, AskedRanks
<1>14. LeftStage("seal")' => cmade = <<>>
  <2>1. LeftStage("seal")' => LeftStage("seal")
    BY <1>7, <1>8 DEF LeftStage, Candidate!Stage
  <2>. QED  BY <1>11, <2>1 DEF CandidateInv, SealInv
<1>15. Unmoved /\ cdenied' = cdenied
  BY DEF Skips
<1>16. ctodo' # <<>> => Head(ctodo')[1] # "confirm"
  BY <1>5, <1>10
<1>. QED  BY <1>11, <1>12, <1>13, <1>14, <1>15, <1>16, Redone

LEMMA RelaunchKeeps ==
  ASSUME CandidateInv, Relaunches \/ Launches
  PROVE  (CorpusInv /\ SealInv /\ MadeInv /\ WrittenInv /\ ReadyInv)'
<1>1. cresult # "failed" /\ Unmoved
  <2>0. \A x : <<x>> # <<>>
    OBVIOUS
  <2>1. Unmoved /\ ctodo # <<>>
    BY <2>0, Zenon DEF Relaunches, Launches
  <2>. QED  BY <2>1 DEF CandidateInv, CandidateTypeInv
<1>2. ~Candidate!Ready /\ LeftStage("seal")
  <2>1. CASE Relaunches
    <3>1. Is("compare profiles") /\ Now[1] = "compare profiles" /\ ctodo # <<>> /\ Good(ctodo)
      BY <2>1, IsName DEF Relaunches
    <3>2. ~Candidate!Ready
      <4>. SUFFICES ASSUME Candidate!Ready PROVE FALSE
        OBVIOUS
      <4>1. Now[1] = "recheck"
        BY <3>1, ReadyIsShort, IsName
      <4>. QED  BY <3>1, <4>1
    <3>3. Rank(Now) = 2
      BY <3>1, RankOfFirst
    <3>4. /\ Candidate!Stage("seal") \in Milestones /\ Rank(Candidate!Stage("seal")) = 6
      BY RankOf
    <3>7. \A x \in Milestones :
            0 < Rank(Now) /\ Rank(Now) < Rank(x) => In(x, Tail(ctodo))
      BY <3>1, StageOver DEF Now
    <3>5. In(Candidate!Stage("seal"), Tail(ctodo))
      BY <3>3, <3>4, <3>7
    <3>6. In(Candidate!Stage("seal"), ctodo)
      BY <3>1, <3>5, StageOver
    <3>. QED  BY <3>2, <3>6 DEF LeftStage, Left
  <2>2. CASE Launches
    <3>1. ctodo # <<>> /\ Now = Candidate!Stage("launch")
      BY <2>2 DEF Launches, Now
    <3>2. ~Candidate!Ready
      <4>. SUFFICES ASSUME Candidate!Ready PROVE FALSE
        OBVIOUS
      <4>1. Now[1] = "recheck" /\ Now[1] = "launch"
        BY <3>1, ReadyIsShort, IsName DEF Is
      <4>. QED  BY <4>1
    <3>. QED  BY <2>2, <3>2 DEF LeftStage, Left, Launches
  <2>. QED  BY <2>1, <2>2
<1>3. cmade = <<>>
  BY <1>1, <1>2 DEF CandidateInv, SealInv
<1>4. \A x \in Asked : Left(x)'
  <2>1. CASE Relaunches
    BY <2>1 DEF Relaunches, Left, Candidate!Stage
  <2>2. CASE Launches
    <3>1. \A x \in Asked : In(x, Candidate!Plan)
      <4>1. \A n \in {"list", "attest", "isolation", "seal", "relist", "write", "accept"} :
              In(Candidate!Stage(n), Candidate!Plan)
        BY PlanIsGood
      <4>2. \A n \in {"convert", "confirm", "browse"} : \A r \in {1, 2} : \A s \in Sources :
              In(<<n, r, s>>, Candidate!Plan)
        BY PlanIsGood
      <4>. QED  BY <4>1, <4>2 DEF Asked
    <3>2. ctodo' = Candidate!Plan
      BY <2>2 DEF Launches
    <3>3. PICK plan : plan = Candidate!Plan
      OBVIOUS
    <3>4. ctodo' = plan /\ \A x \in Asked : In(x, plan)
      BY <3>1, <3>2, <3>3
    <3>. QED  BY <3>4 DEF Left, In
  <2>. QED  BY <2>1, <2>2
<1>5. ctodo' # <<>> => Head(ctodo')[1] # "confirm"
  <2>1. CASE Relaunches
    <3>1. \A x : Head(<<x>>) = x
      OBVIOUS
    <3>2. ctodo' = <<Candidate!Stage("launch")>>
      BY <2>1 DEF Relaunches
    <3>3. Head(ctodo') = Candidate!Stage("launch")
      BY <3>1, <3>2, Zenon
    <3>. QED  BY <3>3 DEF Candidate!Stage
  <2>2. CASE Launches
    <3>1. Candidate!Plan # <<>> => Head(Candidate!Plan) = Candidate!Stage("enter")
      BY PlanIsGood
    <3>. QED  BY <2>2, <3>1 DEF Launches, Candidate!Stage
  <2>. QED  BY <2>1, <2>2
<1>6. LeftStage("isolation")'
  <2>1. Candidate!Stage("isolation") \in Asked
    BY DEF Asked
  <2>. QED  BY <1>4, <2>1 DEF LeftStage, Candidate!Stage
<1>. QED  BY <1>1, <1>2, <1>3, <1>4, <1>5, <1>6, Redone

(* A stage that failed.                                                     *)
LEMMA FailedKeeps ==
  ASSUME CandidateInv, Failed
  PROVE  ReadyInv'
<1>1. CASE Candidate!Ready
  <2>1. Is("recheck")
    BY <1>1, ReadyIsShort DEF Failed
  <2>2. UNCHANGED Attests /\ ctodo' = <<>>
    BY <2>1 DEF Failed
  <2>3. Candidate!AsAttested
    BY <1>1 DEF CandidateInv, ReadyInv
  <2>4. Candidate!AsAttested'
    BY <2>2, <2>3 DEF Attests, Candidate!AsAttested, Candidate!Ready, Candidate!Isolated,
      Candidate!Denials, Candidate!Nothing, Candidate!Scope, Candidate!Copied,
      Candidate!Programs
  <2>. QED  BY <2>2, <2>4 DEF ReadyInv
<1>2. CASE ~Candidate!Ready
  <2>1. ~Candidate!Ready'
    BY <1>2 DEF Failed, Candidate!Ready, Candidate!Nothing
  <2>. QED  BY <2>1 DEF ReadyInv
<1>. QED  BY <1>1, <1>2

LEMMA StepKeeps ==
  ASSUME CandidateInv, Candidate!Step
  PROVE  CandidateInv'
<1>1. CandidateTypeInv'
  BY TypeStep DEF CandidateInv
<1>2. CASE Failed
  BY <1>1, <1>2, FailedKeeps DEF CandidateInv, Failed
<1>3. CASE Popped
  <2>1. cresult # "failed"
    BY <1>3 DEF CandidateInv, CandidateTypeInv, Popped, PopMove, PopTodo
  <2>2. CandidateTypeInv /\ CorpusInv /\ SealInv /\ MadeInv /\ WrittenInv
    BY <2>1 DEF CandidateInv
  <2>3. PopTodo /\ PopCorpus /\ PopCopies /\ PopMade /\ PopManifest
    BY <1>3 DEF Popped, PopMove
  <2>4. CorpusInv' /\ SealInv' /\ MadeInv' /\ WrittenInv'
    BY <2>2, <2>3, CorpusPops, SealPops, MadePops, WrittenPops
  <2>5. ReadyInv'
    BY <2>1, <2>3, ReadyPops
  <2>. QED  BY <1>1, <2>4, <2>5 DEF CandidateInv
<1>4. CASE Skips
  BY <1>1, <1>4, SkipsKeep DEF CandidateInv
<1>5. CASE Relaunches \/ Launches
  BY <1>1, <1>5, RelaunchKeeps DEF CandidateInv
<1>. QED  BY <1>2, <1>3, <1>4, <1>5, StepKinds DEF CandidateInv

(* What others do.                                                          *)
Untouched ==
  UNCHANGED <<cportable, cdenied, cloaded, csealed, cstaged, cmade, cmanifest, ctodo, cresult>>

LEMMA UntouchedLeft ==
  ASSUME ctodo' = ctodo
  PROVE  \A x : Left(x)' <=> Left(x)
BY DEF Left, In, Candidate!Stage

LEMMA UntouchedKeeps ==
  ASSUME CandidateInv, Untouched, cresult # "failed",
         cedits' = cedits + 1, cdisk'["corpus"] \in {0, 1},
         cdisk \in [Candidate!Replaceable -> {0, 1}],
         \A p \in Candidate!Copied :
           LeftStage("seal") \/ (AsSealed(p)' => AsSealed(p)),
         SealInv'
  PROVE  (CorpusInv /\ MadeInv /\ WrittenInv /\ ReadyInv)'
<1>1. /\ \A x : Left(x)' <=> Left(x)
      /\ \A n : LeftStage(n)' <=> LeftStage(n)
  BY UntouchedLeft DEF Untouched, LeftStage, Candidate!Stage
<1>2. cedits \in Nat /\ cdisk["corpus"] \in {0, 1}
  BY DEF CandidateInv, CandidateTypeInv, Candidate!Replaceable, Candidate!Scope
<1>3. CorpusInv'
  BY <1>1, <1>2 DEF CandidateInv, CorpusInv, Untouched
<1>4. WrittenInv'
  <2>1. LeftStage("isolation")' \/ (cportable => Candidate!Isolated)'
    BY <1>1 DEF CandidateInv, WrittenInv, Untouched, Candidate!Isolated, Candidate!Denials
  <2>2. LeftStage("write")' \/ (Manifests(cmanifest) /\ MadeOf(cmanifest))'
    BY <1>1 DEF CandidateInv, WrittenInv, Untouched, Manifests, MadeOf
  <2>3. \/ LeftStage("accept")'
        \/ (/\ \A f \in Candidate!Scope : cmanifest.scope[f] = 0
            /\ \A p \in Candidate!Copied : cmanifest.artifacts[p] = 0)'
    BY <1>1 DEF CandidateInv, WrittenInv, Untouched, Candidate!Scope, Candidate!Copied,
      Candidate!Programs
  <2>. QED  BY <2>1, <2>2, <2>3 DEF WrittenInv
<1>5. MadeInv'
  <2>. SUFFICES ASSUME NEW r \in {1, 2}, NEW s \in Sources
                PROVE
      /\ \/ Left(<<"convert", r, s>>)'
         \/ /\ <<r, s>> \in DOMAIN cmade'
            /\ AsSealed("converter")' =>
                 cmade'[<<r, s>>].converter = csealed'["converter"].content
      /\ \/ Left(<<"browse", r, s>>)'
         \/ /\ <<r, s>> \in DOMAIN cmade'
            /\ AsSealed("fonts")' => cmade'[<<r, s>>].fonts = csealed'["fonts"].content
      /\ \/ Left(<<"confirm", r, s>>)'
         \/ <<r, s>> \in DOMAIN cmade' /\ cmade'[<<r, s>>].source = 0
      /\ ctodo' # <<>> /\ Head(ctodo') = <<"confirm", r, s>> =>
           <<r, s>> \in DOMAIN cmade' /\ cmade'[<<r, s>>].source = cstaged'
    BY DEF MadeInv
  <2>1. /\ cmade' = cmade /\ csealed' = csealed /\ cstaged' = cstaged /\ ctodo' = ctodo
    BY DEF Untouched
  <2>2. /\ \/ Left(<<"convert", r, s>>)
           \/ /\ <<r, s>> \in DOMAIN cmade
              /\ AsSealed("converter") =>
                   cmade[<<r, s>>].converter = csealed["converter"].content
        /\ \/ Left(<<"browse", r, s>>)
           \/ /\ <<r, s>> \in DOMAIN cmade
              /\ AsSealed("fonts") => cmade[<<r, s>>].fonts = csealed["fonts"].content
        /\ \/ Left(<<"confirm", r, s>>)
           \/ <<r, s>> \in DOMAIN cmade /\ cmade[<<r, s>>].source = 0
        /\ ctodo # <<>> /\ Head(ctodo) = <<"confirm", r, s>> =>
             <<r, s>> \in DOMAIN cmade /\ cmade[<<r, s>>].source = cstaged
    BY DEF CandidateInv, MadeInv
  <2>3. /\ Left(<<"convert", r, s>>) <=> Left(<<"convert", r, s>>)'
        /\ Left(<<"browse", r, s>>) <=> Left(<<"browse", r, s>>)'
        /\ Left(<<"confirm", r, s>>) <=> Left(<<"confirm", r, s>>)'
    BY <1>1
  <2>4. CASE LeftStage("seal")
    <3>1. cmade = <<>>
      BY <2>4 DEF CandidateInv, SealInv
    <3>2. <<r, s>> \notin DOMAIN cmade
      BY <3>1
    <3>. QED  BY <2>1, <2>2, <2>3, <3>2
  <2>5. CASE ~LeftStage("seal")
    <3>1. /\ AsSealed("converter")' => AsSealed("converter")
          /\ AsSealed("fonts")' => AsSealed("fonts")
      BY <2>5 DEF Candidate!Copied, Candidate!Programs
    <3>. QED  BY <2>1, <2>2, <2>3, <3>1
  <2>. QED  BY <2>4, <2>5
<1>6. ReadyInv'
  <2>. SUFFICES ASSUME Candidate!Ready'
                PROVE  ctodo' \in {<<Candidate!Stage("recheck")>>, <<>>} /\ Candidate!AsAttested'
    BY DEF ReadyInv, Candidate!Stage
  <2>1. Candidate!Ready
    BY DEF Untouched, Candidate!Ready, Candidate!Nothing
  <2>2. ctodo \in {<<Candidate!Stage("recheck")>>, <<>>} /\ Candidate!AsAttested
    BY <2>1 DEF CandidateInv, ReadyInv
  <2>3. cloaded' = 0 \/ cedits' >= 5
    BY <1>2, <2>1, <2>2 DEF Candidate!AsAttested, Untouched
  <2>4. Candidate!AsAttested'
    BY <2>1, <2>2, <2>3 DEF Untouched, Candidate!AsAttested, Candidate!Ready,
      Candidate!Isolated, Candidate!Denials, Candidate!Scope, Candidate!Copied,
      Candidate!Programs
  <2>. QED  BY <2>2, <2>4 DEF Untouched
<1>. QED  BY <1>3, <1>4, <1>5, <1>6

LEMMA TodoStays ==
  ASSUME CandidateTypeInv, ctodo' = ctodo
  PROVE  (ctodo = <<Candidate!Stage("launch")>> \/ Good(ctodo))'
<1>. DEFINE P(t) == t = <<Candidate!Stage("launch")>> \/ Good(t)
<1>1. P(ctodo') => (ctodo = <<Candidate!Stage("launch")>> \/ Good(ctodo))'
  BY Zenon DEF Good, Ordered, Follows, Entering, PublishIsLast, ThreeInARow, Stages, Whole, Parts,
    Candidate!Stage, Precedes, Rank, Milestones
<1>2. P(ctodo)
  BY DEF CandidateTypeInv
<1>3. P(ctodo')
  BY <1>2
<1>. HIDE DEF P
<1>. QED  BY SMTT(30), <1>1, <1>3

LEMMA EditKeeps ==
  ASSUME CandidateInv, NEW f \in Candidate!Replaceable, Candidate!Edit(f)
  PROVE  CandidateInv'
<1>. USE DEF Candidate!world, Candidate!process, Candidate!runtime, Candidate!source,
             Candidate!runs
<1>1. /\ Untouched /\ ccopies' = ccopies /\ cresult # "failed" /\ cedits' = cedits + 1
      /\ cdisk' = [cdisk EXCEPT ![f] = 1 - @]
  BY DEF Candidate!Edit, Untouched
<1>2. /\ cdisk \in [Candidate!Replaceable -> {0, 1}] /\ cedits \in Nat
      /\ "corpus" \in Candidate!Replaceable
  BY DEF CandidateInv, CandidateTypeInv, Candidate!Replaceable, Candidate!Scope
<1>3. cdisk' \in [Candidate!Replaceable -> {0, 1}]
  <2>1. 1 - cdisk[f] \in {0, 1}
    <3>1. cdisk[f] = 0 \/ cdisk[f] = 1
      BY <1>2
    <3>. QED  BY <3>1
  <2>. QED  BY <1>1, <1>2, <2>1
<1>4. CandidateTypeInv'
  <2>1. cdisk'["corpus"] = 1 => cedits' >= 1
    BY <1>1, <1>2
  <2>2. (ctodo = <<Candidate!Stage("launch")>> \/ Good(ctodo))'
    BY <1>1, TodoStays DEF CandidateInv, Untouched
  <2>3. (cdisk \in [Candidate!Replaceable -> {0, 1}] /\ cedits \in Nat /\ cloaded \in {0, 1})'
    BY <1>1, <1>2, <1>3 DEF CandidateInv, CandidateTypeInv, Untouched, Candidate!Replaceable,
      Candidate!Scope, Candidate!Programs
  <2>4. /\ (ccopies = [p \in Candidate!Copied |-> ccopies[p]])'
        /\ (\A p \in Candidate!Copied :
              ccopies[p] = Candidate!Nothing \/ ccopies[p].changed \in Nat)'
        /\ (cresult = "failed" => ctodo = <<>>)'
    BY <1>1 DEF CandidateInv, CandidateTypeInv, Untouched, Candidate!Nothing
  <2>. QED  BY <2>1, <2>2, <2>3, <2>4 DEF CandidateTypeInv
<1>5. SealInv'
  <2>1. LeftStage("seal")' <=> LeftStage("seal")
    BY <1>1, UntouchedLeft DEF Untouched, LeftStage, Candidate!Stage
  <2>. QED  BY <1>1, <2>1 DEF CandidateInv, SealInv, Untouched, AsSealed, Shows, Candidate!Nothing
<1>6. \A p \in Candidate!Copied : AsSealed(p)' => AsSealed(p)
  BY <1>1 DEF AsSealed, Untouched
<1>7. cdisk'["corpus"] \in {0, 1}
  BY <1>2, <1>3
<1>8. (CorpusInv /\ MadeInv /\ WrittenInv /\ ReadyInv)'
  BY <1>1, <1>2, <1>5, <1>6, <1>7, UntouchedKeeps
<1>. QED  BY <1>4, <1>5, <1>8 DEF CandidateInv

LEMMA EditCopyKeeps ==
  ASSUME CandidateInv, NEW p \in Candidate!Copied, Candidate!EditCopy(p)
  PROVE  CandidateInv'
<1>. DEFINE new == [content |-> 1 - ccopies[p].content, changed |-> ccopies[p].changed + 1]
<1>. USE DEF Candidate!world, Candidate!process, Candidate!runtime, Candidate!source,
             Candidate!runs
<1>1. /\ Untouched /\ cdisk' = cdisk /\ cresult # "failed" /\ cedits' = cedits + 1
      /\ ccopies[p] # Candidate!Nothing
      /\ ccopies' = [ccopies EXCEPT ![p] = new]
  BY DEF Candidate!EditCopy, Untouched
<1>2. /\ cdisk \in [Candidate!Replaceable -> {0, 1}] /\ cedits \in Nat
      /\ "corpus" \in Candidate!Replaceable
      /\ ccopies = [q \in Candidate!Copied |-> ccopies[q]] /\ ccopies[p].changed \in Nat
  BY <1>1 DEF CandidateInv, CandidateTypeInv, Candidate!Replaceable, Candidate!Scope
<1>3. /\ new.changed = ccopies[p].changed + 1 /\ new # Candidate!Nothing
  <2>1. DOMAIN new = {"content", "changed"} /\ DOMAIN Candidate!Nothing = {"none"}
    BY DEF Candidate!Nothing
  <2>2. "none" \notin {"content", "changed"}
    OBVIOUS
  <2>3. new.changed = ccopies[p].changed + 1
    OBVIOUS
  <2>. HIDE DEF new
  <2>. QED  BY <2>1, <2>2, <2>3
<1>. HIDE DEF new
<1>4. /\ ccopies' = [q \in Candidate!Copied |-> ccopies'[q]] /\ ccopies'[p] = new
      /\ \A q \in Candidate!Copied : q # p => ccopies'[q] = ccopies[q]
  BY <1>1, <1>2
<1>5. CandidateTypeInv'
  <2>1. cdisk'["corpus"] = 1 => cedits' >= 1
    BY <1>1, <1>2
  <2>2. (ctodo = <<Candidate!Stage("launch")>> \/ Good(ctodo))'
    BY <1>1, TodoStays DEF CandidateInv, Untouched
  <2>3. (cdisk \in [Candidate!Replaceable -> {0, 1}] /\ cedits \in Nat /\ cloaded \in {0, 1})'
    BY <1>1, <1>2 DEF CandidateInv, CandidateTypeInv, Untouched, Candidate!Replaceable,
      Candidate!Scope, Candidate!Programs
  <2>4. (ccopies = [q \in Candidate!Copied |-> ccopies[q]])'
    BY <1>4
  <2>5. ASSUME NEW q \in Candidate!Copied
        PROVE  ccopies'[q] = Candidate!Nothing \/ ccopies'[q].changed \in Nat
    <3>1. CASE q = p
      <4>1. ccopies'[p].changed \in Nat
        BY <1>2, <1>3, <1>4
      <4>. QED  BY <3>1, <4>1
    <3>2. CASE q # p
      BY <1>4, <3>2 DEF CandidateInv, CandidateTypeInv
    <3>. QED  BY <3>1, <3>2
  <2>6. (\A q \in Candidate!Copied :
           ccopies[q] = Candidate!Nothing \/ ccopies[q].changed \in Nat)'
    BY <2>5 DEF Candidate!Nothing
  <2>7. (cresult = "failed" => ctodo = <<>>)'
    BY <1>1 DEF CandidateInv, CandidateTypeInv, Untouched
  <2>. QED  BY <2>1, <2>2, <2>3, <2>4, <2>6, <2>7 DEF CandidateTypeInv
<1>6. LeftStage("seal")' <=> LeftStage("seal")
  BY <1>1, UntouchedLeft DEF Untouched, LeftStage, Candidate!Stage
<1>7. csealed' = csealed /\ cmade' = cmade
  BY <1>1 DEF Untouched
<1>8. ASSUME ~LeftStage("seal"), NEW q \in Candidate!Copied
      PROVE  (AsSealed(q)' \/ Shows(q)') /\ (AsSealed(q)' => AsSealed(q))
  <2>1. AsSealed(q) \/ Shows(q)
    BY <1>1, <1>8 DEF CandidateInv, SealInv
  <2>2. CASE q # p
    <3>1. ccopies'[q] = ccopies[q]
      BY <1>4, <2>2
    <3>. QED  BY <1>7, <2>1, <3>1 DEF AsSealed, Shows, Candidate!Nothing
  <2>3. CASE q = p
    <3>1. csealed[p].changed \in Nat /\ csealed[p].changed < ccopies[p].changed + 1
      BY <1>2, <2>1, <2>3 DEF AsSealed, Shows
    <3>2. ccopies'[p].changed = ccopies[p].changed + 1
      BY <1>3, <1>4
    <3>3. Shows(p)'
      BY <1>3, <1>4, <1>7, <3>1, <3>2 DEF Shows, Candidate!Nothing
    <3>4. ccopies'[p] # csealed[p]
      BY <1>2, <3>1, <3>2
    <3>. QED  BY <1>7, <2>3, <3>3, <3>4 DEF AsSealed
  <2>. QED  BY <2>2, <2>3
<1>9. SealInv'
  <2>1. LeftStage("seal")' => cmade' = <<>>
    BY <1>1, <1>6, <1>7 DEF CandidateInv, SealInv
  <2>. QED  BY <1>6, <1>8, <2>1 DEF SealInv
<1>10. \A q \in Candidate!Copied : LeftStage("seal") \/ (AsSealed(q)' => AsSealed(q))
  BY <1>8
<1>11. cdisk'["corpus"] \in {0, 1}
  BY <1>1, <1>2
<1>12. (CorpusInv /\ MadeInv /\ WrittenInv /\ ReadyInv)'
  BY <1>1, <1>2, <1>9, <1>10, <1>11, UntouchedKeeps
<1>. QED  BY <1>5, <1>9, <1>12 DEF CandidateInv

LEMMA CandidateBegins == Candidate!Init => CandidateInv
<1>. SUFFICES ASSUME Candidate!Init PROVE CandidateInv
  OBVIOUS
<1>1. /\ ctodo = Candidate!Plan /\ cmade = <<>> /\ cmanifest = Candidate!Nothing
      /\ cresult = "running" /\ cedits = 0 /\ cloaded = 0
      /\ cdisk = [f \in Candidate!Replaceable |-> 0]
      /\ ccopies = [p \in Candidate!Copied |-> Candidate!Nothing]
  BY DEF Candidate!Init
<1>2. Good(ctodo)
  BY <1>1, PlanIsGood
<1>3. \A x \in Asked : Left(x)
  <2>1. \A n \in {"list", "attest", "isolation", "seal", "relist", "write", "accept"} :
          In(Candidate!Stage(n), Candidate!Plan)
    BY PlanIsGood
  <2>2. \A n \in {"convert", "confirm", "browse"} : \A r \in {1, 2} : \A s \in Sources :
          In(<<n, r, s>>, Candidate!Plan)
    BY PlanIsGood
  <2>. QED  BY <1>1, <2>1, <2>2 DEF Asked, Left
<1>4. CandidateTypeInv
  <2>1. cdisk \in [Candidate!Replaceable -> {0, 1}] /\ cdisk["corpus"] = 0
    BY <1>1 DEF Candidate!Replaceable, Candidate!Scope
  <2>2. ccopies = [p \in Candidate!Copied |-> ccopies[p]]
        /\ \A p \in Candidate!Copied : ccopies[p] = Candidate!Nothing
    BY <1>1
  <2>. QED  BY <1>1, <1>2, <2>1, <2>2 DEF CandidateTypeInv
<1>5. \A n \in {"list", "attest", "isolation", "seal", "relist", "write", "accept"} : LeftStage(n)
  BY <1>3 DEF Asked, LeftStage
<1>6. CorpusInv /\ SealInv /\ WrittenInv
  BY <1>1, <1>5 DEF CorpusInv, SealInv, WrittenInv
<1>7. MadeInv
  <2>1. \A r \in {1, 2} : \A s \in Sources : \A n \in {"convert", "confirm", "browse"} :
          Left(<<n, r, s>>)
    BY <1>3 DEF Asked
  <2>2. Head(ctodo)[1] = "enter"
    BY <1>1, PlanIsGood DEF Candidate!Stage
  <2>3. \A r, s : Head(ctodo) # <<"confirm", r, s>>
    BY <2>2
  <2>. QED  BY <2>1, <2>3 DEF MadeInv
<1>8. ReadyInv
  BY <1>1 DEF ReadyInv, Candidate!Ready
<1>. QED  BY <1>4, <1>6, <1>7, <1>8 DEF CandidateInv

LEMMA CandidateStays ==
  ASSUME CandidateInv, UNCHANGED candidateVars
  PROVE  CandidateInv'
<1>1. /\ Untouched /\ UNCHANGED <<cdisk, cedits, ccopies>>
      /\ \A x : Left(x)' <=> Left(x)
      /\ \A n : LeftStage(n)' <=> LeftStage(n)
  BY UntouchedLeft DEF candidateVars, Untouched, LeftStage, Candidate!Stage
<1>2. CandidateTypeInv'
  <2>1. (ctodo = <<Candidate!Stage("launch")>> \/ Good(ctodo))'
    BY <1>1, TodoStays DEF CandidateInv, Untouched
  <2>2. (cdisk \in [Candidate!Replaceable -> {0, 1}] /\ cedits \in Nat /\ cloaded \in {0, 1})'
    BY <1>1 DEF CandidateInv, CandidateTypeInv, Untouched, Candidate!Replaceable,
      Candidate!Scope, Candidate!Programs
  <2>3. /\ (ccopies = [p \in Candidate!Copied |-> ccopies[p]])'
        /\ (\A p \in Candidate!Copied :
              ccopies[p] = Candidate!Nothing \/ ccopies[p].changed \in Nat)'
        /\ (cresult = "failed" => ctodo = <<>>)'
        /\ (cdisk["corpus"] = 1 => cedits >= 1)'
    BY <1>1 DEF CandidateInv, CandidateTypeInv, Untouched, Candidate!Nothing
  <2>. QED  BY <2>1, <2>2, <2>3 DEF CandidateTypeInv
<1>3. ReadyInv'
  <2>. SUFFICES ASSUME Candidate!Ready'
                PROVE  ctodo' \in {<<Candidate!Stage("recheck")>>, <<>>} /\ Candidate!AsAttested'
    BY DEF ReadyInv, Candidate!Stage
  <2>1. Candidate!Ready
    BY <1>1 DEF Untouched, Candidate!Ready, Candidate!Nothing
  <2>2. ctodo \in {<<Candidate!Stage("recheck")>>, <<>>} /\ Candidate!AsAttested
    BY <2>1 DEF CandidateInv, ReadyInv
  <2>4. Candidate!AsAttested'
    BY <1>1, <2>1, <2>2 DEF Untouched, Candidate!AsAttested, Candidate!Ready,
      Candidate!Isolated, Candidate!Denials, Candidate!Scope, Candidate!Copied,
      Candidate!Programs
  <2>. QED  BY <1>1, <2>2, <2>4 DEF Untouched
<1>4. cresult' # "failed" => CorpusInv' /\ SealInv' /\ WrittenInv' /\ MadeInv'
  <2>. SUFFICES ASSUME cresult # "failed"
                PROVE  CorpusInv' /\ SealInv' /\ WrittenInv' /\ MadeInv'
    BY <1>1 DEF Untouched
  <2>1. CorpusInv'
    BY <1>1 DEF CandidateInv, CorpusInv, Untouched
  <2>2. SealInv'
    BY <1>1 DEF CandidateInv, SealInv, Untouched, AsSealed, Shows, Candidate!Nothing
  <2>3. WrittenInv'
    <3>1. LeftStage("isolation")' \/ (cportable => Candidate!Isolated)'
      BY <1>1 DEF CandidateInv, WrittenInv, Untouched, Candidate!Isolated, Candidate!Denials
    <3>2. LeftStage("write")' \/ (Manifests(cmanifest) /\ MadeOf(cmanifest))'
      BY <1>1 DEF CandidateInv, WrittenInv, Untouched, Manifests, MadeOf
    <3>3. \/ LeftStage("accept")'
          \/ (/\ \A f \in Candidate!Scope : cmanifest.scope[f] = 0
              /\ \A p \in Candidate!Copied : cmanifest.artifacts[p] = 0)'
      BY <1>1 DEF CandidateInv, WrittenInv, Untouched, Candidate!Scope, Candidate!Copied,
        Candidate!Programs
    <3>. QED  BY <3>1, <3>2, <3>3 DEF WrittenInv
  <2>4. MadeInv'
    BY <1>1 DEF CandidateInv, MadeInv, Untouched, AsSealed
  <2>. QED  BY <2>1, <2>2, <2>3, <2>4
<1>. QED  BY <1>2, <1>3, <1>4 DEF CandidateInv

LEMMA CandidateHolds == CandidateInv => Candidate!AsAttested
BY DEF CandidateInv, ReadyInv, Candidate!AsAttested

THEOREM HarnessAsAttested == HarnessSpec => []AsAttested
<1>1. HarnessInit => CandidateInv
  BY CandidateBegins DEF HarnessInit
<1>2. CandidateInv /\ [HarnessNext]_<<part, vars, candidateVars, unitVars, scanVars, removalVars>>
        => CandidateInv'
  <2>. SUFFICES ASSUME CandidateInv, Candidate!Next \/ UNCHANGED candidateVars
                PROVE  CandidateInv'
    BY DEF HarnessNext
  <2>1. CASE UNCHANGED candidateVars
    BY <2>1, CandidateStays
  <2>2. CASE Candidate!Next
    BY <2>2, StepKeeps, EditKeeps, EditCopyKeeps DEF Candidate!Next
  <2>. QED  BY <2>1, <2>2
<1>3. CandidateInv => AsAttested
  BY CandidateHolds DEF AsAttested
<1>. QED  BY <1>1, <1>2, <1>3, PTL DEF HarnessSpec

-----------------------------------------------------------------------------
(* 5. The readers of files and trees: what ScanProofs proves of a scan, of  *)
(* the one in the harness.                                                  *)
ScanTheorems == INSTANCE ScanProofs WITH
  kind <- nkind, entries <- nentries, touched <- ntouched, version <- nversion,
  changes <- nchanges, moments <- nmoments, round <- nround, listing <- nlisting,
  stack <- nstack, now <- nnow, records <- nrecords, noted <- nnoted, before <- nbefore,
  result <- nresult

(* The readers are the same under both names.                                *)
LEMMA ScanReader == Scan!Reader = ScanTheorems!Reader
BY DEF
    Scan!Reader, ScanTheorems!Reader, Scan!Readers, ScanTheorems!Readers, Scan!OneFile,
    ScanTheorems!OneFile, Scan!Tree, ScanTheorems!Tree, Scan!ReadyTree,
    ScanTheorems!ReadyTree, Scan!PublicPool, ScanTheorems!PublicPool, Scan!UnitInventory,
    ScanTheorems!UnitInventory, Scan!FontRoot, ScanTheorems!FontRoot, Scan!FontBundle,
    ScanTheorems!FontBundle, Scan!UnitFile, ScanTheorems!UnitFile, Scan!CorpusSource,
    ScanTheorems!CorpusSource, Scan!StableCopy, ScanTheorems!StableCopy, Scan!ReceiptFile,
    ScanTheorems!ReceiptFile, Scan!TrustedExecutable, ScanTheorems!TrustedExecutable,
    Scan!ExecutionSnapshot, ScanTheorems!ExecutionSnapshot, Scan!Package,
    ScanTheorems!Package, Scan!SealedCopies, ScanTheorems!SealedCopies,
    Scan!PackageInventory, ScanTheorems!PackageInventory

LEMMA ScanMoment == Scan!Moment = ScanTheorems!Moment
BY DEF
    Scan!Moment, ScanTheorems!Moment, Scan!Content, ScanTheorems!Content, Scan!Existing,
    ScanTheorems!Existing, Scan!FileNodes, ScanTheorems!FileNodes, Scan!DirNodes,
    ScanTheorems!DirNodes, Scan!Names, ScanTheorems!Names, Scan!Paths, ScanTheorems!Paths,
    Scan!Absent, ScanTheorems!Absent

LEMMA ScanParts ==
  /\ \A x : Scan!DirStatus(x) = ScanTheorems!DirStatus(x)
  /\ \A f : Scan!FileStatus(f) = ScanTheorems!FileStatus(f)
  /\ \A n : Scan!Entry(n) = ScanTheorems!Entry(n)
  /\ \A p, v : Scan!Opened(p, v) = ScanTheorems!Opened(p, v)
  /\ \A todo : Scan!NextName(todo) = ScanTheorems!NextName(todo)
  /\ \A read : Scan!WantedStatus(read) = ScanTheorems!WantedStatus(read)
  /\ Scan!Wanted = ScanTheorems!Wanted /\ Scan!Top = ScanTheorems!Top
  /\ Scan!First = ScanTheorems!First
<1>1. \A x : Scan!DirStatus(x) = ScanTheorems!DirStatus(x)
  BY DEF Scan!DirStatus, ScanTheorems!DirStatus
<1>2. \A f : Scan!FileStatus(f) = ScanTheorems!FileStatus(f)
  BY DEF Scan!FileStatus, ScanTheorems!FileStatus
<1>3. \A n : Scan!Entry(n) = ScanTheorems!Entry(n)
  BY ScanReader DEF
    Scan!Entry, ScanTheorems!Entry, Scan!Directory, ScanTheorems!Directory, Scan!Top,
    ScanTheorems!Top, Scan!FileNodes, ScanTheorems!FileNodes, Scan!DirNodes,
    ScanTheorems!DirNodes, Scan!Names, ScanTheorems!Names, Scan!Paths, ScanTheorems!Paths,
    Scan!Absent, ScanTheorems!Absent
<1>4. \A p, v : Scan!Opened(p, v) = ScanTheorems!Opened(p, v)
  BY DEF Scan!Opened, ScanTheorems!Opened
<1>5. \A todo : Scan!NextName(todo) = ScanTheorems!NextName(todo)
  BY DEF Scan!NextName, ScanTheorems!NextName, Scan!Place, ScanTheorems!Place
<1>6. \A read : Scan!WantedStatus(read) = ScanTheorems!WantedStatus(read)
  BY DEF Scan!WantedStatus, ScanTheorems!WantedStatus
<1>7. Scan!Wanted = ScanTheorems!Wanted /\ Scan!Top = ScanTheorems!Top
  BY DEF Scan!Wanted, ScanTheorems!Wanted, Scan!Top, ScanTheorems!Top
<1>8. Scan!First = ScanTheorems!First
  BY ScanReader DEF Scan!First, ScanTheorems!First
<1>. QED  BY <1>1, <1>2, <1>3, <1>4, <1>5, <1>6, <1>7, <1>8

LEMMA ScanNotes ==
  /\ \A p, n, v, r : Scan!Note(p, n, v, r) = ScanTheorems!Note(p, n, v, r)
  /\ \A p, n, i : Scan!NoteDirectory(p, n, i) <=> ScanTheorems!NoteDirectory(p, n, i)
<1>1. \A p, n, v, r : Scan!Note(p, n, v, r) = ScanTheorems!Note(p, n, v, r)
  BY ScanReader DEF
    Scan!Note, ScanTheorems!Note, Scan!Compared, ScanTheorems!Compared, Scan!Does,
    ScanTheorems!Does, Scan!Last, ScanTheorems!Last
<1>2. \A p, n, i : Scan!NoteDirectory(p, n, i) <=> ScanTheorems!NoteDirectory(p, n, i)
  BY ScanReader, ScanParts, <1>1 DEF
    Scan!NoteDirectory, ScanTheorems!NoteDirectory
<1>. QED  BY <1>1, <1>2

LEMMA ScanDigests ==
  /\ Scan!Agree <=> ScanTheorems!Agree
  /\ \A p, n, read : Scan!IsKnown(p, n, read) <=> ScanTheorems!IsKnown(p, n, read)
  /\ Scan!Repeats <=> ScanTheorems!Repeats
<1>1. \A v : Scan!Bytes(v) = ScanTheorems!Bytes(v)
  BY DEF Scan!Bytes, ScanTheorems!Bytes
<1>2. \A read : Scan!Digest(read) = ScanTheorems!Digest(read)
  BY <1>1 DEF Scan!Digest, ScanTheorems!Digest, Scan!Last, ScanTheorems!Last
<1>3. Scan!Agree <=> ScanTheorems!Agree
  BY <1>1, ScanReader DEF Scan!Agree, ScanTheorems!Agree
<1>4. \A p, n, read : Scan!IsKnown(p, n, read) <=> ScanTheorems!IsKnown(p, n, read)
  BY <1>2, ScanParts DEF Scan!IsKnown, ScanTheorems!IsKnown
<1>5. \A notes : Scan!Found(notes) = ScanTheorems!Found(notes)
  BY <1>2 DEF Scan!Found, ScanTheorems!Found
<1>6. Scan!Repeats <=> ScanTheorems!Repeats
  BY <1>5, ScanReader DEF
    Scan!Repeats, ScanTheorems!Repeats, Scan!Compared, ScanTheorems!Compared, Scan!Does,
    ScanTheorems!Does, Scan!Last, ScanTheorems!Last
<1>. QED  BY <1>3, <1>4, <1>6

(* A step of the scan is the same step under the name that the theorems     *)
(* have.                                                                    *)
LEMMA ScanSteps == Scan!Step => ScanTheorems!Step
<1>1. Scan!Begin => ScanTheorems!Begin
  BY ScanReader, ScanMoment DEF
    Scan!Begin, ScanTheorems!Begin, Scan!First, ScanTheorems!First, Scan!FileNodes,
    ScanTheorems!FileNodes, Scan!DirNodes, ScanTheorems!DirNodes, Scan!Names,
    ScanTheorems!Names, Scan!Paths, ScanTheorems!Paths, Scan!Absent, ScanTheorems!Absent,
    Scan!At, ScanTheorems!At, Scan!Fail, ScanTheorems!Fail, Scan!Kept, ScanTheorems!Kept,
    Scan!Top, ScanTheorems!Top, Scan!Does, ScanTheorems!Does, Scan!tree, ScanTheorems!tree,
    Scan!rounds, ScanTheorems!rounds
<1>2. Scan!Enumerate => ScanTheorems!Enumerate
  BY ScanReader DEF
    Scan!Enumerate, ScanTheorems!Enumerate, Scan!Directory, ScanTheorems!Directory,
    Scan!Existing, ScanTheorems!Existing, Scan!FileNodes, ScanTheorems!FileNodes,
    Scan!DirNodes, ScanTheorems!DirNodes, Scan!Names, ScanTheorems!Names, Scan!Paths,
    ScanTheorems!Paths, Scan!Absent, ScanTheorems!Absent, Scan!At, ScanTheorems!At,
    Scan!Fail, ScanTheorems!Fail, Scan!Kept, ScanTheorems!Kept, Scan!Top, ScanTheorems!Top,
    Scan!Does, ScanTheorems!Does, Scan!tree, ScanTheorems!tree, Scan!rounds,
    ScanTheorems!rounds
<1>3. Scan!LookAtRoot => ScanTheorems!LookAtRoot
  BY SMTT(30), ScanReader DEF
    Scan!LookAtRoot, ScanTheorems!LookAtRoot, Scan!Opened, ScanTheorems!Opened,
    Scan!DirStatus, ScanTheorems!DirStatus, Scan!NoteDirectory, ScanTheorems!NoteDirectory,
    Scan!Note, ScanTheorems!Note, Scan!Compared, ScanTheorems!Compared, Scan!Last,
    ScanTheorems!Last, Scan!FileNodes, ScanTheorems!FileNodes, Scan!DirNodes,
    ScanTheorems!DirNodes, Scan!Names, ScanTheorems!Names, Scan!Paths, ScanTheorems!Paths,
    Scan!Absent, ScanTheorems!Absent, Scan!At, ScanTheorems!At, Scan!Fail,
    ScanTheorems!Fail, Scan!Kept, ScanTheorems!Kept, Scan!Top, ScanTheorems!Top, Scan!Does,
    ScanTheorems!Does, Scan!tree, ScanTheorems!tree, Scan!rounds, ScanTheorems!rounds
<1>4. Scan!List => ScanTheorems!List
  BY ZenonT(40), ScanReader DEF
    Scan!List, ScanTheorems!List, Scan!NamesOf, ScanTheorems!NamesOf, Scan!First,
    ScanTheorems!First, Scan!WantedNames, ScanTheorems!WantedNames, Scan!Existing,
    ScanTheorems!Existing, Scan!FileNodes, ScanTheorems!FileNodes, Scan!DirNodes,
    ScanTheorems!DirNodes, Scan!Names, ScanTheorems!Names, Scan!Paths, ScanTheorems!Paths,
    Scan!Absent, ScanTheorems!Absent, Scan!At, ScanTheorems!At, Scan!Fail,
    ScanTheorems!Fail, Scan!Kept, ScanTheorems!Kept, Scan!Top, ScanTheorems!Top, Scan!Does,
    ScanTheorems!Does, Scan!tree, ScanTheorems!tree, Scan!rounds, ScanTheorems!rounds
<1>5. Scan!Look => ScanTheorems!Look
  BY ScanReader, ScanParts, ScanNotes DEF
    Scan!Look, ScanTheorems!Look, Scan!At, ScanTheorems!At, Scan!Fail, ScanTheorems!Fail,
    Scan!Kept, ScanTheorems!Kept, Scan!Does, ScanTheorems!Does, Scan!tree,
    ScanTheorems!tree, Scan!rounds, ScanTheorems!rounds, Scan!FileNodes,
    ScanTheorems!FileNodes, Scan!DirNodes, ScanTheorems!DirNodes, Scan!Absent,
    ScanTheorems!Absent
<1>6. Scan!Enter => ScanTheorems!Enter
  BY ScanReader, ScanParts, ScanNotes DEF
    Scan!Enter, ScanTheorems!Enter, Scan!At, ScanTheorems!At, Scan!Fail, ScanTheorems!Fail,
    Scan!Kept, ScanTheorems!Kept, Scan!Does, ScanTheorems!Does, Scan!tree,
    ScanTheorems!tree, Scan!rounds, ScanTheorems!rounds, Scan!FileNodes,
    ScanTheorems!FileNodes, Scan!DirNodes, ScanTheorems!DirNodes, Scan!Absent,
    ScanTheorems!Absent
<1>7. Scan!Open => ScanTheorems!Open
  BY ScanReader, ScanParts, ScanNotes DEF
    Scan!Open, ScanTheorems!Open, Scan!At, ScanTheorems!At, Scan!Fail, ScanTheorems!Fail,
    Scan!Kept, ScanTheorems!Kept, Scan!Does, ScanTheorems!Does, Scan!tree,
    ScanTheorems!tree, Scan!rounds, ScanTheorems!rounds, Scan!FileNodes,
    ScanTheorems!FileNodes, Scan!DirNodes, ScanTheorems!DirNodes, Scan!Absent,
    ScanTheorems!Absent
<1>8. Scan!Read => ScanTheorems!Read
  BY SMTT(30), ScanReader DEF
    Scan!Read, ScanTheorems!Read, Scan!AtPath, ScanTheorems!AtPath, Scan!Entry,
    ScanTheorems!Entry, Scan!Directory, ScanTheorems!Directory, Scan!FileStatus,
    ScanTheorems!FileStatus, Scan!FileNodes, ScanTheorems!FileNodes, Scan!DirNodes,
    ScanTheorems!DirNodes, Scan!Names, ScanTheorems!Names, Scan!Paths, ScanTheorems!Paths,
    Scan!Absent, ScanTheorems!Absent, Scan!At, ScanTheorems!At, Scan!Fail,
    ScanTheorems!Fail, Scan!Kept, ScanTheorems!Kept, Scan!Top, ScanTheorems!Top, Scan!Does,
    ScanTheorems!Does, Scan!tree, ScanTheorems!tree, Scan!rounds, ScanTheorems!rounds
<1>9. Scan!Close => ScanTheorems!Close
  BY ScanReader, ScanDigests DEF
    Scan!Close, ScanTheorems!Close, Scan!FileStatus, ScanTheorems!FileStatus, Scan!AtPath,
    ScanTheorems!AtPath, Scan!Entry, ScanTheorems!Entry, Scan!Directory,
    ScanTheorems!Directory, Scan!WasRead, ScanTheorems!WasRead, Scan!Note, ScanTheorems!Note, Scan!Compared, ScanTheorems!Compared, Scan!Last,
    ScanTheorems!Last, Scan!FileNodes, ScanTheorems!FileNodes, Scan!DirNodes,
    ScanTheorems!DirNodes, Scan!Names, ScanTheorems!Names, Scan!Paths, ScanTheorems!Paths,
    Scan!Absent, ScanTheorems!Absent, Scan!At, ScanTheorems!At, Scan!Fail,
    ScanTheorems!Fail, Scan!Kept, ScanTheorems!Kept, Scan!Top, ScanTheorems!Top, Scan!Does,
    ScanTheorems!Does, Scan!tree, ScanTheorems!tree, Scan!rounds, ScanTheorems!rounds
<1>10. Scan!Leave => ScanTheorems!Leave
  BY ScanReader, ScanDigests DEF
    Scan!Leave, ScanTheorems!Leave, Scan!Undisturbed, ScanTheorems!Undisturbed,
    Scan!DirStatus, ScanTheorems!DirStatus, Scan!Complete, ScanTheorems!Complete, Scan!Compared, ScanTheorems!Compared, Scan!Last,
    ScanTheorems!Last, Scan!Wanted, ScanTheorems!Wanted, Scan!FileNodes,
    ScanTheorems!FileNodes, Scan!DirNodes, ScanTheorems!DirNodes, Scan!Names,
    ScanTheorems!Names, Scan!Paths, ScanTheorems!Paths, Scan!Absent, ScanTheorems!Absent,
    Scan!At, ScanTheorems!At, Scan!Fail, ScanTheorems!Fail, Scan!Kept, ScanTheorems!Kept,
    Scan!Top, ScanTheorems!Top, Scan!Does, ScanTheorems!Does, Scan!tree, ScanTheorems!tree,
    Scan!rounds, ScanTheorems!rounds
<1>. QED  BY <1>1, <1>2, <1>3, <1>4, <1>5, <1>6, <1>7, <1>8, <1>9, <1>10 DEF Scan!Step, ScanTheorems!Step

LEMMA ScanSets ==
  /\ Scan!FileNodes = ScanTheorems!FileNodes /\ Scan!DirNodes = ScanTheorems!DirNodes
  /\ Scan!Names = ScanTheorems!Names /\ Scan!Absent = ScanTheorems!Absent
BY DEF
    Scan!FileNodes, ScanTheorems!FileNodes, Scan!DirNodes, ScanTheorems!DirNodes,
    Scan!Names, ScanTheorems!Names, Scan!Absent, ScanTheorems!Absent

LEMMA ScanNext == Scan!Next \/ UNCHANGED scanVars => [ScanTheorems!Next]_(ScanTheorems!vars)
<1>0. Scan!Moment' = ScanTheorems!Moment'
  BY DEF
    Scan!Moment, ScanTheorems!Moment, Scan!Content, ScanTheorems!Content, Scan!Existing,
    ScanTheorems!Existing, Scan!FileNodes, ScanTheorems!FileNodes, Scan!DirNodes,
    ScanTheorems!DirNodes, Scan!Names, ScanTheorems!Names, Scan!Paths, ScanTheorems!Paths,
    Scan!Absent, ScanTheorems!Absent
<1>1. ASSUME NEW f \in Scan!FileNodes, Scan!Write(f)
      PROVE  ScanTheorems!Write(f)
  BY <1>1, <1>0 DEF
    Scan!Write, ScanTheorems!Write, Scan!Watch, ScanTheorems!Watch, Scan!Change,
    ScanTheorems!Change, Scan!tree, ScanTheorems!tree, Scan!rounds, ScanTheorems!rounds
<1>2. ASSUME NEW x \in Scan!DirNodes, NEW n \in Scan!Names,
             NEW i \in Scan!FileNodes \cup (Scan!DirNodes \ {"root"}) \cup {Scan!Absent},
             Scan!Put(x, n, i)
      PROVE  ScanTheorems!Put(x, n, i)
  <2>1. Scan!Linked = ScanTheorems!Linked
    BY ScanSets DEF Scan!Linked, ScanTheorems!Linked
  <2>. QED  BY <1>2, <1>0, <2>1, ScanSets DEF
      Scan!Put, ScanTheorems!Put, Scan!Watch, ScanTheorems!Watch, Scan!Change,
      ScanTheorems!Change, Scan!tree, ScanTheorems!tree, Scan!rounds, ScanTheorems!rounds
<1>3. ASSUME UNCHANGED scanVars PROVE UNCHANGED ScanTheorems!vars
  BY <1>3 DEF scanVars, ScanTheorems!vars, ScanTheorems!tree, ScanTheorems!rounds
<1>. QED  BY <1>1, <1>2, <1>3, ScanSets, ScanSteps DEF Scan!Next, ScanTheorems!Next

LEMMA ScanInit == Scan!Init => ScanTheorems!Init
BY DEF
    Scan!Init, ScanTheorems!Init, Scan!Readers, ScanTheorems!Readers, Scan!OneFile,
    ScanTheorems!OneFile, Scan!Tree, ScanTheorems!Tree, Scan!ReadyTree,
    ScanTheorems!ReadyTree, Scan!PublicPool, ScanTheorems!PublicPool, Scan!UnitInventory,
    ScanTheorems!UnitInventory, Scan!FontRoot, ScanTheorems!FontRoot, Scan!FontBundle,
    ScanTheorems!FontBundle, Scan!UnitFile, ScanTheorems!UnitFile, Scan!CorpusSource,
    ScanTheorems!CorpusSource, Scan!StableCopy, ScanTheorems!StableCopy, Scan!ReceiptFile,
    ScanTheorems!ReceiptFile, Scan!TrustedExecutable, ScanTheorems!TrustedExecutable,
    Scan!ExecutionSnapshot, ScanTheorems!ExecutionSnapshot, Scan!Package,
    ScanTheorems!Package, Scan!SealedCopies, ScanTheorems!SealedCopies,
    Scan!PackageInventory, ScanTheorems!PackageInventory, Scan!FileNodes,
    ScanTheorems!FileNodes, Scan!DirNodes, ScanTheorems!DirNodes, Scan!Names,
    ScanTheorems!Names, Scan!Paths, ScanTheorems!Paths, Scan!Absent, ScanTheorems!Absent

LEMMA ScanTruth == ScanTheorems!ScanIsTrue => Scan!ScanIsTrue
BY ZenonT(40), ScanReader DEF
    Scan!ScanIsTrue, ScanTheorems!ScanIsTrue, Scan!Telling, ScanTheorems!Telling,
    Scan!Exact, ScanTheorems!Exact,
    Scan!NoneIsTorn, ScanTheorems!NoneIsTorn, Scan!EachWasThere, ScanTheorems!EachWasThere,
    Scan!Placing, ScanTheorems!Placing, Scan!DirectoryAtOnce, ScanTheorems!DirectoryAtOnce,
    Scan!FilesOf, ScanTheorems!FilesOf, Scan!HeldAtOnce, ScanTheorems!HeldAtOnce,
    Scan!TreeAtOnce, ScanTheorems!TreeAtOnce, Scan!FileNodes, ScanTheorems!FileNodes,
    Scan!DirNodes, ScanTheorems!DirNodes, Scan!Names, ScanTheorems!Names, Scan!Paths,
    ScanTheorems!Paths, Scan!Absent, ScanTheorems!Absent

(* Whatever others do to the files and directories meanwhile, what a reader *)
(* that succeeded has recorded was there: untorn, at its path, and all at   *)
(* once where the reader compares enough for that (scan_tree,               *)
(* validate_exact_tree, _copy_package and the others of StableScan).        *)
THEOREM HarnessScanIsTrue == HarnessSpec => []ScanIsTrue
<1>1. HarnessInit => ScanTheorems!IndInv
  BY ScanInit, ScanTheorems!IndInit DEF HarnessInit
<1>2. ScanTheorems!IndInv
        /\ [HarnessNext]_<<part, vars, candidateVars, unitVars, scanVars, removalVars>>
        => ScanTheorems!IndInv'
  <2>1. [HarnessNext]_<<part, vars, candidateVars, unitVars, scanVars, removalVars>>
          => Scan!Next \/ UNCHANGED scanVars
    BY DEF HarnessNext
  <2>. QED  BY <2>1, ScanNext, ScanTheorems!IndNext
<1>3. ScanTheorems!IndInv => ScanIsTrue
  BY ScanTruth DEF ScanTheorems!IndInv, ScanIsTrue
<1>. QED  BY <1>1, <1>2, <1>3, PTL DEF HarnessSpec
=============================================================================
