------------------------------ MODULE ScanProofs ------------------------------
(* Proofs about the readers of files and trees: what a scan that succeeded  *)
(* has recorded was there, for each reader and any number of changes by     *)
(* others.  Each section has a part of the invariant and shows that every   *)
(* step keeps it: the shape of a scan (Base), untorn records (Torn), what   *)
(* is at its path (Placed), what is read twice (FilesInv), directories that *)
(* are compared when they are left (LeaveInv), and what the surveys of a    *)
(* whole tree note (NotesInv, ListNoted, SealedNoted, PackageInv, LastInv). *)
EXTENDS StableScan, TLAPS, SequenceTheorems

-----------------------------------------------------------------------------
(* The readers, by what they have in common.                                *)
Leaving == {"ready", "pool"}
Filing == {"inventory", "bundle"}
Surveying == {"package", "sealed"}
Knowing == {"pool", "copy", "receipt", "trusted", "execution", "tools"}

LEMMA ReaderNames ==
  DOMAIN Readers = {"ready", "pool", "inventory", "fonts", "bundle", "file", "source", "copy",
                    "receipt", "trusted", "execution", "package", "sealed", "tools"}
BY DEF Readers

LEMMA ReaderTable ==
  ASSUME NEW k \in DOMAIN Readers
  PROVE  /\ Readers[k].leave <=> k \in Leaving
         /\ Readers[k].after <=> k \notin {"sealed", "tools"}
         /\ Readers[k].byPath <=> k \in {"bundle", "package", "sealed", "tools"}
         /\ Readers[k].passes = IF k \in {"ready", "copy", "receipt"} THEN 2 ELSE 1
         /\ "content" \in Readers[k].known <=> k \in Knowing
         /\ Readers[k].rounds = CASE k \in Filing -> <<"read", "list", "read">>
                                  [] k = "package" -> <<"survey", "read", "survey">>
                                  [] k = "sealed" -> <<"read", "read">>
                                  [] OTHER -> <<"read">>
         /\ Readers[k].first = CASE k = "package" -> {"survey"}
                                 [] k \in {"sealed", "tools"} -> {"read"}
                                 [] OTHER -> {}
         /\ Readers[k].notes = CASE k \in Filing -> "files"
                                 [] k \in Surveying -> "all"
                                 [] OTHER -> "nothing"
         /\ k \in Leaving => "directory" \in Readers[k].same
         /\ k \in Leaving \cup Surveying => Readers[k].names = "entries"
         /\ k \in Filing => Readers[k].names = "listed"
<1>1. CASE k = "ready"
  BY ZenonT(40), <1>1 DEF Readers, ReadyTree, Tree, OneFile, Leaving, Filing, Surveying, Knowing
<1>2. CASE k = "pool"
  BY ZenonT(40), <1>2 DEF Readers, PublicPool, Tree, OneFile, Leaving, Filing, Surveying, Knowing
<1>3. CASE k = "inventory"
  BY ZenonT(40), <1>3 DEF Readers, UnitInventory, OneFile, Leaving, Filing, Surveying, Knowing
<1>4. CASE k = "fonts"
  BY ZenonT(40), <1>4 DEF Readers, FontRoot, Tree, OneFile, Leaving, Filing, Surveying, Knowing
<1>5. CASE k = "bundle"
  BY ZenonT(40), <1>5 DEF Readers, FontBundle, OneFile, Leaving, Filing, Surveying, Knowing
<1>6. CASE k = "file"
  BY ZenonT(40), <1>6 DEF Readers, UnitFile, OneFile, Leaving, Filing, Surveying, Knowing
<1>7. CASE k = "source"
  BY ZenonT(40), <1>7 DEF Readers, CorpusSource, OneFile, Leaving, Filing, Surveying, Knowing
<1>8. CASE k = "copy"
  BY ZenonT(40), <1>8 DEF Readers, StableCopy, CorpusSource, OneFile, Leaving, Filing, Surveying, Knowing
<1>9. CASE k = "receipt"
  BY ZenonT(40), <1>9 DEF Readers, ReceiptFile, OneFile, Leaving, Filing, Surveying, Knowing
<1>10. CASE k = "trusted"
  BY ZenonT(40), <1>10 DEF Readers, TrustedExecutable, OneFile, Leaving, Filing, Surveying, Knowing
<1>11. CASE k = "execution"
  BY ZenonT(40), <1>11 DEF Readers, ExecutionSnapshot, TrustedExecutable, OneFile, Leaving, Filing,
               Surveying, Knowing
<1>12. CASE k = "package"
  BY <1>12 DEF Readers, Package, Tree, OneFile, Leaving, Filing, Surveying, Knowing
<1>13. CASE k = "sealed"
  BY <1>13 DEF Readers, SealedCopies, Tree, OneFile, Leaving, Filing, Surveying, Knowing
<1>14. CASE k = "tools"
  BY <1>14 DEF Readers, PackageInventory, Tree, OneFile, Leaving, Filing, Surveying, Knowing
<1>. QED
  BY ReaderNames, <1>1, <1>2, <1>3, <1>4, <1>5, <1>6, <1>7, <1>8, <1>9, <1>10, <1>11, <1>12,
     <1>13, <1>14

-----------------------------------------------------------------------------
(* What is so at any time of a scan.                                        *)
Going == result \in {"new", "running"}
Kinds == [reader : DOMAIN Readers, shows : BOOLEAN, returns : BOOLEAN]

FileNames == {"f", "g"}
SubDirs == {"s", "s2"}
Looked == {"next", "enter", "open", "read"}
InFile == {"open", "read"}

TreeInv ==
  /\ kind \in Kinds
  /\ entries \in [DirNodes -> [Names -> FileNodes \cup SubDirs \cup {Absent}]]
  /\ \A x \in DirNodes : entries[x]["d"] \in SubDirs \cup {Absent}
  /\ \A x \in SubDirs : entries[x]["d"] = Absent
  /\ \A x \in DirNodes, n \in FileNames : entries[x][n] \in FileNodes \cup {Absent}
  /\ touched \in [DirNodes -> Nat] /\ version \in [FileNodes -> Nat]
  /\ result = "running" => Moment \in moments

Frames ==
  [path : Paths, expected : [inode : DirNodes, time : Nat], listed : BOOLEAN,
   todo : SUBSET Names]
Root == stack[Len(stack)]
Inner == Len(stack) = 2

StackInv ==
  /\ round \in 1..Len(Reader.rounds)
  /\ now.at \in Looked \cup {"begin", "enumerate", "root"}
  /\ now.at \notin Looked => stack = <<>>
  /\ now.at \in Looked =>
       /\ stack \in Seq(Frames) /\ Len(stack) \in {1, 2}
       /\ Root.path = "root" /\ Root.expected.inode = "root"
       /\ Root.expected.time <= touched["root"]
       /\ Inner => /\ Top.path = "d" /\ Top.expected.inode \in SubDirs
                   /\ Top.expected.time <= touched[Top.expected.inode]
                   /\ Root.listed /\ "d" \notin Root.todo

Statuses == [inode : FileNodes \cup DirNodes, time : Nat]
NowInv ==
  /\ now.at = "enumerate" => now.path \in Paths /\ "path" \in DOMAIN now
  /\ now.at = "enter" =>
       /\ now.name = "d" /\ ~Inner /\ Root.listed /\ "d" \notin Root.todo
       /\ now.looked \in [inode : SubDirs, time : Nat]
       /\ now.looked.time <= touched[now.looked.inode]
  /\ now.at \in InFile =>
       /\ now.name \in FileNames /\ Does("read") /\ Top.listed
       /\ now.looked \in [inode : FileNodes, time : Nat]
       /\ now.looked.time <= version[now.looked.inode]
  /\ now.at = "read" =>
       /\ now.opened \in [inode : FileNodes, time : Nat]
       /\ now.opened.time <= version[now.opened.inode]
       /\ "read" \in DOMAIN now /\ now.read \in Seq(Nat) /\ Len(now.read) <= 2 * Reader.passes
       /\ \A k \in 1..Len(now.read) : /\ now.read[k] <= version[now.opened.inode]
                                      /\ now.opened.time <= now.read[k]
                                      /\ now.opened.inode = now.looked.inode
                                           => now.looked.time <= now.read[k]
       /\ \A k, l \in 1..Len(now.read) : k <= l => now.read[k] <= now.read[l]

(* A record is a file and the version of its two pieces.                    *)
Pieces(i, v, w) == IF v = w THEN <<i, v>> ELSE <<i, v, w>>
IsRecord(c) ==
  \E i \in FileNodes, v \in Nat, w \in Nat :
    /\ v <= version[i] /\ w <= version[i]
    /\ c = Pieces(i, v, w)
IsPlain(r) == r = [n \in DOMAIN r |-> r[n]]
RecordsInv ==
  /\ DOMAIN records = Paths /\ listing \in [Paths -> SUBSET Names]
  /\ \A p \in Paths : IsPlain(records[p])
  /\ \A p \in Paths : /\ DOMAIN records[p] \subseteq FileNames
                      /\ \A n \in DOMAIN records[p] : IsRecord(records[p][n])

Base == StackInv /\ NowInv /\ RecordsInv

-----------------------------------------------------------------------------
(* What others do to the tree.                                              *)
Others ==
  \/ \E f \in FileNodes : Write(f)
  \/ \E x \in DirNodes, n \in Names, i \in FileNodes \cup (DirNodes \ {"root"}) \cup {Absent} :
       Put(x, n, i)

(* What is left of it: nothing but times that grow, and the same entries    *)
(* where the time of a directory has not changed.                           *)
Grows ==
  /\ \A x \in DirNodes : touched[x] <= touched'[x]
  /\ \A f \in FileNodes : version[f] <= version'[f]
  /\ \A x \in DirNodes : touched'[x] = touched[x] => entries'[x] = entries[x]
  /\ moments \subseteq moments'

LEMMA OthersGrow ==
  ASSUME TreeInv, Others
  PROVE  /\ TreeInv' /\ Grows
         /\ Going /\ UNCHANGED <<kind, rounds, stack, now, records, noted, result>>
<1>1. /\ UNCHANGED <<kind, rounds, stack, now, records, noted, result>>
      /\ Going
      /\ moments' = IF result = "new" THEN moments ELSE moments \cup {Moment'}
  BY DEF Others, Write, Put, Change, Watch, Going
<1>2. ASSUME NEW f \in FileNodes, Write(f)
      PROVE  /\ touched' = touched /\ entries' = entries
             /\ version' \in [FileNodes -> Nat]
             /\ \A g \in FileNodes : version[g] <= version'[g]
  BY <1>2 DEF Write, TreeInv
<1>3. ASSUME NEW x \in DirNodes, NEW n \in Names,
             NEW i \in FileNodes \cup (DirNodes \ {"root"}) \cup {Absent}, Put(x, n, i)
      PROVE  /\ version' = version
             /\ touched' \in [DirNodes -> Nat]
             /\ \A y \in DirNodes : touched[y] <= touched'[y]
             /\ \A y \in DirNodes : touched'[y] = touched[y] => entries'[y] = entries[y]
             /\ entries' \in [DirNodes -> [Names -> FileNodes \cup SubDirs \cup {Absent}]]
             /\ \A y \in DirNodes : entries'[y]["d"] \in SubDirs \cup {Absent}
             /\ \A y \in SubDirs : entries'[y]["d"] = Absent
             /\ \A y \in DirNodes, m \in FileNames : entries'[y][m] \in FileNodes \cup {Absent}
  <2>1. /\ version' = version
        /\ entries' = [entries EXCEPT ![x][n] = i]
        /\ touched' = [touched EXCEPT ![x] = @ + 1]
        /\ i \in DirNodes => x = "root" /\ n = "d"
        /\ i \in FileNodes => n # "d"
    BY <1>3 DEF Put
  <2>2. touched' \in [DirNodes -> Nat] /\ \A y \in DirNodes : touched[y] <= touched'[y]
    BY <2>1 DEF TreeInv
  <2>3. \A y \in DirNodes : touched'[y] = touched[y] => y # x
    BY <2>1 DEF TreeInv
  <2>4. \A y \in DirNodes : y # x => entries'[y] = entries[y]
    BY <2>1 DEF TreeInv
  <2>5. i \in FileNodes \cup SubDirs \cup {Absent}
    BY DEF DirNodes, SubDirs
  <2>6. entries' \in [DirNodes -> [Names -> FileNodes \cup SubDirs \cup {Absent}]]
    BY <2>1, <2>5 DEF TreeInv
  <2>7. entries'[x] = [entries[x] EXCEPT ![n] = i]
    BY <2>1 DEF TreeInv
  <2>8. \A m \in Names : entries'[x][m] = IF m = n THEN i ELSE entries[x][m]
    BY <2>7 DEF TreeInv
  <2>9. "d" \in Names /\ FileNames \subseteq Names /\ SubDirs \subseteq DirNodes
    BY DEF Names, FileNames, SubDirs, DirNodes
  <2>10. \A y \in DirNodes : entries'[y]["d"] \in SubDirs \cup {Absent}
    <3>1. entries'[x]["d"] \in SubDirs \cup {Absent}
      BY <2>1, <2>5, <2>8, <2>9 DEF TreeInv
    <3>. QED  BY <3>1, <2>4 DEF TreeInv
  <2>11. \A y \in SubDirs : entries'[y]["d"] = Absent
    <3>1. x \in SubDirs => entries'[x]["d"] = Absent
      BY <2>1, <2>5, <2>8, <2>9 DEF TreeInv, SubDirs
    <3>. QED  BY <3>1, <2>4, <2>9 DEF TreeInv
  <2>12. \A y \in DirNodes, m \in FileNames : entries'[y][m] \in FileNodes \cup {Absent}
    <3>1. \A m \in FileNames : entries'[x][m] \in FileNodes \cup {Absent}
      <4>1. i \in SubDirs => n = "d"
        BY <2>1, <2>9
      <4>. QED  BY <4>1, <2>5, <2>8, <2>9 DEF TreeInv, FileNames
    <3>. QED  BY <3>1, <2>4 DEF TreeInv
  <2>. QED  BY <2>1, <2>2, <2>3, <2>4, <2>6, <2>10, <2>11, <2>12
<1>4. Grows
  BY <1>1, <1>2, <1>3 DEF Others, Grows, TreeInv
<1>5. TreeInv'
  BY <1>1, <1>2, <1>3 DEF Others, TreeInv
<1>. QED  BY <1>1, <1>4, <1>5

-----------------------------------------------------------------------------
(* The frames of the stack.                                                 *)
LEMMA FrameFacts ==
  ASSUME StackInv, now.at \in Looked
  PROVE  /\ stack \in Seq(Frames) /\ Len(stack) \in {1, 2} /\ stack # <<>>
         /\ Root \in Frames /\ Top \in Frames
         /\ Top = stack[1] /\ Tail(stack) \in Seq(Frames) /\ Len(Tail(stack)) = Len(stack) - 1
         /\ ~Inner => Top = Root
         /\ Inner => Tail(stack)[1] = Root
BY HeadTailProperties, ElementOfSeq DEF StackInv, Root, Top, Inner

LEMMA NewTop ==
  ASSUME StackInv, now.at \in Looked, NEW u \in Frames, stack' = <<u>> \o Tail(stack)
  PROVE  /\ stack' \in Seq(Frames) /\ Len(stack)' = Len(stack)
         /\ Inner' <=> Inner
         /\ Top' = u /\ Root' = IF Inner THEN Root ELSE u
<1>1. /\ Tail(stack) \in Seq(Frames) /\ Len(Tail(stack)) = Len(stack) - 1
      /\ Len(stack) \in {1, 2}
      /\ Inner => Tail(stack)[1] = Root
  BY FrameFacts
<1>2. <<u>> \in Seq(Frames) /\ Len(<<u>>) = 1
  OBVIOUS
<1>3. /\ stack' \in Seq(Frames) /\ Len(stack') = Len(stack)
      /\ stack'[1] = u
      /\ Inner => stack'[2] = Root
  BY <1>1, <1>2, ConcatProperties DEF Inner
<1>4. Top' = stack'[1] /\ Root' = stack'[Len(stack')]
  <2>1. stack' # <<>>
    BY <1>1, <1>3
  <2>. QED  BY <1>3, <2>1, HeadTailProperties DEF Top, Root
<1>5. Inner' <=> Inner
  BY <1>3 DEF Inner
<1>6. Root' = IF Inner THEN Root ELSE u
  BY <1>1, <1>3, <1>4 DEF Inner
<1>. QED  BY <1>3, <1>4, <1>5, <1>6

LEMMA Pushed ==
  ASSUME StackInv, now.at \in Looked, ~Inner, NEW u \in Frames, stack' = <<u>> \o stack
  PROVE  stack' \in Seq(Frames) /\ Len(stack)' = 2 /\ Inner' /\ Top' = u /\ Root' = Root
<1>1. stack \in Seq(Frames) /\ Len(stack) = 1
  BY FrameFacts DEF Inner
<1>2. <<u>> \in Seq(Frames) /\ Len(<<u>>) = 1
  OBVIOUS
<1>3. stack' \in Seq(Frames) /\ Len(stack') = 2 /\ stack'[1] = u /\ stack'[2] = stack[1]
  BY <1>1, <1>2, ConcatProperties
<1>. QED  BY <1>1, <1>3, HeadTailProperties DEF Inner, Top, Root

LEMMA Popped ==
  ASSUME StackInv, now.at \in Looked, Inner, stack' = Tail(stack)
  PROVE  /\ stack' \in Seq(Frames) /\ Len(stack)' = 1 /\ ~Inner'
         /\ Top' = Root /\ Root' = Root
<1>1. Tail(stack) \in Seq(Frames) /\ Tail(stack)[1] = Root /\ Len(Tail(stack)) = Len(stack) - 1
  BY FrameFacts
<1>2. Len(Tail(stack)) = 1
  BY <1>1 DEF Inner
<1>3. stack' \in Seq(Frames) /\ Len(stack') = 1 /\ stack'[1] = Root
  BY <1>1, <1>2
<1>4. ASSUME NEW s \in Seq(Frames), Len(s) = 1
      PROVE  Head(s) = s[1]
  BY <1>4
<1>5. Top' = stack'[1]
  BY <1>3, <1>4 DEF Top
<1>6. Root' = stack'[1]
  BY <1>3 DEF Root
<1>7. ~Inner'
  BY SMTT(30), <1>3 DEF Inner
<1>. QED  BY <1>3, <1>5, <1>6, <1>7

LEMMA Single ==
  ASSUME NEW u \in Frames, stack' = <<u>>
  PROVE  /\ stack' \in Seq(Frames) /\ Len(stack)' = 1 /\ ~Inner'
         /\ Top' = u /\ Root' = u
BY DEF Inner, Top, Root

(* The name that is taken next.                                             *)
LEMMA NextNameIn ==
  ASSUME NEW S \in SUBSET Names, S # {}
  PROVE  NextName(S) \in S
<1>1. \E n \in S : \A m \in S : Place[n] <= Place[m]
  <2>1. Place["d"] = 1 /\ Place["f"] = 2 /\ Place["g"] = 3
    BY DEF Place
  <2>2. CASE "d" \in S
    BY <2>1, <2>2 DEF Names
  <2>3. CASE "d" \notin S /\ "f" \in S
    BY <2>1, <2>3 DEF Names
  <2>4. CASE S = {"g"}
    BY <2>1, <2>4
  <2>. QED  BY <2>2, <2>3, <2>4 DEF Names
<1>. QED  BY <1>1 DEF NextName

-----------------------------------------------------------------------------
(* What an entry is.                                                        *)
Dir(t) == IF t.path = "root" THEN "root"
          ELSE IF Reader.byPath THEN entries["root"]["d"] ELSE t.expected.inode

LEMMA EntryFacts ==
  ASSUME TreeInv, StackInv, now.at \in Looked, NEW n \in Names, Entry(n) # Absent
  PROVE  /\ Dir(Top) \in DirNodes /\ Entry(n) = entries[Dir(Top)][n]
         /\ n \in FileNames => Entry(n) \in FileNodes
         /\ n = "d" => Entry(n) \in SubDirs /\ ~Inner /\ Top.path = "root"
         /\ Top.path = "root" <=> ~Inner
         /\ Inner => Dir(Top) \in SubDirs
<1>1. /\ Top.path = "root" <=> ~Inner
      /\ ~Inner => Top.expected.inode = "root"
      /\ Inner => Top.path = "d" /\ Top.expected.inode \in SubDirs
      /\ Top \in Frames
  BY FrameFacts DEF StackInv, Inner
<1>2. entries["root"]["d"] \in SubDirs \cup {Absent}
  BY DEF TreeInv, DirNodes
<1>3. Absent \notin DirNodes /\ SubDirs \subseteq DirNodes /\ "root" \in DirNodes
  BY DEF Absent, DirNodes, SubDirs
<1>4. Entry(n) = IF Dir(Top) \in DirNodes THEN entries[Dir(Top)][n] ELSE Absent
  BY <1>1 DEF Entry, Dir, Directory
<1>5. Dir(Top) \in DirNodes /\ Entry(n) = entries[Dir(Top)][n]
  BY <1>4
<1>6. Inner => Dir(Top) \in SubDirs
  BY <1>1, <1>2, <1>3, <1>5 DEF Dir
<1>7. n \in FileNames => Entry(n) \in FileNodes
  BY <1>5 DEF TreeInv
<1>8. n = "d" => Entry(n) \in SubDirs /\ ~Inner
  BY <1>5, <1>6 DEF TreeInv
<1>. QED  BY <1>1, <1>5, <1>6, <1>7, <1>8

-----------------------------------------------------------------------------
(* What each step of the reader does, unless the scan fails.                *)

LEMMA ListFacts ==
  ASSUME TreeInv, Base, List, Going'
  PROVE  \E names \in SUBSET Names :
           /\ names = NamesOf(Top.path, Top.expected.inode)
           /\ Does("list") => names = WantedNames(Top.path)
           /\ now.at = "next" /\ ~Top.listed
           /\ stack' \in Seq(Frames) /\ Len(stack)' = Len(stack)
           /\ Inner' <=> Inner
           /\ Top' = [Top EXCEPT !.listed = TRUE, !.todo = names]
           /\ Root' = IF Inner THEN Root ELSE [Top EXCEPT !.listed = TRUE, !.todo = names]
           /\ UNCHANGED <<kind, tree, now, records, noted, rounds, result>>
<1>1. now.at = "next" /\ ~Top.listed /\ UNCHANGED <<kind, tree>> /\ now.at \in Looked
  BY DEF List, At, Kept, Looked
<1>2. Top \in Frames
  BY <1>1, FrameFacts DEF Base
<1>3. NamesOf(Top.path, Top.expected.inode) \in SUBSET Names
  <2>1. Existing(Top.expected.inode) \in SUBSET Names /\ listing[Top.path] \in SUBSET Names
    BY <1>2 DEF Existing, Base, RecordsInv, Frames
  <2>2. WantedNames(Top.path) \in SUBSET Names /\ {"f"} \in SUBSET Names
    BY DEF WantedNames, Names
  <2>. QED  BY <2>1, <2>2 DEF NamesOf
<1>4. PICK names \in SUBSET Names : names = NamesOf(Top.path, Top.expected.inode)
  BY <1>3
<1>5. /\ Does("list") => names = WantedNames(Top.path)
      /\ stack' = <<[Top EXCEPT !.listed = TRUE, !.todo = names]>> \o Tail(stack)
      /\ UNCHANGED <<now, records, noted, rounds, result>>
  BY <1>4 DEF List, Fail, Going
<1>6. PICK u \in Frames : u = [Top EXCEPT !.listed = TRUE, !.todo = names]
  BY <1>2 DEF Frames
<1>7. stack' = <<u>> \o Tail(stack)
  BY <1>5, <1>6
<1>8. /\ stack' \in Seq(Frames) /\ Len(stack)' = Len(stack)
      /\ Inner' <=> Inner
      /\ Top' = u /\ Root' = IF Inner THEN Root ELSE u
  BY <1>1, <1>7, NewTop DEF Base
<1>. QED  BY <1>1, <1>4, <1>5, <1>6, <1>8

(* The name n is taken, and i is found there.                               *)
TakesDirectory(n, i) ==
  /\ n = "d" /\ i \in SubDirs /\ ~Inner
  /\ now' = [at |-> "enter", name |-> n, looked |-> DirStatus(i)]
  /\ NoteDirectory(Top.path, n, i)
TakesFile(n, i) ==
  /\ n \in FileNames /\ i \in FileNodes
  /\ now' = IF Does("read") THEN [at |-> "open", name |-> n, looked |-> FileStatus(i)]
            ELSE [at |-> "next"]
  /\ noted' = IF Does("survey") THEN Note(Top.path, n, FileStatus(i), <<>>) ELSE noted
Takes(n, i) ==
  /\ n \in Top.todo /\ i = Entry(n) /\ now.at = "next" /\ Top.listed
  /\ stack' \in Seq(Frames) /\ Len(stack)' = Len(stack)
  /\ Inner' <=> Inner
  /\ Top' = [Top EXCEPT !.todo = Top.todo \ {n}]
  /\ Root' = IF Inner THEN Root ELSE [Top EXCEPT !.todo = Top.todo \ {n}]
  /\ TakesDirectory(n, i) \/ TakesFile(n, i)
  /\ UNCHANGED <<kind, tree, records, rounds, result>>

LEMMA LookFacts ==
  ASSUME TreeInv, Base, Look, Going'
  PROVE  \E n \in Names : \E i \in FileNodes \cup SubDirs : Takes(n, i)
<1>1. /\ now.at = "next" /\ Top.listed /\ Top.todo # {}
      /\ UNCHANGED <<kind, tree>> /\ now.at \in Looked
  BY DEF Look, At, Kept, Looked
<1>2. Top \in Frames
  BY <1>1, FrameFacts DEF Base
<1>3. PICK n \in Names : n = NextName(Top.todo) /\ n \in Top.todo
  BY <1>1, <1>2, NextNameIn DEF Frames
<1>4. /\ Entry(n) # Absent
      /\ stack' = <<[Top EXCEPT !.todo = @ \ {n}]>> \o Tail(stack)
      /\ UNCHANGED <<records, rounds, result>>
      /\ IF Entry(n) \in DirNodes
         THEN now' = [at |-> "enter", name |-> n, looked |-> DirStatus(Entry(n))]
              /\ NoteDirectory(Top.path, n, Entry(n))
         ELSE /\ now' = IF Does("read") THEN [at |-> "open", name |-> n,
                                              looked |-> FileStatus(Entry(n))]
                        ELSE [at |-> "next"]
              /\ noted' = IF Does("survey") THEN Note(Top.path, n, FileStatus(Entry(n)), <<>>)
                          ELSE noted
  BY <1>3 DEF Look, Fail, Going
<1>5. PICK u \in Frames : u = [Top EXCEPT !.todo = Top.todo \ {n}]
  BY <1>2 DEF Frames
<1>6. stack' = <<u>> \o Tail(stack)
  BY <1>4, <1>5
<1>7. /\ stack' \in Seq(Frames) /\ Len(stack)' = Len(stack)
      /\ Inner' <=> Inner
      /\ Top' = u /\ Root' = IF Inner THEN Root ELSE u
  BY <1>1, <1>6, NewTop DEF Base
<1>8. /\ n \in FileNames => Entry(n) \in FileNodes
      /\ n = "d" => Entry(n) \in SubDirs /\ ~Inner
  BY <1>1, <1>4, EntryFacts DEF Base
<1>9. n = "d" \/ n \in FileNames
  BY DEF Names, FileNames
<1>10. PICK i \in FileNodes \cup SubDirs : i = Entry(n)
  BY <1>8, <1>9
<1>11. SubDirs \subseteq DirNodes /\ \A j \in FileNodes : j \notin DirNodes
  BY DEF SubDirs, DirNodes, FileNodes
<1>12. TakesDirectory(n, i) \/ TakesFile(n, i)
  BY <1>4, <1>8, <1>9, <1>10, <1>11 DEF TakesDirectory, TakesFile
<1>13. Takes(n, i)
  BY <1>1, <1>3, <1>4, <1>5, <1>7, <1>10, <1>12 DEF Takes
<1>. QED  BY <1>13

LEMMA EnterFacts ==
  ASSUME TreeInv, Base, Enter, Going'
  PROVE  /\ now.at = "enter" /\ now.name = "d" /\ ~Inner
         /\ stack' \in Seq(Frames) /\ Len(stack)' = 2 /\ Inner' /\ Root' = Root
         /\ Top.path = "root" /\ Entry("d") = entries["root"]["d"]
         /\ \E e \in [inode : SubDirs, time : Nat] :
              /\ Top' = Opened("d", e) /\ e.time <= touched[e.inode]
              /\ e = IF First \/ Reader.leave THEN now.looked ELSE DirStatus(Entry("d"))
         /\ ~First => /\ entries["root"]["d"] \in SubDirs
                      /\ "directory" \in Reader.same
                           => DirStatus(entries["root"]["d"]) = now.looked
         /\ now' = [at |-> "next"]
         /\ UNCHANGED <<kind, tree, records, noted, rounds, result>>
<1>1. /\ now.at = "enter" /\ now.at \in Looked /\ UNCHANGED <<kind, tree>>
      /\ now.name = "d" /\ ~Inner
      /\ now.looked \in [inode : SubDirs, time : Nat]
      /\ now.looked.time <= touched[now.looked.inode]
  BY DEF Enter, At, Kept, Looked, Base, NowInv
<1>2. Top.path = "root" /\ Top.expected.inode = "root"
  BY <1>1, FrameFacts DEF Base, StackInv
<1>3. Entry("d") = entries["root"]["d"]
  BY <1>2 DEF Entry, Directory, DirNodes
<1>4. /\ ~First => /\ Entry("d") \in DirNodes
                   /\ "directory" \in Reader.same => DirStatus(Entry("d")) = now.looked
      /\ stack' = <<Opened("d", IF First \/ Reader.leave THEN now.looked
                                ELSE DirStatus(Entry("d")))>> \o stack
      /\ now' = [at |-> "next"] /\ UNCHANGED <<records, noted, rounds, result>>
  BY <1>1 DEF Enter, Fail, Going
<1>5. ~First => Entry("d") \in SubDirs
  <2>1. entries["root"]["d"] \in SubDirs \cup {Absent} /\ Absent \notin DirNodes
    BY DEF TreeInv, DirNodes, Absent
  <2>. QED  BY <1>3, <1>4, <2>1
<1>6. ~First => /\ DirStatus(Entry("d")) \in [inode : SubDirs, time : Nat]
                /\ DirStatus(Entry("d")).time <= touched[DirStatus(Entry("d")).inode]
  <2>1. SubDirs \subseteq DirNodes
    BY DEF SubDirs, DirNodes
  <2>. QED  BY <1>5, <2>1 DEF DirStatus, TreeInv
<1>7. PICK e \in [inode : SubDirs, time : Nat] :
        /\ e = IF First \/ Reader.leave THEN now.looked ELSE DirStatus(Entry("d"))
        /\ e.time <= touched[e.inode]
  BY <1>1, <1>6
<1>8. PICK u \in Frames : u = Opened("d", e)
  <2>1. Opened("d", e) \in Frames
    BY DEF Opened, Frames, SubDirs, DirNodes, Paths
  <2>. QED  BY <2>1
<1>9. stack' = <<u>> \o stack
  BY <1>4, <1>7, <1>8
<1>10. stack' \in Seq(Frames) /\ Len(stack)' = 2 /\ Inner' /\ Top' = u /\ Root' = Root
  BY <1>1, <1>9, Pushed DEF Base
<1>. QED  BY <1>1, <1>2, <1>3, <1>4, <1>5, <1>7, <1>8, <1>10

LEMMA OpenFacts ==
  ASSUME TreeInv, Base, Open, Going'
  PROVE  /\ now.at = "open" /\ now.name \in FileNames
         /\ Entry(now.name) \in FileNodes /\ Entry(now.name) # Absent
         /\ now' = [at |-> "read", name |-> now.name, looked |-> now.looked,
                    opened |-> FileStatus(Entry(now.name)), read |-> <<>>]
         /\ UNCHANGED <<kind, tree, stack, records, noted, rounds, result>>
<1>1. now.at = "open" /\ UNCHANGED <<kind, tree>> /\ now.at \in InFile
  BY DEF Open, At, Kept, InFile
<1>2. now.name \in FileNames
  BY <1>1 DEF Base, NowInv
<1>3. Entry(now.name) \in FileNodes /\ Entry(now.name) # Absent
  BY DEF Open, Fail, Going, FileNodes, Absent
<1>4. now' = [at |-> "read", name |-> now.name, looked |-> now.looked,
              opened |-> FileStatus(Entry(now.name)), read |-> <<>>]
      /\ UNCHANGED <<stack, records, noted, rounds, result>>
  BY DEF Open, Fail, Going
<1>. QED  BY <1>1, <1>2, <1>3, <1>4

LEMMA ReadFacts ==
  ASSUME TreeInv, Base, Read, Going'
  PROVE  /\ now.at = "read" /\ Len(now.read) < 2 * Reader.passes
         /\ now.opened.inode \in FileNodes /\ version[now.opened.inode] \in Nat
         /\ \E s \in Seq(Nat) :
              /\ now'.read = s /\ Len(s) = Len(now.read) + 1
              /\ s[Len(now.read) + 1] = version[now.opened.inode]
              /\ \A k \in 1..Len(now.read) : s[k] = now.read[k]
         /\ now'.at = "read" /\ now'.name = now.name /\ now'.looked = now.looked
         /\ now'.opened = now.opened /\ "read" \in DOMAIN now'
         /\ UNCHANGED <<kind, tree, stack, records, noted, rounds, result>>
<1>1. /\ now.at = "read" /\ Len(now.read) < 2 * Reader.passes
      /\ now' = [now EXCEPT !.read = Append(@, version[now.opened.inode])]
      /\ UNCHANGED <<kind, tree, stack, records, noted, rounds, result>>
  BY DEF Read, At, Kept, Fail, Going
<1>2. PICK i \in FileNodes : i = now.opened.inode /\ version[i] \in Nat
  BY <1>1 DEF Base, NowInv, TreeInv
<1>3. PICK r \in Seq(Nat), v \in Nat : r = now.read /\ v = version[i]
  BY <1>1, <1>2 DEF Base, NowInv
<1>4. PICK s \in Seq(Nat) :
         /\ s = Append(r, v) /\ Len(s) = Len(r) + 1 /\ s[Len(r) + 1] = v
         /\ \A k \in 1..Len(r) : s[k] = r[k]
  <2>1. /\ Append(r, v) \in Seq(Nat) /\ Len(Append(r, v)) = Len(r) + 1
        /\ Append(r, v)[Len(r) + 1] = v
        /\ \A k \in 1..Len(r) : Append(r, v)[k] = r[k]
    OBVIOUS
  <2>. QED  BY <2>1
<1>5. /\ now'.at = "read" /\ now'.name = now.name /\ now'.looked = now.looked
      /\ now'.opened = now.opened /\ now'.read = s /\ "read" \in DOMAIN now'
  <2>1. now' = [now EXCEPT !.read = s]
    BY <1>1, <1>2, <1>3, <1>4
  <2>2. "read" \in DOMAIN now
    BY <1>1 DEF Base, NowInv
  <2>. QED  BY <1>1, <2>1, <2>2
<1>. QED  BY <1>1, <1>2, <1>3, <1>4, <1>5

LEMMA CloseFacts ==
  ASSUME TreeInv, Base, Close, Going'
  PROVE  /\ now.at = "read" /\ now.name \in FileNames /\ Len(now.read) = 2 * Reader.passes
         /\ Top.path \in Paths
         /\ Reader.after => FileStatus(now.opened.inode) = now.opened
         /\ "content" \in Reader.known => IsKnown(Top.path, now.name, WasRead)
         /\ Agree
         /\ DOMAIN records' = Paths
         /\ DOMAIN records'[Top.path] = DOMAIN records[Top.path] \cup {now.name}
         /\ records'[Top.path][now.name] = WasRead
         /\ \A n \in DOMAIN records[Top.path] :
              n # now.name => records'[Top.path][n] = records[Top.path][n]
         /\ \A p \in Paths : p # Top.path => records'[p] = records[p]
         /\ IsPlain(records'[Top.path])
         /\ noted' = IF Reader.notes = "nothing" THEN noted
                     ELSE Note(Top.path, now.name,
                               IF Reader.after THEN now.opened ELSE now.looked, WasRead)
         /\ now' = [at |-> "next"]
         /\ UNCHANGED <<kind, tree, stack, rounds, result>>
<1>1. /\ now.at = "read" /\ UNCHANGED <<kind, tree>> /\ now.at \in InFile
      /\ Len(now.read) = 2 * Reader.passes /\ now.at \in Looked
  BY DEF Close, At, Kept, InFile, Looked
<1>2. now.name \in FileNames /\ Top.path \in Paths
  BY <1>1, FrameFacts DEF Base, NowInv, Frames
<1>3. /\ Reader.after => FileStatus(now.opened.inode) = now.opened
      /\ "content" \in Reader.known => IsKnown(Top.path, now.name, WasRead)
      /\ Agree
      /\ records' = [records EXCEPT ![Top.path] =
                       [n \in DOMAIN @ \cup {now.name} |-> IF n = now.name THEN WasRead
                                                            ELSE @[n]]]
      /\ noted' = IF Reader.notes = "nothing" THEN noted
                  ELSE Note(Top.path, now.name,
                            IF Reader.after THEN now.opened ELSE now.looked, WasRead)
      /\ now' = [at |-> "next"] /\ UNCHANGED <<stack, rounds, result>>
  BY DEF Close, Fail, Going
<1>4. DOMAIN records = Paths
  BY DEF Base, RecordsInv
<1>5. PICK w : w = WasRead
  OBVIOUS
<1>6. PICK p \in Paths, m \in FileNames : p = Top.path /\ m = now.name
  BY <1>2
<1>7. records' = [records EXCEPT ![p] = [n \in DOMAIN records[p] \cup {m} |->
                                           IF n = m THEN w ELSE records[p][n]]]
  BY <1>3, <1>4, <1>5, <1>6
<1>8. /\ DOMAIN records' = Paths
      /\ DOMAIN records'[p] = DOMAIN records[p] \cup {m}
      /\ records'[p][m] = w
      /\ \A n \in DOMAIN records[p] : n # m => records'[p][n] = records[p][n]
      /\ \A q \in Paths : q # p => records'[q] = records[q]
      /\ IsPlain(records'[p])
  <2>1. records'[p] = [n \in DOMAIN records[p] \cup {m} |-> IF n = m THEN w ELSE records[p][n]]
    BY <1>4, <1>7
  <2>. QED  BY <1>4, <1>7, <2>1 DEF IsPlain
<1>. QED  BY <1>1, <1>2, <1>3, <1>5, <1>6, <1>8

(* A directory is left, the scan goes into another round, or it ends.       *)
LeavesInner ==
  /\ Inner /\ stack' \in Seq(Frames) /\ Len(stack)' = 1 /\ ~Inner' /\ Top' = Root /\ Root' = Root
  /\ UNCHANGED <<now, records, noted, rounds, result>>
BeginsRound ==
  /\ ~Inner /\ stack' = <<>> /\ Repeats /\ round # Len(Reader.rounds)
  /\ round' = round + 1 /\ now' = [at |-> "begin"]
  /\ before' = (IF Compared THEN noted ELSE before)
  /\ noted' = {} /\ UNCHANGED <<listing, records, result>>
Ends ==
  /\ ~Inner /\ Repeats /\ round = Len(Reader.rounds) /\ result' = "ok"
  /\ UNCHANGED <<now, records, noted, rounds>>

LEMMA LeaveFacts ==
  ASSUME TreeInv, Base, Leave, result' # "failed"
  PROVE  /\ now.at = "next" /\ Top.listed /\ Top.todo = {} /\ Undisturbed
         /\ LeavesInner \/ BeginsRound \/ Ends
         /\ UNCHANGED <<kind, tree>>
<1>1. /\ now.at = "next" /\ Top.listed /\ Top.todo = {} /\ UNCHANGED <<kind, tree>>
      /\ now.at \in Looked
  BY DEF Leave, At, Kept, Looked
<1>2. Undisturbed
  BY DEF Leave, Fail
<1>3. Len(stack) \in {1, 2} /\ (Len(stack) > 1 <=> Inner)
  <2>1. Len(stack) \in {1, 2}
    BY <1>1, FrameFacts DEF Base
  <2>2. CASE Len(stack) = 1
    BY <2>2 DEF Inner
  <2>3. CASE Len(stack) = 2
    BY <2>3 DEF Inner
  <2>. QED  BY <2>1, <2>2, <2>3
<1>4. CASE Inner
  <2>1. stack' = Tail(stack) /\ UNCHANGED <<now, records, noted, rounds, result>>
    BY <1>2, <1>3, <1>4 DEF Leave, Fail
  <2>. QED  BY <1>1, <1>2, <1>4, <2>1, Popped DEF LeavesInner, Base
<1>5. CASE ~Inner
  <2>1. /\ stack' = <<>> /\ UNCHANGED records /\ Repeats
        /\ IF round = Len(Reader.rounds)
           THEN result' = "ok" /\ UNCHANGED <<now, noted, rounds>>
           ELSE /\ round' = round + 1 /\ now' = [at |-> "begin"]
                /\ before' = (IF Compared THEN noted ELSE before)
                /\ noted' = {} /\ UNCHANGED <<listing, result>>
    BY <1>2, <1>3, <1>5 DEF Leave, Fail
  <2>. QED  BY <1>1, <1>2, <1>5, <2>1 DEF BeginsRound, Ends, rounds
<1>. QED  BY <1>4, <1>5

-----------------------------------------------------------------------------
(* Base is kept.                                                            *)

LEMMA RecordsGrow ==
  ASSUME TreeInv, TreeInv', Grows, NEW c, IsRecord(c)
  PROVE  IsRecord(c)'
<1>1. PICK i \in FileNodes, v \in Nat, w \in Nat :
        v <= version[i] /\ w <= version[i] /\ c = Pieces(i, v, w)
  BY DEF IsRecord
<1>2. version[i] \in Nat /\ version'[i] \in Nat /\ version[i] <= version'[i]
  BY DEF TreeInv, Grows
<1>3. v <= version'[i] /\ w <= version'[i]
  BY <1>1, <1>2
<1>. QED  BY <1>1, <1>3 DEF IsRecord, Pieces

LEMMA BaseGrows ==
  ASSUME TreeInv, TreeInv', Base, Grows, UNCHANGED <<kind, rounds, stack, now, records>>
  PROVE  Base'
<1>1. /\ UNCHANGED <<kind, round, listing, before, stack, now, records>>
      /\ Reader' = Reader
  BY DEF rounds, Reader
<1>2. StackInv'
  <2>1. Root' = Root /\ Top' = Top /\ (Inner' <=> Inner)
    BY <1>1 DEF Root, Top, Inner
  <2>2. now.at \in Looked => /\ Root.expected.time \in Nat
                             /\ Inner => Top.expected.time \in Nat
    BY FrameFacts DEF Base, Frames
  <2>3. now.at \in Looked => touched'["root"] >= Root.expected.time
    <3>1. touched["root"] \in Nat /\ touched'["root"] \in Nat /\ touched["root"] <= touched'["root"]
      BY DEF TreeInv, Grows, DirNodes
    <3>. QED  BY <3>1, <2>2 DEF Base, StackInv
  <2>4. now.at \in Looked /\ Inner => touched'[Top.expected.inode] >= Top.expected.time
    <3>1. SUFFICES ASSUME now.at \in Looked, Inner
                   PROVE  touched'[Top.expected.inode] >= Top.expected.time
      OBVIOUS
    <3>2. PICK x \in SubDirs : x = Top.expected.inode
      BY <3>1 DEF Base, StackInv
    <3>3. touched[x] \in Nat /\ touched'[x] \in Nat /\ touched[x] <= touched'[x]
      BY DEF TreeInv, Grows, SubDirs, DirNodes
    <3>4. Top.expected.time <= touched[x]
      BY <3>1, <3>2 DEF Base, StackInv
    <3>. QED  BY <3>1, <3>2, <3>3, <3>4, <2>2
  <2>. QED  BY <1>1, <2>1, <2>2, <2>3, <2>4 DEF Base, StackInv
<1>3. NowInv'
  <2>1. /\ Root' = Root /\ Top' = Top /\ (Inner' <=> Inner)
        /\ \A what : Does(what)' <=> Does(what)
    BY <1>1 DEF Root, Top, Inner, Does
  <2>2. ASSUME now.at = "enter" PROVE now.looked.time <= touched'[now.looked.inode]
    <3>1. PICK x \in SubDirs : x = now.looked.inode
      BY <2>2 DEF Base, NowInv
    <3>2. touched[x] \in Nat /\ touched'[x] \in Nat /\ touched[x] <= touched'[x]
      BY DEF TreeInv, Grows, SubDirs, DirNodes
    <3>3. now.looked.time \in Nat /\ now.looked.time <= touched[x]
      BY <2>2, <3>1 DEF Base, NowInv
    <3>. QED  BY <3>1, <3>2, <3>3
  <2>3. ASSUME now.at \in InFile PROVE now.looked.time <= version'[now.looked.inode]
    <3>1. PICK x \in FileNodes : x = now.looked.inode
      BY <2>3 DEF Base, NowInv
    <3>2. version[x] \in Nat /\ version'[x] \in Nat /\ version[x] <= version'[x]
      BY DEF TreeInv, Grows
    <3>3. now.looked.time \in Nat /\ now.looked.time <= version[x]
      BY <2>3, <3>1 DEF Base, NowInv
    <3>. QED  BY <3>1, <3>2, <3>3
  <2>4. ASSUME now.at = "read"
        PROVE  /\ now.opened.time <= version'[now.opened.inode]
               /\ \A k \in 1..Len(now.read) : now.read[k] <= version'[now.opened.inode]
    <3>1. PICK x \in FileNodes : x = now.opened.inode
      BY <2>4 DEF Base, NowInv
    <3>2. version[x] \in Nat /\ version'[x] \in Nat /\ version[x] <= version'[x]
      BY DEF TreeInv, Grows
    <3>3. now.opened.time \in Nat /\ now.opened.time <= version[x]
      BY <2>4, <3>1 DEF Base, NowInv
    <3>4. \A k \in 1..Len(now.read) : now.read[k] \in Nat /\ now.read[k] <= version[x]
      BY <2>4, <3>1 DEF Base, NowInv
    <3>. QED  BY <3>1, <3>2, <3>3, <3>4
  <2>. QED  BY <1>1, <2>1, <2>2, <2>3, <2>4 DEF Base, NowInv
<1>4. RecordsInv'
  <2>1. \A p \in Paths : \A n \in DOMAIN records[p] : IsRecord(records[p][n])'
    BY RecordsGrow DEF Base, RecordsInv
  <2>. QED  BY <1>1, <2>1 DEF Base, RecordsInv
<1>. QED  BY <1>2, <1>3, <1>4 DEF Base

LEMMA TreeStays ==
  ASSUME TreeInv, Step
  PROVE  TreeInv'
<1>1. CASE Begin
  <2>1. /\ UNCHANGED <<kind, entries, touched, version>> /\ moments' = moments \cup {Moment}
    BY <1>1 DEF Begin
  <2>2. Moment' = Moment
    BY <2>1 DEF Moment, Content, Existing
  <2>. QED  BY <2>1, <2>2 DEF TreeInv
<1>2. CASE Enumerate \/ LookAtRoot \/ List \/ Look \/ Enter \/ Open \/ Read \/ Close \/ Leave
  <2>1. result = "running" /\ UNCHANGED <<kind, entries, touched, version, moments>>
    BY <1>2 DEF Enumerate, LookAtRoot, List, Look, Enter, Open, Read, Close, Leave, At, Kept, tree
  <2>2. Moment' = Moment
    BY <2>1 DEF Moment, Content, Existing
  <2>. QED  BY <2>1, <2>2 DEF TreeInv
<1>. QED  BY <1>1, <1>2 DEF Step

LEMMA BaseBegin ==
  ASSUME TreeInv, Base, Begin
  PROVE  Base'
<1>1. /\ now' = [at |-> IF First THEN "enumerate" ELSE "root", path |-> "root"]
      /\ UNCHANGED <<kind, entries, touched, version, round, listing, before, stack, records>>
      /\ now.at = "begin"
  BY DEF Begin, rounds
<1>2. Reader' = Reader /\ stack = <<>>
  BY <1>1 DEF Reader, Base, StackInv, Looked
<1>3. StackInv'
  BY <1>1, <1>2 DEF Base, StackInv, Looked
<1>4. NowInv'
  BY <1>1 DEF NowInv, Looked, InFile, Paths
<1>5. RecordsInv'
  BY <1>1 DEF Base, RecordsInv, IsRecord
<1>. QED  BY <1>3, <1>4, <1>5 DEF Base

LEMMA BaseEnumerate ==
  ASSUME TreeInv, Base, Enumerate
  PROVE  Base'
<1>1. /\ now' = IF now.path = "root" THEN [now EXCEPT !.path = "d"]
                ELSE [at |-> "root", path |-> "root"]
      /\ listing' = [listing EXCEPT ![now.path] = IF Directory(now.path) \in DirNodes
                                              THEN Existing(Directory(now.path)) ELSE {}]
      /\ UNCHANGED <<kind, entries, touched, version, round, before, stack, records>>
      /\ now.at = "enumerate"
  BY DEF Enumerate, At, Kept, tree
<1>2. Reader' = Reader /\ stack = <<>>
  BY <1>1 DEF Reader, Base, StackInv, Looked
<1>3. /\ now'.at \in {"enumerate", "root"}
      /\ now'.at = "enumerate" => now'.path = "d" /\ "path" \in DOMAIN now' /\ now.path = "root"
  BY <1>1 DEF Base, NowInv, Paths
<1>4. StackInv'
  BY <1>1, <1>2, <1>3 DEF Base, StackInv, Looked
<1>5. NowInv'
  BY <1>3 DEF NowInv, Looked, InFile, Paths
<1>6. RecordsInv'
  <2>1. listing' \in [Paths -> SUBSET Names]
    BY <1>1 DEF Base, RecordsInv, Existing
  <2>. QED  BY <1>1, <2>1 DEF Base, RecordsInv, IsRecord
<1>. QED  BY <1>4, <1>5, <1>6 DEF Base

LEMMA RootFacts ==
  ASSUME TreeInv, Base, LookAtRoot
  PROVE  /\ now.at = "root" /\ now' = [at |-> "next"]
         /\ stack' \in Seq(Frames) /\ Len(stack)' = 1 /\ ~Inner'
         /\ Top' = Opened("root", DirStatus("root")) /\ Root' = Opened("root", DirStatus("root"))
         /\ NoteDirectory("root", ".", "root")
         /\ UNCHANGED <<kind, tree, rounds, records, result>>
<1>1. /\ now.at = "root" /\ now' = [at |-> "next"]
      /\ stack' = <<Opened("root", DirStatus("root"))>>
      /\ NoteDirectory("root", ".", "root")
      /\ UNCHANGED <<kind, tree, rounds, records, result>>
  BY DEF LookAtRoot, At, Kept
<1>2. PICK u \in Frames : u = Opened("root", DirStatus("root"))
  <2>1. Opened("root", DirStatus("root")) \in Frames
    BY DEF Opened, DirStatus, Frames, TreeInv, DirNodes, Paths
  <2>. QED  BY <2>1
<1>3. stack' = <<u>>
  BY <1>1, <1>2
<1>. QED  BY <1>1, <1>2, <1>3, Single

LEMMA SameRecords ==
  ASSUME Base, UNCHANGED <<kind, tree, rounds, records>>
  PROVE  RecordsInv' /\ Reader' = Reader /\ round' = round
BY DEF Base, RecordsInv, IsRecord, tree, rounds, Reader

LEMMA BaseLookAtRoot ==
  ASSUME TreeInv, Base, LookAtRoot
  PROVE  Base'
<1>1. RecordsInv' /\ Reader' = Reader /\ round' = round
  BY RootFacts, SameRecords
<1>2. StackInv'
  <2>1. now'.at = "next" /\ touched' = touched
    BY RootFacts DEF tree
  <2>2. Root'.path = "root" /\ Root'.expected.inode = "root" /\ Root'.expected.time = touched["root"]
    BY RootFacts DEF Opened, DirStatus
  <2>3. touched["root"] <= touched["root"]
    BY DEF TreeInv, DirNodes
  <2>. QED  BY <1>1, <2>1, <2>2, <2>3, RootFacts DEF Base, StackInv, Looked
<1>3. NowInv'
  BY RootFacts DEF NowInv, InFile
<1>. QED  BY <1>1, <1>2, <1>3 DEF Base

LEMMA BaseList ==
  ASSUME TreeInv, Base, List, Going'
  PROVE  Base'
<1>1. PICK names \in SUBSET Names :
           /\ now.at = "next"
           /\ stack' \in Seq(Frames) /\ Len(stack)' = Len(stack)
           /\ Inner' <=> Inner
           /\ Top' = [Top EXCEPT !.listed = TRUE, !.todo = names]
           /\ Root' = IF Inner THEN Root ELSE [Top EXCEPT !.listed = TRUE, !.todo = names]
           /\ UNCHANGED <<kind, tree, now, records, noted, rounds, result>>
  BY ListFacts
<1>2. RecordsInv' /\ Reader' = Reader /\ round' = round
  BY <1>1, SameRecords
<1>3. StackInv'
  <2>1. now.at \in Looked /\ Top \in Frames /\ (~Inner => Top = Root) /\ Len(stack) \in {1, 2}
    BY <1>1, FrameFacts DEF Base, Looked
  <2>2. Top'.path = Top.path /\ Top'.expected = Top.expected
    BY <1>1, <2>1 DEF Frames
  <2>3. Inner => Root' = Root
    BY <1>1
  <2>4. ~Inner => Root'.path = Root.path /\ Root'.expected = Root.expected
    BY <1>1, <2>1, <2>2
  <2>5. touched' = touched
    BY <1>1 DEF tree
  <2>. QED  BY <1>1, <1>2, <2>1, <2>2, <2>3, <2>4, <2>5 DEF Base, StackInv
<1>4. NowInv'
  BY <1>1 DEF NowInv, InFile
<1>. QED  BY <1>2, <1>3, <1>4 DEF Base

LEMMA BaseLook ==
  ASSUME TreeInv, Base, Look, Going'
  PROVE  Base'
<1>1. PICK n \in Names, i \in FileNodes \cup SubDirs : Takes(n, i)
  BY LookFacts
<1>2. /\ n \in Top.todo /\ now.at = "next" /\ Top.listed
      /\ stack' \in Seq(Frames) /\ Len(stack)' = Len(stack)
      /\ Inner' <=> Inner
      /\ Top' = [Top EXCEPT !.todo = Top.todo \ {n}]
      /\ Root' = IF Inner THEN Root ELSE [Top EXCEPT !.todo = Top.todo \ {n}]
      /\ TakesDirectory(n, i) \/ TakesFile(n, i)
      /\ UNCHANGED <<kind, tree, records, rounds, result>>
  BY <1>1 DEF Takes
<1>3. RecordsInv' /\ Reader' = Reader /\ round' = round
  BY <1>2, SameRecords
<1>4. now.at \in Looked /\ Top \in Frames /\ (~Inner => Top = Root) /\ Len(stack) \in {1, 2}
  BY <1>2, FrameFacts DEF Base, Looked
<1>5. /\ Top'.path = Top.path /\ Top'.expected = Top.expected /\ Top'.listed
      /\ Top'.todo = Top.todo \ {n}
  BY <1>2, <1>4 DEF Frames
<1>6. now'.at \in {"enter", "open", "next"}
  BY <1>2 DEF TakesDirectory, TakesFile
<1>7. /\ Inner => Root' = Root
      /\ ~Inner => Root' = Top' /\ Root'.path = Root.path /\ Root'.expected = Root.expected
  BY <1>2, <1>4, <1>5
<1>8. touched' = touched /\ version' = version
  BY <1>2 DEF tree
<1>9. StackInv'
  BY <1>2, <1>3, <1>4, <1>5, <1>6, <1>7, <1>8 DEF Base, StackInv, Looked
<1>10. NowInv'
  <2>1. CASE TakesDirectory(n, i)
    <3>1. now' = [at |-> "enter", name |-> "d", looked |-> DirStatus(i)] /\ ~Inner' /\ n = "d"
      BY <1>2, <2>1 DEF TakesDirectory
    <3>2. DirStatus(i) \in [inode : SubDirs, time : Nat] /\ DirStatus(i).time <= touched[DirStatus(i).inode]
      BY <2>1 DEF TakesDirectory, DirStatus, TreeInv, SubDirs, DirNodes
    <3>3. "d" \notin Root'.todo /\ Root'.listed
      BY <1>2, <1>5, <1>7, <3>1
    <3>. QED  BY <3>1, <3>2, <3>3, <1>8 DEF NowInv, InFile
  <2>2. CASE TakesFile(n, i)
    <3>1. CASE Does("read")
      <4>1. now' = [at |-> "open", name |-> n, looked |-> FileStatus(i)] /\ n \in FileNames
            /\ i \in FileNodes
        BY <2>2, <3>1 DEF TakesFile
      <4>2. FileStatus(i) \in [inode : FileNodes, time : Nat]
            /\ FileStatus(i).time <= version[FileStatus(i).inode]
        BY <4>1 DEF FileStatus, TreeInv
      <4>3. Does("read")'
        BY <1>3, <3>1 DEF Does
      <4>. QED  BY <1>5, <1>8, <4>1, <4>2, <4>3 DEF NowInv, InFile
    <3>2. CASE ~Does("read")
      <4>1. now' = [at |-> "next"]
        BY <2>2, <3>2 DEF TakesFile
      <4>. QED  BY <4>1 DEF NowInv, InFile
    <3>. QED  BY <3>1, <3>2
  <2>. QED  BY <1>2, <2>1, <2>2
<1>. QED  BY <1>3, <1>9, <1>10 DEF Base

LEMMA BaseEnter ==
  ASSUME TreeInv, Base, Enter, Going'
  PROVE  Base'
<1>1. RecordsInv' /\ Reader' = Reader /\ round' = round
  BY EnterFacts, SameRecords
<1>2. PICK e \in [inode : SubDirs, time : Nat] : Top' = Opened("d", e) /\ e.time <= touched[e.inode]
  BY EnterFacts
<1>3. StackInv'
  <2>1. now.at = "enter" /\ now'.at = "next" /\ touched' = touched
    BY EnterFacts DEF tree
  <2>2. Root' = Root /\ Root.listed /\ "d" \notin Root.todo
    BY <2>1, EnterFacts DEF Base, NowInv
  <2>3. Top'.path = "d" /\ Top'.expected.inode \in SubDirs
        /\ Top'.expected.time <= touched[Top'.expected.inode]
    BY <1>2 DEF Opened
  <2>. QED  BY <1>1, <2>1, <2>2, <2>3, EnterFacts DEF Base, StackInv, Looked
<1>4. NowInv'
  BY EnterFacts DEF NowInv, InFile
<1>. QED  BY <1>1, <1>3, <1>4 DEF Base

LEMMA SameStack ==
  ASSUME Base, UNCHANGED <<kind, tree, stack, rounds>>, now.at \in Looked, now'.at \in Looked
  PROVE  /\ StackInv' /\ Root' = Root /\ Top' = Top /\ (Inner' <=> Inner)
         /\ (\A what : Does(what)' <=> Does(what)) /\ Reader' = Reader
         /\ touched' = touched /\ version' = version /\ entries' = entries
<1>1. /\ Root' = Root /\ Top' = Top /\ (Inner' <=> Inner)
      /\ \A what : Does(what)' <=> Does(what)
      /\ Reader' = Reader
      /\ touched' = touched /\ version' = version /\ entries' = entries /\ round' = round
  BY DEF Root, Top, Inner, Does, Reader, tree, rounds
<1>. QED  BY <1>1 DEF Base, StackInv

LEMMA BaseOpen ==
  ASSUME TreeInv, Base, Open, Going'
  PROVE  Base'
<1>1. /\ now.at = "open"
      /\ now' = [at |-> "read", name |-> now.name, looked |-> now.looked,
                 opened |-> FileStatus(Entry(now.name)), read |-> <<>>]
      /\ UNCHANGED <<kind, tree, stack, records, noted, rounds, result>>
  BY OpenFacts
<1>2. RecordsInv'
  BY <1>1, SameRecords
<1>3. /\ StackInv' /\ Root' = Root /\ Top' = Top /\ (Inner' <=> Inner)
      /\ \A what : Does(what)' <=> Does(what)
      /\ touched' = touched /\ version' = version
  BY <1>1, SameStack DEF Looked
<1>4. PICK i \in FileNodes : i = Entry(now.name)
  BY OpenFacts
<1>5. FileStatus(i) \in [inode : FileNodes, time : Nat] /\ FileStatus(i).time <= version[FileStatus(i).inode]
  BY DEF FileStatus, TreeInv
<1>6. NowInv'
  <2>1. /\ now.name \in FileNames /\ Does("read") /\ Top.listed
        /\ now.looked \in [inode : FileNodes, time : Nat]
        /\ now.looked.time <= version[now.looked.inode]
    BY <1>1 DEF Base, NowInv, InFile
  <2>2. now'.read = <<>> /\ <<>> \in Seq(Nat) /\ Len(<<>>) = 0
    BY <1>1
  <2>3. Reader'.passes \in {1, 2}
    BY TreeStays, ReaderTable DEF Reader, Step, TreeInv, Kinds
  <2>. QED  BY <1>1, <1>3, <1>4, <1>5, <2>1, <2>2, <2>3 DEF NowInv, InFile
<1>. QED  BY <1>2, <1>3, <1>6 DEF Base

LEMMA BaseRead ==
  ASSUME TreeInv, Base, Read, Going'
  PROVE  Base'
<1>1. /\ now.at = "read" /\ Len(now.read) < 2 * Reader.passes
      /\ UNCHANGED <<kind, tree, stack, records, noted, rounds, result>>
  BY ReadFacts
<1>2. RecordsInv'
  BY <1>1, SameRecords
<1>3. PICK i \in FileNodes, v \in Nat : i = now.opened.inode /\ v = version[i]
  BY ReadFacts
<1>4. PICK r \in Seq(Nat) : r = now.read
  BY <1>1 DEF Base, NowInv
<1>5. PICK s \in Seq(Nat) :
         /\ now'.read = s /\ Len(s) = Len(r) + 1 /\ s[Len(r) + 1] = v
         /\ \A k \in 1..Len(r) : s[k] = r[k]
  BY <1>3, <1>4, ReadFacts
<1>6. /\ now'.at = "read" /\ now'.name = now.name /\ now'.looked = now.looked
      /\ now'.opened = now.opened /\ now'.read = s /\ "read" \in DOMAIN now'
  BY <1>5, ReadFacts
<1>7. /\ StackInv' /\ Root' = Root /\ Top' = Top /\ (Inner' <=> Inner)
      /\ \A what : Does(what)' <=> Does(what)
      /\ touched' = touched /\ version' = version /\ Reader' = Reader
  BY <1>1, <1>6, SameStack DEF Looked
<1>8. /\ now.name \in FileNames /\ Does("read") /\ Top.listed
      /\ now.looked \in [inode : FileNodes, time : Nat]
      /\ now.looked.time <= version[now.looked.inode]
      /\ now.opened \in [inode : FileNodes, time : Nat]
      /\ now.opened.time <= v
      /\ i = now.looked.inode => now.looked.time <= v
      /\ \A k \in 1..Len(r) : /\ r[k] <= v
                              /\ now.opened.time <= r[k]
                              /\ i = now.looked.inode => now.looked.time <= r[k]
      /\ \A k, l \in 1..Len(r) : k <= l => r[k] <= r[l]
  BY <1>1, <1>3, <1>4 DEF Base, NowInv, InFile
<1>9. \A k \in 1..Len(s) : /\ s[k] <= v
                           /\ now.opened.time <= s[k]
                           /\ i = now.looked.inode => now.looked.time <= s[k]
  <2>1. TAKE k \in 1..Len(s)
  <2>2. CASE k \in 1..Len(r)
    BY <2>2, <1>5, <1>8
  <2>3. CASE k = Len(r) + 1
    BY <2>3, <1>5, <1>8
  <2>. QED  BY <2>1, <2>2, <2>3, <1>5
<1>10. \A k, l \in 1..Len(s) : k <= l => s[k] <= s[l]
  <2>1. SUFFICES ASSUME NEW k \in 1..Len(s), NEW l \in 1..Len(s), k <= l
                 PROVE  s[k] <= s[l]
    OBVIOUS
  <2>2. CASE l \in 1..Len(r)
    <3>1. k \in 1..Len(r)
      BY <2>1, <2>2
    <3>. QED  BY <2>1, <2>2, <3>1, <1>5, <1>8
  <2>3. CASE l = Len(r) + 1
    BY <2>1, <2>3, <1>5, <1>9
  <2>. QED  BY <2>1, <2>2, <2>3, <1>5
<1>11. Len(s) <= 2 * Reader.passes
  <2>1. Reader.passes \in {1, 2}
    BY ReaderTable DEF Reader, TreeInv, Kinds
  <2>. QED  BY <1>1, <1>4, <1>5, <2>1
<1>12. NowInv'
  <2>1. \A k \in 1..Len(now'.read) :
          /\ now'.read[k] <= version'[now'.opened.inode]
          /\ now'.opened.time <= now'.read[k]
          /\ now'.opened.inode = now'.looked.inode => now'.looked.time <= now'.read[k]
    BY <1>3, <1>4, <1>6, <1>7, <1>9
  <2>2. \A k, l \in 1..Len(now'.read) : k <= l => now'.read[k] <= now'.read[l]
    BY <1>6, <1>10
  <2>3. now'.opened.time <= version'[now'.opened.inode]
    BY <1>3, <1>4, <1>6, <1>7, <1>8
  <2>4. now'.read \in Seq(Nat) /\ Len(now'.read) <= 2 * Reader'.passes
    BY <1>6, <1>7, <1>11
  <2>. QED  BY <1>6, <1>7, <1>8, <2>1, <2>2, <2>3, <2>4 DEF NowInv, InFile
<1>. QED  BY <1>2, <1>7, <1>12 DEF Base

LEMMA BaseClose ==
  ASSUME TreeInv, Base, Close, Going'
  PROVE  Base'
<1>1. now.at = "read" /\ now'.at = "next" /\ UNCHANGED <<kind, tree, stack, rounds, result>>
  BY CloseFacts
<1>2. StackInv' /\ version' = version
  BY <1>1, SameStack DEF Looked
<1>3. NowInv'
  BY <1>1 DEF NowInv, InFile
<1>4. IsRecord(WasRead)
  <2>1. PICK i \in FileNodes : i = now.opened.inode
    BY <1>1 DEF Base, NowInv
  <2>2. Len(now.read) >= 2
    <3>1. Reader.passes \in {1, 2}
      BY ReaderTable DEF Reader, TreeInv, Kinds
    <3>. QED  BY <3>1, CloseFacts
  <2>3. now.read \in Seq(Nat) /\ \A k \in 1..Len(now.read) : now.read[k] <= version[i]
    BY <1>1, <2>1 DEF Base, NowInv
  <2>4. PICK v \in Nat, w \in Nat : v = now.read[1] /\ w = now.read[2] /\ v <= version[i] /\ w <= version[i]
    BY <2>2, <2>3
  <2>5. WasRead = Pieces(i, v, w)
    BY <2>1, <2>4 DEF WasRead, Pieces
  <2>. QED  BY <2>4, <2>5 DEF IsRecord
<1>5. \A c : IsRecord(c)' <=> IsRecord(c)
  BY <1>2 DEF IsRecord
<1>6. RecordsInv'
  <2>1. PICK p \in Paths, n \in FileNames : p = Top.path /\ n = now.name
    BY CloseFacts
  <2>2. /\ DOMAIN records' = Paths
        /\ DOMAIN records'[p] = DOMAIN records[p] \cup {n}
        /\ records'[p][n] = WasRead
        /\ \A m \in DOMAIN records[p] : m # n => records'[p][m] = records[p][m]
        /\ \A q \in Paths : q # p => records'[q] = records[q]
        /\ IsPlain(records'[p])
    BY <2>1, CloseFacts
  <2>3. \A q \in Paths : DOMAIN records'[q] \subseteq FileNames
    BY <2>2 DEF Base, RecordsInv
  <2>4. \A q \in Paths : \A m \in DOMAIN records'[q] : IsRecord(records'[q][m])
    BY <2>2, <1>4 DEF Base, RecordsInv
  <2>5. listing' = listing
    BY <1>1 DEF rounds
  <2>6. \A q \in Paths : IsPlain(records'[q])
    BY <2>2 DEF Base, RecordsInv
  <2>7. listing' \in [Paths -> SUBSET Names]
    BY <2>5 DEF Base, RecordsInv
  <2>8. \A q \in Paths : \A m \in DOMAIN records'[q] :
          \E i \in FileNodes, v \in Nat, w \in Nat :
            /\ v <= version'[i] /\ w <= version'[i]
            /\ records'[q][m] = Pieces(i, v, w)
    BY <2>4, <1>2 DEF IsRecord
  <2>. QED  BY <2>2, <2>3, <2>6, <2>7, <2>8 DEF RecordsInv, IsRecord, IsPlain, Pieces
<1>. QED  BY <1>2, <1>3, <1>6 DEF Base

LEMMA BaseLeave ==
  ASSUME TreeInv, Base, Leave, Going'
  PROVE  Base'
<1>1. /\ now.at = "next"
      /\ LeavesInner \/ BeginsRound \/ Ends
      /\ UNCHANGED <<kind, tree>>
  BY LeaveFacts DEF Going
<1>2. Reader' = Reader /\ touched' = touched /\ version' = version
  BY <1>1 DEF Reader, tree
<1>3. CASE LeavesInner
  <2>1. UNCHANGED <<now, records, rounds>>
    BY <1>3 DEF LeavesInner
  <2>2. RecordsInv' /\ round' = round
    BY <1>1, <2>1, SameRecords
  <2>3. StackInv'
    BY <1>1, <1>2, <1>3, <2>1, <2>2 DEF LeavesInner, Base, StackInv, Looked
  <2>4. NowInv'
    BY <1>1, <2>1 DEF NowInv, InFile
  <2>. QED  BY <2>2, <2>3, <2>4 DEF Base
<1>4. CASE BeginsRound
  <2>1. /\ stack' = <<>> /\ round' = round + 1 /\ now' = [at |-> "begin"]
        /\ round # Len(Reader.rounds) /\ UNCHANGED <<listing, records>>
    BY <1>4 DEF BeginsRound
  <2>2. Len(Reader.rounds) \in Nat
    BY ReaderTable DEF Reader, TreeInv, Kinds
  <2>3. round' \in 1..Len(Reader.rounds)
    BY <2>1, <2>2 DEF Base, StackInv
  <2>4. StackInv'
    BY <1>2, <2>1, <2>3 DEF StackInv, Looked
  <2>5. NowInv'
    BY <2>1 DEF NowInv, InFile
  <2>6. RecordsInv'
    BY <1>2, <2>1 DEF Base, RecordsInv, IsRecord
  <2>. QED  BY <2>4, <2>5, <2>6 DEF Base
<1>5. ~Ends
  BY DEF Ends, Going
<1>. QED  BY <1>1, <1>3, <1>4, <1>5

LEMMA BaseStays ==
  ASSUME TreeInv, Base, Step, Going'
  PROVE  Base'
BY BaseBegin, BaseEnumerate, BaseLookAtRoot, BaseList, BaseLook, BaseEnter, BaseOpen, BaseRead,
   BaseClose, BaseLeave DEF Step

-----------------------------------------------------------------------------
(* What the rounds do.                                                      *)
LEMMA RoundFacts ==
  ASSUME kind \in Kinds, round \in 1..Len(Reader.rounds)
  PROVE  /\ kind.reader \notin Filing \cup Surveying =>
              /\ round = 1 /\ Len(Reader.rounds) = 1
              /\ Does("read") /\ ~Does("survey") /\ ~Does("list") /\ ~Compared
              /\ First <=> kind.reader = "tools"
         /\ kind.reader \in Filing =>
              /\ round \in 1..3 /\ Len(Reader.rounds) = 3 /\ ~Does("survey") /\ ~First
              /\ Does("read") <=> round # 2
              /\ Does("list") <=> round = 2
              /\ Compared <=> round # 2
         /\ kind.reader = "package" =>
              /\ round \in 1..3 /\ Len(Reader.rounds) = 3 /\ ~Does("list")
              /\ Does("read") <=> round = 2
              /\ Does("survey") <=> round # 2
              /\ Compared <=> round # 2
              /\ First <=> round # 2
         /\ kind.reader = "sealed" =>
              /\ round \in 1..2 /\ Len(Reader.rounds) = 2
              /\ Does("read") /\ ~Does("survey") /\ ~Does("list") /\ Compared /\ First
<1>1. Reader = Readers[kind.reader] /\ kind.reader \in DOMAIN Readers
  BY DEF Reader, Kinds
<1>2. /\ \A s : Len(<<s>>) = 1 /\ <<s>>[1] = s
      /\ \A s, t : Len(<<s, t>>) = 2 /\ <<s, t>>[1] = s /\ <<s, t>>[2] = t
      /\ \A s, t, u : /\ Len(<<s, t, u>>) = 3 /\ <<s, t, u>>[1] = s /\ <<s, t, u>>[2] = t
                      /\ <<s, t, u>>[3] = u
  OBVIOUS
<1>3. /\ Compared <=> Len(Reader.rounds) > 1 /\ Reader.rounds[round] = Reader.rounds[Len(Reader.rounds)]
      /\ First <=> Reader.rounds[round] \in Reader.first
      /\ \A what : Does(what) <=> Reader.rounds[round] = what
  BY DEF Compared, First, Does, Last
<1>4. CASE kind.reader \notin Filing \cup Surveying
  <2>1. Reader.rounds = <<"read">> /\ Reader.first = IF kind.reader = "tools" THEN {"read"} ELSE {}
    BY <1>1, <1>4, ReaderTable DEF Surveying
  <2>2. Len(Reader.rounds) = 1 /\ round = 1 /\ Reader.rounds[1] = "read"
    BY <1>2, <2>1
  <2>. QED  BY <1>3, <1>4, <2>1, <2>2 DEF Surveying
<1>5. CASE kind.reader \in Filing
  <2>1. Reader.rounds = <<"read", "list", "read">> /\ Reader.first = {}
    BY <1>1, <1>5, ReaderTable DEF Filing
  <2>2. /\ Len(Reader.rounds) = 3 /\ round \in 1..3 /\ Reader.rounds[1] = "read"
        /\ Reader.rounds[2] = "list" /\ Reader.rounds[3] = "read"
    BY <1>2, <2>1
  <2>. QED  BY <1>3, <1>5, <2>1, <2>2 DEF Filing, Surveying
<1>6. CASE kind.reader = "package"
  <2>1. Reader.rounds = <<"survey", "read", "survey">> /\ Reader.first = {"survey"}
    BY <1>1, <1>6, ReaderTable DEF Filing
  <2>2. /\ Len(Reader.rounds) = 3 /\ round \in 1..3 /\ Reader.rounds[1] = "survey"
        /\ Reader.rounds[2] = "read" /\ Reader.rounds[3] = "survey"
    BY <1>2, <2>1
  <2>. QED  BY <1>3, <1>6, <2>1, <2>2 DEF Filing, Surveying
<1>7. CASE kind.reader = "sealed"
  <2>1. Reader.rounds = <<"read", "read">> /\ Reader.first = {"read"}
    BY <1>1, <1>7, ReaderTable DEF Filing
  <2>2. /\ Len(Reader.rounds) = 2 /\ round \in 1..2 /\ Reader.rounds[1] = "read"
        /\ Reader.rounds[2] = "read"
    BY <1>2, <2>1
  <2>. QED  BY <1>3, <1>7, <2>1, <2>2 DEF Filing, Surveying
<1>. QED  BY <1>4, <1>5, <1>6, <1>7 DEF Surveying

(* What most steps leave alone.                                             *)
LEMMA StepFacts ==
  ASSUME Step
  PROVE  /\ UNCHANGED <<kind, entries, touched, version>> /\ moments \subseteq moments'
         /\ Moment' = Moment /\ Reader' = Reader
         /\ Close \/ records' = records
         /\ Open \/ Read \/ now'.at # "read" \/ now' = now
<1>1. /\ UNCHANGED <<kind, entries, touched, version>> /\ moments \subseteq moments'
      /\ Close \/ records' = records
      /\ Open \/ Read \/ now'.at # "read" \/ now' = now
  <2>1. CASE Begin \/ LookAtRoot
    BY <2>1 DEF Begin, LookAtRoot, Kept, tree
  <2>5. CASE Enumerate
    <3>1. now' = (IF now.path = "root" THEN [now EXCEPT !.path = "d"]
                  ELSE [at |-> "root", path |-> "root"]) /\ now.at = "enumerate"
      BY <2>5 DEF Enumerate, At
    <3>2. now'.at # "read"
      BY <3>1
    <3>. QED  BY <2>5, <3>2 DEF Enumerate, Kept, tree
  <2>2. CASE List \/ Look \/ Enter
    BY <2>2 DEF List, Look, Enter, Fail, Kept, tree
  <2>3. CASE Open \/ Read \/ Close
    BY <2>3 DEF Open, Read, Close, Fail, Kept, tree
  <2>4. CASE Leave
    BY <2>4 DEF Leave, Fail, Kept, tree
  <2>. QED  BY <2>1, <2>2, <2>3, <2>4, <2>5 DEF Step
<1>. QED  BY <1>1 DEF Moment, Content, Existing, Reader

-----------------------------------------------------------------------------
(* A file that is read while it is written is told.                         *)

LEMMA ReadWhole ==
  ASSUME TreeInv, Base, Close, Going', kind.reader # "sealed", Telling
  PROVE  /\ now.opened.inode \in FileNodes /\ now.read[1] \in Nat
         /\ WasRead = <<now.opened.inode, now.read[1]>>
         /\ kind.shows /\ Reader.after =>
              /\ now.read[1] = version[now.opened.inode]
              /\ now.opened = [inode |-> now.opened.inode, time |-> now.read[1]]
         /\ "content" \in Reader.known /\ ~kind.returns => now.read[1] = 0
         /\ \A k \in 1..Len(now.read) : now.read[1] <= now.read[k]
<1>1. /\ now.at = "read" /\ now.name \in FileNames /\ Len(now.read) = 2 * Reader.passes
      /\ Top.path \in Paths
      /\ Reader.after => FileStatus(now.opened.inode) = now.opened
      /\ "content" \in Reader.known => IsKnown(Top.path, now.name, WasRead)
      /\ Agree
  BY CloseFacts
<1>2. PICK i \in FileNodes : i = now.opened.inode
  BY <1>1 DEF Base, NowInv
<1>3. PICK r \in Seq(Nat) : r = now.read
  BY <1>1 DEF Base, NowInv
<1>4. /\ \A k \in 1..Len(r) : r[k] <= version[i] /\ now.opened.time <= r[k]
      /\ \A k, l \in 1..Len(r) : k <= l => r[k] <= r[l]
      /\ now.opened.time \in Nat /\ version[i] \in Nat
  BY <1>1, <1>2, <1>3 DEF Base, NowInv, TreeInv
<1>5. Reader.passes \in {1, 2} /\ (Reader.passes = 2 <=> kind.reader \in {"ready", "copy", "receipt"})
  BY ReaderTable DEF Reader, TreeInv, Kinds
<1>6. Len(r) = 2 * Reader.passes /\ Len(r) \in {2, 4}
  <2>1. Len(r) = 2 * Reader.passes
    BY <1>1, <1>3
  <2>2. CASE Reader.passes = 1
    BY <2>1, <2>2
  <2>3. CASE Reader.passes = 2
    BY <2>1, <2>3
  <2>. QED  BY <1>5, <2>1, <2>2, <2>3
<1>7. 1 \in 1..Len(r) /\ 2 \in 1..Len(r) /\ r[1] \in Nat /\ r[2] \in Nat /\ r[1] <= r[2]
  BY <1>4, <1>6
<1>8. WasRead = Pieces(i, r[1], r[2])
  BY <1>2, <1>3 DEF WasRead, Pieces
<1>9. kind.shows /\ Reader.after => /\ now.opened.time = version[i]
                                    /\ r[1] = version[i] /\ r[2] = version[i]
  <2>1. SUFFICES ASSUME kind.shows, Reader.after
                 PROVE  /\ now.opened.time = version[i]
                        /\ r[1] = version[i] /\ r[2] = version[i]
    OBVIOUS
  <2>2. now.opened.time = version[i]
    BY <1>1, <1>2, <2>1 DEF FileStatus
  <2>3. /\ r[1] <= version[i] /\ now.opened.time <= r[1]
        /\ r[2] <= version[i] /\ now.opened.time <= r[2]
    BY <1>4, <1>7
  <2>. QED  BY <1>4, <1>7, <2>2, <2>3
<1>10. "content" \in Reader.known /\ ~kind.returns => r[1] = r[2] /\ r[1] = 0
  <2>1. SUFFICES ASSUME "content" \in Reader.known, ~kind.returns
                 PROVE  r[1] = r[2] /\ r[1] = 0
    OBVIOUS
  <2>2. WasRead = <<"a", 0>> \/ WasRead = <<"b", 0>>
    BY <1>1, <2>1 DEF IsKnown, Digest, Wanted, Paths, FileNames
  <2>3. \A c : Len(<<c, 0>>) = 2 /\ <<c, 0>>[2] = 0
    OBVIOUS
  <2>4. PICK w : w = WasRead
    OBVIOUS
  <2>5. Len(w) = 2 /\ w[2] = 0
    BY <2>2, <2>3, <2>4
  <2>6. \A u, v \in Nat : /\ Len(<<i, u>>) = 2 /\ <<i, u>>[2] = u
                          /\ Len(<<i, u, v>>) = 3
    OBVIOUS
  <2>7. CASE r[1] = r[2]
    <3>1. w = <<i, r[1]>>
      BY <1>8, <2>4, <2>7 DEF Pieces
    <3>. QED  BY <2>5, <2>6, <2>7, <3>1, <1>7
  <2>8. CASE r[1] # r[2]
    <3>1. w = <<i, r[1], r[2]>>
      BY <1>8, <2>4, <2>8 DEF Pieces
    <3>. QED  BY <2>5, <2>6, <3>1, <1>7
  <2>. QED  BY <2>7, <2>8
<1>11. Reader.passes = 2 /\ ~kind.returns => r[1] = r[2]
  <2>1. SUFFICES ASSUME Reader.passes = 2, ~kind.returns
                 PROVE  r[1] = r[2]
    OBVIOUS
  <2>2. Len(r) = 4
    BY <1>6, <2>1
  <2>4. r[1] = r[3]
    <3>1. \A k \in {1, 2} : Bytes(r[k]) = Bytes(r[k + 2])
      BY <1>1, <1>3, <2>1 DEF Agree
    <3>2. Bytes(r[1]) = Bytes(r[3])
      BY <3>1
    <3>. QED  BY <2>1, <3>2 DEF Bytes
  <2>5. r[2] <= r[3] /\ r[3] \in Nat
    <3>1. 2 \in 1..Len(r) /\ 3 \in 1..Len(r)
      BY <2>2
    <3>. QED  BY <1>4, <3>1
  <2>. QED  BY <1>7, <2>4, <2>5
<1>12. r[1] = r[2]
  <2>1. Reader.after <=> kind.reader \notin {"sealed", "tools"}
    BY ReaderTable DEF Reader, TreeInv, Kinds
  <2>2. kind.reader = "tools" => "content" \in Reader.known
    BY ReaderTable DEF Reader, TreeInv, Kinds, Knowing
  <2>. QED  BY <1>9, <1>10, <1>11, <2>1, <2>2 DEF Telling, Exact
<1>13. WasRead = <<i, r[1]>>
  BY <1>8, <1>12 DEF Pieces
<1>14. \A k \in 1..Len(r) : r[1] <= r[k]
  BY <1>4, <1>7
<1>15. kind.shows /\ Reader.after => now.opened = [inode |-> i, time |-> r[1]]
  BY <1>1, <1>2, <1>9 DEF FileStatus
<1>. QED  BY <1>2, <1>3, <1>7, <1>9, <1>10, <1>13, <1>14, <1>15

Torn == kind.reader # "sealed" /\ Telling => NoneIsTorn

LEMMA TornOthers ==
  ASSUME Torn, UNCHANGED <<kind, records>>
  PROVE  Torn'
BY DEF Torn, Telling, Exact, NoneIsTorn, Reader

LEMMA TornStays ==
  ASSUME TreeInv, Base, Torn, Step, Going'
  PROVE  Torn'
<1>1. CASE records' = records
  BY <1>1, StepFacts, TornOthers
<1>2. CASE Close
  <2>1. SUFFICES ASSUME kind.reader # "sealed", Telling
                 PROVE  NoneIsTorn'
    BY StepFacts DEF Torn, Telling, Exact
  <2>2. PICK i \in FileNodes, v \in Nat : WasRead = <<i, v>>
    BY <1>2, <2>1, ReadWhole
  <2>3. Len(WasRead) = 2
    BY <2>2
  <2>4. PICK p \in Paths, n \in FileNames : p = Top.path /\ n = now.name
    BY <1>2, CloseFacts
  <2>5. PICK w : w = WasRead
    OBVIOUS
  <2>6. /\ DOMAIN records'[p] = DOMAIN records[p] \cup {n}
        /\ records'[p][n] = w
        /\ \A m \in DOMAIN records[p] : m # n => records'[p][m] = records[p][m]
        /\ \A q \in Paths : q # p => records'[q] = records[q]
    BY <1>2, <2>4, <2>5, CloseFacts
  <2>7. \A q \in Paths : \A m \in DOMAIN records[q] : Len(records[q][m]) = 2
    BY <2>1 DEF Torn, NoneIsTorn
  <2>. QED  BY <2>3, <2>5, <2>6, <2>7 DEF NoneIsTorn
<1>. QED  BY <1>1, <1>2, StepFacts

-----------------------------------------------------------------------------
(* Where a file is opened by its path from the root, it is there.           *)
WasThere(p, n, c) == \E m \in moments : n \in DOMAIN m[p] /\ m[p][n] = c

Placeable == kind.reader \notin Leaving \cup {"sealed"} /\ Telling
InPlace(p) == p = "root" \/ Reader.byPath

RecordsPlaced ==
  \A p \in Paths : \A n \in DOMAIN records[p] : InPlace(p) => WasThere(p, n, records[p][n])
ReadPlaced ==
  now.at = "read" /\ InPlace(Top.path) =>
    \E v \in Nat : /\ WasThere(Top.path, now.name, <<now.opened.inode, v>>)
                   /\ v <= version[now.opened.inode]
                   /\ \A k \in 1..Len(now.read) : v <= now.read[k]
                   /\ kind.shows => v = now.opened.time
Placed == Placeable => RecordsPlaced /\ ReadPlaced

LEMMA WasThereGrows ==
  ASSUME moments \subseteq moments', NEW p, NEW n, NEW c, WasThere(p, n, c)
  PROVE  WasThere(p, n, c)'
BY SMTT(30) DEF WasThere

MomentIs ==
  /\ DOMAIN Moment.root = Existing("root") /\ DOMAIN Moment.d \subseteq Names
  /\ \A n \in Existing("root") :
       Moment.root[n] = IF entries["root"][n] \in FileNodes
                        THEN <<entries["root"][n], version[entries["root"][n]]>>
                        ELSE <<entries["root"][n]>>
  /\ \A x \in DirNodes :
       entries["root"]["d"] = x =>
         /\ DOMAIN Moment.d = Existing(x)
         /\ \A n \in Existing(x) :
              Moment.d[n] = IF entries[x][n] \in FileNodes
                            THEN <<entries[x][n], version[entries[x][n]]>>
                            ELSE <<entries[x][n]>>
  /\ entries["root"]["d"] \notin DirNodes => Moment.d = <<>>
  /\ Moment.version = version

LEMMA MomentFacts == MomentIs
<1>1. /\ Moment.root = Content("root") /\ Moment.version = version
      /\ Moment.d = IF entries["root"]["d"] \in DirNodes THEN Content(entries["root"]["d"])
                    ELSE <<>>
  BY DEF Moment
<1>2. DOMAIN <<>> = {}
  OBVIOUS
<1>3. \A x : Existing(x) \subseteq Names
  BY DEF Existing
<1>. QED  BY <1>1, <1>2, <1>3 DEF Content, MomentIs

LEMMA MomentNext == MomentIs'
BY MomentFacts, PTL

(* An entry that is found is there at that moment.                          *)
LEMMA EntryIsThere ==
  ASSUME TreeInv, Base, now.at \in Looked, result = "running",
         NEW n \in FileNames, Entry(n) \in FileNodes,
         InPlace(Top.path) \/ Top.expected.inode = entries["root"]["d"]
  PROVE  /\ n \in DOMAIN Moment[Top.path]
         /\ Moment[Top.path][n] = <<Entry(n), version[Entry(n)]>>
         /\ WasThere(Top.path, n, <<Entry(n), version[Entry(n)]>>)
<1>1. n \in Names /\ Entry(n) # Absent
  BY DEF Names, FileNames, FileNodes, Absent
<1>2. /\ Dir(Top) \in DirNodes /\ Entry(n) = entries[Dir(Top)][n]
      /\ Top.path = "root" <=> ~Inner
      /\ Inner => Dir(Top) \in SubDirs
  BY <1>1, EntryFacts DEF Base
<1>3. Inner => Top.path = "d"
  BY DEF Base, StackInv
<1>4. Dir(Top) = IF Inner THEN entries["root"]["d"] ELSE "root"
  BY <1>2, <1>3 DEF Dir, InPlace
<1>5. n \in Existing(Dir(Top))
  BY <1>1, <1>2 DEF Existing
<1>6. /\ n \in DOMAIN Moment[Top.path]
      /\ Moment[Top.path][n] = <<Entry(n), version[Entry(n)]>>
  <2>1. CASE Inner
    <3>1. /\ Top.path = "d" /\ Dir(Top) = entries["root"]["d"] /\ Dir(Top) \in DirNodes
      BY <1>2, <1>3, <1>4, <2>1
    <3>2. DOMAIN Moment.d = Existing(Dir(Top)) /\ Moment.d[n] = <<Entry(n), version[Entry(n)]>>
      BY <1>2, <1>5, <3>1, MomentFacts DEF MomentIs
    <3>. QED  BY <1>5, <3>1, <3>2
  <2>2. CASE ~Inner
    <3>1. Top.path = "root" /\ Dir(Top) = "root"
      BY <1>2, <1>4, <2>2
    <3>2. /\ DOMAIN Moment.root = Existing(Dir(Top))
          /\ Moment.root[n] = <<Entry(n), version[Entry(n)]>>
      BY ZenonT(40), <1>2, <1>5, <3>1, MomentFacts DEF MomentIs
    <3>. QED  BY <1>5, <3>1, <3>2
  <2>. QED  BY <2>1, <2>2
<1>7. Moment \in moments
  BY DEF TreeInv
<1>. QED  BY <1>6, <1>7 DEF WasThere

LEMMA PlacedOthers ==
  ASSUME TreeInv, TreeInv', Base, Placed, Grows, UNCHANGED <<kind, rounds, stack, now, records>>
  PROVE  Placed'
<1>1. /\ Reader' = Reader /\ (Placeable' <=> Placeable) /\ Top' = Top
      /\ \A p : InPlace(p)' <=> InPlace(p)
  BY DEF Reader, Placeable, Telling, Exact, Top, InPlace
<1>2. SUFFICES ASSUME Placeable PROVE RecordsPlaced' /\ ReadPlaced'
  BY <1>1 DEF Placed
<1>3. RecordsPlaced'
  <2>1. \A p, n, c : WasThere(p, n, c) => WasThere(p, n, c)'
    BY WasThereGrows DEF Grows
  <2>. QED  BY <1>1, <1>2, <2>1 DEF Placed, RecordsPlaced
<1>4. ReadPlaced'
  <2>1. SUFFICES ASSUME now.at = "read", InPlace(Top.path) PROVE ReadPlaced'
    BY <1>1 DEF ReadPlaced
  <2>2. PICK i \in FileNodes : i = now.opened.inode
    BY <2>1 DEF Base, NowInv
  <2>3. PICK v \in Nat : /\ WasThere(Top.path, now.name, <<i, v>>)
                         /\ v <= version[i]
                         /\ \A k \in 1..Len(now.read) : v <= now.read[k]
                         /\ kind.shows => v = now.opened.time
    BY <1>2, <2>1, <2>2 DEF Placed, ReadPlaced
  <2>4. v <= version'[i]
    <3>1. version[i] \in Nat /\ version'[i] \in Nat /\ version[i] <= version'[i]
      BY DEF TreeInv, Grows
    <3>. QED  BY <2>3, <3>1
  <2>5. \A p, n, c : WasThere(p, n, c) => WasThere(p, n, c)'
    BY WasThereGrows DEF Grows
  <2>6. PICK p, n : p = Top.path /\ n = now.name
    OBVIOUS
  <2>7. WasThere(p, n, <<i, v>>)'
    BY <2>3, <2>5, <2>6
  <2>. QED  BY <1>1, <2>2, <2>3, <2>4, <2>6, <2>7 DEF ReadPlaced
<1>. QED  BY <1>3, <1>4

LEMMA NotReading ==
  ASSUME Step, Going'
  PROVE  Open \/ Read \/ now'.at # "read"
<1>1. CASE Begin \/ Enumerate \/ LookAtRoot \/ List \/ Look \/ Enter \/ Leave
  BY <1>1, StepFacts DEF Begin, Enumerate, LookAtRoot, List, Look, Enter, Leave, At
<1>2. CASE Close
  BY <1>2 DEF Close, Fail, Going
<1>. QED  BY <1>1, <1>2 DEF Step

LEMMA PlacedStays ==
  ASSUME TreeInv, Base, Placed, Step, Going'
  PROVE  Placed'
<1>1. /\ Reader' = Reader /\ (Placeable' <=> Placeable) /\ version' = version
      /\ \A p : InPlace(p)' <=> InPlace(p)
      /\ \A p, n, c : WasThere(p, n, c) => WasThere(p, n, c)'
  BY StepFacts, WasThereGrows DEF Placeable, Telling, Exact, InPlace
<1>2. SUFFICES ASSUME Placeable PROVE RecordsPlaced' /\ ReadPlaced'
  BY <1>1 DEF Placed
<1>3. RecordsPlaced'
  <2>1. CASE records' = records
    BY <1>1, <1>2, <2>1 DEF Placed, RecordsPlaced
  <2>2. CASE Close
    <3>1. PICK p \in Paths, n \in FileNames : p = Top.path /\ n = now.name
      BY <2>2, CloseFacts
    <3>2. PICK i, v : i = now.opened.inode /\ v = now.read[1]
      OBVIOUS
    <3>3. /\ DOMAIN records'[p] = DOMAIN records[p] \cup {n}
          /\ records'[p][n] = <<i, v>>
          /\ \A m \in DOMAIN records[p] : m # n => records'[p][m] = records[p][m]
          /\ \A q \in Paths : q # p => records'[q] = records[q]
      <4>1. WasRead = <<i, v>>
        BY <1>2, <2>2, <3>2, ReadWhole DEF Placeable
      <4>. QED  BY <2>2, <3>1, <4>1, CloseFacts
    <3>4. InPlace(p) => WasThere(p, n, <<i, v>>)
      <4>1. SUFFICES ASSUME InPlace(p) PROVE WasThere(p, n, <<i, v>>)
        OBVIOUS
      <4>2. now.at = "read" /\ Len(now.read) \in Nat /\ 1 \in 1..Len(now.read)
        <5>1. Reader.passes \in {1, 2}
          BY ReaderTable DEF Reader, TreeInv, Kinds
        <5>. QED  BY <2>2, <5>1, CloseFacts
      <4>3. PICK u \in Nat : /\ WasThere(p, n, <<i, u>>)
                             /\ \A k \in 1..Len(now.read) : u <= now.read[k]
                             /\ kind.shows => u = now.opened.time
        BY <1>2, <3>1, <3>2, <4>1, <4>2 DEF Placed, ReadPlaced
      <4>4. v \in Nat /\ u <= v
        BY <1>2, <2>2, <3>2, <4>2, <4>3, ReadWhole DEF Placeable
      <4>5. CASE "content" \in Reader.known /\ ~kind.returns
        <5>1. v = 0
          BY <1>2, <2>2, <3>2, <4>5, ReadWhole DEF Placeable
        <5>. QED  BY <4>3, <4>4, <5>1
      <4>6. CASE "content" \notin Reader.known \/ kind.returns
        <5>1. /\ "content" \notin Reader.known => Reader.passes # 2 /\ Reader.after
              /\ kind.returns => kind.shows /\ Reader.after
          BY <1>2, ReaderTable
             DEF Reader, TreeInv, Kinds, Placeable, Leaving, Knowing, Telling, Exact
        <5>2. kind.shows /\ Reader.after
          BY <1>2, <4>6, <5>1 DEF Placeable, Telling, Exact
        <5>3. now.opened.time = v
          BY <1>2, <2>2, <3>2, <5>2, ReadWhole DEF Placeable
        <5>. QED  BY <4>3, <5>2, <5>3
      <4>. QED  BY <4>5, <4>6
    <3>5. \A q \in Paths : \A m \in DOMAIN records'[q] : InPlace(q) => WasThere(q, m, records'[q][m])
      BY <1>2, <3>3, <3>4 DEF Placed, RecordsPlaced
    <3>. QED  BY <1>1, <3>5 DEF RecordsPlaced
  <2>. QED  BY <2>1, <2>2, StepFacts
<1>4. ReadPlaced'
  <2>1. CASE now'.at # "read"
    BY <2>1 DEF ReadPlaced
  <2>2. CASE Open
    <3>1. SUFFICES ASSUME InPlace(Top.path) PROVE ReadPlaced'
      <4>1. Top' = Top
        BY <2>2, OpenFacts DEF Top
      <4>. QED  BY <1>1, <4>1 DEF ReadPlaced
    <3>2. PICK n \in FileNames, i \in FileNodes : n = now.name /\ i = Entry(now.name)
      BY <2>2, OpenFacts
    <3>3. /\ Top' = Top /\ now'.name = n /\ now'.opened = FileStatus(i) /\ now'.read = <<>>
      BY <2>2, <3>2, OpenFacts DEF Top
    <3>4. WasThere(Top.path, n, <<i, version[i]>>)
      <4>1. now.at \in Looked /\ result = "running"
        BY <2>2 DEF Open, At, Looked
      <4>. QED  BY <3>1, <3>2, <4>1, EntryIsThere
    <3>5. PICK v \in Nat : v = version[i]
      BY DEF TreeInv
    <3>9. PICK p : p = Top.path
      OBVIOUS
    <3>6. WasThere(p, n, <<i, v>>)'
      BY <1>1, <3>4, <3>5, <3>9
    <3>7. Len(now'.read) = 0 /\ now'.opened.inode = i /\ (kind.shows => v = now'.opened.time)
      BY <3>3, <3>5 DEF FileStatus
    <3>8. v <= version'[i]
      BY <1>1, <3>5
    <3>10. \A k \in 1..Len(now'.read) : v <= now'.read[k]
      BY <3>7
    <3>11. WasThere(Top.path, now.name, <<now.opened.inode, v>>)'
      BY <3>3, <3>6, <3>7, <3>9 DEF WasThere
    <3>12. v <= version'[now'.opened.inode] /\ (kind.shows' => v = now'.opened.time)
      BY <1>1, <3>7, <3>8, StepFacts
    <3>. QED  BY <3>10, <3>11, <3>12 DEF ReadPlaced
  <2>3. CASE Read
    <3>1. now.at = "read" /\ UNCHANGED stack
      BY <2>3, ReadFacts
    <3>2. Top' = Top
      BY <3>1 DEF Top
    <3>3. SUFFICES ASSUME InPlace(Top.path) PROVE ReadPlaced'
      BY <1>1, <3>2 DEF ReadPlaced
    <3>4. PICK i \in FileNodes : i = now.opened.inode
      BY <3>1 DEF Base, NowInv
    <3>5. PICK v \in Nat : /\ WasThere(Top.path, now.name, <<i, v>>)
                           /\ v <= version[i]
                           /\ \A k \in 1..Len(now.read) : v <= now.read[k]
                           /\ kind.shows => v = now.opened.time
      BY <1>2, <3>1, <3>3, <3>4 DEF Placed, ReadPlaced
    <3>6. PICK r \in Seq(Nat), s \in Seq(Nat) :
             /\ r = now.read /\ s = now'.read /\ Len(s) = Len(r) + 1
             /\ s[Len(r) + 1] = version[i] /\ \A k \in 1..Len(r) : s[k] = r[k]
      <4>1. PICK r \in Seq(Nat) : r = now.read
        BY <3>1 DEF Base, NowInv
      <4>. QED  BY <2>3, <3>4, <4>1, ReadFacts
    <3>7. \A k \in 1..Len(s) : v <= s[k]
      <4>1. TAKE k \in 1..Len(s)
      <4>2. CASE k \in 1..Len(r)
        BY <4>2, <3>5, <3>6
      <4>3. CASE k = Len(r) + 1
        BY <4>3, <3>5, <3>6
      <4>. QED  BY <4>1, <4>2, <4>3, <3>6
    <3>8. now'.opened = now.opened /\ now'.name = now.name /\ now'.read = s
      BY <2>3, <3>6, ReadFacts
    <3>9. PICK p, n : p = Top.path /\ n = now.name
      OBVIOUS
    <3>10. WasThere(p, n, <<i, v>>)'
      BY <1>1, <3>5, <3>9
    <3>11. WasThere(Top.path, now.name, <<now.opened.inode, v>>)'
      BY <3>2, <3>4, <3>8, <3>9, <3>10 DEF WasThere
    <3>12. v <= version'[now'.opened.inode] /\ (kind.shows' => v = now'.opened.time)
      BY <1>1, <3>4, <3>5, <3>8, StepFacts
    <3>13. \A k \in 1..Len(now'.read) : v <= now'.read[k]
      BY <3>7, <3>8
    <3>. QED  BY <3>11, <3>12, <3>13 DEF ReadPlaced
  <2>. QED  BY <2>1, <2>2, <2>3, NotReading
<1>. QED  BY <1>3, <1>4

-----------------------------------------------------------------------------
(* Files that are read in the first round and again in the last.            *)
LEMMA SameRound ==
  ASSUME TreeInv, Base, Step, Going'
  PROVE  /\ (Leave /\ BeginsRound) \/ UNCHANGED <<round, before>>
         /\ Enumerate \/ UNCHANGED listing
<1>1. CASE Begin \/ Enumerate \/ LookAtRoot
  BY <1>1 DEF Begin, Enumerate, LookAtRoot, rounds
<1>2. CASE List \/ Look \/ Enter
  BY <1>2 DEF List, Look, Enter, Fail, rounds
<1>3. CASE Open \/ Read \/ Close
  BY <1>3 DEF Open, Read, Close, Fail, rounds
<1>4. CASE Leave
  <2>1. LeavesInner \/ BeginsRound
    BY <1>4, LeaveFacts DEF Going, Ends
  <2>. QED  BY <1>4, <2>1 DEF LeavesInner, BeginsRound, rounds
<1>. QED  BY <1>1, <1>2, <1>3, <1>4 DEF Step

FilesTwice == kind.reader \in Filing /\ kind.shows

FileNote(e) ==
  /\ e.status.inode \in FileNodes /\ e.status.time \in Nat
  /\ e.status.time <= version[e.status.inode]
  /\ e.read = <<e.status.inode, e.status.time>>
FileNotes == \A e \in noted \cup before : FileNote(e)
RecordsNoted ==
  \A p \in Paths : \A n \in DOMAIN records[p] : \E e \in noted \cup before : e.read = records[p][n]

(* The file f is noted in the first round.                                  *)
FirstNoted ==
  /\ now.at \notin Looked \/ round = 2 => noted = {}
  /\ round = 1 <=> before = {}
  /\ round = 1 /\ now.at \in Looked /\ Root.listed /\ noted = {} =>
       "f" \in Root.todo \/ (~Inner /\ now.at \in InFile /\ now.name = "f")

(* What the tree was at the start of the last round is between what was     *)
(* noted before and what is noted in that round.                            *)
Between(m) ==
  /\ \A f \in FileNodes : m.version[f] \in Nat /\ m.version[f] <= version[f]
  /\ \A e \in before : e.status.time <= m.version[e.status.inode]
  /\ \A e \in noted : m.version[e.status.inode] <= e.status.time
FilesBetween == round = 3 /\ now.at # "begin" => \E m \in moments : Between(m)

FilesInv == FilesTwice => FileNotes /\ RecordsNoted /\ FirstNoted /\ FilesBetween

LEMMA FilesOthers ==
  ASSUME TreeInv, TreeInv', Base, FilesInv, Grows,
         UNCHANGED <<kind, rounds, stack, now, records, noted>>
  PROVE  FilesInv'
<1>1. /\ Root' = Root /\ (Inner' <=> Inner) /\ (FilesTwice' <=> FilesTwice)
      /\ UNCHANGED <<round, before, now, records, noted>>
  BY DEF Root, Inner, FilesTwice, rounds
<1>2. SUFFICES ASSUME FilesTwice
               PROVE  FileNotes' /\ RecordsNoted' /\ FirstNoted' /\ FilesBetween'
  BY <1>1 DEF FilesInv
<1>3. \A f \in FileNodes : version[f] \in Nat /\ version'[f] \in Nat /\ version[f] <= version'[f]
  BY DEF TreeInv, Grows
<1>4. FileNotes'
  <2>1. \A e \in noted \cup before : FileNote(e)
    BY <1>2 DEF FilesInv, FileNotes
  <2>2. \A e : FileNote(e) => FileNote(e)'
    BY <1>3 DEF FileNote
  <2>. QED  BY <1>1, <2>1, <2>2 DEF FileNotes
<1>5. RecordsNoted' /\ FirstNoted'
  BY <1>1, <1>2 DEF FilesInv, RecordsNoted, FirstNoted
<1>6. FilesBetween'
  <2>1. \A m : Between(m) => Between(m)'
    BY <1>1, <1>3 DEF Between
  <2>2. moments \subseteq moments'
    BY DEF Grows
  <2>. QED  BY <1>1, <1>2, <2>1, <2>2 DEF FilesInv, FilesBetween
<1>. QED  BY <1>4, <1>5, <1>6

LEMMA FilesStay ==
  ASSUME TreeInv, TreeInv', Base, Base', FilesInv, Step, Going'
  PROVE  FilesInv'
<1>1. /\ Reader' = Reader /\ (FilesTwice' <=> FilesTwice) /\ version' = version
      /\ moments \subseteq moments'
  BY StepFacts DEF FilesTwice
<1>2. SUFFICES ASSUME FilesTwice
               PROVE  FileNotes' /\ RecordsNoted' /\ FirstNoted' /\ FilesBetween'
  BY <1>1 DEF FilesInv
<1>3. /\ round \in 1..3 /\ Len(Reader.rounds) = 3 /\ ~Does("survey") /\ ~First
      /\ Does("read") <=> round # 2
      /\ Compared <=> round # 2
  BY <1>2, RoundFacts DEF FilesTwice, TreeInv, Base, StackInv
<1>4. /\ Reader.notes = "files" /\ Reader.names = "listed" /\ Reader.after
      /\ kind.reader # "sealed" /\ Telling
  BY <1>2, ReaderTable DEF FilesTwice, Reader, TreeInv, Kinds, Filing, Telling, Exact
<1>5. /\ FileNotes /\ RecordsNoted /\ FirstNoted /\ FilesBetween
  BY <1>2 DEF FilesInv
<1>6. ASSUME UNCHANGED <<noted, before>>
      PROVE  FileNotes'
  BY <1>1, <1>5, <1>6 DEF FileNotes, FileNote
<1>7. ASSUME UNCHANGED <<noted, before, records>>
      PROVE  RecordsNoted'
  BY <1>5, <1>7 DEF RecordsNoted
<1>8. ASSUME UNCHANGED <<noted, before, round>>, now.at # "begin"
      PROVE  FilesBetween'
  BY <1>1, <1>5, <1>8 DEF FilesBetween, Between
<1>9. CASE Begin
  <2>1. /\ now.at = "begin" /\ now'.at = "root" /\ noted' = noted /\ records' = records
        /\ UNCHANGED <<round, before, stack>> /\ moments' = moments \cup {Moment}
    BY <1>3, <1>9 DEF Begin, rounds
  <2>2. noted = {}
    BY <1>5, <2>1 DEF FirstNoted, Looked
  <2>3. FirstNoted'
    BY <1>5, <2>1, <2>2 DEF FirstNoted, Looked
  <2>4. Between(Moment)'
    <3>1. Moment' = Moment /\ Moment.version = version
      BY <1>9, StepFacts DEF Moment
    <3>2. \A f \in FileNodes : version[f] \in Nat
      BY DEF TreeInv
    <3>3. PICK m : m = Moment
      OBVIOUS
    <3>4. Between(m)'
      <4>1. m.version = version
        BY <3>1, <3>3
      <4>2. \A f \in FileNodes : m.version[f] \in Nat /\ m.version[f] <= version'[f]
        BY <1>1, <3>2, <4>1
      <4>3. \A e \in before : e.status.time <= m.version[e.status.inode]
        BY <1>5, <4>1 DEF FileNotes, FileNote
      <4>. QED  BY <2>1, <2>2, <4>2, <4>3 DEF Between
    <3>. QED  BY <3>1, <3>3, <3>4
  <2>5. FilesBetween'
    <3>1. Moment' \in moments'
      BY <2>1, StepFacts
    <3>2. PICK m : m = Moment'
      OBVIOUS
    <3>3. Between(m)'
      BY <2>4, <3>2
    <3>. QED  BY <3>1, <3>2, <3>3 DEF FilesBetween
  <2>. QED  BY <1>6, <1>7, <2>1, <2>3, <2>5
<1>10. CASE Enumerate
  <2>1. /\ now.at = "enumerate" /\ now'.at \in {"enumerate", "root"} /\ noted' = noted
        /\ UNCHANGED <<round, before, stack, records>>
    BY <1>10 DEF Enumerate, At, Base, NowInv
  <2>2. FirstNoted'
    BY <1>5, <2>1 DEF FirstNoted, Looked
  <2>. QED  BY <1>6, <1>7, <1>8, <2>1, <2>2
<1>11. CASE LookAtRoot
  <2>1. /\ now.at = "root" /\ now'.at = "next" /\ noted' = noted /\ ~Root'.listed
        /\ UNCHANGED <<round, before, records>>
    BY <1>4, <1>11, RootFacts DEF NoteDirectory, Opened, rounds
  <2>2. FirstNoted'
    BY <1>5, <2>1 DEF FirstNoted, Looked
  <2>. QED  BY <1>6, <1>7, <1>8, <2>1, <2>2
<1>12. CASE List
  <2>1. PICK names \in SUBSET Names :
          /\ names = NamesOf(Top.path, Top.expected.inode)
          /\ now.at = "next"
          /\ Inner' <=> Inner
          /\ Root' = IF Inner THEN Root ELSE [Top EXCEPT !.listed = TRUE, !.todo = names]
          /\ UNCHANGED <<now, records, noted, rounds>>
    BY <1>12, ListFacts
  <2>2. UNCHANGED <<round, before>>
    BY <2>1 DEF rounds
  <2>3. FirstNoted'
    <3>1. round = 1 /\ ~Inner => "f" \in Root'.todo
      <4>1. SUFFICES ASSUME round = 1, ~Inner PROVE "f" \in Root'.todo
        OBVIOUS
      <4>2. Top \in Frames /\ Top.path = "root"
        BY <2>1, <4>1, FrameFacts DEF Base, StackInv, Looked
      <4>3. names = WantedNames("root")
        BY <1>3, <1>4, <2>1, <4>1, <4>2 DEF NamesOf
      <4>. QED  BY <2>1, <4>1, <4>2, <4>3 DEF WantedNames, Frames
    <3>. QED  BY <1>5, <2>1, <2>2, <3>1 DEF FirstNoted
  <2>. QED  BY <1>6, <1>7, <1>8, <2>1, <2>2, <2>3
<1>13. CASE Look
  <2>1. PICK n \in Names, i \in FileNodes \cup SubDirs : Takes(n, i)
    BY <1>13, LookFacts
  <2>2. /\ now.at = "next" /\ Top.listed /\ Top \in Frames /\ (~Inner => Top = Root)
        /\ Inner' <=> Inner
        /\ Root' = IF Inner THEN Root ELSE [Top EXCEPT !.todo = Top.todo \ {n}]
        /\ TakesDirectory(n, i) \/ TakesFile(n, i)
        /\ UNCHANGED <<records, rounds>>
    BY <2>1, FrameFacts DEF Takes, Base, Looked
  <2>3. noted' = noted /\ UNCHANGED <<round, before>>
    BY <1>3, <1>4, <2>2 DEF TakesDirectory, TakesFile, NoteDirectory, rounds
  <2>4. now'.at \in Looked
    BY <2>2 DEF TakesDirectory, TakesFile, Looked
  <2>5. ASSUME round = 1, Root'.listed, noted = {}
        PROVE  "f" \in Root'.todo \/ (~Inner' /\ now'.at \in InFile /\ now'.name = "f")
    <3>1. "f" \in Root.todo
      <4>1. Root.listed
        BY <2>2, <2>5 DEF Frames
      <4>. QED  BY <1>5, <2>2, <2>5, <4>1 DEF FirstNoted, Looked, InFile
    <3>2. CASE Inner \/ n # "f"
      BY <2>2, <3>1, <3>2 DEF Frames
    <3>3. CASE ~Inner /\ n = "f"
      <4>1. now' = [at |-> "open", name |-> n, looked |-> FileStatus(i)]
        BY <1>3, <2>2, <2>5, <3>3 DEF TakesDirectory, TakesFile
      <4>. QED  BY <2>2, <3>3, <4>1 DEF InFile
    <3>. QED  BY <3>2, <3>3
  <2>6. FirstNoted'
    BY <1>5, <2>2, <2>3, <2>4, <2>5 DEF FirstNoted, Looked
  <2>. QED  BY <1>6, <1>7, <1>8, <2>2, <2>3, <2>6
<1>14. CASE Enter
  <2>1. /\ now.at = "enter" /\ now'.at = "next" /\ Root' = Root /\ ~Inner /\ Inner'
        /\ UNCHANGED <<round, before, noted, records>>
    BY <1>14, EnterFacts DEF rounds
  <2>2. FirstNoted'
    BY <1>5, <2>1 DEF FirstNoted, Looked, InFile
  <2>. QED  BY <1>6, <1>7, <1>8, <2>1, <2>2
<1>15. CASE Open
  <2>1. /\ now.at = "open" /\ now'.at = "read" /\ now'.name = now.name
        /\ Root' = Root /\ (Inner' <=> Inner)
        /\ UNCHANGED <<round, before, noted, records>>
    BY <1>15, OpenFacts DEF rounds, Root, Inner
  <2>2. FirstNoted'
    BY <1>5, <2>1 DEF FirstNoted, Looked, InFile
  <2>. QED  BY <1>6, <1>7, <1>8, <2>1, <2>2
<1>16. CASE Read
  <2>1. /\ now.at = "read" /\ now'.at = "read" /\ now'.name = now.name
        /\ Root' = Root /\ (Inner' <=> Inner)
        /\ UNCHANGED <<round, before, noted, records>>
BY <1>16, ReadFacts DEF rounds, Root, Inner
  <2>2. FirstNoted'
    BY <1>5, <2>1 DEF FirstNoted, Looked, InFile
  <2>. QED  BY <1>6, <1>7, <1>8, <2>1, <2>2
<1>17. CASE Close
  <2>1. PICK p \in Paths, n \in FileNames : p = Top.path /\ n = now.name
    BY <1>17, CloseFacts
  <2>2. PICK i \in FileNodes, v \in Nat : i = now.opened.inode /\ v = now.read[1]
    BY <1>2, <1>4, <1>17, ReadWhole
  <2>3. /\ WasRead = <<i, v>> /\ now.opened = [inode |-> i, time |-> v] /\ v = version[i]
    BY <1>2, <1>4, <1>17, <2>2, ReadWhole DEF FilesTwice
  <2>4. PICK e : e = [path |-> p, name |-> n, status |-> [inode |-> i, time |-> v], read |-> <<i, v>>]
    OBVIOUS
  <2>5. /\ now.at = "read" /\ now'.at = "next" /\ round # 2
        /\ DOMAIN records'[p] = DOMAIN records[p] \cup {n}
        /\ records'[p][n] = <<i, v>>
        /\ \A m \in DOMAIN records[p] : m # n => records'[p][m] = records[p][m]
        /\ \A q \in Paths : q # p => records'[q] = records[q]
        /\ UNCHANGED <<round, before, stack>>
    <3>1. now.at = "read" /\ Does("read")
      BY <1>17, CloseFacts DEF Base, NowInv, InFile
    <3>. QED  BY <1>3, <1>17, <2>1, <2>3, <3>1, CloseFacts DEF rounds
  <2>6. noted' = noted \cup {e}
    <3>1. Compared
      BY <1>3, <2>5
    <3>. QED  BY <1>4, <1>17, <2>1, <2>3, <2>4, <3>1, CloseFacts DEF Note
  <2>7. FileNote(e)'
    <3>1. v <= version'[i]
      BY <1>1, <2>3
    <3>. QED  BY <2>4, <3>1 DEF FileNote
  <2>8. FileNotes'
    BY <1>1, <1>5, <2>5, <2>6, <2>7 DEF FileNotes, FileNote
  <2>9. RecordsNoted'
    <3>1. e \in noted' /\ e.read = <<i, v>>
      BY <2>4, <2>6
    <3>. QED  BY <1>5, <2>5, <2>6, <3>1 DEF RecordsNoted
  <2>10. FirstNoted'
    BY <1>5, <2>5, <2>6 DEF FirstNoted, Looked
  <2>11. FilesBetween'
    <3>1. ASSUME NEW m, Between(m) PROVE Between(m)'
      <4>1. m.version[i] <= v
        BY <2>3, <3>1 DEF Between
      <4>. QED  BY <1>1, <2>4, <2>5, <2>6, <3>1, <4>1 DEF Between
    <3>. QED  BY <1>1, <1>5, <2>5, <3>1 DEF FilesBetween
  <2>. QED  BY <2>8, <2>9, <2>10, <2>11
<1>18. CASE Leave
  <2>1. CASE LeavesInner
    <3>1. /\ now.at = "next" /\ Root' = Root /\ UNCHANGED <<now, records, noted, round, before>>
      BY <1>18, <2>1, LeaveFacts DEF LeavesInner, rounds, Going
    <3>2. FirstNoted'
      BY <1>5, <3>1 DEF FirstNoted, Looked, InFile
    <3>. QED  BY <1>6, <1>7, <1>8, <3>1, <3>2
  <2>2. CASE BeginsRound
    <3>1. /\ round' = round + 1 /\ now' = [at |-> "begin"] /\ ~Inner /\ noted' = {}
          /\ before' = (IF Compared THEN noted ELSE before) /\ round # 3
          /\ records' = records
      BY <1>3, <2>2 DEF BeginsRound
    <3>2. before' = noted \cup before
      <4>1. CASE round = 1
        <5>1. before' = noted
          BY <1>3, <3>1, <4>1
        <5>. QED  BY <4>1, <5>1, <1>5 DEF FirstNoted
      <4>2. CASE round = 2
        BY <1>3, <1>5, <3>1, <4>2 DEF FirstNoted
      <4>. QED  BY <1>3, <3>1, <4>1, <4>2
    <3>3. FileNotes' /\ RecordsNoted'
      BY <1>1, <1>5, <3>1, <3>2 DEF FileNotes, FileNote, RecordsNoted
    <3>4. round = 1 => noted # {}
      <4>1. SUFFICES ASSUME round = 1 PROVE noted # {}
        OBVIOUS
      <4>2. now.at = "next" /\ Root.listed /\ Root.todo = {}
        BY <1>18, <3>1, LeaveFacts, FrameFacts DEF Going, Base, Looked
      <4>. QED  BY <1>5, <4>1, <4>2 DEF FirstNoted, Looked, InFile
    <3>5. FirstNoted'
      <4>1. before' # {}
        BY <1>3, <1>5, <3>1, <3>2, <3>4 DEF FirstNoted
      <4>2. now'.at \notin Looked /\ round' # 1
        BY <1>3, <3>1 DEF Looked
      <4>. QED  BY <3>1, <4>1, <4>2 DEF FirstNoted
    <3>6. FilesBetween'
      BY <3>1 DEF FilesBetween
    <3>. QED  BY <3>3, <3>5, <3>6
  <2>3. ~Ends
    BY DEF Ends, Going
  <2>. QED  BY <1>18, <2>1, <2>2, <2>3, LeaveFacts DEF Going
<1>. QED  BY <1>9, <1>10, <1>11, <1>12, <1>13, <1>14, <1>15, <1>16, <1>17, <1>18 DEF Step

-----------------------------------------------------------------------------
(* A directory whose status is compared when it is left.                    *)
Current == IF now.at \in InFile THEN {now.name} ELSE {}
FilesIn(x) == Existing(x) \cap FileNames
Stays(t) == touched[t.expected.inode] = t.expected.time
AllZero == \A f \in FileNodes : version[f] = 0

(* Of the directory of a frame nothing is left out: its files are recorded, *)
(* to do, or the one that is being read.                                    *)
Recorded(t, current) ==
  /\ ~t.listed => DOMAIN records[t.path] = {}
  /\ t.listed => FilesIn(t.expected.inode)
                   = DOMAIN records[t.path] \cup (t.todo \cap FileNames) \cup current
  /\ \A n \in DOMAIN records[t.path] :
       /\ WasThere(t.path, n, records[t.path][n])
       /\ entries[t.expected.inode][n] = records[t.path][n][1]

SubAtOnce == \E m \in moments : FilesOf(m["d"]) = records["d"]
SubRecorded ==
  /\ \A n \in DOMAIN records["d"] : WasThere("d", n, records["d"][n])
  /\ AllZero /\ DOMAIN records["d"] # {} => SubAtOnce

NothingYet ==
  /\ now.at \notin Looked => \A p \in Paths : DOMAIN records[p] = {}
  /\ now.at \in Looked /\ ~Inner /\ (~Root.listed \/ "d" \in Root.todo \/ now.at = "enter") =>
       DOMAIN records["d"] = {}
RootRecorded ==
  now.at \in Looked /\ Stays(Root) => Recorded(Root, IF Inner THEN {} ELSE Current)
InnerRecorded ==
  now.at \in Looked /\ Stays(Root) =>
    /\ Inner => entries["root"]["d"] = Top.expected.inode
    /\ Inner /\ Stays(Top) => Recorded(Top, Current)
    /\ ~Inner => SubRecorded
CurrentThere ==
  now.at = "read" /\ Stays(Root) /\ Stays(Top) =>
    /\ entries[Top.expected.inode][now.name] = now.opened.inode
    /\ Len(now.read) > 0 => WasThere(Top.path, now.name, <<now.opened.inode, now.read[1]>>)

LeaveInv ==
  kind.reader \in Leaving /\ Telling =>
    NothingYet /\ RootRecorded /\ InnerRecorded /\ CurrentThere

(* Where the status stays, the entries have stayed.                         *)
LEMMA StaysFacts ==
  ASSUME TreeInv, TreeInv', Base, Grows, now.at \in Looked, NEW t \in {Root, Top},
         touched'[t.expected.inode] = t.expected.time
  PROVE  Stays(t) /\ entries'[t.expected.inode] = entries[t.expected.inode]
<1>1. PICK x \in DirNodes : x = t.expected.inode
  BY FrameFacts DEF Base, Frames
<1>2. t.expected.time \in Nat /\ t.expected.time <= touched[x]
  <2>1. CASE t = Root
    BY <1>1, <2>1, FrameFacts DEF Base, StackInv, Frames
  <2>2. CASE t = Top /\ Inner
    BY <1>1, <2>2, FrameFacts DEF Base, StackInv, Frames
  <2>3. CASE t = Top /\ ~Inner
    BY <2>1, <2>3, FrameFacts DEF Base
  <2>. QED  BY <2>1, <2>2, <2>3
<1>3. touched[x] \in Nat /\ touched'[x] \in Nat /\ touched[x] <= touched'[x]
  BY DEF TreeInv, Grows
<1>4. touched[x] = t.expected.time /\ touched'[x] = touched[x]
  BY <1>1, <1>2, <1>3
<1>. QED  BY <1>1, <1>4 DEF Stays, Grows

LEMMA LeaveOthers ==
  ASSUME TreeInv, TreeInv', Base, LeaveInv, Grows,
         UNCHANGED <<kind, rounds, stack, now, records, noted>>
  PROVE  LeaveInv'
<1>1. /\ Root' = Root /\ (Inner' <=> Inner) /\ Top' = Top /\ Current' = Current
      /\ UNCHANGED <<now, records>> /\ (Telling' <=> Telling)
      /\ \A p, n, c : WasThere(p, n, c) => WasThere(p, n, c)'
  BY WasThereGrows DEF Root, Inner, Top, Current, rounds, Grows, Telling, Exact, Reader
<1>2. SUFFICES ASSUME kind.reader \in Leaving, Telling
               PROVE  NothingYet' /\ RootRecorded' /\ InnerRecorded' /\ CurrentThere'
  BY <1>1 DEF LeaveInv
<1>3. NothingYet /\ RootRecorded /\ InnerRecorded /\ CurrentThere
  BY <1>2 DEF LeaveInv
<1>4. NothingYet'
  BY <1>1, <1>3 DEF NothingYet
<1>5. ASSUME now.at \in Looked, Stays(Root)'
      PROVE  Stays(Root) /\ entries'["root"] = entries["root"]
  <2>1. Root.expected.inode = "root" /\ touched'[Root.expected.inode] = Root.expected.time
    BY <1>1, <1>5 DEF Base, StackInv, Stays
  <2>. QED  BY <1>5, <2>1, StaysFacts
<1>6. ASSUME now.at \in Looked, Stays(Top)'
      PROVE  Stays(Top) /\ entries'[Top.expected.inode] = entries[Top.expected.inode]
  <2>1. touched'[Top.expected.inode] = Top.expected.time
    BY <1>1, <1>6 DEF Stays
  <2>. QED  BY <1>6, <2>1, StaysFacts
<1>7. ASSUME NEW t, NEW current, Recorded(t, current),
             entries'[t.expected.inode] = entries[t.expected.inode]
      PROVE  Recorded(t, current)'
  <2>1. FilesIn(t.expected.inode)' = FilesIn(t.expected.inode)
    BY <1>7 DEF FilesIn, Existing
  <2>. QED  BY <1>1, <1>7, <2>1 DEF Recorded
<1>8. RootRecorded'
  <2>1. SUFFICES ASSUME now.at \in Looked, Stays(Root)'
                 PROVE  Recorded(Root, IF Inner THEN {} ELSE Current)'
    BY <1>1 DEF RootRecorded
  <2>2. PICK t, current : t = Root /\ current = IF Inner THEN {} ELSE Current
    OBVIOUS
  <2>3. Recorded(t, current) /\ t.expected.inode = "root"
    BY <1>3, <1>5, <2>1, <2>2 DEF RootRecorded, Base, StackInv
  <2>4. Recorded(t, current)'
    BY <1>5, <1>7, <2>1, <2>3
  <2>. QED  BY <1>1, <2>2, <2>4 DEF Recorded
<1>9. InnerRecorded'
  <2>1. SUFFICES ASSUME now.at \in Looked, Stays(Root)'
                 PROVE  /\ Inner => entries'["root"]["d"] = Top.expected.inode
                        /\ Inner /\ Stays(Top)' => Recorded(Top, Current)'
                        /\ ~Inner => SubRecorded'
    BY <1>1 DEF InnerRecorded
  <2>2. Inner => entries'["root"]["d"] = Top.expected.inode
    BY <1>3, <1>5, <2>1 DEF InnerRecorded
  <2>3. ASSUME Inner, Stays(Top)' PROVE Recorded(Top, Current)'
    <3>1. PICK t, current : t = Top /\ current = Current
      OBVIOUS
    <3>2. Recorded(t, current)
      BY <1>3, <1>5, <1>6, <2>1, <2>3, <3>1 DEF InnerRecorded
    <3>3. Recorded(t, current)'
      BY <1>6, <1>7, <2>1, <2>3, <3>1, <3>2
    <3>. QED  BY <1>1, <3>1, <3>3 DEF Recorded
  <2>4. ASSUME ~Inner PROVE SubRecorded'
    <3>1. SubRecorded
      BY <1>3, <1>5, <2>1, <2>4 DEF InnerRecorded
    <3>2. AllZero' => AllZero
      <4>1. \A f \in FileNodes : version[f] \in Nat /\ version'[f] \in Nat /\ version[f] <= version'[f]
        BY DEF TreeInv, Grows
      <4>. QED  BY <4>1 DEF AllZero
    <3>3. SubAtOnce => SubAtOnce'
      BY <1>1 DEF SubAtOnce, Grows
    <3>. QED  BY <1>1, <3>1, <3>2, <3>3 DEF SubRecorded
  <2>. QED  BY <2>2, <2>3, <2>4
<1>10. CurrentThere'
  <2>1. SUFFICES ASSUME now.at = "read", Stays(Root)', Stays(Top)'
                 PROVE  /\ entries'[Top.expected.inode][now.name] = now.opened.inode
                        /\ Len(now.read) > 0 =>
                             WasThere(Top.path, now.name, <<now.opened.inode, now.read[1]>>)'
    BY <1>1 DEF CurrentThere
  <2>2. Stays(Root) /\ Stays(Top) /\ entries'[Top.expected.inode] = entries[Top.expected.inode]
    BY <1>5, <1>6, <2>1 DEF Looked
  <2>3. PICK p, n, c : p = Top.path /\ n = now.name /\ c = <<now.opened.inode, now.read[1]>>
    OBVIOUS
  <2>4. Len(now.read) > 0 => WasThere(p, n, c)'
    BY <1>1, <1>3, <2>1, <2>2, <2>3 DEF CurrentThere
  <2>. QED  BY <1>1, <1>3, <2>1, <2>2, <2>3, <2>4 DEF CurrentThere, WasThere
<1>. QED  BY <1>4, <1>8, <1>9, <1>10

(* The files of a directory at this moment.                                *)
LEMMA FilesNow ==
  ASSUME TreeInv, NEW p \in Paths, NEW x \in DirNodes,
         x = IF p = "root" THEN "root" ELSE entries["root"]["d"]
  PROVE  /\ FilesOf(Moment[p]) = [n \in FilesIn(x) |-> <<entries[x][n], version[entries[x][n]]>>]
         /\ DOMAIN Moment[p] = Existing(x)
         /\ DOMAIN Moment[p] \cap FileNames = FilesIn(x)
         /\ \A n \in FilesIn(x) : /\ Moment[p][n] = <<entries[x][n], version[entries[x][n]]>>
                                  /\ entries[x][n] \in FileNodes
<1>1. /\ DOMAIN Moment[p] = Existing(x)
      /\ \A n \in Existing(x) : Moment[p][n] = IF entries[x][n] \in FileNodes
                                               THEN <<entries[x][n], version[entries[x][n]]>>
                                               ELSE <<entries[x][n]>>
  BY MomentFacts DEF MomentIs, Paths
<1>2. PICK m : m = Moment[p]
  OBVIOUS
<1>3. \A n \in Existing(x) : m[n] = IF entries[x][n] \in FileNodes
                                     THEN <<entries[x][n], version[entries[x][n]]>>
                                     ELSE <<entries[x][n]>>
  BY <1>1, <1>2
<1>4. \A n \in Existing(x) : m[n][1] = entries[x][n]
  <2>1. TAKE n \in Existing(x)
  <2>2. PICK i, v : i = entries[x][n] /\ v = version[i]
    OBVIOUS
  <2>3. <<i, v>>[1] = i /\ <<i>>[1] = i
    OBVIOUS
  <2>. QED  BY <1>3, <2>2, <2>3
<1>5. \A n \in Existing(x) : entries[x][n] \in FileNodes <=> n \in FileNames
  <2>1. TAKE n \in Existing(x)
  <2>2. n \in Names /\ entries[x][n] # Absent
    BY DEF Existing
  <2>3. n \in FileNames => entries[x][n] \in FileNodes
    BY <2>2 DEF TreeInv
  <2>4. n = "d" => entries[x][n] \in SubDirs
    BY <2>2 DEF TreeInv
  <2>. QED  BY <2>2, <2>3, <2>4 DEF Names, FileNames, SubDirs, FileNodes
<1>6. {n \in DOMAIN m : m[n][1] \in FileNodes} = FilesIn(x)
  BY <1>1, <1>2, <1>4, <1>5 DEF FilesIn
<1>7. \A n \in FilesIn(x) : m[n] = <<entries[x][n], version[entries[x][n]]>>
  BY <1>1, <1>2, <1>5 DEF FilesIn
<1>8. FilesOf(m) = [n \in FilesIn(x) |-> <<entries[x][n], version[entries[x][n]]>>]
  BY SMTT(30), <1>6, <1>7 DEF FilesOf
<1>. QED  BY <1>1, <1>2, <1>5, <1>7, <1>8 DEF FilesIn

LEMMA AtOnce ==
  ASSUME TreeInv, Base, AllZero, NEW t \in Frames, t.listed, t.todo = {}, Recorded(t, {}),
         t.expected.inode = IF t.path = "root" THEN "root" ELSE entries["root"]["d"]
  PROVE  FilesOf(Moment[t.path]) = records[t.path]
<1>1. PICK p \in Paths, x \in DirNodes : p = t.path /\ x = t.expected.inode
  BY DEF Frames
<1>2. /\ FilesOf(Moment[p]) = [n \in FilesIn(x) |-> <<entries[x][n], version[entries[x][n]]>>]
      /\ \A n \in FilesIn(x) : entries[x][n] \in FileNodes
  BY <1>1, FilesNow
<1>3. /\ FilesIn(x) = DOMAIN records[p]
      /\ \A n \in DOMAIN records[p] : entries[x][n] = records[p][n][1]
  BY <1>1 DEF Recorded
<1>4. \A n \in DOMAIN records[p] : records[p][n] = <<entries[x][n], version[entries[x][n]]>>
  <2>1. TAKE n \in DOMAIN records[p]
  <2>2. PICK i \in FileNodes, v \in Nat, w \in Nat :
          v <= version[i] /\ w <= version[i] /\ records[p][n] = Pieces(i, v, w)
    BY DEF Base, RecordsInv, IsRecord
  <2>3. v = 0 /\ w = 0 /\ version[i] = 0
    BY <2>2 DEF AllZero
  <2>4. records[p][n] = <<i, 0>>
    BY <2>2, <2>3 DEF Pieces
  <2>5. <<i, 0>>[1] = i
    OBVIOUS
  <2>. QED  BY <1>3, <2>3, <2>4, <2>5
<1>5. IsPlain(records[p])
  BY DEF Base, RecordsInv
<1>. QED  BY <1>1, <1>2, <1>3, <1>4, <1>5 DEF IsPlain

LEMMA LeaveStays ==
  ASSUME TreeInv, TreeInv', Base, Base', LeaveInv, Step, Going'
  PROVE  LeaveInv'
<1>1. /\ Reader' = Reader /\ version' = version /\ touched' = touched /\ entries' = entries
      /\ UNCHANGED kind /\ (AllZero' <=> AllZero) /\ (Telling' <=> Telling)
      /\ \A p, n, c : WasThere(p, n, c) => WasThere(p, n, c)'
      /\ \A t : Stays(t)' <=> Stays(t)
  BY StepFacts, WasThereGrows DEF AllZero, Stays, Telling, Exact
<1>2. SUFFICES ASSUME kind.reader \in Leaving, Telling
               PROVE  NothingYet' /\ RootRecorded' /\ InnerRecorded' /\ CurrentThere'
  BY <1>1 DEF LeaveInv
<1>3. NothingYet /\ RootRecorded /\ InnerRecorded /\ CurrentThere
  BY <1>2 DEF LeaveInv
<1>4. /\ round = 1 /\ Len(Reader.rounds) = 1 /\ Does("read") /\ ~First /\ kind.reader # "sealed"
  BY <1>2, RoundFacts DEF TreeInv, Base, StackInv, Leaving, Filing, Surveying
<1>5. /\ Reader.leave /\ ~Reader.byPath /\ "directory" \in Reader.same
      /\ Reader.names = "entries"
  BY SMTT(30), <1>2, ReaderTable DEF Reader, TreeInv, Kinds, Leaving, Knowing
<1>6. ASSUME records' = records, NEW t, NEW current, Recorded(t, current)
      PROVE  Recorded(t, current)'
  BY <1>1, <1>6 DEF Recorded, FilesIn, Existing
<1>7. ASSUME records' = records, SubRecorded PROVE SubRecorded'
  BY <1>1, <1>7, StepFacts DEF SubRecorded, SubAtOnce
<1>8. CASE now'.at \notin Looked /\ now.at \notin Looked
  <2>1. records' = records
    BY <1>8, StepFacts, CloseFacts DEF Looked
  <2>. QED  BY <1>3, <1>8, <2>1 DEF NothingYet, RootRecorded, InnerRecorded, CurrentThere, Looked
<1>9. CASE LookAtRoot
  <2>1. /\ now.at = "root" /\ now'.at = "next" /\ ~Inner' /\ records' = records
        /\ Root'.path = "root" /\ ~Root'.listed /\ Root'.expected.inode = "root"
    BY <1>9, RootFacts DEF Opened, DirStatus
  <2>2. \A p \in Paths : DOMAIN records[p] = {}
    BY <1>3, <2>1 DEF NothingYet, Looked
  <2>3. NothingYet' /\ CurrentThere'
    BY <2>1, <2>2 DEF NothingYet, CurrentThere, Looked, Paths
  <2>4. RootRecorded' /\ InnerRecorded'
    BY <2>1, <2>2 DEF RootRecorded, InnerRecorded, Recorded, SubRecorded, Paths
  <2>. QED  BY <2>3, <2>4
<1>10. CASE List
  <2>1. PICK names \in SUBSET Names :
          /\ names = NamesOf(Top.path, Top.expected.inode)
          /\ now.at = "next" /\ ~Top.listed
          /\ Inner' <=> Inner
          /\ Top' = [Top EXCEPT !.listed = TRUE, !.todo = names]
          /\ Root' = IF Inner THEN Root ELSE [Top EXCEPT !.listed = TRUE, !.todo = names]
          /\ UNCHANGED <<now, records>>
    BY <1>10, ListFacts
  <2>2. now.at \in Looked /\ Top \in Frames /\ (~Inner => Top = Root) /\ Current = {} /\ Current' = {}
    BY <2>1, FrameFacts DEF Base, Looked, Current, InFile
  <2>3. names = Existing(Top.expected.inode)
    BY <1>4, <1>5, <2>1 DEF NamesOf
  <2>4. /\ Top'.path = Top.path /\ Top'.expected = Top.expected /\ Top'.listed /\ Top'.todo = names
    BY <2>1, <2>2 DEF Frames
  <2>5. ~Inner => DOMAIN records["d"] = {}
    BY <1>3, <2>1, <2>2 DEF NothingYet
  <2>6. NothingYet' /\ CurrentThere'
    BY <2>1, <2>2, <2>5 DEF NothingYet, CurrentThere
  <2>7. ASSUME Recorded(Top, {})
        PROVE  Recorded(Top, {})'
    <3>1. DOMAIN records[Top.path] = {}
      BY <2>1, <2>7 DEF Recorded
    <3>. QED  BY <1>1, <2>1, <2>3, <2>4, <3>1 DEF Recorded, FilesIn, Existing
  <2>8. RootRecorded'
    <3>1. SUFFICES ASSUME Stays(Root)' PROVE Recorded(Root, IF Inner THEN {} ELSE Current)'
      BY DEF RootRecorded
    <3>2. CASE Inner
      <4>1. Root' = Root
        BY <2>1, <3>2
      <4>2. Stays(Root)
        BY <1>1, <3>1, <4>1 DEF Stays
      <4>3. PICK t : t = Root
        OBVIOUS
      <4>4. Recorded(t, {})
        BY <1>3, <2>2, <3>2, <4>2, <4>3 DEF RootRecorded
      <4>5. Recorded(t, {})'
        BY <1>6, <2>1, <4>4
      <4>. QED  BY <2>1, <3>2, <4>1, <4>3, <4>5 DEF Recorded
    <3>3. CASE ~Inner
      <4>1. Root' = Top'
        BY <2>1, <3>3
      <4>2. Stays(Root)
        BY <1>1, <2>2, <2>4, <3>1, <3>3, <4>1 DEF Stays
      <4>3. Recorded(Top, {})
        BY <1>3, <2>2, <3>3, <4>2 DEF RootRecorded
      <4>. QED  BY <2>1, <2>2, <2>7, <3>3, <4>1, <4>3 DEF Recorded
    <3>. QED  BY <3>2, <3>3
  <2>9. InnerRecorded'
    <3>1. SUFFICES ASSUME Stays(Root)'
                   PROVE  /\ Inner' => entries'["root"]["d"] = Top'.expected.inode
                          /\ Inner' /\ Stays(Top)' => Recorded(Top, Current)'
                          /\ ~Inner' => SubRecorded'
      BY DEF InnerRecorded
    <3>2. Stays(Root)
      BY <1>1, <2>1, <2>2, <2>4, <3>1 DEF Stays
    <3>3. Inner => entries["root"]["d"] = Top.expected.inode
      BY <1>3, <2>2, <3>2 DEF InnerRecorded
    <3>4. ASSUME Inner, Stays(Top)' PROVE Recorded(Top, Current)'
      <4>1. Stays(Top)
        BY <1>1, <2>4, <3>4 DEF Stays
      <4>2. Recorded(Top, {})
        BY <1>3, <2>2, <3>2, <3>4, <4>1 DEF InnerRecorded
      <4>. QED  BY <2>2, <2>7, <4>2 DEF Recorded
    <3>5. ~Inner => SubRecorded'
      BY <1>3, <1>7, <2>1, <2>2, <3>2 DEF InnerRecorded
    <3>. QED  BY <1>1, <2>1, <2>4, <3>3, <3>4, <3>5
  <2>. QED  BY <2>6, <2>8, <2>9
<1>11. CASE Look
  <2>1. PICK n \in Names, i \in FileNodes \cup SubDirs : Takes(n, i)
    BY <1>11, LookFacts
  <2>2. /\ n \in Top.todo /\ now.at = "next" /\ Top.listed
        /\ Inner' <=> Inner
        /\ Top' = [Top EXCEPT !.todo = Top.todo \ {n}]
        /\ Root' = IF Inner THEN Root ELSE [Top EXCEPT !.todo = Top.todo \ {n}]
        /\ TakesDirectory(n, i) \/ TakesFile(n, i)
        /\ records' = records
    BY <2>1 DEF Takes
  <2>3. now.at \in Looked /\ Top \in Frames /\ (~Inner => Top = Root) /\ Current = {}
    BY <2>2, FrameFacts DEF Base, Looked, Current, InFile
  <2>4. /\ Top'.path = Top.path /\ Top'.expected = Top.expected /\ Top'.listed
        /\ Top'.todo = Top.todo \ {n}
    BY <2>2, <2>3 DEF Frames
  <2>5. \/ /\ now'.at = "enter" /\ Current' = {} /\ n = "d" /\ ~Inner
        \/ /\ now'.at = "open" /\ Current' = {n} /\ n \in FileNames
    BY <1>4, <2>2 DEF TakesDirectory, TakesFile, Current, InFile
  <2>6. (Top.todo \cap FileNames) \cup Current = (Top'.todo \cap FileNames) \cup Current'
    BY <2>2, <2>3, <2>4, <2>5 DEF FileNames
  <2>7. NothingYet' /\ CurrentThere'
    <3>1. ~Inner /\ ("d" \in Root'.todo \/ now'.at = "enter") => DOMAIN records["d"] = {}
      <4>1. SUFFICES ASSUME ~Inner, "d" \in Root'.todo \/ now'.at = "enter"
                     PROVE  "d" \in Root.todo
        BY <1>3, <2>3 DEF NothingYet
      <4>. QED  BY <2>2, <2>3, <2>4, <2>5, <4>1
    <3>. QED  BY <2>2, <2>3, <2>4, <2>5, <3>1 DEF NothingYet, CurrentThere, Looked
  <2>8. ASSUME Recorded(Top, Current)
        PROVE  Recorded(Top, Current)'
    BY <1>1, <2>2, <2>4, <2>6, <2>8 DEF Recorded, FilesIn, Existing
  <2>9. RootRecorded'
    <3>1. SUFFICES ASSUME Stays(Root)' PROVE Recorded(Root, IF Inner THEN {} ELSE Current)'
      BY DEF RootRecorded
    <3>2. CASE Inner
      <4>1. Root' = Root
        BY <2>2, <3>2
      <4>2. Stays(Root)
        BY <1>1, <3>1, <4>1 DEF Stays
      <4>3. PICK t : t = Root
        OBVIOUS
      <4>4. Recorded(t, {})
        BY <1>3, <2>3, <3>2, <4>2, <4>3 DEF RootRecorded
      <4>5. Recorded(t, {})'
        BY <1>6, <2>2, <4>4
      <4>. QED  BY <2>2, <3>2, <4>1, <4>3, <4>5 DEF Recorded
    <3>3. CASE ~Inner
      <4>1. Root' = Top'
        BY <2>2, <3>3
      <4>2. Stays(Root)
        BY <1>1, <2>3, <2>4, <3>1, <3>3, <4>1 DEF Stays
      <4>3. Recorded(Top, Current)
        BY <1>3, <2>3, <3>3, <4>2 DEF RootRecorded
      <4>. QED  BY <2>2, <2>8, <3>3, <4>1, <4>3 DEF Recorded
    <3>. QED  BY <3>2, <3>3
  <2>10. InnerRecorded'
    <3>1. SUFFICES ASSUME Stays(Root)'
                   PROVE  /\ Inner' => entries'["root"]["d"] = Top'.expected.inode
                          /\ Inner' /\ Stays(Top)' => Recorded(Top, Current)'
                          /\ ~Inner' => SubRecorded'
      BY DEF InnerRecorded
    <3>2. Stays(Root)
      BY <1>1, <2>2, <2>3, <2>4, <3>1 DEF Stays
    <3>3. Inner => entries["root"]["d"] = Top.expected.inode
      BY <1>3, <2>3, <3>2 DEF InnerRecorded
    <3>4. ASSUME Inner, Stays(Top)' PROVE Recorded(Top, Current)'
      <4>1. Stays(Top)
        BY <1>1, <2>4, <3>4 DEF Stays
      <4>. QED  BY <1>3, <2>3, <2>8, <3>2, <3>4, <4>1 DEF InnerRecorded
    <3>5. ~Inner => SubRecorded'
      BY <1>3, <1>7, <2>2, <2>3, <3>2 DEF InnerRecorded
    <3>. QED  BY <1>1, <2>2, <2>4, <3>3, <3>4, <3>5
  <2>. QED  BY <2>7, <2>9, <2>10
<1>12. CASE Enter
  <2>1. PICK e \in [inode : SubDirs, time : Nat] : Top' = Opened("d", e) /\ e = now.looked
    BY <1>5, <1>12, EnterFacts
  <2>2. /\ now.at = "enter" /\ ~Inner /\ Inner' /\ Root' = Root /\ now'.at = "next"
        /\ DirStatus(entries["root"]["d"]) = e /\ records' = records
    BY <1>4, <1>5, <1>12, <2>1, EnterFacts
  <2>3. DOMAIN records["d"] = {}
    BY <1>3, <2>2 DEF NothingYet, Looked
  <2>4. Top'.path = "d" /\ Top'.expected = e /\ ~Top'.listed /\ entries["root"]["d"] = e.inode
    BY <2>1, <2>2 DEF Opened, DirStatus
  <2>5. NothingYet' /\ CurrentThere'
    BY <2>2 DEF NothingYet, CurrentThere, Looked
  <2>6. now.at \in Looked /\ Current = {} /\ (Stays(Root)' => Stays(Root))
    BY <1>1, <2>2 DEF Looked, Current, InFile, Stays
  <2>7. RootRecorded'
    <3>1. PICK t : t = Root
      OBVIOUS
    <3>2. Stays(Root) => Recorded(t, {})
      BY <1>3, <2>2, <2>6, <3>1 DEF RootRecorded
    <3>3. Stays(Root) => Recorded(t, {})'
      BY <1>6, <2>2, <3>2
    <3>. QED  BY <2>2, <2>6, <3>1, <3>3 DEF RootRecorded, Recorded
  <2>8. InnerRecorded'
    <3>1. Recorded(Top, Current)'
      BY <2>2, <2>3, <2>4 DEF Recorded
    <3>. QED  BY <1>1, <2>2, <2>4, <3>1 DEF InnerRecorded
  <2>. QED  BY <2>5, <2>7, <2>8
<1>13. CASE Open
  <2>1. PICK n \in FileNames, i \in FileNodes : n = now.name /\ i = Entry(n) /\ i # Absent
    BY <1>13, OpenFacts
  <2>2. /\ now.at = "open" /\ now'.at = "read" /\ now'.name = n /\ now'.opened.inode = i
        /\ now'.read = <<>> /\ UNCHANGED <<records, stack>>
    BY <1>13, <2>1, OpenFacts DEF FileStatus
  <2>3. /\ Root' = Root /\ Top' = Top /\ (Inner' <=> Inner) /\ Current' = Current
        /\ now.at \in Looked
    BY <2>1, <2>2 DEF Root, Top, Inner, Current, InFile, Looked
  <2>4. entries[Top.expected.inode][n] = i
    <3>1. n \in Names
      BY DEF FileNames, Names
    <3>2. Entry(n) = entries[Dir(Top)][n]
      BY <2>1, <2>3, <3>1, EntryFacts DEF Base
    <3>3. Dir(Top) = Top.expected.inode
      <4>1. Top.path = "root" => Top.expected.inode = "root"
        BY <2>3, FrameFacts DEF Base, StackInv
      <4>. QED  BY <1>5, <4>1 DEF Dir
    <3>. QED  BY <2>1, <3>2, <3>3
  <2>5. NothingYet'
    BY <1>3, <2>2, <2>3 DEF NothingYet, Looked
  <2>6. CurrentThere'
    BY <1>1, <2>2, <2>3, <2>4 DEF CurrentThere
  <2>. QED  BY ZenonT(40), <1>1, <1>3, <1>6, <1>7, <2>2, <2>3, <2>5, <2>6
            DEF RootRecorded, InnerRecorded, Recorded, Stays
<1>14. CASE Read
  <2>1. /\ now.at = "read" /\ result = "running" /\ UNCHANGED <<records, stack>>
        /\ now'.at = "read" /\ now'.name = now.name /\ now'.opened = now.opened
    BY <1>14, ReadFacts DEF Read, At
  <2>2. PICK i \in FileNodes, n \in FileNames :
           i = now.opened.inode /\ n = now.name /\ version[i] \in Nat
    BY <1>14, <2>1, ReadFacts DEF Base, NowInv, InFile
  <2>3. PICK r \in Seq(Nat), s \in Seq(Nat) :
          /\ r = now.read /\ s = now'.read /\ Len(s) = Len(r) + 1
          /\ s[Len(r) + 1] = version[i] /\ \A k \in 1..Len(r) : s[k] = r[k]
    <3>1. PICK r \in Seq(Nat) : r = now.read
      BY <2>1 DEF Base, NowInv
    <3>. QED  BY <1>14, <2>2, <3>1, ReadFacts
  <2>4. /\ Root' = Root /\ Top' = Top /\ (Inner' <=> Inner) /\ Current' = Current
        /\ now.at \in Looked
    BY <2>1 DEF Root, Top, Inner, Current, InFile, Looked
  <2>5. NothingYet'
    BY <1>3, <2>1, <2>4 DEF NothingYet, Looked
  <2>6. CurrentThere'
    <3>1. SUFFICES ASSUME Stays(Root), Stays(Top)
                   PROVE  /\ entries[Top.expected.inode][n] = i
                          /\ WasThere(Top.path, n, <<i, s[1]>>)'
      <4>1. \A p, m, c : WasThere(p, m, c)' <=> \E mm \in moments' : m \in DOMAIN mm[p] /\ mm[p][m] = c
        BY DEF WasThere
      <4>. QED  BY <1>1, <2>1, <2>2, <2>3, <2>4 DEF CurrentThere, Stays, WasThere
    <3>2. entries[Top.expected.inode][n] = i
      BY <1>3, <2>1, <2>2, <3>1 DEF CurrentThere
    <3>3. CASE Len(r) > 0
      <4>1. s[1] = r[1]
        BY <2>3, <3>3
      <4>2. PICK p, c : p = Top.path /\ c = <<i, r[1]>>
        OBVIOUS
      <4>3. WasThere(p, n, c)
        BY <1>3, <2>1, <2>2, <2>3, <3>1, <3>3, <4>2 DEF CurrentThere
      <4>4. WasThere(p, n, c)'
        BY <1>1, <4>3
      <4>. QED  BY <2>4, <3>2, <4>1, <4>2, <4>4 DEF WasThere
    <3>4. CASE Len(r) = 0
      <4>1. s[1] = version[i]
        BY <2>3, <3>4
      <4>2. PICK p, c : p = Top.path /\ c = <<i, version[i]>>
        OBVIOUS
      <4>3. n \in DOMAIN Moment[p] /\ Moment[p][n] = c
        <5>1. n \in Existing(Top.expected.inode)
          BY <2>2, <3>2 DEF Existing, FileNames, Names, FileNodes, Absent
        <5>2. CASE Inner
          <6>1. entries["root"]["d"] = Top.expected.inode /\ Top.path = "d"
                /\ entries["root"]["d"] \in DirNodes
            BY <1>3, <2>4, <3>1, <5>2 DEF InnerRecorded, Base, StackInv, SubDirs, DirNodes
          <6>2. PICK x \in DirNodes : x = Top.expected.inode /\ x = entries["root"]["d"]
            BY <6>1
          <6>3. n \in FilesIn(x) /\ entries[x][n] = i
            BY <2>2, <3>2, <5>1, <6>2 DEF FilesIn
          <6>. QED  BY <4>2, <6>1, <6>2, <6>3, FilesNow DEF Paths
        <5>3. CASE ~Inner
          <6>1. Top.expected.inode = "root" /\ Top.path = "root"
            BY <2>4, <5>3, FrameFacts DEF Base, StackInv
          <6>. QED  BY <2>2, <3>2, <4>2, <5>1, <6>1, FilesNow DEF FilesIn, Paths, DirNodes
        <5>. QED  BY <5>2, <5>3
      <4>4. WasThere(p, n, c)
        BY <2>1, <4>3 DEF WasThere, TreeInv
      <4>5. WasThere(p, n, c)'
        BY <1>1, <4>4
      <4>. QED  BY <2>4, <3>2, <4>1, <4>2, <4>5 DEF WasThere
    <3>5. Len(r) \in Nat
      OBVIOUS
    <3>. QED  BY <3>3, <3>4, <3>5
  <2>. QED  BY ZenonT(40), <1>1, <1>3, <1>6, <1>7, <2>1, <2>4, <2>5, <2>6
            DEF RootRecorded, InnerRecorded, Recorded, Stays
<1>15. CASE Close
  <2>1. PICK p \in Paths, n \in FileNames : p = Top.path /\ n = now.name
    BY <1>15, CloseFacts
  <2>2. PICK i \in FileNodes, v \in Nat : i = now.opened.inode /\ v = now.read[1]
    BY <1>2, <1>4, <1>5, <1>15, ReadWhole
  <2>3. PICK r :
        /\ now.at = "read" /\ now'.at = "next" /\ Len(now.read) > 0 /\ r = records'
        /\ DOMAIN r[p] = DOMAIN records[p] \cup {n}
        /\ r[p][n] = <<i, v>>
        /\ \A m \in DOMAIN records[p] : m # n => r[p][m] = records[p][m]
        /\ \A q \in Paths : q # p => r[q] = records[q]
        /\ UNCHANGED stack
    <3>1. WasRead = <<i, v>>
      BY <1>2, <1>4, <1>5, <1>15, <2>2, ReadWhole
    <3>2. Reader.passes \in {1, 2}
      BY ReaderTable DEF Reader, TreeInv, Kinds
    <3>3. Len(now.read) = 2 * Reader.passes
      BY <1>15, CloseFacts
    <3>4. Len(now.read) > 0
      BY <3>2, <3>3
    <3>. QED  BY <1>15, <2>1, <3>1, <3>4, CloseFacts
  <2>4. /\ Root' = Root /\ Top' = Top /\ (Inner' <=> Inner) /\ Current = {n} /\ Current' = {}
        /\ now.at \in Looked /\ Top.listed
    BY <2>1, <2>3 DEF Root, Top, Inner, Current, InFile, Looked, Base, NowInv
  <2>5. (~Inner <=> p = "root") /\ (Inner <=> p = "d") /\ (~Inner => Top = Root)
    BY <2>1, <2>4, FrameFacts DEF Base, StackInv, Paths
  <2>6. NothingYet'
    <3>1. ~Inner => records'["d"] = records["d"]
      BY <2>3, <2>5 DEF Paths
    <3>. QED  BY <1>3, <2>3, <2>4, <3>1 DEF NothingYet, Looked
  <2>7. CurrentThere'
    BY <2>3 DEF CurrentThere
  <2>8. Stays(Root) /\ Stays(Top) =>
          /\ entries[Top.expected.inode][n] = i
          /\ WasThere(p, n, <<i, v>>)
    BY <1>3, <2>1, <2>2, <2>3 DEF CurrentThere
  <2>9. ASSUME Stays(Root), Stays(Top), Recorded(Top, Current)
        PROVE  Recorded(Top, Current)'
    <3>1. PICK x, todo : x = Top.expected.inode /\ todo = Top.todo
      OBVIOUS
    <3>2. /\ FilesIn(x) = DOMAIN records[p] \cup (todo \cap FileNames) \cup {n}
          /\ \A m \in DOMAIN records[p] : /\ WasThere(p, m, records[p][m])
                                          /\ entries[x][m] = records[p][m][1]
      BY <2>1, <2>4, <2>9, <3>1 DEF Recorded
    <3>3. FilesIn(x)' = DOMAIN r[p] \cup (todo \cap FileNames) \cup {}
      BY <1>1, <2>3, <3>2 DEF FilesIn, Existing
    <3>4. \A c : <<i, c>>[1] = i
      OBVIOUS
    <3>5. \A m \in DOMAIN r[p] : /\ WasThere(p, m, r[p][m])
                                        /\ entries[x][m] = r[p][m][1]
      BY <2>3, <2>8, <2>9, <3>1, <3>2, <3>4
    <3>6. \A m \in DOMAIN r[p] : WasThere(p, m, r[p][m])'
      BY <1>1, <3>5
    <3>. QED  BY <1>1, <2>1, <2>3, <2>4, <3>1, <3>3, <3>5, <3>6 DEF Recorded
  <2>10. RootRecorded'
    <3>1. SUFFICES ASSUME Stays(Root)
                   PROVE  Recorded(Root, IF Inner THEN {} ELSE Current)'
      BY <1>1, <2>4 DEF RootRecorded, Stays
    <3>2. CASE Inner
      <4>1. PICK t : t = Root
        OBVIOUS
      <4>2. Recorded(t, {}) /\ t.path = "root" /\ records'["root"] = records["root"]
        BY <1>3, <2>3, <2>4, <2>5, <3>1, <3>2, <4>1 DEF RootRecorded, Base, StackInv, Paths
      <4>3. Recorded(t, {})'
        BY <1>1, <4>2 DEF Recorded, FilesIn, Existing
      <4>. QED  BY <2>4, <3>2, <4>1, <4>3 DEF Recorded
    <3>3. CASE ~Inner
      <4>1. Recorded(Top, Current)
        BY <1>3, <2>4, <2>5, <3>1, <3>3 DEF RootRecorded
      <4>2. Recorded(Top, Current)'
        BY <2>5, <2>9, <3>1, <3>3, <4>1
      <4>. QED  BY <2>4, <2>5, <3>3, <4>2 DEF Recorded
    <3>. QED  BY <3>2, <3>3
  <2>11. InnerRecorded'
    <3>1. SUFFICES ASSUME Stays(Root)
                   PROVE  /\ Inner => entries["root"]["d"] = Top.expected.inode
                          /\ Inner /\ Stays(Top) => Recorded(Top, Current)'
                          /\ ~Inner => SubRecorded'
      BY <1>1, <2>4 DEF InnerRecorded, Stays
    <3>2. ~Inner => SubRecorded'
      <4>1. SUFFICES ASSUME ~Inner PROVE SubRecorded'
        OBVIOUS
      <4>2. SubRecorded /\ records'["d"] = records["d"]
        BY <1>3, <2>3, <2>4, <2>5, <3>1, <4>1 DEF InnerRecorded, Paths
      <4>. QED  BY <1>1, <4>2, StepFacts DEF SubRecorded, SubAtOnce
    <3>. QED  BY <1>3, <2>4, <2>9, <3>1, <3>2 DEF InnerRecorded
  <2>. QED  BY <2>6, <2>7, <2>10, <2>11
<1>16. CASE Leave
  <2>1. /\ now.at = "next" /\ Top.listed /\ Top.todo = {} /\ Undisturbed
        /\ LeavesInner
    <3>1. ~BeginsRound /\ ~Ends
      BY <1>4 DEF BeginsRound, Ends, Going
    <3>. QED  BY <1>16, <3>1, LeaveFacts DEF Going
  <2>2. /\ Inner /\ ~Inner' /\ Top' = Root /\ Root' = Root /\ UNCHANGED <<now, records>>
        /\ now.at \in Looked /\ Current = {} /\ Current' = {}
    BY <2>1 DEF LeavesInner, Looked, Current, InFile
  <2>3. /\ Stays(Top) /\ entries["root"]["d"] = Top.expected.inode /\ Top.path = "d"
        /\ Top.expected.inode \in SubDirs
    <3>1. DirStatus(Top.expected.inode) = Top.expected /\ Top.path = "d"
          /\ Top.expected.inode \in SubDirs
      BY <1>5, <2>1, <2>2 DEF Undisturbed, Base, StackInv
    <3>. QED  BY <1>5, <2>1, <3>1 DEF Undisturbed, DirStatus, Stays
  <2>4. NothingYet'
    BY <2>1, <2>2 DEF NothingYet, Base, StackInv
  <2>5. CurrentThere'
    BY <2>1, <2>2 DEF CurrentThere
  <2>6. RootRecorded'
    <3>1. PICK t : t = Root
      OBVIOUS
    <3>2. Stays(Root) => Recorded(t, {})
      BY <1>3, <2>2, <3>1 DEF RootRecorded
    <3>3. Stays(Root) => Recorded(t, {})'
      BY <1>6, <2>2, <3>2
    <3>. QED  BY <1>1, <2>2, <3>1, <3>3 DEF RootRecorded, Recorded, Stays
  <2>7. InnerRecorded'
    <3>1. SUFFICES ASSUME Stays(Root) PROVE SubRecorded'
      BY <1>1, <2>2 DEF InnerRecorded, Stays
    <3>2. Recorded(Top, {})
      BY <1>3, <2>2, <2>3, <3>1 DEF InnerRecorded
    <3>3. \A n \in DOMAIN records["d"] : WasThere("d", n, records["d"][n])
      BY <2>3, <3>2 DEF Recorded
    <3>4. AllZero => SubAtOnce
      <4>1. SUFFICES ASSUME AllZero PROVE SubAtOnce
        OBVIOUS
      <4>2. FilesOf(Moment["d"]) = records["d"]
        BY <2>1, <2>2, <2>3, <3>2, <4>1, AtOnce, FrameFacts DEF Base
      <4>3. Moment \in moments
        BY <1>16 DEF Leave, At, TreeInv
      <4>. QED  BY <4>2, <4>3 DEF SubAtOnce
    <3>5. SubRecorded
      BY <3>3, <3>4 DEF SubRecorded
    <3>. QED  BY <1>7, <2>2, <3>5
  <2>. QED  BY <2>4, <2>5, <2>6, <2>7
<1>17. CASE Begin \/ Enumerate
  <2>1. now.at \notin Looked /\ now'.at \notin Looked
    <3>1. CASE Begin
      BY <3>1 DEF Begin, Looked
    <3>2. CASE Enumerate
      <4>1. now.at = "enumerate" /\ now'.at \in {"enumerate", "root"}
        BY <3>2 DEF Enumerate, At, Base, NowInv
      <4>. QED  BY <4>1 DEF Looked
    <3>. QED  BY <1>17, <3>1, <3>2
  <2>. QED  BY <1>8, <2>1
<1>. QED  BY <1>9, <1>10, <1>11, <1>12, <1>13, <1>14, <1>15, <1>16, <1>17 DEF Step

-----------------------------------------------------------------------------
(* What two surveys of a tree note, and when it says what the tree is.      *)
Surveys ==
  kind.reader \in Surveying /\ kind.shows /\ (kind.returns => kind.reader = "package")

TimeIn(T, V, i) == IF i \in DirNodes THEN T[i] ELSE V[i]
IsNote(e) ==
  /\ e.path \in Paths /\ e.name \in Names \cup {"."}
  /\ e.status.time \in Nat /\ e.status.inode \in DirNodes \cup FileNodes
  /\ e.status.time <= TimeIn(touched, version, e.status.inode)
  /\ e.name = "." => e.path = "root" /\ e.status.inode = "root"
  /\ e.name = "d" => e.path = "root" /\ e.status.inode \in SubDirs
  /\ e.name \in FileNames => e.status.inode \in FileNodes
Has(N, p, n) == \E e \in N : e.path = p /\ e.name = n

(* A note of an entry comes with one of its directory.                      *)
Rooted(N) ==
  /\ N # {} => Has(N, "root", ".")
  /\ \A e \in N : e.path = "d" => Has(N, "root", "d")

(* No status that is noted has changed; and then the notes agree with what  *)
(* the tree is.                                                             *)
Steady(N, T, V) == \A e \in N : e.status.time = TimeIn(T, V, e.status.inode)
NoteAgrees(e, m) ==
  /\ e.name = "d" => "d" \in DOMAIN m.root /\ m.root["d"] = <<e.status.inode>>
  /\ e.name \in FileNames =>
       /\ e.name \in DOMAIN m[e.path]
       /\ m[e.path][e.name] = <<e.status.inode, e.status.time>>
       /\ kind.reader = "sealed" => e.read = <<e.status.inode, e.status.time>>
NotesAgree(N, m) == \A e \in N : NoteAgrees(e, m)
Says(N) == Steady(N, touched, version) => NotesAgree(N, Moment)

LEMMA SteadyBefore ==
  ASSUME TreeInv, TreeInv', Grows, NEW N, \A e \in N : IsNote(e), Steady(N, touched', version')
  PROVE  /\ Steady(N, touched, version)
         /\ \A e \in N : /\ e.status.inode \in FileNodes =>
                              version'[e.status.inode] = version[e.status.inode]
                         /\ e.status.inode \in DirNodes =>
                              entries'[e.status.inode] = entries[e.status.inode]
         /\ Has(N, "root", ".") => entries'["root"] = entries["root"]
<1>1. ASSUME NEW e \in N
      PROVE  /\ e.status.time = TimeIn(touched, version, e.status.inode)
             /\ e.status.inode \in FileNodes => version'[e.status.inode] = version[e.status.inode]
             /\ e.status.inode \in DirNodes => entries'[e.status.inode] = entries[e.status.inode]
  <2>1. PICK i \in DirNodes \cup FileNodes, t \in Nat :
          /\ i = e.status.inode /\ t = e.status.time
          /\ t <= TimeIn(touched, version, i)
          /\ t = TimeIn(touched', version', i)
    BY DEF IsNote, Steady
  <2>2. CASE i \in DirNodes
    <3>1. touched[i] \in Nat /\ touched'[i] \in Nat /\ touched[i] <= touched'[i]
      BY <2>2 DEF TreeInv, Grows
    <3>2. touched[i] = t /\ touched'[i] = touched[i]
      BY <2>1, <2>2, <3>1 DEF TimeIn
    <3>3. i \notin FileNodes
      BY <2>2 DEF DirNodes, FileNodes
    <3>. QED  BY <2>1, <2>2, <3>2, <3>3 DEF TimeIn, Grows
  <2>3. CASE i \in FileNodes
    <3>1. version[i] \in Nat /\ version'[i] \in Nat /\ version[i] <= version'[i]
      BY <2>3 DEF TreeInv, Grows
    <3>2. i \notin DirNodes
      BY <2>3 DEF DirNodes, FileNodes
    <3>3. version[i] = t /\ version'[i] = t
      BY <2>1, <3>1, <3>2 DEF TimeIn
    <3>. QED  BY <2>1, <3>2, <3>3 DEF TimeIn
  <2>. QED  BY <2>1, <2>2, <2>3
<1>2. Has(N, "root", ".") => entries'["root"] = entries["root"]
  <2>1. SUFFICES ASSUME NEW e \in N, e.name = "." PROVE entries'["root"] = entries["root"]
    BY DEF Has
  <2>2. e.status.inode = "root" /\ "root" \in DirNodes
    BY <2>1 DEF IsNote, DirNodes
  <2>. QED  BY <1>1, <2>2
<1>. QED  BY <1>1, <1>2 DEF Steady

(* The names of a directory, and what they are, do not change while the     *)
(* notes are steady.                                                        *)
LEMMA SteadyTree ==
  ASSUME TreeInv, TreeInv', Grows, NEW N, \A e \in N : IsNote(e), Has(N, "root", "."),
         Says(N), Steady(N, touched', version')
  PROVE  /\ entries'["root"] = entries["root"]
         /\ DOMAIN Moment.root' = DOMAIN Moment.root
         /\ \A n \in DOMAIN Moment.root : Moment.root'[n][1] = Moment.root[n][1]
         /\ "d" \in DOMAIN Moment.root => Moment.root'["d"] = Moment.root["d"]
         /\ Has(N, "root", "d") =>
              /\ entries["root"]["d"] \in SubDirs
              /\ entries'[entries["root"]["d"]] = entries[entries["root"]["d"]]
              /\ DOMAIN Moment.d' = DOMAIN Moment.d
              /\ \A n \in DOMAIN Moment.d : Moment.d'[n][1] = Moment.d[n][1]
<1>1. entries'["root"] = entries["root"] /\ Steady(N, touched, version) /\ NotesAgree(N, Moment)
  BY SteadyBefore DEF Says
<1>2. PICK a, b : a = Moment /\ b = Moment'
  OBVIOUS
<1>3. /\ DOMAIN a.root = Existing("root")
      /\ \A n \in Existing("root") :
           a.root[n] = IF entries["root"][n] \in FileNodes
                       THEN <<entries["root"][n], version[entries["root"][n]]>>
                       ELSE <<entries["root"][n]>>
  BY <1>2, MomentFacts DEF MomentIs
<1>4. /\ DOMAIN b.root = Existing("root")'
      /\ \A n \in Existing("root")' :
           b.root[n] = IF entries'["root"][n] \in FileNodes
                       THEN <<entries'["root"][n], version'[entries'["root"][n]]>>
                       ELSE <<entries'["root"][n]>>
  BY <1>2, MomentNext DEF MomentIs
<1>5. Existing("root")' = Existing("root")
  BY <1>1 DEF Existing
<1>6. \A i, v : <<i, v>>[1] = i /\ <<i>>[1] = i
  OBVIOUS
<1>7. ASSUME NEW n \in Existing("root")
      PROVE  b.root[n][1] = a.root[n][1] /\ (n = "d" => b.root[n] = a.root[n])
  <2>1. PICK i, v, w : i = entries["root"][n] /\ v = version[i] /\ w = version'[i]
    OBVIOUS
  <2>2. /\ a.root[n] = IF i \in FileNodes THEN <<i, v>> ELSE <<i>>
        /\ b.root[n] = IF i \in FileNodes THEN <<i, w>> ELSE <<i>>
    BY <1>1, <1>3, <1>4, <1>5, <1>7, <2>1
  <2>3. n = "d" => i \notin FileNodes
    BY <2>1 DEF TreeInv, DirNodes, SubDirs, FileNodes, Absent
  <2>4. <<i, v>>[1] = i /\ <<i, w>>[1] = i /\ <<i>>[1] = i
    OBVIOUS
  <2>. QED  BY <2>2, <2>3, <2>4
<1>8. ASSUME Has(N, "root", "d")
      PROVE  /\ entries["root"]["d"] \in SubDirs
             /\ entries'[entries["root"]["d"]] = entries[entries["root"]["d"]]
             /\ DOMAIN b.d = DOMAIN a.d
             /\ \A n \in DOMAIN a.d : b.d[n][1] = a.d[n][1]
  <2>1. PICK e \in N : e.path = "root" /\ e.name = "d"
    BY <1>8 DEF Has
  <2>2. PICK x \in SubDirs : x = e.status.inode
    BY <2>1 DEF IsNote
  <2>3. "d" \in Existing("root") /\ a.root["d"] = <<x>>
    BY <1>1, <1>2, <1>3, <2>1, <2>2 DEF NotesAgree, NoteAgrees
  <2>4. entries["root"]["d"] = x
    <3>1. PICK y : y = entries["root"]["d"]
      OBVIOUS
    <3>2. y \in SubDirs
      BY <2>3, <3>1 DEF Existing, TreeInv, DirNodes
    <3>3. a.root["d"] = <<y>>
      BY <1>3, <2>3, <3>1, <3>2 DEF SubDirs, FileNodes
    <3>4. <<x>>[1] = x /\ <<y>>[1] = y
      OBVIOUS
    <3>. QED  BY <2>3, <3>1, <3>3, <3>4
  <2>5. entries'[x] = entries[x] /\ x \in DirNodes
    BY <2>2, SteadyBefore DEF SubDirs, DirNodes
  <2>6. entries'["root"]["d"] = x /\ Existing(x)' = Existing(x)
    BY <1>1, <2>4, <2>5 DEF Existing
  <2>7. /\ DOMAIN a.d = Existing(x)
        /\ \A n \in Existing(x) : a.d[n] = IF entries[x][n] \in FileNodes
                                          THEN <<entries[x][n], version[entries[x][n]]>>
                                          ELSE <<entries[x][n]>>
    BY <1>2, <2>4, <2>5, MomentFacts DEF MomentIs
  <2>8. /\ DOMAIN b.d = Existing(x)'
        /\ \A n \in Existing(x)' : b.d[n] = IF entries'[x][n] \in FileNodes
                                          THEN <<entries'[x][n], version'[entries'[x][n]]>>
                                          ELSE <<entries'[x][n]>>
    BY <1>2, <2>5, <2>6, MomentNext DEF MomentIs
  <2>9. ASSUME NEW n \in Existing(x) PROVE b.d[n][1] = a.d[n][1]
    <3>1. PICK i, v, w : i = entries[x][n] /\ v = version[i] /\ w = version'[i]
      OBVIOUS
    <3>2. /\ a.d[n] = IF i \in FileNodes THEN <<i, v>> ELSE <<i>>
          /\ b.d[n] = IF i \in FileNodes THEN <<i, w>> ELSE <<i>>
      BY <2>5, <2>6, <2>7, <2>8, <2>9, <3>1
    <3>3. <<i, v>>[1] = i /\ <<i, w>>[1] = i /\ <<i>>[1] = i
      OBVIOUS
    <3>. QED  BY <3>2, <3>3
  <2>. QED  BY <2>2, <2>4, <2>5, <2>6, <2>7, <2>8, <2>9
<1>. QED  BY <1>1, <1>2, <1>3, <1>4, <1>5, <1>7, <1>8

FilesAre ==
  \A p \in Paths : \A x \in DirNodes :
    x = Directory(p) =>
      /\ DOMAIN Moment[p] = Existing(x)
      /\ \A n \in FilesIn(x) : /\ Moment[p][n] = <<entries[x][n], version[entries[x][n]]>>
                               /\ entries[x][n] \in FileNodes

LEMMA FilesHere == TreeInv => FilesAre
BY FilesNow DEF FilesAre, Directory

LEMMA FilesNext == TreeInv' => FilesAre'
BY FilesHere, PTL

LEMMA SteadyPath ==
  ASSUME TreeInv, TreeInv', Grows, NEW N, \A e \in N : IsNote(e), Has(N, "root", "."),
         Says(N), Steady(N, touched', version'),
         NEW p \in Paths, p = "root" \/ Has(N, "root", "d")
  PROVE  \E x \in DirNodes : /\ Directory(p) = x /\ Directory(p)' = x
                             /\ entries'[x] = entries[x]
BY SteadyTree DEF Directory, Paths, SubDirs, DirNodes

LEMMA SaysGrows ==
  ASSUME TreeInv, TreeInv', Grows, NEW N, \A e \in N : IsNote(e), Rooted(N), Says(N),
         kind' = kind
  PROVE  Says(N)'
<1>1. SUFFICES ASSUME Steady(N, touched', version'), NEW e \in N
               PROVE  NoteAgrees(e, Moment)'
  BY DEF Says, NotesAgree
<1>2. Has(N, "root", ".")
  BY DEF Rooted
<1>3. Steady(N, touched, version) /\ NoteAgrees(e, Moment)
  BY <1>1, SteadyBefore DEF Says, NotesAgree
<1>4. PICK a, b : a = Moment /\ b = Moment'
  OBVIOUS
<1>5. e.name = "d" => "d" \in DOMAIN b.root /\ b.root["d"] = <<e.status.inode>>
  BY <1>1, <1>2, <1>3, <1>4, SteadyTree DEF NoteAgrees
<1>6. ASSUME e.name \in FileNames
      PROVE  e.name \in DOMAIN b[e.path] /\ b[e.path][e.name] = <<e.status.inode, e.status.time>>
  <2>1. PICK p \in Paths, n \in FileNames, i \in FileNodes, t \in Nat :
          p = e.path /\ n = e.name /\ i = e.status.inode /\ t = e.status.time
    BY <1>6 DEF IsNote
  <2>2. p = "root" \/ Has(N, "root", "d")
    BY <2>1 DEF Rooted, Paths
  <2>3. PICK x \in DirNodes : /\ Directory(p) = x /\ Directory(p)' = x
                              /\ entries'[x] = entries[x]
    BY <1>1, <1>2, <2>2, SteadyPath
  <2>4. n \in DOMAIN a[p] /\ a[p][n] = <<i, t>>
    BY <1>3, <1>4, <1>6, <2>1 DEF NoteAgrees
  <2>5. n \in FilesIn(x) /\ a[p][n] = <<entries[x][n], version[entries[x][n]]>>
    BY <1>4, <2>3, <2>4, FilesHere DEF FilesAre, FilesIn
  <2>6. n \in FilesIn(x)' /\ b[p][n] = <<entries'[x][n], version'[entries'[x][n]]>>
        /\ n \in DOMAIN b[p]
    <3>1. FilesIn(x)' = FilesIn(x)
      BY <2>3 DEF FilesIn, Existing
    <3>. QED  BY <1>4, <2>3, <2>5, <3>1, FilesNext DEF FilesAre, FilesIn
  <2>7. entries[x][n] = i /\ version[i] = t
    <3>1. PICK j : j = entries[x][n]
      OBVIOUS
    <3>2. PICK v : v = version[j]
      OBVIOUS
    <3>3. <<j, v>> = <<i, t>>
      BY <2>4, <2>5, <3>1, <3>2
    <3>4. j = i /\ v = t
      BY <3>3
    <3>. QED  BY <3>1, <3>2, <3>4
  <2>8. version'[i] = version[i]
    BY <1>1, <2>1, SteadyBefore
  <2>. QED  BY <2>1, <2>3, <2>6, <2>7, <2>8
<1>7. e.name \in FileNames /\ kind.reader = "sealed" => e.read = <<e.status.inode, e.status.time>>
  BY <1>3 DEF NoteAgrees
<1>. QED  BY <1>4, <1>5, <1>6, <1>7 DEF NoteAgrees

LastRound == round = Len(Reader.rounds)

AreNotes == \A e \in noted \cup before : IsNote(e)
AreRooted == Rooted(noted) /\ Rooted(before)
TheySay == ~LastRound => Says(noted) /\ Says(before)
NotesWhen ==
  /\ round = 1 <=> before = {}
  /\ kind.reader = "package" /\ round = 2 => noted = {}
  /\ now.at \notin Looked => noted = {}
  /\ Compared /\ now.at \in Looked =>
       /\ Has(noted, "root", ".")
       /\ now.at = "enter" \/ Inner => Has(noted, "root", "d")

(* The file that is read is the one that is at its path, if nothing changes. *)
LookedSays ==
  ~LastRound /\ kind.reader = "sealed" /\ now.at \in InFile /\ Steady(noted, touched, version) =>
    /\ now.name \in DOMAIN Moment[Top.path]
    /\ Moment[Top.path][now.name][1] = now.looked.inode
    /\ now.at = "read" => now.opened.inode = now.looked.inode

NotesInv == Surveys => AreNotes /\ AreRooted /\ TheySay /\ NotesWhen /\ LookedSays

LEMMA NotesOthers ==
  ASSUME TreeInv, TreeInv', Base, NotesInv, Grows,
         UNCHANGED <<kind, rounds, stack, now, records, noted>>
  PROVE  NotesInv'
<1>1. /\ Root' = Root /\ (Inner' <=> Inner) /\ Top' = Top /\ (Surveys' <=> Surveys)
      /\ (Compared' <=> Compared) /\ (LastRound' <=> LastRound) /\ Reader' = Reader
      /\ UNCHANGED <<round, before, now, noted, kind>>
  BY DEF Root, Inner, Top, Surveys, rounds, Compared, LastRound, Does, Reader
<1>2. SUFFICES ASSUME Surveys
               PROVE  AreNotes' /\ AreRooted' /\ TheySay' /\ NotesWhen' /\ LookedSays'
  BY <1>1 DEF NotesInv
<1>3. AreNotes /\ AreRooted /\ TheySay /\ NotesWhen /\ LookedSays
  BY <1>2 DEF NotesInv
<1>4. AreNotes'
  <2>1. \A e : IsNote(e) => IsNote(e)'
    <3>1. SUFFICES ASSUME NEW e, IsNote(e) PROVE IsNote(e)'
      OBVIOUS
    <3>2. PICK i \in DirNodes \cup FileNodes, t \in Nat :
            i = e.status.inode /\ t = e.status.time /\ t <= TimeIn(touched, version, i)
      BY <3>1 DEF IsNote
    <3>3. t <= TimeIn(touched', version', i)
      <4>1. CASE i \in DirNodes
        <5>1. touched[i] \in Nat /\ touched'[i] \in Nat /\ touched[i] <= touched'[i]
          BY <4>1 DEF TreeInv, Grows
        <5>. QED  BY <3>2, <4>1, <5>1 DEF TimeIn
      <4>2. CASE i \in FileNodes
        <5>1. version[i] \in Nat /\ version'[i] \in Nat /\ version[i] <= version'[i]
          BY <4>2 DEF TreeInv, Grows
        <5>2. i \notin DirNodes
          BY <4>2 DEF FileNodes, DirNodes
        <5>. QED  BY <3>2, <5>1, <5>2 DEF TimeIn
      <4>. QED  BY <4>1, <4>2
    <3>. QED  BY <3>1, <3>2, <3>3 DEF IsNote
  <2>. QED  BY <1>1, <1>3, <2>1 DEF AreNotes
<1>5. AreRooted' /\ NotesWhen'
  BY <1>1, <1>3 DEF AreRooted, NotesWhen, Rooted, Has
<1>6. TheySay'
  <2>1. SUFFICES ASSUME ~LastRound PROVE Says(noted)' /\ Says(before)'
    BY <1>1 DEF TheySay
  <2>2. PICK N, B : N = noted /\ B = before
    OBVIOUS
  <2>3. /\ \A e \in N \cup B : IsNote(e)
        /\ Rooted(N) /\ Rooted(B) /\ Says(N) /\ Says(B)
    BY <1>3, <2>1, <2>2 DEF AreNotes, AreRooted, TheySay
  <2>4. Says(N)' /\ Says(B)'
    BY <1>1, <2>3, SaysGrows
  <2>. QED  BY <1>1, <2>2, <2>4 DEF Says
<1>7. LookedSays'
  <2>1. SUFFICES ASSUME ~LastRound, kind.reader = "sealed", now.at \in InFile,
                        Steady(noted, touched', version')
                 PROVE  /\ now.name \in DOMAIN Moment[Top.path]'
                        /\ Moment[Top.path]'[now.name][1] = now.looked.inode
                        /\ now.at = "read" => now.opened.inode = now.looked.inode
    BY <1>1 DEF LookedSays
  <2>2. PICK N, p, n : N = noted /\ p = Top.path /\ n = now.name
    OBVIOUS
  <2>3. (\A e \in N : IsNote(e)) /\ Says(N)
    BY <1>3, <2>1, <2>2 DEF AreNotes, TheySay
  <2>4. Compared /\ now.at \in Looked
    BY <1>2, <2>1, RoundFacts DEF Surveys, TreeInv, Base, StackInv, InFile, Looked
  <2>5. p = "root" \/ (p = "d" /\ Inner)
    BY <2>2, <2>4, FrameFacts DEF Base, StackInv
  <2>6. Has(N, "root", ".") /\ (p = "d" => Has(N, "root", "d"))
    BY <1>3, <2>2, <2>4, <2>5 DEF NotesWhen
  <2>7. Steady(N, touched, version)
    BY <2>1, <2>2, <2>3, SteadyBefore
  <2>8. PICK a, b : a = Moment /\ b = Moment'
    OBVIOUS
  <2>9. /\ n \in DOMAIN a[p] /\ a[p][n][1] = now.looked.inode
        /\ now.at = "read" => now.opened.inode = now.looked.inode
    BY <1>3, <2>1, <2>2, <2>7, <2>8 DEF LookedSays
  <2>10. n \in DOMAIN b[p] /\ b[p][n][1] = a[p][n][1]
    BY <2>1, <2>2, <2>3, <2>5, <2>6, <2>8, <2>9, SteadyTree
  <2>. QED  BY <1>1, <2>2, <2>8, <2>9, <2>10
<1>. QED  BY <1>4, <1>5, <1>6, <1>7

LEMMA NotesKept ==
  ASSUME AreNotes, AreRooted, TheySay, Step, UNCHANGED <<noted, before, round>>
  PROVE  AreNotes' /\ AreRooted' /\ TheySay'
<1>1. UNCHANGED <<kind, entries, touched, version>> /\ Moment' = Moment /\ Reader' = Reader
  BY StepFacts
<1>2. AreNotes'
  BY <1>1 DEF AreNotes, IsNote
<1>3. AreRooted'
  BY DEF AreRooted, Rooted, Has
<1>4. TheySay'
  BY <1>1 DEF TheySay, LastRound, Says, NotesAgree, NoteAgrees
<1>. QED  BY <1>2, <1>3, <1>4

LEMMA NoteAdded ==
  ASSUME AreNotes, AreRooted, TheySay, Step, UNCHANGED <<before, round>>,
         NEW e, IsNote(e), noted' = noted \cup {e},
         Has(noted, "root", ".") \/ (e.path = "root" /\ e.name = "."),
         e.path = "d" => Has(noted, "root", "d"),
         ~LastRound /\ Steady(noted \cup {e}, touched, version) => NoteAgrees(e, Moment)
  PROVE  AreNotes' /\ AreRooted' /\ TheySay'
<1>1. UNCHANGED <<kind, entries, touched, version>> /\ Moment' = Moment /\ Reader' = Reader
  BY StepFacts
<1>2. AreNotes'
  BY <1>1 DEF AreNotes, IsNote
<1>3. AreRooted'
  <2>1. \A p, n : Has(noted, p, n) => Has(noted', p, n)
    BY DEF Has
  <2>2. Has(noted', "root", ".")
    BY <2>1 DEF Has
  <2>3. \A a \in noted' : a.path = "d" => Has(noted', "root", "d")
    BY <2>1 DEF AreRooted, Rooted
  <2>. QED  BY <2>2, <2>3 DEF AreRooted, Rooted
<1>4. TheySay'
  <2>1. SUFFICES ASSUME ~LastRound PROVE Says(noted)' /\ Says(before)'
    BY <1>1 DEF TheySay, LastRound
  <2>2. Says(noted) /\ Says(before)
    BY <2>1 DEF TheySay
  <2>3. Says(before)'
    BY <1>1, <2>2 DEF Says, NotesAgree, NoteAgrees
  <2>4. ASSUME Steady(noted', touched, version) PROVE NotesAgree(noted', Moment)
    <3>1. Steady(noted, touched, version)
      BY <2>4 DEF Steady
    <3>2. NotesAgree(noted, Moment) /\ NoteAgrees(e, Moment)
      BY <2>1, <2>2, <2>4, <3>1 DEF Says
    <3>. QED  BY <3>2 DEF NotesAgree
  <2>5. Says(noted)'
    BY <1>1, <2>4 DEF Says, NotesAgree, NoteAgrees
  <2>. QED  BY <2>3, <2>5
<1>. QED  BY <1>2, <1>3, <1>4

LEMMA SurveyFacts ==
  ASSUME Surveys, TreeInv, Base
  PROVE  /\ Reader.notes = "all" /\ Reader.byPath /\ ~Reader.leave /\ Reader.names = "entries"
         /\ Reader.passes = 1
         /\ Reader.after <=> kind.reader = "package"
         /\ "content" \notin Reader.known
         /\ kind.reader \in {"package", "sealed"} /\ kind.shows
         /\ kind.returns => kind.reader = "package"
         /\ Len(Reader.rounds) = IF kind.reader = "package" THEN 3 ELSE 2
         /\ round \in 1..Len(Reader.rounds)
         /\ Compared <=> kind.reader = "sealed" \/ round # 2
         /\ First <=> Compared
         /\ Does("read") <=> kind.reader = "sealed" \/ round = 2
         /\ Does("survey") <=> ~Does("read")
         /\ ~Does("list")
<1>1. /\ kind \in Kinds /\ kind.reader \in Surveying /\ round \in 1..Len(Reader.rounds)
      /\ kind.shows /\ (kind.returns => kind.reader = "package")
  BY DEF Surveys, TreeInv, Base, StackInv
<1>2. /\ Reader.notes = "all" /\ Reader.byPath /\ ~Reader.leave /\ Reader.names = "entries"
      /\ Reader.passes = 1
      /\ Reader.after <=> kind.reader = "package"
      /\ "content" \notin Reader.known
  BY <1>1, ReaderTable DEF Reader, Kinds, Surveying, Leaving, Knowing, Filing
<1>3. CASE kind.reader = "package"
  BY <1>1, <1>2, <1>3, RoundFacts
<1>4. CASE kind.reader = "sealed"
  BY <1>1, <1>2, <1>4, RoundFacts
<1>. QED  BY <1>1, <1>3, <1>4 DEF Surveying

LEMMA SealedRead ==
  ASSUME Surveys, TreeInv, Base, now.at = "read", Len(now.read) = 2, kind.reader = "sealed",
         now.opened.inode = now.looked.inode,
         now.looked.time = version[now.looked.inode]
  PROVE  WasRead = <<now.looked.inode, now.looked.time>>
<1>1. PICK i \in FileNodes, t \in Nat : i = now.looked.inode /\ t = now.looked.time
  BY DEF Base, NowInv, InFile
<1>2. PICK r \in Seq(Nat) : r = now.read /\ Len(r) = 2
  BY DEF Base, NowInv
<1>3. \A k \in 1..Len(now.read) : t <= now.read[k] /\ now.read[k] <= version[i]
  BY <1>1 DEF Base, NowInv
<1>4. \A k \in 1..Len(r) : t <= r[k] /\ r[k] <= t
  BY <1>1, <1>2, <1>3
<1>5. 1 \in 1..Len(r) /\ 2 \in 1..Len(r) /\ r[1] \in Nat /\ r[2] \in Nat
  <2>1. 1 \in 1..2 /\ 2 \in 1..2
    OBVIOUS
  <2>2. 1 \in 1..Len(r) /\ 2 \in 1..Len(r)
    BY <1>2, <2>1
  <2>. QED  BY <2>2, ElementOfSeq
<1>6. r[1] = t /\ r[2] = t
  BY <1>1, <1>4, <1>5
<1>. QED  BY <1>1, <1>2, <1>6 DEF WasRead

LEMMA NotesLook ==
  ASSUME Surveys, TreeInv, TreeInv', Base, Base', NotesInv, Look, Going', result = "running"
  PROVE  NotesInv'
<1>1. AreNotes /\ AreRooted /\ TheySay /\ NotesWhen /\ LookedSays
  BY DEF NotesInv
<1>2. PICK n \in Names, i \in FileNodes \cup SubDirs : Takes(n, i)
  BY LookFacts
<1>3. /\ n \in Top.todo /\ i = Entry(n) /\ now.at = "next" /\ Top.listed
      /\ Inner' <=> Inner
      /\ Top' = [Top EXCEPT !.todo = Top.todo \ {n}]
      /\ TakesDirectory(n, i) \/ TakesFile(n, i)
      /\ UNCHANGED <<kind, tree, records, rounds, result>>
  BY <1>2 DEF Takes
<1>4. /\ UNCHANGED <<kind, entries, touched, version, round, before>>
      /\ Reader' = Reader /\ Moment' = Moment /\ (Surveys' <=> Surveys)
      /\ (Compared' <=> Compared) /\ (LastRound' <=> LastRound)
      /\ Step
  BY <1>3, StepFacts DEF Step, rounds, tree, Surveys, Compared, LastRound, Does
<1>5. /\ now.at \in Looked /\ Top \in Frames /\ Top'.path = Top.path
      /\ Top.path \in Paths /\ (Top.path = "root" \/ Inner)
  BY <1>3, FrameFacts DEF Base, Looked, Frames, StackInv
<1>6. /\ Compared => Has(noted, "root", ".") /\ (Inner => Has(noted, "root", "d"))
      /\ Compared /\ Top.path = "d" => Has(noted, "root", "d")
  BY <1>1, <1>5 DEF NotesWhen
<1>7. i # Absent /\ ~(i \in FileNodes /\ i \in DirNodes)
  BY DEF FileNodes, SubDirs, Absent, DirNodes
<1>8. /\ Reader.notes = "all" /\ Reader.byPath /\ kind.shows
      /\ kind.reader = "package" /\ round = 2 => ~Compared
      /\ Does("survey") <=> ~Does("read")
      /\ kind.reader = "sealed" => Does("read")
  BY SurveyFacts
<1>9. CASE TakesDirectory(n, i)
  <2>1. /\ n = "d" /\ i \in SubDirs /\ ~Inner /\ now'.at = "enter"
        /\ noted' = Note(Top.path, n, DirStatus(i), <<>>)
    BY <1>8, <1>9 DEF TakesDirectory, NoteDirectory
  <2>2. LookedSays'
    BY <2>1 DEF LookedSays, InFile
  <2>3. CASE ~Compared
    <3>1. noted' = noted
      BY <2>1, <2>3 DEF Note
    <3>2. AreNotes' /\ AreRooted' /\ TheySay'
      BY <1>1, <1>4, <3>1, NotesKept
    <3>3. NotesWhen'
      BY <1>1, <1>4, <2>1, <2>3, <3>1 DEF NotesWhen, Looked
    <3>. QED  BY <2>2, <3>2, <3>3 DEF NotesInv
  <2>4. CASE Compared
    <3>1. PICK e : e = [path |-> Top.path, name |-> n, status |-> DirStatus(i), read |-> <<>>]
      OBVIOUS
    <3>2. noted' = noted \cup {e}
      BY <2>1, <2>4, <3>1 DEF Note
    <3>3. /\ e.path = "root" /\ e.name = "d" /\ e.status.inode = i /\ e.status.time = touched[i]
          /\ entries["root"]["d"] = i
      <4>1. Top.path = "root" /\ Entry(n) # Absent
        BY <1>3, <1>5, <1>7, <2>1, FrameFacts DEF Base, StackInv
      <4>2. Dir(Top) = "root"
        BY <4>1 DEF Dir
      <4>3. entries["root"]["d"] = i
        BY <1>3, <1>5, <2>1, <4>1, <4>2, EntryFacts DEF Base
      <4>. QED  BY <2>1, <3>1, <4>1, <4>3 DEF DirStatus
    <3>4. IsNote(e)
      <4>1. i \in DirNodes /\ touched[i] \in Nat
        BY <2>1 DEF SubDirs, DirNodes, TreeInv
      <4>. QED  BY <2>1, <3>3, <4>1 DEF IsNote, Paths, Names, FileNames, TimeIn
    <3>5. NoteAgrees(e, Moment)
      <4>1. "d" \in Existing("root")
        BY <1>7, <3>3 DEF Existing, Names
      <4>2. Moment.root["d"] = <<i>> /\ "d" \in DOMAIN Moment.root
        BY <1>7, <2>1, <3>3, <4>1, MomentFacts DEF MomentIs, SubDirs, FileNodes
      <4>. QED  BY <3>3, <4>2 DEF NoteAgrees, FileNames
    <3>6. AreNotes' /\ AreRooted' /\ TheySay'
      BY <1>1, <1>4, <1>6, <2>4, <3>2, <3>3, <3>4, <3>5, NoteAdded
    <3>7. NotesWhen'
      <4>1. Has(noted', "root", ".") /\ Has(noted', "root", "d")
        BY <1>6, <2>4, <3>2, <3>3 DEF Has
      <4>. QED  BY <1>1, <1>4, <1>8, <2>1, <2>4, <4>1 DEF NotesWhen, Looked
    <3>. QED  BY <2>2, <3>6, <3>7 DEF NotesInv
  <2>. QED  BY <2>3, <2>4
<1>10. CASE TakesFile(n, i)
  <2>1. /\ n \in FileNames /\ i \in FileNodes
        /\ now' = (IF Does("read") THEN [at |-> "open", name |-> n, looked |-> FileStatus(i)]
                   ELSE [at |-> "next"])
        /\ noted' = (IF Does("survey") THEN Note(Top.path, n, FileStatus(i), <<>>) ELSE noted)
    BY <1>10 DEF TakesFile
  <2>2. /\ n \in DOMAIN Moment[Top.path]
        /\ Moment[Top.path][n] = <<i, version[i]>>
    BY <1>3, <1>5, <1>8, <2>1, EntryIsThere DEF InPlace
  <2>3. CASE Does("read")
    <3>1. /\ now'.at = "open" /\ now'.name = n /\ now'.looked.inode = i /\ noted' = noted
      BY <1>8, <2>1, <2>3 DEF FileStatus
    <3>2. AreNotes' /\ AreRooted' /\ TheySay'
      BY <1>1, <1>4, <3>1, NotesKept
    <3>3. NotesWhen'
      BY <1>1, <1>3, <1>4, <1>5, <3>1 DEF NotesWhen, Looked
    <3>4. LookedSays'
      <4>1. <<i, version[i]>>[1] = i
        OBVIOUS
      <4>. QED  BY <1>4, <1>5, <2>2, <3>1, <4>1 DEF LookedSays
    <3>. QED  BY <3>2, <3>3, <3>4 DEF NotesInv
  <2>4. CASE Does("survey")
    <3>1. now'.at = "next" /\ noted' = Note(Top.path, n, FileStatus(i), <<>>)
      BY <1>8, <2>1, <2>4
    <3>2. LookedSays'
      BY <3>1 DEF LookedSays, InFile
    <3>3. Compared /\ kind.reader = "package"
      BY <2>4, SurveyFacts
    <3>4. PICK e : e = [path |-> Top.path, name |-> n, status |-> FileStatus(i), read |-> <<>>]
      OBVIOUS
    <3>5. noted' = noted \cup {e}
      BY <3>1, <3>3, <3>4 DEF Note
    <3>6. e.path = Top.path /\ e.name = n /\ e.status.inode = i /\ e.status.time = version[i]
      BY <1>8, <3>4 DEF FileStatus
    <3>7. IsNote(e)
      <4>1. i \notin DirNodes /\ version[i] \in Nat /\ n # "d" /\ n # "."
        BY <2>1 DEF FileNodes, DirNodes, TreeInv, FileNames
      <4>. QED  BY <1>5, <2>1, <3>6, <4>1 DEF IsNote, TimeIn
    <3>8. NoteAgrees(e, Moment)
      BY <2>1, <2>2, <3>3, <3>6 DEF NoteAgrees, FileNames
    <3>9. AreNotes' /\ AreRooted' /\ TheySay'
      BY <1>1, <1>4, <1>6, <3>3, <3>5, <3>6, <3>7, <3>8, NoteAdded
    <3>10. NotesWhen'
      <4>1. Has(noted', "root", ".") /\ (Inner => Has(noted', "root", "d"))
        BY <1>6, <3>3, <3>5 DEF Has
      <4>. QED  BY <1>1, <1>3, <1>4, <1>8, <3>1, <3>3, <4>1 DEF NotesWhen, Looked
    <3>. QED  BY <3>2, <3>9, <3>10 DEF NotesInv
  <2>. QED  BY <1>8, <2>3, <2>4
<1>. QED  BY <1>3, <1>9, <1>10

LEMMA NotesClose ==
  ASSUME Surveys, TreeInv, TreeInv', Base, Base', NotesInv, Close, Going', result = "running"
  PROVE  NotesInv'
<1>1. AreNotes /\ AreRooted /\ TheySay /\ NotesWhen /\ LookedSays
  BY DEF NotesInv
<1>2. /\ now.at = "read" /\ now.name \in FileNames /\ Len(now.read) = 2 * Reader.passes
      /\ Top.path \in Paths
      /\ noted' = (IF Reader.notes = "nothing" THEN noted
                   ELSE Note(Top.path, now.name,
                             IF Reader.after THEN now.opened ELSE now.looked, WasRead))
      /\ now' = [at |-> "next"]
      /\ UNCHANGED <<kind, tree, stack, rounds, result>>
  BY CloseFacts
<1>3. /\ UNCHANGED <<kind, entries, touched, version, round, before>>
      /\ Reader' = Reader /\ Moment' = Moment /\ (Surveys' <=> Surveys)
      /\ (Compared' <=> Compared) /\ (LastRound' <=> LastRound)
      /\ Step /\ Top' = Top /\ (Inner' <=> Inner) /\ now'.at = "next"
  BY <1>2, StepFacts DEF Step, rounds, tree, Surveys, Compared, LastRound, Does, Top, Inner
<1>4. now.at \in Looked /\ now.at \in InFile /\ (Top.path = "root" \/ Inner)
  BY <1>2, FrameFacts DEF Base, Looked, InFile, StackInv
<1>5. LookedSays'
  BY <1>3 DEF LookedSays, InFile
<1>6. CASE ~Compared
  <2>1. noted' = noted
    BY <1>2, <1>6 DEF Note
  <2>2. AreNotes' /\ AreRooted' /\ TheySay'
    BY <1>1, <1>3, <2>1, NotesKept
  <2>3. NotesWhen'
    BY <1>1, <1>3, <1>6, <2>1 DEF NotesWhen, Looked
  <2>. QED  BY <1>5, <2>2, <2>3 DEF NotesInv
<1>7. CASE Compared
  <2>1. kind.reader = "sealed" /\ ~Reader.after /\ Reader.notes = "all" /\ Reader.passes = 1
    <3>1. Does("read")
      BY <1>4 DEF Base, NowInv
    <3>. QED  BY <1>7, <3>1, SurveyFacts
  <2>2. PICK n \in FileNames, i \in FileNodes, t \in Nat :
          /\ n = now.name /\ i = now.looked.inode /\ t = now.looked.time /\ t <= version[i]
    BY <1>4 DEF Base, NowInv
  <2>3. PICK e : e = [path |-> Top.path, name |-> n, status |-> now.looked, read |-> WasRead]
    OBVIOUS
  <2>4. /\ noted' = noted \cup {e}
        /\ e.path = Top.path /\ e.name = n /\ e.status.inode = i /\ e.status.time = t
        /\ e.read = WasRead
    BY <1>2, <1>7, <2>1, <2>2, <2>3 DEF Note
  <2>5. i \notin DirNodes /\ version[i] \in Nat /\ n # "d" /\ n # "." /\ n \in Names
    BY <2>2 DEF FileNodes, DirNodes, TreeInv, FileNames, Names
  <2>6. IsNote(e)
    BY <1>2, <2>2, <2>4, <2>5 DEF IsNote, TimeIn
  <2>7. Has(noted, "root", ".") /\ (e.path = "d" => Has(noted, "root", "d"))
    BY <1>1, <1>4, <1>7, <2>4 DEF NotesWhen
  <2>8. ASSUME ~LastRound, Steady(noted \cup {e}, touched, version)
        PROVE  NoteAgrees(e, Moment)
    <3>1. Steady(noted, touched, version) /\ t = version[i]
      BY <2>4, <2>5, <2>8 DEF Steady, TimeIn
    <3>2. /\ n \in DOMAIN Moment[Top.path]
          /\ Moment[Top.path][n][1] = i
          /\ now.opened.inode = i
      BY <1>1, <1>2, <1>4, <2>1, <2>2, <2>8, <3>1 DEF LookedSays
    <3>3. WasRead = <<i, t>>
      BY <1>2, <2>1, <2>2, <3>1, <3>2, SealedRead
    <3>4. Moment[Top.path][n] = <<i, t>>
      <4>1. PICK p, x : p \in Paths /\ p = Top.path /\ x = Directory(p)
        BY <1>2
      <4>2. x \in DirNodes
        <5>1. ASSUME x \notin DirNodes PROVE FALSE
          <6>1. p = "d" /\ Moment.d = <<>>
            BY <4>1, <5>1, MomentFacts DEF MomentIs, Directory, Paths, DirNodes
          <6>2. DOMAIN Moment[p] = {}
            BY <6>1
          <6>. QED  BY <3>2, <4>1, <6>2
        <5>. QED  BY <5>1
      <4>3. n \in FilesIn(x) /\ Moment[p][n] = <<entries[x][n], version[entries[x][n]]>>
        BY <2>2, <3>2, <4>1, <4>2, FilesHere DEF FilesAre, FilesIn
      <4>4. PICK j, v : j = entries[x][n] /\ v = version[j]
        OBVIOUS
      <4>5. <<j, v>>[1] = j
        OBVIOUS
      <4>6. j = i
        BY <3>2, <4>1, <4>3, <4>4, <4>5
      <4>. QED  BY <3>1, <4>1, <4>3, <4>4, <4>6
    <3>. QED  BY <2>4, <2>5, <3>2, <3>3, <3>4 DEF NoteAgrees
  <2>9. AreNotes' /\ AreRooted' /\ TheySay'
    BY <1>1, <1>3, <2>4, <2>6, <2>7, <2>8, NoteAdded
  <2>10. NotesWhen'
    <3>1. Has(noted', "root", ".") /\ (Inner => Has(noted', "root", "d"))
      BY <1>1, <1>4, <1>7, <2>4 DEF Has, NotesWhen
    <3>. QED  BY <1>1, <1>3, <1>7, <2>1, <3>1 DEF NotesWhen, Looked
  <2>. QED  BY <1>5, <2>9, <2>10 DEF NotesInv
<1>. QED  BY <1>6, <1>7

LEMMA NotesSame ==
  ASSUME Surveys, TreeInv, TreeInv', Base, Base', NotesInv, Step, Going', result = "running",
         UNCHANGED <<noted, before, round>>,
         now'.at \notin Looked => now.at \notin Looked,
         now'.at \in Looked => now.at \in Looked,
         (now'.at = "enter" \/ Inner') => (now.at = "enter" \/ Inner),
         LookedSays'
  PROVE  NotesInv'
<1>1. AreNotes /\ AreRooted /\ TheySay /\ NotesWhen /\ LookedSays
  BY DEF NotesInv
<1>2. AreNotes' /\ AreRooted' /\ TheySay'
  BY <1>1, NotesKept
<1>3. (Compared' <=> Compared) /\ kind' = kind
  BY StepFacts DEF Compared, Does
<1>4. NotesWhen'
  BY <1>1, <1>3 DEF NotesWhen
<1>. QED  BY <1>2, <1>4 DEF NotesInv

LEMMA NotesEnter ==
  ASSUME Surveys, TreeInv, TreeInv', Base, Base', NotesInv, Enter, Going', result = "running"
  PROVE  NotesInv'
<1>1. /\ now.at = "enter" /\ now' = [at |-> "next"] /\ UNCHANGED <<noted, rounds>> /\ Step
  BY EnterFacts DEF Step
<1>2. LookedSays'
  BY <1>1 DEF LookedSays, InFile
<1>. QED  BY <1>1, <1>2, NotesSame DEF rounds, Looked

LEMMA NotesOpen ==
  ASSUME Surveys, TreeInv, TreeInv', Base, Base', NotesInv, Open, Going', result = "running"
  PROVE  NotesInv'
<1>1. /\ now.at = "open" /\ now.name \in FileNames
      /\ Entry(now.name) \in FileNodes /\ Entry(now.name) # Absent
      /\ now' = [at |-> "read", name |-> now.name, looked |-> now.looked,
                 opened |-> FileStatus(Entry(now.name)), read |-> <<>>]
      /\ UNCHANGED <<stack, noted, rounds>> /\ Step
  BY OpenFacts DEF Step
<1>2. /\ UNCHANGED <<kind, entries, touched, version, round, before>>
      /\ Moment' = Moment /\ Reader' = Reader
      /\ Top' = Top /\ (Inner' <=> Inner) /\ (LastRound' <=> LastRound)
  BY <1>1, StepFacts DEF rounds, LastRound, Top, Inner
<1>3. PICK n \in FileNames, i \in FileNodes : n = now.name /\ i = Entry(n)
  BY <1>1
<1>4. n \in DOMAIN Moment[Top.path] /\ Moment[Top.path][n] = <<i, version[i]>>
  BY <1>1, <1>3, SurveyFacts, EntryIsThere DEF InPlace, Looked
<1>5. now'.at = "read" /\ now'.name = n /\ now'.looked = now.looked /\ now'.opened.inode = i
  BY <1>1, <1>3 DEF FileStatus
<1>6. LookedSays'
  <2>1. SUFFICES ASSUME ~LastRound, kind.reader = "sealed", Steady(noted, touched, version)
                 PROVE  /\ n \in DOMAIN Moment[Top.path]
                        /\ Moment[Top.path][n][1] = now.looked.inode
                        /\ i = now.looked.inode
    BY <1>1, <1>2, <1>5 DEF LookedSays, Steady
  <2>2. Moment[Top.path][n][1] = now.looked.inode
    BY <1>1, <1>3, <2>1 DEF NotesInv, LookedSays, InFile
  <2>3. <<i, version[i]>>[1] = i
    OBVIOUS
  <2>. QED  BY <1>4, <2>2, <2>3
<1>. QED  BY <1>1, <1>2, <1>5, <1>6, NotesSame DEF Looked

LEMMA NotesRead ==
  ASSUME Surveys, TreeInv, TreeInv', Base, Base', NotesInv, Read, Going', result = "running"
  PROVE  NotesInv'
<1>1. /\ now.at = "read" /\ now'.at = "read" /\ now'.name = now.name
      /\ now'.looked = now.looked /\ now'.opened = now.opened
      /\ UNCHANGED <<stack, noted, rounds>> /\ Step
  BY ReadFacts DEF Step
<1>2. /\ UNCHANGED <<kind, entries, touched, version, round, before>>
      /\ Moment' = Moment /\ Reader' = Reader
      /\ Top' = Top /\ (Inner' <=> Inner) /\ (LastRound' <=> LastRound)
  BY <1>1, StepFacts DEF rounds, LastRound, Top, Inner
<1>3. LookedSays'
  BY <1>1, <1>2 DEF NotesInv, LookedSays, InFile
<1>. QED  BY <1>1, <1>2, <1>3, NotesSame DEF Looked

LEMMA NotesList ==
  ASSUME Surveys, TreeInv, TreeInv', Base, Base', NotesInv, List, Going', result = "running"
  PROVE  NotesInv'
<1>1. /\ now.at = "next" /\ UNCHANGED <<now, noted, rounds>> /\ Step /\ (Inner' <=> Inner)
  BY ListFacts DEF Step
<1>2. LookedSays'
  BY <1>1 DEF LookedSays, InFile
<1>. QED  BY <1>1, <1>2, NotesSame DEF rounds, Looked

LEMMA NotesLeave ==
  ASSUME Surveys, TreeInv, TreeInv', Base, Base', NotesInv, Leave, Going', result = "running"
  PROVE  NotesInv'
<1>1. /\ now.at = "next" /\ UNCHANGED <<kind, tree>> /\ Step
      /\ LeavesInner \/ BeginsRound
  BY LeaveFacts DEF Step, Going, Ends
<1>2. AreNotes /\ AreRooted /\ TheySay /\ NotesWhen
  BY DEF NotesInv
<1>3. /\ UNCHANGED <<kind, entries, touched, version>> /\ Moment' = Moment /\ Reader' = Reader
      /\ Surveys' <=> Surveys
  BY StepFacts, <1>1 DEF Surveys
<1>4. LookedSays'
  <2>1. now'.at \notin InFile
    BY <1>1 DEF InFile, LeavesInner, BeginsRound
  <2>. QED  BY <2>1 DEF LookedSays
<1>5. CASE LeavesInner
  <2>1. UNCHANGED <<now, noted, round, before>> /\ Inner
    BY <1>5 DEF LeavesInner, rounds
  <2>. QED  BY <1>1, <1>4, <2>1, NotesSame
<1>6. CASE BeginsRound
  <2>1. /\ round # Len(Reader.rounds) /\ round' = round + 1 /\ now'.at = "begin"
        /\ before' = (IF Compared THEN noted ELSE before) /\ noted' = {}
    BY <1>6 DEF BeginsRound
  <2>2. /\ round \in Nat /\ round >= 1 /\ (kind.reader = "package" => round \in {1, 2})
        /\ ~LastRound /\ (~Compared => round # 1)
    BY <2>1, SurveyFacts DEF LastRound
  <2>3. before' \subseteq noted \cup before /\ Rooted(before') /\ Says(before')
    BY <1>2, <2>1, <2>2 DEF AreRooted, TheySay
  <2>4. before' # {}
    <3>1. Compared => noted # {}
      BY <1>1, <1>2 DEF NotesWhen, Looked, Has
    <3>. QED  BY <1>2, <2>1, <2>2, <3>1 DEF NotesWhen
  <2>5. AreNotes'
    <3>1. \A e \in before' : IsNote(e)
      BY <1>2, <2>3 DEF AreNotes
    <3>. QED  BY <1>3, <2>1, <3>1 DEF AreNotes, IsNote
  <2>6. AreRooted'
    BY <2>1, <2>3 DEF AreRooted, Rooted, Has
  <2>7. TheySay'
    <3>1. Says(noted)'
      BY <2>1 DEF Says, NotesAgree
    <3>2. Says(before)'
      BY <1>3, <2>3 DEF Says, NotesAgree, NoteAgrees
    <3>. QED  BY <3>1, <3>2 DEF TheySay
  <2>8. NotesWhen'
    BY <2>1, <2>2, <2>4 DEF NotesWhen, Looked
  <2>. QED  BY <1>4, <2>5, <2>6, <2>7, <2>8 DEF NotesInv
<1>. QED  BY <1>1, <1>5, <1>6

LEMMA NotesLookAtRoot ==
  ASSUME Surveys, TreeInv, TreeInv', Base, Base', NotesInv, LookAtRoot, Going',
         result = "running"
  PROVE  NotesInv'
<1>1. /\ now.at = "root" /\ now' = [at |-> "next"] /\ ~Inner'
      /\ NoteDirectory("root", ".", "root") /\ UNCHANGED <<kind, tree, rounds>> /\ Step
  BY RootFacts DEF Step
<1>2. AreNotes /\ AreRooted /\ TheySay /\ NotesWhen /\ noted = {}
  BY <1>1 DEF NotesInv, NotesWhen, Looked
<1>3. /\ UNCHANGED <<kind, entries, touched, version, round, before>>
      /\ Reader' = Reader /\ (Compared' <=> Compared)
  BY <1>1, StepFacts DEF rounds, tree, Compared, Does
<1>4. LookedSays'
  BY <1>1 DEF LookedSays, InFile
<1>5. /\ Reader.notes = "all" /\ (kind.reader = "package" /\ round = 2 => ~Compared)
  BY SurveyFacts
<1>6. CASE ~Compared
  <2>1. noted' = noted
    BY <1>1, <1>5, <1>6 DEF NoteDirectory, Note
  <2>2. AreNotes' /\ AreRooted' /\ TheySay'
    BY <1>1, <1>2, <1>3, <2>1, NotesKept
  <2>3. NotesWhen'
    BY <1>1, <1>2, <1>3, <1>6, <2>1 DEF NotesWhen, Looked
  <2>. QED  BY <1>4, <2>2, <2>3 DEF NotesInv
<1>7. CASE Compared
  <2>1. PICK e : e = [path |-> "root", name |-> ".", status |-> DirStatus("root"), read |-> <<>>]
    OBVIOUS
  <2>2. noted' = noted \cup {e}
    BY <1>1, <1>5, <1>7, <2>1 DEF NoteDirectory, Note
  <2>3. /\ e.path = "root" /\ e.name = "." /\ e.status.inode = "root"
        /\ e.status.time = touched["root"]
    BY <2>1 DEF DirStatus
  <2>4. IsNote(e)
    <3>1. "root" \in DirNodes /\ touched["root"] \in Nat
      BY DEF DirNodes, TreeInv
    <3>. QED  BY <2>3, <3>1 DEF IsNote, Paths, FileNames, TimeIn
  <2>5. NoteAgrees(e, Moment)
    BY <2>3 DEF NoteAgrees, FileNames
  <2>6. AreNotes' /\ AreRooted' /\ TheySay'
    BY <1>1, <1>2, <1>3, <2>2, <2>3, <2>4, <2>5, NoteAdded
  <2>7. NotesWhen'
    <3>1. Has(noted', "root", ".")
      BY <2>2, <2>3 DEF Has
    <3>. QED  BY <1>1, <1>2, <1>3, <1>5, <1>7, <3>1 DEF NotesWhen, Looked
  <2>. QED  BY <1>4, <2>6, <2>7 DEF NotesInv
<1>. QED  BY <1>6, <1>7

LEMMA NotesBegin ==
  ASSUME Surveys, TreeInv, TreeInv', Base, Base', NotesInv, Begin \/ Enumerate, Going'
  PROVE  NotesInv'
<1>1. /\ now.at \notin Looked /\ now'.at \notin Looked /\ noted' = noted /\ Step
      /\ UNCHANGED <<round, before>> /\ kind' = kind
  <2>1. CASE Begin
    BY <2>1 DEF Begin, Looked, Step, rounds
  <2>2. CASE Enumerate
    <3>1. now' = (IF now.path = "root" THEN [now EXCEPT !.path = "d"]
                  ELSE [at |-> "root", path |-> "root"]) /\ now.at = "enumerate"
      BY <2>2 DEF Enumerate, At
    <3>2. now'.at \notin Looked
      BY <3>1 DEF Looked
    <3>. QED  BY <2>2, <3>1, <3>2 DEF Enumerate, Looked, Step, Kept
  <2>. QED  BY <2>1, <2>2
<1>2. AreNotes /\ AreRooted /\ TheySay /\ NotesWhen
  BY DEF NotesInv
<1>3. AreNotes' /\ AreRooted' /\ TheySay'
  BY <1>1, <1>2, NotesKept
<1>4. NotesWhen'
  BY <1>1, <1>2 DEF NotesWhen
<1>5. LookedSays'
  BY <1>1 DEF LookedSays, InFile, Looked
<1>. QED  BY <1>3, <1>4, <1>5 DEF NotesInv

LEMMA NotesStay ==
  ASSUME TreeInv, TreeInv', Base, Base', NotesInv, Step, Going'
  PROVE  NotesInv'
<1>1. Surveys' <=> Surveys
  BY StepFacts DEF Surveys
<1>2. SUFFICES ASSUME Surveys PROVE NotesInv'
  BY <1>1 DEF NotesInv
<1>3. CASE Begin \/ Enumerate
  BY <1>2, <1>3, NotesBegin
<1>4. CASE LookAtRoot \/ List \/ Look \/ Enter \/ Open \/ Read \/ Close \/ Leave
  <2>1. result = "running"
    BY <1>4 DEF LookAtRoot, List, Look, Enter, Open, Read, Close, Leave, At
  <2>. QED  BY <1>2, <1>4, <2>1, NotesLookAtRoot, NotesList, NotesLook, NotesEnter, NotesOpen,
              NotesRead, NotesClose, NotesLeave
<1>. QED  BY <1>3, <1>4 DEF Step

-----------------------------------------------------------------------------
(* A round that is compared notes all the names that were listed first.     *)
RootNoted ==
  now.at \in Looked /\ Root.listed =>
    \A n \in listing["root"] :
      n \in Root.todo \/ Has(noted, "root", n) \/ (n \in Current /\ ~Inner)
InnerNoted ==
  now.at \in Looked /\ Inner /\ Top.listed =>
    \A n \in listing["d"] : n \in Top.todo \/ Has(noted, "d", n) \/ n \in Current
SubNoted ==
  /\ now.at \in Looked \ {"enter"} /\ ~Inner /\ Root.listed /\ "d" \notin Root.todo
  /\ "d" \in listing["root"]
  => \A n \in listing["d"] : Has(noted, "d", n)
ListNoted == Surveys /\ Compared => RootNoted /\ InnerNoted /\ SubNoted

LEMMA ListedOthers ==
  ASSUME ListNoted, UNCHANGED <<kind, rounds, stack, now, noted>>
  PROVE  ListNoted'
BY DEF ListNoted, Surveys, Compared, Does, Reader, RootNoted, InnerNoted, SubNoted, rounds, Has, Root,
       Top, Inner, Current

LEMMA ListedStay ==
  ASSUME TreeInv, TreeInv', Base, Base', ListNoted, Step, Going'
  PROVE  ListNoted'
<1>1. /\ Reader' = Reader /\ (Surveys' <=> Surveys)
      /\ (Leave /\ BeginsRound) \/ UNCHANGED <<round, before>>
      /\ Enumerate \/ UNCHANGED listing
  BY StepFacts, SameRound DEF Surveys
<1>2. SUFFICES ASSUME Surveys, Compared', now'.at \in Looked
               PROVE  RootNoted' /\ InnerNoted' /\ SubNoted'
  BY <1>1 DEF ListNoted, RootNoted, InnerNoted, SubNoted
<1>3. ~BeginsRound /\ UNCHANGED round
  BY <1>1, <1>2 DEF BeginsRound, Looked
<1>4. Compared /\ RootNoted /\ InnerNoted /\ SubNoted
  BY <1>1, <1>2, <1>3 DEF ListNoted, Compared, Does
<1>5. First /\ Reader.notes = "all" /\ Reader.names = "entries" /\ (Does("survey") <=> ~Does("read"))
  BY <1>2, <1>4, SurveyFacts
<1>6. ~Begin /\ ~Enumerate
  <2>1. ~Begin
    BY <1>2 DEF Begin, Looked
  <2>2. ASSUME Enumerate PROVE FALSE
    <3>1. now' = (IF now.path = "root" THEN [now EXCEPT !.path = "d"]
                  ELSE [at |-> "root", path |-> "root"]) /\ now.at = "enumerate"
      BY <2>2 DEF Enumerate, At
    <3>. QED  BY <1>2, <3>1 DEF Looked
  <2>. QED  BY <2>1, <2>2
<1>7. listing' = listing
  BY <1>1, <1>6
<1>8. \A p, n, q, s, r : /\ Has(noted, p, n) /\ noted \subseteq noted' => Has(noted', p, n)
                         /\ noted' = Note(q, n, s, r) => /\ noted \subseteq noted'
                                                         /\ Has(noted', q, n)
  <2>1. ASSUME NEW q, NEW n, NEW s, NEW r, noted' = Note(q, n, s, r)
        PROVE  noted \subseteq noted' /\ Has(noted', q, n)
    <3>1. PICK e : e = [path |-> q, name |-> n, status |-> s, read |-> r]
      OBVIOUS
    <3>2. noted' = noted \cup {e} /\ e.path = q /\ e.name = n
      BY <1>4, <2>1, <3>1 DEF Note
    <3>. QED  BY <3>2 DEF Has
  <2>. QED  BY <2>1 DEF Has
<1>9. CASE LookAtRoot
  <2>1. Root' = Opened("root", DirStatus("root")) /\ ~Inner'
    BY <1>9, RootFacts
  <2>2. ~Root'.listed
    BY <2>1 DEF Opened
  <2>. QED  BY <2>1, <2>2 DEF RootNoted, InnerNoted, SubNoted
<1>10. CASE List
  <2>1. PICK names \in SUBSET Names :
          /\ names = NamesOf(Top.path, Top.expected.inode)
          /\ now.at = "next" /\ ~Top.listed
          /\ Inner' <=> Inner
          /\ Top' = [Top EXCEPT !.listed = TRUE, !.todo = names]
          /\ Root' = IF Inner THEN Root ELSE [Top EXCEPT !.listed = TRUE, !.todo = names]
          /\ UNCHANGED <<now, noted>>
    BY <1>10, ListFacts
  <2>2. /\ now.at \in Looked /\ Top \in Frames /\ Current = {} /\ Current' = {}
        /\ Top.path = IF Inner THEN "d" ELSE "root"
    BY <2>1, FrameFacts DEF Base, Looked, Current, InFile, StackInv
  <2>3. names = listing[Top.path]
    BY <1>5, <2>1 DEF NamesOf
  <2>4. Top'.todo = names
    BY <2>1, <2>2 DEF Frames
  <2>. QED  BY <1>4, <1>7, <2>1, <2>2, <2>3, <2>4 DEF RootNoted, InnerNoted, SubNoted
<1>11. CASE Look
  <2>1. PICK n \in Names, i \in FileNodes \cup SubDirs : Takes(n, i)
    BY <1>11, LookFacts
  <2>2. /\ n \in Top.todo /\ now.at = "next" /\ Top.listed
        /\ Inner' <=> Inner
        /\ Top' = [Top EXCEPT !.todo = Top.todo \ {n}]
        /\ Root' = IF Inner THEN Root ELSE [Top EXCEPT !.todo = Top.todo \ {n}]
        /\ TakesDirectory(n, i) \/ TakesFile(n, i)
    BY <2>1 DEF Takes
  <2>3. /\ now.at \in Looked /\ now.at # "enter" /\ Top \in Frames /\ Current = {}
        /\ Top.path = IF Inner THEN "d" ELSE "root"
        /\ ~Inner => Top = Root
    BY <2>2, FrameFacts DEF Base, Looked, Current, InFile, StackInv
  <2>4. Top'.todo = Top.todo \ {n} /\ Top'.listed = Top.listed
    BY <2>2, <2>3 DEF Frames
  <2>5. /\ noted \subseteq noted'
        /\ Has(noted', Top.path, n) \/ n \in Current'
        /\ n = "d" => now'.at = "enter"
        /\ n = "d" \/ n # "d"
    <3>1. CASE TakesDirectory(n, i)
      <4>1. noted' = Note(Top.path, n, DirStatus(i), <<>>) /\ now'.at = "enter"
        BY <1>5, <3>1 DEF TakesDirectory, NoteDirectory
      <4>. QED  BY <1>8, <4>1
    <3>2. CASE TakesFile(n, i) /\ Does("read")
      <4>1. noted' = noted /\ now'.at = "open" /\ now'.name = n
        BY <1>5, <3>2 DEF TakesFile
      <4>2. n # "d"
        BY <3>2 DEF TakesFile, FileNames
      <4>. QED  BY <4>1, <4>2 DEF Current, InFile
    <3>3. CASE TakesFile(n, i) /\ Does("survey")
      <4>1. noted' = Note(Top.path, n, FileStatus(i), <<>>)
        BY <3>3 DEF TakesFile
      <4>2. n # "d"
        BY <3>3 DEF TakesFile, FileNames
      <4>. QED  BY <1>8, <4>1, <4>2
    <3>. QED  BY <1>5, <2>2, <3>1, <3>2, <3>3
  <2>6. \A p, m : Has(noted, p, m) => Has(noted', p, m)
    BY <1>8, <2>5
  <2>7. RootNoted'
    <3>1. CASE Inner
      BY <1>4, <1>7, <2>2, <2>3, <2>6, <3>1 DEF RootNoted
    <3>2. CASE ~Inner
      BY <1>4, <1>7, <2>2, <2>3, <2>4, <2>5, <2>6, <3>2 DEF RootNoted
    <3>. QED  BY <3>1, <3>2
  <2>8. InnerNoted'
    BY <1>4, <1>7, <2>2, <2>3, <2>4, <2>5, <2>6 DEF InnerNoted
  <2>9. SubNoted'
    BY <1>4, <1>7, <2>2, <2>3, <2>4, <2>5, <2>6 DEF SubNoted
  <2>. QED  BY <2>7, <2>8, <2>9
<1>12. CASE Enter
  <2>1. /\ now.at = "enter" /\ ~Inner /\ Inner' /\ Root' = Root
        /\ \E e \in [inode : SubDirs, time : Nat] : Top' = Opened("d", e)
        /\ now' = [at |-> "next"] /\ noted' = noted
    BY <1>12, EnterFacts
  <2>2. ~Top'.listed
    BY <2>1 DEF Opened
  <2>3. Current = {} /\ now.at \in Looked
    BY <2>1 DEF Current, InFile, Looked
  <2>. QED  BY <1>4, <1>7, <2>1, <2>2, <2>3 DEF RootNoted, InnerNoted, SubNoted
<1>13. CASE Open \/ Read
  <2>1. /\ UNCHANGED <<stack, noted>> /\ Current' = Current
        /\ now.at \in Looked \ {"enter"}
    <3>1. CASE Open
      BY <3>1, OpenFacts DEF Current, InFile, Looked
    <3>2. CASE Read
      BY <3>2, ReadFacts DEF Current, InFile, Looked
    <3>. QED  BY <1>13, <3>1, <3>2
  <2>2. Root' = Root /\ Top' = Top /\ (Inner' <=> Inner)
    BY <2>1 DEF Root, Top, Inner
  <2>. QED  BY <1>4, <1>7, <2>1, <2>2 DEF RootNoted, InnerNoted, SubNoted
<1>14. CASE Close
  <2>1. /\ now.at = "read" /\ now' = [at |-> "next"] /\ UNCHANGED stack
        /\ noted' = Note(Top.path, now.name,
                         IF Reader.after THEN now.opened ELSE now.looked, WasRead)
    BY <1>5, <1>14, CloseFacts
  <2>2. Root' = Root /\ Top' = Top /\ (Inner' <=> Inner)
    BY <2>1 DEF Root, Top, Inner
  <2>3. /\ now.at \in Looked \ {"enter"} /\ Current = {now.name} /\ Current' = {}
        /\ Top.path = IF Inner THEN "d" ELSE "root"
    BY <2>1, FrameFacts DEF Base, Looked, Current, InFile, StackInv
  <2>4. /\ Has(noted', Top.path, now.name)
        /\ \A p, m : Has(noted, p, m) => Has(noted', p, m)
    BY <1>8, <2>1
  <2>. QED  BY <1>4, <1>7, <2>2, <2>3, <2>4 DEF RootNoted, InnerNoted, SubNoted
<1>15. CASE Leave
  <2>1. /\ now.at = "next" /\ Top.listed /\ Top.todo = {} /\ LeavesInner
    BY <1>3, <1>15, LeaveFacts DEF Going, Ends
  <2>2. /\ Inner /\ ~Inner' /\ Root' = Root /\ UNCHANGED <<now, noted>>
        /\ Current = {} /\ Current' = {} /\ now.at \in Looked
    BY <2>1 DEF LeavesInner, Current, InFile, Looked
  <2>. QED  BY <1>4, <1>7, <2>1, <2>2 DEF RootNoted, InnerNoted, SubNoted
<1>. QED  BY <1>6, <1>9, <1>10, <1>11, <1>12, <1>13, <1>14, <1>15 DEF Step

-----------------------------------------------------------------------------
(* What a sealed copy has recorded is noted, and the other way round.       *)
Sealed == Surveys /\ kind.reader = "sealed"
RecordNoted(p, n) == \E e \in noted \cup before : e.path = p /\ e.name = n /\ e.read = records[p][n]
SealedNoted ==
  Sealed =>
    /\ \A p \in Paths : \A n \in DOMAIN records[p] : RecordNoted(p, n)
    /\ \A e \in noted \cup before : e.name \in FileNames => e.name \in DOMAIN records[e.path]

LEMMA SealedOthers ==
  ASSUME SealedNoted, UNCHANGED <<kind, rounds, records, noted>>
  PROVE  SealedNoted'
BY DEF SealedNoted, Sealed, Surveys, RecordNoted, rounds

LEMMA SealedStay ==
  ASSUME TreeInv, TreeInv', Base, Base', NotesInv, SealedNoted, Step, Going'
  PROVE  SealedNoted'
<1>1. /\ Reader' = Reader /\ (Sealed' <=> Sealed)
      /\ (Leave /\ BeginsRound) \/ UNCHANGED <<round, before>>
      /\ Close \/ records' = records
  BY StepFacts, SameRound DEF Sealed, Surveys
<1>2. SUFFICES ASSUME Sealed PROVE SealedNoted'
  BY <1>1 DEF SealedNoted
<1>3. /\ \A p \in Paths : \A n \in DOMAIN records[p] : RecordNoted(p, n)
      /\ \A e \in noted \cup before : e.name \in FileNames => e.name \in DOMAIN records[e.path]
      /\ NotesWhen /\ AreNotes
  BY <1>2 DEF SealedNoted, Sealed, NotesInv
<1>4. /\ Surveys /\ kind.reader = "sealed" /\ Compared /\ Reader.notes = "all" /\ ~Does("survey")
      /\ ~Reader.after /\ Len(Reader.rounds) = 2 /\ round \in 1..2
  BY <1>2, SurveyFacts DEF Sealed
<1>5. ASSUME NEW e, noted' \in {noted, noted \cup {e}}, e.name \notin FileNames,
             UNCHANGED <<records, before>>
      PROVE  SealedNoted'
  BY <1>3, <1>5 DEF SealedNoted, RecordNoted
<1>6. CASE LookAtRoot
  <2>1. PICK e : e = [path |-> "root", name |-> ".", status |-> DirStatus("root"), read |-> <<>>]
    OBVIOUS
  <2>2. noted' = noted \cup {e} /\ UNCHANGED <<records, before>>
    BY <1>4, <1>6, <2>1, RootFacts DEF NoteDirectory, Note, rounds
  <2>3. e.name \notin FileNames
    BY <2>1 DEF FileNames
  <2>. QED  BY <1>5, <2>2, <2>3
<1>7. CASE Look
  <2>1. PICK n \in Names, i \in FileNodes \cup SubDirs : Takes(n, i)
    BY <1>7, LookFacts
  <2>2. UNCHANGED <<records, before>> /\ (TakesDirectory(n, i) \/ TakesFile(n, i))
    BY <2>1 DEF Takes, rounds
  <2>3. PICK e : e = [path |-> Top.path, name |-> "d", status |-> DirStatus(i), read |-> <<>>]
    OBVIOUS
  <2>4. noted' \in {noted, noted \cup {e}}
    BY <1>4, <2>2, <2>3 DEF TakesDirectory, TakesFile, NoteDirectory, Note
  <2>5. e.name \notin FileNames
    BY <2>3 DEF FileNames
  <2>. QED  BY <1>5, <2>2, <2>4, <2>5
<1>8. CASE Close
  <2>1. PICK p, n, w, e :
          /\ p \in Paths /\ n \in FileNames
          /\ p = Top.path /\ n = now.name /\ w = WasRead
          /\ e = [path |-> p, name |-> n, status |-> now.looked, read |-> w]
    BY <1>8, CloseFacts
  <2>2. /\ DOMAIN records'[p] = DOMAIN records[p] \cup {n} /\ records'[p][n] = w
        /\ \A m \in DOMAIN records[p] : m # n => records'[p][m] = records[p][m]
        /\ \A q \in Paths : q # p => records'[q] = records[q]
        /\ UNCHANGED before
        /\ noted' = noted \cup {e}
    BY <1>4, <1>8, <2>1, CloseFacts DEF Note, rounds
  <2>3. e.path = p /\ e.name = n /\ e.read = w
    BY <2>1
  <2>4. ASSUME NEW q \in Paths, NEW m \in DOMAIN records'[q]
        PROVE  \E a \in noted' \cup before' : a.path = q /\ a.name = m /\ a.read = records'[q][m]
    <3>1. CASE q = p /\ m = n
      BY <2>2, <2>3, <3>1
    <3>2. CASE ~(q = p /\ m = n)
      <4>1. m \in DOMAIN records[q] /\ records'[q][m] = records[q][m]
        BY <2>2, <2>4, <3>2
      <4>2. RecordNoted(q, m)
        BY <1>3, <4>1
      <4>. QED  BY <2>2, <4>1, <4>2 DEF RecordNoted
    <3>. QED  BY <3>1, <3>2
  <2>5. ASSUME NEW a \in noted' \cup before', a.name \in FileNames
        PROVE  a.name \in DOMAIN records'[a.path]
    <3>1. CASE a = e
      BY <2>2, <2>3, <3>1
    <3>2. CASE a \in noted \cup before
      <4>1. a.name \in DOMAIN records[a.path] /\ a.path \in Paths
        BY <1>3, <2>5, <3>2 DEF AreNotes, IsNote
      <4>. QED  BY <2>2, <4>1
    <3>. QED  BY <2>2, <2>5, <3>1, <3>2
  <2>. QED  BY <2>4, <2>5 DEF SealedNoted, RecordNoted
<1>9. CASE Leave
  <2>1. LeavesInner \/ BeginsRound
    BY <1>9, LeaveFacts DEF Going, Ends
  <2>2. CASE LeavesInner
    <3>1. noted' = noted /\ UNCHANGED <<records, before>>
      BY <2>2 DEF LeavesInner, rounds
    <3>. QED  BY <1>3, <3>1 DEF SealedNoted, RecordNoted
  <2>3. CASE BeginsRound
    <3>1. before' = noted /\ noted' = {} /\ records' = records /\ round # 2
      BY <1>4, <2>3 DEF BeginsRound
    <3>2. before = {}
      BY <1>3, <1>4, <3>1 DEF NotesWhen
    <3>. QED  BY <1>3, <3>1, <3>2 DEF SealedNoted, RecordNoted
  <2>. QED  BY <2>1, <2>2, <2>3
<1>10. CASE Begin \/ Enumerate \/ List \/ Enter \/ Open \/ Read
  <2>1. UNCHANGED <<noted, records, before>>
    <3>1. CASE Begin \/ Enumerate
      BY <3>1 DEF Begin, Enumerate, rounds
    <3>2. CASE List \/ Enter \/ Open \/ Read
      BY <3>2, ListFacts, EnterFacts, OpenFacts, ReadFacts DEF rounds
    <3>. QED  BY <1>10, <3>1, <3>2
  <2>. QED  BY <1>3, <2>1 DEF SealedNoted, RecordNoted
<1>. QED  BY <1>6, <1>7, <1>8, <1>9, <1>10 DEF Step

-----------------------------------------------------------------------------
(* What is read between the surveys of a package: while everything that the *)
(* first one noted is as it was, what is recorded is what is there.         *)
Packs == Surveys /\ kind.reader = "package"
NotesAll(N, m) ==
  /\ Has(N, "root", ".")
  /\ \A p \in Paths : \A n \in DOMAIN m[p] : Has(N, p, n)
Held == Steady(before, touched, version) /\ NotesAll(before, Moment)

(* All is read that is not to do or being read.                             *)
ReadSoFar(p, todo, current) ==
  /\ DOMAIN Moment[p] \cap FileNames = DOMAIN records[p] \cup (todo \cap FileNames) \cup current
  /\ \A n \in DOMAIN records[p] : records[p][n] = Moment[p][n]
NoRecords ==
  round = 1 \/ (round = 2 /\ now.at \notin Looked) => \A p \in Paths : DOMAIN records[p] = {}
NotYet ==
  round = 2 /\ now.at \in Looked =>
    /\ ~Root.listed => DOMAIN records["root"] = {}
    /\ ~Inner /\ (~Root.listed \/ "d" \in Root.todo \/ now.at = "enter")
         => DOMAIN records["d"] = {}
    /\ Inner /\ ~Top.listed => DOMAIN records["d"] = {}
RootRead ==
  round = 2 /\ now.at \in Looked /\ Held /\ Root.listed =>
    /\ ReadSoFar("root", Root.todo, IF Inner THEN {} ELSE Current)
    /\ "d" \in Root.todo \/ now.at = "enter" \/ Inner \/ FilesOf(Moment["d"]) = records["d"]
InnerRead ==
  round = 2 /\ now.at \in Looked /\ Held /\ Inner =>
    /\ Directory("d") = Top.expected.inode
    /\ Top.listed => ReadSoFar("d", Top.todo, Current)
OpenRead ==
  round = 2 /\ now.at = "read" /\ Held => Moment[Top.path][now.name][1] = now.opened.inode
PackageInv == Packs => NoRecords /\ NotYet /\ RootRead /\ InnerRead /\ OpenRead

LEMMA HeldGrows ==
  ASSUME TreeInv, TreeInv', Base, NotesInv, Packs, round = 2, Grows,
         UNCHANGED <<kind, rounds, stack, now, noted>>, Held'
  PROVE  /\ Held /\ Directory("d")' = Directory("d")
         /\ \A p \in Paths : /\ DOMAIN Moment'[p] = DOMAIN Moment[p]
                             /\ \A n \in DOMAIN Moment[p] : Moment'[p][n] = Moment[p][n]
<1>1. PICK N : N = before
  OBVIOUS
<1>2. before' = N /\ Reader' = Reader /\ ~LastRound /\ Surveys
  <2>1. Surveys /\ kind.reader = "package" /\ before' = N /\ Reader' = Reader
    BY <1>1 DEF rounds, Reader, Packs
  <2>2. Len(Reader.rounds) = 3
    BY <2>1, SurveyFacts
  <2>. QED  BY <2>1, <2>2 DEF LastRound
<1>3. (\A e \in N : IsNote(e)) /\ Rooted(N) /\ Says(N)
  BY <1>1, <1>2 DEF NotesInv, AreNotes, AreRooted, TheySay
<1>4. PICK a, b : a = Moment /\ b = Moment'
  OBVIOUS
<1>5. Steady(N, touched', version') /\ NotesAll(N, b) /\ Has(N, "root", ".")
  BY <1>1, <1>2, <1>4 DEF Held, NotesAll
<1>6. Steady(N, touched, version) /\ entries'["root"] = entries["root"]
  BY <1>3, <1>5, SteadyBefore
<1>7. Says(N)'
  BY <1>3, SaysGrows
<1>8. NotesAgree(N, a) /\ NotesAgree(N, b)
  BY <1>2, <1>3, <1>4, <1>5, <1>6, <1>7 DEF Says, NotesAgree, NoteAgrees
<1>9. DOMAIN b.root = DOMAIN a.root
  BY <1>3, <1>4, <1>5, SteadyTree
<1>10. DOMAIN b.d = DOMAIN a.d
  <2>1. CASE "d" \in DOMAIN b.root
    <3>1. Has(N, "root", "d")
      BY <1>5, <2>1 DEF NotesAll, Paths
    <3>. QED  BY <1>3, <1>4, <1>5, <3>1, SteadyTree
  <2>2. CASE "d" \notin DOMAIN b.root
    <3>1. "d" \notin Existing("root")
      BY <1>4, <1>9, <2>2, MomentFacts DEF MomentIs
    <3>2. entries["root"]["d"] \notin DirNodes /\ entries'["root"]["d"] \notin DirNodes
      BY <1>6, <3>1 DEF Existing, Names, Absent, DirNodes
    <3>. QED  BY <1>4, <3>2, MomentFacts, MomentNext DEF MomentIs
  <2>. QED  BY <2>1, <2>2
<1>11. \A p \in Paths : DOMAIN b[p] = DOMAIN a[p]
  BY <1>9, <1>10 DEF Paths
<1>12. NotesAll(N, a)
  BY <1>5, <1>11 DEF NotesAll
<1>13. ASSUME NEW p \in Paths, NEW n \in DOMAIN a[p] PROVE b[p][n] = a[p][n]
  <2>1. PICK e \in N : e.path = p /\ e.name = n
    BY <1>12, <1>13 DEF NotesAll, Has
  <2>2. IsNote(e) /\ NoteAgrees(e, a) /\ NoteAgrees(e, b)
    BY <1>3, <1>8, <2>1 DEF NotesAgree
  <2>3. n \in Names
    BY <1>4, <1>13, MomentFacts DEF MomentIs, Paths, Existing
  <2>. QED  BY <2>1, <2>2, <2>3 DEF IsNote, NoteAgrees, Names, FileNames
<1>. QED  BY <1>1, <1>4, <1>6, <1>11, <1>12, <1>13 DEF Held, Directory

LEMMA PackageOthers ==
  ASSUME TreeInv, TreeInv', Base, NotesInv, PackageInv, Grows,
         UNCHANGED <<kind, rounds, stack, now, records, noted>>
  PROVE  PackageInv'
<1>1. /\ Root' = Root /\ (Inner' <=> Inner) /\ Top' = Top /\ (Packs' <=> Packs)
      /\ Current' = Current
      /\ UNCHANGED <<round, now, records>>
  BY DEF Root, Inner, Top, Packs, Surveys, rounds, Current
<1>2. SUFFICES ASSUME Packs
               PROVE  NoRecords' /\ NotYet' /\ RootRead' /\ InnerRead' /\ OpenRead'
  BY <1>1 DEF PackageInv
<1>3. NoRecords /\ NotYet /\ RootRead /\ InnerRead /\ OpenRead
  BY <1>2 DEF PackageInv
<1>4. NoRecords' /\ NotYet'
  BY <1>1, <1>3 DEF NoRecords, NotYet
<1>5. ASSUME ~(round = 2 /\ now.at \in Looked /\ Held') PROVE RootRead' /\ InnerRead' /\ OpenRead'
  BY <1>1, <1>5 DEF RootRead, InnerRead, OpenRead, Looked
<1>6. ASSUME round = 2, now.at \in Looked, Held' PROVE RootRead' /\ InnerRead' /\ OpenRead'
  <2>1. PICK a, b : a = Moment /\ b = Moment'
    OBVIOUS
  <2>2. /\ Held /\ Directory("d")' = Directory("d")
        /\ \A p \in Paths : /\ DOMAIN b[p] = DOMAIN a[p]
                            /\ \A n \in DOMAIN a[p] : b[p][n] = a[p][n]
    BY <1>2, <1>6, <2>1, HeldGrows
  <2>3. \A p \in Paths : FilesOf(b[p]) = FilesOf(a[p])
    BY <2>2 DEF FilesOf
  <2>4. ASSUME NEW p \in Paths, NEW todo, NEW current, ReadSoFar(p, todo, current)
        PROVE  ReadSoFar(p, todo, current)'
    <3>1. /\ DOMAIN a[p] \cap FileNames = DOMAIN records[p] \cup (todo \cap FileNames) \cup current
          /\ \A n \in DOMAIN records[p] : records[p][n] = a[p][n]
      BY <2>1, <2>4 DEF ReadSoFar
    <3>. QED  BY <1>1, <2>1, <2>2, <3>1 DEF ReadSoFar
  <2>5. PICK todo, current, inner : /\ todo = Root.todo /\ inner = Top.todo
                                    /\ current = Current
    OBVIOUS
  <2>6. RootRead'
    <3>1. SUFFICES ASSUME Root.listed
                   PROVE  /\ ReadSoFar("root", todo, IF Inner THEN {} ELSE current)'
                          /\ "d" \in todo \/ now.at = "enter" \/ Inner
                               \/ FilesOf(b["d"]) = records["d"]
      BY <1>1, <2>1, <2>5 DEF RootRead, ReadSoFar
    <3>. QED  BY <1>1, <1>3, <1>6, <2>1, <2>2, <2>3, <2>4, <2>5, <3>1 DEF RootRead, Paths
  <2>7. InnerRead'
    BY <1>1, <1>3, <1>6, <2>2, <2>4, <2>5 DEF InnerRead, Paths
  <2>8. OpenRead'
    <3>1. SUFFICES ASSUME now.at = "read" PROVE b[Top.path][now.name][1] = now.opened.inode
      BY <1>1, <2>1 DEF OpenRead
    <3>2. a[Top.path][now.name][1] = now.opened.inode
      BY <1>3, <1>6, <2>1, <2>2, <3>1 DEF OpenRead
    <3>3. Top.path \in Paths /\ now.name \in DOMAIN a[Top.path]
      <4>1. /\ Top.path \in Paths /\ now.name \in FileNames /\ Top.listed /\ Current = {now.name}
            /\ Top.path = IF Inner THEN "d" ELSE "root"
            /\ ~Inner => Top = Root
        BY <1>6, <3>1, FrameFacts DEF Base, NowInv, InFile, Current, Frames, StackInv
      <4>2. CASE Inner
        BY <1>3, <1>6, <2>1, <2>2, <4>1, <4>2 DEF InnerRead, ReadSoFar
      <4>3. CASE ~Inner
        BY <1>3, <1>6, <2>1, <2>2, <4>1, <4>3 DEF RootRead, ReadSoFar
      <4>. QED  BY <4>1, <4>2, <4>3
    <3>. QED  BY <2>2, <3>2, <3>3
  <2>. QED  BY <2>6, <2>7, <2>8
<1>. QED  BY <1>4, <1>5, <1>6

(* In the round that reads, a name is taken from those that exist.          *)
LEMMA PackageSame ==
  ASSUME PackageInv, Packs, Step, round = 2, UNCHANGED <<round, before, records>>
  PROVE  /\ NoRecords /\ NotYet /\ RootRead /\ InnerRead /\ OpenRead
         /\ Held' <=> Held
         /\ Directory("d")' = Directory("d") /\ Moment' = Moment
         /\ \A p, todo, current : ReadSoFar(p, todo, current) => ReadSoFar(p, todo, current)'
<1>1. UNCHANGED <<kind, entries, touched, version>> /\ Moment' = Moment
  BY StepFacts
<1>. QED  BY <1>1 DEF PackageInv, Held, Directory, ReadSoFar

LEMMA PackageList ==
  ASSUME Packs, TreeInv, TreeInv', Base, Base', PackageInv, List, Going', round = 2,
         UNCHANGED <<round, before, records>>
  PROVE  NoRecords' /\ NotYet' /\ RootRead' /\ InnerRead' /\ OpenRead'
<1>1. Step
  BY DEF Step
<1>2. /\ NoRecords /\ NotYet /\ RootRead /\ InnerRead /\ OpenRead /\ (Held' <=> Held)
      /\ Directory("d")' = Directory("d") /\ Moment' = Moment
      /\ \A p, todo, current : ReadSoFar(p, todo, current) => ReadSoFar(p, todo, current)'
      /\ Surveys
  BY <1>1, PackageSame DEF Packs
<1>3. ~First /\ Reader.names = "entries"
  BY <1>2, SurveyFacts DEF Packs
<1>4. PICK names \in SUBSET Names :
        /\ names = NamesOf(Top.path, Top.expected.inode)
        /\ now.at = "next" /\ ~Top.listed
        /\ Inner' <=> Inner
        /\ Top' = [Top EXCEPT !.listed = TRUE, !.todo = names]
        /\ Root' = IF Inner THEN Root ELSE [Top EXCEPT !.listed = TRUE, !.todo = names]
        /\ UNCHANGED <<now, noted>>
  BY ListFacts
<1>5. /\ now.at \in Looked /\ Top \in Frames /\ Current = {} /\ Current' = {}
      /\ Top.path = IF Inner THEN "d" ELSE "root"
      /\ ~Inner => Top = Root
      /\ Inner => Top.expected.inode \in SubDirs
      /\ ~Inner => Top.expected.inode = "root"
  BY <1>4, FrameFacts DEF Base, Looked, Current, InFile, StackInv
<1>6. names = Existing(Top.expected.inode)
  BY <1>3, <1>4 DEF NamesOf
<1>7. Top'.todo = names /\ Top'.listed /\ Top'.expected = Top.expected /\ Top'.path = Top.path
  BY <1>4, <1>5 DEF Frames
<1>8. PICK x \in DirNodes : x = Top.expected.inode
  BY <1>5 DEF SubDirs, DirNodes
<1>9. ASSUME Inner \/ x = "root", Held, x = Directory(Top.path)
      PROVE  ReadSoFar(Top.path, names, {})'
  <2>1. DOMAIN records[Top.path] = {}
    BY <1>2, <1>4, <1>5 DEF NotYet
  <2>2. DOMAIN Moment[Top.path] = Existing(x)
    BY <1>5, <1>8, <1>9, FilesHere DEF FilesAre, Frames
  <2>3. ReadSoFar(Top.path, names, {})
    BY <1>6, <1>8, <2>1, <2>2 DEF ReadSoFar
  <2>. QED  BY <1>2, <1>4, <1>7, <2>3 DEF ReadSoFar
<1>10. NoRecords' /\ OpenRead'
  BY <1>2, <1>4 DEF NoRecords, OpenRead
<1>11. NotYet'
  BY <1>2, <1>4, <1>5, <1>7 DEF NotYet
<1>12. RootRead' /\ InnerRead'
  <2>1. CASE Inner
    <3>1. RootRead'
      BY <1>2, <1>4, <1>5, <2>1 DEF RootRead
    <3>2. InnerRead'
      BY <1>2, <1>4, <1>5, <1>7, <1>8, <1>9, <2>1 DEF InnerRead
    <3>. QED  BY <3>1, <3>2
  <2>2. CASE ~Inner
    <3>1. InnerRead'
      BY <1>4, <2>2 DEF InnerRead
    <3>2. SUFFICES ASSUME Held
                   PROVE  /\ ReadSoFar("root", names, {})'
                          /\ "d" \in names \/ FilesOf(Moment["d"]) = records["d"]
      BY <1>2, <1>4, <1>5, <1>7, <2>2, <3>1 DEF RootRead, ReadSoFar
    <3>3. ReadSoFar("root", names, {})'
      BY <1>5, <1>7, <1>8, <1>9, <2>2, <3>2 DEF Directory, ReadSoFar
    <3>4. ASSUME "d" \notin names PROVE FilesOf(Moment["d"]) = records["d"]
      <4>1. entries["root"]["d"] = Absent
        BY <1>5, <1>6, <2>2, <3>4 DEF Existing, Names
      <4>2. Moment.d = <<>>
        BY <4>1, MomentFacts DEF MomentIs, Absent, DirNodes
      <4>3. DOMAIN Moment["d"] = {}
        BY <4>2
      <4>4. DOMAIN records["d"] = {} /\ IsPlain(records["d"])
        BY <1>2, <1>4, <1>5, <2>2 DEF NotYet, Base, RecordsInv, Paths
      <4>5. \A r, q : DOMAIN r = {} /\ DOMAIN q = {} /\ IsPlain(r) => FilesOf(q) = r
        <5>1. TAKE r, q
        <5>2. HAVE DOMAIN r = {} /\ DOMAIN q = {} /\ IsPlain(r)
        <5>3. {n \in DOMAIN q : q[n][1] \in FileNodes} = {}
          BY <5>2
        <5>4. FilesOf(q) = [n \in {} |-> q[n]]
          BY <5>3 DEF FilesOf
        <5>5. r = [n \in {} |-> r[n]]
          BY <5>2 DEF IsPlain
        <5>6. [n \in {} |-> q[n]] = [n \in {} |-> r[n]]
          OBVIOUS
        <5>. QED  BY <5>4, <5>5, <5>6
      <4>. QED  BY <4>3, <4>4, <4>5
    <3>. QED  BY <3>3, <3>4
  <2>. QED  BY <2>1, <2>2
<1>. QED  BY <1>10, <1>11, <1>12

LEMMA PackageLook ==
  ASSUME Packs, TreeInv, TreeInv', Base, Base', PackageInv, Look, Going', round = 2,
         UNCHANGED <<round, before, records>>
  PROVE  NoRecords' /\ NotYet' /\ RootRead' /\ InnerRead' /\ OpenRead'
<1>1. Step
  BY DEF Step
<1>2. /\ NoRecords /\ NotYet /\ RootRead /\ InnerRead /\ OpenRead /\ (Held' <=> Held)
      /\ Directory("d")' = Directory("d") /\ Moment' = Moment
      /\ \A p, todo, current : ReadSoFar(p, todo, current) => ReadSoFar(p, todo, current)'
      /\ Surveys /\ kind.reader = "package"
  BY <1>1, PackageSame DEF Packs
<1>3. Does("read") /\ ~Does("survey") /\ ~Compared
  BY <1>2, SurveyFacts
<1>4. PICK n \in Names, i \in FileNodes \cup SubDirs : Takes(n, i)
  BY LookFacts
<1>5. /\ n \in Top.todo /\ now.at = "next" /\ Top.listed
      /\ Inner' <=> Inner
      /\ Top' = [Top EXCEPT !.todo = Top.todo \ {n}]
      /\ Root' = IF Inner THEN Root ELSE [Top EXCEPT !.todo = Top.todo \ {n}]
      /\ TakesDirectory(n, i) \/ TakesFile(n, i)
  BY <1>4 DEF Takes
<1>6. /\ now.at \in Looked /\ Top \in Frames /\ Current = {}
      /\ Top.path = IF Inner THEN "d" ELSE "root"
      /\ ~Inner => Top = Root
      /\ Inner => Root.listed /\ "d" \notin Root.todo
  BY <1>5, FrameFacts DEF Base, Looked, Current, InFile, StackInv
<1>7. /\ Top'.todo = Top.todo \ {n} /\ Top'.listed /\ Top'.expected = Top.expected
      /\ Top'.path = Top.path
  BY <1>5, <1>6 DEF Frames
<1>8. /\ now'.at \in Looked /\ now'.at # "read"
      /\ (n = "d" /\ ~Inner /\ now'.at = "enter" /\ Current' = {})
           \/ (n # "d" /\ n \in FileNames /\ now'.at = "open" /\ Current' = {n})
  <2>1. CASE TakesDirectory(n, i)
    BY <2>1 DEF TakesDirectory, Looked, Current, InFile
  <2>2. CASE TakesFile(n, i)
    <3>1. now' = [at |-> "open", name |-> n, looked |-> FileStatus(i)] /\ n \in FileNames
      BY <1>3, <2>2 DEF TakesFile
    <3>2. now'.at = "open" /\ now'.name = n /\ n # "d"
      BY <3>1 DEF FileNames
    <3>. QED  BY <3>1, <3>2 DEF Looked, Current, InFile
  <2>. QED  BY <1>5, <2>1, <2>2
<1>9. Top.todo \cap FileNames = (Top'.todo \cap FileNames) \cup Current'
  BY <1>5, <1>7, <1>8 DEF FileNames
<1>10. NoRecords' /\ OpenRead'
  BY <1>2, <1>5, <1>8 DEF NoRecords, OpenRead
<1>11. NotYet'
  BY <1>2, <1>5, <1>6, <1>7, <1>8 DEF NotYet
<1>12. PICK p, rest, current : p \in Paths /\ p = Top.path /\ rest = Top'.todo /\ current = Current'
  BY <1>6 DEF Paths
<1>13. ASSUME ReadSoFar(p, Top.todo, {})
       PROVE  ReadSoFar(p, rest, current)'
  BY <1>2, <1>9, <1>12, <1>13 DEF ReadSoFar
<1>14. InnerRead'
  <2>1. SUFFICES ASSUME Held, Inner PROVE Directory("d") = Top.expected.inode /\ ReadSoFar("d", rest, current)'
    BY <1>2, <1>5, <1>7, <1>12 DEF InnerRead, ReadSoFar
  <2>. QED  BY <1>2, <1>5, <1>6, <1>12, <1>13, <2>1 DEF InnerRead
<1>15. RootRead'
  <2>1. CASE Inner
    BY <1>2, <1>5, <1>6, <1>8, <2>1 DEF RootRead
  <2>2. CASE ~Inner
    <3>1. SUFFICES ASSUME Held
                   PROVE  /\ ReadSoFar("root", rest, current)'
                          /\ "d" \in rest \/ now'.at = "enter" \/ FilesOf(Moment["d"]) = records["d"]
      BY <1>2, <1>5, <1>7, <1>12, <2>2 DEF RootRead, ReadSoFar
    <3>2. /\ ReadSoFar("root", Top.todo, {})
          /\ "d" \in Top.todo \/ FilesOf(Moment["d"]) = records["d"]
      BY <1>2, <1>5, <1>6, <2>2, <3>1 DEF RootRead
    <3>. QED  BY <1>6, <1>7, <1>8, <1>12, <1>13, <2>2, <3>2
  <2>. QED  BY <2>1, <2>2
<1>. QED  BY <1>10, <1>11, <1>14, <1>15

LEMMA PackageEnter ==
  ASSUME Packs, TreeInv, TreeInv', Base, Base', PackageInv, Enter, Going', round = 2,
         UNCHANGED <<round, before, records>>
  PROVE  NoRecords' /\ NotYet' /\ RootRead' /\ InnerRead' /\ OpenRead'
<1>1. Step
  BY DEF Step
<1>2. /\ NoRecords /\ NotYet /\ RootRead /\ InnerRead /\ OpenRead /\ (Held' <=> Held)
      /\ Directory("d")' = Directory("d") /\ Moment' = Moment
      /\ \A p, todo, current : ReadSoFar(p, todo, current) => ReadSoFar(p, todo, current)'
      /\ Surveys /\ kind.reader = "package"
  BY <1>1, PackageSame DEF Packs
<1>3. ~First /\ ~Reader.leave
  BY <1>2, SurveyFacts
<1>4. PICK e \in [inode : SubDirs, time : Nat] :
        /\ now.at = "enter" /\ ~Inner /\ Inner' /\ Root' = Root
        /\ Entry("d") = entries["root"]["d"] /\ Top' = Opened("d", e)
        /\ e = DirStatus(Entry("d")) /\ now' = [at |-> "next"]
  BY <1>3, EnterFacts
<1>5. /\ Top'.expected.inode = entries["root"]["d"] /\ ~Top'.listed
      /\ now.at \in Looked /\ Current = {} /\ now'.at = "next" /\ now'.at \in Looked
      /\ Root.listed
  BY <1>4 DEF Opened, DirStatus, Looked, Current, InFile, Base, NowInv
<1>6. NoRecords' /\ OpenRead' /\ NotYet'
  BY <1>2, <1>4, <1>5 DEF NoRecords, OpenRead, NotYet
<1>7. InnerRead'
  BY <1>2, <1>5 DEF InnerRead, Directory
<1>8. RootRead'
  BY <1>2, <1>4, <1>5 DEF RootRead
<1>. QED  BY <1>6, <1>7, <1>8

LEMMA PackageOpen ==
  ASSUME Packs, TreeInv, TreeInv', Base, Base', PackageInv, Open \/ Read, Going', round = 2,
         UNCHANGED <<round, before, records>>, result = "running"
  PROVE  NoRecords' /\ NotYet' /\ RootRead' /\ InnerRead' /\ OpenRead'
<1>1. Step
  BY DEF Step
<1>2. /\ NoRecords /\ NotYet /\ RootRead /\ InnerRead /\ OpenRead /\ (Held' <=> Held)
      /\ Directory("d")' = Directory("d") /\ Moment' = Moment
      /\ \A p, todo, current : ReadSoFar(p, todo, current) => ReadSoFar(p, todo, current)'
      /\ Surveys /\ kind.reader = "package"
  BY <1>1, PackageSame DEF Packs
<1>3. /\ UNCHANGED stack /\ now.at \in InFile /\ now'.at = "read" /\ now'.name = now.name
      /\ now.at \in Looked /\ now.at # "enter"
      /\ now'.at \in Looked /\ now'.at # "enter"
  <2>1. CASE Open
    BY <2>1, OpenFacts DEF InFile, Looked
  <2>2. CASE Read
    BY <2>2, ReadFacts DEF InFile, Looked
  <2>. QED  BY <2>1, <2>2
<1>4. Top' = Top /\ Root' = Root /\ (Inner' <=> Inner) /\ Current' = Current
  BY <1>3 DEF Top, Root, Inner, Current, InFile
<1>5. NoRecords' /\ NotYet' /\ RootRead' /\ InnerRead'
  BY <1>2, <1>3, <1>4 DEF NoRecords, NotYet, RootRead, InnerRead
<1>6. OpenRead'
  <2>1. CASE Read
    BY <1>2, <1>3, <1>4, <2>1, ReadFacts DEF OpenRead
  <2>2. CASE Open
    <3>1. PICK n \in FileNames, i \in FileNodes :
            /\ n = now.name /\ i = Entry(n)
            /\ now' = [at |-> "read", name |-> n, looked |-> now.looked,
                       opened |-> FileStatus(i), read |-> <<>>]
      BY <2>2, OpenFacts
    <3>2. Reader.byPath
      BY <1>2, SurveyFacts
    <3>3. Moment[Top.path][n] = <<i, version[i]>>
      BY <1>3, <3>1, <3>2, EntryIsThere DEF InPlace
    <3>4. now'.opened.inode = i /\ now'.name = n
      BY <3>1 DEF FileStatus
    <3>5. <<i, version[i]>>[1] = i
      OBVIOUS
    <3>. QED  BY <1>2, <1>4, <3>3, <3>4, <3>5 DEF OpenRead
  <2>. QED  BY <2>1, <2>2
<1>. QED  BY <1>5, <1>6

LEMMA PackageClose ==
  ASSUME Packs, TreeInv, TreeInv', Base, Base', PackageInv, Close, Going', round = 2,
         UNCHANGED <<round, before>>
  PROVE  NoRecords' /\ NotYet' /\ RootRead' /\ InnerRead' /\ OpenRead'
<1>1. Step
  BY DEF Step
<1>2. /\ NoRecords /\ NotYet /\ RootRead /\ InnerRead /\ OpenRead
      /\ Surveys /\ kind.reader = "package" /\ kind.shows
  BY DEF PackageInv, Packs, Surveys
<1>3. /\ UNCHANGED <<kind, entries, touched, version>> /\ Moment' = Moment
      /\ (Held' <=> Held) /\ Directory("d")' = Directory("d")
  BY <1>1, StepFacts DEF Held, Directory
<1>4. PICK p, n, w : p \in Paths /\ n \in FileNames /\ p = Top.path /\ n = now.name /\ w = WasRead
  BY CloseFacts
<1>5. /\ now.at = "read" /\ now' = [at |-> "next"] /\ UNCHANGED stack
      /\ DOMAIN records'[p] = DOMAIN records[p] \cup {n} /\ records'[p][n] = w
      /\ \A m \in DOMAIN records[p] : m # n => records'[p][m] = records[p][m]
      /\ \A q \in Paths : q # p => records'[q] = records[q]
  BY <1>4, CloseFacts
<1>6. /\ Top' = Top /\ Root' = Root /\ (Inner' <=> Inner)
      /\ Current = {n} /\ Current' = {} /\ now.at \in Looked /\ Top.listed
      /\ p = IF Inner THEN "d" ELSE "root"
      /\ ~Inner => Top = Root
      /\ Inner => Root.listed /\ "d" \notin Root.todo
  BY <1>4, <1>5, FrameFacts
     DEF Top, Root, Inner, Current, InFile, Looked, Base, NowInv, StackInv
<1>7. ASSUME Held, n \in DOMAIN Moment[p] PROVE w = Moment[p][n]
  <2>1. Telling /\ Reader.after
    BY <1>2, SurveyFacts DEF Telling, Exact
  <2>2. PICK i \in FileNodes, v \in Nat :
          /\ i = now.opened.inode /\ v = now.read[1] /\ w = <<i, v>> /\ v = version[i]
    BY <1>2, <1>4, <2>1, ReadWhole
  <2>3. Moment[p][n][1] = i
    BY <1>2, <1>4, <1>5, <1>7, <2>2 DEF OpenRead
  <2>4. PICK x : x = Directory(p)
    OBVIOUS
  <2>5. x \in DirNodes
    <3>1. ASSUME x \notin DirNodes PROVE FALSE
      <4>1. p = "d" /\ Moment.d = <<>>
        BY <1>4, <2>4, <3>1, MomentFacts DEF MomentIs, Directory, Paths, DirNodes
      <4>2. DOMAIN Moment[p] = {}
        BY <4>1
      <4>. QED  BY <1>7, <4>2
    <3>. QED  BY <3>1
  <2>6. n \in FilesIn(x) /\ Moment[p][n] = <<entries[x][n], version[entries[x][n]]>>
    BY <1>4, <1>7, <2>4, <2>5, FilesHere DEF FilesAre, FilesIn
  <2>7. PICK j, u : j = entries[x][n] /\ u = version[j]
    OBVIOUS
  <2>8. <<j, u>>[1] = j
    OBVIOUS
  <2>. QED  BY <2>2, <2>3, <2>6, <2>7, <2>8
<1>8. PICK todo : todo = Top.todo
  OBVIOUS
<1>9. ASSUME Held, ReadSoFar(p, todo, {n}) PROVE ReadSoFar(p, todo, {})'
  <2>1. /\ DOMAIN Moment[p] \cap FileNames = DOMAIN records[p] \cup (todo \cap FileNames) \cup {n}
        /\ \A m \in DOMAIN records[p] : records[p][m] = Moment[p][m]
    BY <1>9 DEF ReadSoFar
  <2>2. w = Moment[p][n]
    BY <1>7, <1>9, <2>1
  <2>. QED  BY <1>3, <1>5, <2>1, <2>2 DEF ReadSoFar
<1>10. ASSUME NEW q \in Paths, q # p, NEW S, NEW c, ReadSoFar(q, S, c) PROVE ReadSoFar(q, S, c)'
  BY <1>3, <1>5, <1>10 DEF ReadSoFar
<1>11. NoRecords' /\ OpenRead'
  BY <1>2, <1>5 DEF NoRecords, OpenRead, Looked
<1>12. NotYet'
  BY <1>2, <1>5, <1>6 DEF NotYet, Paths
<1>13. InnerRead'
  <2>1. CASE Inner
    <3>1. SUFFICES ASSUME Held PROVE Directory("d") = Top.expected.inode /\ ReadSoFar("d", todo, {})'
      BY <1>3, <1>6, <1>8 DEF InnerRead, ReadSoFar
    <3>. QED  BY <1>2, <1>6, <1>8, <1>9, <2>1, <3>1 DEF InnerRead
  <2>2. CASE ~Inner
    BY <1>6, <2>2 DEF InnerRead
  <2>. QED  BY <2>1, <2>2
<1>14. RootRead'
  <2>1. CASE Inner
    <3>1. PICK rest : rest = Root.todo
      OBVIOUS
    <3>2. Held => ReadSoFar("root", rest, {})
      BY <1>2, <1>6, <2>1, <3>1 DEF RootRead
    <3>3. Held => ReadSoFar("root", rest, {})'
      BY <1>6, <1>10, <2>1, <3>2 DEF Paths
    <3>. QED  BY <1>3, <1>6, <2>1, <3>1, <3>3 DEF RootRead, ReadSoFar
  <2>2. CASE ~Inner
    <3>1. ASSUME Held PROVE /\ ReadSoFar("root", todo, {n})
                            /\ "d" \in todo \/ FilesOf(Moment["d"]) = records["d"]
      BY <1>2, <1>5, <1>6, <1>8, <2>2, <3>1 DEF RootRead
    <3>2. Held => ReadSoFar("root", todo, {})'
      BY <1>6, <1>9, <2>2, <3>1
    <3>3. records'["d"] = records["d"]
      BY <1>5, <1>6, <2>2 DEF Paths
    <3>. QED  BY <1>3, <1>6, <1>8, <2>2, <3>1, <3>2, <3>3 DEF RootRead, ReadSoFar
  <2>. QED  BY <2>1, <2>2
<1>. QED  BY <1>11, <1>12, <1>13, <1>14

(* All the files of a directory are recorded.                               *)
LEMMA AllRead ==
  ASSUME TreeInv, Base, NEW p \in Paths, ReadSoFar(p, {}, {})
  PROVE  FilesOf(Moment[p]) = records[p]
<1>1. PICK x : x = Directory(p)
  OBVIOUS
<1>2. PICK q, r : q = Moment[p] /\ r = records[p]
  OBVIOUS
<1>3. DOMAIN q \cap FileNames = DOMAIN r /\ (\A n \in DOMAIN r : r[n] = q[n]) /\ IsPlain(r)
  BY <1>2 DEF ReadSoFar, Base, RecordsInv
<1>4. {n \in DOMAIN q : q[n][1] \in FileNodes} = DOMAIN r
  <2>1. CASE x \in DirNodes
    <3>1. FilesOf(q) = [n \in FilesIn(x) |-> <<entries[x][n], version[entries[x][n]]>>]
          /\ DOMAIN q \cap FileNames = FilesIn(x)
      BY <1>1, <1>2, <2>1, FilesNow DEF Directory
    <3>2. DOMAIN FilesOf(q) = {n \in DOMAIN q : q[n][1] \in FileNodes}
      BY DEF FilesOf
    <3>. QED  BY <1>3, <3>1, <3>2
  <2>2. CASE x \notin DirNodes
    <3>1. p = "d" /\ Moment.d = <<>>
      BY <1>1, <2>2, MomentFacts DEF MomentIs, Directory, Paths, DirNodes
    <3>2. DOMAIN Moment[p] = {}
      BY <3>1
    <3>. QED  BY <1>2, <1>3, <3>2
  <2>. QED  BY <2>1, <2>2
<1>5. FilesOf(q) = [n \in DOMAIN r |-> q[n]]
  BY <1>4 DEF FilesOf
<1>6. r = [n \in DOMAIN r |-> r[n]]
  BY <1>3 DEF IsPlain
<1>. QED  BY <1>2, <1>3, <1>5, <1>6

LEMMA PackageLeave ==
  ASSUME Packs, TreeInv, TreeInv', Base, Base', PackageInv, Leave, LeavesInner, round = 2
  PROVE  NoRecords' /\ NotYet' /\ RootRead' /\ InnerRead' /\ OpenRead'
<1>1. Step
  BY DEF Step
<1>2. UNCHANGED <<round, before, records, now>>
  BY DEF LeavesInner, rounds
<1>3. /\ NoRecords /\ NotYet /\ RootRead /\ InnerRead /\ OpenRead /\ (Held' <=> Held)
      /\ Directory("d")' = Directory("d") /\ Moment' = Moment
      /\ \A p, todo, current : ReadSoFar(p, todo, current) => ReadSoFar(p, todo, current)'
  BY <1>1, <1>2, PackageSame
<1>4. /\ now.at = "next" /\ now.at \in Looked /\ Top.listed /\ Top.todo = {}
      /\ Current = {} /\ Current' = {} /\ now'.at = "next"
  <2>1. now.at = "next" /\ Top.listed /\ Top.todo = {}
    BY DEF Leave, At
  <2>. QED  BY <1>2, <2>1 DEF Looked, Current, InFile
<1>5. Inner /\ ~Inner' /\ Root' = Root /\ Root.listed /\ "d" \notin Root.todo
  BY <1>4 DEF LeavesInner, Base, StackInv
<1>6. NoRecords' /\ OpenRead' /\ InnerRead' /\ NotYet'
  BY <1>2, <1>3, <1>4, <1>5 DEF NoRecords, OpenRead, InnerRead, NotYet
<1>7. ASSUME Held PROVE FilesOf(Moment["d"]) = records["d"]
  <2>1. ReadSoFar("d", {}, {})
    BY <1>3, <1>4, <1>5, <1>7 DEF InnerRead
  <2>. QED  BY <2>1, AllRead DEF Paths
<1>8. RootRead'
  BY <1>2, <1>3, <1>4, <1>5, <1>7 DEF RootRead
<1>. QED  BY <1>6, <1>8

LEMMA PackageStays ==
  ASSUME TreeInv, TreeInv', Base, Base', PackageInv, Step, Going'
  PROVE  PackageInv'
<1>1. /\ Packs' <=> Packs
      /\ (Leave /\ BeginsRound) \/ UNCHANGED <<round, before>>
      /\ Close \/ records' = records
  BY StepFacts, SameRound DEF Packs, Surveys
<1>2. SUFFICES ASSUME Packs PROVE NoRecords' /\ NotYet' /\ RootRead' /\ InnerRead' /\ OpenRead'
  BY <1>1 DEF PackageInv
<1>3. NoRecords /\ NotYet /\ RootRead /\ InnerRead /\ OpenRead
  BY <1>2 DEF PackageInv
<1>4. round \in 1..3 /\ (Does("read") <=> round = 2)
  <2>1. Surveys /\ kind.reader = "package"
    BY <1>2 DEF Packs
  <2>2. /\ round \in 1..Len(Reader.rounds) /\ Len(Reader.rounds) = 3
        /\ Does("read") <=> round = 2
    BY <2>1, SurveyFacts
  <2>. QED  BY <2>2
<1>5. CASE Leave /\ BeginsRound
  <2>1. round' = round + 1 /\ now'.at = "begin" /\ records' = records
    BY <1>5 DEF BeginsRound
  <2>2. NoRecords'
    BY <1>3, <1>4, <2>1 DEF NoRecords
  <2>. QED  BY <2>1, <2>2 DEF NotYet, RootRead, InnerRead, OpenRead, Looked
<1>6. CASE UNCHANGED <<round, before>> /\ round # 2
  <2>1. ~Close
    <3>1. ASSUME Close PROVE FALSE
      <4>1. Does("read")
        BY <3>1, CloseFacts DEF Base, NowInv, InFile
      <4>. QED  BY <1>4, <1>6, <4>1
    <3>. QED  BY <3>1
  <2>2. records' = records
    BY <1>1, <2>1
  <2>. QED  BY <1>3, <1>6, <2>2 DEF NoRecords, NotYet, RootRead, InnerRead, OpenRead
<1>7. CASE UNCHANGED <<round, before>> /\ round = 2
  <2>1. CASE Close
    BY <1>2, <1>7, <2>1, PackageClose
  <2>2. CASE ~Close
    <3>1. records' = records
      BY <1>1, <2>2
    <3>2. CASE Begin \/ Enumerate \/ LookAtRoot
      <4>1. now.at \notin Looked /\ (now'.at \notin Looked \/ (~Inner' /\ ~Root'.listed /\ now'.at = "next"))
        <5>1. CASE Begin
          BY <5>1 DEF Begin, Looked
        <5>2. CASE Enumerate
          <6>1. now' = (IF now.path = "root" THEN [now EXCEPT !.path = "d"]
                        ELSE [at |-> "root", path |-> "root"]) /\ now.at = "enumerate"
            BY <5>2 DEF Enumerate, At
          <6>. QED  BY <6>1 DEF Looked
        <5>3. CASE LookAtRoot
          BY <5>3, RootFacts DEF Looked, Opened
        <5>. QED  BY <3>2, <5>1, <5>2, <5>3
      <4>2. \A p \in Paths : DOMAIN records[p] = {}
        BY <1>3, <1>7, <4>1 DEF NoRecords
      <4>3. NoRecords' /\ NotYet'
        BY <3>1, <4>2 DEF NoRecords, NotYet, Paths
      <4>. QED  BY <4>1, <4>3 DEF RootRead, InnerRead, OpenRead, Looked
    <3>3. CASE List \/ Look \/ Enter
      BY <1>2, <1>7, <3>1, <3>3, PackageList, PackageLook, PackageEnter
    <3>4. CASE Open \/ Read
      <4>1. result = "running"
        BY <3>4 DEF Open, Read, At
      <4>. QED  BY <1>2, <1>7, <3>1, <3>4, <4>1, PackageOpen
    <3>5. CASE Leave
      <4>1. LeavesInner
        <5>1. ~BeginsRound
          BY <1>7 DEF BeginsRound
        <5>. QED  BY <3>5, <5>1, LeaveFacts DEF Going, Ends
      <4>. QED  BY <1>2, <1>7, <3>5, <4>1, PackageLeave
    <3>. QED  BY <2>2, <3>2, <3>3, <3>4, <3>5 DEF Step
  <2>. QED  BY <2>1, <2>2
<1>. QED  BY <1>1, <1>5, <1>6, <1>7

-----------------------------------------------------------------------------
(* The last round: what the tree was when it began, m and T, is between     *)
(* what was noted before and what is noted now; so if these are the same,   *)
(* nothing has changed in between, and what was noted is what was there.    *)
Sub(m, x) == "d" \in DOMAIN m.root /\ m.root["d"] = <<x>>
Shape(m) ==
  /\ m.version \in [FileNodes -> Nat]
  /\ \A p \in Paths :
       /\ DOMAIN m[p] \subseteq Names
       /\ \A n \in DOMAIN m[p] \cap FileNames : \E i \in FileNodes : m[p][n] = <<i, m.version[i]>>
  /\ "d" \notin DOMAIN m.d
  /\ "d" \in DOMAIN m.root => \E x \in SubDirs : Sub(m, x)
  /\ "d" \notin DOMAIN m.root => DOMAIN m.d = {}
Ordered(m, T) ==
  /\ \A x \in DirNodes : T[x] <= touched[x]
  /\ \A f \in FileNodes : m.version[f] <= version[f]
  /\ \A e \in before : e.status.time <= TimeIn(T, m.version, e.status.inode)
  /\ \A e \in noted : TimeIn(T, m.version, e.status.inode) <= e.status.time
  /\ now.at \in InFile => m.version[now.looked.inode] <= now.looked.time
Agreed(m, T) ==
  Steady(before, T, m.version) =>
    /\ NotesAgree(before, m)
    /\ Packs /\ NotesAll(before, m) => \A p \in Paths : FilesOf(m[p]) = records[p]

(* A directory that is still as it was has the entries that it had, and is  *)
(* listed so.                                                               *)
Was(m, T) ==
  touched["root"] = T["root"] =>
    /\ DOMAIN m.root = Existing("root")
    /\ \A x \in SubDirs : Sub(m, x) => /\ entries["root"]["d"] = x
                                       /\ touched[x] = T[x] => DOMAIN m.d = Existing(x)
RootKept(T) ==
  \/ touched["root"] = T["root"]
  \/ \E e \in noted : e.path = "root" /\ e.name = "." /\ e.status.time = T["root"]
SubKept(T, x) ==
  \/ touched[x] = T[x]
  \/ \E e \in noted : e.path = "root" /\ e.name = "d" /\ e.status.inode = x /\ e.status.time = T[x]
RootListed(m, T) ==
  /\ now.at # "begin" /\ ~(now.at = "enumerate" /\ now.path = "root")
  /\ RootKept(T)
  => listing["root"] = DOMAIN m.root
SubListed(m, T) ==
  now.at \notin {"begin", "enumerate"} =>
    \A x \in SubDirs : Sub(m, x) /\ RootKept(T) /\ SubKept(T, x) => listing["d"] = DOMAIN m.d

LastIs(m, T) ==
  Shape(m) /\ Ordered(m, T) /\ Agreed(m, T) /\ Was(m, T) /\ RootListed(m, T) /\ SubListed(m, T)
LastInv ==
  Surveys /\ LastRound => \E m \in moments : \E T \in [DirNodes -> Nat] : LastIs(m, T)

LEMMA LastOthers ==
  ASSUME TreeInv, TreeInv', Base, LastInv, Grows,
         UNCHANGED <<kind, rounds, stack, now, records, noted>>
  PROVE  LastInv'
<1>1. /\ (Surveys' <=> Surveys) /\ (LastRound' <=> LastRound) /\ (Packs' <=> Packs)
      /\ UNCHANGED <<listing, before, now, records, noted, kind>>
  BY DEF Surveys, LastRound, Packs, Reader, rounds
<1>2. SUFFICES ASSUME Surveys, LastRound
               PROVE  \E m \in moments' : \E T \in [DirNodes -> Nat] : LastIs(m, T)'
  BY <1>1 DEF LastInv
<1>3. PICK m \in moments : \E T \in [DirNodes -> Nat] : LastIs(m, T)
  BY <1>2 DEF LastInv
<1>4. PICK T \in [DirNodes -> Nat] : LastIs(m, T)
  BY <1>3
<1>5. /\ Shape(m) /\ Ordered(m, T) /\ Agreed(m, T) /\ Was(m, T) /\ RootListed(m, T)
      /\ SubListed(m, T)
  BY <1>4 DEF LastIs
<1>6. \A x \in DirNodes : /\ T[x] <= touched'[x]
                          /\ touched'[x] = T[x] => /\ touched[x] = T[x]
                                                   /\ entries'[x] = entries[x]
  <2>1. TAKE x \in DirNodes
  <2>2. /\ touched[x] \in Nat /\ touched'[x] \in Nat /\ T[x] \in Nat
        /\ T[x] <= touched[x] /\ touched[x] <= touched'[x]
    BY <1>5 DEF TreeInv, Grows, Ordered
  <2>3. T[x] <= touched'[x] /\ (touched'[x] = T[x] => touched[x] = T[x])
    BY <2>2
  <2>4. touched'[x] = touched[x] => entries'[x] = entries[x]
    BY DEF Grows
  <2>. QED  BY <2>3, <2>4
<1>7. \A f \in FileNodes : m.version[f] <= version'[f]
  <2>1. TAKE f \in FileNodes
  <2>2. /\ version[f] \in Nat /\ version'[f] \in Nat /\ m.version[f] \in Nat
        /\ m.version[f] <= version[f] /\ version[f] <= version'[f]
    BY <1>5 DEF TreeInv, Grows, Ordered, Shape
  <2>. QED  BY <2>2
<1>8. Ordered(m, T)'
  BY <1>1, <1>5, <1>6, <1>7 DEF Ordered
<1>9. Agreed(m, T)'
  BY <1>1, <1>5 DEF Agreed, NotesAgree, NoteAgrees
<1>10. "root" \in DirNodes /\ SubDirs \subseteq DirNodes
  BY DEF DirNodes, SubDirs
<1>11. Was(m, T)'
  BY <1>5, <1>6, <1>10 DEF Was, Existing
<1>12. /\ RootKept(T)' => RootKept(T)
       /\ \A x \in SubDirs : SubKept(T, x)' => SubKept(T, x)
  BY <1>1, <1>6, <1>10 DEF RootKept, SubKept
<1>13. RootListed(m, T)' /\ SubListed(m, T)'
  BY <1>1, <1>5, <1>12 DEF RootListed, SubListed
<1>14. LastIs(m, T)'
  BY <1>5, <1>8, <1>9, <1>11, <1>13 DEF LastIs
<1>15. m \in moments'
  BY DEF Grows
<1>. QED  BY <1>14, <1>15

(* A step of the last round that notes at most what it finds.               *)
LEMMA LastStep ==
  ASSUME Step, NEW m, NEW T, LastIs(m, T), UNCHANGED <<before, listing>>,
         Packs => UNCHANGED records,
         now'.at \in InFile => m.version[now'.looked.inode] <= now'.looked.time,
         now.at \notin {"begin", "enumerate"},
         NEW e,
         noted' = noted \/ /\ noted' = noted \cup {e}
                           /\ TimeIn(T, m.version, e.status.inode) <= e.status.time
                           /\ e.name = "." => e.status.time = touched["root"]
                           /\ e.name = "d" => e.status.time = touched[e.status.inode]
  PROVE  LastIs(m, T)'
<1>1. /\ UNCHANGED <<kind, entries, touched, version>> /\ (Packs' <=> Packs)
      /\ Shape(m) /\ Ordered(m, T) /\ Agreed(m, T) /\ Was(m, T) /\ RootListed(m, T)
      /\ SubListed(m, T)
  BY StepFacts DEF Packs, Surveys, LastIs
<1>2. Ordered(m, T)'
  BY <1>1 DEF Ordered
<1>3. Agreed(m, T)'
  BY <1>1 DEF Agreed, NotesAgree, NoteAgrees
<1>4. Was(m, T)'
  BY <1>1 DEF Was, Existing
<1>5. /\ RootKept(T)' => RootKept(T)
      /\ \A x \in SubDirs : SubKept(T, x)' => SubKept(T, x)
  BY <1>1 DEF RootKept, SubKept
<1>6. RootListed(m, T)' /\ SubListed(m, T)'
  BY <1>1, <1>5 DEF RootListed, SubListed
<1>. QED  BY <1>1, <1>2, <1>3, <1>4, <1>6 DEF LastIs

LEMMA MomentShape ==
  ASSUME TreeInv
  PROVE  Shape(Moment)
<1>1. PICK a : a = Moment
  OBVIOUS
<1>2. a.version = version /\ version \in [FileNodes -> Nat]
  BY <1>1, MomentFacts DEF MomentIs, TreeInv
<1>3. DOMAIN a.root = Existing("root") /\ DOMAIN a.d \subseteq Names
  BY <1>1, MomentFacts DEF MomentIs
<1>4. Existing("root") \subseteq Names
  BY DEF Existing
<1>5. entries["root"]["d"] \in SubDirs \cup {Absent} /\ Absent \notin DirNodes /\ SubDirs \subseteq DirNodes
  BY DEF TreeInv, Absent, DirNodes, SubDirs
<1>6. CASE entries["root"]["d"] \in SubDirs
  <2>1. PICK x \in SubDirs : x = entries["root"]["d"]
    BY <1>6
  <2>2. /\ DOMAIN a.d = Existing(x) /\ "d" \in DOMAIN a.root
    BY <1>1, <1>3, <1>5, <2>1, MomentFacts DEF MomentIs, Existing, Names
  <2>3. a.root["d"] = <<x>>
    BY <1>1, <1>3, <2>1, <2>2, MomentFacts DEF MomentIs, SubDirs, FileNodes
  <2>4. "d" \notin DOMAIN a.d
    BY <2>2 DEF Existing, TreeInv
  <2>5. ASSUME NEW p \in Paths, NEW n \in DOMAIN a[p] \cap FileNames
        PROVE  \E i \in FileNodes : a[p][n] = <<i, a.version[i]>>
    <3>1. PICK y \in DirNodes : y = Directory(p)
      BY <1>5, <2>1 DEF Directory, DirNodes
    <3>2. n \in FilesIn(y) /\ a[p][n] = <<entries[y][n], version[entries[y][n]]>>
          /\ entries[y][n] \in FileNodes
      BY <1>1, <2>5, <3>1, FilesHere DEF FilesAre, FilesIn
    <3>. QED  BY <1>2, <3>2
  <2>. QED  BY <1>1, <1>2, <1>3, <1>4, <2>1, <2>2, <2>3, <2>4, <2>5 DEF Shape, Sub, Paths
<1>7. CASE entries["root"]["d"] = Absent
  <2>1. a.d = <<>> /\ "d" \notin DOMAIN a.root
    BY <1>1, <1>3, <1>5, <1>7, MomentFacts DEF MomentIs, Existing
  <2>2. DOMAIN a.d = {}
    BY <2>1
  <2>3. ASSUME NEW p \in Paths, NEW n \in DOMAIN a[p] \cap FileNames
        PROVE  \E i \in FileNodes : a[p][n] = <<i, a.version[i]>>
    <3>1. p = "root" /\ "root" = Directory(p) /\ "root" \in DirNodes
      BY <2>2, <2>3 DEF Paths, Directory, DirNodes
    <3>2. n \in FilesIn("root") /\ a[p][n] = <<entries["root"][n], version[entries["root"][n]]>>
          /\ entries["root"][n] \in FileNodes
      BY <1>1, <2>3, <3>1, FilesHere DEF FilesAre, FilesIn
    <3>. QED  BY <1>2, <3>2
  <2>. QED  BY <1>1, <1>2, <1>3, <1>4, <2>1, <2>2, <2>3 DEF Shape, Paths
<1>. QED  BY <1>5, <1>6, <1>7

LEMMA LastBegins ==
  ASSUME TreeInv, Base, NotesInv, PackageInv, Surveys, Leave, BeginsRound, Going',
         LastRound', result = "running"
  PROVE  \E m \in moments' : \E T \in [DirNodes -> Nat] : LastIs(m, T)'
<1>1. Step
  BY DEF Step
<1>2. /\ UNCHANGED <<kind, entries, touched, version>> /\ moments \subseteq moments'
      /\ Reader' = Reader /\ (Packs' <=> Packs)
  BY <1>1, StepFacts DEF Packs, Surveys
<1>3. /\ round # Len(Reader.rounds) /\ round' = round + 1 /\ now'.at = "begin"
      /\ before' = (IF Compared THEN noted ELSE before)
      /\ noted' = {} /\ records' = records /\ ~Inner
  BY DEF BeginsRound
<1>4. /\ now.at = "next" /\ Top.listed /\ Top.todo = {}
  BY DEF Leave, At
<1>5. PICK m \in moments : m = Moment
  BY DEF TreeInv
<1>6. PICK T \in [DirNodes -> Nat] : T = touched
  BY DEF TreeInv
<1>7. AreNotes /\ TheySay
  BY DEF NotesInv
<1>8. ~LastRound /\ before' \subseteq noted \cup before
  BY <1>3 DEF LastRound
<1>9. m.version = version
  BY <1>5, MomentFacts DEF MomentIs
<1>10. Shape(m)
  BY <1>5, MomentShape
<1>11. Ordered(m, T)'
  <2>1. \A x \in DirNodes : T[x] <= touched[x]
    BY <1>6
  <2>2. \A f \in FileNodes : m.version[f] <= version[f]
    BY <1>9 DEF TreeInv
  <2>3. \A e \in before' : e.status.time <= TimeIn(T, m.version, e.status.inode)
    BY <1>6, <1>7, <1>8, <1>9 DEF AreNotes, IsNote
  <2>. QED  BY <1>2, <1>3, <2>1, <2>2, <2>3 DEF Ordered, InFile
<1>12. Agreed(m, T)'
  <2>1. SUFFICES ASSUME Steady(before', touched, version)
                 PROVE  /\ NotesAgree(before', m)
                        /\ Packs /\ NotesAll(before', m) =>
                             \A p \in Paths : FilesOf(m[p]) = records[p]
    BY <1>2, <1>3, <1>6, <1>9 DEF Agreed, NotesAgree, NoteAgrees
  <2>2. Says(noted) /\ Says(before)
    BY <1>7, <1>8 DEF TheySay
  <2>3. NotesAgree(before', m)
    BY <1>3, <1>5, <2>1, <2>2 DEF Says
  <2>4. ASSUME Packs, NotesAll(before', m) PROVE \A p \in Paths : FilesOf(m[p]) = records[p]
    <3>1. round = 2 /\ ~Compared
      <4>1. kind.reader = "package"
        BY <2>4 DEF Packs
      <4>2. Len(Reader.rounds) = 3 /\ round \in 1..3 /\ (Compared <=> round # 2)
        BY <4>1, SurveyFacts
      <4>3. round + 1 = 3
        BY <1>2, <1>3, <4>2 DEF LastRound
      <4>. QED  BY <4>2, <4>3
    <3>2. Held
      BY <1>3, <1>5, <2>1, <2>4, <3>1 DEF Held
    <3>3. now.at \in Looked /\ Current = {} /\ Top = Root
      BY <1>3, <1>4, FrameFacts DEF Base, Looked, Current, InFile
    <3>4. ReadSoFar("root", {}, {}) /\ FilesOf(Moment["d"]) = records["d"]
      BY <1>3, <1>4, <2>4, <3>1, <3>2, <3>3 DEF PackageInv, RootRead
    <3>5. FilesOf(Moment["root"]) = records["root"]
      BY <3>4, AllRead DEF Paths
    <3>. QED  BY <1>5, <3>4, <3>5 DEF Paths
  <2>. QED  BY <2>3, <2>4
<1>13. Was(m, T)'
  <2>1. DOMAIN m.root = Existing("root")
    BY <1>5, MomentFacts DEF MomentIs
  <2>2. ASSUME NEW x \in SubDirs, Sub(m, x)
        PROVE  entries["root"]["d"] = x /\ DOMAIN m.d = Existing(x)
    <3>1. PICK i : i = entries["root"]["d"]
      OBVIOUS
    <3>2. "d" \in Existing("root") /\ i \in SubDirs
      BY <2>1, <2>2, <3>1 DEF Sub, Existing, TreeInv, DirNodes
    <3>3. m.root["d"] = <<i>>
      BY <1>5, <3>1, <3>2, MomentFacts DEF MomentIs, SubDirs, FileNodes
    <3>4. <<i>>[1] = i /\ <<x>>[1] = x
      OBVIOUS
    <3>5. i = x /\ x \in DirNodes
      BY <2>2, <3>3, <3>4 DEF Sub, SubDirs, DirNodes
    <3>. QED  BY <1>5, <3>1, <3>5, MomentFacts DEF MomentIs
  <2>. QED  BY <1>2, <2>1, <2>2 DEF Was, Existing
<1>14. RootListed(m, T)' /\ SubListed(m, T)'
  BY <1>3 DEF RootListed, SubListed
<1>15. LastIs(m, T)'
  BY <1>10, <1>11, <1>12, <1>13, <1>14 DEF LastIs
<1>. QED  BY <1>2, <1>15

(* The names are listed when the round begins.                              *)
LEMMA LastLists ==
  ASSUME TreeInv, Base, NotesInv, Surveys, LastRound, Begin \/ Enumerate,
         NEW m, NEW T \in [DirNodes -> Nat], LastIs(m, T)
  PROVE  LastIs(m, T)'
<1>1. Step /\ First
  <2>1. /\ First <=> Compared
        /\ Compared <=> kind.reader = "sealed" \/ round # 2
        /\ Len(Reader.rounds) = IF kind.reader = "package" THEN 3 ELSE 2
        /\ kind.reader \in {"package", "sealed"}
    BY SurveyFacts
  <2>. QED  BY <2>1 DEF LastRound, Step
<1>2. /\ UNCHANGED <<kind, entries, touched, version>> /\ (Packs' <=> Packs)
      /\ Shape(m) /\ Ordered(m, T) /\ Agreed(m, T) /\ Was(m, T) /\ RootListed(m, T)
      /\ SubListed(m, T)
  BY <1>1, StepFacts DEF Packs, Surveys, LastIs
<1>3. UNCHANGED <<records, noted, before>> /\ now'.at \notin InFile
  <2>1. CASE Begin
    BY <2>1 DEF Begin, rounds, InFile
  <2>2. CASE Enumerate
    <3>1. now' = (IF now.path = "root" THEN [now EXCEPT !.path = "d"]
                  ELSE [at |-> "root", path |-> "root"]) /\ now.at = "enumerate"
      BY <2>2 DEF Enumerate, At
    <3>2. now'.at \notin InFile
      BY <3>1 DEF InFile
    <3>. QED  BY <2>2, <3>2 DEF Enumerate
  <2>. QED  BY <2>1, <2>2
<1>4. Ordered(m, T)'
  BY <1>2, <1>3 DEF Ordered
<1>5. Agreed(m, T)'
  BY <1>2, <1>3 DEF Agreed, NotesAgree, NoteAgrees
<1>6. Was(m, T)'
  BY <1>2 DEF Was, Existing
<1>7. RootListed(m, T)' /\ SubListed(m, T)'
  <2>1. CASE Begin
    <3>1. now' = [at |-> "enumerate", path |-> "root"]
      BY <1>1, <2>1 DEF Begin
    <3>. QED  BY <3>1 DEF RootListed, SubListed
  <2>2. CASE Enumerate
    <3>1. /\ now.at = "enumerate"
          /\ listing' = [listing EXCEPT ![now.path] = IF Directory(now.path) \in DirNodes
                                                      THEN Existing(Directory(now.path)) ELSE {}]
          /\ now' = IF now.path = "root" THEN [now EXCEPT !.path = "d"]
                    ELSE [at |-> "root", path |-> "root"]
          /\ now.path \in Paths /\ "path" \in DOMAIN now
          /\ listing \in [Paths -> SUBSET Names]
      BY <2>2 DEF Enumerate, At, Base, NowInv, RecordsInv
    <3>2. noted = {}
      BY <3>1 DEF NotesInv, NotesWhen, Looked
    <3>3. RootKept(T)' => touched["root"] = T["root"]
      BY <1>2, <1>3, <3>2 DEF RootKept
    <3>4. \A x \in SubDirs : SubKept(T, x)' => touched[x] = T[x]
      BY <1>2, <1>3, <3>2 DEF SubKept
    <3>5. CASE now.path = "root"
      <4>1. listing'["root"] = Existing("root")
        BY <3>1, <3>5 DEF Directory, DirNodes, Paths
      <4>2. now'.at = "enumerate"
        BY <3>1, <3>5
      <4>3. RootListed(m, T)'
        BY <1>2, <3>3, <4>1 DEF RootListed, Was
      <4>. QED  BY <4>2, <4>3 DEF SubListed
    <3>6. CASE now.path = "d"
      <4>1. now'.at = "root" /\ listing'["root"] = listing["root"]
        BY <3>1, <3>6 DEF Paths
      <4>2. RootListed(m, T)'
        BY <1>2, <3>1, <3>3, <3>6, <4>1 DEF RootListed, RootKept
      <4>3. ASSUME NEW x \in SubDirs, Sub(m, x), touched["root"] = T["root"], touched[x] = T[x]
            PROVE  listing'["d"] = DOMAIN m.d
        <5>1. entries["root"]["d"] = x /\ DOMAIN m.d = Existing(x) /\ x \in DirNodes
          BY <1>2, <4>3 DEF Was, SubDirs, DirNodes
        <5>. QED  BY <3>1, <3>6, <5>1 DEF Directory, Paths
      <4>. QED  BY <3>3, <3>4, <4>2, <4>3 DEF SubListed
    <3>. QED  BY <3>1, <3>5, <3>6 DEF Paths
  <2>. QED  BY <2>1, <2>2
<1>. QED  BY <1>2, <1>4, <1>5, <1>6, <1>7 DEF LastIs

LEMMA LastRuns ==
  ASSUME TreeInv, Base, NotesInv, Surveys, LastRound, Step, ~Begin, ~Enumerate, Going',
         UNCHANGED <<round, before, listing>>,
         NEW m, NEW T \in [DirNodes -> Nat], LastIs(m, T)
  PROVE  LastIs(m, T)'
<1>1. /\ Reader.notes = "all" /\ kind.shows /\ Compared
      /\ kind.reader = "package" => ~Does("read")
      /\ kind.reader = "sealed" => ~Reader.after
      /\ kind.reader \in {"package", "sealed"}
  <2>1. /\ Compared <=> kind.reader = "sealed" \/ round # 2
        /\ Len(Reader.rounds) = IF kind.reader = "package" THEN 3 ELSE 2
        /\ kind.reader \in {"package", "sealed"}
        /\ Does("read") <=> kind.reader = "sealed" \/ round = 2
        /\ Reader.after <=> kind.reader = "package"
        /\ Reader.notes = "all" /\ kind.shows
    BY SurveyFacts
  <2>. QED  BY <2>1 DEF LastRound
<1>2. Shape(m) /\ Ordered(m, T)
  BY DEF LastIs
<1>3. /\ now.at \in InFile => m.version[now.looked.inode] <= now.looked.time
      /\ \A f \in FileNodes : m.version[f] <= version[f]
      /\ \A x \in DirNodes : T[x] <= touched[x]
  BY <1>2 DEF Ordered
<1>4. "root" \in DirNodes /\ SubDirs \subseteq DirNodes /\ \A f \in FileNodes : f \notin DirNodes
  BY DEF DirNodes, SubDirs, FileNodes
<1>5. now.at \notin {"begin", "enumerate"}
  BY DEF Step, LookAtRoot, List, Look, Enter, Open, Read, Close, Leave, At
<1>6. CASE LookAtRoot
  <2>1. PICK e : e = [path |-> "root", name |-> ".", status |-> DirStatus("root"), read |-> <<>>]
    OBVIOUS
  <2>2. /\ noted' = noted \cup {e} /\ records' = records /\ now'.at = "next"
    BY <1>1, <1>6, <2>1, RootFacts DEF NoteDirectory, Note
  <2>3. e.name = "." /\ e.status.inode = "root" /\ e.status.time = touched["root"]
    BY <2>1 DEF DirStatus
  <2>4. TimeIn(T, m.version, e.status.inode) <= e.status.time
    BY <1>3, <1>4, <2>3 DEF TimeIn
  <2>. QED  BY <1>5, <2>2, <2>3, <2>4, LastStep DEF InFile
<1>7. CASE Look
  <2>1. PICK n \in Names, i \in FileNodes \cup SubDirs : Takes(n, i)
    BY <1>7, LookFacts
  <2>2. records' = records /\ (TakesDirectory(n, i) \/ TakesFile(n, i))
    BY <2>1 DEF Takes
  <2>3. CASE TakesDirectory(n, i)
    <3>1. PICK e : e = [path |-> Top.path, name |-> n, status |-> DirStatus(i), read |-> <<>>]
      OBVIOUS
    <3>2. /\ noted' = noted \cup {e} /\ now'.at = "enter" /\ i \in SubDirs /\ n = "d"
      BY <1>1, <2>3, <3>1 DEF TakesDirectory, NoteDirectory, Note
    <3>3. e.name = "d" /\ e.status.inode = i /\ e.status.time = touched[i]
      BY <3>1, <3>2 DEF DirStatus
    <3>4. TimeIn(T, m.version, e.status.inode) <= e.status.time
      BY <1>3, <1>4, <3>2, <3>3 DEF TimeIn
    <3>. QED  BY <1>5, <2>2, <3>2, <3>3, <3>4, LastStep DEF InFile
  <2>4. CASE TakesFile(n, i)
    <3>1. PICK e : e = [path |-> Top.path, name |-> n, status |-> FileStatus(i), read |-> <<>>]
      OBVIOUS
    <3>2. /\ noted' \in {noted, noted \cup {e}} /\ i \in FileNodes /\ n \in FileNames
          /\ now'.at = "next" \/ (now'.looked = FileStatus(i))
      BY <1>1, <2>4, <3>1 DEF TakesFile, Note
    <3>3. e.name # "." /\ e.name # "d" /\ e.status.inode = i /\ e.status.time = version[i]
      BY <1>1, <3>1, <3>2 DEF FileStatus, FileNames
    <3>4. TimeIn(T, m.version, e.status.inode) <= e.status.time
      BY <1>3, <1>4, <3>2, <3>3 DEF TimeIn
    <3>5. now'.at \in InFile => m.version[now'.looked.inode] <= now'.looked.time
      BY <1>1, <1>3, <3>2 DEF FileStatus, InFile
    <3>. QED  BY <1>5, <2>2, <3>2, <3>3, <3>4, <3>5, LastStep
  <2>. QED  BY <2>2, <2>3, <2>4
<1>8. CASE Close
  <2>1. Does("read") /\ now.at = "read" /\ now.at \in InFile /\ now.name \in FileNames
    BY <1>8, CloseFacts DEF Base, NowInv, InFile
  <2>2. kind.reader = "sealed" /\ ~Packs
    BY <1>1, <2>1 DEF Packs
  <2>3. PICK e : e = [path |-> Top.path, name |-> now.name, status |-> now.looked, read |-> WasRead]
    OBVIOUS
  <2>4. noted' = noted \cup {e} /\ now'.at = "next"
    BY <1>1, <1>8, <2>2, <2>3, CloseFacts DEF Note
  <2>5. e.name # "." /\ e.name # "d" /\ e.status = now.looked
    BY <2>1, <2>3 DEF FileNames
  <2>6. TimeIn(T, m.version, e.status.inode) <= e.status.time
    <3>1. now.looked.inode \in FileNodes
      BY <2>1 DEF Base, NowInv
    <3>. QED  BY <1>3, <1>4, <2>1, <2>5, <3>1 DEF TimeIn
  <2>. QED  BY <1>5, <2>2, <2>4, <2>5, <2>6, LastStep DEF InFile
<1>9. CASE List \/ Enter \/ Open \/ Read \/ Leave
  <2>1. noted' = noted /\ records' = records
    <3>1. CASE List \/ Enter \/ Open \/ Read
      BY <3>1, ListFacts, EnterFacts, OpenFacts, ReadFacts
    <3>2. CASE Leave
      <4>1. ~BeginsRound
        BY DEF BeginsRound, LastRound
      <4>. QED  BY <3>2, <4>1, LeaveFacts DEF Going, Ends, LeavesInner
    <3>. QED  BY <1>9, <3>1, <3>2
  <2>2. now'.at \in InFile => m.version[now'.looked.inode] <= now'.looked.time
    <3>1. CASE List \/ Enter \/ Leave
      <4>1. now'.at = "next"
        <5>1. CASE List
          <6>1. now.at = "next" /\ now' = now
            BY <5>1, ListFacts
          <6>. QED  BY <6>1
        <5>2. CASE Enter
          <6>1. now' = [at |-> "next"]
            BY <5>2, EnterFacts
          <6>. QED  BY <6>1
        <5>3. CASE Leave
          <6>1. ~BeginsRound
            BY DEF BeginsRound, LastRound
          <6>. QED  BY <5>3, <6>1, LeaveFacts DEF Going, Ends, LeavesInner
        <5>. QED  BY <3>1, <5>1, <5>2, <5>3
      <4>. QED  BY <4>1 DEF InFile
    <3>2. CASE Open
      BY <1>3, <3>2, OpenFacts DEF InFile
    <3>3. CASE Read
      BY <1>3, <3>3, ReadFacts DEF InFile
    <3>. QED  BY <1>9, <3>1, <3>2, <3>3
  <2>. QED  BY <1>5, <2>1, <2>2, LastStep
<1>. QED  BY <1>6, <1>7, <1>8, <1>9 DEF Step

LEMMA LastStays ==
  ASSUME TreeInv, TreeInv', Base, Base', NotesInv, PackageInv, LastInv, Step, Going'
  PROVE  LastInv'
<1>1. /\ (Surveys' <=> Surveys) /\ Reader' = Reader /\ moments \subseteq moments'
      /\ (Leave /\ BeginsRound) \/ UNCHANGED <<round, before>>
      /\ Enumerate \/ UNCHANGED listing
  BY StepFacts, SameRound DEF Surveys
<1>2. SUFFICES ASSUME Surveys, LastRound'
               PROVE  \E m \in moments' : \E T \in [DirNodes -> Nat] : LastIs(m, T)'
  BY <1>1 DEF LastInv
<1>3. CASE Leave /\ BeginsRound
  <2>1. result = "running"
    BY <1>3 DEF Leave, At
  <2>. QED  BY <1>2, <1>3, <2>1, LastBegins
<1>4. CASE UNCHANGED <<round, before>>
  <2>1. LastRound
    BY <1>1, <1>2, <1>4 DEF LastRound
  <2>2. PICK m \in moments : \E T \in [DirNodes -> Nat] : LastIs(m, T)
    BY <1>2, <2>1 DEF LastInv
  <2>3. PICK T \in [DirNodes -> Nat] : LastIs(m, T)
    BY <2>2
  <2>4. CASE Begin \/ Enumerate
    BY <1>1, <1>2, <2>1, <2>3, <2>4, LastLists
  <2>5. CASE ~Begin /\ ~Enumerate
    BY <1>1, <1>2, <1>4, <2>1, <2>3, <2>5, LastRuns
  <2>. QED  BY <1>1, <2>4, <2>5
<1>. QED  BY <1>1, <1>3, <1>4

-----------------------------------------------------------------------------
(* What is recorded when the scan ends.                                     *)
Done ==
  /\ now.at = "next" /\ ~Inner /\ Root.listed /\ Root.todo = {}
  /\ Undisturbed /\ Repeats /\ round = Len(Reader.rounds)

LEMMA EndFacts ==
  ASSUME TreeInv, Base, Leave, Ends
  PROVE  /\ Done
         /\ UNCHANGED <<kind, entries, touched, version, moments, records, noted, before, round>>
<1>1. /\ now.at = "next" /\ Top.listed /\ Top.todo = {} /\ Undisturbed
      /\ UNCHANGED <<kind, tree>>
  BY LeaveFacts DEF Ends
<1>2. ~Inner /\ Repeats /\ round = Len(Reader.rounds) /\ UNCHANGED <<records, noted, rounds>>
  BY DEF Ends
<1>3. Top = Root
  BY <1>1, <1>2, FrameFacts DEF Base, Looked
<1>. QED  BY <1>1, <1>2, <1>3 DEF Done, tree, rounds

LEMMA EndPlaced ==
  ASSUME TreeInv, Placed, kind.reader \notin Leaving \cup {"sealed"}, Telling
  PROVE  EachWasThere
<1>1. ~Reader.leave
  BY ReaderTable DEF Reader, TreeInv, Kinds
<1>2. RecordsPlaced
  BY DEF Placed, Placeable
<1>. QED  BY <1>1, <1>2 DEF RecordsPlaced, EachWasThere, Placing, InPlace, WasThere

(* Each note of a round has one in the other that says the same.            *)
SameNote(d, e) ==
  /\ d.path = e.path /\ d.name = e.name /\ d.status = e.status
  /\ ~kind.returns => d.read = e.read
Matched ==
  /\ \A e \in noted : \E d \in before : SameNote(d, e)
  /\ \A e \in before : \E d \in noted : SameNote(d, e)

LEMMA RepeatsMatch ==
  ASSUME Repeats, Compared, before # {}
  PROVE  Matched
<1>1. Found(noted) = Found(before)
  BY DEF Repeats
<1>2. ASSUME NEW N, NEW M, Found(N) = Found(M), NEW e \in N
      PROVE  \E d \in M : SameNote(d, e)
  <2>1. <<e.path, e.name, e.status, Digest(e.read)>> \in Found(M)
    BY <1>2 DEF Found
  <2>2. PICK d \in M : <<d.path, d.name, d.status, Digest(d.read)>>
                        = <<e.path, e.name, e.status, Digest(e.read)>>
    BY <2>1 DEF Found
  <2>. QED  BY <2>2 DEF SameNote, Digest
<1>. QED  BY <1>1, <1>2 DEF Matched

LEMMA EndFiling ==
  ASSUME TreeInv, Base, FilesInv, FilesTwice, Done
  PROVE  HeldAtOnce
<1>1. FileNotes /\ RecordsNoted /\ FirstNoted /\ FilesBetween
  BY DEF FilesInv
<1>2. round = 3 /\ Compared
  <2>1. kind \in Kinds /\ kind.reader \in Filing /\ round \in 1..Len(Reader.rounds)
    BY DEF FilesTwice, TreeInv, Base, StackInv
  <2>2. round = Len(Reader.rounds)
    BY DEF Done
  <2>3. Len(Reader.rounds) = 3 /\ (Compared <=> round # 2)
    BY <2>1, RoundFacts
  <2>. QED  BY <2>2, <2>3
<1>3. Matched
  BY <1>1, <1>2, RepeatsMatch DEF FirstNoted, Done
<1>4. PICK m \in moments : Between(m)
  BY <1>1, <1>2 DEF FilesBetween, Done
<1>5. ASSUME NEW p \in Paths, NEW n \in DOMAIN records[p]
      PROVE  m.version[records[p][n][1]] = records[p][n][2]
  <2>1. PICK e \in noted \cup before : e.read = records[p][n]
    BY <1>1, <1>5 DEF RecordsNoted
  <2>2. PICK i \in FileNodes, t \in Nat : /\ i = e.status.inode /\ t = e.status.time
                                         /\ e.read = <<i, t>>
    BY <1>1, <2>1 DEF FileNotes, FileNote
  <2>3. m.version[i] \in Nat /\ t <= m.version[i] /\ m.version[i] <= t
    <3>1. \E d \in noted : d.status = e.status
      BY <1>3, <2>1 DEF Matched, SameNote
    <3>2. \E d \in before : d.status = e.status
      BY <1>3, <2>1 DEF Matched, SameNote
    <3>. QED  BY <1>4, <2>2, <3>1, <3>2 DEF Between
  <2>4. m.version[i] = t
    BY <2>3
  <2>5. <<i, t>>[1] = i /\ <<i, t>>[2] = t
    OBVIOUS
  <2>. QED  BY <2>1, <2>2, <2>4, <2>5
<1>. QED  BY <1>4, <1>5 DEF HeldAtOnce

LEMMA EndLeaving ==
  ASSUME TreeInv, Base, LeaveInv, kind.reader \in Leaving, Telling, Done, result = "running"
  PROVE  /\ EachWasThere
         /\ AllZero => DirectoryAtOnce
<1>1. NothingYet /\ RootRecorded /\ InnerRecorded
  BY DEF LeaveInv
<1>2. Reader.leave
  BY ReaderTable DEF Reader, TreeInv, Kinds
<1>3. /\ Root \in Frames /\ Top = Root /\ Root.path = "root" /\ Root.expected.inode = "root"
      /\ now.at \in Looked /\ Current = {}
  BY FrameFacts DEF Base, StackInv, Done, Looked, Current, InFile
<1>4. Stays(Root)
  BY <1>2, <1>3 DEF Done, Undisturbed, DirStatus, Stays
<1>5. Recorded(Root, {}) /\ SubRecorded
  BY <1>1, <1>3, <1>4 DEF RootRecorded, InnerRecorded, Done
<1>6. EachWasThere
  BY <1>3, <1>5 DEF Recorded, SubRecorded, EachWasThere, WasThere, Paths
<1>7. ASSUME AllZero PROVE DirectoryAtOnce
  <2>1. FilesOf(Moment["root"]) = records["root"]
    BY <1>3, <1>5, <1>7, AtOnce DEF Done
  <2>2. result = "running" => Moment \in moments
    BY DEF TreeInv
  <2>3. DOMAIN records["d"] # {} => SubAtOnce
    BY <1>5, <1>7 DEF SubRecorded
  <2>. QED  BY <2>1, <2>2, <2>3 DEF DirectoryAtOnce, SubAtOnce, Paths
<1>. QED  BY <1>6, <1>7

LEMMA EndAgrees ==
  ASSUME TreeInv, Base, NotesInv, Surveys, Done,
         NEW m, NEW T \in [DirNodes -> Nat], LastIs(m, T)
  PROVE  /\ Matched /\ Steady(before, T, m.version) /\ NotesAgree(before, m)
         /\ Steady(noted, T, m.version) /\ NotesAgree(noted, m)
         /\ \A e \in noted : IsNote(e)
         /\ Compared
<1>1. AreNotes /\ AreRooted /\ NotesWhen
  BY DEF NotesInv
<1>2. Compared /\ round # 1
  <2>1. /\ Compared <=> kind.reader = "sealed" \/ round # 2
        /\ Len(Reader.rounds) = IF kind.reader = "package" THEN 3 ELSE 2
        /\ kind.reader \in {"package", "sealed"}
    BY SurveyFacts
  <2>2. round = Len(Reader.rounds)
    BY DEF Done
  <2>. QED  BY <2>1, <2>2
<1>3. Matched
  BY <1>1, <1>2, RepeatsMatch DEF Done, NotesWhen
<1>4. Shape(m) /\ Ordered(m, T) /\ Agreed(m, T)
  BY DEF LastIs
<1>5. ASSUME NEW e \in before
      PROVE  e.status.time = TimeIn(T, m.version, e.status.inode)
  <2>1. PICK i \in DirNodes \cup FileNodes, t \in Nat : i = e.status.inode /\ t = e.status.time
    BY <1>1, <1>5 DEF AreNotes, IsNote
  <2>2. TimeIn(T, m.version, i) \in Nat
    BY <1>4 DEF TimeIn, Shape
  <2>3. t <= TimeIn(T, m.version, i) /\ TimeIn(T, m.version, i) <= t
    <3>1. PICK d \in noted : d.status = e.status
      BY <1>3, <1>5 DEF Matched, SameNote
    <3>. QED  BY <1>4, <1>5, <2>1, <3>1 DEF Ordered
  <2>4. t = TimeIn(T, m.version, i)
    BY <2>2, <2>3
  <2>. QED  BY <2>1, <2>4
<1>6. Steady(before, T, m.version)
  BY <1>5 DEF Steady
<1>7. NotesAgree(before, m)
  BY <1>4, <1>6 DEF Agreed
<1>8. ASSUME NEW e \in noted
      PROVE  e.status.time = TimeIn(T, m.version, e.status.inode) /\ NoteAgrees(e, m)
  <2>1. PICK d \in before : SameNote(d, e)
    BY <1>3, <1>8 DEF Matched
  <2>2. kind.reader = "sealed" => ~kind.returns
    BY SurveyFacts
  <2>3. NoteAgrees(d, m)
    BY <1>7, <2>1 DEF NotesAgree
  <2>. QED  BY <1>5, <2>1, <2>2, <2>3 DEF SameNote, NoteAgrees
<1>9. Steady(noted, T, m.version) /\ NotesAgree(noted, m)
  BY <1>8 DEF Steady, NotesAgree
<1>. QED  BY <1>1, <1>2, <1>3, <1>6, <1>7, <1>9 DEF AreNotes

LEMMA EndNoted ==
  ASSUME TreeInv, Base, NotesInv, ListNoted, Surveys, Done,
         NEW m, NEW T \in [DirNodes -> Nat], LastIs(m, T)
  PROVE  NotesAll(before, m)
<1>1. /\ Matched /\ Steady(noted, T, m.version) /\ NotesAgree(noted, m) /\ Compared
      /\ \A e \in noted : IsNote(e)
  BY EndAgrees
<1>2. /\ now.at = "next" /\ ~Inner /\ Root.listed /\ Root.todo = {} /\ Current = {}
      /\ now.at \in Looked
  BY DEF Done, Looked, Current, InFile
<1>3. Shape(m) /\ RootListed(m, T) /\ SubListed(m, T)
  BY DEF LastIs
<1>4. Has(noted, "root", ".")
  BY <1>1, <1>2 DEF NotesInv, NotesWhen
<1>5. RootKept(T)
  <2>1. PICK e \in noted : e.path = "root" /\ e.name = "."
    BY <1>4 DEF Has
  <2>2. e.status.time = T["root"]
    BY <1>1, <2>1 DEF Steady, IsNote, TimeIn, DirNodes
  <2>. QED  BY <2>1, <2>2 DEF RootKept
<1>6. listing["root"] = DOMAIN m.root
  BY <1>2, <1>3, <1>5 DEF RootListed
<1>7. \A n \in DOMAIN m.root : Has(noted, "root", n)
  BY <1>1, <1>2, <1>6 DEF ListNoted, RootNoted
<1>8. \A n \in DOMAIN m.d : Has(noted, "d", n)
  <2>1. CASE "d" \notin DOMAIN m.root
    BY <1>3, <2>1 DEF Shape
  <2>2. CASE "d" \in DOMAIN m.root
    <3>1. PICK x \in SubDirs : Sub(m, x)
      BY <1>3, <2>2 DEF Shape
    <3>2. PICK e \in noted : e.path = "root" /\ e.name = "d"
      BY <1>7, <2>2 DEF Has
    <3>3. PICK i : i = e.status.inode
      OBVIOUS
    <3>4. i \in SubDirs /\ m.root["d"] = <<i>> /\ m.root["d"] = <<x>>
      BY <1>1, <3>1, <3>2, <3>3 DEF IsNote, NotesAgree, NoteAgrees, Sub
    <3>5. <<i>>[1] = i /\ <<x>>[1] = x
      OBVIOUS
    <3>6. i = x /\ x \in DirNodes
      BY <3>4, <3>5 DEF SubDirs, DirNodes
    <3>7. e.status.time = T[x]
      BY <1>1, <3>2, <3>3, <3>6 DEF Steady, TimeIn
    <3>8. SubKept(T, x)
      BY <3>2, <3>3, <3>6, <3>7 DEF SubKept
    <3>9. listing["d"] = DOMAIN m.d
      BY <1>2, <1>3, <1>5, <3>1, <3>8 DEF SubListed
    <3>. QED  BY <1>1, <1>2, <1>6, <2>2, <3>9 DEF ListNoted, SubNoted
  <2>. QED  BY <2>1, <2>2
<1>9. \A p, n : Has(noted, p, n) => Has(before, p, n)
  BY <1>1 DEF Has, Matched, SameNote
<1>. QED  BY <1>4, <1>7, <1>8, <1>9 DEF NotesAll, Paths

LEMMA EndSealed ==
  ASSUME TreeInv, Base, NotesInv, ListNoted, SealedNoted, Surveys, Done, kind.reader = "sealed",
         NEW m, NEW T \in [DirNodes -> Nat], LastIs(m, T), NEW p \in Paths
  PROVE  FilesOf(m[p]) = records[p]
<1>1. /\ NotesAgree(noted, m) /\ NotesAgree(before, m) /\ NotesAll(before, m) /\ Shape(m)
  BY EndAgrees, EndNoted DEF LastIs
<1>2. /\ \A n \in DOMAIN records[p] : RecordNoted(p, n)
      /\ \A e \in noted \cup before : e.name \in FileNames => e.name \in DOMAIN records[e.path]
  BY DEF SealedNoted, Sealed
<1>3. PICK r, q : r = records[p] /\ q = m[p]
  OBVIOUS
<1>4. IsPlain(r) /\ DOMAIN r \subseteq FileNames
  BY <1>3 DEF Base, RecordsInv
<1>5. ASSUME NEW n \in DOMAIN r PROVE n \in DOMAIN q /\ r[n] = q[n]
  <2>1. PICK e \in noted \cup before : e.path = p /\ e.name = n /\ e.read = r[n]
    BY <1>2, <1>3, <1>5 DEF RecordNoted
  <2>2. NoteAgrees(e, m) /\ n \in FileNames
    BY <1>1, <1>4, <1>5, <2>1 DEF NotesAgree
  <2>. QED  BY <1>3, <2>1, <2>2 DEF NoteAgrees
<1>6. ASSUME NEW n \in DOMAIN q \cap FileNames PROVE n \in DOMAIN r /\ q[n][1] \in FileNodes
  <2>1. PICK e \in before : e.path = p /\ e.name = n
    BY <1>1, <1>3, <1>6 DEF NotesAll, Has
  <2>2. PICK i \in FileNodes : q[n] = <<i, m.version[i]>>
    BY <1>1, <1>3, <1>6 DEF Shape
  <2>3. <<i, m.version[i]>>[1] = i
    OBVIOUS
  <2>. QED  BY <1>2, <1>3, <1>6, <2>1, <2>2, <2>3
<1>7. ASSUME NEW n \in DOMAIN q, q[n][1] \in FileNodes PROVE n \in FileNames
  <2>1. n \in Names
    BY <1>1, <1>3, <1>7 DEF Shape
  <2>2. ASSUME n = "d" PROVE FALSE
    <3>1. p = "root"
      BY <1>1, <1>3, <1>7, <2>2 DEF Shape, Paths
    <3>2. PICK x \in SubDirs : q[n] = <<x>>
      BY <1>1, <1>3, <1>7, <2>2, <3>1 DEF Shape, Sub
    <3>3. <<x>>[1] = x
      OBVIOUS
    <3>. QED  BY <1>7, <3>2, <3>3 DEF SubDirs, FileNodes
  <2>. QED  BY <2>1, <2>2 DEF Names, FileNames
<1>8. {n \in DOMAIN q : q[n][1] \in FileNodes} = DOMAIN r
  BY <1>4, <1>5, <1>6, <1>7
<1>9. FilesOf(q) = [n \in DOMAIN r |-> q[n]]
  BY <1>8 DEF FilesOf
<1>10. r = [n \in DOMAIN r |-> r[n]]
  BY <1>4 DEF IsPlain
<1>. QED  BY <1>3, <1>5, <1>9, <1>10

LEMMA EndSurvey ==
  ASSUME TreeInv, Base, NotesInv, ListNoted, SealedNoted, LastInv, Surveys, Done
  PROVE  TreeAtOnce /\ HeldAtOnce /\ NoneIsTorn /\ EachWasThere
<1>1. PICK m \in moments : \E T \in [DirNodes -> Nat] : LastIs(m, T)
  BY DEF LastInv, LastRound, Done
<1>2. PICK T \in [DirNodes -> Nat] : LastIs(m, T)
  BY <1>1
<1>3. Shape(m)
  BY <1>2 DEF LastIs
<1>4. ASSUME NEW p \in Paths PROVE FilesOf(m[p]) = records[p]
  <2>1. CASE kind.reader = "sealed"
    BY <1>2, <2>1, EndSealed
  <2>2. CASE kind.reader = "package"
    BY <1>2, <2>2, EndAgrees, EndNoted DEF LastIs, Agreed, Packs
  <2>. QED  BY <2>1, <2>2 DEF Surveys, Surveying
<1>5. ASSUME NEW p \in Paths, NEW n \in DOMAIN records[p]
      PROVE  /\ n \in DOMAIN m[p] /\ m[p][n] = records[p][n]
             /\ \E i \in FileNodes : records[p][n] = <<i, m.version[i]>>
  <2>1. PICK q, r : q = m[p] /\ r = records[p]
    OBVIOUS
  <2>2. FilesOf(q) = r
    BY <1>4, <2>1
  <2>3. n \in DOMAIN q /\ q[n] = r[n]
    BY <1>5, <2>1, <2>2 DEF FilesOf
  <2>4. n \in FileNames
    BY <1>5 DEF Base, RecordsInv
  <2>. QED  BY <1>3, <2>1, <2>3, <2>4 DEF Shape
<1>6. TreeAtOnce
  BY <1>4 DEF TreeAtOnce
<1>7. \A i, v : <<i, v>>[1] = i /\ <<i, v>>[2] = v /\ Len(<<i, v>>) = 2
  OBVIOUS
<1>8. ASSUME NEW p \in Paths, NEW n \in DOMAIN records[p]
      PROVE  Len(records[p][n]) = 2 /\ m.version[records[p][n][1]] = records[p][n][2]
  <2>1. PICK i \in FileNodes : records[p][n] = <<i, m.version[i]>>
    BY <1>5, <1>8
  <2>2. PICK v : v = m.version[i]
    OBVIOUS
  <2>. QED  BY <1>7, <2>1, <2>2
<1>9. HeldAtOnce /\ NoneIsTorn
  BY <1>8 DEF HeldAtOnce, NoneIsTorn
<1>10. EachWasThere
  BY <1>5 DEF EachWasThere
<1>. QED  BY <1>6, <1>9, <1>10

-----------------------------------------------------------------------------
(* All of it, at any time of a scan.                                        *)
ScanInv ==
  /\ Base /\ Torn /\ Placed /\ FilesInv /\ LeaveInv
  /\ NotesInv /\ ListNoted /\ SealedNoted /\ PackageInv /\ LastInv
IndInv == TreeInv /\ (Going => ScanInv) /\ ScanIsTrue

LEMMA IndInit == Init => IndInv
<1>1. SUFFICES ASSUME Init PROVE IndInv
  OBVIOUS
<1>2. /\ kind \in Kinds /\ round = 1 /\ listing = [p \in Paths |-> {}] /\ stack = <<>>
      /\ now = [at |-> "begin"] /\ records = [p \in Paths |-> <<>>] /\ noted = {} /\ before = {}
      /\ result = "new"
  BY <1>1 DEF Init, Kinds
<1>3. TreeInv
  <2>1. /\ entries \in [DirNodes -> [Names -> FileNodes \cup SubDirs \cup {Absent}]]
        /\ \A x \in DirNodes : entries[x]["d"] \in SubDirs \cup {Absent}
        /\ \A x \in SubDirs : entries[x]["d"] = Absent
        /\ \A x \in DirNodes, n \in FileNames : entries[x][n] \in FileNodes \cup {Absent}
    BY <1>1 DEF Init, DirNodes, Names, FileNodes, SubDirs, Absent, FileNames
  <2>2. touched \in [DirNodes -> Nat] /\ version \in [FileNodes -> Nat]
    BY <1>1 DEF Init
  <2>. QED  BY <1>2, <2>1, <2>2 DEF TreeInv
<1>4. Len(Reader.rounds) \in Nat /\ Len(Reader.rounds) >= 1 /\ (Surveys => Len(Reader.rounds) # 1)
  <2>1. Reader = Readers[kind.reader] /\ kind.reader \in DOMAIN Readers
    BY <1>2 DEF Reader, Kinds
  <2>2. /\ \A s : Len(<<s>>) = 1
        /\ \A s, t : Len(<<s, t>>) = 2
        /\ \A s, t, u : Len(<<s, t, u>>) = 3
    OBVIOUS
  <2>3. CASE kind.reader \in Filing
    <3>1. Reader.rounds = <<"read", "list", "read">>
      BY <2>1, <2>3, ReaderTable DEF Filing
    <3>2. Len(Reader.rounds) = 3
      BY <2>2, <3>1
    <3>. QED  BY <3>2
  <2>4. CASE kind.reader = "package"
    <3>1. Reader.rounds = <<"survey", "read", "survey">>
      BY <2>1, <2>4, ReaderTable DEF Filing
    <3>2. Len(Reader.rounds) = 3
      BY <2>2, <3>1
    <3>. QED  BY <3>2
  <2>5. CASE kind.reader = "sealed"
    <3>1. Reader.rounds = <<"read", "read">>
      BY <2>1, <2>5, ReaderTable DEF Filing
    <3>2. Len(Reader.rounds) = 2
      BY <2>2, <3>1
    <3>. QED  BY <3>2
  <2>6. CASE kind.reader \notin Filing \cup Surveying
    <3>1. Reader.rounds = <<"read">>
      BY <2>1, <2>6, ReaderTable DEF Surveying
    <3>2. Len(Reader.rounds) = 1 /\ ~Surveys
      BY <2>2, <2>6, <3>1 DEF Surveys
    <3>. QED  BY <3>2
  <2>. QED  BY <2>3, <2>4, <2>5, <2>6 DEF Surveying
<1>5. \A p \in Paths : DOMAIN records[p] = {} /\ IsPlain(records[p])
  <2>1. IsPlain(<<>>) /\ DOMAIN <<>> = {}
    BY DEF IsPlain
  <2>. QED  BY <1>2, <2>1
<1>6. now.at = "begin" /\ now.at \notin Looked /\ now.at \notin InFile
  BY <1>2 DEF Looked, InFile
<1>7. Base
  <2>1. StackInv
    BY <1>2, <1>4, <1>6 DEF StackInv
  <2>2. NowInv
    BY <1>6 DEF NowInv, Looked, InFile
  <2>3. RecordsInv
    BY <1>2, <1>5 DEF RecordsInv
  <2>. QED  BY <2>1, <2>2, <2>3 DEF Base
<1>8. Torn /\ Placed
  BY <1>5, <1>6 DEF Torn, NoneIsTorn, Placed, RecordsPlaced, ReadPlaced
<1>9. FilesInv /\ LeaveInv
  <2>1. FileNotes /\ RecordsNoted /\ FirstNoted /\ FilesBetween
    BY <1>2, <1>5, <1>6 DEF FileNotes, RecordsNoted, FirstNoted, FilesBetween
  <2>2. NothingYet /\ RootRecorded /\ InnerRecorded /\ CurrentThere
    BY <1>5, <1>6 DEF NothingYet, RootRecorded, InnerRecorded, CurrentThere, Looked
  <2>. QED  BY <2>1, <2>2 DEF FilesInv, LeaveInv
<1>10. NotesInv
  <2>1. AreNotes /\ AreRooted /\ NotesWhen /\ LookedSays
    BY <1>2, <1>6 DEF AreNotes, AreRooted, Rooted, NotesWhen, LookedSays
  <2>2. TheySay
    BY <1>2 DEF TheySay, Says, NotesAgree
  <2>. QED  BY <2>1, <2>2 DEF NotesInv
<1>11. ListNoted /\ SealedNoted
  BY <1>2, <1>5, <1>6 DEF ListNoted, RootNoted, InnerNoted, SubNoted, SealedNoted
<1>12. PackageInv
  BY <1>2, <1>5, <1>6
     DEF PackageInv, NoRecords, NotYet, RootRead, InnerRead, OpenRead, Looked
<1>13. LastInv
  BY <1>2, <1>4 DEF LastInv, LastRound
<1>14. ScanIsTrue
  BY <1>2 DEF ScanIsTrue
<1>. QED  BY <1>3, <1>7, <1>8, <1>9, <1>10, <1>11, <1>12, <1>13, <1>14 DEF IndInv, ScanInv

LEMMA ScanGrows ==
  ASSUME TreeInv, TreeInv', Grows, ScanInv,
         UNCHANGED <<kind, rounds, stack, now, records, noted>>
  PROVE  ScanInv'
<1>1. /\ Base /\ Torn /\ Placed /\ FilesInv /\ LeaveInv
      /\ NotesInv /\ ListNoted /\ SealedNoted /\ PackageInv /\ LastInv
  BY DEF ScanInv
<1>2. Base' /\ Torn' /\ Placed'
  BY <1>1, BaseGrows, TornOthers, PlacedOthers
<1>3. FilesInv' /\ LeaveInv'
  BY <1>1, FilesOthers, LeaveOthers
<1>4. NotesInv' /\ ListNoted' /\ SealedNoted'
  BY <1>1, NotesOthers, ListedOthers, SealedOthers
<1>5. PackageInv' /\ LastInv'
  BY <1>1, PackageOthers, LastOthers
<1>. QED  BY <1>2, <1>3, <1>4, <1>5 DEF ScanInv

LEMMA ScanStays ==
  ASSUME TreeInv, ScanInv, Step, Going'
  PROVE  ScanInv'
<1>1. /\ Base /\ Torn /\ Placed /\ FilesInv /\ LeaveInv
      /\ NotesInv /\ ListNoted /\ SealedNoted /\ PackageInv /\ LastInv
  BY DEF ScanInv
<1>2. TreeInv' /\ Base'
  BY <1>1, TreeStays, BaseStays
<1>3. Torn' /\ Placed'
  BY <1>1, <1>2, TornStays, PlacedStays
<1>4. FilesInv' /\ LeaveInv'
  BY <1>1, <1>2, FilesStay, LeaveStays
<1>5. NotesInv' /\ ListNoted' /\ SealedNoted'
  BY <1>1, <1>2, NotesStay, ListedStay, SealedStay
<1>6. PackageInv' /\ LastInv'
  BY <1>1, <1>2, PackageStays, LastStays
<1>. QED  BY <1>2, <1>3, <1>4, <1>5, <1>6 DEF ScanInv

(* The scan says what it has found only when it has left the root for the   *)
(* last time.                                                               *)
LEMMA OnlyLeaveEnds ==
  ASSUME TreeInv, Base, Step, result' = "ok"
  PROVE  Leave /\ Ends
<1>1. Going
  BY DEF Step, Going, Begin, Enumerate, LookAtRoot, List, Look, Enter, Open, Read, Close, Leave, At
<1>2. ~Begin /\ ~Enumerate /\ ~LookAtRoot /\ ~List /\ ~Look /\ ~Enter /\ ~Open /\ ~Read /\ ~Close
  <2>1. ~Begin /\ ~Enumerate /\ ~LookAtRoot
    BY <1>1 DEF Begin, Enumerate, LookAtRoot, Going
  <2>2. ~List /\ ~Look /\ ~Enter
    BY <1>1 DEF List, Look, Enter, Fail, Going
  <2>3. ~Open /\ ~Read /\ ~Close
    BY <1>1 DEF Open, Read, Close, Fail, Going
  <2>. QED  BY <2>1, <2>2, <2>3
<1>3. Leave
  BY <1>2 DEF Step
<1>4. ~LeavesInner /\ ~BeginsRound
  BY <1>1 DEF LeavesInner, BeginsRound, Going
<1>. QED  BY <1>3, <1>4, LeaveFacts

LEMMA EndIsTrue ==
  ASSUME TreeInv, ScanInv, Step, result' = "ok"
  PROVE  ScanIsTrue'
<1>1. /\ Base /\ Torn /\ Placed /\ FilesInv /\ LeaveInv
      /\ NotesInv /\ ListNoted /\ SealedNoted /\ PackageInv /\ LastInv
  BY DEF ScanInv
<1>2. Leave /\ Ends
  BY <1>1, OnlyLeaveEnds
<1>3. /\ Done
      /\ UNCHANGED <<kind, entries, touched, version, moments, records, noted, before, round>>
  BY <1>1, <1>2, EndFacts
<1>4. result = "running"
  BY <1>2 DEF Leave, At
<1>5. kind.reader \in DOMAIN Readers
  BY DEF TreeInv, Kinds
<1>6. ASSUME Telling PROVE NoneIsTorn /\ EachWasThere
  <2>1. CASE kind.reader \in Leaving
    BY <1>1, <1>3, <1>4, <1>6, <2>1, EndLeaving DEF Torn, Leaving
  <2>2. CASE kind.reader \notin Leaving \cup {"sealed"}
    BY <1>1, <1>6, <2>2, EndPlaced DEF Torn
  <2>3. CASE kind.reader = "sealed"
    <3>1. Surveys
      <4>1. Reader.passes = 1 /\ "content" \notin Reader.known /\ ~Reader.after
        BY <1>5, <2>3, ReaderTable DEF Reader, Knowing
      <4>. QED  BY <1>6, <2>3, <4>1 DEF Surveys, Surveying, Telling, Exact
    <3>. QED  BY <1>1, <1>3, <3>1, EndSurvey
  <2>. QED  BY <2>1, <2>2, <2>3
<1>7. ASSUME Telling, Reader.leave, AllZero PROVE DirectoryAtOnce
  <2>1. kind.reader \in Leaving
    BY <1>5, <1>7, ReaderTable DEF Reader
  <2>. QED  BY <1>1, <1>3, <1>4, <1>7, <2>1, EndLeaving
<1>8. ASSUME Exact, kind.shows, Reader.notes # "nothing"
      PROVE  HeldAtOnce /\ (Reader.notes = "all" => TreeAtOnce)
  <2>1. CASE kind.reader \in Filing
    <3>1. FilesTwice /\ Reader.notes = "files"
      BY <1>5, <1>8, <2>1, ReaderTable DEF FilesTwice, Reader
    <3>. QED  BY <1>1, <1>3, <3>1, EndFiling
  <2>2. CASE kind.reader \in Surveying
    <3>1. Surveys
      <4>1. Reader.after => kind.reader # "sealed"
        BY <1>5, ReaderTable DEF Reader
      <4>. QED  BY <1>8, <2>2, <4>1 DEF Surveys, Surveying, Exact
    <3>. QED  BY <1>1, <1>3, <3>1, EndSurvey
  <2>3. CASE kind.reader \notin Filing \cup Surveying
    BY <1>5, <1>8, <2>3, ReaderTable DEF Reader
  <2>. QED  BY <2>1, <2>2, <2>3
<1>9. /\ NoneIsTorn' <=> NoneIsTorn
      /\ EachWasThere' <=> EachWasThere
      /\ DirectoryAtOnce' <=> DirectoryAtOnce
      /\ HeldAtOnce' <=> HeldAtOnce
      /\ TreeAtOnce' <=> TreeAtOnce
      /\ (Telling' <=> Telling) /\ (Exact' <=> Exact)
      /\ Reader' = Reader /\ version' = version /\ kind' = kind
  BY <1>3 DEF NoneIsTorn, EachWasThere, DirectoryAtOnce, HeldAtOnce, TreeAtOnce, Telling,
              Exact, Placing, Reader
<1>. QED  BY <1>6, <1>7, <1>8, <1>9 DEF ScanIsTrue, AllZero

LEMMA IndNext == IndInv /\ [Next]_vars => IndInv'
<1>1. SUFFICES ASSUME TreeInv, Going => ScanInv, ScanIsTrue, [Next]_vars PROVE IndInv'
  BY DEF IndInv
<1>2. CASE Others
  <2>1. TreeInv' /\ Grows /\ Going /\ UNCHANGED <<kind, rounds, stack, now, records, noted, result>>
    BY <1>1, <1>2, OthersGrow
  <2>2. ScanInv'
    BY <1>1, <2>1, ScanGrows
  <2>3. ScanIsTrue'
    BY <2>1 DEF ScanIsTrue, Going
  <2>. QED  BY <2>1, <2>2, <2>3 DEF IndInv
<1>3. CASE Step
  <2>1. Going
    BY <1>3 DEF Step, Going, Begin, Enumerate, LookAtRoot, List, Look, Enter, Open, Read, Close,
                Leave, At
  <2>2. TreeInv'
    BY <1>1, <1>3, TreeStays
  <2>3. Going' => ScanInv'
    BY <1>1, <1>3, <2>1, ScanStays
  <2>4. ScanIsTrue'
    <3>1. CASE result' = "ok"
      BY <1>1, <1>3, <2>1, <3>1, EndIsTrue
    <3>2. CASE result' # "ok"
      BY <3>2 DEF ScanIsTrue
    <3>. QED  BY <3>1, <3>2
  <2>. QED  BY <2>2, <2>3, <2>4 DEF IndInv
<1>4. CASE UNCHANGED vars
  <2>1. UNCHANGED <<kind, entries, touched, version, moments, rounds, stack, now, records, noted, result>>
    BY <1>4 DEF vars, tree
  <2>2. TreeInv' /\ Moment' = Moment
    <3>1. Moment' = Moment
      BY <2>1 DEF Moment, Content, Existing
    <3>. QED  BY <1>1, <2>1, <3>1 DEF TreeInv
  <2>3. Grows
    <3>1. /\ \A x \in DirNodes : touched[x] \in Nat
          /\ \A f \in FileNodes : version[f] \in Nat
      BY <1>1 DEF TreeInv
    <3>. QED  BY <2>1, <3>1 DEF Grows
  <2>4. Going' => ScanInv'
    BY <1>1, <2>1, <2>2, <2>3, ScanGrows DEF Going
  <2>5. ScanIsTrue'
    BY <1>1, <2>1 DEF ScanIsTrue, NoneIsTorn, EachWasThere, DirectoryAtOnce, HeldAtOnce, TreeAtOnce,
                      Telling, Exact, Placing, Reader
  <2>. QED  BY <2>2, <2>4, <2>5 DEF IndInv
<1>. QED  BY <1>1, <1>2, <1>3, <1>4 DEF Next, Others

(* What a scan that succeeds has recorded was there (see ScanIsTrue), for   *)
(* each of the fourteen readers, whatever others do to the tree while it    *)
(* is read, and however often.                                              *)
THEOREM ScansAreTrue == Spec => []ScanIsTrue
<1>1. IndInv => ScanIsTrue
  BY DEF IndInv
<1>. QED  BY <1>1, IndInit, IndNext, PTL DEF Spec
=============================================================================
