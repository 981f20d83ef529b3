------------------------------ MODULE StableScan ------------------------------
(***************************************************************************)
(* How the harness reads files that other people may change meanwhile: it  *)
(* compares the status of a file or directory at different times.  Its     *)
(* readers compare different things; each is a record below.               *)
(*                                                                         *)
(* The tree is a root with a file f and a directory d, with a file g.  A   *)
(* file is read in two pieces.  What it holds is which file it is and the  *)
(* number of its writes; its bytes are the same after two writes where     *)
(* contents come back, and then its digests are.  The status of a file is  *)
(* its inode and its times, that of a directory its inode and the number   *)
(* of changes of its entries.  The root is not replaced.                   *)
(***************************************************************************)
EXTENDS Naturals, Sequences, SequencesExt

CONSTANTS
  MaxChanges   \* bound on the changes by others

FileNodes == {"a", "b", "c"}        \* c is in the tree when somebody has put it there,
DirNodes == {"root", "s", "s2"}     \* and so is s2, which holds nothing
Names == {"d", "f", "g"}
Paths == {"root", "d"}
Absent == "none"

VARIABLES
  kind,      \* the reader, whether a write shows in the times of the file, and whether
             \* every second write returns to the content before it
  entries,   \* directory -> name -> inode, or Absent
  touched,   \* directory -> changes of its entries
  version,   \* file -> writes of it
  changes,   \* changes by others
  moments,   \* what the tree was during the scan
  round,     \* the reader may go over the tree several times
  listing,   \* path -> the names that a round has found first
  stack,     \* the directories that are being read: the innermost first
  now,       \* the entry that is being read
  records,   \* path -> name -> what was read
  noted,     \* what this round will be compared by
  before,    \* and what it is compared with
  result     \* "new", "running", "ok" or "failed"

tree == <<entries, touched, version, changes, moments>>
rounds == <<round, listing, before>>
vars == <<kind, tree, rounds, stack, now, records, noted, result>>

-----------------------------------------------------------------------------
(* The readers.                                                             *)

\* One file, between two looks at its status.
OneFile ==
  [names |-> "alone",      \* what is read: one file, "entries", or the names "listed"
   rounds |-> <<"read">>,  \* what each round does
   first |-> {},           \* the rounds that list all names before they do anything
   byPath |-> FALSE,       \* each file is opened by its path from the root
   same |-> {},            \* what is opened is what was looked at: "file", "directory" or
                           \* only its "inode"
   passes |-> 1,           \* times that a file is read
   reopens |-> FALSE,      \* each time it is opened again
   after |-> TRUE,         \* its status is compared when it was read
   path |-> FALSE,         \* and so is that of its path
   leave |-> FALSE,        \* so is a directory's when it is left
   known |-> {},           \* what is known beforehand: "content", "status", "names"
   notes |-> "nothing"]    \* what two rounds are compared by: "files" or "all"

Tree == [OneFile EXCEPT !.names = "entries"]

\* scan_tree: every file is hashed twice.
ReadyTree == [Tree EXCEPT !.same = {"file", "directory"}, !.passes = 2, !.leave = TRUE]

\* validate_exact_tree.
PublicPool == [Tree EXCEPT !.same = {"directory"}, !.path = TRUE, !.leave = TRUE,
                           !.known = {"content", "names"}]

\* load_native_unit_inventory: the files are read, listed and read again.
UnitInventory == [OneFile EXCEPT !.names = "listed", !.rounds = <<"read", "list", "read">>,
                                 !.same = {"file"}, !.path = TRUE, !.notes = "files"]

\* discover_font_root.
FontRoot == [Tree EXCEPT !.same = {"file", "inode"}]

\* validate_font_snapshot (which lists the root before it reads).
FontBundle == [OneFile EXCEPT !.names = "listed", !.rounds = <<"read", "list", "read">>,
                              !.byPath = TRUE, !.notes = "files"]

\* stable_bytes of native units.
UnitFile == [OneFile EXCEPT !.same = {"file"}]

\* stable_source_descriptor.
CorpusSource == [OneFile EXCEPT !.same = {"file"}, !.path = TRUE]

\* copy_stable_source: hashed, then copied, and the copy has the digest too.
StableCopy == [CorpusSource EXCEPT !.passes = 2, !.known = {"content"}]

\* verify_stable_file of receipts.
ReceiptFile == [OneFile EXCEPT !.passes = 2, !.reopens = TRUE, !.path = TRUE,
                               !.known = {"content"}]

\* open_trusted_executable.
TrustedExecutable == [OneFile EXCEPT !.known = {"content", "status"}]

\* verify_executable_binding.
ExecutionSnapshot == [TrustedExecutable EXCEPT !.same = {"file"}, !.path = TRUE]

\* _copy_package: between two surveys of the status of everything.
Package == [Tree EXCEPT !.rounds = <<"survey", "read", "survey">>, !.first = {"survey"},
                        !.byPath = TRUE, !.notes = "all"]

\* RuntimeArtifactSnapshots: taken once, and again when it is revalidated.
SealedCopies == [Tree EXCEPT !.rounds = <<"read", "read">>, !.first = {"read"},
                             !.byPath = TRUE, !.after = FALSE, !.notes = "all"]

\* validate_package_inventory.
PackageInventory == [Tree EXCEPT !.first = {"read"}, !.byPath = TRUE, !.after = FALSE,
                                 !.known = {"content", "names"}]

Readers ==
  [r \in {"ready", "pool", "inventory", "fonts", "bundle", "file", "source", "copy", "receipt",
          "trusted", "execution", "package", "sealed", "tools"} |->
     CASE r = "ready" -> ReadyTree [] r = "pool" -> PublicPool
       [] r = "inventory" -> UnitInventory [] r = "fonts" -> FontRoot
       [] r = "bundle" -> FontBundle [] r = "file" -> UnitFile
       [] r = "source" -> CorpusSource [] r = "copy" -> StableCopy
       [] r = "receipt" -> ReceiptFile [] r = "trusted" -> TrustedExecutable
       [] r = "execution" -> ExecutionSnapshot [] r = "package" -> Package
       [] r = "sealed" -> SealedCopies [] r = "tools" -> PackageInventory]

Reader == Readers[kind.reader]

-----------------------------------------------------------------------------
Existing(x) == {n \in Names : entries[x][n] # Absent}
Content(x) ==
  [n \in Existing(x) |->
     LET i == entries[x][n] IN IF i \in FileNodes THEN <<i, version[i]>> ELSE <<i>>]

\* What is at the two paths, and what the files hold wherever they are.
Moment ==
  [root |-> Content("root"),
   d |-> IF entries["root"]["d"] \in DirNodes THEN Content(entries["root"]["d"]) ELSE <<>>,
   version |-> version]

Init ==
  /\ kind \in [reader : DOMAIN Readers, shows : BOOLEAN, returns : BOOLEAN]
  /\ entries = [x \in DirNodes |->
                  [n \in Names |-> CASE x = "root" /\ n = "f" -> "a"
                                     [] x = "root" /\ n = "d" -> "s"
                                     [] x = "s" /\ n = "g" -> "b"
                                     [] OTHER -> Absent]]
  /\ touched = [x \in DirNodes |-> 0] /\ version = [f \in FileNodes |-> 0]
  /\ changes = 0 /\ moments = {}
  /\ round = 1 /\ listing = [p \in Paths |-> {}] /\ stack = <<>> /\ now = [at |-> "begin"]
  /\ records = [p \in Paths |-> <<>>] /\ noted = {} /\ before = {} /\ result = "new"

-----------------------------------------------------------------------------
(* Other people.                                                            *)

Change ==
  /\ result \in {"new", "running"} /\ changes' = changes + 1
  /\ UNCHANGED <<kind, rounds, stack, now, records, noted, result>>

\* The paths are watched from the start of the scan.
Watch == moments' = IF result = "new" THEN moments ELSE moments \cup {Moment'}

Write(f) ==
  /\ Change /\ version' = [version EXCEPT ![f] = @ + 1] /\ UNCHANGED <<entries, touched>>
  /\ Watch

\* An entry is replaced, made or moved away (and then nowhere).
Linked == {entries[x][n] : x \in DirNodes, n \in Names}
Put(x, n, i) ==
  /\ i # entries[x][n] /\ i \notin (Linked \ {Absent})
  /\ i \in DirNodes => x = "root" /\ n = "d"
  /\ i \in FileNodes => n # "d"
  /\ Change
  /\ entries' = [entries EXCEPT ![x][n] = i] /\ touched' = [touched EXCEPT ![x] = @ + 1]
  /\ UNCHANGED version
  /\ Watch

-----------------------------------------------------------------------------
(* The reader.                                                              *)

FileStatus(f) == [inode |-> f, time |-> IF kind.shows THEN version[f] ELSE 0]
DirStatus(x) == [inode |-> x, time |-> touched[x]]
Status(i) == IF i \in DirNodes THEN DirStatus(i) ELSE FileStatus(i)

\* What the known files are: as the tree is at first.
Wanted == [root |-> [f |-> <<"a", 0>>], d |-> [g |-> <<"b", 0>>]]
WantedNames(p) == IF p = "root" THEN {"d", "f"} ELSE {"g"}
WantedStatus(read) == [inode |-> read[1], time |-> 0]

Top == Head(stack)
At(phase) == result = "running" /\ now.at = phase
Fail == result' = "failed" /\ UNCHANGED <<stack, now, records, noted, rounds>>
Kept == UNCHANGED <<kind, tree>>
Does(what) == Reader.rounds[round] = what

\* The rounds that are compared: those like the last one.
Compared == Len(Reader.rounds) > 1 /\ Does(Last(Reader.rounds))
Note(p, n, status, read) ==
  IF Compared THEN noted \cup {[path |-> p, name |-> n, status |-> status, read |-> read]}
  ELSE noted
NoteDirectory(p, n, i) ==
  noted' = IF Reader.notes = "all" THEN Note(p, n, DirStatus(i), <<>>) ELSE noted

Directory(p) == IF p = "root" THEN "root" ELSE entries["root"]["d"]
Entry(n) ==
  LET x == IF Reader.byPath THEN Directory(Top.path) ELSE Top.expected.inode IN
  IF x \in DirNodes THEN entries[x][n] ELSE Absent

First == Reader.rounds[round] \in Reader.first
Opened(p, status) == [path |-> p, expected |-> status, listed |-> FALSE, todo |-> {}]

\* A round begins with the names, or with the status of the root.
Begin ==
  /\ now.at = "begin" /\ result \in {"new", "running"} /\ result' = "running"
  /\ moments' = moments \cup {Moment}
  /\ now' = [at |-> IF First THEN "enumerate" ELSE "root", path |-> "root"]
  /\ UNCHANGED <<kind, entries, touched, version, changes, rounds, stack, records, noted>>

Enumerate ==
  /\ At("enumerate")
  /\ listing' = [listing EXCEPT ![now.path] = IF Directory(now.path) \in DirNodes
                                              THEN Existing(Directory(now.path)) ELSE {}]
  /\ now' = IF now.path = "root" THEN [now EXCEPT !.path = "d"]
            ELSE [at |-> "root", path |-> "root"]
  /\ UNCHANGED <<round, before, stack, records, noted, result>> /\ Kept

\* The names of a directory; a known list of names must be all that is there when the
\* names are compared.
NamesOf(p, x) ==
  CASE Reader.names = "alone" -> {"f"}
    [] First -> listing[p]
    [] Reader.names = "listed" /\ Does("read") -> WantedNames(p)
    [] OTHER -> Existing(x)

LookAtRoot ==
  /\ At("root")
  /\ stack' = <<Opened("root", DirStatus("root"))>> /\ now' = [at |-> "next"]
  /\ NoteDirectory("root", ".", "root")
  /\ UNCHANGED <<rounds, records, result>> /\ Kept

List ==
  /\ At("next") /\ ~Top.listed
  /\ LET names == NamesOf(Top.path, Top.expected.inode) IN
     IF Does("list") /\ names # WantedNames(Top.path) THEN Fail
     ELSE /\ stack' = <<[Top EXCEPT !.listed = TRUE, !.todo = names]>> \o Tail(stack)
          /\ UNCHANGED <<now, records, noted, rounds, result>>
  /\ Kept

\* The names are taken in their order.
Place == [d |-> 1, f |-> 2, g |-> 3]
NextName(todo) == CHOOSE n \in todo : \A m \in todo : Place[n] <= Place[m]

\* The status of the next name, if it is still there; a survey is content with that,
\* and a list with the directories.
Look ==
  /\ At("next") /\ Top.listed /\ Top.todo # {}
  /\ LET n == NextName(Top.todo)
         i == Entry(n) IN
     IF i = Absent THEN Fail
     ELSE /\ stack' = <<[Top EXCEPT !.todo = @ \ {n}]>> \o Tail(stack)
          /\ IF i \in DirNodes
             THEN now' = [at |-> "enter", name |-> n, looked |-> DirStatus(i)]
                  /\ NoteDirectory(Top.path, n, i)
             ELSE /\ now' = IF Does("read") THEN [at |-> "open", name |-> n,
                                                  looked |-> FileStatus(i)]
                            ELSE [at |-> "next"]
                  /\ noted' = IF Does("survey") THEN Note(Top.path, n, FileStatus(i), <<>>)
                              ELSE noted
          /\ UNCHANGED <<records, rounds, result>>
  /\ Kept

\* A directory is opened: it is the one that was looked at.  One whose names are
\* known is not opened.
Enter ==
  /\ At("enter")
  /\ LET i == Entry(now.name) IN
     IF ~First /\ (\/ i \notin DirNodes
                   \/ "directory" \in Reader.same /\ DirStatus(i) # now.looked
                   \/ "inode" \in Reader.same /\ i # now.looked.inode)
     THEN Fail
     ELSE /\ stack' = <<Opened(now.name, IF First \/ Reader.leave THEN now.looked
                                         ELSE DirStatus(i))>> \o stack
          /\ now' = [at |-> "next"] /\ UNCHANGED <<records, noted, rounds, result>>
  /\ Kept

\* A file is opened: it is the one that was looked at, or that is known.
Open ==
  /\ At("open")
  /\ LET i == Entry(now.name) IN
     IF \/ i \notin FileNodes
        \/ "file" \in Reader.same /\ FileStatus(i) # now.looked
        \/ "status" \in Reader.known /\ FileStatus(i) # WantedStatus(Wanted[Top.path][now.name])
     THEN Fail
     ELSE /\ now' = [at |-> "read", name |-> now.name, looked |-> now.looked,
                     opened |-> FileStatus(i), read |-> <<>>]
          /\ UNCHANGED <<stack, records, noted, rounds, result>>
  /\ Kept

AtPath(i) == Entry(now.name) = i /\ FileStatus(i) = now.opened

Read ==
  /\ At("read") /\ Len(now.read) < 2 * Reader.passes
  /\ IF Reader.reopens /\ Len(now.read) = 2 /\ ~AtPath(now.opened.inode) THEN Fail
     ELSE /\ now' = [now EXCEPT !.read = Append(@, version[now.opened.inode])]
          /\ UNCHANGED <<stack, records, noted, rounds, result>>
  /\ Kept

\* What is hashed of a version.
Bytes(v) == IF kind.returns THEN v % 2 ELSE v

\* The digests of two passes are equal.
Agree == Reader.passes = 2 => \A k \in {1, 2} : Bytes(now.read[k]) = Bytes(now.read[k + 2])

\* What was read: torn, if the pieces are of different versions.
WasRead ==
  IF now.read[1] = now.read[2] THEN <<now.opened.inode, now.read[1]>>
  ELSE <<now.opened.inode, now.read[1], now.read[2]>>

Digest(read) ==
  IF kind.returns /\ read # <<>> THEN <<read[1], Bytes(read[2]), Bytes(Last(read))>> ELSE read

IsKnown(p, n, read) == n \in DOMAIN Wanted[p] /\ Digest(read) = Digest(Wanted[p][n])

\* The file is still in the state that it was opened in, and what it should be.
Close ==
  /\ At("read") /\ Len(now.read) = 2 * Reader.passes
  /\ IF \/ Reader.after /\ FileStatus(now.opened.inode) # now.opened
        \/ Reader.path /\ ~AtPath(now.opened.inode)
        \/ "content" \in Reader.known /\ ~IsKnown(Top.path, now.name, WasRead)
        \/ ~Agree
     THEN Fail
     ELSE /\ records' = [records EXCEPT ![Top.path] =
                           [n \in DOMAIN @ \cup {now.name} |-> IF n = now.name THEN WasRead
                                                               ELSE @[n]]]
          /\ noted' = IF Reader.notes = "nothing" THEN noted
                      ELSE Note(Top.path, now.name,
                                IF Reader.after THEN now.opened ELSE now.looked, WasRead)
          /\ now' = [at |-> "next"] /\ UNCHANGED <<stack, rounds, result>>
  /\ Kept

\* Mutant of Undisturbed: it is the same directory, whatever happened in it.
SameDirectory == Reader.leave => (Top.path = "d" => entries["root"]["d"] = Top.expected.inode)

\* The directory is in the state that it was found in, and still at its path.
Undisturbed ==
  Reader.leave => /\ DirStatus(Top.expected.inode) = Top.expected
                  /\ Top.path = "d" => entries["root"]["d"] = Top.expected.inode

\* The round found what the one before found; and in the end there is all that is known.
Found(notes) == {<<e.path, e.name, e.status, Digest(e.read)>> : e \in notes}
Repeats == Compared /\ before # {} => Found(noted) = Found(before)
Complete == "names" \in Reader.known => \A p \in Paths : DOMAIN records[p] = DOMAIN Wanted[p]

Leave ==
  /\ At("next") /\ Top.listed /\ Top.todo = {}
  /\ IF ~Undisturbed THEN Fail
     ELSE IF Len(stack) > 1
     THEN stack' = Tail(stack) /\ UNCHANGED <<now, records, noted, rounds, result>>
     ELSE /\ stack' = <<>> /\ UNCHANGED records
          /\ IF ~Repeats \/ ~Complete
             THEN result' = "failed" /\ UNCHANGED <<now, noted, rounds>>
             ELSE IF round = Len(Reader.rounds)
             THEN result' = "ok" /\ UNCHANGED <<now, noted, rounds>>
             ELSE /\ round' = round + 1 /\ now' = [at |-> "begin"]
                  /\ before' = IF Compared THEN noted ELSE before
                  /\ noted' = {} /\ UNCHANGED <<listing, result>>
  /\ Kept

Step ==
  \/ Begin \/ Enumerate \/ LookAtRoot \/ List \/ Look \/ Enter \/ Open \/ Read \/ Close
  \/ Leave

Next ==
  \/ /\ changes < MaxChanges
     /\ \/ \E f \in FileNodes : Write(f)
        \/ \E x \in DirNodes, n \in Names,
              i \in FileNodes \cup (DirNodes \ {"root"}) \cup {Absent} : Put(x, n, i)
  \/ Step

Spec == Init /\ [][Next]_vars

-----------------------------------------------------------------------------
\* Of what a tree holds, the files.
FilesOf(m) == [n \in {n \in DOMAIN m : m[n][1] \in FileNodes} |-> m[n]]

\* A content that comes back is told only by the times, if they show it: a digest is the
\* same again.
Exact == kind.returns => kind.shows /\ Reader.after

\* The readers that tell a torn file from a whole one: all, when a write shows in the
\* times; the one that reads twice and those that know the digest in any case.
Telling == Exact /\ (kind.shows \/ Reader.passes = 2 \/ "content" \in Reader.known)

\* Those that know where an entry of a subdirectory was when they opened it.
Placing == Reader.leave \/ Reader.byPath

NoneIsTorn == \A p \in Paths : \A n \in DOMAIN records[p] : Len(records[p][n]) = 2

EachWasThere ==
  \A p \in Paths : \A n \in DOMAIN records[p] :
    (p = "root" \/ Placing) => \E m \in moments : n \in DOMAIN m[p] /\ m[p][n] = records[p][n]

\* The records of a directory are all its files at one moment.
DirectoryAtOnce ==
  \A p \in Paths : DOMAIN records[p] # {} => \E m \in moments : FilesOf(m[p]) = records[p]

\* The files held what was recorded at one moment.
HeldAtOnce ==
  \E m \in moments : \A p \in Paths : \A n \in DOMAIN records[p] :
    m.version[records[p][n][1]] = records[p][n][2]

\* The records are the tree at one moment.
TreeAtOnce == \E m \in moments : \A p \in Paths : FilesOf(m[p]) = records[p]

(* What a scan that succeeded has recorded was there: each record is one    *)
(* version of its file, and what was at the path at one moment; the records *)
(* of a directory that is compared when it is left are all its files at one *)
(* moment, if nothing was written in place; what was read again, or known,  *)
(* is what the files held all at once; and what was surveyed before and     *)
(* after, directories included, is the whole tree at one moment.  Nothing   *)
(* is said of a reader that has only digests to tell by where the contents  *)
(* come back.                                                               *)
ScanIsTrue ==
  result = "ok" =>
    /\ Telling => NoneIsTorn /\ EachWasThere
    /\ (Telling /\ Reader.leave /\ \A f \in FileNodes : version[f] = 0) => DirectoryAtOnce
    /\ (Exact /\ kind.shows /\ Reader.notes # "nothing") => HeldAtOnce
    /\ (Exact /\ kind.shows /\ Reader.notes = "all") => TreeAtOnce
===============================================================================
