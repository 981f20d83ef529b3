---------------------------- MODULE EvidenceProofs ----------------------------
(***************************************************************************)
(* Proofs about the release evidence, for any number of versions, edits and *)
(* repetitions: the documents are well formed, and the gate accepts only    *)
(* evidence of one version, and all of it that is current.                  *)
(***************************************************************************)
EXTENDS MCEvidence, TLAPS, SequenceTheorems, WellFoundedInduction

-----------------------------------------------------------------------------
(* The store.                                                               *)

(* The chain of a behaviour has the shape of one of the tables.             *)
LEMMA TableFacts ==
  ASSUME table \in DOMAIN Tables
  PROVE  /\ T.sources \cap T.docs = {}
         /\ Kinds = T.sources \cup T.docs
         /\ \A k \in T.docs : T.records[k] \subseteq Kinds \ {k}
         /\ \A h \in T.docs : \A k, r :
              <<k, r>> \in T.binds[h] /\ k # h => r \in T.records[k]
         /\ \A k, r : <<k, r>> \in T.gate =>
              k \in T.docs /\ r \in T.records[k] /\ k \in T.reads /\ r \in T.reads
BY EvidenceAssumption DEF T, Kinds, KindsOf, WellFormed

(* A step stays in its chain.                                               *)
LEMMA TableKept ==
  ASSUME UNCHANGED table
  PROVE  T' = T /\ Kinds' = Kinds
BY DEF T, Kinds, KindsOf

(* The versions of a kind are numbered from one.                            *)
LEMMA Shelves ==
  ASSUME TypeOK
  PROVE  /\ DOMAIN shelf = Kinds
         /\ \A k \in Kinds : /\ shelf[k] \in Seq({<<>>} \cup [T.records[k] -> Nat])
                             /\ Latest(k) \in Nat
<1>1. DOMAIN shelf = Kinds
  BY DEF TypeOK
<1>2. ASSUME NEW k \in Kinds
      PROVE  shelf[k] \in Seq({<<>>} \cup [T.records[k] -> Nat])
  <2>1. CASE k \in T.sources
    <3>1. shelf[k] \in Seq({<<>>})
      BY <2>1 DEF TypeOK
    <3>. QED  BY <3>1
  <2>2. CASE k \in T.docs
    <3>1. shelf[k] \in Seq([T.records[k] -> Nat])
      BY <2>2 DEF TypeOK
    <3>. QED  BY <3>1
  <2>. QED  BY <1>2, <2>1, <2>2, TableFacts DEF TypeOK
<1>3. \A k \in Kinds : Latest(k) \in Nat
  BY <1>2 DEF Latest
<1>. QED  BY <1>1, <1>2, <1>3

(* A document that is added at the end of its shelf disturbs no other.      *)
LEMMA AddDocument ==
  ASSUME TypeOK, NEW k \in Kinds, NEW doc,
         shelf' = [shelf EXCEPT ![k] = Append(@, doc)]
  PROVE  /\ DOMAIN shelf' = Kinds
         /\ shelf'[k] = Append(shelf[k], doc)
         /\ \A j \in Kinds \ {k} : shelf'[j] = shelf[j]
         /\ Latest(k)' = Latest(k) + 1
         /\ \A j \in Kinds : Latest(j)' \in Nat /\ Latest(j) <= Latest(j)'
         /\ \A j \in Kinds : \A i \in 1..Latest(j) : shelf'[j][i] = shelf[j][i]
         /\ shelf'[k][Latest(k) + 1] = doc
<1>1. DOMAIN shelf = Kinds /\ \A j \in Kinds : Latest(j) \in Nat
  BY Shelves
<1>2. DOMAIN shelf' = Kinds /\ shelf'[k] = Append(shelf[k], doc)
      /\ \A j \in Kinds \ {k} : shelf'[j] = shelf[j]
  BY <1>1
<1>3. shelf[k] \in Seq({<<>>} \cup [T.records[k] -> Nat] \cup {doc})
  <2>1. shelf[k] \in Seq({<<>>} \cup [T.records[k] -> Nat])
    BY Shelves
  <2>. QED  BY <2>1
<1>4. /\ Len(shelf'[k]) = Len(shelf[k]) + 1
      /\ \A i \in 1..Len(shelf[k]) : shelf'[k][i] = shelf[k][i]
      /\ shelf'[k][Len(shelf[k]) + 1] = doc
  BY <1>2, <1>3
<1>5. Latest(k)' = Latest(k) + 1
  BY <1>4 DEF Latest
<1>6. ASSUME NEW j \in Kinds
      PROVE  Latest(j)' \in Nat /\ Latest(j) <= Latest(j)'
  <2>1. CASE j = k
    <3>1. Latest(k)' \in Nat /\ Latest(k) <= Latest(k)'
      BY <1>5, <1>1
    <3>. QED  BY <3>1, <2>1
  <2>2. CASE j # k
    <3>1. Latest(j)' = Latest(j)
      BY <2>2, <1>2, <1>6 DEF Latest
    <3>. QED  BY <3>1, <1>1
  <2>. QED  BY <2>1, <2>2
<1>7. ASSUME NEW j \in Kinds, NEW i \in 1..Latest(j)
      PROVE  shelf'[j][i] = shelf[j][i]
  <2>1. CASE j = k
    BY <2>1, <1>4 DEF Latest
  <2>2. CASE j # k
    BY <2>2, <1>2
  <2>. QED  BY <2>1, <2>2
<1>8. shelf'[k][Latest(k) + 1] = doc
  BY <1>4 DEF Latest
<1>. QED  BY <1>2, <1>5, <1>6, <1>7, <1>8

(* The arguments of a call: one document of each kind that is read.         *)
LEMMA CallTypes ==
  ASSUME NEW reads, NEW pairs, NEW now, NEW call \in Calls(reads, pairs, now)
  PROVE  DOMAIN call = reads /\ \A k \in reads : call[k] \in 1..Latest(k)
BY DEF Calls

(* What a tool makes records documents that are there.                      *)
LEMMA MakeStep ==
  ASSUME TypeOK, NEW k \in T.docs, Make(k)
  PROVE  \E call \in Calls(Reads(k), T.binds[k], T.now[k]) :
           /\ Agree(call, T.binds[k])
           /\ shelf' = [shelf EXCEPT ![k] = Append(@, [r \in T.records[k] |-> call[r]])]
           /\ UNCHANGED table
           /\ T.records[k] \subseteq DOMAIN call
           /\ \A r \in DOMAIN call : call[r] \in 1..Latest(r)
<1>1. PICK call \in Calls(Reads(k), T.binds[k], T.now[k]) :
        /\ Agree(call, T.binds[k])
        /\ shelf' = [shelf EXCEPT ![k] = Append(@, [r \in T.records[k] |-> call[r]])]
        /\ UNCHANGED table
  BY DEF Make
<1>2. DOMAIN call = Reads(k) /\ \A r \in Reads(k) : call[r] \in 1..Latest(r)
  BY CallTypes
<1>3. T.records[k] \subseteq Reads(k)
  BY TableFacts DEF TypeOK, Reads
<1>. QED  BY <1>1, <1>2, <1>3

(* A shelf with one document.                                               *)
LEMMA OneDocument ==
  ASSUME NEW S, NEW doc \in S
  PROVE  <<doc>> \in Seq(S) /\ Len(<<doc>>) = 1 /\ <<doc>>[1] = doc
OBVIOUS

(* The first release: every document is there once.                         *)
LEMMA StoreInit == Init => TypeOK
<1>. SUFFICES ASSUME Init PROVE TypeOK
  OBVIOUS
<1>0. table \in DOMAIN Tables
  BY DEF Init
<1>1. DOMAIN shelf = Kinds
  BY DEF Init
<1>2. \A k \in T.sources : shelf[k] = << <<>> >>
  BY <1>0, TableFacts DEF Init
<1>3. \A k \in T.docs : shelf[k] = << [r \in T.records[k] |-> 1] >>
  BY <1>0, TableFacts DEF Init
<1>4. ASSUME NEW k \in Kinds
      PROVE  Latest(k) = 1
  <2>. DEFINE doc == [r \in T.records[k] |-> 1]
  <2>1. CASE k \in T.sources
    <3>1. Len(<< <<>> >>) = 1
      BY OneDocument
    <3>. QED  BY <3>1, <2>1, <1>2 DEF Latest
  <2>2. CASE k \in T.docs
    <3>1. Len(<<doc>>) = 1
      <4>. HIDE DEF doc
      <4>. QED  BY OneDocument
    <3>. QED  BY <3>1, <2>2, <1>3 DEF Latest
  <2>. QED  BY <1>0, <1>4, <2>1, <2>2, TableFacts
<1>5. \A k \in T.sources : shelf[k] \in Seq({<<>>})
  <2>1. << <<>> >> \in Seq({<<>>})
    <3>1. <<>> \in {<<>>}
      OBVIOUS
    <3>. QED  BY <3>1, OneDocument
  <2>. QED  BY <2>1, <1>2
<1>6. ASSUME NEW k \in T.docs
      PROVE  /\ shelf[k] \in Seq([T.records[k] -> Nat])
             /\ \A i \in 1..Latest(k) : \A r \in T.records[k] :
                  shelf[k][i][r] \in 1..Latest(r)
  <2>1. [r \in T.records[k] |-> 1] \in [T.records[k] -> Nat]
    OBVIOUS
  <2>2. shelf[k] \in Seq([T.records[k] -> Nat])
    <3>. DEFINE doc == [r \in T.records[k] |-> 1]
    <3>1. shelf[k] = <<doc>> /\ doc \in [T.records[k] -> Nat]
      BY <2>1, <1>3
    <3>. HIDE DEF doc
    <3>. QED  BY <3>1, OneDocument
  <2>3. Latest(k) = 1 /\ \A r \in T.records[k] : Latest(r) = 1
    BY <1>0, <1>4, TableFacts
  <2>4. \A r \in T.records[k] : shelf[k][1][r] = 1
    <3>. DEFINE doc == [r \in T.records[k] |-> 1]
    <3>1. shelf[k][1] = doc
      <4>1. shelf[k] = <<doc>>
        BY <1>3
      <4>. HIDE DEF doc
      <4>. QED  BY <4>1, OneDocument
    <3>. QED  BY <3>1
  <2>. QED  BY <2>2, <2>3, <2>4
<1>. QED  BY <1>0, <1>1, <1>5, <1>6 DEF TypeOK

(* A change of a source leaves every document as it is.                     *)
LEMMA StoreEdit ==
  ASSUME TypeOK, NEW k \in Kinds, Edit(k)
  PROVE  TypeOK'
<1>0. table \in DOMAIN Tables /\ table' = table /\ T' = T /\ Kinds' = Kinds
  BY TableKept DEF Edit, TypeOK
<1>1. k \in T.sources /\ shelf' = [shelf EXCEPT ![k] = Append(@, <<>>)]
  BY DEF Edit
<1>2. /\ DOMAIN shelf' = Kinds
      /\ shelf'[k] = Append(shelf[k], <<>>)
      /\ \A j \in Kinds \ {k} : shelf'[j] = shelf[j]
      /\ \A j \in Kinds : Latest(j)' \in Nat /\ Latest(j) <= Latest(j)'
  BY <1>1, AddDocument
<1>3. \A j \in T.sources : shelf'[j] \in Seq({<<>>})
  <2>1. \A j \in T.sources : shelf[j] \in Seq({<<>>}) /\ j \in Kinds
    BY <1>0, TableFacts DEF TypeOK
  <2>. QED  BY <2>1, <1>2
<1>4. ASSUME NEW j \in T.docs
      PROVE  /\ shelf'[j] \in Seq([T.records[j] -> Nat])
             /\ \A i \in 1..Latest(j)' : \A r \in T.records[j] :
                  shelf'[j][i][r] \in 1..Latest(r)'
  <2>1. j \in Kinds \ {k} /\ T.records[j] \subseteq Kinds
    BY <1>0, <1>1, TableFacts
  <2>2. shelf'[j] = shelf[j] /\ Latest(j)' = Latest(j)
    BY <2>1, <1>2 DEF Latest
  <2>3. /\ shelf[j] \in Seq([T.records[j] -> Nat])
        /\ \A i \in 1..Latest(j) : \A r \in T.records[j] : shelf[j][i][r] \in 1..Latest(r)
    BY DEF TypeOK
  <2>4. \A r \in T.records[j] : Latest(r) \in Nat /\ Latest(r)' \in Nat /\ Latest(r) <= Latest(r)'
    BY <2>1, <1>2, Shelves
  <2>. QED  BY <2>2, <2>3, <2>4
<1>. QED  BY <1>0, <1>2, <1>3, <1>4 DEF TypeOK

(* A tool adds a document that records documents which are there.           *)
LEMMA StoreMake ==
  ASSUME TypeOK, NEW k \in T.docs, Make(k)
  PROVE  TypeOK'
<1>. DEFINE doc(call) == [r \in T.records[k] |-> call[r]]
<1>1. PICK call : /\ shelf' = [shelf EXCEPT ![k] = Append(@, doc(call))]
                  /\ \A r \in T.records[k] : call[r] \in 1..Latest(r)
  BY MakeStep
<1>0. table \in DOMAIN Tables /\ table' = table /\ T' = T /\ Kinds' = Kinds
  BY MakeStep, TableKept DEF TypeOK
<1>. HIDE DEF doc
<1>2. k \in Kinds
  BY <1>0, TableFacts
<1>3. /\ DOMAIN shelf' = Kinds
      /\ shelf'[k] = Append(shelf[k], doc(call))
      /\ \A j \in Kinds \ {k} : shelf'[j] = shelf[j]
      /\ Latest(k)' = Latest(k) + 1
      /\ \A j \in Kinds : Latest(j)' \in Nat /\ Latest(j) <= Latest(j)'
      /\ \A j \in Kinds : \A i \in 1..Latest(j) : shelf'[j][i] = shelf[j][i]
      /\ shelf'[k][Latest(k) + 1] = doc(call)
  BY <1>1, <1>2, AddDocument
<1>4. \A r \in Kinds : Latest(r) \in Nat /\ Latest(r)' \in Nat
  BY <1>3, Shelves
<1>5. doc(call) \in [T.records[k] -> Nat]
  <2>1. \A r \in T.records[k] : call[r] \in Nat
    BY <1>1
  <2>. QED  BY <2>1 DEF doc
<1>6. \A j \in T.sources : shelf'[j] \in Seq({<<>>})
  <2>1. \A j \in T.sources : shelf[j] \in Seq({<<>>}) /\ j \in Kinds \ {k}
    BY <1>0, TableFacts DEF TypeOK
  <2>. QED  BY <2>1, <1>3
<1>7. ASSUME NEW j \in T.docs
      PROVE  shelf'[j] \in Seq([T.records[j] -> Nat])
  <2>1. shelf[j] \in Seq([T.records[j] -> Nat])
    BY DEF TypeOK
  <2>2. CASE j = k
    <3>1. Append(shelf[j], doc(call)) \in Seq([T.records[j] -> Nat])
      BY <2>1, <2>2, <1>5
    <3>. QED  BY <3>1, <2>2, <1>3
  <2>3. CASE j # k
    BY <2>1, <2>3, <1>0, <1>3, TableFacts
  <2>. QED  BY <2>2, <2>3
<1>8. ASSUME NEW j \in T.docs, NEW i \in 1..Latest(j)', NEW r \in T.records[j]
      PROVE  shelf'[j][i][r] \in 1..Latest(r)'
  <2>1. j \in Kinds /\ r \in Kinds
    BY <1>0, TableFacts
  <2>2. Latest(r) \in Nat /\ Latest(r)' \in Nat /\ Latest(r) <= Latest(r)'
    BY <2>1, <1>3, <1>4
  <2>3. CASE i \in 1..Latest(j)
    <3>1. shelf'[j][i] = shelf[j][i]
      BY <2>1, <2>3, <1>3
    <3>2. shelf[j][i][r] \in 1..Latest(r)
      BY <2>3 DEF TypeOK
    <3>. QED  BY <2>2, <3>1, <3>2
  <2>4. CASE i \notin 1..Latest(j)
    <3>1. j = k
      <4>1. j # k => Latest(j)' = Latest(j)
        BY <2>1, <1>3 DEF Latest
      <4>. QED  BY <4>1, <2>4
    <3>2. i = Latest(k) + 1
      BY <3>1, <2>1, <2>4, <1>3, <1>4
    <3>3. shelf'[j][i][r] = call[r]
      BY <3>1, <3>2, <1>3 DEF doc
    <3>. QED  BY <3>1, <3>3, <2>2, <1>1
  <2>. QED  BY <2>3, <2>4
<1>. QED  BY <1>0, <1>3, <1>6, <1>7, <1>8 DEF TypeOK

LEMMA StoreStep == TypeOK /\ [Next]_vars => TypeOK'
<1>. SUFFICES ASSUME TypeOK, [Next]_vars PROVE TypeOK'
  OBVIOUS
<1>1. ASSUME NEW k \in Kinds, Edit(k) PROVE TypeOK'
  BY <1>1, StoreEdit
<1>2. ASSUME NEW k \in Kinds, Make(k) PROVE TypeOK'
  <2>1. k \in T.docs
    BY <1>2 DEF Make
  <2>. QED  BY <2>1, <1>2, StoreMake
<1>3. CASE UNCHANGED vars
  <2>1. UNCHANGED <<table, shelf>> /\ T' = T /\ Kinds' = Kinds
    BY <1>3, TableKept DEF vars
  <2>. QED  BY <2>1 DEF TypeOK, Latest
<1>. QED  BY <1>1, <1>2, <1>3 DEF Next

(* No tool and no edit ever makes a document refer to one that is not there, *)
(* whatever the tables are.                                                  *)
THEOREM EvidenceTypes == Spec => []TypeOK
BY StoreInit, StoreStep, PTL DEF Spec

-----------------------------------------------------------------------------
(* What a tool compared when it made a document holds for good.             *)

(* When the tool that made h compared what h's own k records of r with the  *)
(* r of h, then the k that h records still records that r.  The gate relies *)
(* on this for what it does not compare itself.                             *)
HolderBound ==
  \A h \in T.docs : \A k \in T.records[h] \cap T.docs : \A r \in T.records[h] :
    <<k, r>> \in T.binds[h] =>
      \A i \in 1..Latest(h) : shelf[k][shelf[h][i][k]][r] = shelf[h][i][r]

(* And when it compared what two of them record of r with the same file, they *)
(* record the same r, although h itself may not say which.                    *)
PairBound ==
  \A h \in T.docs : \A k \in T.records[h] \cap T.docs, m \in T.records[h] \cap T.docs : \A r :
    <<k, r>> \in T.binds[h] /\ <<m, r>> \in T.binds[h] =>
      \A i \in 1..Latest(h) : shelf[k][shelf[h][i][k]][r] = shelf[m][shelf[h][i][m]][r]

IInv == TypeOK /\ HolderBound /\ PairBound

(* In the first release everything is of the first version.                 *)
LEMMA BoundInit == Init => HolderBound /\ PairBound
<1>. SUFFICES ASSUME Init PROVE HolderBound /\ PairBound
  OBVIOUS
<1>1. TypeOK /\ table \in DOMAIN Tables
  BY StoreInit DEF Init
<1>2. ASSUME NEW k \in T.docs
      PROVE  Latest(k) = 1 /\ \A r \in T.records[k] : shelf[k][1][r] = 1
  <2>. DEFINE doc == [r \in T.records[k] |-> 1]
  <2>1. shelf[k] = <<doc>>
    BY <1>1, TableFacts DEF Init
  <2>2. \A r \in T.records[k] : doc[r] = 1
    OBVIOUS
  <2>. HIDE DEF doc
  <2>3. Len(<<doc>>) = 1 /\ <<doc>>[1] = doc
    BY OneDocument
  <2>. QED  BY <2>1, <2>2, <2>3 DEF Latest
<1>3. ASSUME NEW h \in T.docs, NEW k \in T.records[h] \cap T.docs, NEW r \in T.records[h],
             <<k, r>> \in T.binds[h], NEW i \in 1..Latest(h)
      PROVE  shelf[k][shelf[h][i][k]][r] = shelf[h][i][r]
  <2>1. i = 1 /\ shelf[h][1][k] = 1 /\ shelf[h][1][r] = 1
    <3>1. Latest(h) = 1
      BY <1>2
    <3>. QED  BY <3>1, <1>2
  <2>2. r \in T.records[k]
    BY <1>1, <1>3, TableFacts
  <2>. QED  BY <2>1, <2>2, <1>2
<1>4. ASSUME NEW h \in T.docs, NEW k \in T.records[h] \cap T.docs,
             NEW m \in T.records[h] \cap T.docs, NEW r,
             <<k, r>> \in T.binds[h], <<m, r>> \in T.binds[h], NEW i \in 1..Latest(h)
      PROVE  shelf[k][shelf[h][i][k]][r] = shelf[m][shelf[h][i][m]][r]
  <2>1. i = 1 /\ shelf[h][1][k] = 1 /\ shelf[h][1][m] = 1
    <3>1. Latest(h) = 1
      BY <1>2
    <3>. QED  BY <3>1, <1>2
  <2>2. k # h /\ m # h
    BY <1>1, <1>4, TableFacts
  <2>3. r \in T.records[k] /\ r \in T.records[m]
    BY <1>1, <1>4, <2>2, TableFacts
  <2>. QED  BY <2>1, <2>3, <1>2
<1>. QED  BY <1>3, <1>4 DEF HolderBound, PairBound

(* What a tool compares, it compares with the files of the call, of which the *)
(* new document records some.                                                 *)
LEMMA NewDocument ==
  ASSUME TypeOK, NEW h \in T.docs, Make(h)
  PROVE  \E call :
           /\ shelf'[h][Latest(h) + 1] = [q \in T.records[h] |-> call[q]]
           /\ \A k \in T.records[h] \cap T.docs : \A r :
                <<k, r>> \in T.binds[h] => shelf'[k][call[k]][r] = call[r]
<1>0. table \in DOMAIN Tables /\ h \in Kinds
  BY TableFacts DEF TypeOK
<1>1. PICK call :
        /\ Agree(call, T.binds[h])
        /\ shelf' = [shelf EXCEPT ![h] = Append(@, [q \in T.records[h] |-> call[q]])]
        /\ T.records[h] \subseteq DOMAIN call
  BY MakeStep
<1>. DEFINE new == [q \in T.records[h] |-> call[q]]
<1>2. /\ shelf'[h][Latest(h) + 1] = new
      /\ \A k \in Kinds \ {h} : shelf'[k] = shelf[k]
  <2>1. shelf' = [shelf EXCEPT ![h] = Append(@, new)]
    BY <1>1
  <2>. HIDE DEF new
  <2>. QED  BY <1>0, <2>1, AddDocument
<1>3. ASSUME NEW k \in T.records[h] \cap T.docs, NEW r, <<k, r>> \in T.binds[h]
      PROVE  shelf'[k][call[k]][r] = call[r]
  <2>1. \A p \in T.binds[h] :
          p[1] \in DOMAIN call => shelf[p[1]][call[p[1]]][p[2]] = call[p[2]]
    BY <1>1 DEF Agree
  <2>2. k \in DOMAIN call
    BY <1>1, <1>3
  <2>3. shelf[k][call[k]][r] = call[r]
    BY <1>3, <2>1, <2>2
  <2>4. k \in Kinds \ {h}
    BY <1>0, <1>3, TableFacts
  <2>. QED  BY <1>2, <2>3, <2>4
<1>. QED  BY <1>2, <1>3

(* An edit or a new document leaves the older documents as they are, and a  *)
(* new one records what its tool compared.                                  *)
LEMMA BoundStep ==
  ASSUME TypeOK, HolderBound, PairBound, NEW j \in Kinds, Edit(j) \/ Make(j)
  PROVE  HolderBound' /\ PairBound'
<1>1. PICK doc : shelf' = [shelf EXCEPT ![j] = Append(@, doc)]
  BY DEF Edit, Make
<1>2. table \in DOMAIN Tables /\ T' = T
  BY TableKept DEF Edit, Make, TypeOK
<1>3. /\ \A k \in Kinds \ {j} : shelf'[k] = shelf[k]
      /\ Latest(j)' = Latest(j) + 1
      /\ \A k \in Kinds : \A i \in 1..Latest(k) : shelf'[k][i] = shelf[k][i]
      /\ \A k \in Kinds : Latest(k) \in Nat
  BY <1>1, AddDocument, Shelves
<1>4. \A h \in T.docs : /\ h \in Kinds
                        /\ h \notin T.sources
                        /\ T.records[h] \subseteq Kinds
  BY <1>2, TableFacts
<1>5. ASSUME NEW h \in T.docs, NEW i \in 1..Latest(h)', i \notin 1..Latest(h)
      PROVE  i = Latest(h) + 1 /\ Make(h)
  <2>1. j = h
    <3>1. j # h => Latest(h)' = Latest(h)
      BY <1>3, <1>4 DEF Latest
    <3>. QED  BY <3>1, <1>5
  <2>2. i = Latest(h) + 1
    BY <2>1, <1>3, <1>4, <1>5
  <2>3. Make(h)
    BY <2>1, <1>4 DEF Edit
  <2>. QED  BY <2>2, <2>3
<1>6. ASSUME NEW h \in T.docs, NEW k \in T.records[h] \cap T.docs, NEW i \in 1..Latest(h)
      PROVE  /\ shelf'[h][i] = shelf[h][i]
             /\ shelf'[k][shelf[h][i][k]] = shelf[k][shelf[h][i][k]]
  <2>1. shelf[h][i][k] \in 1..Latest(k)
    BY <1>6 DEF TypeOK
  <2>. QED  BY <1>3, <1>4, <2>1
<1>7. ASSUME NEW h \in T.docs, NEW k \in T.records[h] \cap T.docs, NEW r \in T.records[h],
             <<k, r>> \in T.binds[h], NEW i \in 1..Latest(h)'
      PROVE  shelf'[k][shelf'[h][i][k]][r] = shelf'[h][i][r]
  <2>1. CASE i \in 1..Latest(h)
    <3>1. shelf[k][shelf[h][i][k]][r] = shelf[h][i][r]
      BY <2>1, <1>7 DEF HolderBound
    <3>. QED  BY <2>1, <3>1, <1>6
  <2>2. CASE i \notin 1..Latest(h)
    <3>1. i = Latest(h) + 1 /\ Make(h)
      BY <2>2, <1>5
    <3>2. PICK call :
            /\ shelf'[h][Latest(h) + 1] = [q \in T.records[h] |-> call[q]]
            /\ \A m \in T.records[h] \cap T.docs : \A q :
                 <<m, q>> \in T.binds[h] => shelf'[m][call[m]][q] = call[q]
      BY <3>1, NewDocument
    <3>. QED  BY <3>1, <3>2, <1>7
  <2>. QED  BY <2>1, <2>2
<1>8. ASSUME NEW h \in T.docs, NEW k \in T.records[h] \cap T.docs,
             NEW m \in T.records[h] \cap T.docs, NEW r,
             <<k, r>> \in T.binds[h], <<m, r>> \in T.binds[h], NEW i \in 1..Latest(h)'
      PROVE  shelf'[k][shelf'[h][i][k]][r] = shelf'[m][shelf'[h][i][m]][r]
  <2>1. CASE i \in 1..Latest(h)
    <3>1. shelf[k][shelf[h][i][k]][r] = shelf[m][shelf[h][i][m]][r]
      BY <2>1, <1>8 DEF PairBound
    <3>2. /\ shelf'[h][i] = shelf[h][i]
          /\ shelf'[k][shelf[h][i][k]] = shelf[k][shelf[h][i][k]]
          /\ shelf'[m][shelf[h][i][m]] = shelf[m][shelf[h][i][m]]
      BY <2>1, <1>6, <1>8
    <3>. QED  BY <3>1, <3>2
  <2>2. CASE i \notin 1..Latest(h)
    <3>1. i = Latest(h) + 1 /\ Make(h)
      BY <2>2, <1>5
    <3>2. PICK call :
            /\ shelf'[h][Latest(h) + 1] = [q \in T.records[h] |-> call[q]]
            /\ \A n \in T.records[h] \cap T.docs : \A q :
                 <<n, q>> \in T.binds[h] => shelf'[n][call[n]][q] = call[q]
      BY <3>1, NewDocument
    <3>3. shelf'[k][call[k]][r] = call[r] /\ shelf'[m][call[m]][r] = call[r]
      BY <3>2, <1>8
    <3>. QED  BY <3>1, <3>2, <3>3
  <2>. QED  BY <2>1, <2>2
<1>9. HolderBound'
  BY <1>2, <1>7 DEF HolderBound
<1>. QED  BY <1>2, <1>8, <1>9 DEF PairBound

LEMMA Inductive == Spec => []IInv
<1>1. Init => IInv
  BY StoreInit, BoundInit DEF IInv
<1>2. IInv /\ [Next]_vars => IInv'
  <2>. SUFFICES ASSUME IInv, [Next]_vars PROVE IInv'
    OBVIOUS
  <2>1. TypeOK'
    BY StoreStep DEF IInv
  <2>2. CASE Next
    BY <2>1, <2>2, BoundStep DEF IInv, Next
  <2>3. CASE UNCHANGED vars
    <3>1. shelf' = shelf /\ T' = T
      BY <2>3, TableKept DEF vars
    <3>. QED  BY <2>1, <3>1 DEF IInv, HolderBound, PairBound, Latest
  <2>. QED  BY <2>2, <2>3
<1>. QED  BY <1>1, <1>2, PTL DEF Spec

-----------------------------------------------------------------------------
(* The gate.                                                                *)

(* What the validators must do: each digest in a document that the gate     *)
(* reads is compared by the gate, or was compared by the tool that made a   *)
(* document of which the gate compares both, or with that of another        *)
(* document which the gate compares.                                        *)
Covered(t) ==
  \A k \in t.docs : \A r \in t.records[k] :
    \/ <<k, r>> \in t.gate
    \/ \E h \in t.docs : /\ <<h, k>> \in t.gate /\ <<h, r>> \in t.gate
                         /\ <<k, r>> \in t.binds[h]
    \/ \E h \in t.docs, m \in t.docs :
         /\ <<h, k>> \in t.gate /\ <<h, m>> \in t.gate /\ <<m, r>> \in t.gate
         /\ <<k, r>> \in t.binds[h] /\ <<m, r>> \in t.binds[h]

(* Then the documents of an accepted call agree with each other.            *)
LEMMA AcceptedAgrees ==
  ASSUME IInv, Covered(T), NEW call \in GateCalls, Accepts(call)
  PROVE  \A k \in DOMAIN call \cap T.docs : \A r \in T.records[k] :
           r \in DOMAIN call /\ shelf[k][call[k]][r] = call[r]
<1>1. table \in DOMAIN Tables
  BY DEF IInv, TypeOK
<1>2. DOMAIN call = T.reads /\ \A k \in DOMAIN call : call[k] \in 1..Latest(k)
  BY CallTypes DEF GateCalls
<1>3. ASSUME NEW k, NEW r, <<k, r>> \in T.gate
      PROVE  /\ k \in DOMAIN call /\ r \in DOMAIN call
             /\ shelf[k][call[k]][r] = call[r]
             /\ k \in T.docs /\ r \in T.records[k]
  <2>1. k \in T.reads /\ r \in T.reads
    BY <1>1, <1>3, TableFacts
  <2>2. \A p \in T.gate : p[1] \in DOMAIN call => shelf[p[1]][call[p[1]]][p[2]] = call[p[2]]
    BY DEF Accepts, Agree
  <2>. QED  BY <1>1, <1>2, <1>3, <2>1, <2>2, TableFacts
<1>4. ASSUME NEW k \in DOMAIN call \cap T.docs, NEW r \in T.records[k]
      PROVE  r \in DOMAIN call /\ shelf[k][call[k]][r] = call[r]
  <2>1. CASE <<k, r>> \in T.gate
    BY <1>3, <2>1
  <2>2. ASSUME NEW h \in T.docs, <<h, k>> \in T.gate, <<h, r>> \in T.gate,
               <<k, r>> \in T.binds[h]
        PROVE  r \in DOMAIN call /\ shelf[k][call[k]][r] = call[r]
    <3>1. /\ h \in DOMAIN call /\ r \in DOMAIN call
          /\ shelf[h][call[h]][k] = call[k] /\ shelf[h][call[h]][r] = call[r]
          /\ k \in T.records[h] /\ r \in T.records[h]
      BY <1>3, <2>2
    <3>2. call[h] \in 1..Latest(h)
      BY <1>2, <3>1
    <3>3. shelf[k][shelf[h][call[h]][k]][r] = shelf[h][call[h]][r]
      BY <1>4, <2>2, <3>1, <3>2 DEF IInv, HolderBound
    <3>. QED  BY <3>1, <3>3
  <2>3. ASSUME NEW h \in T.docs, NEW m \in T.docs,
               <<h, k>> \in T.gate, <<h, m>> \in T.gate, <<m, r>> \in T.gate,
               <<k, r>> \in T.binds[h], <<m, r>> \in T.binds[h]
        PROVE  r \in DOMAIN call /\ shelf[k][call[k]][r] = call[r]
    <3>1. /\ h \in DOMAIN call /\ r \in DOMAIN call
          /\ shelf[h][call[h]][k] = call[k] /\ shelf[h][call[h]][m] = call[m]
          /\ shelf[m][call[m]][r] = call[r]
          /\ k \in T.records[h] /\ m \in T.records[h]
      BY <1>3, <2>3
    <3>2. call[h] \in 1..Latest(h)
      BY <1>2, <3>1
    <3>3. shelf[k][shelf[h][call[h]][k]][r] = shelf[m][shelf[h][call[h]][m]][r]
      BY <1>4, <2>3, <3>1, <3>2 DEF IInv, PairBound
    <3>. QED  BY <3>1, <3>3
  <2>. QED  BY <2>1, <2>2, <2>3 DEF Covered
<1>. QED  BY <1>4

(* Whatever a validator below the report compares, the gate compares.       *)
LEMMA GateCompares ==
  /\ EvaluatorManifest \subseteq ReportFailures
  /\ Corpus \subseteq ReportFailures
  /\ MetricsBindings \subseteq ReportFailures
  /\ CommandPlan \subseteq ReportFailures
  /\ CaptureLinks \subseteq ReportFailures
  /\ {"metrics"} \X {"plan", Oracle.capture, Candidate.capture} \subseteq ReportFailures
  /\ Security \subseteq ReportFailures
  /\ Review \subseteq ReportFailures
  /\ CaptureManifest(Oracle) \subseteq ReportFailures
  /\ CaptureManifest(Candidate) \subseteq ReportFailures
<1>1. Metrics \subseteq ReportFailures /\ EvaluatorManifest \subseteq ReportFailures
  BY DEF ReportFailures, GeneratedReport
<1>2. HardGates \subseteq Metrics
  BY DEF Metrics
<1>. QED  BY <1>1, <1>2 DEF Metrics, HardGates

(* The three validators of the captures.                                    *)
LEMMA CaptureCompares ==
  ASSUME NEW s \in {Oracle, Candidate}
  PROVE  /\ {s.capture} \X (Scope \cup {"revision", s.run, s.receipt}) \subseteq ReportFailures
         /\ {s.run} \X {"revision", "evaluator", "corpus"} \subseteq ReportFailures
         /\ {s.receipt} \X (ReceiptScope \cup {s.run}) \subseteq ReportFailures
         /\ Runtime(s) \subseteq ReportFailures
         /\ RuntimeProfile \subseteq ReportFailures
<1>1. CaptureManifest(s) \subseteq ReportFailures
  BY GateCompares
<1>2. CaptureProvenance(s) \subseteq ReportFailures
  BY <1>1 DEF CaptureManifest
<1>3. /\ Runtime(s) \subseteq ReportFailures
      /\ Upstream(s) \subseteq ReportFailures
      /\ PortableProvenance(s) \subseteq ReportFailures
  BY <1>2 DEF CaptureProvenance
<1>4. {s.run} \X {"revision", "evaluator", "corpus"} \subseteq ReportFailures
  BY <1>3 DEF Upstream, ExecutionLog
<1>5. {s.capture} \X (Scope \cup {"revision", s.run, s.receipt}) \subseteq ReportFailures
  BY <1>3 DEF Upstream
<1>6. /\ RuntimeProfile \subseteq ReportFailures
      /\ Receipt(s) \subseteq ReportFailures
      /\ {s.receipt} \X {s.run} \subseteq ReportFailures
  BY <1>3 DEF PortableProvenance
<1>7. {s.receipt} \X ReceiptScope \subseteq ReportFailures
  BY <1>6 DEF Receipt
<1>8. {s.receipt} \X (ReceiptScope \cup {s.run}) \subseteq ReportFailures
  BY <1>6, <1>7
<1>. QED  BY <1>3, <1>4, <1>5, <1>6, <1>8

(* The names of the documents of a run.                                     *)
LEMMA Names ==
  /\ Oracle.run = "oracle run" /\ Candidate.run = "candidate run"
  /\ Oracle.receipt = "oracle receipt" /\ Candidate.receipt = "candidate receipt"
  /\ Oracle.capture = "oracle capture" /\ Candidate.capture = "candidate capture"
  /\ Candidate # Oracle
BY DEF Oracle, Candidate

LEMMA Kept ==
  /\ {"evaluator", "corpus", "candidate lock", "lock", "attestation", "plan", "packet",
      "executions", "metrics", "report"} \cup Decisions \subseteq EvidenceDocs
  /\ \A s \in {Oracle, Candidate} : {s.run, s.receipt, s.capture} \subseteq EvidenceDocs
BY DEF EvidenceDocs

(* The fields of the table of a release.                                    *)
LEMMA ReleaseTable ==
  /\ Release.docs = EvidenceDocs
  /\ Release.gate = ReportFailures /\ Release.gateNow = GateNow
  /\ Release.sources = EvidenceSources /\ Release.given = {"contract"}
  /\ \A k \in EvidenceDocs : /\ Release.records[k] = EvidenceTools[k].records
                             /\ Release.binds[k] = EvidenceTools[k].binds
<1>1. DOMAIN EvidenceTools = EvidenceDocs
  BY DEF EvidenceTools
<1>. QED  BY <1>1 DEF Release, Table

(* Which tool makes which document of a release, and what it records.       *)
LEMMA ToolOf ==
  /\ Release.records["evaluator"] = ScaffoldEvidence.records
  /\ Release.records["corpus"] = ReadyCorpus.records
  /\ Release.records["candidate lock"] = CandidateRuntimeLock.records
  /\ Release.records["lock"] = PortableLock.records
  /\ Release.records["attestation"] = SignAttestation.records
  /\ Release.records["oracle run"] = ReferenceRun.records
  /\ Release.records["oracle receipt"] = SignReceipt(Oracle).records
  /\ Release.records["oracle capture"] = WriteReference.records
  /\ Release.records["candidate run"] = CandidateRun.records
  /\ Release.records["candidate receipt"] = SignReceipt(Candidate).records
  /\ Release.records["candidate capture"] = WriteCapture.records
  /\ Release.records["plan"] = MaterializePlan.records
  /\ Release.records["packet"] = MaterializePacket.records
  /\ Release.records["executions"] = RunCommands.records
  /\ Release.records["metrics"] = AssembleMetrics.records
  /\ Release.records["report"] = AssembleReport.records
  /\ \A k \in Decisions : Release.records[k] = SignDecision.records
<1>1. \A k \in EvidenceDocs : Release.records[k] = EvidenceTools[k].records
  BY ReleaseTable
<1>2. EvidenceTools["evaluator"] = ScaffoldEvidence
  BY Names, Kept DEF EvidenceTools, Decisions
<1>3. EvidenceTools["corpus"] = ReadyCorpus
  BY Names, Kept DEF EvidenceTools, Decisions
<1>4. EvidenceTools["candidate lock"] = CandidateRuntimeLock
  BY Names, Kept DEF EvidenceTools, Decisions
<1>5. EvidenceTools["lock"] = PortableLock
  BY Names, Kept DEF EvidenceTools, Decisions
<1>6. EvidenceTools["attestation"] = SignAttestation
  BY Names, Kept DEF EvidenceTools, Decisions
<1>7. EvidenceTools["oracle run"] = ReferenceRun
  BY Names, Kept DEF EvidenceTools, Decisions
<1>8. EvidenceTools["oracle receipt"] = SignReceipt(Oracle)
  BY Names, Kept DEF EvidenceTools, Decisions
<1>9. EvidenceTools["oracle capture"] = WriteReference
  BY Names, Kept DEF EvidenceTools, Decisions
<1>10. EvidenceTools["candidate run"] = CandidateRun
  BY Names, Kept DEF EvidenceTools, Decisions
<1>11. EvidenceTools["candidate receipt"] = SignReceipt(Candidate)
  BY Names, Kept DEF EvidenceTools, Decisions
<1>12. EvidenceTools["candidate capture"] = WriteCapture
  BY Names, Kept DEF EvidenceTools, Decisions
<1>13. EvidenceTools["plan"] = MaterializePlan
  BY Names, Kept DEF EvidenceTools, Decisions
<1>14. EvidenceTools["packet"] = MaterializePacket
  BY Names, Kept DEF EvidenceTools, Decisions
<1>15. EvidenceTools["executions"] = RunCommands
  BY Names, Kept DEF EvidenceTools, Decisions
<1>16. EvidenceTools["metrics"] = AssembleMetrics
  BY Names, Kept DEF EvidenceTools, Decisions
<1>17. EvidenceTools["report"] = AssembleReport
  BY Names, Kept DEF EvidenceTools, Decisions
<1>18. \A k \in Decisions : EvidenceTools[k] = SignDecision
  BY Names, Kept DEF EvidenceTools, Decisions
<1>. QED
  BY Names, Kept, <1>1, <1>2, <1>3, <1>4, <1>5, <1>6, <1>7, <1>8, <1>9, <1>10, <1>11, <1>12,
     <1>13, <1>14, <1>15, <1>16, <1>17, <1>18

(* Every digest in a document is compared by the gate, but those of the     *)
(* candidate's own lock.                                                    *)
LEMMA Compared ==
  ASSUME NEW k \in EvidenceDocs, k # "candidate lock", NEW r \in Release.records[k]
  PROVE  <<k, r>> \in ReportFailures
<1>1. CASE k = "evaluator"
  BY <1>1, ToolOf, GateCompares DEF ScaffoldEvidence, Tool, EvaluatorManifest
<1>2. CASE k = "corpus"
  BY <1>2, ToolOf, GateCompares DEF ReadyCorpus, Tool, Corpus, SourceFiles
<1>3. CASE k = "lock"
  <2>1. RuntimeProfile \subseteq ReportFailures
    BY CaptureCompares
  <2>. QED
    BY <1>3, <2>1, ToolOf
       DEF PortableLock, CopiedPackages, Tool, RuntimeProfile, ReferenceLock, Routing
<1>4. CASE k = "attestation"
  <2>1. RuntimeAgainstLock \subseteq ReportFailures
    BY CaptureCompares, Names DEF Runtime
  <2>. QED
    BY <1>4, <2>1, ToolOf DEF SignAttestation, Tool, RuntimeAgainstLock, Attestation
<1>5. CASE k = "oracle run"
  <2>1. {Oracle.run} \X {"revision", "evaluator", "corpus"} \subseteq ReportFailures
    BY CaptureCompares
  <2>2. <<Oracle.run, "tools">> \in ReportFailures
    BY CaptureCompares DEF Runtime, PortableRuntime
  <2>. QED
    BY <1>5, <2>1, <2>2, ToolOf, Names DEF ReferenceRun, Tool
<1>6. CASE k = "candidate run"
  <2>1. {Candidate.run} \X {"revision", "evaluator", "corpus"} \subseteq ReportFailures
    BY CaptureCompares
  <2>2. {Candidate.run} \X {"tools", "candidate lock", "attestation"} \subseteq ReportFailures
    BY CaptureCompares, Names DEF Runtime, RuntimeAgainstLock
  <2>. QED
    BY <1>6, <2>1, <2>2, ToolOf, Names DEF CandidateRun, Tool
<1>7. ASSUME NEW s \in {Oracle, Candidate}, k = s.receipt
      PROVE  <<k, r>> \in ReportFailures
  <2>1. Release.records[k] = SignReceipt(s).records
    BY <1>7, ToolOf, Names
  <2>. QED  BY <1>7, <2>1, CaptureCompares DEF SignReceipt, Tool
<1>8. ASSUME NEW s \in {Oracle, Candidate}, k = s.capture
      PROVE  <<k, r>> \in ReportFailures
  <2>1. Release.records[k] = Scope \cup {"revision", s.run, s.receipt}
    BY <1>8, ToolOf, Names DEF WriteCapture, WriteReference, Tool
  <2>. QED  BY <1>8, <2>1, CaptureCompares
<1>9. CASE k = "plan"
  BY <1>9, ToolOf, GateCompares DEF MaterializePlan, Tool, CommandPlan, PlannedCommands
<1>10. CASE k = "packet"
  <2>1. ReviewPacket \subseteq ReportFailures
    BY GateCompares DEF Review
  <2>. QED  BY <1>10, <2>1, ToolOf DEF MaterializePacket, Tool, ReviewPacket
<1>11. CASE k \in Decisions
  <2>1. ReviewDecisions \subseteq ReportFailures
    BY GateCompares DEF Review
  <2>. QED  BY <1>11, <2>1, ToolOf DEF SignDecision, Tool, ReviewDecisions
<1>12. CASE k = "executions"
  <2>1. Executed \subseteq ReportFailures
    BY GateCompares DEF Security
  <2>. QED  BY <1>12, <2>1, ToolOf DEF RunCommands, Tool, Executed
<1>13. CASE k = "metrics"
  <2>1. {"metrics"} \X (Scope \cup {"revision"}) \subseteq ReportFailures
    BY GateCompares DEF MetricsBindings
  <2>2. {"metrics"} \X ({"packet"} \cup Decisions) \subseteq ReportFailures
    BY GateCompares DEF Review
  <2>3. <<"metrics", "executions">> \in ReportFailures
    BY GateCompares DEF Security
  <2>4. {"metrics"} \X {Oracle.run, Candidate.run, "plan", Oracle.capture, Candidate.capture}
          \subseteq ReportFailures
    BY GateCompares DEF CaptureLinks
  <2>5. r \in Scope \cup {"revision"} \cup {"packet"} \cup Decisions \cup {"executions"}
             \cup {Oracle.run, Candidate.run, "plan", Oracle.capture, Candidate.capture}
    BY <1>13, ToolOf DEF AssembleMetrics, MetricsManifest, Tool
  <2>. QED  BY <1>13, <2>1, <2>2, <2>3, <2>4, <2>5
<1>14. CASE k = "report"
  BY <1>14, ToolOf DEF AssembleReport, Tool, ReportFailures
<1>15. k \in {"evaluator", "corpus", "candidate lock", "lock", "attestation", "plan", "packet",
              "executions", "metrics", "report"} \cup Decisions
         \cup UNION {{s.run, s.receipt, s.capture} : s \in {Oracle, Candidate}}
  BY DEF EvidenceDocs
<1>. QED
  BY <1>1, <1>2, <1>3, <1>4, <1>5, <1>6, <1>7, <1>8, <1>9, <1>10, <1>11, <1>12,
     <1>13, <1>14, <1>15, Names

(* The gate of a release compares everything but the digests of the         *)
(* candidate's lock; the tool that made the lock compared those.            *)
LEMMA ReleaseCovered == Covered(Release)
<1>1. ASSUME NEW k \in EvidenceDocs, NEW r \in Release.records[k], k # "candidate lock"
      PROVE  <<k, r>> \in ReportFailures
  BY <1>1, Compared
<1>2. ASSUME NEW r \in Release.records["candidate lock"]
      PROVE  \E h \in EvidenceDocs : /\ <<h, "candidate lock">> \in ReportFailures
                                     /\ <<h, r>> \in ReportFailures
                                     /\ <<"candidate lock", r>> \in Release.binds[h]
  <2>1. "lock" \in EvidenceDocs /\ EvidenceTools["lock"] = PortableLock
    BY Names, Kept DEF EvidenceTools, Decisions
  <2>2. r \in {"revision", "tools"}
    BY <1>2, ToolOf DEF CandidateRuntimeLock, Tool
  <2>3. {"candidate lock", "revision", "tools"} \subseteq Release.records["lock"]
    BY ToolOf DEF PortableLock, Tool
  <2>4. <<"lock", "candidate lock">> \in ReportFailures /\ <<"lock", r>> \in ReportFailures
    BY <2>1, <2>2, <2>3, <1>1
  <2>5. <<"candidate lock", r>> \in Release.binds["lock"]
    <3>1. Release.binds["lock"] = CandidateLocks \cup BoundRuntime
      <4>1. PortableLock.binds = CandidateLocks \cup BoundRuntime
        BY DEF PortableLock, Tool
      <4>2. Release.binds["lock"] = EvidenceTools["lock"].binds
        BY <2>1, ReleaseTable
      <4>. QED  BY <2>1, <4>1, <4>2
    <3>. QED  BY <2>2, <3>1 DEF CandidateLocks
  <2>. QED  BY <2>1, <2>4, <2>5
<1>. QED  BY <1>1, <1>2, ReleaseTable DEF Covered

(* Under the Office profile everything in a document is compared but what   *)
(* the batch says of the revision and of Office: the receipt over the batch *)
(* was signed when both were compared with the run's.                       *)
LEMMA OfficeTable ==
  /\ Office.docs = OfficeDocs /\ Office.gate = OfficeGate /\ Office.gateNow = OfficeNow
  /\ Office.sources = OfficeSources /\ Office.given = {"contract", "tools", "exports"}
  /\ \A k \in OfficeDocs : /\ Office.records[k] = OfficeTools[k].records
                          /\ Office.binds[k] = OfficeTools[k].binds
<1>1. DOMAIN OfficeTools = OfficeDocs
  BY DEF OfficeTools
<1>. QED  BY <1>1 DEF Office, Table

LEMMA OfficeCompares ==
  /\ EvaluatorManifest \subseteq OfficeGate
  /\ Corpus \subseteq OfficeGate
  /\ MetricsBindings \subseteq OfficeGate
  /\ OfficePlan \subseteq OfficeGate
  /\ CaptureLinks \subseteq OfficeGate
  /\ {"metrics"} \X {"plan", Oracle.capture, Candidate.capture} \subseteq OfficeGate
  /\ Security \subseteq OfficeGate
  /\ Review \subseteq OfficeGate
  /\ OfficeCapture(Oracle) \subseteq OfficeGate
  /\ OfficeCapture(Candidate) \subseteq OfficeGate
<1>1. OfficeMetrics \subseteq OfficeGate /\ EvaluatorManifest \subseteq OfficeGate
  BY DEF OfficeGate
<1>2. HardGates \subseteq OfficeMetrics
  BY DEF OfficeMetrics
<1>. QED  BY <1>1, <1>2 DEF OfficeMetrics, HardGates

LEMMA OfficeCaptureCompares ==
  /\ \A s \in {Oracle, Candidate} :
       /\ {s.capture} \X (Scope \cup {"revision", s.run, s.receipt}) \subseteq OfficeGate
       /\ {s.run} \X {"revision", "evaluator", "corpus"} \subseteq OfficeGate
       /\ {s.receipt} \X (Scope \cup {"revision", s.run}) \subseteq OfficeGate
       /\ <<s.run, "tools">> \in OfficeGate
  /\ OfficeLock \subseteq OfficeGate
  /\ OfficeAttestation \subseteq OfficeGate
  /\ <<Candidate.run, "attestation">> \in OfficeGate
  /\ {Oracle.receipt, Oracle.capture} \X {"batch", "exports"} \subseteq OfficeGate
  /\ {"batch"} \X {"inputs", "exports"} \subseteq OfficeGate
<1>1. /\ OfficeRuntime \subseteq OfficeGate
      /\ OfficeProvenance \subseteq OfficeGate
  BY OfficeCompares, Names DEF OfficeCapture
<1>2. /\ OfficeReceipt \subseteq OfficeGate
      /\ BatchUnits \subseteq OfficeGate /\ BatchFiles \subseteq OfficeGate
      /\ {Oracle.capture} \X {"batch", "exports"} \subseteq OfficeGate
  BY <1>1 DEF OfficeProvenance
<1>3. CandidateRuntime \subseteq OfficeGate /\ ExecutionReceipt \subseteq OfficeGate
  BY OfficeCompares, Names DEF OfficeCapture
<1>4. OfficeLock \subseteq OfficeGate /\ OfficeAttestation \subseteq OfficeGate
      /\ <<Candidate.run, "attestation">> \in OfficeGate
      /\ <<Candidate.run, "tools">> \in OfficeGate
  BY <1>3 DEF CandidateRuntime, RuntimeArtifacts
<1>5. ASSUME NEW s \in {Oracle, Candidate}
      PROVE  /\ {s.capture} \X (Scope \cup {"revision", s.run, s.receipt}) \subseteq OfficeGate
             /\ {s.run} \X {"revision", "evaluator", "corpus"} \subseteq OfficeGate
  <2>1. OfficeCapture(s) \subseteq OfficeGate
    BY OfficeCompares
  <2>2. Upstream(s) \subseteq OfficeGate
    BY <2>1 DEF OfficeCapture
  <2>. QED  BY <2>2 DEF Upstream, ExecutionLog
<1>6. {Candidate.receipt} \X (Scope \cup {"revision", Candidate.run}) \subseteq OfficeGate
  BY <1>3 DEF ExecutionReceipt
<1>7. /\ {Oracle.receipt} \X (Scope \cup {"revision", Oracle.run}) \subseteq OfficeGate
      /\ {Oracle.receipt} \X {"batch", "exports"} \subseteq OfficeGate
  BY <1>2 DEF OfficeReceipt
<1>8. <<Oracle.run, "tools">> \in OfficeGate
  BY <1>1 DEF OfficeRuntime
<1>9. {"batch"} \X {"inputs", "exports"} \subseteq OfficeGate
  BY <1>2 DEF BatchUnits, BatchFiles
<1>. QED  BY <1>2, <1>4, <1>5, <1>6, <1>7, <1>8, <1>9

(* What each tool of the Office profile records.                            *)
LEMMA OfficeRecords ==
  /\ Office.records["evaluator"] = {"contract", "revision"}
  /\ Office.records["corpus"] = {"contract", "inputs"}
  /\ Office.records["lock"] = {"revision", "tools", "toolchain"}
  /\ Office.records["attestation"] = Scope \cup {"revision"}
  /\ Office.records["batch"] = {"inputs", "revision", "tools", "exports"}
  /\ Office.records["oracle run"] = {"revision", "evaluator", "corpus", "tools"}
  /\ Office.records["oracle receipt"] = Scope \cup {"revision", "batch", "exports", "oracle run"}
  /\ Office.records["oracle capture"] =
         Scope \cup {"revision", "batch", "exports", "oracle run", "oracle receipt"}
  /\ Office.records["candidate run"] = {"revision", "evaluator", "corpus", "tools", "attestation"}
  /\ Office.records["candidate receipt"] = Scope \cup {"revision", "candidate run"}
  /\ Office.records["candidate capture"] =
         Scope \cup {"revision", "candidate run", "candidate receipt"}
  /\ Office.records["plan"] = {"lock", "toolchain"}
  /\ Office.records["packet"] =
         Scope \cup {"revision", Oracle.capture, Candidate.capture, Oracle.run,
           Candidate.run}
  /\ Office.records["executions"] = {"plan", "revision", "evaluator", "corpus"}
  /\ Office.records["metrics"] =
         Scope \cup {"revision", "plan", "packet", "executions", Oracle.capture,
                    Candidate.capture, Oracle.run, Candidate.run} \cup Decisions
  /\ Office.records["report"] = Scope \cup {"metrics"}
  /\ \A k \in Decisions : Office.records[k] = {"packet"}
  /\ Office.binds["oracle receipt"] = Finalize \cup OneRun(Oracle)
<1>0. /\ {"evaluator", "corpus", "lock", "attestation", "batch", "oracle run", "oracle receipt",
          "oracle capture", "candidate run", "candidate receipt", "candidate capture", "plan",
          "packet", "executions", "metrics", "report"} \subseteq OfficeDocs
      /\ Decisions \subseteq OfficeDocs
  BY Kept, Names DEF OfficeDocs, Decisions
<1>1. Office.records["evaluator"] = {"contract", "revision"}
  <2>1. Office.records["evaluator"] = OfficeTools["evaluator"].records
    BY <1>0, OfficeTable
  <2>2. OfficeTools["evaluator"] = ScaffoldEvidence
    BY <1>0, Names DEF OfficeTools, Decisions
  <2>3. ScaffoldEvidence.records = {"contract", "revision"}
    BY DEF ScaffoldEvidence, Tool
  <2>. QED  BY <2>1, <2>2, <2>3, Names
<1>2. Office.records["corpus"] = {"contract", "inputs"}
  <2>1. Office.records["corpus"] = OfficeTools["corpus"].records
    BY <1>0, OfficeTable
  <2>2. OfficeTools["corpus"] = ReadyCorpus
    BY <1>0, Names DEF OfficeTools, Decisions
  <2>3. ReadyCorpus.records = {"contract", "inputs"}
    BY DEF ReadyCorpus, Tool
  <2>. QED  BY <2>1, <2>2, <2>3, Names
<1>3. Office.records["lock"] = {"revision", "tools", "toolchain"}
  <2>1. Office.records["lock"] = OfficeTools["lock"].records
    BY <1>0, OfficeTable
  <2>2. OfficeTools["lock"] = FillLock
    BY <1>0, Names DEF OfficeTools, Decisions
  <2>3. FillLock.records = {"revision", "tools", "toolchain"}
    BY DEF FillLock, Tool
  <2>. QED  BY <2>1, <2>2, <2>3, Names
<1>4. Office.records["attestation"] = Scope \cup {"revision"}
  <2>1. Office.records["attestation"] = OfficeTools["attestation"].records
    BY <1>0, OfficeTable
  <2>2. OfficeTools["attestation"] = SignOfficeAttestation
    BY <1>0, Names DEF OfficeTools, Decisions
  <2>3. SignOfficeAttestation.records = Scope \cup {"revision"}
    BY DEF SignOfficeAttestation, Tool
  <2>. QED  BY <2>1, <2>2, <2>3, Names
<1>5. Office.records["batch"] = {"inputs", "revision", "tools", "exports"}
  <2>1. Office.records["batch"] = OfficeTools["batch"].records
    BY <1>0, OfficeTable
  <2>2. OfficeTools["batch"] = OfficeBatch
    BY <1>0, Names DEF OfficeTools, Decisions
  <2>3. OfficeBatch.records = {"inputs", "revision", "tools", "exports"}
    BY DEF OfficeBatch, Tool
  <2>. QED  BY <2>1, <2>2, <2>3, Names
<1>6. Office.records["oracle run"] = {"revision", "evaluator", "corpus", "tools"}
  <2>1. Office.records["oracle run"] = OfficeTools["oracle run"].records
    BY <1>0, OfficeTable
  <2>2. OfficeTools["oracle run"] = FinalizeRun
    BY <1>0, Names DEF OfficeTools, Decisions
  <2>3. FinalizeRun.records = {"revision", "evaluator", "corpus", "tools"}
    BY DEF FinalizeRun, Tool
  <2>. QED  BY <2>1, <2>2, <2>3, Names
<1>7. Office.records["oracle receipt"] = Scope \cup {"revision", "batch", "exports", "oracle run"}
  <2>1. Office.records["oracle receipt"] = OfficeTools["oracle receipt"].records
    BY <1>0, OfficeTable
  <2>2. OfficeTools["oracle receipt"] = FinalizeReceipt
    BY <1>0, Names DEF OfficeTools, Decisions
  <2>3. FinalizeReceipt.records = Scope \cup {"revision", "batch", "exports", Oracle.run}
    BY DEF FinalizeReceipt, Inventories, Tool
  <2>. QED  BY <2>1, <2>2, <2>3, Names
<1>8. Office.records["oracle capture"] =
       Scope \cup {"revision", "batch", "exports", "oracle run", "oracle receipt"}
  <2>1. Office.records["oracle capture"] = OfficeTools["oracle capture"].records
    BY <1>0, OfficeTable
  <2>2. OfficeTools["oracle capture"] = FinalizeCapture
    BY <1>0, Names DEF OfficeTools, Decisions
  <2>3. FinalizeCapture.records =
         Scope \cup {"revision", "batch", "exports", Oracle.run, Oracle.receipt}
    BY DEF FinalizeCapture, Inventories, Tool
  <2>. QED  BY <2>1, <2>2, <2>3, Names
<1>9. Office.records["candidate run"] = {"revision", "evaluator", "corpus", "tools", "attestation"}
  <2>1. Office.records["candidate run"] = OfficeTools["candidate run"].records
    BY <1>0, OfficeTable
  <2>2. OfficeTools["candidate run"] = OfficeCandidateRun
    BY <1>0, Names DEF OfficeTools, Decisions
  <2>3. OfficeCandidateRun.records = {"revision", "evaluator", "corpus", "tools", "attestation"}
    BY DEF OfficeCandidateRun, Tool
  <2>. QED  BY <2>1, <2>2, <2>3, Names
<1>10. Office.records["candidate receipt"] = Scope \cup {"revision", "candidate run"}
  <2>1. Office.records["candidate receipt"] = OfficeTools["candidate receipt"].records
    BY <1>0, OfficeTable
  <2>2. OfficeTools["candidate receipt"] = SignCandidate
    BY <1>0, Names DEF OfficeTools, Decisions
  <2>3. SignCandidate.records = Scope \cup {"revision", Candidate.run}
    BY DEF SignCandidate, Tool
  <2>. QED  BY <2>1, <2>2, <2>3, Names
<1>11. Office.records["candidate capture"] =
       Scope \cup {"revision", "candidate run", "candidate receipt"}
  <2>1. Office.records["candidate capture"] = OfficeTools["candidate capture"].records
    BY <1>0, OfficeTable
  <2>2. OfficeTools["candidate capture"] = CandidateCapture
    BY <1>0, Names DEF OfficeTools, Decisions
  <2>3. CandidateCapture.records = Scope \cup {"revision", Candidate.run, Candidate.receipt}
    BY DEF CandidateCapture, Tool
  <2>. QED  BY <2>1, <2>2, <2>3, Names
<1>12. Office.records["plan"] = {"lock", "toolchain"}
  <2>1. Office.records["plan"] = OfficeTools["plan"].records
    BY <1>0, OfficeTable
  <2>2. OfficeTools["plan"].records = {"lock", "toolchain"}
    BY <1>0, Names DEF OfficeTools, Decisions, Tool
  <2>. QED  BY <2>1, <2>2
<1>13. Office.records["packet"] =
       Scope \cup {"revision", Oracle.capture, Candidate.capture, Oracle.run, Candidate.run}
  <2>1. Office.records["packet"] = OfficeTools["packet"].records
    BY <1>0, OfficeTable
  <2>2. OfficeTools["packet"].records = MaterializePacket.records
    BY <1>0, Names DEF OfficeTools, Decisions, Tool
  <2>3. MaterializePacket.records =
         Scope \cup {"revision", Oracle.capture, Candidate.capture, Oracle.run,
           Candidate.run}
    BY DEF MaterializePacket, Tool
  <2>. QED  BY <2>1, <2>2, <2>3, Names
<1>14. Office.records["executions"] = {"plan", "revision", "evaluator", "corpus"}
  <2>1. Office.records["executions"] = OfficeTools["executions"].records
    BY <1>0, OfficeTable
  <2>2. OfficeTools["executions"].records = RunCommands.records
    BY <1>0, Names DEF OfficeTools, Decisions, Tool
  <2>3. RunCommands.records = {"plan", "revision", "evaluator", "corpus"}
    BY DEF RunCommands, Tool
  <2>. QED  BY <2>1, <2>2, <2>3, Names
<1>15. Office.records["metrics"] =
       Scope \cup {"revision", "plan", "packet", "executions", Oracle.capture,
                    Candidate.capture, Oracle.run, Candidate.run} \cup Decisions
  <2>1. Office.records["metrics"] = OfficeTools["metrics"].records
    BY <1>0, OfficeTable
  <2>2. OfficeTools["metrics"].records = AssembleMetrics.records
    BY <1>0, Names DEF OfficeTools, Decisions, Tool
  <2>3. AssembleMetrics.records =
         Scope \cup {"revision", "plan", "packet", "executions", Oracle.capture,
           Candidate.capture, Oracle.run, Candidate.run} \cup Decisions
    BY DEF AssembleMetrics, MetricsManifest, Tool
  <2>. QED  BY <2>1, <2>2, <2>3, Names
<1>16. Office.records["report"] = Scope \cup {"metrics"}
  <2>1. Office.records["report"] = OfficeTools["report"].records
    BY <1>0, OfficeTable
  <2>2. OfficeTools["report"].records = AssembleReport.records
    BY <1>0, Names DEF OfficeTools, Decisions, Tool
  <2>3. AssembleReport.records = Scope \cup {"metrics"}
    BY DEF AssembleReport, Tool
  <2>. QED  BY <2>1, <2>2, <2>3, Names
<1>17. ASSUME NEW k \in Decisions
       PROVE  Office.records[k] = {"packet"}
  <2>1. Office.records[k] = OfficeTools[k].records
    BY <1>0, <1>17, OfficeTable
  <2>2. OfficeTools[k] = SignDecision
    BY <1>0, <1>17, Names DEF OfficeTools, Decisions
  <2>. QED  BY <2>1, <2>2 DEF SignDecision, Tool
<1>18. Office.binds["oracle receipt"] = Finalize \cup OneRun(Oracle)
  <2>1. Office.binds["oracle receipt"] = OfficeTools["oracle receipt"].binds
    BY <1>0, OfficeTable
  <2>2. OfficeTools["oracle receipt"] = FinalizeReceipt
    BY <1>0, Names DEF OfficeTools, Decisions
  <2>3. FinalizeReceipt.binds = Finalize \cup OneRun(Oracle)
    BY DEF FinalizeReceipt, Tool
  <2>. QED  BY <2>1, <2>2, <2>3
<1>. QED
  BY <1>1, <1>2, <1>3, <1>4, <1>5, <1>6, <1>7, <1>8, <1>9, <1>10, <1>11, <1>12, <1>13,
     <1>14, <1>15, <1>16, <1>17, <1>18

LEMMA OfficeCompared ==
  ASSUME NEW k \in OfficeDocs, NEW r \in Office.records[k],
         k # "batch" \/ r \in {"inputs", "exports"}
  PROVE  <<k, r>> \in OfficeGate
<1>1. CASE k = "evaluator"
  BY <1>1, OfficeRecords, OfficeCompares DEF EvaluatorManifest
<1>2. CASE k = "corpus"
  BY <1>2, OfficeRecords, OfficeCompares DEF Corpus, SourceFiles
<1>3. CASE k = "lock"
  BY <1>3, OfficeRecords, OfficeCompares, OfficeCaptureCompares
     DEF OfficeLock, OfficePlan
<1>4. CASE k = "attestation"
  BY <1>4, OfficeRecords, OfficeCaptureCompares
     DEF OfficeAttestation, Attestation
<1>5. CASE k = "batch"
  BY <1>5, OfficeCaptureCompares
<1>6. CASE k = "oracle run"
  BY <1>6, OfficeRecords, OfficeCaptureCompares, Names
<1>7. CASE k = "oracle receipt"
  BY <1>7, OfficeRecords, OfficeCaptureCompares, Names
<1>8. CASE k = "oracle capture"
  BY <1>8, OfficeRecords, OfficeCaptureCompares, Names
<1>9. CASE k = "candidate run"
  BY <1>9, OfficeRecords, OfficeCaptureCompares, Names
<1>10. CASE k = "candidate receipt"
  BY <1>10, OfficeRecords, OfficeCaptureCompares, Names
<1>11. CASE k = "candidate capture"
  BY <1>11, OfficeRecords, OfficeCaptureCompares, Names
<1>12. CASE k = "plan"
  BY <1>12, OfficeRecords, OfficeCompares DEF OfficePlan
<1>13. CASE k = "packet"
  <2>1. ReviewPacket \subseteq OfficeGate
    BY OfficeCompares DEF Review
  <2>. QED  BY <1>13, <2>1, OfficeRecords DEF ReviewPacket
<1>14. CASE k \in Decisions
  <2>1. ReviewDecisions \subseteq OfficeGate
    BY OfficeCompares DEF Review
  <2>. QED  BY <1>14, <2>1, OfficeRecords DEF ReviewDecisions
<1>15. CASE k = "executions"
  <2>1. Executed \subseteq OfficeGate
    BY OfficeCompares DEF Security
  <2>. QED  BY <1>15, <2>1, OfficeRecords DEF Executed
<1>16. CASE k = "metrics"
  <2>1. {"metrics"} \X (Scope \cup {"revision"}) \subseteq OfficeGate
    BY OfficeCompares DEF MetricsBindings
  <2>2. {"metrics"} \X ({"packet"} \cup Decisions) \subseteq OfficeGate
    BY OfficeCompares DEF Review
  <2>3. <<"metrics", "executions">> \in OfficeGate
    BY OfficeCompares DEF Security
  <2>4. {"metrics"} \X {Oracle.run, Candidate.run, "plan", Oracle.capture, Candidate.capture}
          \subseteq OfficeGate
    BY OfficeCompares DEF CaptureLinks
  <2>5. r \in Scope \cup {"revision"} \cup {"packet"} \cup Decisions \cup {"executions"}
             \cup {Oracle.run, Candidate.run, "plan", Oracle.capture, Candidate.capture}
    BY <1>16, OfficeRecords
  <2>. QED  BY <1>16, <2>1, <2>2, <2>3, <2>4, <2>5
<1>17. CASE k = "report"
  BY <1>17, OfficeRecords DEF OfficeGate
<1>18. k \in {"evaluator", "corpus", "lock", "attestation", "batch", "plan", "packet",
              "executions", "metrics", "report"} \cup Decisions
         \cup UNION {{s.run, s.receipt, s.capture} : s \in {Oracle, Candidate}}
  BY DEF OfficeDocs, EvidenceDocs
<1>19. ASSUME k \in UNION {{s.run, s.receipt, s.capture} : s \in {Oracle, Candidate}}
       PROVE  k \in {"oracle run", "oracle receipt", "oracle capture",
                     "candidate run", "candidate receipt", "candidate capture"}
  <2>1. PICK s \in {Oracle, Candidate} : k \in {s.run, s.receipt, s.capture}
    BY <1>19
  <2>. QED  BY <2>1, Names
<1>20. k \in {"evaluator", "corpus", "lock", "attestation", "batch", "plan", "packet",
              "executions", "metrics", "report"} \cup Decisions
         \cup {"oracle run", "oracle receipt", "oracle capture",
               "candidate run", "candidate receipt", "candidate capture"}
  BY <1>18, <1>19
<1>. QED
  BY <1>1, <1>2, <1>3, <1>4, <1>5, <1>6, <1>7, <1>8, <1>9, <1>10, <1>11, <1>12, <1>13,
     <1>14, <1>15, <1>16, <1>17, <1>20

LEMMA OfficeCovered == Covered(Office)
<1>. DEFINE h == "oracle receipt"
            m == "oracle run"
<1>1. h \in OfficeDocs /\ m \in OfficeDocs /\ "batch" \in OfficeDocs
  BY Kept, Names DEF OfficeDocs
<1>3. Office.binds[h] = Finalize \cup OneRun(Oracle)
  BY OfficeRecords
<1>4. /\ <<"batch", "tools">> \in Office.binds[h] /\ <<"batch", "revision">> \in Office.binds[h]
      /\ <<m, "tools">> \in Office.binds[h]
  BY <1>3, Names DEF Finalize, BatchLock, OneRun
<1>5. /\ <<h, "batch">> \in OfficeGate /\ <<h, "revision">> \in OfficeGate
      /\ <<h, m>> \in OfficeGate /\ <<m, "tools">> \in OfficeGate
  BY OfficeCaptureCompares, Names
<1>6. Office.records["batch"] = {"inputs", "revision", "tools", "exports"}
  BY OfficeRecords
<1>. HIDE DEF h, m
<1>7. ASSUME NEW k \in OfficeDocs, NEW r \in Office.records[k]
      PROVE  \/ <<k, r>> \in OfficeGate
             \/ \E i \in OfficeDocs : /\ <<i, k>> \in OfficeGate /\ <<i, r>> \in OfficeGate
                                     /\ <<k, r>> \in Office.binds[i]
             \/ \E i \in OfficeDocs, j \in OfficeDocs :
                  /\ <<i, k>> \in OfficeGate /\ <<i, j>> \in OfficeGate
                  /\ <<j, r>> \in OfficeGate
                  /\ <<k, r>> \in Office.binds[i] /\ <<j, r>> \in Office.binds[i]
  <2>1. CASE k # "batch" \/ r \in {"inputs", "exports"}
    BY <1>7, <2>1, OfficeCompared
  <2>2. CASE k = "batch" /\ r = "revision"
    BY <2>2, <1>1, <1>4, <1>5
  <2>3. CASE k = "batch" /\ r = "tools"
    BY <2>3, <1>1, <1>4, <1>5
  <2>. QED  BY <1>6, <1>7, <2>1, <2>2, <2>3
<1>. QED  BY <1>7, OfficeTable DEF Covered

(* Each digest in the ready corpora and below is compared by their gate.    *)
LEMMA CorporaCovered == Covered(Corpora)
<1>1. /\ Corpora.docs = CorporaDocs /\ Corpora.gate = ReadyCorpora
      /\ \A k \in CorporaDocs : Corpora.records[k] = CorporaTools[k].records
  <2>1. DOMAIN CorporaTools = CorporaDocs
    BY DEF CorporaTools
  <2>. QED  BY <2>1 DEF Corpora, Table
<1>2. /\ ConformancePlan \subseteq ReadyCorpora
      /\ ModernManifests \subseteq ReadyCorpora
      /\ PairedManifests \subseteq ReadyCorpora
      /\ Auxiliary \subseteq ReadyCorpora
      /\ CorpusItems \subseteq ReadyCorpora
      /\ AssemblyBindings \subseteq ReadyCorpora
  BY DEF ReadyCorpora, ReadyInputs, ReadyPlan
<1>3. BinaryPool \subseteq ReadyCorpora /\ NativeInventory \subseteq ReadyCorpora
      /\ SecuritySnapshot \subseteq ReadyCorpora
  BY <1>2 DEF Auxiliary, BlindSources, SecuritySources
<1>4. ASSUME NEW k \in CorporaDocs, NEW r \in Corpora.records[k]
      PROVE  <<k, r>> \in ReadyCorpora
  <2>1. r \in CorporaTools[k].records
    BY <1>1, <1>4
  <2>2. CASE k = "conformance plan"
    BY <2>1, <2>2, <1>2 DEF CorporaTools, BuildPlan, Tool, ConformancePlan
  <2>3. CASE k \in Modern
    <3>1. CorporaTools[k] \in {GenerateDocx, GenerateXlsx, GeneratePptx, GeneratePdf}
      <4>1. k \in {"docx", "xlsx", "pptx", "pdf"} /\ k \in CorporaDocs
        BY <2>3 DEF Modern, Paired
      <4>. QED  BY <4>1 DEF CorporaTools
    <3>2. r \in {"contract", "conformance plan"}
      <4>1. /\ GenerateDocx.records = {"contract", "conformance plan"}
            /\ GenerateXlsx.records = {"contract", "conformance plan"}
            /\ GeneratePptx.records = {"contract", "conformance plan"}
            /\ GeneratePdf.records = {"contract", "conformance plan"}
        BY DEF GenerateDocx, GenerateXlsx, GeneratePptx, GeneratePdf, Tool
      <4>2. CorporaTools[k].records = {"contract", "conformance plan"}
        BY <3>1, <4>1
      <4>. QED  BY <2>1, <4>2
    <3>. QED  BY <2>3, <3>2, <1>2 DEF ModernManifests
  <2>4. CASE k = "legacy"
    BY <2>1, <2>4, <1>2 DEF CorporaTools, GenerateLegacyPairs, Tool, PairedManifests
  <2>5. CASE k = "pool"
    <3>1. PublicPool \subseteq ReadyCorpora
      BY <1>3 DEF BinaryPool
    <3>. QED  BY <2>1, <2>5, <3>1 DEF CorporaTools, CollectPublicPool, Tool, PublicPool
  <2>6. CASE k = "binary config"
    <3>1. BinaryPlans \subseteq ReadyCorpora
      BY <1>3 DEF BinaryPool
    <3>. QED  BY <2>1, <2>6, <3>1 DEF CorporaTools, WriteBinaryConfig, Tool, BinaryPlans
  <2>7. CASE k = "binary pool"
    BY <2>1, <2>7, <1>3 DEF CorporaTools, CollectBinaryPool, Tool, BinaryPool
  <2>8. CASE k = "security"
    BY <2>1, <2>8, <1>3 DEF CorporaTools, GenerateSecurity, Tool, SecuritySnapshot
  <2>9. CASE k = "inventory"
    BY <2>1, <2>9, <1>3 DEF CorporaTools, CaptureInventory, Tool, NativeInventory, InventoryRoot
  <2>10. CASE k = "ready corpora"
    <3>1. r \in FormatManifest \cup AssemblyManifest
      BY <2>1, <2>10 DEF CorporaTools, AssembleCorpora, Tool
    <3>2. FormatManifest \cup AssemblyManifest
            \subseteq {"contract", "conformance plan", "inventory"} \cup Upstreams
      BY DEF FormatManifest, AssemblyManifest, ConformanceItems, Upstreams
    <3>. QED  BY <2>10, <3>1, <3>2, <1>2 DEF AssemblyBindings
  <2>. QED
    BY <2>2, <2>3, <2>4, <2>5, <2>6, <2>7, <2>8, <2>9, <2>10 DEF CorporaDocs
<1>. QED  BY <1>1, <1>4 DEF Covered

(* Each digest in the pictures of the golden set is compared.               *)
LEMMA GoldenCovered == Covered(Golden)
<1>1. Golden.docs = {"metadata", "manifest"} /\ Golden.gate = Batch
  BY DEF Golden, Table, BatchTools, Ready, StrictComparison
<1>2. /\ Golden.records["metadata"] = GoldenSources
      /\ Golden.records["manifest"] = GoldenSources \cup {"metadata"}
  BY DEF Golden, Table, BatchTools, ScaffoldMetadata, ScaffoldManifest, Tool
<1>3. ASSUME NEW k \in Golden.docs, NEW r \in Golden.records[k]
      PROVE  <<k, r>> \in Batch
  BY <1>1, <1>2, <1>3 DEF Batch, Provenance, Pictures, GoldenSources
<1>. QED  BY <1>1, <1>3 DEF Covered

(* All chains are covered, and their gates read what changes by itself.     *)
LEMMA Gates ==
  ASSUME table \in DOMAIN Tables
  PROVE  Covered(T) /\ T.sources \ T.given \subseteq T.gateNow
<1>1. T = Release \/ T = Office \/ T = Corpora \/ T = Golden
  BY TableAssumption DEF T, EvidenceTables
<1>2. Release.sources \ Release.given \subseteq Release.gateNow
  BY ReleaseTable DEF EvidenceSources, GateNow
<1>3. Corpora.sources \ Corpora.given \subseteq Corpora.gateNow
  BY DEF Corpora, Table, CorporaSources, ReadyNow
<1>4. Golden.sources \ Golden.given \subseteq Golden.gateNow
  BY DEF Golden, Table
<1>5. Office.sources \ Office.given \subseteq Office.gateNow
  BY OfficeTable DEF OfficeSources, OfficeNow
<1>. QED
  BY <1>1, <1>2, <1>3, <1>4, <1>5, ReleaseCovered, OfficeCovered, CorporaCovered, GoldenCovered

(* A gate accepts only evidence of one version: no manifest, review,        *)
(* capture, receipt, lock or measurement of another one is ever mixed in.   *)
THEOREM EvidenceOneVersion == Spec => []OneVersion
<1>1. IInv => OneVersion
  BY AcceptedAgrees, Gates DEF OneVersion, IInv, TypeOK
<1>. QED  BY <1>1, Inductive, PTL

(* A gate accepts nothing that was made for an earlier revision, other      *)
(* programs or other sources than it finds.                                 *)
THEOREM EvidenceNothingStale == Spec => []NothingStale
<1>1. IInv => NothingStale
  <2>. SUFFICES ASSUME IInv, NEW call \in GateCalls, Accepts(call) PROVE IsCurrent(call)
    BY DEF NothingStale
  <2>1. Covered(T) /\ T.sources \ T.given \subseteq T.gateNow
    BY Gates DEF IInv, TypeOK
  <2>2. \A r \in T.gateNow : call[r] = Latest(r)
    BY DEF Accepts
  <2>3. \A k \in DOMAIN call \cap T.docs : \A r \in T.records[k] :
          shelf[k][call[k]][r] = call[r]
    BY <2>1, AcceptedAgrees
  <2>. QED  BY <2>1, <2>2, <2>3 DEF IsCurrent
<1>. QED  BY <1>1, Inductive, PTL

-----------------------------------------------------------------------------
(* What the gate refuses.                                                   *)

(* The arguments with which the tool made version i of h, as far as it       *)
(* compared them: no document that was there has changed since.              *)
MadeOf(h, i, call) ==
  /\ \A r \in T.records[h] : shelf[h][i][r] = call[r]
  /\ \A p \in T.binds[h] :
       p[1] # h /\ p[2] # h =>
         call[p[1]] \in 1..Latest(p[1]) /\ shelf[p[1]][call[p[1]]][p[2]] = call[p[2]]

Made == \A h \in T.docs : \A i \in 1..Latest(h) : \E call : MadeOf(h, i, call)

(* The table, pair by pair.                                                  *)
LEMMA PairFacts ==
  ASSUME table \in DOMAIN Tables
  PROVE  /\ \A h \in T.docs : \A p \in T.binds[h] :
              /\ p[1] \in T.docs /\ p[1] \in Kinds
              /\ p[1] # h => p[2] \in T.records[p[1]]
         /\ \A p \in T.gate : /\ p[1] \in T.docs /\ p[2] \in T.records[p[1]]
                              /\ p[1] \in T.reads /\ p[2] \in T.reads
         /\ T.gateNow \subseteq T.sources
<1>1. WellFormed(T)
  BY EvidenceAssumption DEF T
<1>2. \A p \in T.gate : /\ p[1] \in T.docs /\ p[2] \in T.records[p[1]]
                              /\ p[1] \in T.reads /\ p[2] \in T.reads
  BY <1>1 DEF WellFormed
<1>3. \A h \in T.docs : \A p \in T.binds[h] :
              /\ p[1] \in T.docs
              /\ p[1] # h => p[2] \in T.records[p[1]]
  BY <1>1 DEF WellFormed
<1>. QED  BY <1>1, <1>2, <1>3 DEF WellFormed, Kinds, KindsOf

(* In the first release each tool had the first version of everything.      *)
LEMMA MadeInit == Init => Made
<1>. SUFFICES ASSUME Init PROVE Made
  OBVIOUS
<1>1. TypeOK /\ table \in DOMAIN Tables
  BY StoreInit DEF Init
<1>2. ASSUME NEW k \in T.docs
      PROVE  Latest(k) = 1 /\ \A r \in T.records[k] : shelf[k][1][r] = 1
  <2>. DEFINE doc == [r \in T.records[k] |-> 1]
  <2>1. shelf[k] = <<doc>>
    BY <1>1, TableFacts DEF Init
  <2>2. \A r \in T.records[k] : doc[r] = 1
    OBVIOUS
  <2>. HIDE DEF doc
  <2>3. Len(<<doc>>) = 1 /\ <<doc>>[1] = doc
    BY OneDocument
  <2>. QED  BY <2>1, <2>2, <2>3 DEF Latest
<1>3. PICK call : call = [k \in Kinds |-> 1]
  OBVIOUS
<1>4. ASSUME NEW h \in T.docs, NEW i \in 1..Latest(h)
      PROVE  MadeOf(h, i, call)
  <2>1. i = 1
    BY <1>2
  <2>2. ASSUME NEW r \in T.records[h]
        PROVE  shelf[h][i][r] = call[r]
    <3>1. r \in Kinds
      BY <1>1, TableFacts
    <3>. QED  BY <1>2, <1>3, <2>1, <3>1
  <2>3. ASSUME NEW p \in T.binds[h], p[1] # h
        PROVE  call[p[1]] \in 1..Latest(p[1]) /\ shelf[p[1]][call[p[1]]][p[2]] = call[p[2]]
    <3>1. p[1] \in T.docs /\ p[1] \in Kinds /\ p[2] \in T.records[p[1]]
      BY <1>1, <2>3, PairFacts
    <3>2. p[2] \in Kinds
      BY <1>1, <3>1, TableFacts
    <3>3. call[p[1]] = 1 /\ call[p[2]] = 1
      BY <1>3, <3>1, <3>2
    <3>. QED  BY <1>2, <3>1, <3>3
  <2>. QED  BY <2>2, <2>3 DEF MadeOf
<1>. QED  BY <1>4 DEF Made

(* A tool that makes a document has found what it compared.                  *)
LEMMA NewCall ==
  ASSUME TypeOK, NEW h \in T.docs, Make(h)
  PROVE  \E call :
           /\ shelf' = [shelf EXCEPT ![h] = Append(@, [r \in T.records[h] |-> call[r]])]
           /\ \A p \in T.binds[h] : p[1] # h =>
                /\ call[p[1]] \in 1..Latest(p[1])
                /\ shelf[p[1]][call[p[1]]][p[2]] = call[p[2]]
<1>1. PICK call \in Calls(Reads(h), T.binds[h], T.now[h]) :
        /\ Agree(call, T.binds[h])
        /\ shelf' = [shelf EXCEPT ![h] = Append(@, [r \in T.records[h] |-> call[r]])]
  BY MakeStep
<1>2. DOMAIN call = Reads(h) /\ \A r \in Reads(h) : call[r] \in 1..Latest(r)
  BY CallTypes
<1>3. ASSUME NEW p \in T.binds[h], p[1] # h
      PROVE  /\ call[p[1]] \in 1..Latest(p[1])
             /\ shelf[p[1]][call[p[1]]][p[2]] = call[p[2]]
  <2>1. p[1] \in Reads(h)
    BY <1>3 DEF Reads
  <2>. QED  BY <1>1, <1>2, <2>1 DEF Agree
<1>. QED  BY <1>1, <1>3

(* A new document leaves those that were compared as they are.              *)
LEMMA MadeStep ==
  ASSUME TypeOK, Made, NEW j \in Kinds, Edit(j) \/ Make(j)
  PROVE  Made'
<1>1. PICK doc : shelf' = [shelf EXCEPT ![j] = Append(@, doc)]
  BY DEF Edit, Make
<1>2. table \in DOMAIN Tables /\ T' = T
  BY TableKept DEF Edit, Make, TypeOK
<1>3. /\ Latest(j)' = Latest(j) + 1
      /\ \A k \in Kinds : Latest(k) \in Nat /\ Latest(k)' \in Nat /\ Latest(k) <= Latest(k)'
      /\ \A k \in Kinds : \A i \in 1..Latest(k) : shelf'[k][i] = shelf[k][i]
      /\ \A k \in Kinds \ {j} : shelf'[k] = shelf[k]
  BY <1>1, AddDocument, Shelves
<1>4. \A h \in T.docs : h \in Kinds /\ h \notin T.sources
  BY <1>2, TableFacts
<1>5. ASSUME NEW h \in T.docs, NEW call, NEW p \in T.binds[h],
             call[p[1]] \in 1..Latest(p[1]) /\ shelf[p[1]][call[p[1]]][p[2]] = call[p[2]]
      PROVE  call[p[1]] \in 1..Latest(p[1])' /\ shelf'[p[1]][call[p[1]]][p[2]] = call[p[2]]
  <2>1. p[1] \in Kinds
    BY <1>2, PairFacts
  <2>2. shelf'[p[1]][call[p[1]]] = shelf[p[1]][call[p[1]]]
    BY <1>3, <1>5, <2>1
  <2>3. call[p[1]] \in 1..Latest(p[1])'
    <3>1. PICK a, b, c : a = call[p[1]] /\ b = Latest(p[1]) /\ c = Latest(p[1])'
      OBVIOUS
    <3>2. b \in Nat /\ c \in Nat /\ b <= c /\ a \in 1..b
      BY <1>3, <1>5, <2>1, <3>1
    <3>3. a \in 1..c
      BY <3>2
    <3>. QED  BY <3>1, <3>3
  <2>. QED  BY <1>5, <2>2, <2>3
<1>6. ASSUME NEW h \in T.docs, NEW i \in 1..Latest(h)'
      PROVE  \E call : /\ \A r \in T.records[h] : shelf'[h][i][r] = call[r]
                       /\ \A p \in T.binds[h] : p[1] # h /\ p[2] # h =>
                            /\ call[p[1]] \in 1..Latest(p[1])'
                            /\ shelf'[p[1]][call[p[1]]][p[2]] = call[p[2]]
  <2>1. CASE i \in 1..Latest(h)
    <3>1. PICK call : MadeOf(h, i, call)
      BY <2>1 DEF Made
    <3>2. \A r \in T.records[h] : shelf'[h][i][r] = call[r]
      BY <1>3, <1>4, <2>1, <3>1 DEF MadeOf
    <3>3. \A p \in T.binds[h] : p[1] # h /\ p[2] # h =>
            call[p[1]] \in 1..Latest(p[1]) /\ shelf[p[1]][call[p[1]]][p[2]] = call[p[2]]
      BY <3>1 DEF MadeOf
    <3>. QED  BY <1>5, <3>2, <3>3
  <2>2. CASE i \notin 1..Latest(h)
    <3>1. j = h
      <4>1. j # h => Latest(h)' = Latest(h)
        BY <1>3, <1>4 DEF Latest
      <4>. QED  BY <4>1, <1>6, <2>2
    <3>2. i = Latest(h) + 1
      BY <3>1, <1>3, <1>4, <1>6, <2>2
    <3>3. Make(h)
      BY <3>1, <1>4 DEF Edit
    <3>4. PICK call :
            /\ shelf' = [shelf EXCEPT ![h] = Append(@, [r \in T.records[h] |-> call[r]])]
            /\ \A p \in T.binds[h] : p[1] # h =>
                 /\ call[p[1]] \in 1..Latest(p[1])
                 /\ shelf[p[1]][call[p[1]]][p[2]] = call[p[2]]
      BY <3>3, NewCall
    <3>5. shelf'[h][i] = [r \in T.records[h] |-> call[r]]
      <4>. DEFINE new == [r \in T.records[h] |-> call[r]]
      <4>1. shelf' = [shelf EXCEPT ![h] = Append(@, new)]
        BY <3>4
      <4>. HIDE DEF new
      <4>2. shelf'[h][Latest(h) + 1] = new
        BY <1>4, <4>1, AddDocument
      <4>. QED  BY <3>2, <4>2 DEF new
    <3>6. \A r \in T.records[h] : shelf'[h][i][r] = call[r]
      BY <3>5
    <3>7. ASSUME NEW p \in T.binds[h], p[1] # h
          PROVE  /\ call[p[1]] \in 1..Latest(p[1])'
                 /\ shelf'[p[1]][call[p[1]]][p[2]] = call[p[2]]
      <4>1. /\ call[p[1]] \in 1..Latest(p[1])
            /\ shelf[p[1]][call[p[1]]][p[2]] = call[p[2]]
        BY <3>4, <3>7
      <4>. QED  BY <1>5, <4>1
    <3>. QED  BY <3>6, <3>7
  <2>. QED  BY <2>1, <2>2
<1>. QED  BY <1>2, <1>6 DEF Made, MadeOf

(* Every version of every document has been made so.                        *)
LEMMA MadeHolds == Spec => []Made
<1>1. Init => Made
  BY MadeInit
<1>2. TypeOK /\ Made /\ [Next]_vars => Made'
  <2>1. CASE UNCHANGED vars
    <3>1. shelf' = shelf /\ T' = T
      BY <2>1, TableKept DEF vars
    <3>. QED  BY <3>1 DEF Made, MadeOf, Latest
  <2>. QED  BY <2>1, MadeStep DEF Next
<1>. QED  BY <1>1, <1>2, EvidenceTypes, PTL DEF Spec

-----------------------------------------------------------------------------
(* The digests in the documents of a call, followed to the end.  What holds *)
(* of every step is shown by the least one that it does not hold of.        *)

(* A set of natural numbers has a least one.                                *)
LEMMA LeastNatural ==
  ASSUME NEW S \in SUBSET Nat, S # {}
  PROVE  \E n \in S : \A m \in S : n <= m
<1>1. IsWellFoundedOn(OpToRel(<, Nat), Nat)
  BY NatLessThanWellFounded
<1>2. \E x \in S : \A y \in S : ~ (<<y, x>> \in OpToRel(<, Nat))
  BY <1>1, WFMin
<1>3. PICK x \in S : \A y \in S : ~ (<<y, x>> \in {p \in Nat \X Nat : p[1] < p[2]})
  BY <1>2 DEF OpToRel
<1>4. \A y \in S : ~ (y < x)
  <2>. TAKE y \in S
  <2>1. y < x => <<y, x>> \in {p \in Nat \X Nat : p[1] < p[2]}
    OBVIOUS
  <2>. QED  BY <1>3, <2>1
<1>5. \A y \in S : x <= y
  BY <1>4
<1>. QED  BY <1>5

(* The digests that are followed, one step after the other.                 *)
Chain(g, n, pick, reads, pairs, now) ==
  /\ g = [k \in 0 .. n |-> g[k]]
  /\ g[0] = Start(pick, now)
  /\ \A e \in 1 .. n : g[e] = Follow(g[e - 1], reads, pairs)

(* There is such a sequence of steps of any length ...                      *)
LEMMA ChainExists ==
  ASSUME NEW pick, NEW reads, NEW pairs, NEW now, NEW m \in Nat
  PROVE  \E g : Chain(g, m, pick, reads, pairs, now)
<1>. DEFINE C(g, n) == Chain(g, n, pick, reads, pairs, now)
            S == {n \in Nat : ~ \E g : C(g, n)}
<1>. SUFFICES ASSUME m \in S PROVE FALSE
  OBVIOUS
<1>0. \A g, n : C(g, n) <=> /\ g = [k \in 0 .. n |-> g[k]]
                            /\ g[0] = Start(pick, now)
                            /\ \A e \in 1 .. n : g[e] = Follow(g[e - 1], reads, pairs)
  BY DEF Chain
<1>. HIDE DEF C
<1>1. PICK n \in S : \A k \in S : n <= k
  <2>. HIDE DEF S
  <2>1. S \in SUBSET Nat
    BY DEF S
  <2>. QED  BY <2>1, LeastNatural
<1>2. n \in Nat /\ ~ \E g : C(g, n)
  OBVIOUS
<1>3. CASE n = 0
  <2>1. PICK g : g = [k \in 0 .. 0 |-> Start(pick, now)]
    OBVIOUS
  <2>2. g = [k \in 0 .. 0 |-> g[k]] /\ g[0] = Start(pick, now)
    BY <2>1
  <2>3. 1 .. 0 = {}
    OBVIOUS
  <2>4. C(g, 0)
    BY <1>0, <2>2, <2>3
  <2>. QED  BY <1>2, <1>3, <2>4
<1>4. CASE n # 0
  <2>1. PICK k \in Nat : n = k + 1
    <3>1. n - 1 \in Nat /\ n = (n - 1) + 1
      BY <1>2, <1>4
    <3>. QED  BY <3>1
  <2>2. ~ (n <= k)
    BY <2>1
  <2>3. PICK h : C(h, k)
    BY <1>1, <2>2
  <2>. DEFINE next == Follow(h[k], reads, pairs)
  <2>4. PICK g : g = [j \in 0 .. n |-> IF j = n THEN next ELSE h[j]]
    OBVIOUS
  <2>5. g = [j \in 0 .. n |-> g[j]] /\ g[n] = next /\ \A j \in 0 .. k : g[j] = h[j]
    <3>. HIDE DEF next
    <3>1. \A j \in 0 .. k : j \in 0 .. n /\ j # n
      BY <2>1
    <3>2. n \in 0 .. n
      BY <1>2
    <3>. QED  BY <2>4, <3>1, <3>2
  <2>6. g[0] = Start(pick, now)
    <3>1. 0 \in 0 .. k
      OBVIOUS
    <3>. QED  BY <1>0, <2>3, <2>5, <3>1
  <2>7. ASSUME NEW e \in 1 .. n
        PROVE  g[e] = Follow(g[e - 1], reads, pairs)
    <3>1. CASE e = n
      <4>1. e - 1 = k /\ k \in 0 .. k
        BY <2>1, <3>1
      <4>2. g[e - 1] = h[k]
        BY <2>5, <4>1
      <4>. QED  BY <2>5, <3>1, <4>2
    <3>2. CASE e # n
      <4>1. e \in 1 .. k /\ e \in 0 .. k /\ e - 1 \in 0 .. k
        BY <2>1, <3>2
      <4>2. g[e] = h[e] /\ g[e - 1] = h[e - 1]
        BY <2>5, <4>1
      <4>. QED  BY <1>0, <2>3, <4>1, <4>2
    <3>. QED  BY <3>1, <3>2
  <2>8. C(g, n)
    BY <1>0, <2>5, <2>6, <2>7
  <2>. QED  BY <1>2, <2>8
<1>. QED  BY <1>3, <1>4

(* ... and the arguments of a call are the last of it.                      *)
LEMMA ChosenIsChain ==
  ASSUME NEW pick, NEW reads, NEW pairs, NEW now
  PROVE  /\ Depth \in Nat
         /\ \E g : /\ Chain(g, Depth, pick, reads, pairs, now)
                   /\ Chosen(pick, reads, pairs, now) = g[Depth]
<1>0. Depth \in Nat
  BY EvidenceAssumption
<1>. DEFINE Eq(g) == g = [n \in 0 .. Depth |->
              IF n = 0 THEN Start(pick, now) ELSE Follow(g[n - 1], reads, pairs)]
<1>1. PICK h : Chain(h, Depth, pick, reads, pairs, now)
  BY <1>0, ChainExists
<1>2. Eq(h)
  <2>. DEFINE r == [n \in 0 .. Depth |->
              IF n = 0 THEN Start(pick, now) ELSE Follow(h[n - 1], reads, pairs)]
  <2>1. h = [k \in 0 .. Depth |-> h[k]] /\ h[0] = Start(pick, now)
    BY <1>1 DEF Chain
  <2>2. ASSUME NEW e \in 0 .. Depth PROVE h[e] = r[e]
    <3>1. e # 0 => e \in 1 .. Depth
      BY <1>0
    <3>. QED  BY <1>1, <3>1 DEF Chain
  <2>3. r = [k \in 0 .. Depth |-> r[k]]
    OBVIOUS
  <2>. HIDE DEF r
  <2>4. h = r
    BY <2>1, <2>2, <2>3
  <2>. QED  BY <2>4 DEF r
<1>3. PICK g : g = CHOOSE f : Eq(f)
  OBVIOUS
<1>4. Eq(g)
  <2>. HIDE DEF Eq
  <2>. QED  BY <1>2, <1>3
<1>5. Chosen(pick, reads, pairs, now) = g[Depth]
  BY <1>3 DEF Chosen
<1>6. Chain(g, Depth, pick, reads, pairs, now)
  <2>1. g = [k \in 0 .. Depth |-> g[k]]
    BY <1>4
  <2>2. g[0] = Start(pick, now)
    <3>1. 0 \in 0 .. Depth
      BY <1>0
    <3>. QED  BY <1>4, <3>1
  <2>3. ASSUME NEW e \in 1 .. Depth
        PROVE  g[e] = Follow(g[e - 1], reads, pairs)
    <3>1. e \in 0 .. Depth /\ e # 0
      BY <1>0
    <3>. QED  BY <1>4, <3>1
  <2>. QED  BY <2>1, <2>2, <2>3 DEF Chain
<1>. QED  BY <1>0, <1>5, <1>6

(* Following a digest.                                                       *)
LEMMA Followed ==
  ASSUME NEW call, NEW reads, NEW pairs
  PROVE  \A f : f = Follow(call, reads, pairs) =>
           /\ DOMAIN call \subseteq DOMAIN f
           /\ \A k \in DOMAIN call : f[k] = call[k]
           /\ \A k \in DOMAIN f \ DOMAIN call : \E p \in pairs :
                /\ p[1] \in DOMAIN call /\ p[2] = k
                /\ f[k] = shelf[p[1]][call[p[1]]][k]
<1>. DEFINE found == {p \in pairs : p[1] \in DOMAIN call /\ p[2] \in reads \ DOMAIN call}
            Recorded(k) ==
              LET p == CHOOSE p \in found : p[2] = k IN shelf[p[1]][call[p[1]]][k]
<1>1. ASSUME NEW f, f = Follow(call, reads, pairs)
      PROVE  /\ DOMAIN f = DOMAIN call \cup {p[2] : p \in found}
             /\ \A k \in DOMAIN f : f[k] = IF k \in DOMAIN call THEN call[k] ELSE Recorded(k)
  BY <1>1 DEF Follow
<1>2. ASSUME NEW k \in {p[2] : p \in found}
      PROVE  \E p \in pairs : /\ p[1] \in DOMAIN call /\ p[2] = k
                              /\ Recorded(k) = shelf[p[1]][call[p[1]]][k]
  <2>1. PICK p : p = CHOOSE q \in found : q[2] = k
    OBVIOUS
  <2>2. p \in found /\ p[2] = k
    <3>1. \E q \in found : q[2] = k
      OBVIOUS
    <3>. HIDE DEF found
    <3>. QED  BY <2>1, <3>1
  <2>3. Recorded(k) = shelf[p[1]][call[p[1]]][k]
    BY <2>1
  <2>. QED  BY <2>2, <2>3
<1>. HIDE DEF found, Recorded
<1>4. ASSUME NEW f, f = Follow(call, reads, pairs)
      PROVE  /\ DOMAIN call \subseteq DOMAIN f
             /\ \A k \in DOMAIN call : f[k] = call[k]
  BY <1>1, <1>4
<1>5. ASSUME NEW f, f = Follow(call, reads, pairs), NEW k \in DOMAIN f \ DOMAIN call
      PROVE  \E p \in pairs : /\ p[1] \in DOMAIN call /\ p[2] = k
                              /\ f[k] = shelf[p[1]][call[p[1]]][k]
  <2>1. k \in {p[2] : p \in found} /\ f[k] = Recorded(k)
    BY <1>1, <1>5
  <2>. QED  BY <1>2, <2>1
<1>. QED  BY <1>4, <1>5

-----------------------------------------------------------------------------
(* What the tables of the chains have besides.  One document is recorded by *)
(* no other: the last.  Its tool compared all that the gate compares below  *)
(* it, and whatever else the gate reads, but what it reads as it is, is     *)
(* recorded by a document that it reads; nothing of that is the caller's.   *)
Rooted(t, root) ==
  /\ root \in t.docs \cap t.reads
  /\ t.gateNow \cap t.given = {}
  /\ \A k \in t.reads \ t.gateNow : k = root \/ \E p \in t.gate : p[2] = k
  /\ \A p \in t.gate : p[2] # root /\ (p[1] # root => p \in t.binds[root])

(* Where the tool that made the last document compared all, and the         *)
(* documents refer to what is there now, the gate accepts.                  *)
LEMMA CurrentIsAccepted ==
  ASSUME TypeOK, Made, NEW root, Rooted(T, root), NEW call \in GateCalls, IsCurrent(call)
  PROVE  Accepts(call)
<1>0. table \in DOMAIN Tables
  BY DEF TypeOK
<1>1. DOMAIN call = T.reads /\ \A k \in T.reads : call[k] \in 1..Latest(k)
  BY CallTypes DEF GateCalls
<1>2. PICK pick : /\ DOMAIN pick = Free(T.reads, T.gate, T.gateNow)
                  /\ \A k \in DOMAIN pick : pick[k] \in 1..MaxVersions /\ pick[k] <= Latest(k)
                  /\ call = Chosen(pick, T.reads, T.gate, T.gateNow)
  BY DEF GateCalls, Calls
<1>3. DOMAIN pick = {root} /\ root \notin T.gateNow /\ root \in Kinds
  <2>1. root \in T.reads /\ root \in T.docs
    BY DEF Rooted
  <2>2. root \notin T.gateNow /\ root \in Kinds
    BY <1>0, <2>1, TableFacts, PairFacts
  <2>3. \A k \in Free(T.reads, T.gate, T.gateNow) : k = root
    <3>. SUFFICES ASSUME NEW k \in T.reads \ T.gateNow,
                         k \notin {p[2] : p \in {q \in T.gate : q[1] \in T.reads}}
                  PROVE  k = root
      BY DEF Free
    <3>1. \A p \in T.gate : p[1] \in T.reads
      BY <1>0, PairFacts
    <3>. QED  BY <3>1 DEF Rooted
  <2>4. root \in Free(T.reads, T.gate, T.gateNow)
    BY <2>1, <2>2 DEF Free, Rooted
  <2>. QED  BY <1>2, <2>2, <2>3, <2>4
<1>4. PICK v \in 1..Latest(root) : v = pick[root]
  <2>1. Latest(root) \in Nat
    BY <1>3, Shelves
  <2>2. pick[root] \in 1..MaxVersions /\ pick[root] <= Latest(root)
    BY <1>2, <1>3
  <2>. QED  BY <2>1, <2>2
<1>5. PICK c : MadeOf(root, v, c)
  BY <1>4 DEF Made, Rooted
<1>6. PICK g : Chain(g, Depth, pick, T.reads, T.gate, T.gateNow) /\ call = g[Depth]
  BY <1>2, ChosenIsChain
<1>7. Depth \in Nat
  BY EvidenceAssumption
<1>. DEFINE Good(x) == /\ root \in DOMAIN x /\ x[root] = v
                       /\ \A k \in T.gateNow : k \in DOMAIN x /\ x[k] = Latest(k)
                       /\ \A k \in DOMAIN x : k \notin T.gateNow /\ k # root => x[k] = c[k]
            S == {n \in 0..Depth : ~ Good(g[n])}
<1>8. Good(g[0])
  <2>1. PICK x : x = Start(pick, T.gateNow) /\ x = g[0]
    BY <1>6 DEF Chain
  <2>2. /\ DOMAIN x = {root} \cup T.gateNow
        /\ \A k \in DOMAIN x : x[k] = IF k \in T.gateNow THEN Latest(k) ELSE pick[k]
    BY <1>3, <2>1 DEF Start
  <2>3. Good(x)
    BY <1>3, <1>4, <2>2
  <2>. QED  BY <2>1, <2>3
<1>9. ASSUME NEW x, NEW f, Good(x), f = Follow(x, T.reads, T.gate)
      PROVE  Good(f)
  <2>1. /\ DOMAIN x \subseteq DOMAIN f
        /\ \A k \in DOMAIN x : f[k] = x[k]
        /\ \A k \in DOMAIN f \ DOMAIN x : \E p \in T.gate :
             p[1] \in DOMAIN x /\ p[2] = k /\ f[k] = shelf[p[1]][x[p[1]]][k]
    BY <1>9, Followed
  <2>2. ASSUME NEW k \in DOMAIN f \ DOMAIN x
        PROVE  f[k] = c[k]
    <3>1. PICK p \in T.gate :
            p[1] \in DOMAIN x /\ p[2] = k /\ f[k] = shelf[p[1]][x[p[1]]][k]
      BY <2>1, <2>2
    <3>2. /\ p[1] \in T.docs /\ p[2] \in T.records[p[1]]
          /\ p[1] \notin T.gateNow
      BY <1>0, PairFacts, TableFacts
    <3>3. CASE p[1] = root
      BY <1>5, <1>9, <3>1, <3>2, <3>3 DEF MadeOf
    <3>4. CASE p[1] # root
      <4>1. x[p[1]] = c[p[1]]
        BY <1>9, <3>1, <3>2, <3>4
      <4>2. p \in T.binds[root] /\ p[2] # root
        BY <3>4 DEF Rooted
      <4>3. shelf[p[1]][c[p[1]]][p[2]] = c[p[2]]
        BY <1>5, <3>4, <4>2 DEF MadeOf
      <4>. QED  BY <3>1, <4>1, <4>3
    <3>. QED  BY <3>3, <3>4
  <2>. QED  BY <1>9, <2>1, <2>2
<1>. HIDE DEF Good
<1>10. S = {}
  <2>. SUFFICES ASSUME S # {} PROVE FALSE
    OBVIOUS
  <2>1. S \in SUBSET Nat
    BY <1>7
  <2>. HIDE DEF S
  <2>2. PICK k \in S : \A j \in S : k <= j
    BY <2>1, LeastNatural
  <2>3. k \in 1 .. Depth /\ k - 1 \in 0 .. Depth /\ ~ (k <= k - 1)
    BY <1>7, <1>8, <2>2 DEF S
  <2>4. Good(g[k - 1])
    BY <2>2, <2>3 DEF S
  <2>5. g[k] = Follow(g[k - 1], T.reads, T.gate)
    BY <1>6, <2>3 DEF Chain
  <2>6. Good(g[k])
    BY <1>9, <2>4, <2>5
  <2>. QED  BY <2>2, <2>6 DEF S
<1>11. Good(call)
  <2>1. Depth \in 0 .. Depth
    BY <1>7
  <2>. QED  BY <1>6, <1>10, <2>1
<1>12. ASSUME NEW p \in T.gate, p[1] \in DOMAIN call
       PROVE  shelf[p[1]][call[p[1]]][p[2]] = call[p[2]]
  <2>1. /\ p[1] \in T.docs /\ p[2] \in T.records[p[1]] /\ p[2] \in DOMAIN call
        /\ p[1] \notin T.gateNow
    BY <1>0, <1>1, PairFacts, TableFacts
  <2>2. CASE p[2] \in T.gateNow
    <3>1. p[2] \in T.sources \ T.given
      BY <1>0, <2>2, PairFacts DEF Rooted
    <3>2. shelf[p[1]][call[p[1]]][p[2]] = Latest(p[2])
      BY <1>12, <2>1, <3>1 DEF IsCurrent
    <3>. QED  BY <1>11, <2>2, <3>2 DEF Good
  <2>3. CASE p[2] \notin T.gateNow
    <3>1. p[2] # root /\ (p[1] # root => p \in T.binds[root])
      BY DEF Rooted
    <3>2. call[p[2]] = c[p[2]]
      BY <1>11, <2>1, <2>3, <3>1 DEF Good
    <3>3. CASE p[1] = root
      BY <1>5, <1>11, <2>1, <3>2, <3>3 DEF MadeOf, Good
    <3>4. CASE p[1] # root
      <4>1. call[p[1]] = c[p[1]]
        BY <1>11, <1>12, <2>1, <3>4 DEF Good
      <4>2. shelf[p[1]][c[p[1]]][p[2]] = c[p[2]]
        BY <1>5, <3>1, <3>4 DEF MadeOf
      <4>. QED  BY <3>2, <4>1, <4>2
    <3>. QED  BY <3>3, <3>4
  <2>. QED  BY <2>2, <2>3
<1>. QED  BY <1>1, <1>11, <1>12 DEF Accepts, Agree, Good

-----------------------------------------------------------------------------
(* The four chains have that shape.                                         *)

(* They are tables of documents.                                            *)
LEMMA TablesFormed ==
  WellFormed(Release) /\ WellFormed(Office) /\ WellFormed(Corpora) /\ WellFormed(Golden)
<1>1. \A name \in {"release", "office", "corpora", "golden"} :
        name \in DOMAIN Tables /\ WellFormed(Tables[name])
  BY TableAssumption, EvidenceAssumption DEF EvidenceTables
<1>. QED  BY <1>1, TableAssumption DEF EvidenceTables

(* The document at the root of a chain, from what its gate compares.         *)
LEMMA RootOf ==
  ASSUME NEW t, WellFormed(t), NEW root \in t.docs,
         t.reads = t.gateNow \cup UNION {{p[1], p[2]} : p \in t.gate},
         \E k : <<root, k>> \in t.gate,
         t.gateNow \cap t.given = {},
         \A k \in t.docs \ {root} : \E h : <<h, k>> \in t.gate,
         \A k \in t.docs : root \notin t.records[k],
         \A p \in t.gate : p[1] # root => p \in t.binds[root]
  PROVE  Rooted(t, root)
<1>1. \A p \in t.gate : p[1] \in t.docs /\ p[2] \in t.records[p[1]]
  BY DEF WellFormed
<1>2. root \in t.reads
  <2>1. PICK k : <<root, k>> \in t.gate
    OBVIOUS
  <2>2. PICK p \in t.gate : p[1] = root
    BY <2>1
  <2>. QED  BY <2>2
<1>3. ASSUME NEW k \in t.reads \ t.gateNow
      PROVE  k = root \/ \E p \in t.gate : p[2] = k
  <2>1. PICK p \in t.gate : k = p[1] \/ k = p[2]
    BY <1>3
  <2>2. k \in t.docs \ {root} => \E q \in t.gate : q[2] = k
    <3>. SUFFICES ASSUME k \in t.docs \ {root} PROVE \E q \in t.gate : q[2] = k
      OBVIOUS
    <3>1. PICK h : <<h, k>> \in t.gate
      OBVIOUS
    <3>2. <<h, k>>[2] = k
      OBVIOUS
    <3>. QED  BY <3>1, <3>2
  <2>. QED  BY <1>1, <2>1, <2>2
<1>. QED  BY <1>1, <1>2, <1>3 DEF Rooted

(* The report is the root under the portable profile ...                    *)
LEMMA ReleaseRooted == Rooted(Release, "report")
<1>1. WellFormed(Release)
  BY TablesFormed
<1>2. Release.reads = Release.gateNow \cup UNION {{p[1], p[2]} : p \in Release.gate}
  BY DEF Release, Table
<1>3. "report" \in EvidenceDocs /\ Release.binds["report"] = ReferenceLock \cup GeneratedReport
  <2>1. "report" \in EvidenceDocs /\ EvidenceTools["report"] = AssembleReport
    BY Names, Kept DEF EvidenceTools, Decisions
  <2>2. AssembleReport.binds = ReferenceLock \cup GeneratedReport
    BY DEF AssembleReport, Tool
  <2>. QED  BY <2>1, <2>2, ReleaseTable
<1>4. {"report"} \X (Scope \cup {"metrics"}) \subseteq ReportFailures
  BY DEF ReportFailures
<1>5. ASSUME NEW k \in EvidenceDocs
      PROVE  "report" \notin Release.records[k]
  <2>1. CASE k = "evaluator"
    BY <2>1, ToolOf DEF ScaffoldEvidence, Tool
  <2>2. CASE k = "corpus"
    BY <2>2, ToolOf DEF ReadyCorpus, Tool
  <2>3. CASE k = "candidate lock"
    BY <2>3, ToolOf DEF CandidateRuntimeLock, Tool
  <2>4. CASE k = "lock"
    BY <2>4, ToolOf DEF PortableLock, CopiedPackages, Tool
  <2>5. CASE k = "attestation"
    BY <2>5, ToolOf DEF SignAttestation, Tool, Scope
  <2>6. CASE k = "oracle run"
    BY <2>6, ToolOf DEF ReferenceRun, Tool
  <2>7. CASE k = "candidate run"
    BY <2>7, ToolOf DEF CandidateRun, Tool
  <2>8. CASE k \in {"oracle receipt", "candidate receipt"}
    <3>1. \A s \in {Oracle, Candidate} : "report" \notin SignReceipt(s).records
      BY Names DEF SignReceipt, Tool, ReceiptScope, Scope
    <3>2. CASE k = "oracle receipt"
      BY <3>1, <3>2, ToolOf
    <3>3. CASE k = "candidate receipt"
      BY <3>1, <3>3, ToolOf
    <3>. QED  BY <2>8, <3>2, <3>3
  <2>9. CASE k = "oracle capture"
    BY <2>9, ToolOf, Names DEF WriteReference, Tool, Scope
  <2>10. CASE k = "candidate capture"
    BY <2>10, ToolOf, Names DEF WriteCapture, Tool, Scope
  <2>11. CASE k = "plan"
    BY <2>11, ToolOf DEF MaterializePlan, Tool
  <2>12. CASE k = "packet"
    BY <2>12, ToolOf, Names DEF MaterializePacket, Tool, Scope
  <2>13. CASE k \in Decisions
    <3>1. Release.records[k] = SignDecision.records
      BY <2>13, ToolOf
    <3>. QED  BY <3>1 DEF SignDecision, Tool
  <2>14. CASE k = "executions"
    BY <2>14, ToolOf DEF RunCommands, Tool
  <2>15. CASE k = "metrics"
    BY <2>15, ToolOf, Names DEF AssembleMetrics, MetricsManifest, Tool, Scope, Decisions
  <2>16. CASE k = "report"
    BY <2>16, ToolOf DEF AssembleReport, Tool, Scope
  <2>17. k \in {"evaluator", "corpus", "candidate lock", "lock", "attestation", "plan",
                "packet", "executions", "metrics", "report"} \cup Decisions
           \cup UNION {{s.run, s.receipt, s.capture} : s \in {Oracle, Candidate}}
    BY DEF EvidenceDocs
  <2>. QED
    BY Names, <2>1, <2>2, <2>3, <2>4, <2>5, <2>6, <2>7, <2>8, <2>9, <2>10, <2>11, <2>12,
       <2>13, <2>14, <2>15, <2>16, <2>17
<1>6. ASSUME NEW k \in EvidenceDocs, k # "report"
      PROVE  \E h : <<h, k>> \in ReportFailures
  <2>1. CASE k \in Scope \cup {"metrics"}
    <3>1. <<"report", k>> \in ReportFailures
      BY <1>4, <2>1
    <3>. QED  BY <3>1
  <2>2. CASE k = "candidate lock"
    <3>1. ReferenceLock \subseteq ReportFailures
      BY CaptureCompares DEF RuntimeProfile
    <3>2. <<"lock", k>> \in ReportFailures
      BY <2>2, <3>1 DEF ReferenceLock
    <3>. QED  BY <3>2
  <2>3. CASE k = "attestation"
    <3>1. RuntimeAgainstLock \subseteq ReportFailures
      BY CaptureCompares, Names DEF Runtime
    <3>2. <<Candidate.run, k>> \in ReportFailures
      BY <2>3, <3>1 DEF RuntimeAgainstLock
    <3>. QED  BY <3>2
  <2>4. CASE k \in {"packet"} \cup Decisions
    <3>1. <<"metrics", k>> \in Review
      BY <2>4 DEF Review
    <3>. QED  BY <3>1, GateCompares
  <2>5. CASE k = "plan"
    <3>1. <<"metrics", k>> \in ReportFailures
      BY <2>5, GateCompares
    <3>. QED  BY <3>1
  <2>6. CASE k = "executions"
    <3>1. <<"metrics", k>> \in Security
      BY <2>6 DEF Security
    <3>. QED  BY <3>1, GateCompares
  <2>7. ASSUME NEW s \in {Oracle, Candidate}, k \in {s.run, s.receipt, s.capture}
        PROVE  \E h : <<h, k>> \in ReportFailures
    <3>1. CASE k \in {s.run, s.receipt}
      <4>1. <<s.capture, k>> \in ReportFailures
        BY <2>7, <3>1, CaptureCompares
      <4>. QED  BY <4>1
    <3>2. CASE k = s.capture
      <4>1. <<"metrics", k>> \in ReportFailures
        BY <2>7, <3>2, GateCompares
      <4>. QED  BY <4>1
    <3>. QED  BY <2>7, <3>1, <3>2
  <2>8. k \in {"evaluator", "corpus", "candidate lock", "lock", "attestation", "plan",
               "packet", "executions", "metrics", "report"} \cup Decisions
           \cup UNION {{s.run, s.receipt, s.capture} : s \in {Oracle, Candidate}}
    BY DEF EvidenceDocs
  <2>. QED
    BY <1>6, <2>1, <2>2, <2>3, <2>4, <2>5, <2>6, <2>7, <2>8 DEF Scope
<1>7. ASSUME NEW p \in ReportFailures, p[1] # "report"
      PROVE  p \in Release.binds["report"]
  <2>1. Corpus \subseteq GeneratedReport
    BY DEF GeneratedReport, Metrics
  <2>2. OracleScope \subseteq ReferenceLock
    <3>1. <<"lock", "corpus">> \in ReferenceLock
      BY DEF ReferenceLock
    <3>. QED  BY <3>1 DEF OracleScope
  <2>. QED  BY <1>3, <1>7, <2>1, <2>2 DEF ReportFailures
<1>8. <<"report", "metrics">> \in ReportFailures
  BY <1>4
<1>9. GateNow \cap {"contract"} = {}
  BY DEF GateNow
<1>. QED  BY <1>1, <1>2, <1>3, <1>5, <1>6, <1>7, <1>8, <1>9, ReleaseTable, RootOf

(* ... and under the Office profile,                                        *)
LEMMA OfficeRooted == Rooted(Office, "report")
<1>1. WellFormed(Office)
  BY TablesFormed
<1>2. Office.reads = Office.gateNow \cup UNION {{p[1], p[2]} : p \in Office.gate}
  BY DEF Office, Table
<1>3. "report" \in OfficeDocs /\ Office.binds["report"] = EvaluatorManifest \cup OfficeMetrics
  <2>1. "report" \in OfficeDocs
    BY Kept DEF OfficeDocs
  <2>2. OfficeTools["report"].binds = EvaluatorManifest \cup OfficeMetrics
    BY <2>1, Names DEF OfficeTools, Decisions, Tool
  <2>. QED  BY <2>1, <2>2, OfficeTable
<1>4. {"report"} \X (Scope \cup {"metrics"}) \subseteq OfficeGate
  BY DEF OfficeGate
<1>5. ASSUME NEW k \in OfficeDocs
      PROVE  /\ "report" \notin Office.records[k]
             /\ k # "report" => \E h : <<h, k>> \in OfficeGate
  <2>0. k \in {"evaluator", "corpus", "lock", "attestation", "batch", "plan", "packet",
               "executions", "metrics", "report"} \cup Decisions
              \cup {"oracle run", "oracle receipt", "oracle capture",
                    "candidate run", "candidate receipt", "candidate capture"}
    <3>1. k \in {"evaluator", "corpus", "lock", "attestation", "batch", "plan", "packet",
                 "executions", "metrics", "report"} \cup Decisions
           \/ \E s \in {Oracle, Candidate} : k \in {s.run, s.receipt, s.capture}
      BY DEF OfficeDocs, EvidenceDocs
    <3>. QED  BY <3>1, Names
  <2>1. ASSUME NEW h, <<h, k>> \in OfficeGate, "report" \notin Office.records[k]
        PROVE  /\ "report" \notin Office.records[k]
               /\ k # "report" => \E i : <<i, k>> \in OfficeGate
    BY <2>1
  <2>2. \A d \in Decisions : "report" \notin Office.records[d]
    <3>1. \A d \in Decisions : Office.records[d] = {"packet"}
      BY OfficeRecords
    <3>. QED  BY <3>1
  <2>3. "report" \notin Scope /\ "report" \notin Decisions
    BY DEF Scope, Decisions
  <2>4. CASE k = "evaluator"
    <3>1. "report" \notin Office.records[k]
      BY <2>3, <2>4, OfficeRecords
    <3>2. <<"report", k>> \in OfficeGate
      BY <1>4, <2>4 DEF Scope
    <3>. QED  BY <2>1, <3>1, <3>2
  <2>5. CASE k = "corpus"
    <3>1. "report" \notin Office.records[k]
      BY <2>3, <2>5, OfficeRecords
    <3>2. <<"report", k>> \in OfficeGate
      BY <1>4, <2>5 DEF Scope
    <3>. QED  BY <2>1, <3>1, <3>2
  <2>6. CASE k = "lock"
    <3>1. "report" \notin Office.records[k]
      BY <2>3, <2>6, OfficeRecords
    <3>2. <<"report", k>> \in OfficeGate
      BY <1>4, <2>6 DEF Scope
    <3>. QED  BY <2>1, <3>1, <3>2
  <2>7. CASE k = "metrics"
    <3>1. "report" \notin Office.records[k]
      BY <2>3, <2>7, OfficeRecords, Names
    <3>2. <<"report", k>> \in OfficeGate
      BY <1>4, <2>7
    <3>. QED  BY <2>1, <3>1, <3>2
  <2>8. CASE k = "attestation"
    <3>1. "report" \notin Office.records[k]
      BY <2>3, <2>8, OfficeRecords
    <3>2. <<Candidate.run, k>> \in OfficeGate
      BY <2>8, OfficeCaptureCompares
    <3>. QED  BY <2>1, <3>1, <3>2
  <2>9. CASE k = "batch"
    <3>1. "report" \notin Office.records[k]
      BY <2>3, <2>9, OfficeRecords
    <3>2. <<Oracle.receipt, k>> \in OfficeGate
      BY <2>9, OfficeCaptureCompares
    <3>. QED  BY <2>1, <3>1, <3>2
  <2>10. CASE k = "packet"
    <3>1. "report" \notin Office.records[k]
      BY <2>3, <2>10, OfficeRecords, Names
    <3>2. <<"metrics", k>> \in OfficeGate
      BY <2>10, OfficeCompares DEF Review
    <3>. QED  BY <2>1, <3>1, <3>2
  <2>11. CASE k = "plan"
    <3>1. "report" \notin Office.records[k]
      BY <2>3, <2>11, OfficeRecords
    <3>2. <<"metrics", k>> \in OfficeGate
      BY <2>11, OfficeCompares
    <3>. QED  BY <2>1, <3>1, <3>2
  <2>12. CASE k = "executions"
    <3>1. "report" \notin Office.records[k]
      BY <2>3, <2>12, OfficeRecords
    <3>2. <<"metrics", k>> \in OfficeGate
      BY <2>12, OfficeCompares DEF Security
    <3>. QED  BY <2>1, <3>1, <3>2
  <2>13. CASE k = "oracle run"
    <3>1. "report" \notin Office.records[k]
      BY <2>3, <2>13, OfficeRecords
    <3>2. <<Oracle.capture, k>> \in OfficeGate
      BY <2>13, OfficeCaptureCompares, Names
    <3>. QED  BY <2>1, <3>1, <3>2
  <2>14. CASE k = "oracle receipt"
    <3>1. "report" \notin Office.records[k]
      BY <2>3, <2>14, OfficeRecords
    <3>2. <<Oracle.capture, k>> \in OfficeGate
      BY <2>14, OfficeCaptureCompares, Names
    <3>. QED  BY <2>1, <3>1, <3>2
  <2>15. CASE k = "oracle capture"
    <3>1. "report" \notin Office.records[k]
      BY <2>3, <2>15, OfficeRecords
    <3>2. <<"metrics", k>> \in OfficeGate
      BY <2>15, OfficeCompares, Names
    <3>. QED  BY <2>1, <3>1, <3>2
  <2>16. CASE k = "candidate run"
    <3>1. "report" \notin Office.records[k]
      BY <2>3, <2>16, OfficeRecords
    <3>2. <<Candidate.capture, k>> \in OfficeGate
      BY <2>16, OfficeCaptureCompares, Names
    <3>. QED  BY <2>1, <3>1, <3>2
  <2>17. CASE k = "candidate receipt"
    <3>1. "report" \notin Office.records[k]
      BY <2>3, <2>17, OfficeRecords
    <3>2. <<Candidate.capture, k>> \in OfficeGate
      BY <2>17, OfficeCaptureCompares, Names
    <3>. QED  BY <2>1, <3>1, <3>2
  <2>18. CASE k = "candidate capture"
    <3>1. "report" \notin Office.records[k]
      BY <2>3, <2>18, OfficeRecords
    <3>2. <<"metrics", k>> \in OfficeGate
      BY <2>18, OfficeCompares, Names
    <3>. QED  BY <2>1, <3>1, <3>2
  <2>19. CASE k \in Decisions
    <3>1. <<"metrics", k>> \in Review
      BY <2>19 DEF Review
    <3>. QED  BY <2>1, <2>2, <2>19, <3>1, OfficeCompares
  <2>20. CASE k = "report"
    BY <2>3, <2>20, OfficeRecords
  <2>. QED
    BY <2>0, <2>4, <2>5, <2>6, <2>7, <2>8, <2>9, <2>10, <2>11, <2>12, <2>13, <2>14, <2>15,
       <2>16, <2>17, <2>18, <2>19, <2>20
<1>6. ASSUME NEW p \in OfficeGate, p[1] # "report"
      PROVE  p \in Office.binds["report"]
  <2>1. Corpus \subseteq OfficeMetrics
    BY DEF OfficeMetrics
  <2>. QED  BY <1>3, <1>6, <2>1 DEF OfficeGate
<1>7. <<"report", "metrics">> \in OfficeGate
  BY <1>4
<1>8. OfficeNow \cap {"contract", "tools", "exports"} = {}
  BY DEF OfficeNow
<1>. QED  BY <1>1, <1>2, <1>3, <1>5, <1>6, <1>7, <1>8, OfficeTable, RootOf

(* the seven assembled corpora are over what they were assembled of,        *)
LEMMA CorporaRooted == Rooted(Corpora, "ready corpora")
<1>. DEFINE root == "ready corpora"
<1>1. WellFormed(Corpora)
  BY TablesFormed
<1>2. /\ Corpora.docs = CorporaDocs /\ Corpora.gate = ReadyCorpora
      /\ Corpora.gateNow = ReadyNow /\ Corpora.given = {"contract", "public config"}
      /\ Corpora.reads = ReadyNow \cup UNION {{p[1], p[2]} : p \in ReadyCorpora}
      /\ \A k \in CorporaDocs : /\ Corpora.records[k] = CorporaTools[k].records
                                /\ Corpora.binds[k] = CorporaTools[k].binds
  <2>1. DOMAIN CorporaTools = CorporaDocs
    BY DEF CorporaTools
  <2>. QED  BY <2>1 DEF Corpora, Table
<1>3. root \in CorporaDocs /\ Corpora.binds[root] = ReadyInputs
  <2>1. root \in CorporaDocs
    BY DEF CorporaDocs
  <2>2. CorporaTools[root] = AssembleCorpora
    BY <2>1 DEF CorporaTools
  <2>3. AssembleCorpora.binds = ReadyInputs
    BY DEF AssembleCorpora, Tool
  <2>. QED  BY <1>2, <2>1, <2>2, <2>3
<1>4. ASSUME NEW p \in ReadyCorpora
      PROVE  p \in ReadyInputs \/ p[1] = root
  BY <1>4 DEF ReadyCorpora, CopiedInputs, CorpusItems, ConformanceTrack, OtherTracks,
              SupportRelations, AssemblyBindings
<1>5. {root} \X ({"contract", "conformance plan", "inventory"} \cup Upstreams) \subseteq ReadyCorpora
  BY DEF ReadyCorpora, AssemblyBindings
<1>6. ASSUME NEW k \in CorporaDocs, k # root
      PROVE  \E h : <<h, k>> \in ReadyCorpora
  <2>1. k \in {"conformance plan", "inventory"} \cup Upstreams
    BY <1>6 DEF CorporaDocs, Upstreams
  <2>2. <<root, k>> \in ReadyCorpora
    BY <1>5, <2>1
  <2>. QED  BY <2>2
<1>7. ASSUME NEW k \in CorporaDocs
      PROVE  root \notin Corpora.records[k]
  <2>. DEFINE small == {BuildPlan, GenerateDocx, GenerateXlsx, GeneratePptx, GeneratePdf,
                        GenerateLegacyPairs, CollectPublicPool, WriteBinaryConfig,
                        CollectBinaryPool, GenerateSecurity, CaptureInventory, AssembleCorpora}
  <2>1. CorporaTools[k] \in small
    BY <1>7 DEF CorporaTools, CorporaDocs, Modern, Paired
  <2>2. /\ root \notin BuildPlan.records /\ root \notin GenerateDocx.records
        /\ root \notin GenerateXlsx.records /\ root \notin GeneratePptx.records
        /\ root \notin GeneratePdf.records /\ root \notin CollectPublicPool.records
        /\ root \notin WriteBinaryConfig.records /\ root \notin CollectBinaryPool.records
        /\ root \notin GenerateSecurity.records /\ root \notin CaptureInventory.records
    BY DEF BuildPlan, GenerateDocx, GenerateXlsx, GeneratePptx, GeneratePdf,
           CollectPublicPool, WriteBinaryConfig, CollectBinaryPool, GenerateSecurity,
           CaptureInventory, Tool
  <2>3. root \notin GenerateLegacyPairs.records
    BY DEF GenerateLegacyPairs, Tool, Paired
  <2>4. root \notin AssembleCorpora.records
    <3>1. AssembleCorpora.records = FormatManifest \cup AssemblyManifest
      BY DEF AssembleCorpora, Tool
    <3>. QED  BY <3>1 DEF FormatManifest, AssemblyManifest, ConformanceItems, Upstreams,
                          Modern, Paired
  <2>. QED  BY <1>2, <2>1, <2>2, <2>3, <2>4
<1>8. <<root, "contract">> \in ReadyCorpora
  BY <1>5
<1>9. ReadyNow \cap {"contract", "public config"} = {}
  BY DEF ReadyNow
<1>10. \A p \in ReadyCorpora : p[1] # root => p \in Corpora.binds[root]
  BY <1>3, <1>4
<1>. QED  BY <1>1, <1>2, <1>3, <1>6, <1>7, <1>8, <1>9, <1>10, RootOf

(* and the manifest of a batch of pictures is over its metadata.            *)
LEMMA GoldenRooted == Rooted(Golden, "manifest")
<1>1. WellFormed(Golden)
  BY TablesFormed
<1>2. /\ Golden.docs = {"metadata", "manifest"} /\ Golden.gate = Batch
      /\ Golden.gateNow = GoldenSources /\ Golden.given = {}
      /\ Golden.reads = GoldenSources \cup UNION {{p[1], p[2]} : p \in Batch}
  BY DEF Golden, Table, BatchTools, Ready, StrictComparison
<1>3. /\ Golden.records["metadata"] = GoldenSources
      /\ Golden.records["manifest"] = GoldenSources \cup {"metadata"}
      /\ Golden.binds["manifest"] = {"metadata"} \X GoldenSources
  BY DEF Golden, Table, BatchTools, ScaffoldMetadata, ScaffoldManifest, Tool
<1>4. \A k \in Golden.docs : "manifest" \notin Golden.records[k]
  BY <1>2, <1>3 DEF GoldenSources
<1>5. <<"manifest", "metadata">> \in Batch
  BY DEF Batch, Provenance
<1>6. \A p \in Batch : p[1] # "manifest" => p \in {"metadata"} \X GoldenSources
  BY DEF Batch, Provenance, Pictures, GoldenSources
<1>7. \A k \in {"metadata", "manifest"} \ {"manifest"} : \E h : <<h, k>> \in Batch
  BY <1>5
<1>. QED  BY <1>1, <1>2, <1>3, <1>4, <1>5, <1>6, <1>7, RootOf

(* All chains have a root.                                                  *)
LEMMA Roots ==
  ASSUME table \in DOMAIN Tables
  PROVE  \E root : Rooted(T, root)
<1>1. T = Release \/ T = Office \/ T = Corpora \/ T = Golden
  BY TableAssumption DEF T, EvidenceTables
<1>. QED  BY <1>1, ReleaseRooted, OfficeRooted, CorporaRooted, GoldenRooted

(* A gate refuses nothing that its own tools made, as long as the revision,  *)
(* the programs and the sources are those that it was made for.              *)
THEOREM EvidenceNothingLost == Spec => []NothingLost
<1>1. TypeOK /\ Made => NothingLost
  BY Roots, CurrentIsAccepted DEF NothingLost, TypeOK
<1>. QED  BY <1>1, EvidenceTypes, MadeHolds, PTL
=============================================================================
