--------------------------- MODULE EvidenceMachine ---------------------------
(***************************************************************************)
(* A store of documents that record each other by digest, as the release   *)
(* evidence of evaluate/ is built: a tool reads documents, compares what   *)
(* they record, and publishes a new document beside the old ones.  Nothing *)
(* forces the caller to pass the newest document of a kind: every argument *)
(* is a path.                                                              *)
(*                                                                         *)
(* A digest is modelled by the number of the version it identifies.  A     *)
(* tool that finds a recorded digest different stops, and publishes        *)
(* nothing.                                                                *)
(***************************************************************************)
EXTENDS Naturals, Sequences, FiniteSets, TLC

CONSTANTS
  Tables,     \* name -> what the documents of one chain record and who compares it
  Depth,      \* the length of the longest chain of records
  MaxChanges, \* bound on the edits, and on the calls that repeat a unique document
  MaxVersions \* bound on the versions of a kind

-----------------------------------------------------------------------------
(* The tables.                                                              *)

\* What a tool compares: pairs <<holder, kind>>, for what holder records of kind;
\* the sources that it reads as they are at that moment; what its document records.
Tool(binds, now, records) == [binds |-> binds, now |-> now, records |-> records]

\* A chain of documents:
\*   sources  kinds that people edit: they record nothing
\*   given    those that every call takes as an argument: which one is right is
\*            for the caller to say, and for the other sources it is the present one
\*   unique   kinds that come out different each time (a nonce, a log, a picture)
\*   gate     what the validator at the end compares
\*   gateNow  the sources that it reads as they are when it runs
\*   reads    all that it reads
Table(sources, given, tools, unique, gate, gateNow) ==
  LET docs == DOMAIN tools
  IN [sources |-> sources, given |-> given, docs |-> docs, unique |-> unique,
      records |-> [k \in docs |-> tools[k].records],
      binds |-> [k \in docs |-> tools[k].binds],
      now |-> [k \in docs |-> tools[k].now],
      gate |-> gate, gateNow |-> gateNow,
      reads |-> gateNow \cup UNION {{p[1], p[2]} : p \in gate}]

KindsOf(t) == t.sources \cup t.docs

WellFormed(t) ==
  /\ t.sources \cap t.docs = {}
  /\ t.unique \subseteq t.docs
  /\ DOMAIN t.records = t.docs /\ DOMAIN t.binds = t.docs /\ DOMAIN t.now = t.docs
  /\ \A k \in t.docs : /\ t.records[k] \subseteq KindsOf(t) \ {k}
                       /\ \A p \in t.binds[k] :
                            p[1] \in t.docs /\ (p[1] # k => p[2] \in t.records[p[1]])
                       /\ t.now[k] \subseteq t.sources
  /\ \A p \in t.gate : /\ p[1] \in t.docs /\ p[2] \in t.records[p[1]]
                        /\ {p[1], p[2]} \subseteq t.reads
  /\ t.gateNow \subseteq t.sources

ASSUME EvidenceAssumption ==
  /\ Depth \in Nat /\ MaxChanges \in Nat /\ MaxVersions \in Nat
  /\ \A name \in DOMAIN Tables : WellFormed(Tables[name])

-----------------------------------------------------------------------------
VARIABLES
  table,  \* the chain that this behaviour is about
  shelf   \* kind -> its versions, oldest first: what each one records

T == Tables[table]
Kinds == KindsOf(T)

Latest(k) == Len(shelf[k])

\* What a tool reads: what it records, compares, and takes as it is now.
Reads(k) ==
  (T.records[k] \cup T.now[k] \cup UNION {{p[1], p[2]} : p \in T.binds[k]}) \ {k}

\* Follow the digests in the documents of a call, one step.
Follow(call, reads, pairs) ==
  LET found == {p \in pairs : p[1] \in DOMAIN call /\ p[2] \in reads \ DOMAIN call}
      Recorded(k) ==
        LET p == CHOOSE p \in found : p[2] = k IN shelf[p[1]][call[p[1]]][k]
  IN [k \in DOMAIN call \cup {p[2] : p \in found} |->
        IF k \in DOMAIN call THEN call[k] ELSE Recorded(k)]

\* Those that no other argument records are old or new at the caller's choice; a
\* digest leaves no choice for the others.
Free(reads, pairs, now) == reads \ (now \cup {p[2] : p \in {q \in pairs : q[1] \in reads}})

Start(pick, now) ==
  [k \in DOMAIN pick \cup now |-> IF k \in now THEN Latest(k) ELSE pick[k]]
Chosen(pick, reads, pairs, now) ==
  LET call[n \in 0..Depth] ==
        IF n = 0 THEN Start(pick, now) ELSE Follow(call[n - 1], reads, pairs)
  IN call[Depth]

\* The arguments of a call that can succeed: one version of each kind.
Calls(reads, pairs, now) ==
  LET picks == {f \in [Free(reads, pairs, now) -> 1..MaxVersions] :
                  \A k \in DOMAIN f : f[k] <= Latest(k)}
  IN {call \in {Chosen(pick, reads, pairs, now) : pick \in picks} :
        /\ DOMAIN call = reads
        /\ \A k \in reads : call[k] \in 1..Latest(k)}

\* Every digest that the tool compares is the digest of the file it was given.
Agree(call, pairs) ==
  \A p \in pairs : p[1] \in DOMAIN call => shelf[p[1]][call[p[1]]][p[2]] = call[p[2]]

\* The versions that differ from the one before in nothing that they record.
Changes ==
  Cardinality({p \in Kinds \X (2..MaxVersions) :
                 /\ p[2] <= Latest(p[1])
                 /\ \E i \in 1..(p[2] - 1) : shelf[p[1]][p[2]] = shelf[p[1]][i]})

-----------------------------------------------------------------------------
\* An earlier release is complete: each document is there once, made of the others.
Init ==
  /\ table \in DOMAIN Tables
  /\ shelf = [k \in Kinds |->
                IF k \in T.sources THEN << <<>> >> ELSE << [r \in T.records[k] |-> 1] >>]

\* Somebody changes a source: a commit, another corpus, an upgraded tool.
Edit(k) ==
  /\ k \in T.sources
  /\ Changes < MaxChanges /\ Latest(k) < MaxVersions
  /\ shelf' = [shelf EXCEPT ![k] = Append(@, <<>>)]
  /\ UNCHANGED table

\* A tool makes a document of kind k, unless the same one is there already.
Make(k) ==
  /\ k \in T.docs
  /\ Latest(k) < MaxVersions
  /\ \E call \in Calls(Reads(k), T.binds[k], T.now[k]) :
       LET doc == [r \in T.records[k] |-> call[r]]
       IN /\ Agree(call, T.binds[k])
          /\ \/ \A i \in 1..Latest(k) : shelf[k][i] # doc
             \/ k \in T.unique /\ Changes < MaxChanges
          /\ shelf' = [shelf EXCEPT ![k] = Append(@, doc)]
  /\ UNCHANGED table

Next == \E k \in Kinds : Edit(k) \/ Make(k)

vars == <<table, shelf>>

Spec == Init /\ [][Next]_vars

-----------------------------------------------------------------------------
\* No document refers to one that is not there.
TypeOK ==
  /\ table \in DOMAIN Tables
  /\ DOMAIN shelf = Kinds
  /\ \A k \in T.sources : shelf[k] \in Seq({<<>>})
  /\ \A k \in T.docs : /\ shelf[k] \in Seq([T.records[k] -> Nat])
                     /\ \A i \in 1..Latest(k) : \A r \in T.records[k] :
                          shelf[k][i][r] \in 1..Latest(r)

-----------------------------------------------------------------------------
(* The gate accepts the last document of a chain when every digest that a   *)
(* validator compares is that of the file which it finds.                   *)

GateCalls == Calls(T.reads, T.gate, T.gateNow)
Accepts(call) ==
  /\ DOMAIN call = T.reads
  /\ \A k \in T.gateNow : call[k] = Latest(k)
  /\ Agree(call, T.gate)

\* What an accepted document rests on is of one version: each document that the
\* gate finds refers to the others that it finds, so nobody generated, captured,
\* reviewed or measured under one contract, plan, corpus, lock or revision what
\* another document takes from a second one.
OneVersion ==
  \A call \in GateCalls :
    Accepts(call) =>
      \A k \in DOMAIN call \cap T.docs : \A r \in T.records[k] :
        r \in DOMAIN call /\ shelf[k][call[k]][r] = call[r]

\* Every document below the last refers to what is there now: the revision, the
\* programs, the sources of the corpus, the office suite.
IsCurrent(call) ==
  \A k \in DOMAIN call \cap T.docs :
    \A r \in T.records[k] \cap (T.sources \ T.given) :
      shelf[k][call[k]][r] = Latest(r)

\* The gate accepts nothing that rests on anything older ...
NothingStale == \A call \in GateCalls : Accepts(call) => IsCurrent(call)

\* ... and refuses nothing else: what the last tool and the tools before it let pass,
\* the gate lets pass, until the revision, the programs or the sources change.
NothingLost == \A call \in GateCalls : IsCurrent(call) => Accepts(call)
=============================================================================
