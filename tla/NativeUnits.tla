----------------------------- MODULE NativeUnits -----------------------------
(***************************************************************************)
(* A campaign that counts the pages of every source twice                  *)
(* (capture_native_unit_inventory of evaluate/): it takes the identities   *)
(* of its inputs, probes the tools, observes every source once (preflight, *)
(* one worker), two office sources side by side (gate, two workers and a   *)
(* barrier) and the rest (several workers), and publishes an inventory.    *)
(* Campaigns may share a cache of observations.                            *)
(*                                                                         *)
(* Meanwhile somebody edits the files.  A file is the number of its edits, *)
(* which stands for its identity (inode, size and times); its digest is    *)
(* the parity, so that a second edit restores the content.  The manifests  *)
(* of the pool and of the fonts, one file here, hold digests.              *)
(*                                                                         *)
(* A process run is two steps: CandidateProcess shows that it ends, with   *)
(* an exit or a failure.  publish_snapshot is what CreateOnly promises.    *)
(***************************************************************************)
EXTENDS Naturals, Sequences, FiniteSets

CONSTANTS
  Campaigns,
  Workers,  \* of the last phase
  Plans     \* what may be set up: see the variable plan

VARIABLES
  plan,     \* pool: the sources in their order; pdf: those of format PDF;
            \* running, cached: campaigns, those with a cache; edited: files that are;
            \* edits, deaths: how many; counts: the pages that a conversion may yield;
            \* after: campaign -> those that are over when it starts
  world,    \* file -> the number of its edits
  manifest, \* source or "fonts" -> the digest that the manifests hold
  camp,     \* campaign -> where it is and what it has taken note of
  at,       \* campaign -> request -> where its observation is
  obs,      \* campaign -> request -> the observation
  cache,    \* key -> the observation in the entry
  lock      \* the pairs <<key, campaign>> of the locks of entries

vars == <<plan, world, manifest, camp, at, obs, cache, lock>>

Sources == {plan.pool[i] : i \in DOMAIN plan.pool}
Tools == {"libreoffice", "pdfinfo"}
Files == Sources \cup Tools \cup {"fonts", "manifests"}

Digest(f) == world[f] % 2

-----------------------------------------------------------------------------
(* The requests, each a source and a run, and their phases.                 *)

Runs(p) == {p.pool[i] : i \in DOMAIN p.pool} \X {1, 2}
Position(p, q) == CHOOSE i \in DOMAIN p.pool : p.pool[i] = q[1]

\* The first two office sources, in their second runs.
GateOf(p) ==
  {q \in Runs(p) :
     /\ q[2] = 2 /\ q[1] \notin p.pdf
     /\ Cardinality({r \in Runs(p) : /\ r[2] = 2 /\ r[1] \notin p.pdf
                                     /\ Position(p, r) < Position(p, q)}) < 2}

PhaseOf(p) ==
  [q \in Runs(p) |-> IF q[2] = 1 THEN "preflight" ELSE IF q \in GateOf(p) THEN "gate"
                     ELSE "rest"]

\* A plan with the phases of its requests, and the requests before each in its phase.
BeforeOf(p) ==
  [q \in Runs(p) |-> {r \in Runs(p) : /\ PhaseOf(p)[r] = PhaseOf(p)[q]
                                      /\ Position(p, r) < Position(p, q)}]
SetUp(p) ==
  [pool |-> p.pool, pdf |-> p.pdf, running |-> p.running, cached |-> p.cached,
   after |-> p.after, edited |-> p.edited, edits |-> p.edits, deaths |-> p.deaths,
   counts |-> p.counts, phase |-> PhaseOf(p), before |-> BeforeOf(p)]

Requests == DOMAIN plan.phase
IsOffice(q) == q[1] \notin plan.pdf

Phases == {"preflight", "gate", "rest"}
PhaseWorkers == [preflight |-> 1, gate |-> 2, rest |-> Workers]
PhaseAfter == [preflight |-> "gate", gate |-> "rest", rest |-> "closing"]
Members(phase) == {q \in Requests : plan.phase[q] = phase}
Gate == Members("gate")

\* A worker of the pool takes the next request.
MayTake(c, q) ==
  /\ at[c][q] = "todo" /\ camp[c].pc = plan.phase[q]
  /\ \A p \in plan.before[q] : at[c][p] # "todo"
  /\ Cardinality({p \in Members(plan.phase[q]) : at[c][p] \notin {"todo", "done", "failed"}})
       < PhaseWorkers[plan.phase[q]]

(* What the set-ups must satisfy.                                           *)
PlansAssumption ==
  \A p \in Plans : p.counts \subseteq Nat \ {0} /\ p.running \subseteq Campaigns

-----------------------------------------------------------------------------
(* What is compared.                                                        *)

\* The sources and the fonts are those that the manifests list.
PoolIsValid == \A s \in Sources : Digest(s) = manifest[s]
FontsAreValid == Digest("fonts") = manifest["fonts"]

\* The executable at its path is the one that was probed.
ToolIsTrusted(c, t) == world[t] = camp[c].tools[t].identity

UsesCache(c, q) == c \in plan.cached /\ plan.phase[q] # "gate"
ToolsOf(q) == IF IsOffice(q) THEN Tools ELSE {"pdfinfo"}

Key(c, q) ==
  [request |-> q, source |-> camp[c].listed[q[1]], fonts |-> camp[c].listed["fonts"],
   tools |-> [t \in Tools |-> camp[c].tools[t].digest]]

\* Mutant of EntryMatches: whatever the entry holds.
AnyEntryMatches(key, entry) == entry.request = key.request

EntryMatches(key, entry) ==
  /\ entry.request = key.request /\ entry.source = key.source
  /\ \A t \in DOMAIN entry.tools : entry.tools[t] = key.tools[t]
  /\ key.request[1] \notin plan.pdf => entry.fonts = key.fonts

-----------------------------------------------------------------------------
(* One observation.                                                         *)

Nothing == <<>>
At(c, q, to) == at' = [at EXCEPT ![c][q] = to]
Fails(c, q) == /\ At(c, q, "failed")
               /\ obs' = [obs EXCEPT ![c][q] = Nothing]
Has(c, q, o) == obs' = [obs EXCEPT ![c][q] = o]

\* What execution.json records: the tools are those of the probe.
Observation(c, q) ==
  [request |-> q, by |-> IF UsesCache(c, q) THEN "cache" ELSE c,
   identity |-> world[q[1]], source |-> Digest(q[1]), fonts |-> Digest("fonts"),
   tools |-> [t \in ToolsOf(q) |-> camp[c].tools[t].digest],
   together |-> FALSE, count |-> 0]

Materialize(c, q) ==
  LET entry == cache[Key(c, q)]
  IN IF EntryMatches(Key(c, q), entry) THEN At(c, q, "done") /\ Has(c, q, entry)
     ELSE Fails(c, q)

\* The source and, for an office document, the fonts are copied as they are now.
ReadSource(c, q) ==
  IF IsOffice(q) /\ ~FontsAreValid THEN Fails(c, q)
  ELSE /\ At(c, q, IF q \in Gate THEN "arriving" ELSE "ready")
       /\ Has(c, q, Observation(c, q))

Take(c, q) ==
  /\ MayTake(c, q)
  /\ IF UsesCache(c, q) /\ Key(c, q) \in DOMAIN cache THEN Materialize(c, q)
     ELSE ReadSource(c, q)
  /\ UNCHANGED <<plan, world, manifest, camp, cache, lock>>

\* The barrier before the two conversions of the gate.
Arrive(c, q) ==
  /\ at[c][q] = "arriving"
  /\ LET waiting == {p \in Gate : at[c][p] = "waiting"}
     IN IF camp[c].broken THEN Fails(c, q)
        ELSE IF waiting = {} THEN At(c, q, "waiting") /\ UNCHANGED obs
        ELSE /\ at' = [at EXCEPT ![c] = [p \in Requests |->
                         IF p \in waiting \cup {q} THEN "ready" ELSE at[c][p]]]
             /\ obs' = [obs EXCEPT ![c] = [p \in Requests |->
                          IF p \in waiting \cup {q} THEN [obs[c][p] EXCEPT !.together = TRUE]
                          ELSE obs[c][p]]]
  /\ UNCHANGED <<plan, world, manifest, camp, cache, lock>>

\* Mutant of GiveUp: barrier.wait() without a timeout.
WaitForEver(c, q) ==
  /\ at[c][q] = "waiting" /\ FALSE
  /\ UNCHANGED vars

GiveUp(c, q) ==
  /\ at[c][q] = "waiting"
  /\ Fails(c, q)
  /\ camp' = [camp EXCEPT ![c].broken = TRUE]
  /\ UNCHANGED <<plan, world, manifest, cache, lock>>

\* The pool runs its own copy of a tool, while the tool at its path is the same.
Run(c, q) ==
  /\ at[c][q] = "ready"
  /\ IF IsOffice(q)
     THEN IF ToolIsTrusted(c, "libreoffice")
          THEN At(c, q, "converting") /\ UNCHANGED obs ELSE Fails(c, q)
     ELSE IF ToolIsTrusted(c, "pdfinfo")
          THEN At(c, q, "measuring") /\ UNCHANGED obs ELSE Fails(c, q)
  /\ UNCHANGED <<plan, world, manifest, camp, cache, lock>>

\* LibreOffice ends, and pdfinfo is run on what it made.
Converted(c, q) ==
  /\ at[c][q] = "converting"
  /\ \/ Fails(c, q)
     \/ /\ \A t \in Tools : ToolIsTrusted(c, t)
        /\ At(c, q, "measuring")
        /\ \E n \in plan.counts : Has(c, q, [obs[c][q] EXCEPT !.count = n])
  /\ UNCHANGED <<plan, world, manifest, camp, cache, lock>>

\* pdfinfo ends; the source and the tools are looked at once more.
Measured(c, q) ==
  /\ at[c][q] = "measuring"
  /\ \/ Fails(c, q)
     \/ /\ \A t \in ToolsOf(q) : ToolIsTrusted(c, t)
        /\ world[q[1]] = obs[c][q].identity
        /\ At(c, q, IF UsesCache(c, q) THEN "captured" ELSE "done")
        /\ Has(c, q, [obs[c][q] EXCEPT !.identity = 0,
                        !.count = IF IsOffice(q) THEN @ ELSE 1])
  /\ UNCHANGED <<plan, world, manifest, camp, cache, lock>>

\* An entry that somebody else made is checked, and one's own observation is kept.
LockEntry(c, q) ==
  /\ at[c][q] = "captured"
  /\ LET key == Key(c, q)
     IN \/ /\ key \in DOMAIN cache
           /\ IF EntryMatches(key, cache[key]) THEN At(c, q, "done") /\ UNCHANGED obs
              ELSE Fails(c, q)
           /\ UNCHANGED lock
        \/ /\ key \notin DOMAIN cache /\ \E l \in lock : l[1] = key
           /\ Fails(c, q) /\ UNCHANGED lock
        \/ /\ key \notin DOMAIN cache /\ \A l \in lock : l[1] # key
           /\ At(c, q, "storing") /\ UNCHANGED obs
           /\ lock' = lock \cup {<<key, c>>}
  /\ UNCHANGED <<plan, world, manifest, camp, cache>>

Store(c, q) ==
  /\ at[c][q] = "storing"
  /\ LET key == Key(c, q)
     IN /\ IF EntryMatches(key, obs[c][q])
           THEN /\ cache' = [k \in DOMAIN cache \cup {key} |->
                               IF k \in DOMAIN cache THEN cache[k] ELSE obs[c][q]]
                /\ At(c, q, "done") /\ UNCHANGED obs
           ELSE Fails(c, q) /\ UNCHANGED cache
        /\ lock' = lock \ {<<key, c>>}
  /\ UNCHANGED <<plan, world, manifest, camp>>

Observe(c, q) ==
  \/ Take(c, q) \/ Arrive(c, q) \/ GiveUp(c, q) \/ Run(c, q) \/ Converted(c, q)
  \/ Measured(c, q) \/ LockEntry(c, q) \/ Store(c, q)

-----------------------------------------------------------------------------
(* The campaign.                                                            *)

Ended == {"published", "failed", "dead"}

Goes(c, to) == camp' = [camp EXCEPT ![c].pc = to]

\* A campaign that fails leaves no observations: they are in its staging directory.
Keeps(c, ok) ==
  obs' = [obs EXCEPT ![c] = IF ok THEN @ ELSE [q \in Requests |-> Nothing]]
Holds(c, condition, next) ==
  /\ Goes(c, IF condition THEN next ELSE "failed")
  /\ Keeps(c, condition)

\* The inputs are taken note of before they are read.
Trust(c) ==
  /\ camp[c].pc = "start"
  /\ \A d \in plan.after[c] : camp[d].pc \in Ended
  /\ camp' = [camp EXCEPT ![c].pc = "load", ![c].manifests = world["manifests"]]
  /\ UNCHANGED <<plan, world, manifest, at, obs, cache, lock>>

Load(c) ==
  /\ camp[c].pc = "load"
  /\ camp' = [camp EXCEPT ![c].pc = IF PoolIsValid /\ FontsAreValid THEN "probe" ELSE "failed",
                          ![c].listed = manifest]
  /\ UNCHANGED <<plan, world, manifest, at, obs, cache, lock>>

Copy(t) == [identity |-> world[t], digest |-> Digest(t)]

\* The pool of snapshots takes its copies with the first run of each tool.
Probe(c) ==
  /\ camp[c].pc = "probe"
  /\ \/ Goes(c, "closing")
     \/ camp' = [camp EXCEPT ![c].pc = "preflight", ![c].pool = "held",
                   ![c].tools = [t \in Tools |-> Copy(t)]]
  /\ UNCHANGED <<plan, world, manifest, at, obs, cache, lock>>

\* Mutant of EndPhase: the first failure is raised at once.
EndPhaseEarly(c) ==
  /\ camp[c].pc \in Phases
  /\ LET ends == {at[c][q] : q \in Members(camp[c].pc)}
     IN \/ "failed" \in ends /\ Goes(c, "closing")
        \/ ends \subseteq {"done"} /\ Goes(c, PhaseAfter[camp[c].pc])
  /\ UNCHANGED <<plan, world, manifest, at, obs, cache, lock>>

\* A phase ends when all its observations have, even when one has failed.
EndPhase(c) ==
  /\ camp[c].pc \in Phases
  /\ LET ends == {at[c][q] : q \in Members(camp[c].pc)}
     IN /\ ends \subseteq {"done", "failed"}
        /\ Goes(c, IF "failed" \in ends THEN "closing" ELSE PhaseAfter[camp[c].pc])
  /\ UNCHANGED <<plan, world, manifest, at, obs, cache, lock>>

\* The copies are removed, whether the observations succeeded or not.
Close(c) ==
  /\ camp[c].pc = "closing"
  /\ LET ok == \A q \in Requests : at[c][q] = "done"
     IN /\ camp' = [camp EXCEPT ![c].pool = "released",
                                ![c].pc = IF ok THEN "build" ELSE "failed"]
        /\ Keeps(c, ok)
  /\ UNCHANGED <<plan, world, manifest, at, cache, lock>>

InputsAreTrusted(c) == world["manifests"] = camp[c].manifests

PairsAgree(c) == \A s \in Sources : obs[c][<<s, 1>>].count = obs[c][<<s, 2>>].count
ToolsAgree(c) ==
  \A q \in Requests : \A t \in ToolsOf(q) : obs[c][q].tools[t] = camp[c].tools[t].digest

Build(c) ==
  /\ camp[c].pc = "build"
  /\ Holds(c, InputsAreTrusted(c) /\ PairsAgree(c) /\ ToolsAgree(c), "validate")
  /\ UNCHANGED <<plan, world, manifest, at, cache, lock>>

\* The tools and the fonts of the inventory are those that are there.
RuntimeIsBound(c) == \A t \in Tools : Digest(t) = camp[c].tools[t].digest
RootIsBound(c) == Digest("fonts") = camp[c].listed["fonts"]

\* Mutant of SourceIsBound: the digest is compared with the first execution only.
FirstRunIsBound(c, s) == obs[c][<<s, 1>>].source = manifest[s]

\* Both observations of a source are of the content that the manifest lists.
SourceIsBound(c, s) ==
  \A run \in {1, 2} : obs[c][<<s, run>>].source = manifest[s]

ExecutionIsBound(c, q) ==
  /\ obs[c][q].request = q
  /\ \A t \in ToolsOf(q) : obs[c][q].tools[t] = camp[c].tools[t].digest
  /\ IsOffice(q) => obs[c][q].fonts = camp[c].listed["fonts"]

\* No execution is listed twice: a nonce is of the entry's key or of the campaign.
Nonce(o) == <<o.by, o.request>>
NoncesDiffer(c) ==
  \A p, q \in Requests : Nonce(obs[c][p]) = Nonce(obs[c][q]) => p = q

Validate(c) ==
  /\ camp[c].pc = "validate"
  /\ Holds(c, /\ PoolIsValid /\ FontsAreValid /\ RootIsBound(c) /\ RuntimeIsBound(c)
              /\ \A s \in Sources : SourceIsBound(c, s)
              /\ \A q \in Requests : ExecutionIsBound(c, q)
              /\ NoncesDiffer(c), "approve")
  /\ UNCHANGED <<plan, world, manifest, at, cache, lock>>

\* The last look at the inputs before the rename.
Approve(c) ==
  /\ camp[c].pc = "approve"
  /\ Holds(c, /\ InputsAreTrusted(c) /\ PoolIsValid /\ FontsAreValid
              /\ manifest = camp[c].listed, "rename")
  /\ UNCHANGED <<plan, world, manifest, at, cache, lock>>

Rename(c) ==
  /\ camp[c].pc = "rename"
  /\ Goes(c, "published")
  /\ UNCHANGED <<plan, world, manifest, at, obs, cache, lock>>

Step(c) ==
  /\ c \in plan.running /\ camp[c].pc # "dead"
  /\ \/ Trust(c) \/ Load(c) \/ Probe(c) \/ EndPhase(c) \/ Close(c)
     \/ Build(c) \/ Validate(c) \/ Approve(c) \/ Rename(c)
     \/ \E q \in Requests : Observe(c, q)

-----------------------------------------------------------------------------
(* What happens meanwhile.                                                  *)

\* The manifests are made again from what they list.
Edit(f) ==
  /\ f \in plan.edited /\ plan.edits > 0
  /\ plan' = [plan EXCEPT !.edits = @ - 1]
  /\ world' = [world EXCEPT ![f] = @ + 1]
  /\ manifest' = IF f = "manifests" THEN [g \in DOMAIN manifest |-> Digest(g)] ELSE manifest
  /\ UNCHANGED <<camp, at, obs, cache, lock>>

\* A campaign dies with its threads; its locks stay.
Die(c) ==
  /\ plan.deaths > 0 /\ c \in plan.running /\ camp[c].pc \notin Ended
  /\ plan' = [plan EXCEPT !.deaths = @ - 1]
  /\ Goes(c, "dead")
  /\ UNCHANGED <<world, manifest, at, obs, cache, lock>>

Init ==
  /\ plan \in {SetUp(p) : p \in Plans}
  /\ world = [f \in Files |-> 0]
  /\ manifest = [f \in Sources \cup {"fonts"} |-> 0]
  /\ camp = [c \in Campaigns |->
               [pc |-> "start", manifests |-> 0, listed |-> manifest, broken |-> FALSE,
                pool |-> "none", tools |-> [t \in Tools |-> [identity |-> 0, digest |-> 0]]]]
  /\ at = [c \in Campaigns |-> [q \in Requests |-> "todo"]]
  /\ obs = [c \in Campaigns |-> [q \in Requests |-> Nothing]]
  /\ cache = <<>>
  /\ lock = {}

Next ==
  \/ \E c \in Campaigns : Step(c) \/ Die(c)
  \/ \E f \in plan.edited : Edit(f)

Spec == Init /\ [][Next]_vars

(* Threads run, processes end (CandidateProcess!Returns) and a wait at the   *)
(* barrier times out; nobody need edit anything or die.  One condition for   *)
(* all campaigns says it, as the steps of each are finitely many.            *)
FairSpec == Spec /\ WF_vars(\E c \in Campaigns : Step(c))

-----------------------------------------------------------------------------
(* Properties.                                                              *)

(* What a published inventory says of every source was observed: two        *)
(* executions that are not the same, of the content and with the tools and  *)
(* fonts that it names, agreed on the pages, whatever was edited meanwhile  *)
(* and whoever filled the cache; the two of the gate were of this campaign  *)
(* and side by side.                                                        *)
InventoryIsTrue ==
  \A c \in plan.running : camp[c].pc = "published" =>
    /\ \A q \in Requests :
         /\ obs[c][q].source = camp[c].listed[q[1]]
         /\ \A t \in ToolsOf(q) : obs[c][q].tools[t] = camp[c].tools[t].digest
         /\ IsOffice(q) => obs[c][q].fonts = camp[c].listed["fonts"]
    /\ \A s \in Sources :
         /\ obs[c][<<s, 1>>].count = obs[c][<<s, 2>>].count
         /\ Nonce(obs[c][<<s, 1>>]) # Nonce(obs[c][<<s, 2>>])
    /\ \A q \in Gate : obs[c][q].by = c /\ obs[c][q].together

(* An entry of the cache is an observation of what its key names, although  *)
(* the key is computed before the observation, and from other reads.        *)
CacheIsTrue ==
  \A key \in DOMAIN cache :
    /\ cache[key].request = key.request /\ cache[key].source = key.source
    /\ \A t \in ToolsOf(key.request) : cache[key].tools[t] = key.tools[t]
    /\ IsOffice(key.request) => cache[key].fonts = key.fonts
    /\ cache[key].count > 0

(* No process runs from a copy of a tool that the pool has removed, however *)
(* the campaign ended.                                                      *)
PoolOutlivesRuns ==
  \A c \in plan.running : camp[c].pool = "released" =>
    \A q \in Requests : at[c][q] \notin {"converting", "measuring"}

(* Every campaign ends, however many of its observations fail, and although *)
(* a partner at the barrier may never arrive or a lock may stay for ever.   *)
CampaignsEnd == <>(\A c \in plan.running : camp[c].pc \in Ended)
=============================================================================
