-------------------------------- MODULE Corpora --------------------------------
(***************************************************************************)
(* The ready corpora, from the contract to the seven corpora that the      *)
(* release evidence starts from: which manifest records which, and which   *)
(* tool compares which of them.  A set of pairs <<holder, kind>> stands    *)
(* for a validator, as in Evidence.  A manifest stands for the files that  *)
(* it lists: what records a digest of one of its files records it.         *)
(*                                                                         *)
(* Left out: digests that nobody compares (of generators, evaluators, and  *)
(* of the modern manifests in the legacy one), and the digest of the plan  *)
(* that ready_inputs.py holds as a literal; whoever edits the contract is  *)
(* taken to edit it too.                                                   *)
(***************************************************************************)
EXTENDS EvidenceMachine

-----------------------------------------------------------------------------
(* The documents.                                                           *)

\* office: LibreOffice, pdfinfo, the routing and the fonts on the machine.
CorporaSources == {"contract", "public config", "office"}

Paired == {"docx", "xlsx", "pptx"}
Modern == Paired \cup {"pdf"}
Upstreams ==
  Modern \cup {"legacy", "public config", "pool", "binary config", "binary pool", "security"}

-----------------------------------------------------------------------------
(* Validators of the inputs.                                                *)

\* The plan is built again from the contract and compared.
ConformancePlan == {"conformance plan"} \X {"contract"}
PairedSnapshots == Paired \X {"contract", "conformance plan"}

\* The pool does not record the digest of its configuration; what it says of each
\* source is compared with it.
PublicPool == {"pool"} \X {"public config"}
BinaryPlans == {"binary config"} \X {"public config"}
BinaryPool ==
  PublicPool \cup BinaryPlans
    \cup {"binary pool"} \X {"binary config", "public config", "pool"}

SecuritySnapshot == {"security"} \X {"contract"}

RuntimeBindings == {"inventory"} \X {"office"}
ExecutionRecords == {"inventory"} \X {"office"}
SourceRecords == {"inventory"} \X {"pool"} \cup ExecutionRecords
InventoryRoot == {"inventory"} \X {"contract", "public config", "pool", "office"}
NativeInventory == PublicPool \cup InventoryRoot \cup RuntimeBindings \cup SourceRecords

-----------------------------------------------------------------------------
(* The join of the inputs.                                                  *)

ReadyPlan == ConformancePlan
ModernManifests == Modern \X {"contract", "conformance plan"}
PairedManifests == {"legacy"} \X (Paired \cup {"contract", "conformance plan"})
BlindSources == PublicPool \cup NativeInventory \cup {"inventory"} \X {"pool"}
SecuritySources == SecuritySnapshot
Auxiliary == BinaryPool \cup BlindSources \cup SecuritySources
ReadyInputs == ReadyPlan \cup ModernManifests \cup PairedManifests \cup Auxiliary

-----------------------------------------------------------------------------
(* Validators of what was assembled; the last one is the gate.              *)

CopiedInputs == {"ready corpora"} \X {"conformance plan", "inventory"}

\* Each track of a manifest is held to the rules of the contract.
ConformanceTrack == {"ready corpora"} \X {"contract"}
OtherTracks == {"ready corpora"} \X {"contract"}

\* An item is what the inputs say of its source.
CorpusItems ==
  ConformanceTrack \cup OtherTracks
    \cup {"ready corpora"} \X (Modern \cup {"legacy", "binary pool", "pool", "inventory",
                                            "security", "conformance plan"})
SupportRelations == {"ready corpora"} \X (Paired \cup {"legacy"})
AssemblyBindings ==
  {"ready corpora"} \X ({"contract", "conformance plan", "inventory"} \cup Upstreams)

ReadyCorpora ==
  ReadyInputs \cup CopiedInputs \cup CorpusItems \cup SupportRelations \cup AssemblyBindings

\* The programs of the inventory are run and hashed again.
ReadyNow == {"office"}

-----------------------------------------------------------------------------
(* The tools: what each one compares, reads as it is, and records.          *)

BuildPlan == Tool({}, {}, {"contract"})
GenerateDocx == Tool(ConformancePlan, {}, {"contract", "conformance plan"})
GenerateXlsx == Tool(ConformancePlan, {}, {"contract", "conformance plan"})
GeneratePptx == Tool(ConformancePlan, {}, {"contract", "conformance plan"})
GeneratePdf == Tool(ConformancePlan, {}, {"contract", "conformance plan"})
GenerateLegacyPairs ==
  Tool(ConformancePlan \cup PairedSnapshots, {}, Paired \cup {"contract", "conformance plan"})
CollectPublicPool == Tool({}, {}, {"public config"})
WriteBinaryConfig == Tool({}, {}, {"public config"})
CollectBinaryPool ==
  Tool(BinaryPlans \cup PublicPool, {}, {"binary config", "public config", "pool"})
GenerateSecurity == Tool({}, {}, {"contract"})
CaptureInventory ==
  Tool(PublicPool, {"office"}, {"contract", "public config", "pool", "office"})

ConformanceItems == Modern \cup {"legacy", "binary pool", "conformance plan"}
FormatManifest == ConformanceItems \cup {"pool", "inventory", "security", "contract"}
AssemblyManifest == {"contract", "conformance plan", "inventory"} \cup Upstreams
AssembleCorpora ==
  Tool(ReadyInputs, ReadyNow, FormatManifest \cup AssemblyManifest)

CorporaDocs ==
  Modern \cup {"conformance plan", "legacy", "pool", "binary config", "binary pool",
               "security", "inventory", "ready corpora"}

CorporaTools == [k \in CorporaDocs |->
  CASE k = "conformance plan" -> BuildPlan
    [] k = "docx" -> GenerateDocx
    [] k = "xlsx" -> GenerateXlsx
    [] k = "pptx" -> GeneratePptx
    [] k = "pdf" -> GeneratePdf
    [] k = "legacy" -> GenerateLegacyPairs
    [] k = "pool" -> CollectPublicPool
    [] k = "binary config" -> WriteBinaryConfig
    [] k = "binary pool" -> CollectBinaryPool
    [] k = "security" -> GenerateSecurity
    [] k = "inventory" -> CaptureInventory
    [] k = "ready corpora" -> AssembleCorpora]

\* Converters and archives stamp what they write; an inventory holds nonces.
CorporaUnique == Modern \cup {"legacy", "security", "inventory"}

Corpora ==
  Table(CorporaSources, {"contract", "public config"}, CorporaTools, CorporaUnique,
        ReadyCorpora, ReadyNow)
===============================================================================
