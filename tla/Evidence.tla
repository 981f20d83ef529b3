------------------------------- MODULE Evidence -------------------------------
(***************************************************************************)
(* The evidence of a release under the portable profile, from the contract *)
(* to the gate: which document of evaluate/ records the digest of which,   *)
(* and which tool compares which of them.  A set of pairs <<holder, kind>> *)
(* stands for a validator: it compares the digest of kind that the holder  *)
(* records with the file that it was given.  One document format is        *)
(* followed; each format has its own corpus, lock, captures and report.    *)
(***************************************************************************)
EXTENDS EvidenceMachine

-----------------------------------------------------------------------------
(* The documents.                                                           *)

\* revision: HEAD and the files of evaluate/ in it; routing: the one that holds the
\* commands of each format; tools: the programs, fonts and browser that the lock
\* names, under the evidence root or on the machine; inputs: what the corpus lists.
EvidenceSources == {"contract", "revision", "routing", "tools", "inputs"}

\* A run: its pictures, inventories, log and runtime identity; its receipt; and
\* the capture manifest, with the upstream manifest that repeats it.
Oracle == [run |-> "oracle run", receipt |-> "oracle receipt", capture |-> "oracle capture"]
Candidate ==
  [run |-> "candidate run", receipt |-> "candidate receipt", capture |-> "candidate capture"]

\* One decision for each reviewer of the registry.
Decisions == {"visual decision", "semantic decision"}

Scope == {"contract", "corpus", "evaluator", "lock"}

-----------------------------------------------------------------------------
(* Validators of the inputs of a run.                                       *)

\* The quotas, outcomes and pairs of a corpus are the contract's, and each source is
\* hashed and has the format that it should have.
CorpusRules == {<<"corpus", "contract">>}
SourceFiles == {<<"corpus", "inputs">>}
Corpus == {<<"corpus", "contract">>} \cup CorpusRules \cup SourceFiles
EvaluatorManifest == {"evaluator"} \X {"contract", "revision"}

\* On the machine: cargo and rustc, and the font that stands in for others.
RustToolchain == {<<"lock", "tools">>}
EastAsianFont == {<<"lock", "tools">>}

\* The table is read again, wherever the lock is validated.
Routing == {<<"lock", "routing">>}

\* The lock of the candidate; its packages are compared too where it names any.
NativePackages == {<<"lock", "candidate lock">>}

\* Everything that the lock names is hashed again, and found where it names it.
ReferenceLock ==
  {"lock"} \X {"contract", "corpus", "evaluator", "tools", "candidate lock"}
    \cup RustToolchain \cup EastAsianFont \cup Routing \cup NativePackages
CandidateLocks == {"candidate lock"} \X {"revision", "tools"}
RuntimeProfile == ReferenceLock \cup {"lock"} \X {"revision"}
Attestation == {"attestation"} \X (Scope \cup {"revision"})

\* A receipt is trusted when the lock is, and when the lock's files and the
\* sources are the same before and after its signature is verified.
LockArtifacts == {"lock"} \X {"contract", "corpus", "evaluator", "tools", "candidate lock"}
ReceiptTrust == ReferenceLock \cup LockArtifacts \cup {<<"corpus", "inputs">>}

\* What is signed beside the artifacts: all that the lock stands for.
ReceiptScope == Scope \cup {"revision", "routing", "tools", "inputs"}
ReceiptArtifacts(s) == {s.receipt} \X {s.run}
Receipt(s) == ReceiptTrust \cup {s.receipt} \X ReceiptScope \cup ReceiptArtifacts(s)

-----------------------------------------------------------------------------
(* Validators of a capture s.                                               *)

ExecutionLog(s) == {s.run} \X {"revision", "evaluator", "corpus"}
Upstream(s) ==
  {s.capture} \X (Scope \cup {"revision", s.run, s.receipt})
    \cup ExecutionLog(s)

PortableRuntime == {<<Oracle.run, "tools">>}
RuntimeAgainstLock ==
  RuntimeProfile \cup Attestation
    \cup {Candidate.run} \X {"tools", "candidate lock", "attestation"}
Runtime(s) ==
  {<<s.run, "revision">>}
    \cup (IF s = Oracle THEN PortableRuntime ELSE RuntimeAgainstLock)

\* Mutant of PortableProvenance: the receipt may be that of another run.
AnyReceipt(s) == RuntimeProfile \cup ReceiptTrust \cup {s.receipt} \X ReceiptScope

PortableProvenance(s) ==
  RuntimeProfile \cup Receipt(s) \cup {s.receipt} \X {s.run}

CaptureProvenance(s) ==
  {s.capture} \X {s.run, s.receipt}
    \cup Runtime(s) \cup Upstream(s) \cup PortableProvenance(s)
CaptureProfile == ReceiptTrust \cup {<<"lock", "candidate lock">>}

CaptureManifest(s) ==
  {s.capture} \X (Scope \cup {s.run}) \cup CaptureProfile \cup CaptureProvenance(s)

-----------------------------------------------------------------------------
(* Validators of the metrics.                                               *)

\* The commands are the ones that are allowed, with the toolchain of the lock.
PlannedCommands == {<<"plan", "tools">>}
CommandPlan == {<<"plan", "lock">>} \cup RustToolchain \cup PlannedCommands

ReviewPacket ==
  {"packet"} \X (Scope \cup {"revision", Oracle.capture, Candidate.capture,
                             Oracle.run, Candidate.run})
ReviewDecisions == Decisions \X {"packet"}
Review == {"metrics"} \X ({"packet"} \cup Decisions) \cup ReviewPacket \cup ReviewDecisions

Executed == {"executions"} \X {"plan", "revision", "evaluator", "corpus"}
Security == {<<"metrics", "executions">>} \cup Executed
Quality == {<<"metrics", "executions">>} \cup Executed

\* The second run has other files than the first, which has those of the capture.
RunInventories == {"metrics"} \X {"corpus", Candidate.run}
Determinism == {<<"metrics", Candidate.run>>} \cup RunInventories
HardGates == Security \cup Determinism \cup Review \cup Quality

\* Each unit of the corpus has its pictures and inventories, and no other.
UnitArtifacts == {"metrics"} \X {Oracle.run, Candidate.run}
MetricUnits == {<<"metrics", "corpus">>} \cup UnitArtifacts

CaptureLinks == {"metrics"} \X {Oracle.run, Candidate.run}
MetricsBindings == {"metrics"} \X (Scope \cup {"revision"})

Metrics ==
  Corpus \cup MetricsBindings \cup CommandPlan \cup MetricUnits \cup HardGates
    \cup CaptureLinks \cup {"metrics"} \X {"plan", Oracle.capture, Candidate.capture}
    \cup CaptureManifest(Oracle) \cup CaptureManifest(Candidate)

-----------------------------------------------------------------------------
(* The gate.                                                                *)

OracleScope == {<<"lock", "corpus">>}
GeneratedReport == EvaluatorManifest \cup Metrics
ReportFailures ==
  {"report"} \X (Scope \cup {"metrics"}) \cup Corpus \cup OracleScope
    \cup GeneratedReport

\* Mutant of GateNow: the report is checked against the revision that it names.
GateAnyRevision == {"routing", "tools", "inputs"}

\* What the gate reads as it is when it runs.
GateNow == {"revision", "routing", "tools", "inputs"}

-----------------------------------------------------------------------------
(* The tools: what each one compares, reads as it is, and records.          *)

ScaffoldEvidence == Tool({}, {"revision"}, {"contract", "revision"})
ReadyCorpus == Tool({}, {"inputs"}, {"contract", "inputs"})
CandidateRuntimeLock == Tool({}, {"revision", "tools"}, {"revision", "tools"})

\* The programs are those of the lock of the candidate; packages are copied with all
\* that they load, and did not change meanwhile.
BoundRuntime == {<<"candidate lock", "tools">>}
CopiedPackages == {"tools"}
PortableLock ==
  Tool(CandidateLocks \cup BoundRuntime, {"revision", "routing"} \cup CopiedPackages,
       {"contract", "corpus", "evaluator", "candidate lock", "revision", "routing", "tools"})
SignAttestation ==
  Tool(ReferenceLock \cup {<<"lock", "revision">>}, {"routing", "tools"}, Scope \cup {"revision"})

\* The sources of the corpus are those that the lock's corpus lists; each is hashed
\* before and after every command, and the lock's files before the command.
ReferenceSources == ReceiptTrust \cup Corpus
ReferenceRun ==
  Tool(ReferenceSources \cup RuntimeProfile, {"routing", "tools", "inputs"},
       {"revision", "evaluator", "corpus", "tools"})

\* The capture of the candidate, after its preflight.
Preflight ==
  RuntimeProfile \cup EvaluatorManifest \cup Corpus \cup CandidateLocks \cup Attestation
CandidateRun ==
  Tool(Preflight, GateNow,
       {"revision", "evaluator", "corpus", "tools", "candidate lock", "attestation"})

\* The executor signs what it is given, under the scope of the lock; who asked for
\* the receipt verifies it.
RequestReceipt(s) == ReceiptTrust \cup Receipt(s)
SignReceipt(s) ==
  Tool(RuntimeProfile \cup RequestReceipt(s), {"routing", "tools", "inputs"},
       ReceiptScope \cup {s.run})
WriteCapture ==
  Tool(CaptureManifest(Candidate), {"routing", "tools", "inputs"},
       Scope \cup {"revision", Candidate.run, Candidate.receipt})

\* One call makes the reference's run, receipt and capture: the units that it lists
\* are hashed again before the capture is validated.
PublishedUnits == {Oracle.capture} \X {Oracle.run}
WriteReference ==
  Tool(PublishedUnits \cup CaptureManifest(Oracle), {"routing", "tools", "inputs"},
       Scope \cup {"revision", Oracle.run, Oracle.receipt})

MaterializePlan == Tool(RustToolchain, {"tools"}, {"lock", "tools"})
MetricContext ==
  EvaluatorManifest \cup CaptureManifest(Oracle) \cup CaptureManifest(Candidate)
MaterializePacket ==
  Tool(MetricContext, GateNow,
       Scope \cup {"revision", Oracle.capture, Candidate.capture,
                   Oracle.run, Candidate.run})
SignDecision == Tool({}, {}, {"packet"})
RunCommands ==
  Tool(MetricContext \cup CommandPlan, GateNow, {"plan", "revision", "evaluator", "corpus"})

\* What is published is validated first.
MetricsManifest ==
  Scope \cup {"revision", "plan", "packet", "executions", Oracle.capture,
              Candidate.capture, Oracle.run, Candidate.run} \cup Decisions
AssembleMetrics == Tool(MetricContext \cup Metrics, GateNow, MetricsManifest)

\* Mutant of AssembleReport: the report is published before it is validated.
ReportUnchecked == Tool(ReferenceLock, GateNow, Scope \cup {"metrics"})

AssembleReport == Tool(ReferenceLock \cup GeneratedReport, GateNow, Scope \cup {"metrics"})

EvidenceDocs ==
  {"evaluator", "corpus", "candidate lock", "lock", "attestation", "plan", "packet",
   "executions", "metrics", "report"} \cup Decisions
    \cup UNION {{s.run, s.receipt, s.capture} : s \in {Oracle, Candidate}}

EvidenceTools == [k \in EvidenceDocs |->
  CASE k = "evaluator" -> ScaffoldEvidence
    [] k = "corpus" -> ReadyCorpus
    [] k = "candidate lock" -> CandidateRuntimeLock
    [] k = "lock" -> PortableLock
    [] k = "attestation" -> SignAttestation
    [] k = Oracle.run -> ReferenceRun
    [] k = Oracle.receipt -> SignReceipt(Oracle)
    [] k = Oracle.capture -> WriteReference
    [] k = Candidate.run -> CandidateRun
    [] k = Candidate.receipt -> SignReceipt(Candidate)
    [] k = Candidate.capture -> WriteCapture
    [] k = "plan" -> MaterializePlan
    [] k = "packet" -> MaterializePacket
    [] k \in Decisions -> SignDecision
    [] k = "executions" -> RunCommands
    [] k = "metrics" -> AssembleMetrics
    [] k = "report" -> AssembleReport]

\* What comes out different each time: a nonce, a log, pictures, a person's view.
EvidenceUnique == {"attestation", Oracle.run, Candidate.run, "executions"} \cup Decisions

Release ==
  Table(EvidenceSources, {"contract"}, EvidenceTools, EvidenceUnique, ReportFailures,
        GateNow)
=============================================================================
