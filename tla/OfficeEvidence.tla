---------------------------- MODULE OfficeEvidence ----------------------------
(***************************************************************************)
(* The evidence of a release under the Microsoft Office profile.  People   *)
(* fill in the lock; Office makes a batch on a Windows machine, which is   *)
(* finalized and signed here; the candidate runs as under the portable     *)
(* profile.  The programs of both captures are copied into the evidence,   *)
(* so no validator looks at the machine again; only the Rust toolchain of  *)
(* the commands is.  The rest is as in Evidence.                           *)
(***************************************************************************)
EXTENDS Evidence

-----------------------------------------------------------------------------
(* Validators.                                                              *)

\* tools: Office, the programs of the candidate and the fonts, as the lock names them;
\* exports: the files that Office made, which each batch keeps beside its manifest.
OfficeSources == {"contract", "revision", "tools", "toolchain", "inputs", "exports"}

\* The lock is read field by field, and nothing that it names is hashed.
OfficeLock == {"lock"} \X {"tools", "revision"}

OfficePlan == {"plan"} \X {"lock", "toolchain"} \cup {<<"lock", "toolchain">>}

OfficeAttestation == Attestation
RuntimeArtifacts == {<<Candidate.run, "tools">>}
CandidateRuntime ==
  RuntimeArtifacts \cup OfficeLock \cup OfficeAttestation
    \cup {Candidate.run} \X {"revision", "attestation"}
ExecutionReceipt ==
  {Candidate.receipt} \X (Scope \cup {"revision", Candidate.run}) \cup {<<"lock", "tools">>}

\* The programs of the run are those of the lock, and the key is.
OfficeRuntime == {Oracle.run} \X {"tools", "revision"} \cup {<<"lock", "tools">>}

\* The files of a batch are those of its manifest, and no others are there.
BatchFiles == {<<"batch", "exports">>}

\* What the batch was made of, when it is finalized and when the capture is read.
BatchLock == {"batch"} \X {"revision", "tools"} \cup {<<"lock", "tools">>}
CaptureUnits == {<<"batch", "inputs">>, <<"corpus", "inputs">>}
BatchUnits == {<<"batch", "inputs">>}

OfficeReceipt ==
  {Oracle.receipt} \X (Scope \cup {"revision", "batch", "exports", Oracle.run})

\* The pictures are those of the batch, and the receipt is that of the batch and the run.
OfficeProvenance ==
  {Oracle.capture} \X {"batch", "exports"} \cup OfficeRuntime \cup BatchFiles
    \cup BatchUnits \cup OfficeReceipt

OfficeCapture(s) ==
  {s.capture} \X (Scope \cup {s.run, s.receipt}) \cup Upstream(s)
    \cup (IF s = Oracle THEN OfficeRuntime \cup OfficeProvenance
          ELSE CandidateRuntime \cup ExecutionReceipt)

OfficeMetrics ==
  Corpus \cup MetricsBindings \cup OfficePlan \cup MetricUnits \cup HardGates
    \cup CaptureLinks \cup {"metrics"} \X {"plan", Oracle.capture, Candidate.capture}
    \cup OfficeCapture(Oracle) \cup OfficeCapture(Candidate)

OfficeGate ==
  {"report"} \X (Scope \cup {"metrics"}) \cup Corpus \cup EvaluatorManifest \cup OfficeMetrics
OfficeNow == {"revision", "toolchain", "inputs"}

-----------------------------------------------------------------------------
(* The tools.                                                               *)

FillLock == Tool({}, {}, {"revision", "tools", "toolchain"})
SignOfficeAttestation == Tool({}, {}, Scope \cup {"revision"})

\* The bundle for the Windows machine holds the files of the corpus, whose digests
\* are compared here and there; Office makes the batch of them.
OfficeInput == {<<"corpus", "inputs">>}
OfficeBatch == Tool(OfficeInput, {"tools", "exports"},
                    {"inputs", "revision", "tools", "exports"})

\* One call copies the batch, writes the identity and the log of the run, has them
\* signed, and writes the manifests: they are of one revision, corpus and batch.
\* The copy is validated as the batch was.  The inventories are made of its files.
CopiedBatch == BatchFiles
Inventories == {"exports"}
Finalize == BatchFiles \cup CopiedBatch \cup BatchLock \cup CaptureUnits
FinalizeRun == Tool(Finalize, {}, {"revision", "evaluator", "corpus", "tools"})
OneRun(s) == {s.run} \X {"revision", "evaluator", "corpus", "tools"}
FinalizeReceipt ==
  Tool(Finalize \cup OneRun(Oracle), {},
       Scope \cup {"revision", "batch", Oracle.run} \cup Inventories)
FinalizeCapture ==
  Tool(Finalize \cup OneRun(Oracle) \cup OfficeReceipt, {},
       Scope \cup {"revision", "batch", Oracle.run, Oracle.receipt} \cup Inventories)

OfficeCandidateRun ==
  Tool(OfficeLock \cup EvaluatorManifest \cup Corpus \cup OfficeAttestation,
       {"revision", "tools", "inputs"},
       {"revision", "evaluator", "corpus", "tools", "attestation"})
SignCandidate ==
  Tool(CandidateRuntime \cup OneRun(Candidate), {}, Scope \cup {"revision", Candidate.run})
CandidateCapture ==
  Tool(OfficeCapture(Candidate), {"inputs"},
       Scope \cup {"revision", Candidate.run, Candidate.receipt})

OfficeContext == EvaluatorManifest \cup OfficeCapture(Oracle) \cup OfficeCapture(Candidate)

OfficeDocs == (EvidenceDocs \ {"candidate lock"}) \cup {"batch"}

OfficeTools == [k \in OfficeDocs |->
  CASE k = "evaluator" -> ScaffoldEvidence
    [] k = "corpus" -> ReadyCorpus
    [] k = "lock" -> FillLock
    [] k = "attestation" -> SignOfficeAttestation
    [] k = "batch" -> OfficeBatch
    [] k = Oracle.run -> FinalizeRun
    [] k = Oracle.receipt -> FinalizeReceipt
    [] k = Oracle.capture -> FinalizeCapture
    [] k = Candidate.run -> OfficeCandidateRun
    [] k = Candidate.receipt -> SignCandidate
    [] k = Candidate.capture -> CandidateCapture
    [] k = "plan" -> Tool({<<"lock", "toolchain">>}, {"toolchain"}, {"lock", "toolchain"})
    [] k = "packet" -> Tool(OfficeContext, {"revision", "inputs"}, MaterializePacket.records)
    [] k \in Decisions -> SignDecision
    [] k = "executions" ->
         Tool(OfficeContext \cup OfficePlan, OfficeNow, RunCommands.records)
    [] k = "metrics" ->
         Tool(OfficeContext \cup OfficeMetrics, OfficeNow, AssembleMetrics.records)
    [] k = "report" ->
         Tool(EvaluatorManifest \cup OfficeMetrics, OfficeNow, AssembleReport.records)]

Office ==
  Table(OfficeSources, {"contract", "tools", "exports"}, OfficeTools,
        {"attestation", "batch", Oracle.run, Candidate.run, "executions"} \cup Decisions,
        OfficeGate, OfficeNow)
=============================================================================
