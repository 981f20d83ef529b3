-------------------------------- MODULE Golden --------------------------------
(***************************************************************************)
(* The pictures that Microsoft PowerPoint made of the golden set, and the  *)
(* gates that rest on them: which file records which, and who compares it. *)
(* A set of pairs <<holder, kind>> stands for a validator, as in Evidence. *)
(* The decks are followed as one; "metadata" is the metadata.json of a     *)
(* deck, "manifest" the manifest.json of the batch, "matrix" the block     *)
(* that the documents repeat.                                              *)
(*                                                                         *)
(* A picture records nothing of its deck: that the export is of these      *)
(* decks is the word of who made it.  The counts of decks and slides and   *)
(* the names of files are taken to be right.                               *)
(***************************************************************************)
EXTENDS EvidenceMachine

-----------------------------------------------------------------------------
(* Validators.                                                              *)

Provenance == {<<"manifest", "metadata">>}
Pictures == {"manifest", "metadata"} \X {"pictures"}
Batch == Provenance \cup Pictures \cup {"manifest", "metadata"} \X {"decks"}

\* The batch is ready for promotion, or worth comparing pixels with.
Ready == Batch
StrictComparison == Batch

\* The gate of a family counts decks and slides, and compares no digest.
FamilyGate == {}
ExactEvidence == FamilyGate

Matrix == {<<"matrix", "features">>}
ExactnessContract == Matrix \cup ExactEvidence

-----------------------------------------------------------------------------
(* The tools.  One call makes the metadata and then the manifest.           *)

GoldenSources == {"decks", "pictures"}

ScaffoldMetadata == Tool({}, GoldenSources, GoldenSources)
ScaffoldManifest ==
  Tool({"metadata"} \X GoldenSources, GoldenSources, GoldenSources \cup {"metadata"})
UpdateDocs == Tool({}, {"features"}, {"features"})

BatchTools == [k \in {"metadata", "manifest"} |->
  IF k = "metadata" THEN ScaffoldMetadata ELSE ScaffoldManifest]

\* Each batch has an id and a time.
Golden ==
  Table(GoldenSources, {}, BatchTools, {"metadata", "manifest"}, Ready \cup StrictComparison,
        GoldenSources)

-----------------------------------------------------------------------------
(* The contract of exactness, for a feature that claims to be exact.        *)

Exactness ==
  [Table(GoldenSources \cup {"features"}, {}, "matrix" :> UpdateDocs @@ BatchTools,
         {"metadata", "manifest"}, ExactnessContract, GoldenSources \cup {"features"})
     EXCEPT !.reads = @ \cup {"metadata", "manifest"}]

ExactnessTables == [exactness |-> Exactness]

\* The batch under an exact feature cross-links exactly: the manifest, the metadata,
\* the decks and the pictures are those whose digests they record.  The documents
\* say so; the gate does not compare them.
ExactCrossLinks ==
  \A call \in GateCalls : Accepts(call) =>
    \A k \in {"metadata", "manifest"} : \A r \in T.records[k] :
      shelf[k][call[k]][r] = call[r]
=============================================================================
