------------------------------ MODULE MCHarness ------------------------------
(***************************************************************************)
(* What the harness does to files that others use too, besides publishing: *)
(* the capture of a candidate (CandidateCapture) and of its units in a     *)
(* browser (UnitCapture), the scan of files that may change (StableScan)   *)
(* and the removal of a workspace (OwnedRemoval).  A behaviour is about    *)
(* one of these, or of the publishers.                                     *)
(***************************************************************************)
EXTENDS MCPublish, FiniteSets

CONSTANTS Sources, MaxEdits, MaxChanges, MaxMoves, LastUnit

(* The corpus lists its sources, and a document has a unit.                 *)
ASSUME HarnessAssumption == IsFiniteSet(Sources) /\ LastUnit \in Nat \ {0}

VARIABLES
  part,
  cportable, ctoken, cdenied, cdisk, cedits, cloaded, ctools, ccopies, csealed, ctodo, cseen,
  cstaged, cmade, csecured, cmanifest, cresult,
  ukind, udoc, uhidden, uactive, urequests, ufailures, ucrashed, upc, uunit, ucaptured,
  uresult,
  nkind, nentries, ntouched, nversion, nchanges, nmoments, nround, nlisting, nstack, nnow,
  nrecords, nnoted, nbefore, nresult,
  rat, rmoves, rlevel, rpc, rexpected, rremoval

candidateVars ==
  <<cportable, ctoken, cdenied, cdisk, cedits, cloaded, ctools, ccopies, csealed, ctodo, cseen,
    cstaged, cmade, csecured, cmanifest, cresult>>
unitVars ==
  <<ukind, udoc, uhidden, uactive, urequests, ufailures, ucrashed, upc, uunit, ucaptured,
    uresult>>
scanVars ==
  <<nkind, nentries, ntouched, nversion, nchanges, nmoments, nround, nlisting, nstack, nnow,
    nrecords, nnoted, nbefore, nresult>>
removalVars == <<rat, rmoves, rlevel, rpc, rexpected, rremoval>>

Candidate == INSTANCE CandidateCapture WITH
  portable <- cportable, token <- ctoken, denied <- cdenied, disk <- cdisk, edits <- cedits,
  loaded <- cloaded, tools <- ctools, copies <- ccopies, sealed <- csealed, todo <- ctodo,
  seen <- cseen, staged <- cstaged, made <- cmade, secured <- csecured,
  manifest <- cmanifest, result <- cresult

Pictures == INSTANCE UnitCapture WITH
  kind <- ukind, doc <- udoc, hidden <- uhidden, active <- uactive, requests <- urequests,
  failures <- ufailures, crashed <- ucrashed, pc <- upc, unit <- uunit,
  captured <- ucaptured, result <- uresult

Scan == INSTANCE StableScan WITH
  kind <- nkind, entries <- nentries, touched <- ntouched, version <- nversion,
  changes <- nchanges, moments <- nmoments, round <- nround, listing <- nlisting,
  stack <- nstack, now <- nnow, records <- nrecords, noted <- nnoted, before <- nbefore,
  result <- nresult

Removal == INSTANCE OwnedRemoval WITH
  at <- rat, moves <- rmoves, level <- rlevel, pc <- rpc, expected <- rexpected,
  removal <- rremoval

\* The part that a behaviour is not about has one initial state.
\* Of the readers that cannot tell, nothing is said by ScanIsTrue: they are left out.
HarnessInit ==
  /\ part \in {"publish", "candidate", "units", "scan", "removal"}
  /\ Init
  /\ part # "publish" => which = "tree"
  /\ Candidate!Init
  /\ part # "candidate" => cportable = FALSE /\ ctoken = Candidate!Unset
  /\ Pictures!Init
  /\ part # "units" =>
       /\ ukind = "units"
       /\ udoc = [own |-> 1..LastUnit, impostor |-> 0, nested |-> FALSE, sound |-> TRUE,
                  links |-> FALSE, scripts |-> FALSE]
  /\ Scan!Init
  /\ part # "scan" => nkind = [reader |-> "ready", shows |-> TRUE, returns |-> FALSE]
  /\ part = "scan" => Scan!Telling
  /\ Removal!Init

HarnessNext ==
  /\ UNCHANGED part
  /\ \/ part = "publish" /\ Next
        /\ UNCHANGED <<candidateVars, unitVars, scanVars, removalVars>>
     \/ part = "candidate" /\ Candidate!Next
        /\ UNCHANGED <<vars, unitVars, scanVars, removalVars>>
     \/ part = "units" /\ Pictures!Next
        /\ UNCHANGED <<vars, candidateVars, scanVars, removalVars>>
     \/ part = "scan" /\ Scan!Next
        /\ UNCHANGED <<vars, candidateVars, unitVars, removalVars>>
     \/ part = "removal" /\ Removal!Next
        /\ UNCHANGED <<vars, candidateVars, unitVars, scanVars>>

HarnessSpec ==
  HarnessInit
    /\ [][HarnessNext]_<<part, vars, candidateVars, unitVars, scanVars, removalVars>>

-----------------------------------------------------------------------------
(* What a READY manifest of a candidate rests on is what was attested,      *)
(* whatever was replaced in the meantime: see CandidateCapture.             *)
AsAttested == Candidate!AsAttested

(* The pictures and inventories of a candidate are those of its units: see  *)
(* UnitCapture.                                                             *)
PicturesAreTrue == Pictures!PicturesAreTrue

(* What a scan that succeeded has recorded was there: see StableScan.       *)
ScanIsTrue == Scan!ScanIsTrue

(* Only what is owned is removed: see OwnedRemoval.                         *)
OwnedOnly == Removal!OwnedOnly
=============================================================================
