--------------------------- MODULE PresentationProofs ---------------------------
(* What EnhancerProofs proves of an enhancer, of the two in the run.         *)
EXTENDS MCPresentation, TLAPS

SlotsTheorems == INSTANCE EnhancerProofs WITH
  N <- SlotsN, MaxConcurrent <- SlotsConcurrent, Ids <- SlotsIds
PatchTheorems == INSTANCE EnhancerProofs WITH
  N <- PatchN, MaxConcurrent <- PatchConcurrent, Ids <- PatchIds

(* A behaviour of the run is about one of its parts from the beginning.      *)
SlotsInv == which = "slots" => SlotsTheorems!CallInv
PatchInv == which = "patch" => PatchTheorems!CallInv

LEMMA SlotsCardinality == \A S : Slots!Cardinality(S) = SlotsTheorems!Cardinality(S)
BY DEF Slots!Cardinality, SlotsTheorems!Cardinality

LEMMA SlotsFinite == \A S : Slots!IsFiniteSet(S) <=> SlotsTheorems!IsFiniteSet(S)
BY DEF Slots!IsFiniteSet, SlotsTheorems!IsFiniteSet

(* The operators of Slots are those that the theorems have.                  *)
LEMMA SlotsPatched == Slots!Patched = SlotsTheorems!Patched
BY DEF
  Slots!Patched, SlotsTheorems!Patched, Slots!IsFirst, SlotsTheorems!IsFirst,
  Slots!Replace, SlotsTheorems!Replace, Slots!Shown, SlotsTheorems!Shown, Slots!Sharing,
  SlotsTheorems!Sharing, Slots!Succeeded, SlotsTheorems!Succeeded, Slots!Elements,
  SlotsTheorems!Elements, Slots!Found, SlotsTheorems!Found, Slots!After,
  SlotsTheorems!After, Slots!Wrapper, SlotsTheorems!Wrapper, Slots!Fragment,
  SlotsTheorems!Fragment, Slots!Min, SlotsTheorems!Min, Slots!Max, SlotsTheorems!Max

LEMMA SlotsInit == Slots!Init => SlotsTheorems!Init
<1>1. Slots!Documents = SlotsTheorems!Documents
  BY SlotsCardinality DEF
    Slots!Documents, SlotsTheorems!Documents, Slots!SetToSeqs, SlotsTheorems!SetToSeqs,
    Slots!Placeholder, SlotsTheorems!Placeholder
<1>. QED
  BY <1>1 DEF
    Slots!Init, SlotsTheorems!Init, Slots!Elements, SlotsTheorems!Elements

(* A step of Slots is the same step under the name that the theorems have.   *)
LEMMA SlotsStep == [Slots!Next]_(Slots!vars) => [SlotsTheorems!Next]_(SlotsTheorems!vars)
<1>. SUFFICES ASSUME [Slots!Next]_(Slots!vars)
              PROVE  [SlotsTheorems!Next]_(SlotsTheorems!vars)
  OBVIOUS
<1>1. Slots!Elements = SlotsTheorems!Elements
  BY DEF Slots!Elements, SlotsTheorems!Elements
<1>2. /\ \A S : Slots!Min(S) = SlotsTheorems!Min(S)
      /\ \A s : Slots!ToSet(s) = SlotsTheorems!ToSet(s)
      /\ \A S : Slots!Cardinality(S) = SlotsTheorems!Cardinality(S)
  BY SlotsCardinality DEF Slots!Min, SlotsTheorems!Min, Slots!ToSet, SlotsTheorems!ToSet
<1>3. \A e : Slots!Without(e) = SlotsTheorems!Without(e)
  BY DEF Slots!Without, SlotsTheorems!Without, Slots!RemoveAt, SlotsTheorems!RemoveAt
<1>. HIDE DEF Slots!Min, SlotsTheorems!Min, Slots!ToSet, SlotsTheorems!ToSet,
      Slots!Cardinality, SlotsTheorems!Cardinality
<1>4. ASSUME NEW e \in Slots!Elements, Slots!NoHandler(e)
      PROVE  SlotsTheorems!NoHandler(e)
  BY <1>4 DEF
    Slots!NoHandler, SlotsTheorems!NoHandler, Slots!Finish, SlotsTheorems!Finish,
    Slots!inputVars, SlotsTheorems!inputVars, Slots!slotVars, SlotsTheorems!slotVars,
    Slots!mainVars, SlotsTheorems!mainVars
<1>5. ASSUME NEW e \in Slots!Elements, Slots!Wait(e)
      PROVE  SlotsTheorems!Wait(e)
  BY <1>5 DEF
    Slots!Wait, SlotsTheorems!Wait, Slots!Locked, SlotsTheorems!Locked, Slots!inputVars,
    SlotsTheorems!inputVars, Slots!mainVars, SlotsTheorems!mainVars
<1>6. ASSUME NEW e \in Slots!Elements, Slots!CallProvider(e)
      PROVE  SlotsTheorems!CallProvider(e)
  BY <1>6, <1>2, <1>3 DEF
    Slots!CallProvider, SlotsTheorems!CallProvider, Slots!FindsFree,
    SlotsTheorems!FindsFree, Slots!WasGranted, SlotsTheorems!WasGranted, Slots!Locked,
    SlotsTheorems!Locked, Slots!WakeUp, Slots!Others, SlotsTheorems!Others,
    SlotsTheorems!WakeUp, Slots!inputVars, SlotsTheorems!inputVars, Slots!mainVars,
    SlotsTheorems!mainVars
<1>7. ASSUME NEW e \in Slots!Elements, Slots!ConvertByRule(e)
      PROVE  SlotsTheorems!ConvertByRule(e)
  BY <1>7, <1>2, <1>3 DEF
    Slots!ConvertByRule, SlotsTheorems!ConvertByRule, Slots!Finish, SlotsTheorems!Finish,
    Slots!Results, SlotsTheorems!Results, Slots!Fragment, SlotsTheorems!Fragment,
    Slots!FindsFree, SlotsTheorems!FindsFree, Slots!WasGranted, SlotsTheorems!WasGranted,
    Slots!Locked, SlotsTheorems!Locked, Slots!WakeUp, Slots!Others, SlotsTheorems!Others,
    SlotsTheorems!WakeUp, Slots!inputVars, SlotsTheorems!inputVars, Slots!slotVars,
    SlotsTheorems!slotVars, Slots!mainVars, SlotsTheorems!mainVars
<1>8. ASSUME NEW e \in Slots!Elements, Slots!Resume(e)
      PROVE  SlotsTheorems!Resume(e)
  BY <1>8, <1>2, <1>3 DEF
    Slots!Resume, SlotsTheorems!Resume, Slots!Finish, SlotsTheorems!Finish, Slots!Release,
    SlotsTheorems!Release, Slots!WakeUp, Slots!Others, SlotsTheorems!Others,
    SlotsTheorems!WakeUp, Slots!inputVars, SlotsTheorems!inputVars, Slots!mainVars,
    SlotsTheorems!mainVars
<1>9. ASSUME NEW e \in Slots!Elements, Slots!Abandon(e)
      PROVE  SlotsTheorems!Abandon(e)
  BY <1>9, <1>2, <1>3 DEF
    Slots!Abandon, SlotsTheorems!Abandon, Slots!Drop, SlotsTheorems!Drop, Slots!WakeUp,
    Slots!Others, SlotsTheorems!Others, SlotsTheorems!WakeUp, Slots!inputVars,
    SlotsTheorems!inputVars, Slots!slotVars, SlotsTheorems!slotVars, Slots!mainVars,
    SlotsTheorems!mainVars
<1>10. ASSUME NEW e \in Slots!Elements, Slots!Answer(e)
      PROVE  SlotsTheorems!Answer(e)
  BY <1>10 DEF
    Slots!Answer, SlotsTheorems!Answer, Slots!Results, SlotsTheorems!Results,
    Slots!Fragment, SlotsTheorems!Fragment, Slots!inputVars, SlotsTheorems!inputVars,
    Slots!slotVars, SlotsTheorems!slotVars, Slots!mainVars, SlotsTheorems!mainVars
<1>11. ASSUME NEW e \in Slots!Elements, Slots!Expire(e)
      PROVE  SlotsTheorems!Expire(e)
  BY <1>11 DEF
    Slots!Expire, SlotsTheorems!Expire, Slots!inputVars, SlotsTheorems!inputVars,
    Slots!slotVars, SlotsTheorems!slotVars, Slots!mainVars, SlotsTheorems!mainVars
<1>12. ASSUME NEW e \in Slots!Elements, Slots!Unwind(e)
       PROVE  SlotsTheorems!Unwind(e)
  BY <1>12, <1>2, <1>3 DEF
    Slots!Unwind, SlotsTheorems!Unwind, Slots!Finish, SlotsTheorems!Finish, Slots!Drop,
    SlotsTheorems!Drop, Slots!Results, SlotsTheorems!Results, Slots!Fragment,
    SlotsTheorems!Fragment, Slots!Release, SlotsTheorems!Release, Slots!WakeUp,
    SlotsTheorems!WakeUp, Slots!Others, SlotsTheorems!Others, Slots!inputVars,
    SlotsTheorems!inputVars, Slots!mainVars, SlotsTheorems!mainVars
<1>13. CASE Slots!Gather
  <2>1. SlotsTheorems!Gather
    BY <1>13, SlotsPatched DEF
      Slots!Gather, SlotsTheorems!Gather, Slots!AllOver, SlotsTheorems!AllOver,
      Slots!Elements, SlotsTheorems!Elements, Slots!inputVars, SlotsTheorems!inputVars,
      Slots!slotVars, SlotsTheorems!slotVars
  <2>. QED  BY <2>1 DEF SlotsTheorems!Next
<1>14. CASE Slots!Cancel \/ Slots!Close
  BY <1>1, <1>14 DEF
    Slots!Cancel, SlotsTheorems!Cancel, Slots!Close, SlotsTheorems!Close,
    Slots!inputVars, SlotsTheorems!inputVars, Slots!slotVars, SlotsTheorems!slotVars,
    SlotsTheorems!Next
<1>15. CASE UNCHANGED Slots!vars
  BY <1>15 DEF
    Slots!vars, SlotsTheorems!vars, Slots!inputVars, SlotsTheorems!inputVars,
    Slots!slotVars, SlotsTheorems!slotVars, Slots!mainVars, SlotsTheorems!mainVars
<1>. QED
  BY <1>1, <1>2, <1>3, <1>4, <1>5, <1>6, <1>7, <1>8, <1>9, <1>10, <1>11, <1>12, <1>13, <1>14,
     <1>15
     DEF Slots!Next, Slots!Task, SlotsTheorems!Task,
         SlotsTheorems!Next

LEMMA SlotsInvariant == MCSpec => []SlotsInv
<1>1. SlotsTheorems!EnhancerAssumption
  BY PresentationAssumption, SlotsFinite
     DEF Slots!EnhancerAssumption, SlotsTheorems!EnhancerAssumption
<1>2. MCInit => SlotsInv
  BY <1>1, SlotsInit, SlotsTheorems!CallInvInit DEF MCInit, SlotsInv
<1>3. SlotsInv /\ [MCNext]_<<which, slideVars, enhancerVars>> => SlotsInv'
  <2>. SUFFICES ASSUME SlotsInv, [MCNext]_<<which, slideVars, enhancerVars>>, which' = "slots"
                PROVE  SlotsTheorems!CallInv'
    BY DEF SlotsInv
  <2>1. which = "slots" /\ SlotsTheorems!CallInv
    BY DEF SlotsInv, MCNext
  <2>2. [Slots!Next]_(Slots!vars)
    BY <2>1 DEF MCNext, enhancerVars, Slots!vars, Slots!inputVars, Slots!slotVars,
        Slots!mainVars
  <2>. QED  BY <1>1, <2>1, <2>2, SlotsStep, SlotsTheorems!CallInvStep
<1>. QED  BY <1>2, <1>3, PTL DEF MCSpec

LEMMA PatchCardinality == \A S : Patch!Cardinality(S) = PatchTheorems!Cardinality(S)
BY DEF Patch!Cardinality, PatchTheorems!Cardinality

LEMMA PatchFinite == \A S : Patch!IsFiniteSet(S) <=> PatchTheorems!IsFiniteSet(S)
BY DEF Patch!IsFiniteSet, PatchTheorems!IsFiniteSet

(* The operators of Patch are those that the theorems have.                  *)
LEMMA PatchPatched == Patch!Patched = PatchTheorems!Patched
BY DEF
  Patch!Patched, PatchTheorems!Patched, Patch!IsFirst, PatchTheorems!IsFirst,
  Patch!Replace, PatchTheorems!Replace, Patch!Shown, PatchTheorems!Shown, Patch!Sharing,
  PatchTheorems!Sharing, Patch!Succeeded, PatchTheorems!Succeeded, Patch!Elements,
  PatchTheorems!Elements, Patch!Found, PatchTheorems!Found, Patch!After,
  PatchTheorems!After, Patch!Wrapper, PatchTheorems!Wrapper, Patch!Fragment,
  PatchTheorems!Fragment, Patch!Min, PatchTheorems!Min, Patch!Max, PatchTheorems!Max

LEMMA PatchInit == Patch!Init => PatchTheorems!Init
<1>1. Patch!Documents = PatchTheorems!Documents
  BY PatchCardinality DEF
    Patch!Documents, PatchTheorems!Documents, Patch!SetToSeqs, PatchTheorems!SetToSeqs,
    Patch!Placeholder, PatchTheorems!Placeholder
<1>. QED
  BY <1>1 DEF
    Patch!Init, PatchTheorems!Init, Patch!Elements, PatchTheorems!Elements

(* A step of Patch is the same step under the name that the theorems have.   *)
LEMMA PatchStep == [Patch!Next]_(Patch!vars) => [PatchTheorems!Next]_(PatchTheorems!vars)
<1>. SUFFICES ASSUME [Patch!Next]_(Patch!vars)
              PROVE  [PatchTheorems!Next]_(PatchTheorems!vars)
  OBVIOUS
<1>1. Patch!Elements = PatchTheorems!Elements
  BY DEF Patch!Elements, PatchTheorems!Elements
<1>2. /\ \A S : Patch!Min(S) = PatchTheorems!Min(S)
      /\ \A s : Patch!ToSet(s) = PatchTheorems!ToSet(s)
      /\ \A S : Patch!Cardinality(S) = PatchTheorems!Cardinality(S)
  BY PatchCardinality DEF Patch!Min, PatchTheorems!Min, Patch!ToSet, PatchTheorems!ToSet
<1>3. \A e : Patch!Without(e) = PatchTheorems!Without(e)
  BY DEF Patch!Without, PatchTheorems!Without, Patch!RemoveAt, PatchTheorems!RemoveAt
<1>. HIDE DEF Patch!Min, PatchTheorems!Min, Patch!ToSet, PatchTheorems!ToSet,
      Patch!Cardinality, PatchTheorems!Cardinality
<1>4. ASSUME NEW e \in Patch!Elements, Patch!NoHandler(e)
      PROVE  PatchTheorems!NoHandler(e)
  BY <1>4 DEF
    Patch!NoHandler, PatchTheorems!NoHandler, Patch!Finish, PatchTheorems!Finish,
    Patch!inputVars, PatchTheorems!inputVars, Patch!slotVars, PatchTheorems!slotVars,
    Patch!mainVars, PatchTheorems!mainVars
<1>5. ASSUME NEW e \in Patch!Elements, Patch!Wait(e)
      PROVE  PatchTheorems!Wait(e)
  BY <1>5 DEF
    Patch!Wait, PatchTheorems!Wait, Patch!Locked, PatchTheorems!Locked, Patch!inputVars,
    PatchTheorems!inputVars, Patch!mainVars, PatchTheorems!mainVars
<1>6. ASSUME NEW e \in Patch!Elements, Patch!CallProvider(e)
      PROVE  PatchTheorems!CallProvider(e)
  BY <1>6, <1>2, <1>3 DEF
    Patch!CallProvider, PatchTheorems!CallProvider, Patch!FindsFree,
    PatchTheorems!FindsFree, Patch!WasGranted, PatchTheorems!WasGranted, Patch!Locked,
    PatchTheorems!Locked, Patch!WakeUp, Patch!Others, PatchTheorems!Others,
    PatchTheorems!WakeUp, Patch!inputVars, PatchTheorems!inputVars, Patch!mainVars,
    PatchTheorems!mainVars
<1>7. ASSUME NEW e \in Patch!Elements, Patch!ConvertByRule(e)
      PROVE  PatchTheorems!ConvertByRule(e)
  BY <1>7, <1>2, <1>3 DEF
    Patch!ConvertByRule, PatchTheorems!ConvertByRule, Patch!Finish, PatchTheorems!Finish,
    Patch!Results, PatchTheorems!Results, Patch!Fragment, PatchTheorems!Fragment,
    Patch!FindsFree, PatchTheorems!FindsFree, Patch!WasGranted, PatchTheorems!WasGranted,
    Patch!Locked, PatchTheorems!Locked, Patch!WakeUp, Patch!Others, PatchTheorems!Others,
    PatchTheorems!WakeUp, Patch!inputVars, PatchTheorems!inputVars, Patch!slotVars,
    PatchTheorems!slotVars, Patch!mainVars, PatchTheorems!mainVars
<1>8. ASSUME NEW e \in Patch!Elements, Patch!Resume(e)
      PROVE  PatchTheorems!Resume(e)
  BY <1>8, <1>2, <1>3 DEF
    Patch!Resume, PatchTheorems!Resume, Patch!Finish, PatchTheorems!Finish, Patch!Release,
    PatchTheorems!Release, Patch!WakeUp, Patch!Others, PatchTheorems!Others,
    PatchTheorems!WakeUp, Patch!inputVars, PatchTheorems!inputVars, Patch!mainVars,
    PatchTheorems!mainVars
<1>9. ASSUME NEW e \in Patch!Elements, Patch!Abandon(e)
      PROVE  PatchTheorems!Abandon(e)
  BY <1>9, <1>2, <1>3 DEF
    Patch!Abandon, PatchTheorems!Abandon, Patch!Drop, PatchTheorems!Drop, Patch!WakeUp,
    Patch!Others, PatchTheorems!Others, PatchTheorems!WakeUp, Patch!inputVars,
    PatchTheorems!inputVars, Patch!slotVars, PatchTheorems!slotVars, Patch!mainVars,
    PatchTheorems!mainVars
<1>10. ASSUME NEW e \in Patch!Elements, Patch!Answer(e)
      PROVE  PatchTheorems!Answer(e)
  BY <1>10 DEF
    Patch!Answer, PatchTheorems!Answer, Patch!Results, PatchTheorems!Results,
    Patch!Fragment, PatchTheorems!Fragment, Patch!inputVars, PatchTheorems!inputVars,
    Patch!slotVars, PatchTheorems!slotVars, Patch!mainVars, PatchTheorems!mainVars
<1>11. ASSUME NEW e \in Patch!Elements, Patch!Expire(e)
      PROVE  PatchTheorems!Expire(e)
  BY <1>11 DEF
    Patch!Expire, PatchTheorems!Expire, Patch!inputVars, PatchTheorems!inputVars,
    Patch!slotVars, PatchTheorems!slotVars, Patch!mainVars, PatchTheorems!mainVars
<1>12. ASSUME NEW e \in Patch!Elements, Patch!Unwind(e)
       PROVE  PatchTheorems!Unwind(e)
  BY <1>12, <1>2, <1>3 DEF
    Patch!Unwind, PatchTheorems!Unwind, Patch!Finish, PatchTheorems!Finish, Patch!Drop,
    PatchTheorems!Drop, Patch!Results, PatchTheorems!Results, Patch!Fragment,
    PatchTheorems!Fragment, Patch!Release, PatchTheorems!Release, Patch!WakeUp,
    PatchTheorems!WakeUp, Patch!Others, PatchTheorems!Others, Patch!inputVars,
    PatchTheorems!inputVars, Patch!mainVars, PatchTheorems!mainVars
<1>13. CASE Patch!Gather
  <2>1. PatchTheorems!Gather
    BY <1>13, PatchPatched DEF
      Patch!Gather, PatchTheorems!Gather, Patch!AllOver, PatchTheorems!AllOver,
      Patch!Elements, PatchTheorems!Elements, Patch!inputVars, PatchTheorems!inputVars,
      Patch!slotVars, PatchTheorems!slotVars
  <2>. QED  BY <2>1 DEF PatchTheorems!Next
<1>14. CASE Patch!Cancel \/ Patch!Close
  BY <1>1, <1>14 DEF
    Patch!Cancel, PatchTheorems!Cancel, Patch!Close, PatchTheorems!Close,
    Patch!inputVars, PatchTheorems!inputVars, Patch!slotVars, PatchTheorems!slotVars,
    PatchTheorems!Next
<1>15. CASE UNCHANGED Patch!vars
  BY <1>15 DEF
    Patch!vars, PatchTheorems!vars, Patch!inputVars, PatchTheorems!inputVars,
    Patch!slotVars, PatchTheorems!slotVars, Patch!mainVars, PatchTheorems!mainVars
<1>. QED
  BY <1>1, <1>2, <1>3, <1>4, <1>5, <1>6, <1>7, <1>8, <1>9, <1>10, <1>11, <1>12, <1>13, <1>14,
     <1>15
     DEF Patch!Next, Patch!Task, PatchTheorems!Task,
         PatchTheorems!Next

LEMMA PatchInvariant == MCSpec => []PatchInv
<1>1. PatchTheorems!EnhancerAssumption
  BY PresentationAssumption, PatchFinite
     DEF Patch!EnhancerAssumption, PatchTheorems!EnhancerAssumption
<1>2. MCInit => PatchInv
  BY <1>1, PatchInit, PatchTheorems!CallInvInit DEF MCInit, PatchInv
<1>3. PatchInv /\ [MCNext]_<<which, slideVars, enhancerVars>> => PatchInv'
  <2>. SUFFICES ASSUME PatchInv, [MCNext]_<<which, slideVars, enhancerVars>>, which' = "patch"
                PROVE  PatchTheorems!CallInv'
    BY DEF PatchInv
  <2>1. which = "patch" /\ PatchTheorems!CallInv
    BY DEF PatchInv, MCNext
  <2>2. [Patch!Next]_(Patch!vars)
    BY <2>1 DEF MCNext, enhancerVars, Patch!vars, Patch!inputVars, Patch!slotVars,
        Patch!mainVars
  <2>. QED  BY <1>1, <2>1, <2>2, PatchStep, PatchTheorems!CallInvStep
<1>. QED  BY <1>2, <1>3, PTL DEF MCSpec

-----------------------------------------------------------------------------
(* No slot of the semaphore is lost and none is given twice, however tasks  *)
(* end.                                                                     *)
THEOREM SlotsStay == MCSpec => []SlotsConserved
<1>1. SlotsInv => (which = "slots" => Slots!SlotsAreConserved)
  <2>1. Slots!HasSlot = SlotsTheorems!HasSlot
    BY DEF Slots!HasSlot, SlotsTheorems!HasSlot, Slots!Elements, SlotsTheorems!Elements
  <2>. QED
    BY <2>1, SlotsCardinality
       DEF SlotsInv, SlotsTheorems!CallInv, SlotsTheorems!Inv, SlotsTheorems!SlotInv,
           Slots!SlotsAreConserved,
           SlotsTheorems!SlotsAreConserved
<1>2. PatchInv => (which = "patch" => Patch!SlotsAreConserved)
  <2>1. Patch!HasSlot = PatchTheorems!HasSlot
    BY DEF Patch!HasSlot, PatchTheorems!HasSlot, Patch!Elements, PatchTheorems!Elements
  <2>. QED
    BY <2>1, PatchCardinality
       DEF PatchInv, PatchTheorems!CallInv, PatchTheorems!Inv, PatchTheorems!SlotInv,
           Patch!SlotsAreConserved,
           PatchTheorems!SlotsAreConserved
<1>3. SlotsInv /\ PatchInv => SlotsConserved
  BY <1>1, <1>2 DEF SlotsConserved
<1>. QED  BY <1>3, SlotsInvariant, PatchInvariant, PTL

(* When the provider is closed, a call of it is under way only if the whole *)
(* call was cancelled and the provider has been told to end it.             *)
THEOREM ProviderStays == MCSpec => []ProviderOutlives
<1>1. SlotsInv /\ PatchInv => ProviderOutlives
  BY SlotsTheorems!Outlives, PatchTheorems!Outlives
     DEF SlotsInv, PatchInv, SlotsTheorems!CallInv, PatchTheorems!CallInv, ProviderOutlives,
         Slots!ProviderOutlivesCalls, SlotsTheorems!ProviderOutlivesCalls,
         Slots!HasSlot, SlotsTheorems!HasSlot, Slots!Elements, SlotsTheorems!Elements,
         Patch!ProviderOutlivesCalls, PatchTheorems!ProviderOutlivesCalls,
         Patch!HasSlot, PatchTheorems!HasSlot, Patch!Elements, PatchTheorems!Elements
<1>. QED  BY <1>1, SlotsInvariant, PatchInvariant, PTL

(* A placeholder is replaced by a fragment of its own, or it is left as it  *)
(* was, for all documents and whatever the fragments carry.                 *)
THEOREM PatchedThere == MCSpec => []PatchedInPlace
<1>1. SlotsInv => (which = "slots" => Slots!FailedIsPreserved /\ Slots!CleanIsReplaced)
  <2>1. SlotsTheorems!FailedIsPreserved <=> Slots!FailedIsPreserved
    BY DEF
      Slots!FailedIsPreserved, SlotsTheorems!FailedIsPreserved, Slots!Returned,
      SlotsTheorems!Returned, Slots!Left, SlotsTheorems!Left, Slots!Sharing,
      SlotsTheorems!Sharing, Slots!Succeeded, SlotsTheorems!Succeeded, Slots!Elements,
      SlotsTheorems!Elements
  <2>2. SlotsTheorems!CleanIsReplaced <=> Slots!CleanIsReplaced
    BY DEF
      Slots!CleanIsReplaced, SlotsTheorems!CleanIsReplaced, Slots!Returned,
      SlotsTheorems!Returned, Slots!Clean, SlotsTheorems!Clean, Slots!Sharing,
      SlotsTheorems!Sharing, Slots!Succeeded, SlotsTheorems!Succeeded, Slots!Elements,
      SlotsTheorems!Elements, Slots!Max, SlotsTheorems!Max
  <2>. QED  BY <2>1, <2>2 DEF SlotsInv, SlotsTheorems!CallInv, SlotsTheorems!PatchInv
<1>2. PatchInv => (which = "patch" => Patch!FailedIsPreserved /\ Patch!CleanIsReplaced)
  <2>1. PatchTheorems!FailedIsPreserved <=> Patch!FailedIsPreserved
    BY DEF
      Patch!FailedIsPreserved, PatchTheorems!FailedIsPreserved, Patch!Returned,
      PatchTheorems!Returned, Patch!Left, PatchTheorems!Left, Patch!Sharing,
      PatchTheorems!Sharing, Patch!Succeeded, PatchTheorems!Succeeded, Patch!Elements,
      PatchTheorems!Elements
  <2>2. PatchTheorems!CleanIsReplaced <=> Patch!CleanIsReplaced
    BY DEF
      Patch!CleanIsReplaced, PatchTheorems!CleanIsReplaced, Patch!Returned,
      PatchTheorems!Returned, Patch!Clean, PatchTheorems!Clean, Patch!Sharing,
      PatchTheorems!Sharing, Patch!Succeeded, PatchTheorems!Succeeded, Patch!Elements,
      PatchTheorems!Elements, Patch!Max, PatchTheorems!Max
  <2>. QED  BY <2>1, <2>2 DEF PatchInv, PatchTheorems!CallInv, PatchTheorems!PatchInv
<1>3. SlotsInv /\ PatchInv => PatchedInPlace
  BY <1>1, <1>2 DEF PatchedInPlace
<1>. QED  BY <1>3, SlotsInvariant, PatchInvariant, PTL
=============================================================================
