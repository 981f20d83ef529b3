---------------------------- MODULE MCPresentation ----------------------------
(***************************************************************************)
(* The beginning and the end of the way of a presentation: "slide", the    *)
(* parser of a slide; and two instances of the enhancer of the document:   *)
(* "slots", more tasks than slots, one id, cancellation and liveness, and  *)
(* "patch", three elements that may share an id, in every document, one    *)
(* slot.  A behaviour is about one of the three.                           *)
(***************************************************************************)
EXTENDS MCSlideParser

CONSTANTS
  SlotsN, SlotsConcurrent, SlotsIds,
  PatchN, PatchConcurrent, PatchIds,
  NoId

VARIABLES
  which,
  placeholder, handled, document, original, pc, cancelled, task, result, free, waiters,
  granted, closed

slideVars == <<path, last, on, stack, kept, stored, pushed, lost>>
enhancerVars == <<placeholder, handled, document, original, pc, cancelled, task, result, free,
                  waiters, granted, closed>>

Slots == INSTANCE Enhancer WITH
  N <- SlotsN, MaxConcurrent <- SlotsConcurrent, Ids <- SlotsIds
Patch == INSTANCE Enhancer WITH
  N <- PatchN, MaxConcurrent <- PatchConcurrent, Ids <- PatchIds

ASSUME PresentationAssumption == Slots!EnhancerAssumption /\ Patch!EnhancerAssumption

NoDocument ==
  /\ placeholder = <<>> /\ handled = {} /\ document = <<>> /\ original = <<>>
  /\ pc = "none" /\ cancelled = FALSE /\ task = <<>> /\ result = <<>>
  /\ free = 0 /\ waiters = <<>> /\ granted = {} /\ closed = FALSE

MCInit ==
  /\ Init
  /\ \/ which = "slide" /\ NoDocument
     \/ which = "slots" /\ Slots!Init
     \/ which = "patch" /\ Patch!Init

MCNext ==
  /\ UNCHANGED which
  /\ \/ which = "slide" /\ Next /\ UNCHANGED enhancerVars
     \/ which = "slots" /\ Slots!Next /\ UNCHANGED slideVars
     \/ which = "patch" /\ Patch!Next /\ UNCHANGED slideVars

(* The fairness of Enhancer, of the behaviours that liveness is checked in.  *)
MCFairness ==
  /\ WF_enhancerVars(which = "slots" /\ Slots!Gather)
  /\ \A e \in 1..SlotsN : /\ WF_enhancerVars(which = "slots" /\ Slots!Task(e))
                          /\ WF_enhancerVars(which = "slots" /\ Slots!Expire(e))

MCSpec == MCInit /\ [][MCNext]_<<which, slideVars, enhancerVars>> /\ MCFairness

-----------------------------------------------------------------------------
(* Every slot is free, granted or in use, however tasks end.                *)
SlotsConserved ==
  /\ which = "slots" => Slots!SlotsAreConserved
  /\ which = "patch" => Patch!SlotsAreConserved

(* When the provider is closed, a call of it is under way only if it was    *)
(* told to end by a cancellation of the whole call.                         *)
ProviderOutlives ==
  /\ which = "slots" => Slots!ProviderOutlivesCalls
  /\ which = "patch" => Patch!ProviderOutlivesCalls

(* A placeholder is replaced by a fragment of its own, or it is left as it  *)
(* was: see the two conjuncts.                                              *)
PatchedInPlace ==
  /\ which = "slots" => Slots!FailedIsPreserved /\ Slots!CleanIsReplaced
  /\ which = "patch" => Patch!FailedIsPreserved /\ Patch!CleanIsReplaced

(* The call ends, unless the provider keeps a call that was told to end, or *)
(* its close() does not return.                                             *)
EndsOfSlots == which = "slots" => Slots!EndsUnlessHeld
=============================================================================
