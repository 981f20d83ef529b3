------------------------------ MODULE MCCapture ------------------------------
(***************************************************************************)
(* The capture of references: one run of a converter (CandidateProcess) or *)
(* a campaign of them (NativeUnits), which takes from CandidateProcess     *)
(* that a run ends.  One of the two is checked in each behaviour.          *)
(***************************************************************************)
EXTENDS CandidateProcess

CONSTANTS Campaigns, Workers, Plans

VARIABLES which, plan, world, manifest, camp, at, obs, cache, lock

nativeVars == <<plan, world, manifest, camp, at, obs, cache, lock>>
bothVars == <<which, vars, nativeVars>>

Native == INSTANCE NativeUnits

ASSUME PlansAssumption == Native!PlansAssumption

\* Three set-ups of campaigns: one alone, with two edits of three kinds of file ...
Alone ==
  [pool |-> <<"doc", "pdf", "ppt", "xls">>, pdf |-> {"pdf"},
   running |-> {"first"}, cached |-> {"first"},
   after |-> [c \in Campaigns |-> {}],
   edited |-> {"doc", "fonts", "libreoffice"}, edits |-> 2, deaths |-> 0,
   counts |-> {1, 2}]

\* ... two at a time that share a cache, of which one may die ...
AtOnce ==
  [pool |-> <<"doc", "ppt">>, pdf |-> {},
   running |-> {"first", "second"}, cached |-> {"first", "second"},
   after |-> [c \in Campaigns |-> {}],
   edited |-> {"ppt"}, edits |-> 1, deaths |-> 1, counts |-> {1}]

\* ... and one after the other, when the pool may have been collected again.
Again ==
  [AtOnce EXCEPT !.after = [c \in Campaigns |-> {"first"} \ {c}],
                 !.edited = {"ppt", "pdfinfo", "manifests"}, !.edits = 2, !.deaths = 0]

AllPlans == {Alone, AtOnce, Again}

BothInit ==
  /\ which \in {"run", "campaign"}
  /\ Init
  /\ Native!Init
  /\ which = "run" => plan.after = Alone.after /\ plan.deaths = 1

\* Bound: only stdout is written beyond the limit; the readers run the same code.
RunNext ==
  /\ which = "run" /\ Next /\ UNCHANGED <<which, nativeVars>>
  /\ written'["stderr"] <= MaxLogBytes
CampaignNext == which = "campaign" /\ Native!Next /\ UNCHANGED <<which, vars>>
BothNext == RunNext \/ CampaignNext

BothSpec ==
  /\ BothInit /\ [][BothNext]_bothVars
  /\ WF_bothVars(which = "run" /\ Main /\ UNCHANGED <<which, nativeVars>>)
  /\ WF_bothVars(which = "campaign" /\ (\E c \in Campaigns : Native!Step(c))
                   /\ UNCHANGED <<which, vars>>)

-----------------------------------------------------------------------------
(* What a published inventory says was observed: see NativeUnits.           *)
InventoryIsTrue == Native!InventoryIsTrue

(* An entry of the cache is an observation of what its key names.           *)
CacheIsTrue == Native!CacheIsTrue

(* No process runs from a copy of a tool that was removed.                  *)
PoolOutlivesRuns == Native!PoolOutlivesRuns

(* Every campaign ends.                                                     *)
CampaignsEnd == which = "campaign" => Native!CampaignsEnd

(* Every run of a converter returns, even when a process that escaped keeps *)
(* a pipe open.                                                             *)
RunReturns == which = "run" => Returns
=============================================================================
