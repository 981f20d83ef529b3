------------------------------ MODULE CreateOnly ------------------------------
(***************************************************************************)
(* What the publishers of the evaluation harness promise about one name    *)
(* that several processes want to create: atomic_publish (AtomicPublish),  *)
(* publish_snapshot (SnapshotPublish) and publish_created_file             *)
(* (FilePublish) implement this.                                           *)
(*                                                                         *)
(* A publication appears under a name that nobody has, whole; its          *)
(* publisher may withdraw it before the call ends, and nobody else ever    *)
(* does; a call that succeeds leaves it published for good, and a power    *)
(* failure cannot take it away.  A call that fails may have published all  *)
(* the same, and a power failure may bring back what had been withdrawn.   *)
(***************************************************************************)
CONSTANTS
  Publishers,
  Nobody

VARIABLES
  published,   (* whose publication the name has, or Nobody                *)
  recoverable, (* whose it may have after a power failure                  *)
  lost,        (* the power has failed                                     *)
  outcome      (* per publisher: "running", "ok" or "failed"               *)

vars == <<published, recoverable, lost, outcome>>

Init ==
  /\ published = Nobody
  /\ recoverable = {Nobody}
  /\ lost = FALSE
  /\ outcome = [p \in Publishers |-> "running"]

(* What the name may have on disk is what it has, and of what it might have *)
(* had before whatever no sync has settled.                                 *)
Recorded ==
  /\ published' \in recoverable'
  /\ recoverable' \subseteq recoverable \union {published'}
  /\ UNCHANGED lost

Appear(p) ==
  /\ ~lost
  /\ published = Nobody
  /\ outcome[p] = "running"
  /\ published' = p
  /\ Recorded
  /\ UNCHANGED outcome

Withdraw(p) ==
  /\ ~lost
  /\ published = p
  /\ outcome[p] = "running"
  /\ published' = Nobody
  /\ Recorded
  /\ UNCHANGED outcome

Settle ==
  /\ ~lost
  /\ Recorded
  /\ UNCHANGED <<published, outcome>>

(* A publisher says so when its publication can no longer be lost.          *)
Succeed(p) ==
  /\ ~lost
  /\ published = p
  /\ recoverable = {p}
  /\ outcome[p] = "running"
  /\ outcome' = [outcome EXCEPT ![p] = "ok"]
  /\ UNCHANGED <<published, recoverable, lost>>

Fail(p) ==
  /\ ~lost
  /\ outcome[p] = "running"
  /\ outcome' = [outcome EXCEPT ![p] = "failed"]
  /\ UNCHANGED <<published, recoverable, lost>>

PowerFails ==
  /\ ~lost
  /\ lost' = TRUE
  /\ published' \in recoverable
  /\ UNCHANGED <<recoverable, outcome>>

Next ==
  \/ Settle \/ PowerFails
  \/ \E p \in Publishers : Appear(p) \/ Withdraw(p) \/ Succeed(p) \/ Fail(p)

Spec == Init /\ [][Next]_vars
=============================================================================
