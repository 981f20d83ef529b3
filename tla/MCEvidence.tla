------------------------------ MODULE MCEvidence ------------------------------
(***************************************************************************)
(* The chains that are checked: a behaviour is about one of them.          *)
(***************************************************************************)
EXTENDS OfficeEvidence, Corpora, Golden

EvidenceTables == [release |-> Release, office |-> Office, corpora |-> Corpora, golden |-> Golden]

ASSUME TableAssumption == Tables = EvidenceTables
===============================================================================
