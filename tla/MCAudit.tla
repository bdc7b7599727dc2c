------------------------------ MODULE MCAudit ------------------------------
(***************************************************************************)
(* Small instances of AuditChain and ProofBundles: two writers, a handful  *)
(* of events of two tasks.                                                 *)
(***************************************************************************)
EXTENDS ProofBundles

CONSTANTS w1, w2, admitted, refused, task1, task2
=============================================================================
