------------------------------ MODULE MCVideo ------------------------------
(***************************************************************************)
(* Small instances of VideoLifecycle: a submission and its retry.          *)
(***************************************************************************)
EXTENDS VideoLifecycle

CONSTANTS first, retry
=============================================================================
