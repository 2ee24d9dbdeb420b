----------------------------- MODULE MCSubmitter -----------------------------
(* Small instances of Submitter for TLC. *)
EXTENDS Submitter

CONSTANTS a, c1, c2
=============================================================================
