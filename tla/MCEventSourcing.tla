--------------------------- MODULE MCEventSourcing ---------------------------
(* Small instances of EventSourcing for TLC. *)
EXTENDS EventSourcing
=============================================================================
