--------------------------- MODULE MCEventBuffer ----------------------------
(* Instances of EventBuffer for TLC, and the mutants of its definitions.   *)
EXTENDS EventBuffer
=============================================================================
