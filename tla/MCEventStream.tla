--------------------------- MODULE MCEventStream ---------------------------
(* Instances of EventStream for TLC.  The names of rows say nothing of     *)
(* their ts; they are not declared symmetric because the run checks a      *)
(* liveness property.                                                      *)
EXTENDS EventStream
=============================================================================
