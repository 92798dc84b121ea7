--------------------------- MODULE MCKeysetPaging ---------------------------
(* Instances of KeysetPaging for TLC.                                       *)
EXTENDS KeysetPaging
=============================================================================
