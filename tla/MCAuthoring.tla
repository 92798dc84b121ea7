----------------------------- MODULE MCAuthoring -----------------------------
(* Instances of Authoring for TLC.                                          *)
EXTENDS Authoring, TLC

Interchangeable == Permutations(Slugs) \cup Permutations(Sources)
=============================================================================
