--------------------------- MODULE MCGenerationQueue ---------------------------
(***************************************************************************)
(* Instances of GenerationQueue: one or two stories of a source, one       *)
(* worker process, or two when a killed runner can leave one behind.       *)
(***************************************************************************)
EXTENDS GenerationQueue, TLC

Symmetry == Permutations(Stories) \cup Permutations(Workers)
================================================================================
