--------------------------- MODULE MCGenerationRun ---------------------------
(***************************************************************************)
(* GenerationRun on one job: the jobs of a run share nothing but the       *)
(* workers.                                                                *)
(***************************************************************************)
EXTENDS GenerationRun, TLC

Symmetry == Permutations(Workers)
=============================================================================
