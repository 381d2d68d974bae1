-------------------------- MODULE MCCommandPipeline --------------------------
(* Two commands in flight over the first tab and two that are opened later.  *)
EXTENDS CommandPipeline, TLC

Symmetry == Permutations(Call)
=============================================================================
