--------------------------- MODULE MCEventPromises ---------------------------
(* EventPromises with the callers as a symmetry set.                         *)
EXTENDS EventPromises, TLC

CallerSymmetry == Permutations(Callers)
=============================================================================
