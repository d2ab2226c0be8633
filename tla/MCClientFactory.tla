--------------------------- MODULE MCClientFactory ---------------------------
(* ClientFactory with the goroutines and the keys as symmetry sets.          *)
EXTENDS ClientFactory, TLC

Symmetric == Permutations(Threads) \union Permutations(Keys)
=============================================================================
