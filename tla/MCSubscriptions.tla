--------------------------- MODULE MCSubscriptions ---------------------------
(* Subscriptions with interchangeable callers and clients.                   *)
EXTENDS Subscriptions, TLC

Symmetric == Permutations(Callers) \union Permutations(Handles)
=============================================================================
