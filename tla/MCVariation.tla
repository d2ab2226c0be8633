----------------------------- MODULE MCVariation -----------------------------
(* Variation with flags that ask for one other flag or use a segment.        *)
EXTENDS Variation, TLC

CONSTANTS a, b, undefined

Interchangeable == Permutations(Flags) \union Permutations(Clients)

SomeFlag == [on |-> TRUE, prereqs |-> <<>>, rules |-> {}, fall |-> a, default |-> b, off |-> b]

Asking == {[SomeFlag EXCEPT !.prereqs = <<[flag |-> f, expect |-> a]>>] : f \in Flags}
Using  == {[SomeFlag EXCEPT !.rules = {[priority |-> 1, when |-> s, serve |-> b]}] : s \in Segments}

VariationDefs ==
    {SomeFlag, [SomeFlag EXCEPT !.on = FALSE], [SomeFlag EXCEPT !.fall = undefined]}
        \union Asking \union Using
=============================================================================
