---------------------------- MODULE MCFlagUpdates ----------------------------
(* FlagUpdates with flags that ask for up to two others or use a segment.    *)
EXTENDS FlagUpdates, TLC

CONSTANTS a, b, undefined

Interchangeable == Permutations(Flags)

SomeFlag == [on |-> TRUE, prereqs |-> <<>>, rules |-> {}, fall |-> a, default |-> b, off |-> b]

Asks    == {[flag |-> f, expect |-> a] : f \in Flags}
Asking  == {[SomeFlag EXCEPT !.prereqs = <<p>>, !.fall = v] : p \in Asks, v \in {a, NoBucket}}
Joining == {[SomeFlag EXCEPT !.prereqs = c] :
              c \in {<<p, q>> : p \in Asks, q \in Asks} \ {<<p, p>> : p \in Asks}}
Using   == {[SomeFlag EXCEPT !.rules = {[priority |-> 1, when |-> s, serve |-> b]}] :
              s \in Segments}

\* A rollout that has no value to bucket on is passed over.
Rollout == {[priority |-> 1, when |-> "always", serve |-> NoBucket],
            [priority |-> 2, when |-> "always", serve |-> b]}

\* What a flag asks for, or what makes it move.
PlainDefs ==
    {SomeFlag, [SomeFlag EXCEPT !.on = FALSE, !.off = a], [SomeFlag EXCEPT !.fall = undefined],
     [SomeFlag EXCEPT !.rules = Rollout]}
        \union Asking \union Joining \union Using
=============================================================================
