---------------------------- MODULE EventPipeline ----------------------------
(***************************************************************************)
(* What the event processor of events.go promises its callers, with no     *)
(* threads, batches in flight or flushes: each accepted event ends up      *)
(* delivered, refused for good by the endpoint, shed because the buffer    *)
(* bound was reached, or discarded by shutdown.                            *)
(***************************************************************************)
EXTENDS Integers, FiniteSets

CONSTANTS
    MaxEvents,  \* bound of the model: how many events are accepted
    Capacity,   \* how many events may wait
    MaxBatch    \* how many events one request carries

VARIABLES open, fate

vars == <<open, fate>>

Events == 1 .. MaxEvents

Having(f) == {e \in Events : fate[e] = f}

Newer(e, S) == {d \in S : d > e}

TypeOK ==
    /\ open \in BOOLEAN
    /\ fate \in [Events -> {"new", "pending", "delivered", "rejected", "shed",
                            "discarded"}]

Init == open = TRUE /\ fate = [e \in Events |-> "new"]

\* An event is shed only when Capacity newer ones are kept.
MayShed(S, waiting) ==
    \A e \in S : Cardinality(Newer(e, waiting \ S)) >= Capacity

\* The next event is accepted; the bound may shed older ones.
Accept ==
    /\ open
    /\ \E e \in Having("new"), S \in SUBSET Events :
         /\ \A d \in Having("new") : e <= d
         /\ S \subseteq Having("pending")
         /\ MayShed(S, Having("pending") \union {e})
         /\ fate' = [d \in Events |-> IF d = e THEN "pending"
                                      ELSE IF d \in S THEN "shed" ELSE fate[d]]
    /\ UNCHANGED open

\* A batch is settled by the endpoint; while open, the oldest events first.
Settle ==
    \E S \in (SUBSET Having("pending")) \ {{}}, f \in {"delivered", "rejected"} :
        /\ Cardinality(S) <= MaxBatch
        /\ open => \A e \in S, d \in Having("pending") \ S : e < d
        /\ fate' = [e \in Events |-> IF e \in S THEN f ELSE fate[e]]
        /\ UNCHANGED open

\* A batch handed back overflows the bound.
Shed ==
    /\ open
    /\ \E S \in (SUBSET Having("pending")) \ {{}} :
         /\ MayShed(S, Having("pending"))
         /\ fate' = [e \in Events |-> IF e \in S THEN "shed" ELSE fate[e]]
    /\ UNCHANGED open

Close == open /\ open' = FALSE /\ UNCHANGED fate

\* Only shutdown gives up on events.
Discard ==
    /\ ~open
    /\ \E S \in (SUBSET Having("pending")) \ {{}} :
         fate' = [e \in Events |-> IF e \in S THEN "discarded" ELSE fate[e]]
    /\ UNCHANGED open

Next == Accept \/ Settle \/ Shed \/ Close \/ Discard

Spec == Init /\ [][Next]_vars

=============================================================================
