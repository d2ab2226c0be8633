-------------------------- MODULE MCEventProcessor --------------------------
(* EventProcessor with the callers as a symmetry set, and the scenario of    *)
(* the batch-size trigger alone.                                             *)
EXTENDS EventProcessor, TLC

CallerSymmetry == Permutations(Callers)

\* Callers that only enqueue, and no ticker yet: what
\* events_flush_resilience_test.go sets up around line 442.
EnqueueOnly == \E t \in Callers : Enqueue(t) \/ Internal(t)

EnqueueOnlySpec == Init /\ [][EnqueueOnly]_vars
=============================================================================
