------------------------------- MODULE Backoff -------------------------------
(***************************************************************************)
(* backoffDelay and withJitter of streaming.go: how long the stream waits  *)
(* before its next connection, in integers that wrap at Half like int64    *)
(* does at 2^63.                                                           *)
(***************************************************************************)
EXTENDS Integers

CONSTANTS
    Half,        \* integers are -Half .. Half - 1
    MaxFailures  \* bound of the model: failures in a row

ASSUME BackoffAssumption == Half \in Nat /\ Half > 2 /\ MaxFailures \in Nat

VARIABLES
    reconnectDelay, maxReconnectDelay,  \* durations of the source, fixed
    failures                            \* consecutiveFailures

vars == <<reconnectDelay, maxReconnectDelay, failures>>

Durations == 2 .. Half - 1

Init ==
    /\ reconnectDelay \in Durations /\ maxReconnectDelay \in Durations
    /\ failures = 0

Wrap(x) == ((x + Half) % (2 * Half)) - Half

\* Mutant: overflow is not looked at.
CappedFromAbove(d) == IF d >= maxReconnectDelay THEN maxReconnectDelay ELSE d

\* A doubled delay that wrapped or reached the ceiling is the ceiling.
Capped(d) == IF d <= 0 \/ d >= maxReconnectDelay THEN maxReconnectDelay ELSE d

\* Mutant: one doubling too many.
DoubledOnceMore(n) ==
    LET level[i \in 0 .. n] ==
            IF i = 0 THEN reconnectDelay ELSE Capped(Wrap(2 * level[i - 1]))
    IN  level[n]

\* The delay before jitter after n failures in a row.
BackoffDelay(n) ==
    LET level[i \in 0 .. n] ==
            IF i <= 1 THEN reconnectDelay ELSE Capped(Wrap(2 * level[i - 1]))
    IN  level[n]

\* withJitter: what a delay can come to.
Jittered(d) == IF d <= 0 THEN {d} ELSE d \div 2 .. 2 * (d \div 2)

Fail ==
    /\ failures < MaxFailures
    /\ failures' = failures + 1
    /\ UNCHANGED <<reconnectDelay, maxReconnectDelay>>

Recover ==
    /\ failures' = 0
    /\ UNCHANGED <<reconnectDelay, maxReconnectDelay>>

Next == Fail \/ Recover

Spec == Init /\ [][Next]_vars

-----------------------------------------------------------------------------
(* Properties *)

\* The stream never reconnects at once, whatever doubling does to the integer,
\* and never waits longer than it is configured to.
WaitsWithinBounds ==
    \A delay \in Jittered(BackoffDelay(failures)) :
        /\ delay > 0
        /\ delay <= reconnectDelay \/ delay <= maxReconnectDelay

\* The ceiling apart, each failure after the first doubles the wait; a drop of a
\* healthy stream and a first failure wait the base delay.
DoublesUntilCapped ==
    LET d == BackoffDelay(failures)
    IN  IF failures <= 1 THEN d = reconnectDelay
        ELSE \/ d = maxReconnectDelay
             \/ d = reconnectDelay * 2 ^ (failures - 1) /\ d < maxReconnectDelay

\* backoffDelay and withJitter: waits double from the base to the ceiling and
\* stay positive, past the overflow of the doubling as before it.
WaitsGrowWithinBounds == WaitsWithinBounds /\ DoublesUntilCapped

=============================================================================
