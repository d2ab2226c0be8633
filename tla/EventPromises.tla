---------------------------- MODULE EventPromises ----------------------------
(***************************************************************************)
(* What the comments of events.go promise the callers of flush() and       *)
(* stop(), stated with history variables over EventProcessor: which events *)
(* each explicit flush still has to see settled, and how often the final   *)
(* drain has failed.                                                       *)
(***************************************************************************)
EXTENDS EventProcessor

VARIABLES
    asked,         \* the events an explicit flush found buffered, not yet settled
    owned,         \* callers whose flush started the drain instead of joining it
    stopFailures   \* posts of the final drain that failed

promiseVars == <<asked, owned, stopFailures>>

AllVars == <<vars, promiseVars>>

PInit ==
    /\ Init
    /\ asked = [t \in Callers |-> {}]
    /\ owned = {}
    /\ stopFailures = 0

\* An explicit flush is asked for what is buffered when it is called.
Ask(t) ==
    /\ pc[t] = "idle"
    /\ EnterFlush(t)
    /\ asked' = [asked EXCEPT ![t] = Range(buf)]
    /\ owned' = IF pc'[t] = "take" THEN owned \union {t} ELSE owned \ {t}
    /\ UNCHANGED stopFailures

\* A flush whose events an answer settled has less to wait for; a transient
\* failure ends the drain, and with it what any flush was promised.
Answered(t) ==
    /\ Reply(t)
    /\ asked' = [c \in Callers |->
                   IF PostRetryable(t) THEN {} ELSE asked[c] \ Range(batch[t])]
    /\ stopFailures' =
         IF t = Stopper /\ ~PostAccepted(t) THEN stopFailures + 1 ELSE stopFailures
    /\ UNCHANGED owned

\* Events shed to make room, or discarded by stop(), are settled as well.
Overtaken ==
    /\ \/ \E t \in Callers : Enqueue(t)
       \/ Wipe
    /\ asked' = [c \in Callers |-> asked[c] \intersect {e \in Events : fate'[e] = "pending"}]
    /\ UNCHANGED <<owned, stopFailures>>

Elsewhere ==
    /\ \/ Start \/ GateElapses \/ TickerExit \/ StopBegin \/ StopAwait
       \/ EnterFlush(Ticker)
       \/ \E t \in Callers : AutoFlush(t) \/ Unlatch(t) \/ (pc[t] = "flush" /\ EnterFlush(t))
       \/ \E t \in Flushers : EndDrain(t) \/ CloseDone(t)
       \/ \E t \in Threads : DrainBatch(t)
    /\ UNCHANGED promiseVars

PNext ==
    \/ \E t \in Callers : Ask(t)
    \/ \E t \in Threads : Answered(t)
    \/ Overtaken
    \/ Elsewhere

PSpec == PInit /\ [][PNext]_AllVars

FairPSpec == PSpec /\ Fairness

-----------------------------------------------------------------------------
(* An explicit flush of t returns in this step. *)
Returns(t) == pc[t] \in {"wait", "close"} /\ pc'[t] = "idle" /\ t \notin viaAuto

\* An explicit flush that runs the drain itself returns only after every event
\* buffered when it was called has been settled, unless a post failed
\* transiently or the processor was stopped meanwhile.
OwnFlushKeepsPromise ==
    [][\A t \in Callers : Returns(t) /\ t \in owned /\ ~closed => asked[t] = {}]_AllVars

\* stop() makes one final attempt: its drain sends nothing more after a post
\* that failed, for whatever reason.
StopFailsAtMostOnce == stopFailures <= 1

\* The comment on flush(): a caller that arrives while a drain runs `does NOT
\* return early, because a caller that asked for a flush is asking for its
\* events to be sent'.
JoinedFlushKeepsPromise ==
    [][\A t \in Callers : Returns(t) /\ t \notin owned /\ ~closed => asked[t] = {}]_AllVars

=============================================================================
