--------------------------- MODULE EventProcessor ---------------------------
(***************************************************************************)
(* The analytics event processor of events.go: application goroutines      *)
(* (Callers) enqueue events and flush, a background goroutine (Ticker)     *)
(* flushes on an interval, and one goroutine (Stopper) shuts the processor *)
(* down.  They share a buffer guarded by ep.mu; HTTP posts are made with   *)
(* the mutex released, so each critical section and each reply is one      *)
(* action.                                                                 *)
(*                                                                         *)
(* An event is the number of its enqueue call, so `<' is enqueue order.    *)
(***************************************************************************)
EXTENDS Integers, Sequences, FiniteSets, Functions

CONSTANTS
    Callers,       \* application goroutines
    Ticker,        \* the goroutine started by start()
    Stopper,       \* the goroutine that calls stop()
    None,          \* a nil channel
    BatchSize,     \* cfg.flushBatchSize
    MaxQueueSize,  \* the buffer bound
    MaxEvents,     \* bound of the model: how many events are enqueued
    Answers        \* the outcomes a post may have

Outcomes == {"accepted", "rejected", "retryable"}

ASSUME EventProcessorAssumption ==
    /\ Ticker \notin Callers /\ Stopper \notin Callers /\ Ticker # Stopper
    /\ None \notin Callers \union {Ticker, Stopper}
    /\ BatchSize \in Nat
    /\ MaxQueueSize \in Nat \ {0}
    /\ MaxEvents \in Nat
    /\ Answers \subseteq Outcomes

VARIABLES
    buf,                \* ep.buf
    closed,             \* ep.closed
    gateArmed,          \* now < ep.nextAutoFlushAt
    autoFlushInFlight,  \* ep.autoFlushInFlight
    drainDone,          \* the thread whose channel ep.drainDone holds, or None
    started,            \* ep.stopCh # nil: the ticker goroutine exists
    pc,                 \* where each thread is
    batch,              \* the batch each thread has taken and not settled
    joined,             \* whose drain each waiting thread has joined
    viaAuto,            \* threads inside an autoFlush frame
    nextEvent,          \* number of the next event
    fate                \* history: what became of each event

vars == <<buf, closed, gateArmed, autoFlushInFlight, drainDone, started, pc,
          batch, joined, viaAuto, nextEvent, fate>>

Flushers == Callers \union {Ticker}
Threads  == Flushers \union {Stopper}
Events   == 1 .. MaxEvents

Fates == {"new", "pending", "delivered", "rejected", "shed", "discarded"}

Places == {"idle", "auto", "flush", "wait", "take", "post", "finish", "close",
           "unlatch", "off", "select", "exited", "await", "wipe", "stopped"}

Draining  == {"take", "post", "finish"}  \* places where drainDone is this thread's

-----------------------------------------------------------------------------
(* Helpers *)

\* drainBatch never takes nothing from a non-empty buffer.
BatchLimit == IF BatchSize < 1 THEN 1 ELSE BatchSize

\* Mutant: sheds the newest events.
TrimNewest(s) == IF Len(s) <= MaxQueueSize THEN s ELSE SubSeq(s, 1, MaxQueueSize)

\* trimOldestLocked: what is kept.
TrimOldest(s) ==
    IF Len(s) <= MaxQueueSize THEN s
    ELSE SubSeq(s, Len(s) - MaxQueueSize + 1, Len(s))

\* trimOldestLocked: what it drops.
Overflow(s) == Range(s) \ Range(TrimOldest(s))

\* Mutant: one request for the whole buffer.
TakeWholeBuffer == Len(buf)

TakeCount == IF Len(buf) < BatchLimit THEN Len(buf) ELSE BatchLimit

Became(S, f) == [e \in Events |-> IF e \in S THEN f ELSE fate[e]]

\* Where a thread goes when its flush() returns.
AfterFlush(t) ==
    IF t \in viaAuto THEN "unlatch" ELSE IF t = Ticker THEN "select" ELSE "idle"

\* Where a thread goes when its drain() returns.
AfterDrain(t) == IF t = Stopper THEN "wipe" ELSE "finish"

\* The threads that calling flush is the next thing to do for, or that may
\* call it: Client.Flush from an idle caller, a tick of the ticker.
AtFlush(t) ==
    \/ pc[t] = "flush"
    \/ t \in Callers /\ pc[t] = "idle"
    \/ t = Ticker /\ pc[t] = "select"

-----------------------------------------------------------------------------
Init ==
    /\ buf = <<>>
    /\ closed = FALSE
    /\ gateArmed = FALSE
    /\ autoFlushInFlight = FALSE
    /\ drainDone = None
    /\ started = FALSE
    /\ pc = [t \in Threads |-> IF t = Ticker THEN "off" ELSE "idle"]
    /\ batch = [t \in Threads |-> <<>>]
    /\ joined = [t \in Threads |-> None]
    /\ viaAuto = {}
    /\ nextEvent = 1
    /\ fate = [e \in Events |-> "new"]

\* start(): doInit calls it while the caller of Get still holds the core, so
\* never after stop().
Start ==
    /\ ~started /\ ~closed
    /\ started' = TRUE
    /\ pc' = [pc EXCEPT ![Ticker] = "select"]
    /\ UNCHANGED <<buf, closed, gateArmed, autoFlushInFlight, drainDone, batch,
                   joined, viaAuto, nextEvent, fate>>

\* enqueue() up to the unlock; after close() it changes nothing.
Enqueue(t) ==
    /\ pc[t] = "idle"
    /\ ~closed
    /\ nextEvent <= MaxEvents
    /\ LET grown == Append(buf, nextEvent) IN
         /\ buf' = TrimOldest(grown)
         /\ fate' = [Became(Overflow(grown), "shed")
                       EXCEPT ![nextEvent] = "pending"]
    /\ nextEvent' = nextEvent + 1
    /\ pc' = [pc EXCEPT ![t] = IF Len(buf') >= BatchSize THEN "auto" ELSE "idle"]
    /\ UNCHANGED <<closed, gateArmed, autoFlushInFlight, drainDone, started,
                   batch, joined, viaAuto>>

\* Mutant: the gate alone, as before the latch was added.
BlockedByGateOnly == closed \/ gateArmed

\* The size trigger stands down: closed, already flushing, or backing off.
AutoFlushBlocked == closed \/ autoFlushInFlight \/ gateArmed

\* autoFlush() up to the call of flush.
AutoFlush(t) ==
    /\ pc[t] = "auto"
    /\ \/ /\ AutoFlushBlocked
          /\ pc' = [pc EXCEPT ![t] = "idle"]
          /\ UNCHANGED <<autoFlushInFlight, viaAuto>>
       \/ /\ ~AutoFlushBlocked
          /\ pc' = [pc EXCEPT ![t] = "flush"]
          /\ autoFlushInFlight' = TRUE
          /\ viaAuto' = viaAuto \union {t}
    /\ UNCHANGED <<buf, closed, gateArmed, drainDone, started, batch, joined,
                   nextEvent, fate>>

\* Mutant: every flush runs a drain of its own.
EnterFlushAlone(t) ==
    /\ AtFlush(t)
    /\ pc' = [pc EXCEPT ![t] = "take"]
    /\ drainDone' = t
    /\ UNCHANGED <<buf, closed, gateArmed, autoFlushInFlight, started, batch,
                   joined, viaAuto, nextEvent, fate>>

\* flush() up to the first unlock: join the drain that runs, or own a new one.
\* Client.Flush and the tick enter here directly, a size trigger by AutoFlush.
EnterFlush(t) ==
    /\ AtFlush(t)
    /\ \/ /\ drainDone # None
          /\ pc' = [pc EXCEPT ![t] = "wait"]
          /\ joined' = [joined EXCEPT ![t] = drainDone]
          /\ UNCHANGED drainDone
       \/ /\ drainDone = None
          /\ pc' = [pc EXCEPT ![t] = "take"]
          /\ drainDone' = t
          /\ UNCHANGED joined
    /\ UNCHANGED <<buf, closed, gateArmed, autoFlushInFlight, started, batch,
                   viaAuto, nextEvent, fate>>

\* drainBatch(): the oldest events, or the end of the drain.
DrainBatch(t) ==
    /\ pc[t] = "take"
    /\ \/ /\ buf = <<>>
          /\ pc' = [pc EXCEPT ![t] = AfterDrain(t)]
          /\ UNCHANGED <<buf, batch>>
       \/ /\ buf # <<>>
          /\ pc' = [pc EXCEPT ![t] = "post"]
          /\ batch' = [batch EXCEPT ![t] = SubSeq(buf, 1, TakeCount)]
          /\ buf' = SubSeq(buf, TakeCount + 1, Len(buf))
    /\ UNCHANGED <<closed, gateArmed, autoFlushInFlight, drainDone, started,
                   joined, viaAuto, nextEvent, fate>>

\* The server took the batch: clear the backoff and go on.
PostAccepted(t) ==
    /\ "accepted" \in Answers
    /\ pc[t] = "post"
    /\ fate' = Became(Range(batch[t]), "delivered")
    /\ batch' = [batch EXCEPT ![t] = <<>>]
    /\ gateArmed' = FALSE
    /\ pc' = [pc EXCEPT ![t] = "take"]
    /\ UNCHANGED <<buf, closed, autoFlushInFlight, drainDone, started, joined,
                   viaAuto, nextEvent>>

\* Mutant: a refused batch is put back and starves what is behind it.
PostRejectedPutsBack(t) ==
    /\ "rejected" \in Answers
    /\ pc[t] = "post"
    /\ buf' = batch[t] \o buf
    /\ batch' = [batch EXCEPT ![t] = <<>>]
    /\ pc' = [pc EXCEPT ![t] = AfterDrain(t)]
    /\ UNCHANGED <<closed, gateArmed, autoFlushInFlight, drainDone, started,
                   joined, viaAuto, nextEvent, fate>>

\* Mutant: a refused batch ends the drain.
PostRejectedEnds(t) ==
    /\ "rejected" \in Answers
    /\ pc[t] = "post"
    /\ fate' = Became(Range(batch[t]), "rejected")
    /\ batch' = [batch EXCEPT ![t] = <<>>]
    /\ pc' = [pc EXCEPT ![t] = AfterDrain(t)]
    /\ UNCHANGED <<buf, closed, gateArmed, autoFlushInFlight, drainDone,
                   started, joined, viaAuto, nextEvent>>

\* Mutant: a closing processor goes on after a refusal.
PostRejectedGoesOn(t) ==
    /\ "rejected" \in Answers
    /\ pc[t] = "post"
    /\ fate' = Became(Range(batch[t]), "rejected")
    /\ batch' = [batch EXCEPT ![t] = <<>>]
    /\ pc' = [pc EXCEPT ![t] = "take"]
    /\ UNCHANGED <<buf, closed, gateArmed, autoFlushInFlight, drainDone,
                   started, joined, viaAuto, nextEvent>>

\* A permanent refusal: the batch is dropped; a closing processor stops here.
PostRejected(t) ==
    /\ "rejected" \in Answers
    /\ pc[t] = "post"
    /\ fate' = Became(Range(batch[t]), "rejected")
    /\ batch' = [batch EXCEPT ![t] = <<>>]
    /\ pc' = [pc EXCEPT ![t] = IF closed THEN AfterDrain(t) ELSE "take"]
    /\ UNCHANGED <<buf, closed, gateArmed, autoFlushInFlight, drainDone,
                   started, joined, viaAuto, nextEvent>>

\* Mutants of requeue: the batch is forgotten; it goes to the back; the bound is
\* not applied; a closed processor takes it back.
RequeueForgets(t) == gateArmed' = TRUE /\ UNCHANGED <<buf, fate>>
RequeueAtBack(t) ==
    LET combined == buf \o batch[t] IN
    /\ buf' = TrimOldest(combined)
    /\ gateArmed' = TRUE
    /\ fate' = Became(Overflow(combined), "shed")
RequeueUnbounded(t) ==
    /\ buf' = batch[t] \o buf
    /\ gateArmed' = TRUE
    /\ UNCHANGED fate
RequeueWhenClosed(t) ==
    LET combined == batch[t] \o buf IN
    /\ buf' = TrimOldest(combined)
    /\ gateArmed' = TRUE
    /\ fate' = Became(Overflow(combined), "shed")

\* requeue(): back to the front, arm the gate, trim; nothing once closed.
Requeue(t) ==
    LET combined == batch[t] \o buf IN
    \/ /\ closed
       /\ fate' = Became(Range(batch[t]), "discarded")
       /\ UNCHANGED <<buf, gateArmed>>
    \/ /\ ~closed
       /\ buf' = TrimOldest(combined)
       /\ gateArmed' = TRUE
       /\ fate' = Became(Overflow(combined), "shed")

\* A transient failure: hand the batch back and end this drain.
PostRetryable(t) ==
    /\ "retryable" \in Answers
    /\ pc[t] = "post"
    /\ Requeue(t)
    /\ batch' = [batch EXCEPT ![t] = <<>>]
    /\ pc' = [pc EXCEPT ![t] = AfterDrain(t)]
    /\ UNCHANGED <<closed, autoFlushInFlight, drainDone, started, joined,
                   viaAuto, nextEvent>>

\* flush()'s deferred unlock: no drain runs any more ...
EndDrain(t) ==
    /\ pc[t] = "finish"
    /\ drainDone' = None
    /\ pc' = [pc EXCEPT ![t] = "close"]
    /\ UNCHANGED <<buf, closed, gateArmed, autoFlushInFlight, started, batch,
                   joined, viaAuto, nextEvent, fate>>

\* Mutant: the channel is never closed.
CloseDoneForgotten(t) ==
    /\ pc[t] = "close"
    /\ pc' = [pc EXCEPT ![t] = AfterFlush(t)]
    /\ UNCHANGED <<buf, closed, gateArmed, autoFlushInFlight, drainDone,
                   started, batch, joined, viaAuto, nextEvent, fate>>

\* ... and close(done) releases whoever joined it.
CloseDone(t) ==
    /\ pc[t] = "close"
    /\ LET released == {w \in Flushers : pc[w] = "wait" /\ joined[w] = t} IN
         /\ pc' = [w \in Threads |->
                     IF w = t \/ w \in released THEN AfterFlush(w) ELSE pc[w]]
         /\ joined' = [w \in Threads |->
                         IF w \in released THEN None ELSE joined[w]]
    /\ UNCHANGED <<buf, closed, gateArmed, autoFlushInFlight, drainDone,
                   started, batch, viaAuto, nextEvent, fate>>

\* autoFlush()'s deferred unlatch.
Unlatch(t) ==
    /\ pc[t] = "unlatch"
    /\ autoFlushInFlight' = FALSE
    /\ viaAuto' = viaAuto \ {t}
    /\ pc' = [pc EXCEPT ![t] = "idle"]
    /\ UNCHANGED <<buf, closed, gateArmed, drainDone, started, batch, joined,
                   nextEvent, fate>>

\* The clock passes nextAutoFlushAt.
GateElapses ==
    /\ gateArmed
    /\ gateArmed' = FALSE
    /\ UNCHANGED <<buf, closed, autoFlushInFlight, drainDone, started, pc,
                   batch, joined, viaAuto, nextEvent, fate>>

\* The ticker's select picks the closed stopCh.
TickerExit ==
    /\ pc[Ticker] = "select"
    /\ closed
    /\ pc' = [pc EXCEPT ![Ticker] = "exited"]
    /\ UNCHANGED <<buf, closed, gateArmed, autoFlushInFlight, drainDone,
                   started, batch, joined, viaAuto, nextEvent, fate>>

\* stop() up to close(stopCh); a second stop() returns at once.
StopBegin ==
    /\ pc[Stopper] = "idle"
    /\ closed' = TRUE
    /\ pc' = [pc EXCEPT ![Stopper] = IF started THEN "await" ELSE "take"]
    /\ UNCHANGED <<buf, gateArmed, autoFlushInFlight, drainDone, started,
                   batch, joined, viaAuto, nextEvent, fate>>

\* stop() returns from <-done, then drains without coalescing.
StopAwait ==
    /\ pc[Stopper] = "await"
    /\ pc[Ticker] = "exited"
    /\ pc' = [pc EXCEPT ![Stopper] = "take"]
    /\ UNCHANGED <<buf, closed, gateArmed, autoFlushInFlight, drainDone,
                   started, batch, joined, viaAuto, nextEvent, fate>>

\* Mutant: what the final drain left stays in the buffer.
WipeNothing ==
    /\ pc[Stopper] = "wipe"
    /\ pc' = [pc EXCEPT ![Stopper] = "stopped"]
    /\ UNCHANGED <<buf, closed, gateArmed, autoFlushInFlight, drainDone, started,
                   batch, joined, viaAuto, nextEvent, fate>>

\* stop() discards what its drain left.
Wipe ==
    /\ pc[Stopper] = "wipe"
    /\ fate' = Became(Range(buf), "discarded")
    /\ buf' = <<>>
    /\ pc' = [pc EXCEPT ![Stopper] = "stopped"]
    /\ UNCHANGED <<closed, gateArmed, autoFlushInFlight, drainDone, started,
                   batch, joined, viaAuto, nextEvent>>

Reply(t) == PostAccepted(t) \/ PostRejected(t) \/ PostRetryable(t)

Stop == StopBegin \/ StopAwait \/ Wipe

Next ==
    \/ Start \/ GateElapses \/ TickerExit \/ Stop
    \/ \E t \in Callers  : Enqueue(t) \/ AutoFlush(t) \/ Unlatch(t)
    \/ \E t \in Flushers : EnterFlush(t) \/ EndDrain(t) \/ CloseDone(t)
    \/ \E t \in Threads  : DrainBatch(t) \/ Reply(t)

Spec == Init /\ [][Next]_vars

-----------------------------------------------------------------------------
(* Fairness: the Go scheduler runs every runnable goroutine, every request   *)
(* is bounded by the HTTP client's timeout, time passes and the ticker       *)
(* ticks.  A select with two ready cases picks at random, so leaving it      *)
(* needs strong fairness.  Nothing obliges a caller to call anything, nor    *)
(* stop() to be called.                                                      *)

Internal(t) ==
    \/ t \in Callers /\ (AutoFlush(t) \/ Unlatch(t))
    \/ t \in Flushers /\ (EndDrain(t) \/ CloseDone(t))
    \/ t \in Flushers /\ (t = Ticker \/ pc[t] = "flush") /\ EnterFlush(t)
    \/ DrainBatch(t) \/ Reply(t)

Fairness ==
    /\ WF_vars(Start) /\ WF_vars(GateElapses)
    /\ \A t \in Threads : WF_vars(Internal(t))
    /\ SF_vars(TickerExit)
    /\ WF_vars(StopAwait) /\ WF_vars(Wipe)

\* An endpoint that recovers: a thread that keeps posting is not refused with
\* a transient failure for ever.
EndpointRecovers == \A t \in Threads : SF_vars(PostAccepted(t) \/ PostRejected(t))

-----------------------------------------------------------------------------
(* Properties *)

Increasing(s) == \A i, j \in DOMAIN s : i < j => s[i] < s[j]

Pending == {e \in Events : fate[e] = "pending"}

InFlight == UNION {Range(batch[t]) : t \in Threads}

\* Every variable keeps its type, and no request carries more than one batch:
\* drainBatch takes at most BatchSize events, one when BatchSize is zero.
TypeOK ==
    /\ buf \in Seq(Events)
    /\ closed \in BOOLEAN /\ gateArmed \in BOOLEAN
    /\ autoFlushInFlight \in BOOLEAN /\ started \in BOOLEAN
    /\ drainDone \in Flushers \union {None}
    /\ pc \in [Threads -> Places]
    /\ batch \in [Threads -> Seq(Events)]
    /\ \A t \in Threads : Len(batch[t]) <= BatchLimit
    /\ joined \in [Threads -> Flushers \union {None}]
    /\ viaAuto \subseteq Callers
    /\ nextEvent \in 1 .. MaxEvents + 1
    /\ fate \in [Events -> Fates]

\* Coalescing (#2477): until stop() begins, at most one goroutine is inside
\* the drain loop, whichever of the three triggers started it.
OneDrainUntilClosed ==
    \A t, u \in Threads :
        pc[t] \in {"take", "post"} /\ pc[u] \in {"take", "post"} /\ t # u => closed

\* The batch-size trigger never runs concurrently with itself, and the latch
\* is up exactly while one of its frames is on some caller's stack.
SizeTriggerLatched ==
    /\ autoFlushInFlight <=> viaAuto # {}
    /\ \A t, u \in viaAuto : t = u

\* Whatever triggers a drain, there is one: a trigger that finds one running
\* leaves its events to it, and no latch outlives the frame that set it.
DrainsCoalesce == OneDrainUntilClosed /\ SizeTriggerLatched

\* Retried batches go ahead of newer events: the buffer is in enqueue order
\* and, until stop() begins, everything in flight is older than all of it.
BufferOrdered ==
    /\ Increasing(buf)
    /\ \A t \in Threads : Increasing(batch[t])
    /\ ~closed => \A e \in InFlight, d \in Range(buf) : e < d

\* No event is lost or duplicated on the way: an enqueued event with no fate
\* yet is in the buffer or in exactly one thread's batch, and once.
NothingVanishes ==
    /\ Pending = Range(buf) \union InFlight
    /\ Len(buf) = Cardinality(Range(buf))
    /\ \A t \in Threads :
          /\ Len(batch[t]) = Cardinality(Range(batch[t]))
          /\ Range(batch[t]) \intersect Range(buf) = {}
          /\ \A u \in Threads \ {t} : Range(batch[t]) \intersect Range(batch[u]) = {}

\* The memory bound holds whatever is enqueued or handed back.
BufferBounded == Len(buf) <= MaxQueueSize

\* stop() leaves nothing behind: a straggling drain whose post fails after
\* shutdown does not put its batch into a buffer no one will drain.
StoppedHoldsNothing == pc[Stopper] = "stopped" => buf = <<>>

\* What is kept in memory is bounded while the processor is open, whatever the
\* endpoint hands back, and is nothing once stop() has returned.
BoundsHold == BufferBounded /\ StoppedHoldsNothing

\* stop() returns: it is never stuck behind the ticker, a joined drain or a
\* failing endpoint.
StopReturns == closed ~> pc[Stopper] = "stopped"

\* A flush that joined another goroutine's drain is released.
JoinedFlushReturns ==
    \A t \in Flushers : pc[t] = "wait" ~> pc[t] # "wait"

\* Whoever waits for somebody else's drain is released.
CallsReturn == StopReturns /\ JoinedFlushReturns

\* Shutdown decides the fate of every event: none stays pending after it.
ShutdownSettlesAll == closed ~> Pending = {}

\* Once the endpoint recovers, every event is delivered, refused for good, or
\* shed: a failed batch, or one no trigger was raised for, is not stranded.
EveryEventSettles ==
    EndpointRecovers => \A e \in Events : fate[e] = "pending" ~> fate[e] # "pending"

\* What the processor promises, whatever its threads do: see EventPipeline.
Pipeline == INSTANCE EventPipeline WITH
    open <- ~closed, Capacity <- MaxQueueSize, MaxBatch <- BatchLimit
PipelineSpec == Pipeline!Spec

\* What a size trigger is for: when no caller is inside the SDK and every post
\* succeeded, fewer than BatchSize events are waiting.
FullBatchIsSent ==
    (\A t \in Callers : pc[t] = "idle") /\ ~closed => Len(buf) < BatchSize

=============================================================================
