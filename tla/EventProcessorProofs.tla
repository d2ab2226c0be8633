------------------------- MODULE EventProcessorProofs -------------------------
(***************************************************************************)
(* Proofs about EventProcessor for every value of its constants.           *)
(***************************************************************************)
EXTENDS EventProcessor, TLAPS

-----------------------------------------------------------------------------
(* The strengthening: who may be where, and who owns drainDone.            *)

StopperPlaces == {"idle", "await", "take", "post", "wipe", "stopped"}

\* drainDone holds the channel of the flusher that is inside the drain; the
\* stopper drains without one, after it has set closed.
DrainOwner ==
    /\ \A t \in Flushers : pc[t] \in Draining <=> drainDone = t
    /\ pc[Stopper] \in StopperPlaces
    /\ pc[Stopper] # "idle" => closed
    /\ ~started => pc[Ticker] = "off"
\* A thread about to unlatch is in the frame that latched.
UnlatchInFrame == \A t \in Callers : pc[t] = "unlatch" => t \in viaAuto

-----------------------------------------------------------------------------
(* trimOldestLocked returns a sequence of events that fits the bound.      *)
LEMMA TrimOldestFits ==
    ASSUME NEW s \in Seq(Events)
    PROVE  TrimOldest(s) \in Seq(Events) /\ Len(TrimOldest(s)) <= MaxQueueSize
<1>0. MaxQueueSize \in Nat /\ MaxQueueSize >= 1
  BY EventProcessorAssumption
<1>1. CASE Len(s) <= MaxQueueSize
  BY <1>1 DEF TrimOldest
<1>2. CASE ~(Len(s) <= MaxQueueSize)
  <2>1. TrimOldest(s) = SubSeq(s, Len(s) - MaxQueueSize + 1, Len(s))
    BY <1>2 DEF TrimOldest
  <2>2. \A i \in Len(s) - MaxQueueSize + 1 .. Len(s) : s[i] \in Events
    BY <1>0, <1>2
  <2>3. QED
    BY <1>0, <1>2, <2>1, <2>2
<1>3. QED
  BY <1>1, <1>2

\* drainBatch splits a non-empty buffer into a batch of at most BatchLimit
\* events and the rest.
LEMMA TakeSplits ==
    ASSUME buf \in Seq(Events), buf # <<>>
    PROVE  /\ TakeCount \in 1 .. Len(buf)
           /\ TakeCount <= BatchLimit
           /\ SubSeq(buf, 1, TakeCount) \in Seq(Events)
           /\ Len(SubSeq(buf, 1, TakeCount)) = TakeCount
           /\ SubSeq(buf, TakeCount + 1, Len(buf)) \in Seq(Events)
           /\ Len(SubSeq(buf, TakeCount + 1, Len(buf))) = Len(buf) - TakeCount
<1>1. BatchLimit \in Nat /\ BatchLimit >= 1
  BY EventProcessorAssumption DEF BatchLimit
<1>2. Len(buf) \in Nat /\ Len(buf) >= 1
  OBVIOUS
<1>3. TakeCount \in 1 .. Len(buf) /\ TakeCount <= BatchLimit
  BY <1>1, <1>2 DEF TakeCount
<1>4. \A i \in 1 .. Len(buf) : buf[i] \in Events
  OBVIOUS
<1>5. QED
  BY <1>3, <1>4

LEMMA BecameType ==
    ASSUME fate \in [Events -> Fates], NEW S, NEW f \in Fates
    PROVE  Became(S, f) \in [Events -> Fates]
BY DEF Became

-----------------------------------------------------------------------------
(* Type correctness is inductive by itself.                                *)

LEMMA InitTypes == Init => TypeOK
<1> SUFFICES ASSUME Init PROVE TypeOK
  OBVIOUS
<1> USE EventProcessorAssumption DEF Init, TypeOK, Threads, Flushers, Events
<1>1. buf \in Seq(Events)
  BY DEF Events
<1>2. pc \in [Threads -> Places]
  BY DEF Places
<1>3. batch \in [Threads -> Seq(Events)] /\ \A t \in Threads : Len(batch[t]) <= BatchLimit
  BY DEF BatchLimit
<1>4. nextEvent \in 1 .. MaxEvents + 1
  OBVIOUS
<1>5. fate \in [Events -> Fates]
  BY DEF Fates
<1>6. QED
  BY <1>1, <1>2, <1>3, <1>4, <1>5

LEMMA StepKeepsTypes == TypeOK /\ [Next]_vars => TypeOK'
<1> SUFFICES ASSUME TypeOK, [Next]_vars PROVE TypeOK'
  OBVIOUS
<1> USE EventProcessorAssumption DEF TypeOK, Threads, Flushers
<1>a. "idle" \in Places /\ "auto" \in Places /\ "flush" \in Places /\ "wait" \in Places
      /\ "take" \in Places /\ "post" \in Places /\ "finish" \in Places
      /\ "close" \in Places /\ "unlatch" \in Places /\ "select" \in Places
      /\ "exited" \in Places /\ "await" \in Places /\ "wipe" \in Places
      /\ "stopped" \in Places
  BY DEF Places
<1>b. \A t : AfterFlush(t) \in Places /\ AfterDrain(t) \in Places
  BY <1>a DEF AfterFlush, AfterDrain
<1>c. "pending" \in Fates /\ "delivered" \in Fates /\ "rejected" \in Fates
      /\ "shed" \in Fates /\ "discarded" \in Fates
  BY DEF Fates
<1>d. <<>> \in Seq(Events) /\ Len(<<>>) <= BatchLimit
  BY DEF BatchLimit
<1>1. CASE Start
  BY <1>1, <1>a DEF Start
<1>2. CASE GateElapses
  BY <1>2 DEF GateElapses
<1>3. CASE TickerExit
  BY <1>3, <1>a DEF TickerExit
<1>4. CASE StopBegin
  BY <1>4, <1>a DEF StopBegin
<1>5. CASE StopAwait
  BY <1>5, <1>a DEF StopAwait
<1>6. CASE Wipe
  <2>1. fate' \in [Events -> Fates]
    BY <1>6, <1>c, BecameType DEF Wipe
  <2>2. QED
    BY <1>6, <1>a, <1>d, <2>1 DEF Wipe
<1>7. ASSUME NEW t \in Callers, Enqueue(t) PROVE TypeOK'
  <2> DEFINE grown == Append(buf, nextEvent)
  <2>1. nextEvent \in Events
    BY <1>7 DEF Enqueue, Events
  <2>2. grown \in Seq(Events)
    BY <2>1
  <2>3. buf' \in Seq(Events)
    BY <1>7, <2>2, TrimOldestFits DEF Enqueue
  <2>4. Became(Overflow(grown), "shed") \in [Events -> Fates]
    BY <1>c, BecameType
  <2>5. fate' \in [Events -> Fates]
    BY <1>7, <1>c, <2>4 DEF Enqueue
  <2>6. nextEvent' \in 1 .. MaxEvents + 1
    BY <1>7 DEF Enqueue
  <2>7. pc' \in [Threads -> Places]
    BY <1>7, <1>a DEF Enqueue
  <2>8. QED
    BY <1>7, <2>3, <2>5, <2>6, <2>7 DEF Enqueue
<1>8. ASSUME NEW t \in Callers, AutoFlush(t) PROVE TypeOK'
  <2>1. pc' \in [Threads -> Places]
    BY <1>8, <1>a DEF AutoFlush
  <2>2. autoFlushInFlight' \in BOOLEAN /\ viaAuto' \subseteq Callers
    BY <1>8 DEF AutoFlush
  <2>3. UNCHANGED <<buf, closed, gateArmed, drainDone, started, batch, joined,
                    nextEvent, fate>>
    BY <1>8 DEF AutoFlush
  <2>4. QED
    BY <2>1, <2>2, <2>3
<1>9. ASSUME NEW t \in Callers, Unlatch(t) PROVE TypeOK'
  BY <1>9, <1>a DEF Unlatch
<1>10. ASSUME NEW t \in Flushers, EnterFlush(t) PROVE TypeOK'
  <2>1. pc' \in [Threads -> Places]
    BY <1>10, <1>a DEF EnterFlush
  <2>2. /\ drainDone' \in Flushers \union {None}
        /\ joined' \in [Threads -> Flushers \union {None}]
    BY <1>10 DEF EnterFlush
  <2>3. UNCHANGED <<buf, closed, gateArmed, autoFlushInFlight, started, batch,
                    viaAuto, nextEvent, fate>>
    BY <1>10 DEF EnterFlush
  <2>4. QED
    BY <2>1, <2>2, <2>3
<1>11. ASSUME NEW t \in Flushers, EndDrain(t) PROVE TypeOK'
  BY <1>11, <1>a DEF EndDrain
<1>12. ASSUME NEW t \in Flushers, CloseDone(t) PROVE TypeOK'
  BY <1>12, <1>b DEF CloseDone
<1>13. ASSUME NEW t \in Threads, DrainBatch(t) PROVE TypeOK'
  <2>1. CASE buf = <<>>
    <3>1. pc' = [pc EXCEPT ![t] = AfterDrain(t)]
      BY <1>13, <2>1 DEF DrainBatch
    <3>2. UNCHANGED <<buf, closed, gateArmed, autoFlushInFlight, drainDone,
                      started, batch, joined, viaAuto, nextEvent, fate>>
      BY <1>13, <2>1 DEF DrainBatch
    <3>3. QED
      BY <1>b, <3>1, <3>2
  <2>2. CASE buf # <<>>
    <3> DEFINE taken == SubSeq(buf, 1, TakeCount)
    <3>1. taken \in Seq(Events) /\ Len(taken) <= BatchLimit
      BY <2>2, TakeSplits
    <3>2. SubSeq(buf, TakeCount + 1, Len(buf)) \in Seq(Events)
      BY <2>2, TakeSplits
    <3> HIDE DEF taken
    <3>3. batch' = [batch EXCEPT ![t] = taken]
      BY <1>13, <2>2 DEF DrainBatch, taken
    <3>4. pc' \in [Threads -> Places]
      BY <1>13, <1>a, <2>2 DEF DrainBatch
    <3>5. buf' \in Seq(Events)
      BY <1>13, <2>2, <3>2 DEF DrainBatch
    <3>6. /\ batch' \in [Threads -> Seq(Events)]
          /\ (\A u \in Threads : Len(batch[u]) <= BatchLimit)'
      BY <1>13, <3>1, <3>3
    <3>7. UNCHANGED <<closed, gateArmed, autoFlushInFlight, drainDone, started,
                      joined, viaAuto, nextEvent, fate>>
      BY <1>13 DEF DrainBatch
    <3>8. QED
      BY <3>4, <3>5, <3>6, <3>7
  <2>3. QED
    BY <2>1, <2>2
<1>14. ASSUME NEW t \in Threads, PostAccepted(t) PROVE TypeOK'
  <2>1. fate' \in [Events -> Fates]
    BY <1>14, <1>c, BecameType DEF PostAccepted
  <2>2. QED
    BY <1>14, <1>a, <1>d, <2>1 DEF PostAccepted
<1>15. ASSUME NEW t \in Threads, PostRejected(t) PROVE TypeOK'
  <2>1. fate' \in [Events -> Fates]
    BY <1>15, <1>c, BecameType DEF PostRejected
  <2>2. QED
    BY <1>15, <1>a, <1>b, <1>d, <2>1 DEF PostRejected
<1>16. ASSUME NEW t \in Threads, PostRetryable(t) PROVE TypeOK'
  <2> DEFINE combined == batch[t] \o buf
  <2>1. combined \in Seq(Events)
    OBVIOUS
  <2>2. fate' \in [Events -> Fates]
    BY <1>16, <1>c, BecameType DEF PostRetryable, Requeue
  <2>3. buf' \in Seq(Events) /\ gateArmed' \in BOOLEAN
    BY <1>16, <2>1, TrimOldestFits DEF PostRetryable, Requeue
  <2>4. QED
    BY <1>16, <1>b, <1>d, <2>2, <2>3 DEF PostRetryable
<1>17. CASE UNCHANGED vars
  BY <1>17 DEF vars
<1>18. QED
  BY <1>1, <1>2, <1>3, <1>4, <1>5, <1>6, <1>7, <1>8, <1>9, <1>10, <1>11, <1>12,
     <1>13, <1>14, <1>15, <1>16, <1>17 DEF Next, Stop, Reply

\* Every variable keeps its type in every behaviour, and no request carries
\* more than one batch.
THEOREM TypeCorrect == Spec => []TypeOK
BY InitTypes, StepKeepsTypes, PTL DEF Spec

-----------------------------------------------------------------------------
(* At most one drain until stop() begins.                                  *)

LEMMA ThreadsDistinct == Stopper \notin Flushers /\ None \notin Flushers /\ Ticker \in Flushers
BY EventProcessorAssumption DEF Flushers

LEMMA AfterPlaces ==
    /\ \A t : AfterFlush(t) \notin Draining /\ AfterFlush(t) # "post"
    /\ \A t : t # Stopper => AfterDrain(t) = "finish"
    /\ AfterDrain(Stopper) = "wipe"
BY DEF AfterFlush, AfterDrain, Draining

LEMMA InitOwner == Init => DrainOwner
BY ThreadsDistinct DEF Init, DrainOwner, Draining, StopperPlaces, Threads

\* A drain step of a flusher keeps it inside its drain or moves it to finish;
\* a drain step of the stopper keeps it inside stop().
LEMMA DrainStepKeepsOwner ==
    ASSUME TypeOK, DrainOwner, NEW t \in Threads,
           pc[t] = "take" \/ pc[t] = "post",
           \/ pc' = [pc EXCEPT ![t] = "take"]
           \/ pc' = [pc EXCEPT ![t] = "post"]
           \/ pc' = [pc EXCEPT ![t] = AfterDrain(t)],
           UNCHANGED <<drainDone, closed, started>>
    PROVE  DrainOwner'
<1> USE ThreadsDistinct, AfterPlaces DEF TypeOK, Draining, Threads
<1>1. CASE t = Stopper
  <2>1. pc'[Stopper] \in StopperPlaces /\ pc'[Stopper] # "idle" /\ closed'
    BY <1>1 DEF DrainOwner, StopperPlaces
  <2>2. \A u \in Flushers : pc'[u] = pc[u]
    BY <1>1
  <2>3. QED
    BY <2>1, <2>2 DEF DrainOwner
<1>2. CASE t # Stopper
  <2>1. t \in Flushers /\ drainDone = t /\ pc'[t] \in Draining
    BY <1>2 DEF DrainOwner
  <2>2. \A u \in Threads \ {t} : pc'[u] = pc[u]
    OBVIOUS
  <2>3. QED
    BY <2>1, <2>2 DEF DrainOwner
<1>3. QED
  BY <1>1, <1>2

LEMMA StepKeepsOwner == TypeOK /\ DrainOwner /\ [Next]_vars => DrainOwner'
<1> SUFFICES ASSUME TypeOK, DrainOwner, [Next]_vars PROVE DrainOwner'
  OBVIOUS
<1> USE ThreadsDistinct, AfterPlaces DEF TypeOK, Threads, Draining
<1>a. \A t \in Threads : pc[t] \in Places
  OBVIOUS
<1>1. CASE Start
  <2>1. pc[Ticker] = "off" /\ drainDone # Ticker
    BY <1>1 DEF Start, DrainOwner
  <2>2. QED
    BY <1>1, <2>1 DEF Start, DrainOwner
<1>2. CASE GateElapses
  BY <1>2 DEF GateElapses, DrainOwner
<1>3. CASE TickerExit
  BY <1>3 DEF TickerExit, DrainOwner
<1>4. CASE StopBegin
  BY <1>4 DEF StopBegin, DrainOwner, StopperPlaces
<1>5. CASE StopAwait
  BY <1>5 DEF StopAwait, DrainOwner, StopperPlaces
<1>6. CASE Wipe
  BY <1>6 DEF Wipe, DrainOwner, StopperPlaces
<1>7. ASSUME NEW t \in Callers, Enqueue(t) PROVE DrainOwner'
  <2>1. pc[t] = "idle" /\ t \in Flushers /\ UNCHANGED <<drainDone, closed, started>>
    BY <1>7 DEF Enqueue, Flushers
  <2>2. pc' = [pc EXCEPT ![t] = "auto"] \/ pc' = [pc EXCEPT ![t] = "idle"]
    BY <1>7 DEF Enqueue
  <2>3. QED
    BY <2>1, <2>2 DEF DrainOwner
<1>8. ASSUME NEW t \in Callers, AutoFlush(t) PROVE DrainOwner'
  <2>1. pc[t] = "auto" /\ t \in Flushers /\ UNCHANGED <<drainDone, closed, started>>
    BY <1>8 DEF AutoFlush, Flushers
  <2>2. pc' = [pc EXCEPT ![t] = "flush"] \/ pc' = [pc EXCEPT ![t] = "idle"]
    BY <1>8 DEF AutoFlush
  <2>3. QED
    BY <2>1, <2>2 DEF DrainOwner
<1>9. ASSUME NEW t \in Callers, Unlatch(t) PROVE DrainOwner'
  <2>1. t \in Flushers
    BY DEF Flushers
  <2>2. QED
    BY <1>9, <2>1 DEF Unlatch, DrainOwner
<1>10. ASSUME NEW t \in Flushers, EnterFlush(t) PROVE DrainOwner'
  <2>0. pc[t] \notin Draining /\ pc[t] # "off" /\ UNCHANGED <<closed, started>>
    BY <1>10 DEF EnterFlush, AtFlush
  <2>1. CASE drainDone # None
    <3>1. drainDone' = drainDone /\ pc' = [pc EXCEPT ![t] = "wait"]
      BY <1>10, <2>1 DEF EnterFlush
    <3>2. QED
      BY <2>0, <3>1 DEF DrainOwner
  <2>2. CASE drainDone = None
    <3>1. drainDone' = t /\ pc' = [pc EXCEPT ![t] = "take"]
      BY <1>10, <2>2 DEF EnterFlush
    <3>2. \A u \in Flushers : pc[u] \notin Draining
      BY <2>2 DEF DrainOwner
    <3>3. QED
      BY <2>0, <3>1, <3>2 DEF DrainOwner
  <2>3. QED
    BY <2>1, <2>2
<1>11. ASSUME NEW t \in Flushers, EndDrain(t) PROVE DrainOwner'
  <2>1. drainDone = t
    BY <1>11 DEF EndDrain, DrainOwner
  <2>2. QED
    BY <1>11, <2>1 DEF EndDrain, DrainOwner
<1>12. ASSUME NEW t \in Flushers, CloseDone(t) PROVE DrainOwner'
  <2>1. /\ UNCHANGED <<drainDone, closed, started>>
        /\ pc'[Stopper] = pc[Stopper]
        /\ pc[Ticker] = "off" => pc'[Ticker] = "off"
    BY <1>12 DEF CloseDone
  <2>2. \A u \in Flushers : pc'[u] \in Draining <=> pc[u] \in Draining
    BY <1>12 DEF CloseDone
  <2>3. QED
    BY <2>1, <2>2 DEF DrainOwner
<1>13. ASSUME NEW t \in Threads, DrainBatch(t) PROVE DrainOwner'
  <2>1. pc[t] = "take" /\ UNCHANGED <<drainDone, closed, started>>
    BY <1>13 DEF DrainBatch
  <2>2. pc' = [pc EXCEPT ![t] = "post"] \/ pc' = [pc EXCEPT ![t] = AfterDrain(t)]
    BY <1>13 DEF DrainBatch
  <2>3. QED
    BY <2>1, <2>2, DrainStepKeepsOwner
<1>14. ASSUME NEW t \in Threads, Reply(t) PROVE DrainOwner'
  <2>1. pc[t] = "post" /\ UNCHANGED <<drainDone, closed, started>>
    BY <1>14 DEF Reply, PostAccepted, PostRejected, PostRetryable
  <2>2. pc' = [pc EXCEPT ![t] = "take"] \/ pc' = [pc EXCEPT ![t] = AfterDrain(t)]
    BY <1>14 DEF Reply, PostAccepted, PostRejected, PostRetryable
  <2>3. QED
    BY <2>1, <2>2, DrainStepKeepsOwner
<1>15. CASE UNCHANGED vars
  BY <1>15 DEF vars, DrainOwner
<1>16. QED
  BY <1>1, <1>2, <1>3, <1>4, <1>5, <1>6, <1>7, <1>8, <1>9, <1>10, <1>11, <1>12,
     <1>13, <1>14, <1>15 DEF Next, Stop

LEMMA OwnerExcludes == DrainOwner => OneDrainUntilClosed
BY DEF DrainOwner, OneDrainUntilClosed, Draining, Threads

\* Until stop() begins no two goroutines are inside the drain loop.
THEOREM OneDrain == Spec => []OneDrainUntilClosed
<1>1. Spec => []DrainOwner
  BY TypeCorrect, InitOwner, StepKeepsOwner, PTL DEF Spec
<1>2. QED
  BY <1>1, OwnerExcludes, PTL

-----------------------------------------------------------------------------
(* The memory bound.                                                       *)

\* How a step may change the buffer: it leaves it, empties it, shortens it,
\* or, while open, refills it up to the bound.
BufferStep ==
    \/ buf' = buf
    \/ buf' = <<>>
    \/ buf # <<>> /\ Len(buf') <= Len(buf)
    \/ ~closed /\ Len(buf') <= MaxQueueSize

LEMMA StepsOfBuffer == TypeOK /\ [Next]_vars => BufferStep
<1> SUFFICES ASSUME TypeOK, [Next]_vars PROVE BufferStep
  OBVIOUS
<1>1. ASSUME NEW t \in Callers, Enqueue(t) PROVE BufferStep
  <2> DEFINE grown == Append(buf, nextEvent)
  <2>1. ~closed /\ buf' = TrimOldest(grown)
    BY <1>1 DEF Enqueue
  <2>2. nextEvent \in Events
    BY <1>1 DEF Enqueue, TypeOK, Events
  <2>3. grown \in Seq(Events)
    BY <2>2 DEF TypeOK
  <2>4. QED
    BY <2>1, <2>3, TrimOldestFits DEF BufferStep
<1>2. ASSUME NEW t \in Threads, DrainBatch(t) PROVE BufferStep
  <2>1. CASE buf = <<>>
    BY <1>2, <2>1 DEF DrainBatch, BufferStep
  <2>2. CASE buf # <<>>
    <3>1. buf' = SubSeq(buf, TakeCount + 1, Len(buf))
      BY <1>2, <2>2 DEF DrainBatch
    <3>2. Len(buf') = Len(buf) - TakeCount /\ TakeCount \in 1 .. Len(buf)
      BY <2>2, <3>1, TakeSplits DEF TypeOK
    <3>3. Len(buf') <= Len(buf)
      BY <3>2 DEF TypeOK
    <3>4. QED
      BY <2>2, <3>3 DEF BufferStep
  <2>3. QED
    BY <2>1, <2>2
<1>3. ASSUME NEW t \in Threads, PostRetryable(t) PROVE BufferStep
  <2> DEFINE combined == batch[t] \o buf
  <2>1. combined \in Seq(Events)
    BY DEF TypeOK
  <2>2. buf' = buf \/ (~closed /\ buf' = TrimOldest(combined))
    BY <1>3 DEF PostRetryable, Requeue
  <2>3. QED
    BY <2>1, <2>2, TrimOldestFits DEF BufferStep
<1>4. CASE Wipe
  BY <1>4 DEF Wipe, BufferStep
<1>5. CASE Start \/ GateElapses \/ TickerExit \/ StopBegin \/ StopAwait
  BY <1>5 DEF Start, GateElapses, TickerExit, StopBegin, StopAwait, BufferStep
<1>6. ASSUME NEW t, AutoFlush(t) \/ Unlatch(t) \/ EnterFlush(t) \/ EndDrain(t)
                    \/ CloseDone(t) \/ PostAccepted(t) \/ PostRejected(t)
      PROVE  BufferStep
  BY <1>6 DEF AutoFlush, Unlatch, EnterFlush, EndDrain, CloseDone, PostAccepted,
              PostRejected, BufferStep
<1>7. CASE UNCHANGED vars
  BY <1>7 DEF vars, BufferStep
<1>8. QED
  BY <1>1, <1>2, <1>3, <1>4, <1>5, <1>6, <1>7 DEF Next, Stop, Reply

LEMMA InitBounded == Init => BufferBounded
BY EventProcessorAssumption DEF Init, BufferBounded

LEMMA StepKeepsBounded ==
    TypeOK /\ BufferBounded /\ [Next]_vars => BufferBounded'
<1> SUFFICES ASSUME TypeOK, BufferBounded, BufferStep, TypeOK' PROVE BufferBounded'
  BY StepsOfBuffer, StepKeepsTypes
<1>1. Len(buf) \in Nat /\ Len(buf') \in Nat
  BY DEF TypeOK
<1>2. QED
  BY <1>1, EventProcessorAssumption DEF BufferStep, BufferBounded

\* The buffer never holds more than MaxQueueSize events, whatever is enqueued
\* or handed back.
THEOREM BoundHolds == Spec => []BufferBounded
BY TypeCorrect, InitBounded, StepKeepsBounded, PTL DEF Spec

-----------------------------------------------------------------------------
(* A stopped processor holds nothing.                                      *)

LEMMA StopperEnds ==
    TypeOK /\ [Next]_vars /\ pc'[Stopper] = "stopped"
        => pc[Stopper] = "stopped" \/ buf' = <<>>
<1> SUFFICES ASSUME TypeOK, [Next]_vars, pc'[Stopper] = "stopped", pc[Stopper] # "stopped"
             PROVE  buf' = <<>>
  OBVIOUS
<1> USE ThreadsDistinct DEF TypeOK, Threads
<1>a. \A t : AfterFlush(t) # "stopped" /\ AfterDrain(t) # "stopped"
  BY DEF AfterFlush, AfterDrain
<1>1. CASE Wipe
  BY <1>1 DEF Wipe
<1>2. CASE Start \/ GateElapses \/ TickerExit \/ StopBegin \/ StopAwait
  BY <1>2 DEF Start, GateElapses, TickerExit, StopBegin, StopAwait
<1>3. ASSUME NEW t \in Flushers, Enqueue(t) \/ AutoFlush(t) \/ Unlatch(t)
                                 \/ EnterFlush(t) \/ EndDrain(t)
      PROVE  FALSE
  BY <1>3 DEF Enqueue, AutoFlush, Unlatch, EnterFlush, EndDrain
<1>4. ASSUME NEW t \in Flushers, CloseDone(t) PROVE FALSE
  BY <1>4 DEF CloseDone
<1>5. ASSUME NEW t \in Threads, DrainBatch(t) \/ Reply(t) PROVE FALSE
  <2>1. \/ pc' = [pc EXCEPT ![t] = "take"] \/ pc' = [pc EXCEPT ![t] = "post"]
        \/ pc' = [pc EXCEPT ![t] = AfterDrain(t)]
    BY <1>5 DEF DrainBatch, Reply, PostAccepted, PostRejected, PostRetryable
  <2>2. QED
    BY <1>a, <2>1
<1>6. CASE UNCHANGED vars
  BY <1>6 DEF vars
<1>7. QED
  BY <1>1, <1>2, <1>3, <1>4, <1>5, <1>6 DEF Next, Stop, Flushers

LEMMA StepKeepsEmpty ==
    TypeOK /\ DrainOwner /\ StoppedHoldsNothing /\ [Next]_vars => StoppedHoldsNothing'
<1> SUFFICES ASSUME TypeOK, DrainOwner, StoppedHoldsNothing, [Next]_vars,
                    pc'[Stopper] = "stopped", pc[Stopper] = "stopped"
             PROVE  buf' = <<>>
  BY StopperEnds DEF StoppedHoldsNothing
<1>1. closed /\ buf = <<>>
  BY DEF DrainOwner, StoppedHoldsNothing
<1>2. QED
  BY <1>1, StepsOfBuffer DEF BufferStep

\* After stop() the buffer stays empty: a drain that was still posting does
\* not hand its batch back.
THEOREM StoppedEmpty == Spec => []StoppedHoldsNothing
<1>1. Init => StoppedHoldsNothing
  BY DEF Init, StoppedHoldsNothing
<1>2. Spec => []DrainOwner
  BY TypeCorrect, InitOwner, StepKeepsOwner, PTL DEF Spec
<1>3. QED
  BY <1>1, <1>2, TypeCorrect, StepKeepsEmpty, PTL DEF Spec

-----------------------------------------------------------------------------
(* The latch of the size trigger.                                          *)

LatchInv == SizeTriggerLatched /\ UnlatchInFrame

LEMMA StepKeepsLatch == TypeOK /\ LatchInv /\ [Next]_vars => LatchInv'
<1> SUFFICES ASSUME TypeOK, LatchInv, [Next]_vars PROVE LatchInv'
  OBVIOUS
<1> USE ThreadsDistinct DEF TypeOK, Threads, Flushers, LatchInv
<1>1. ASSUME NEW t \in Callers, AutoFlush(t) PROVE LatchInv'
  <2>1. CASE AutoFlushBlocked
    <3>1. pc' = [pc EXCEPT ![t] = "idle"] /\ UNCHANGED <<autoFlushInFlight, viaAuto>>
      BY <1>1, <2>1 DEF AutoFlush
    <3>2. QED
      BY <3>1 DEF SizeTriggerLatched, UnlatchInFrame
  <2>2. CASE ~AutoFlushBlocked
    <3>1. viaAuto = {}
      BY <2>2 DEF AutoFlushBlocked, SizeTriggerLatched
    <3>2. pc' = [pc EXCEPT ![t] = "flush"] /\ autoFlushInFlight' = TRUE /\ viaAuto' = {t}
      BY <1>1, <2>2, <3>1 DEF AutoFlush
    <3>3. QED
      BY <3>1, <3>2 DEF SizeTriggerLatched, UnlatchInFrame
  <2>3. QED
    BY <2>1, <2>2
<1>2. ASSUME NEW t \in Callers, Unlatch(t) PROVE LatchInv'
  <2>1. viaAuto = {t}
    BY <1>2 DEF Unlatch, UnlatchInFrame, SizeTriggerLatched
  <2>2. pc' = [pc EXCEPT ![t] = "idle"] /\ autoFlushInFlight' = FALSE /\ viaAuto' = {}
    BY <1>2, <2>1 DEF Unlatch
  <2>3. \A u \in Callers : pc'[u] # "unlatch"
    BY <2>1, <2>2 DEF UnlatchInFrame
  <2>4. QED
    BY <2>2, <2>3 DEF SizeTriggerLatched, UnlatchInFrame
<1>3. ASSUME NEW t \in Flushers, CloseDone(t) PROVE LatchInv'
  <2>1. UNCHANGED <<autoFlushInFlight, viaAuto>>
    BY <1>3 DEF CloseDone
  <2>2. ASSUME NEW u \in Callers, pc'[u] = "unlatch" PROVE u \in viaAuto
    BY <1>3, <2>2 DEF CloseDone, AfterFlush, UnlatchInFrame
  <2>3. QED
    BY <2>1, <2>2 DEF SizeTriggerLatched, UnlatchInFrame
<1>4. ASSUME UNCHANGED <<autoFlushInFlight, viaAuto>>,
             \A u \in Callers : pc'[u] = "unlatch" => pc[u] = "unlatch"
      PROVE  LatchInv'
  BY <1>4 DEF SizeTriggerLatched, UnlatchInFrame
<1>5. CASE Start \/ GateElapses \/ TickerExit \/ StopBegin \/ StopAwait \/ Wipe
  BY <1>4, <1>5 DEF Start, GateElapses, TickerExit, StopBegin, StopAwait, Wipe
<1>6. ASSUME NEW t \in Flushers, Enqueue(t) \/ EnterFlush(t) \/ EndDrain(t)
      PROVE  LatchInv'
  <2>1. UNCHANGED <<autoFlushInFlight, viaAuto>>
    BY <1>6 DEF Enqueue, EnterFlush, EndDrain
  <2>2. \A u \in Callers : pc'[u] = "unlatch" => pc[u] = "unlatch"
    BY <1>6 DEF Enqueue, EnterFlush, EndDrain
  <2>3. QED
    BY <1>4, <2>1, <2>2
<1>7. ASSUME NEW t \in Threads, DrainBatch(t) \/ Reply(t) PROVE LatchInv'
  <2>1. \/ pc' = [pc EXCEPT ![t] = "take"] \/ pc' = [pc EXCEPT ![t] = "post"]
        \/ pc' = [pc EXCEPT ![t] = AfterDrain(t)]
    BY <1>7 DEF DrainBatch, Reply, PostAccepted, PostRejected, PostRetryable
  <2>2. UNCHANGED <<autoFlushInFlight, viaAuto>>
    BY <1>7 DEF DrainBatch, Reply, PostAccepted, PostRejected, PostRetryable
  <2>3. AfterDrain(t) # "unlatch"
    BY DEF AfterDrain
  <2>4. QED
    BY <1>4, <2>1, <2>2, <2>3
<1>8. CASE UNCHANGED vars
  BY <1>4, <1>8 DEF vars
<1>9. QED
  BY <1>1, <1>2, <1>3, <1>5, <1>6, <1>7, <1>8 DEF Next, Stop

\* The size trigger never runs concurrently with itself, and its latch is up
\* exactly while one of its frames runs.
THEOREM TriggerLatched == Spec => []SizeTriggerLatched
<1>1. Init => LatchInv
  BY DEF Init, LatchInv, SizeTriggerLatched, UnlatchInFrame, Threads, Flushers
<1>2. LatchInv => SizeTriggerLatched
  BY DEF LatchInv
<1>3. QED
  BY <1>1, <1>2, TypeCorrect, StepKeepsLatch, PTL DEF Spec

\* Coalescing, whichever trigger starts a drain and whoever latches it.
THEOREM DrainsAreCoalesced == Spec => []DrainsCoalesce
<1>1. OneDrainUntilClosed /\ SizeTriggerLatched => DrainsCoalesce
  BY DEF DrainsCoalesce
<1>2. QED
  BY <1>1, OneDrain, TriggerLatched, PTL

\* The buffer stays within its bound, which is zero once stop() has returned.
THEOREM BoundsAreKept == Spec => []BoundsHold
<1>1. BufferBounded /\ StoppedHoldsNothing => BoundsHold
  BY DEF BoundsHold
<1>2. QED
  BY <1>1, BoundHolds, StoppedEmpty, PTL

=============================================================================
