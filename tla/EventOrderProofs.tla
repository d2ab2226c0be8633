--------------------------- MODULE EventOrderProofs ---------------------------
(***************************************************************************)
(* Proofs that EventProcessor neither loses, duplicates nor reorders an    *)
(* event, and of what flush() and stop() promise, for every value of the   *)
(* constants.  EventPromises is EventProcessor watched, so what is proved  *)
(* of the one holds of the other.                                          *)
(***************************************************************************)
EXTENDS EventPromises, EventProcessorProofs, FiniteSetTheorems

-----------------------------------------------------------------------------
(* Sequences of events in enqueue order.                                   *)

\* What Increasing says, without DOMAIN.
LEMMA IncreasingIs ==
    ASSUME NEW s \in Seq(Events)
    PROVE  Increasing(s) <=> \A i, j \in 1 .. Len(s) : i < j => s[i] < s[j]
BY DEF Increasing

LEMMA RangeIs ==
    ASSUME NEW s \in Seq(Events)
    PROVE  Range(s) = {s[i] : i \in 1 .. Len(s)} /\ Range(s) \subseteq Events
BY DEF Range

\* An increasing sequence holds each of its events once.
LEMMA IncreasingIsInjective ==
    ASSUME NEW s \in Seq(Events), Increasing(s)
    PROVE  Len(s) = Cardinality(Range(s))
<1>1. \A i, j \in 1 .. Len(s) : i # j => s[i] # s[j]
  <2> SUFFICES ASSUME NEW i \in 1 .. Len(s), NEW j \in 1 .. Len(s), i # j PROVE s[i] # s[j]
    OBVIOUS
  <2>1. i \in Int /\ j \in Int
    OBVIOUS
  <2>2. i < j \/ j < i
    BY <2>1
  <2>3. s[i] \in Events /\ s[j] \in Events
    OBVIOUS
  <2>4. s[i] < s[j] \/ s[j] < s[i]
    BY <2>2, IncreasingIs
  <2>5. \A d, e \in Events : d < e => d # e
    BY DEF Events
  <2>6. QED
    BY <2>3, <2>4, <2>5
<1> DEFINE f == [i \in 1 .. Len(s) |-> s[i]]
<1>2. f \in Bijection(1 .. Len(s), Range(s))
  <2>1. f \in [1 .. Len(s) -> Range(s)]
    BY RangeIs
  <2>2. \A i, j \in 1 .. Len(s) : f[i] = f[j] => i = j
    BY <1>1
  <2>3. \A e \in Range(s) : \E i \in 1 .. Len(s) : f[i] = e
    BY RangeIs
  <2>4. QED
    BY <2>1, <2>2, <2>3 DEF Bijection, Injection, Surjection, IsInjective
<1>3. ExistsBijection(1 .. Len(s), Range(s))
  BY <1>2 DEF ExistsBijection
<1>4. QED
  BY <1>3, FS_CountingElements

\* Enqueue: a newer event behind the others.
LEMMA AppendKeepsOrder ==
    ASSUME NEW s \in Seq(Events), NEW e \in Events, Increasing(s), \A d \in Range(s) : d < e
    PROVE  /\ Append(s, e) \in Seq(Events)
           /\ Increasing(Append(s, e))
           /\ Range(Append(s, e)) = Range(s) \union {e}
           /\ Len(Append(s, e)) = Len(s) + 1 /\ Append(s, e)[Len(s) + 1] = e
<1> DEFINE t == Append(s, e)
<1>1. /\ t \in Seq(Events) /\ Len(t) = Len(s) + 1 /\ t[Len(s) + 1] = e
      /\ \A i \in 1 .. Len(s) : t[i] = s[i]
  OBVIOUS
<1>2. \A i \in 1 .. Len(s) : s[i] < e
  BY RangeIs
<1> HIDE DEF t
<1>3. \A i, j \in 1 .. Len(t) : i < j => t[i] < t[j]
  BY <1>1, <1>2, IncreasingIs
<1>4. Increasing(t)
  BY <1>1, <1>3, IncreasingIs
<1>5. Range(t) = Range(s) \union {e}
  BY <1>1, RangeIs
<1>6. QED
  BY <1>1, <1>4, <1>5 DEF t

\* Requeue: a batch before the newer events.
LEMMA ConcatKeepsOrder ==
    ASSUME NEW a \in Seq(Events), NEW b \in Seq(Events), Increasing(a), Increasing(b),
           \A e \in Range(a), d \in Range(b) : e < d
    PROVE  /\ a \o b \in Seq(Events)
           /\ Increasing(a \o b)
           /\ Range(a \o b) = Range(a) \union Range(b)
<1> DEFINE t == a \o b
<1>1. /\ t \in Seq(Events) /\ Len(t) = Len(a) + Len(b)
      /\ \A i \in 1 .. Len(a) : t[i] = a[i]
      /\ \A i \in Len(a) + 1 .. Len(t) : t[i] = b[i - Len(a)]
      /\ Len(a) \in Nat /\ Len(b) \in Nat
  OBVIOUS
<1>2. \A i \in 1 .. Len(a), j \in 1 .. Len(b) : a[i] < b[j]
  BY RangeIs
<1> HIDE DEF t
<1>3. ASSUME NEW i \in 1 .. Len(t), NEW j \in 1 .. Len(t), i < j PROVE t[i] < t[j]
  <2>1. CASE j <= Len(a)
    BY <1>1, <1>3, <2>1, IncreasingIs
  <2>2. CASE i <= Len(a) /\ j > Len(a)
    <3>1. j - Len(a) \in 1 .. Len(b) /\ t[j] = b[j - Len(a)] /\ t[i] = a[i] /\ i \in 1 .. Len(a)
      BY <1>1, <2>2
    <3>2. QED
      BY <1>2, <3>1
  <2>3. CASE i > Len(a)
    <3>1. /\ i - Len(a) \in 1 .. Len(b) /\ j - Len(a) \in 1 .. Len(b)
          /\ i - Len(a) < j - Len(a)
          /\ t[i] = b[i - Len(a)] /\ t[j] = b[j - Len(a)]
      BY <1>1, <1>3, <2>3
    <3>2. QED
      BY <3>1, IncreasingIs
  <2>4. QED
    BY <1>1, <2>1, <2>2, <2>3
<1>4. Increasing(t)
  BY <1>1, <1>3, IncreasingIs
<1>5. Range(t) = Range(a) \union Range(b)
  <2>1. \A i \in 1 .. Len(t) : t[i] \in Range(a) \union Range(b)
    <3> SUFFICES ASSUME NEW i \in 1 .. Len(t) PROVE t[i] \in Range(a) \union Range(b)
      OBVIOUS
    <3>1. CASE i <= Len(a)
      BY <1>1, <3>1, RangeIs
    <3>2. CASE i > Len(a)
      <4>1. i - Len(a) \in 1 .. Len(b) /\ t[i] = b[i - Len(a)]
        BY <1>1, <3>2
      <4>2. QED
        BY <4>1, RangeIs
    <3>3. QED
      BY <1>1, <3>1, <3>2
  <2>2. \A i \in 1 .. Len(a) : a[i] \in Range(t)
    BY <1>1, RangeIs
  <2>3. \A i \in 1 .. Len(b) : b[i] \in Range(t)
    <3> SUFFICES ASSUME NEW i \in 1 .. Len(b) PROVE b[i] \in Range(t)
      OBVIOUS
    <3>1. i + Len(a) \in Len(a) + 1 .. Len(t) /\ i + Len(a) - Len(a) = i
      BY <1>1
    <3>2. t[i + Len(a)] = b[i] /\ i + Len(a) \in 1 .. Len(t)
      BY <1>1, <3>1
    <3>3. QED
      BY <1>1, <3>2, RangeIs
  <2>4. \A e \in Range(t) : e \in Range(a) \union Range(b)
    BY <1>1, <2>1, RangeIs
  <2>5. \A e \in Range(a) : e \in Range(t)
    BY <2>2, RangeIs
  <2>6. \A e \in Range(b) : e \in Range(t)
    BY <2>3, RangeIs
  <2>7. QED
    BY <2>4, <2>5, <2>6
<1>6. QED
  BY <1>1, <1>4, <1>5 DEF t

\* A piece of an increasing sequence.
LEMMA PieceKeepsOrder ==
    ASSUME NEW s \in Seq(Events), Increasing(s), NEW m \in 1 .. Len(s) + 1, NEW n \in 0 .. Len(s),
           m <= n + 1
    PROVE  /\ SubSeq(s, m, n) \in Seq(Events)
           /\ Increasing(SubSeq(s, m, n))
           /\ Range(SubSeq(s, m, n)) = {s[i] : i \in m .. n}
<1> DEFINE t == SubSeq(s, m, n)
<1>1. \A i \in m .. n : s[i] \in Events
  OBVIOUS
<1>2. /\ t \in Seq(Events) /\ Len(t) = n - m + 1 /\ m \in Int /\ n \in Int /\ m >= 1 /\ n <= Len(s)
      /\ \A i \in 1 .. Len(t) : t[i] = s[m + i - 1]
  BY <1>1
<1> HIDE DEF t
<1>3. ASSUME NEW i \in 1 .. Len(t), NEW j \in 1 .. Len(t), i < j PROVE t[i] < t[j]
  <2>1. /\ m + i - 1 \in 1 .. Len(s) /\ m + j - 1 \in 1 .. Len(s) /\ m + i - 1 < m + j - 1
        /\ t[i] = s[m + i - 1] /\ t[j] = s[m + j - 1]
    BY <1>2, <1>3
  <2>2. QED
    BY <2>1, IncreasingIs
<1>4. Increasing(t)
  BY <1>2, <1>3, IncreasingIs
<1>5. Range(t) = {s[i] : i \in m .. n}
  <2>1. \A i \in 1 .. Len(t) : m + i - 1 \in m .. n
    BY <1>2
  <2>2. \A k \in m .. n : k - m + 1 \in 1 .. Len(t) /\ m + (k - m + 1) - 1 = k
    BY <1>2
  <2>3. \A k \in m .. n : s[k] = t[k - m + 1]
    BY <1>2, <2>2
  <2>4. Range(t) = {t[i] : i \in 1 .. Len(t)}
    BY <1>2, RangeIs
  <2>5. \A e \in Range(t) : e \in {s[i] : i \in m .. n}
    BY <1>2, <2>1, <2>4
  <2>6. \A k \in m .. n : s[k] \in Range(t)
    BY <2>2, <2>3, <2>4
  <2>7. QED
    BY <2>5, <2>6
<1>6. QED
  BY <1>2, <1>4, <1>5 DEF t

LEMMA EmptyKeepsOrder == Increasing(<<>>) /\ Range(<<>>) = {}
<1>1. <<>> \in Seq(Events) /\ Len(<<>>) = 0
  OBVIOUS
<1>2. Increasing(<<>>)
  BY DEF Increasing
<1>3. Range(<<>>) = {<<>>[i] : i \in 1 .. Len(<<>>)}
  BY <1>1, RangeIs
<1>4. QED
  BY <1>1, <1>2, <1>3

\* trimOldestLocked keeps the order and the newest event.
LEMMA TrimKeepsOrder ==
    ASSUME NEW s \in Seq(Events), Increasing(s)
    PROVE  /\ TrimOldest(s) \in Seq(Events)
           /\ Increasing(TrimOldest(s))
           /\ Range(TrimOldest(s)) \subseteq Range(s)
           /\ Len(s) > 0 => s[Len(s)] \in Range(TrimOldest(s))
<1>0. MaxQueueSize \in Nat /\ MaxQueueSize >= 1 /\ Len(s) \in Nat
  BY EventProcessorAssumption
<1>1. CASE Len(s) <= MaxQueueSize
  BY <1>0, <1>1, RangeIs DEF TrimOldest
<1>2. CASE ~(Len(s) <= MaxQueueSize)
  <2> DEFINE m == Len(s) - MaxQueueSize + 1
  <2>1. m \in 1 .. Len(s) + 1 /\ Len(s) \in 0 .. Len(s) /\ m <= Len(s) + 1 /\ Len(s) \in m .. Len(s)
    BY <1>0, <1>2
  <2>2. TrimOldest(s) = SubSeq(s, m, Len(s))
    BY <1>2 DEF TrimOldest
  <2>3. \A i \in m .. Len(s) : i \in 1 .. Len(s)
    BY <2>1
  <2> HIDE DEF m
  <2>4. /\ TrimOldest(s) \in Seq(Events)
        /\ Increasing(TrimOldest(s))
        /\ Range(TrimOldest(s)) = {s[i] : i \in m .. Len(s)}
    BY <2>1, <2>2, PieceKeepsOrder
  <2>5. QED
    BY <2>1, <2>3, <2>4, RangeIs
<1>3. QED
  BY <1>1, <1>2

\* drainBatch: the older part and the newer part share nothing.
LEMMA TakeKeepsOrder ==
    ASSUME buf \in Seq(Events), buf # <<>>, Increasing(buf)
    PROVE  LET old == SubSeq(buf, 1, TakeCount)
               new == SubSeq(buf, TakeCount + 1, Len(buf))
           IN  /\ old \in Seq(Events) /\ new \in Seq(Events)
               /\ Increasing(old) /\ Increasing(new)
               /\ Range(buf) = Range(old) \union Range(new)
               /\ \A e \in Range(old), d \in Range(new) : e < d
<1> DEFINE n == TakeCount
<1>1. n \in 1 .. Len(buf) /\ Len(buf) \in Nat
  BY TakeSplits
<1> HIDE DEF n
<1> DEFINE old == SubSeq(buf, 1, n)
           new == SubSeq(buf, n + 1, Len(buf))
<1>2. /\ old \in Seq(Events) /\ Increasing(old)
      /\ Range(old) = {buf[i] : i \in 1 .. n}
  <2>1. 1 \in 1 .. Len(buf) + 1 /\ n \in 0 .. Len(buf) /\ 1 <= n + 1
    BY <1>1
  <2>2. QED
    BY <2>1, PieceKeepsOrder
<1>3. /\ new \in Seq(Events) /\ Increasing(new)
      /\ Range(new) = {buf[i] : i \in n + 1 .. Len(buf)}
  <2>1. n + 1 \in 1 .. Len(buf) + 1 /\ Len(buf) \in 0 .. Len(buf) /\ n + 1 <= Len(buf) + 1
    BY <1>1
  <2>2. QED
    BY <2>1, PieceKeepsOrder
<1> HIDE DEF old, new
<1>4. \A i \in 1 .. n, j \in n + 1 .. Len(buf) : buf[i] < buf[j]
  <2> SUFFICES ASSUME NEW i \in 1 .. n, NEW j \in n + 1 .. Len(buf) PROVE buf[i] < buf[j]
    OBVIOUS
  <2>1. i \in 1 .. Len(buf) /\ j \in 1 .. Len(buf) /\ i < j
    BY <1>1
  <2>2. QED
    BY <2>1, IncreasingIs
<1>5. \A e \in Range(old), d \in Range(new) : e < d
  BY <1>2, <1>3, <1>4
<1>6. Range(buf) = Range(old) \union Range(new)
  <2>1. \A i : i \in 1 .. Len(buf) <=> i \in 1 .. n \/ i \in n + 1 .. Len(buf)
    BY <1>1
  <2>2. Range(buf) = {buf[i] : i \in 1 .. Len(buf)}
    BY RangeIs
  <2>3. \A e \in Range(buf) : e \in Range(old) \union Range(new)
    BY <1>2, <1>3, <2>1, <2>2
  <2>4. \A e \in Range(old) \union Range(new) : e \in Range(buf)
    BY <1>2, <1>3, <2>1, <2>2
  <2>5. QED
    BY <2>3, <2>4
<1>7. QED
  BY <1>2, <1>3, <1>5, <1>6 DEF n, old, new

-----------------------------------------------------------------------------
(* The strengthening: where the events are, and who holds a batch.         *)

\* Only a thread that is posting holds a batch.
Settled == \A t \in Threads : pc[t] # "post" => batch[t] = <<>>

InOrder == Increasing(buf) /\ \A t \in Threads : Increasing(batch[t])

OlderFirst ==
    ~closed => \A t \in Threads : \A e \in Range(batch[t]), d \in Range(buf) : e < d

\* The events that are still to come are those not numbered yet.
Numbered == \A e \in Events : fate[e] = "new" <=> e >= nextEvent

Accounted ==
    \A e \in Events :
        fate[e] = "pending" <=> e \in Range(buf) \/ \E t \in Threads : e \in Range(batch[t])

Apart ==
    \A t \in Threads :
        /\ Range(batch[t]) \intersect Range(buf) = {}
        /\ \A u \in Threads \ {t} : Range(batch[t]) \intersect Range(batch[u]) = {}

OrderInv == Settled /\ InOrder /\ OlderFirst /\ Numbered /\ Accounted /\ Apart

-----------------------------------------------------------------------------
(* How a step moves the events.                                            *)

LEMMA InitOrder == Init => OrderInv
<1> SUFFICES ASSUME Init PROVE OrderInv
  OBVIOUS
<1>1. Range(buf) = {} /\ Increasing(buf)
  BY EmptyKeepsOrder DEF Init
<1>2. \A t \in Threads : batch[t] = <<>>
  BY DEF Init
<1>3. \A t \in Threads : Range(batch[t]) = {} /\ Increasing(batch[t])
  BY <1>2, EmptyKeepsOrder
<1>4. \A e \in Events : fate[e] = "new"
  BY DEF Init
<1>5. Numbered
  BY <1>4 DEF Init, Numbered, Events
<1>6. QED
  BY <1>1, <1>2, <1>3, <1>4, <1>5
  DEF OrderInv, Settled, InOrder, OlderFirst, Accounted, Apart

\* What is held has been numbered.
LEMMA HeldIsOld ==
    ASSUME TypeOK, Numbered, Accounted, nextEvent \in Events
    PROVE  /\ \A e \in Range(buf) : e < nextEvent
           /\ \A t \in Threads : \A e \in Range(batch[t]) : e < nextEvent
<1>1. \A e \in Events : ~(e >= nextEvent) => e < nextEvent
  BY DEF Events
<1>2. \A e \in Range(buf) : e \in Events /\ fate[e] = "pending"
  BY RangeIs DEF Accounted, TypeOK
<1>3. \A t \in Threads : \A e \in Range(batch[t]) : e \in Events /\ fate[e] = "pending"
  BY RangeIs DEF Accounted, TypeOK
<1>4. QED
  BY <1>1, <1>2, <1>3 DEF Numbered

\* Until stop() begins, the thread inside the drain holds the only batch.
LEMMA OthersHoldNothing ==
    ASSUME TypeOK, DrainOwner, Settled, ~closed, NEW t \in Threads, pc[t] \in {"take", "post"}
    PROVE  \A u \in Threads \ {t} : batch[u] = <<>>
<1>1. t \in Flushers /\ drainDone = t
  BY DEF DrainOwner, Threads, Draining
<1>2. \A u \in Threads \ {t} : pc[u] # "post"
  BY <1>1 DEF DrainOwner, Threads, Draining
<1>3. QED
  BY <1>2 DEF Settled

\* A step that moves no event.
LEMMA QuietStep ==
    ASSUME OrderInv, UNCHANGED <<buf, batch, nextEvent, fate>>,
           closed => closed', \A t \in Threads : pc[t] = "post" => pc'[t] = "post"
    PROVE  OrderInv'
BY DEF OrderInv, Settled, InOrder, OlderFirst, Numbered, Accounted, Apart

\* A batch whose events get their fate.
LEMMA BatchSettles ==
    ASSUME TypeOK, OrderInv, NEW t \in Threads, NEW f \in Fates \ {"new", "pending"},
           pc[t] = "post", \A u \in Threads \ {t} : pc'[u] = pc[u],
           UNCHANGED <<buf, closed, nextEvent>>,
           batch' = [batch EXCEPT ![t] = <<>>],
           fate' = Became(Range(batch[t]), f)
    PROVE  OrderInv'
<1>1. batch'[t] = <<>> /\ \A u \in Threads \ {t} : batch'[u] = batch[u]
  BY DEF TypeOK
<1>2. Range(batch'[t]) = {} /\ Increasing(batch'[t])
  BY <1>1, EmptyKeepsOrder
<1>3. \A e \in Events : fate'[e] = IF e \in Range(batch[t]) THEN f ELSE fate[e]
  BY DEF Became
<1>4. Settled'
  BY <1>1 DEF OrderInv, Settled
<1>5. InOrder'
  BY <1>1, <1>2 DEF OrderInv, InOrder
<1>6. OlderFirst'
  BY <1>1, <1>2 DEF OrderInv, OlderFirst
<1>7. Numbered'
  BY <1>3 DEF OrderInv, Numbered, Accounted
<1>8. Accounted'
  <2> SUFFICES ASSUME NEW e \in Events
               PROVE  fate'[e] = "pending" <=>
                        e \in Range(buf) \/ \E u \in Threads : e \in Range(batch'[u])
    BY DEF Accounted
  <2>1. CASE e \in Range(batch[t])
    BY <1>1, <1>2, <1>3, <2>1 DEF OrderInv, Apart
  <2>2. CASE e \notin Range(batch[t])
    BY <1>1, <1>2, <1>3, <2>2 DEF OrderInv, Accounted
  <2>3. QED
    BY <2>1, <2>2
<1>9. Apart'
  BY <1>1, <1>2 DEF OrderInv, Apart
<1>10. QED
  BY <1>4, <1>5, <1>6, <1>7, <1>8, <1>9 DEF OrderInv

\* An enqueue: a new event behind the others, the overflow shed.
LEMMA EnqueueKeepsOrder ==
    ASSUME TypeOK, OrderInv, NEW t \in Callers, Enqueue(t)
    PROVE  OrderInv'
<1> DEFINE n == nextEvent
           grown == Append(buf, n)
<1>0. /\ pc[t] = "idle" /\ n <= MaxEvents /\ ~closed /\ ~closed'
      /\ buf' = TrimOldest(grown)
      /\ fate' = [Became(Overflow(grown), "shed") EXCEPT ![n] = "pending"]
      /\ nextEvent' = n + 1 /\ batch' = batch
      /\ pc' = [pc EXCEPT ![t] = IF Len(buf') >= BatchSize THEN "auto" ELSE "idle"]
  BY DEF Enqueue
<1>1. n \in Events /\ n \in Int
  BY <1>0 DEF TypeOK, Events
<1>2. /\ \A e \in Range(buf) : e < n
      /\ \A u \in Threads : \A e \in Range(batch[u]) : e < n
  BY <1>1, HeldIsOld DEF OrderInv
<1>3. buf \in Seq(Events) /\ \A u \in Threads : batch[u] \in Seq(Events)
  BY DEF TypeOK
<1>4. /\ grown \in Seq(Events) /\ Increasing(grown)
      /\ Range(grown) = Range(buf) \union {n}
      /\ Len(grown) > 0 /\ grown[Len(grown)] = n
  BY <1>1, <1>2, <1>3, AppendKeepsOrder DEF OrderInv, InOrder
<1> HIDE DEF grown
<1>5. /\ buf' \in Seq(Events) /\ Increasing(buf') /\ Range(buf') \subseteq Range(grown)
      /\ n \in Range(buf')
  BY <1>0, <1>4, TrimKeepsOrder
<1>6. Range(buf') \subseteq Range(buf) \union {n}
  BY <1>4, <1>5
<1>7. \A e \in Events : fate'[e] = IF e = n THEN "pending"
                                   ELSE IF e \in Range(grown) \ Range(buf') THEN "shed"
                                   ELSE fate[e]
  BY <1>0, <1>1 DEF Became, Overflow
<1>8. \A u \in Threads : n \notin Range(batch[u])
  BY <1>1, <1>2
<1>9. \A d, e \in Events : d < e => d # e
  BY DEF Events
<1>10. Settled'
  BY <1>0 DEF OrderInv, Settled, TypeOK
<1>11. InOrder'
  BY <1>0, <1>5 DEF OrderInv, InOrder
<1>12. OlderFirst'
  BY <1>0, <1>2, <1>6 DEF OrderInv, OlderFirst
<1>13. Numbered'
  <2> SUFFICES ASSUME NEW e \in Events PROVE fate'[e] = "new" <=> e >= n + 1
    BY <1>0 DEF Numbered
  <2>1. (e >= n + 1 <=> e >= n /\ e # n) /\ (e >= n => ~(e < n)) /\ n \in Events
    BY <1>1 DEF Events
  <2>2. fate[e] = "new" <=> e >= n
    BY DEF OrderInv, Numbered
  <2>3. e >= n /\ e # n => e \notin Range(grown)
    BY <1>2, <1>4, <2>1
  <2>4. QED
    BY <1>7, <2>1, <2>2, <2>3
<1>14. Accounted'
  <2> SUFFICES ASSUME NEW e \in Events
               PROVE  fate'[e] = "pending" <=>
                        e \in Range(buf') \/ \E u \in Threads : e \in Range(batch[u])
    BY <1>0 DEF Accounted
  <2>1. CASE e = n
    BY <1>5, <1>7, <2>1
  <2>2. CASE e # n /\ e \in Range(grown) \ Range(buf')
    <3>1. e \in Range(buf) /\ fate'[e] = "shed"
      BY <1>4, <1>7, <2>2
    <3>2. \A u \in Threads : e \notin Range(batch[u])
      BY <3>1 DEF OrderInv, Apart
    <3>3. QED
      BY <2>2, <3>1, <3>2
  <2>3. CASE e # n /\ e \notin Range(grown) \ Range(buf')
    <3>1. fate'[e] = fate[e]
      BY <1>7, <2>3
    <3>2. e \in Range(buf') <=> e \in Range(buf)
      BY <1>4, <1>6, <2>3
    <3>3. QED
      BY <3>1, <3>2 DEF OrderInv, Accounted
  <2>4. QED
    BY <2>1, <2>2, <2>3
<1>15. Apart'
  BY <1>0, <1>6, <1>8 DEF OrderInv, Apart
<1>16. QED
  BY <1>10, <1>11, <1>12, <1>13, <1>14, <1>15 DEF OrderInv

\* A drain takes the oldest events.
LEMMA TakeKeepsInv ==
    ASSUME TypeOK, DrainOwner, OrderInv, NEW t \in Threads, DrainBatch(t), buf # <<>>
    PROVE  OrderInv'
<1> DEFINE old == SubSeq(buf, 1, TakeCount)
           new == SubSeq(buf, TakeCount + 1, Len(buf))
<1>0. /\ pc[t] = "take" /\ pc' = [pc EXCEPT ![t] = "post"]
      /\ batch' = [batch EXCEPT ![t] = old] /\ buf' = new
      /\ UNCHANGED <<closed, nextEvent, fate>>
  BY DEF DrainBatch
<1>1. /\ old \in Seq(Events) /\ new \in Seq(Events)
      /\ Increasing(old) /\ Increasing(new)
      /\ Range(buf) = Range(old) \union Range(new)
      /\ \A e \in Range(old), d \in Range(new) : e < d
  BY TakeKeepsOrder DEF TypeOK, OrderInv, InOrder
<1> HIDE DEF old, new
<1>2. batch'[t] = old /\ \A u \in Threads \ {t} : batch'[u] = batch[u]
  BY <1>0 DEF TypeOK
<1>3. batch[t] = <<>>
  BY <1>0 DEF OrderInv, Settled
<1>4. Range(batch[t]) = {}
  BY <1>3, EmptyKeepsOrder
<1>5. Settled'
  BY <1>0, <1>2 DEF OrderInv, Settled, TypeOK
<1>6. InOrder'
  BY <1>0, <1>1, <1>2 DEF OrderInv, InOrder
<1>7. OlderFirst'
  <2> SUFFICES ASSUME ~closed, NEW u \in Threads, NEW e \in Range(batch'[u]), NEW d \in Range(new)
               PROVE  e < d
    BY <1>0 DEF OlderFirst
  <2>1. CASE u = t
    BY <1>1, <1>2, <2>1
  <2>2. CASE u # t
    BY <1>1, <1>2, <2>2 DEF OrderInv, OlderFirst
  <2>3. QED
    BY <2>1, <2>2
<1>8. Numbered'
  BY <1>0 DEF OrderInv, Numbered
<1>9. Accounted'
  <2> SUFFICES ASSUME NEW e \in Events
               PROVE  fate[e] = "pending" <=>
                        e \in Range(new) \/ \E u \in Threads : e \in Range(batch'[u])
    BY <1>0 DEF Accounted
  <2>1. (\E u \in Threads : e \in Range(batch'[u]))
          <=> e \in Range(old) \/ \E u \in Threads : e \in Range(batch[u])
    BY <1>2, <1>4
  <2>2. QED
    BY <1>1, <2>1 DEF OrderInv, Accounted
<1>10. Range(old) \intersect Range(new) = {}
  <2>1. \A d, e \in Events : d < e => d # e
    BY DEF Events
  <2>2. Range(old) \subseteq Events /\ Range(new) \subseteq Events
    BY <1>1, RangeIs
  <2>3. QED
    BY <1>1, <2>1, <2>2
<1>11. Apart'
  BY <1>0, <1>1, <1>2, <1>10 DEF OrderInv, Apart
<1>12. QED
  BY <1>5, <1>6, <1>7, <1>8, <1>9, <1>11 DEF OrderInv

\* A batch handed back to an open processor.
LEMMA RequeueKeepsInv ==
    ASSUME TypeOK, DrainOwner, OrderInv, NEW t \in Threads, PostRetryable(t), ~closed
    PROVE  OrderInv'
<1> DEFINE combined == batch[t] \o buf
<1>0. /\ pc[t] = "post" /\ pc' = [pc EXCEPT ![t] = AfterDrain(t)]
      /\ batch' = [batch EXCEPT ![t] = <<>>]
      /\ buf' = TrimOldest(combined)
      /\ fate' = Became(Overflow(combined), "shed")
      /\ UNCHANGED <<closed, nextEvent>>
  BY DEF PostRetryable, Requeue
<1>1. /\ \A u \in Threads \ {t} : batch[u] = <<>>
      /\ \A u \in Threads : batch'[u] = <<>>
  <2>1. \A u \in Threads \ {t} : batch[u] = <<>>
    BY <1>0, OthersHoldNothing DEF OrderInv
  <2>2. QED
    BY <1>0, <2>1 DEF TypeOK
<1>2. /\ \A u \in Threads \ {t} : Range(batch[u]) = {}
      /\ \A u \in Threads : Range(batch'[u]) = {} /\ Increasing(batch'[u])
  BY <1>1, EmptyKeepsOrder
<1>3. buf \in Seq(Events) /\ batch[t] \in Seq(Events)
  BY DEF TypeOK
<1>4. /\ combined \in Seq(Events) /\ Increasing(combined)
      /\ Range(combined) = Range(batch[t]) \union Range(buf)
  BY <1>3, ConcatKeepsOrder DEF OrderInv, InOrder, OlderFirst
<1> HIDE DEF combined
<1>5. Increasing(buf') /\ Range(buf') \subseteq Range(combined)
  BY <1>0, <1>4, TrimKeepsOrder
<1>6. \A e \in Events : fate'[e] = IF e \in Range(combined) \ Range(buf') THEN "shed" ELSE fate[e]
  BY <1>0 DEF Became, Overflow
<1>7. \A e \in Events : fate[e] = "pending" <=> e \in Range(combined)
  BY <1>2, <1>4 DEF OrderInv, Accounted
<1>8. Settled' /\ Apart'
  BY <1>1, <1>2 DEF Settled, Apart
<1>9. InOrder' /\ OlderFirst'
  BY <1>2, <1>5 DEF InOrder, OlderFirst
<1>10. Numbered'
  BY <1>0, <1>6, <1>7 DEF OrderInv, Numbered
<1>11. Accounted'
  BY <1>2, <1>5, <1>6, <1>7 DEF Accounted
<1>12. QED
  BY <1>8, <1>9, <1>10, <1>11 DEF OrderInv

\* The end of stop().
LEMMA WipeKeepsInv ==
    ASSUME TypeOK, OrderInv, Wipe
    PROVE  OrderInv'
<1>0. /\ buf' = <<>> /\ fate' = Became(Range(buf), "discarded")
      /\ pc[Stopper] = "wipe" /\ pc' = [pc EXCEPT ![Stopper] = "stopped"]
      /\ UNCHANGED <<closed, batch, nextEvent>>
  BY DEF Wipe
<1>1. Range(buf') = {} /\ Increasing(buf')
  BY <1>0, EmptyKeepsOrder
<1>2. \A e \in Events : fate'[e] = IF e \in Range(buf) THEN "discarded" ELSE fate[e]
  BY <1>0 DEF Became
<1>3. Settled'
  BY <1>0 DEF OrderInv, Settled, TypeOK
<1>4. InOrder' /\ OlderFirst' /\ Apart'
  BY <1>0, <1>1 DEF OrderInv, InOrder, OlderFirst, Apart
<1>5. Numbered'
  BY <1>0, <1>2 DEF OrderInv, Numbered, Accounted
<1>6. Accounted'
  <2> SUFFICES ASSUME NEW e \in Events
               PROVE  fate'[e] = "pending" <=> \E u \in Threads : e \in Range(batch[u])
    BY <1>0, <1>1 DEF Accounted
  <2>1. CASE e \in Range(buf)
    BY <1>2, <2>1 DEF OrderInv, Apart
  <2>2. CASE e \notin Range(buf)
    BY <1>2, <2>2 DEF OrderInv, Accounted
  <2>3. QED
    BY <2>1, <2>2
<1>7. QED
  BY <1>3, <1>4, <1>5, <1>6 DEF OrderInv

LEMMA StepKeepsOrder == TypeOK /\ DrainOwner /\ OrderInv /\ [Next]_vars => OrderInv'
<1> SUFFICES ASSUME TypeOK, DrainOwner, OrderInv, [Next]_vars PROVE OrderInv'
  OBVIOUS
<1>1. CASE Start \/ GateElapses \/ TickerExit \/ StopBegin \/ StopAwait
  <2>1. UNCHANGED <<buf, batch, nextEvent, fate>> /\ (closed => closed')
    BY <1>1 DEF Start, GateElapses, TickerExit, StopBegin, StopAwait
  <2>2. \A t \in Threads : pc[t] = "post" => pc'[t] = "post"
    BY <1>1 DEF Start, GateElapses, TickerExit, StopBegin, StopAwait, TypeOK, DrainOwner
  <2>3. QED
    BY <2>1, <2>2, QuietStep
<1>2. CASE Wipe
  BY <1>2, WipeKeepsInv
<1>3. ASSUME NEW t \in Callers, Enqueue(t) PROVE OrderInv'
  BY <1>3, EnqueueKeepsOrder
<1>4. ASSUME NEW t \in Flushers, AutoFlush(t) \/ Unlatch(t) \/ EnterFlush(t) \/ EndDrain(t)
      PROVE  OrderInv'
  <2>1. UNCHANGED <<buf, batch, nextEvent, fate, closed>>
    BY <1>4 DEF AutoFlush, Unlatch, EnterFlush, EndDrain
  <2>2. pc[t] # "post" /\ \A u \in Threads \ {t} : pc'[u] = pc[u]
    BY <1>4 DEF AutoFlush, Unlatch, EnterFlush, EndDrain, AtFlush, TypeOK
  <2>3. \A u \in Threads : pc[u] = "post" => pc'[u] = "post"
    BY <2>2
  <2>4. QED
    BY <2>1, <2>3, QuietStep
<1>5. ASSUME NEW t \in Flushers, CloseDone(t) PROVE OrderInv'
  <2>1. UNCHANGED <<buf, batch, nextEvent, fate, closed>>
    BY <1>5 DEF CloseDone
  <2>2. \A u \in Threads : pc[u] = "post" => pc'[u] = "post"
    BY <1>5 DEF CloseDone
  <2>3. QED
    BY <2>1, <2>2, QuietStep
<1>6. ASSUME NEW t \in Threads, DrainBatch(t) PROVE OrderInv'
  <2>1. CASE buf = <<>>
    <3>1. /\ UNCHANGED <<buf, batch, nextEvent, fate, closed>>
          /\ pc[t] = "take" /\ \A u \in Threads \ {t} : pc'[u] = pc[u]
      BY <1>6, <2>1 DEF DrainBatch, TypeOK
    <3>2. \A u \in Threads : pc[u] = "post" => pc'[u] = "post"
      BY <3>1
    <3>3. QED
      BY <3>1, <3>2, QuietStep
  <2>2. QED
    BY <1>6, <2>1, TakeKeepsInv
<1>7. ASSUME NEW t \in Threads, PostAccepted(t) PROVE OrderInv'
  <2>1. /\ pc[t] = "post" /\ \A u \in Threads \ {t} : pc'[u] = pc[u]
        /\ UNCHANGED <<buf, closed, nextEvent>> /\ batch' = [batch EXCEPT ![t] = <<>>]
        /\ fate' = Became(Range(batch[t]), "delivered")
    BY <1>7 DEF PostAccepted, TypeOK
  <2>2. "delivered" \in Fates \ {"new", "pending"}
    BY DEF Fates
  <2>3. QED
    BY <2>1, <2>2, BatchSettles
<1>8. ASSUME NEW t \in Threads, PostRejected(t) PROVE OrderInv'
  <2>1. /\ pc[t] = "post" /\ \A u \in Threads \ {t} : pc'[u] = pc[u]
        /\ UNCHANGED <<buf, closed, nextEvent>> /\ batch' = [batch EXCEPT ![t] = <<>>]
        /\ fate' = Became(Range(batch[t]), "rejected")
    BY <1>8 DEF PostRejected, TypeOK
  <2>2. "rejected" \in Fates \ {"new", "pending"}
    BY DEF Fates
  <2>3. QED
    BY <2>1, <2>2, BatchSettles
<1>9. ASSUME NEW t \in Threads, PostRetryable(t) PROVE OrderInv'
  <2>1. CASE closed
    <3>1. /\ pc[t] = "post" /\ \A u \in Threads \ {t} : pc'[u] = pc[u]
          /\ UNCHANGED <<buf, closed, nextEvent>> /\ batch' = [batch EXCEPT ![t] = <<>>]
          /\ fate' = Became(Range(batch[t]), "discarded")
      BY <1>9, <2>1 DEF PostRetryable, Requeue, TypeOK
    <3>2. "discarded" \in Fates \ {"new", "pending"}
      BY DEF Fates
    <3>3. QED
      BY <3>1, <3>2, BatchSettles
  <2>2. QED
    BY <1>9, <2>1, RequeueKeepsInv
<1>10. CASE UNCHANGED vars
  BY <1>10, QuietStep DEF vars
<1>11. QED
  BY <1>1, <1>2, <1>3, <1>4, <1>5, <1>6, <1>7, <1>8, <1>9, <1>10
  DEF Next, Stop, Reply, Flushers

LEMMA OrderHolds == Spec => [](TypeOK /\ OrderInv)
<1>1. Spec => []DrainOwner
  BY TypeCorrect, InitOwner, StepKeepsOwner, PTL DEF Spec
<1>2. QED
  BY <1>1, TypeCorrect, InitOrder, StepKeepsOrder, PTL DEF Spec

-----------------------------------------------------------------------------
(* What it gives.                                                          *)

\* Until stop() begins, everything in flight is older than everything in the
\* buffer, and each is in enqueue order: a batch handed back goes ahead.
THEOREM EventsInOrder == Spec => []BufferOrdered
<1>1. OrderInv => BufferOrdered
  <2> SUFFICES ASSUME OrderInv PROVE BufferOrdered
    OBVIOUS
  <2>1. ~closed => \A e \in InFlight, d \in Range(buf) : e < d
    BY DEF OrderInv, OlderFirst, InFlight
  <2>2. QED
    BY <2>1 DEF OrderInv, InOrder, BufferOrdered
<1>2. QED
  BY <1>1, OrderHolds, PTL

\* Every event with no fate yet is in the buffer or in one thread's batch, once.
THEOREM NothingIsLost == Spec => []NothingVanishes
<1>1. TypeOK /\ OrderInv => NothingVanishes
  <2> SUFFICES ASSUME TypeOK, OrderInv PROVE NothingVanishes
    OBVIOUS
  <2>1. buf \in Seq(Events) /\ \A t \in Threads : batch[t] \in Seq(Events)
    BY DEF TypeOK
  <2>2. /\ Len(buf) = Cardinality(Range(buf))
        /\ \A t \in Threads : Len(batch[t]) = Cardinality(Range(batch[t]))
    BY <2>1, IncreasingIsInjective DEF OrderInv, InOrder
  <2>3. Range(buf) \subseteq Events /\ \A t \in Threads : Range(batch[t]) \subseteq Events
    BY <2>1, RangeIs
  <2>4. Pending = Range(buf) \union InFlight
    BY <2>3 DEF OrderInv, Accounted, Pending, InFlight
  <2>5. QED
    BY <2>2, <2>4 DEF OrderInv, Apart, NothingVanishes
<1>2. QED
  BY <1>1, OrderHolds, PTL

-----------------------------------------------------------------------------
(* The threads implement the pipeline of EventPipeline.                    *)

\* trimOldestLocked sheds only events that MaxQueueSize newer ones outlive.
LEMMA ShedIsOutlived ==
    ASSUME NEW s \in Seq(Events), Increasing(s), NEW e \in Overflow(s)
    PROVE  /\ \A d \in Range(TrimOldest(s)) : d > e
           /\ Cardinality(Range(TrimOldest(s))) = MaxQueueSize
<1>0. MaxQueueSize \in Nat /\ MaxQueueSize >= 1 /\ Len(s) \in Nat
  BY EventProcessorAssumption
<1> DEFINE m == Len(s) - MaxQueueSize + 1
<1>1. ~(Len(s) <= MaxQueueSize)
  BY DEF Overflow, TrimOldest
<1>2. m \in 1 .. Len(s) + 1 /\ Len(s) \in 0 .. Len(s) /\ m <= Len(s) + 1
  BY <1>0, <1>1
<1>3. TrimOldest(s) = SubSeq(s, m, Len(s)) /\ Len(SubSeq(s, m, Len(s))) = MaxQueueSize
  BY <1>0, <1>1, <1>2 DEF TrimOldest
<1> HIDE DEF m
<1>4. /\ TrimOldest(s) \in Seq(Events) /\ Increasing(TrimOldest(s))
      /\ Range(TrimOldest(s)) = {s[i] : i \in m .. Len(s)}
  BY <1>2, <1>3, PieceKeepsOrder
<1>5. Cardinality(Range(TrimOldest(s))) = MaxQueueSize
  BY <1>3, <1>4, IncreasingIsInjective
<1>6. PICK j \in 1 .. Len(s) : e = s[j]
  BY RangeIs DEF Overflow
<1>7. ~(j \in m .. Len(s))
  BY <1>4, <1>6 DEF Overflow
<1>8. \A i \in m .. Len(s) : i \in 1 .. Len(s) /\ j < i
  BY <1>2, <1>7
<1>9. \A i \in m .. Len(s) : s[i] \in Events /\ e \in Events /\ e < s[i]
  BY <1>6, <1>8, IncreasingIs
<1>10. \A d, f \in Events : f < d => d > f
  BY DEF Events
<1>11. QED
  BY <1>4, <1>5, <1>9, <1>10

LEMMA SameCardinality == \A S : Pipeline!Cardinality(S) = Cardinality(S)
BY DEF Pipeline!Cardinality, Cardinality

\* ... which is what the pipeline allows.
LEMMA OverflowMayBeShed ==
    ASSUME NEW s \in Seq(Events), Increasing(s), NEW waiting \in SUBSET Events,
           Range(s) \subseteq waiting
    PROVE  Pipeline!MayShed(Overflow(s), waiting)
<1> SUFFICES ASSUME NEW e \in Overflow(s)
             PROVE  Cardinality({d \in waiting \ Overflow(s) : d > e}) >= MaxQueueSize
  BY SameCardinality DEF Pipeline!MayShed, Pipeline!Newer
<1> DEFINE kept == Range(TrimOldest(s))
           newer == {d \in waiting \ Overflow(s) : d > e}
<1>1. (\A d \in kept : d > e) /\ Cardinality(kept) = MaxQueueSize
  BY ShedIsOutlived
<1>2. kept \subseteq waiting /\ kept \intersect Overflow(s) = {}
  BY TrimKeepsOrder DEF Overflow
<1>3. kept \subseteq newer
  BY <1>1, <1>2
<1>4. IsFiniteSet(Events)
  BY EventProcessorAssumption, FS_Interval DEF Events
<1>5. newer \subseteq Events
  OBVIOUS
<1> HIDE DEF kept, newer
<1>6. IsFiniteSet(newer)
  BY <1>4, <1>5, FS_Subset
<1>7. Cardinality(kept) <= Cardinality(newer) /\ Cardinality(newer) \in Nat
  BY <1>3, <1>6, FS_Subset, FS_CardinalityType
<1>8. QED
  BY <1>1, <1>7, EventProcessorAssumption DEF newer

LEMMA PendingIsHeld ==
    ASSUME TypeOK, OrderInv
    PROVE  Pipeline!Having("pending") = {e \in Events :
               e \in Range(buf) \/ \E t \in Threads : e \in Range(batch[t])}
BY DEF Pipeline!Having, Pipeline!Events, Events, OrderInv, Accounted

LEMMA EnqueueImplements ==
    ASSUME TypeOK, OrderInv, NEW t \in Callers, Enqueue(t)
    PROVE  Pipeline!Accept
<1> DEFINE n == nextEvent
           grown == Append(buf, n)
           S == Overflow(grown)
<1>0. /\ n <= MaxEvents /\ ~closed /\ closed' = closed
      /\ buf' = TrimOldest(grown)
      /\ fate' = [Became(S, "shed") EXCEPT ![n] = "pending"]
  BY DEF Enqueue
<1>1. n \in Events
  BY <1>0 DEF TypeOK, Events
<1>2. \A e \in Range(buf) : e < n
  BY <1>1, HeldIsOld DEF OrderInv
<1>3. /\ grown \in Seq(Events) /\ Increasing(grown)
      /\ Range(grown) = Range(buf) \union {n}
      /\ Len(grown) > 0 /\ grown[Len(grown)] = n
  BY <1>1, <1>2, AppendKeepsOrder DEF TypeOK, OrderInv, InOrder
<1>4. fate' = [d \in Events |-> IF d = n THEN "pending" ELSE IF d \in S THEN "shed" ELSE fate[d]]
  BY <1>0, <1>1 DEF Became
<1> HIDE DEF grown
<1>5. S \subseteq Range(buf)
  BY <1>3, TrimKeepsOrder DEF Overflow
<1>6. /\ n \in Pipeline!Having("new")
      /\ \A d \in Pipeline!Having("new") : n <= d
  <2>1. \A d \in Events : d >= n => n <= d
    BY <1>1 DEF Events
  <2>2. n >= n
    BY <1>1 DEF Events
  <2>3. QED
    BY <1>1, <2>1, <2>2 DEF Pipeline!Having, Pipeline!Events, Events, OrderInv, Numbered
<1>7. S \subseteq Pipeline!Having("pending") /\ S \subseteq Events
  BY <1>5, PendingIsHeld, RangeIs DEF TypeOK
<1> DEFINE waiting == Pipeline!Having("pending") \union {n}
<1>8. waiting \subseteq Events /\ Range(grown) \subseteq waiting
  BY <1>1, <1>3, PendingIsHeld, RangeIs DEF TypeOK
<1>9. Pipeline!MayShed(S, waiting)
  BY <1>3, <1>8, OverflowMayBeShed
<1> HIDE DEF S, n
<1>10. QED
  BY <1>0, <1>4, <1>6, <1>7, <1>9 DEF Pipeline!Accept, Pipeline!Events, Events

\* An answer settles the oldest pending events, at most a batch of them.
LEMMA ReplyImplements ==
    ASSUME TypeOK, DrainOwner, OrderInv, NEW t \in Threads,
           NEW f \in {"delivered", "rejected"}, pc[t] = "post",
           closed' = closed, fate' = Became(Range(batch[t]), f)
    PROVE  Pipeline!Settle \/ UNCHANGED Pipeline!vars
<1> DEFINE S == Range(batch[t])
<1>1. fate' = [e \in Events |-> IF e \in S THEN f ELSE fate[e]]
  BY DEF Became
<1>2. S \subseteq Events /\ Cardinality(S) <= BatchLimit
  BY RangeIs, IncreasingIsInjective DEF TypeOK, OrderInv, InOrder
<1>3. S \subseteq Pipeline!Having("pending")
  BY <1>2, PendingIsHeld
<1>4. ASSUME ~closed, NEW e \in S, NEW d \in Pipeline!Having("pending") \ S PROVE e < d
  <2>1. \A u \in Threads \ {t} : Range(batch[u]) = {}
    BY <1>4, OthersHoldNothing, EmptyKeepsOrder DEF OrderInv
  <2>2. d \in Range(buf)
    BY <2>1, PendingIsHeld
  <2>3. QED
    BY <1>4, <2>2 DEF OrderInv, OlderFirst
<1>5. CASE S = {}
  <2>1. fate' = fate
    BY <1>1, <1>5 DEF TypeOK
  <2>2. QED
    BY <2>1 DEF Pipeline!vars
<1> HIDE DEF S
<1>6. CASE S # {}
  BY <1>1, <1>2, <1>3, <1>4, <1>6, SameCardinality DEF Pipeline!Settle, Pipeline!Events, Events
<1>7. QED
  BY <1>5, <1>6

LEMMA RequeueImplements ==
    ASSUME TypeOK, DrainOwner, OrderInv, NEW t \in Threads, PostRetryable(t), ~closed
    PROVE  Pipeline!Shed \/ UNCHANGED Pipeline!vars
<1> DEFINE combined == batch[t] \o buf
           S == Overflow(combined)
<1>0. fate' = [e \in Events |-> IF e \in S THEN "shed" ELSE fate[e]] /\ closed' = closed
  BY DEF PostRetryable, Requeue, Became
<1>1. /\ combined \in Seq(Events) /\ Increasing(combined)
      /\ Range(combined) = Range(batch[t]) \union Range(buf)
  BY ConcatKeepsOrder DEF TypeOK, OrderInv, InOrder, OlderFirst
<1>2. Range(combined) \subseteq Events
  BY <1>1, RangeIs
<1>3. Range(combined) \subseteq Pipeline!Having("pending")
  BY <1>1, <1>2, PendingIsHeld
<1>4. Pipeline!Having("pending") \subseteq Events
  BY PendingIsHeld
<1> HIDE DEF combined
<1>5. Pipeline!MayShed(S, Pipeline!Having("pending"))
  BY <1>1, <1>3, <1>4, OverflowMayBeShed
<1>6. S \subseteq Pipeline!Having("pending")
  BY <1>3 DEF Overflow
<1>7. CASE S = {}
  <2>1. fate' = fate
    BY <1>0, <1>7 DEF TypeOK
  <2>2. QED
    BY <1>0, <2>1 DEF Pipeline!vars
<1> HIDE DEF S
<1>8. CASE S # {}
  BY <1>0, <1>5, <1>6, <1>8 DEF Pipeline!Shed, Pipeline!Events, Events
<1>9. QED
  BY <1>7, <1>8

\* A closed processor gives up on what it holds.
LEMMA DiscardImplements ==
    ASSUME TypeOK, OrderInv, NEW S \in SUBSET Pipeline!Having("pending"), closed,
           closed' = closed, fate' = Became(S, "discarded")
    PROVE  Pipeline!Discard \/ UNCHANGED Pipeline!vars
<1>1. fate' = [e \in Events |-> IF e \in S THEN "discarded" ELSE fate[e]]
  BY DEF Became
<1>2. CASE S = {}
  <2>1. fate' = fate
    BY <1>1, <1>2 DEF TypeOK
  <2>2. QED
    BY <2>1 DEF Pipeline!vars
<1>3. CASE S # {}
  BY <1>1, <1>3 DEF Pipeline!Discard, Pipeline!Events, Events
<1>4. QED
  BY <1>2, <1>3

LEMMA StepImplementsPipeline ==
    TypeOK /\ DrainOwner /\ OrderInv /\ [Next]_vars => [Pipeline!Next]_Pipeline!vars
<1> SUFFICES ASSUME TypeOK, DrainOwner, OrderInv, [Next]_vars
             PROVE  Pipeline!Next \/ UNCHANGED Pipeline!vars
  OBVIOUS
<1>1. ASSUME UNCHANGED <<closed, fate>> PROVE UNCHANGED Pipeline!vars
  BY <1>1 DEF Pipeline!vars
<1>2. CASE Start \/ GateElapses \/ TickerExit \/ StopAwait
  BY <1>1, <1>2 DEF Start, GateElapses, TickerExit, StopAwait
<1>3. CASE StopBegin
  <2>1. CASE closed
    BY <1>1, <1>3, <2>1 DEF StopBegin, TypeOK
  <2>2. CASE ~closed
    BY <1>3, <2>2 DEF StopBegin, TypeOK, Pipeline!Close, Pipeline!Next
  <2>3. QED
    BY <2>1, <2>2
<1>4. CASE Wipe
  <2>1. closed /\ closed' = closed /\ fate' = Became(Range(buf), "discarded")
    BY <1>4 DEF Wipe, DrainOwner
  <2>2. Range(buf) \subseteq Pipeline!Having("pending")
    BY PendingIsHeld, RangeIs DEF TypeOK
  <2>3. QED
    BY <2>1, <2>2, DiscardImplements DEF Pipeline!Next
<1>5. ASSUME NEW t \in Callers, Enqueue(t) PROVE Pipeline!Next
  BY <1>5, EnqueueImplements DEF Pipeline!Next
<1>6. ASSUME NEW t \in Flushers,
             AutoFlush(t) \/ Unlatch(t) \/ EnterFlush(t) \/ EndDrain(t) \/ CloseDone(t)
      PROVE  UNCHANGED Pipeline!vars
  BY <1>1, <1>6 DEF AutoFlush, Unlatch, EnterFlush, EndDrain, CloseDone
<1>7. ASSUME NEW t \in Threads, DrainBatch(t) PROVE UNCHANGED Pipeline!vars
  BY <1>1, <1>7 DEF DrainBatch
<1>8. ASSUME NEW t \in Threads, PostAccepted(t)
      PROVE  Pipeline!Next \/ UNCHANGED Pipeline!vars
  BY <1>8, ReplyImplements DEF PostAccepted, Pipeline!Next
<1>9. ASSUME NEW t \in Threads, PostRejected(t)
      PROVE  Pipeline!Next \/ UNCHANGED Pipeline!vars
  BY <1>9, ReplyImplements DEF PostRejected, Pipeline!Next
<1>10. ASSUME NEW t \in Threads, PostRetryable(t)
       PROVE  Pipeline!Next \/ UNCHANGED Pipeline!vars
  <2>1. CASE ~closed
    BY <1>10, <2>1, RequeueImplements DEF Pipeline!Next
  <2>2. CASE closed
    <3>1. closed' = closed /\ fate' = Became(Range(batch[t]), "discarded")
      BY <1>10, <2>2 DEF PostRetryable, Requeue
    <3>2. Range(batch[t]) \subseteq Pipeline!Having("pending")
      BY PendingIsHeld, RangeIs DEF TypeOK
    <3>3. QED
      BY <2>2, <3>1, <3>2, DiscardImplements DEF Pipeline!Next
  <2>3. QED
    BY <2>1, <2>2
<1>11. CASE UNCHANGED vars
  BY <1>1, <1>11 DEF vars
<1>12. QED
  BY <1>2, <1>3, <1>4, <1>5, <1>6, <1>7, <1>8, <1>9, <1>10, <1>11
  DEF Next, Stop, Reply, Flushers

\* Whatever the callers, the ticker and stop() interleave, an accepted event is
\* delivered or refused in order with its batch, shed only when MaxQueueSize
\* newer ones are kept, or given up by stop() alone.
THEOREM ProcessorIsAPipeline == Spec => PipelineSpec
<1>1. Init => Pipeline!Init
  BY DEF Init, Pipeline!Init, Pipeline!Events, Events
<1>2. Spec => []DrainOwner
  BY TypeCorrect, InitOwner, StepKeepsOwner, PTL DEF Spec
<1>3. TypeOK /\ DrainOwner /\ OrderInv /\ [Next]_vars => [Pipeline!Next]_Pipeline!vars
  BY StepImplementsPipeline
<1>4. QED
  BY <1>1, <1>2, <1>3, OrderHolds, PTL DEF Spec, PipelineSpec, Pipeline!Spec

-----------------------------------------------------------------------------
(* The history variables take no part in the steps.                        *)

LEMMA WatchedStep == [PNext]_AllVars => [Next]_vars
<1> SUFFICES ASSUME [PNext]_AllVars PROVE [Next]_vars
  OBVIOUS
<1>1. CASE UNCHANGED AllVars
  BY <1>1 DEF AllVars
<1>2. CASE \E t \in Callers : Ask(t)
  BY <1>2 DEF Ask, Next, Flushers
<1>3. CASE \E t \in Threads : Answered(t)
  BY <1>3 DEF Answered, Next
<1>4. CASE Overtaken
  BY <1>4 DEF Overtaken, Next, Stop
<1>5. CASE Elsewhere
  BY <1>5, ThreadsDistinct DEF Elsewhere, Next, Stop, Flushers
<1>6. QED
  BY <1>1, <1>2, <1>3, <1>4, <1>5 DEF PNext

LEMMA WatchedHolds == PSpec => [](TypeOK /\ DrainOwner /\ OrderInv)
<1>1. PInit => Init
  BY DEF PInit
<1>2. PSpec => Spec
  BY <1>1, WatchedStep, PTL DEF PSpec, Spec
<1>3. Spec => []DrainOwner
  BY TypeCorrect, InitOwner, StepKeepsOwner, PTL DEF Spec
<1>4. QED
  BY <1>2, <1>3, OrderHolds, PTL

-----------------------------------------------------------------------------
(* stop() makes one attempt.                                               *)

\* No post of the final drain has failed until that drain ends.
AttemptInv ==
    /\ stopFailures \in 0 .. 1
    /\ pc[Stopper] \in {"idle", "await", "take", "post"} => stopFailures = 0

\* No step leads back into the final drain.
LEMMA StopperGoesOn ==
    ASSUME TypeOK, [Next]_vars, pc'[Stopper] \in {"idle", "await", "take", "post"}
    PROVE  pc[Stopper] \in {"idle", "await", "take", "post"}
<1> USE ThreadsDistinct DEF TypeOK, Threads
<1>1. CASE Start \/ GateElapses \/ TickerExit \/ StopBegin \/ StopAwait \/ Wipe
  BY <1>1 DEF Start, GateElapses, TickerExit, StopBegin, StopAwait, Wipe
<1>2. ASSUME NEW t \in Flushers, \/ Enqueue(t) \/ AutoFlush(t) \/ Unlatch(t)
                                 \/ EnterFlush(t) \/ EndDrain(t) \/ CloseDone(t)
      PROVE  pc'[Stopper] = pc[Stopper]
  BY <1>2 DEF Enqueue, AutoFlush, Unlatch, EnterFlush, EndDrain, CloseDone
<1>3. ASSUME NEW t \in Threads, DrainBatch(t) \/ Reply(t)
      PROVE  pc'[Stopper] = pc[Stopper] \/ (t = Stopper /\ pc[t] \in {"take", "post"})
  BY <1>3 DEF DrainBatch, Reply, PostAccepted, PostRejected, PostRetryable
<1>4. CASE UNCHANGED vars
  BY <1>4 DEF vars
<1>5. QED
  BY <1>1, <1>2, <1>3, <1>4 DEF Next, Stop, Flushers

LEMMA StepKeepsAttempt ==
    TypeOK /\ DrainOwner /\ AttemptInv /\ [PNext]_AllVars => AttemptInv'
<1> SUFFICES ASSUME TypeOK, DrainOwner, AttemptInv, [PNext]_AllVars PROVE AttemptInv'
  OBVIOUS
<1>0. pc'[Stopper] \in {"idle", "await", "take", "post"}
        => pc[Stopper] \in {"idle", "await", "take", "post"}
  BY WatchedStep, StopperGoesOn
<1>1. CASE stopFailures' = stopFailures
  BY <1>0, <1>1 DEF AttemptInv
<1>2. ASSUME NEW t \in Threads, Answered(t), stopFailures' # stopFailures PROVE AttemptInv'
  <2>1. t = Stopper /\ ~PostAccepted(t) /\ stopFailures' = stopFailures + 1 /\ Reply(t)
    BY <1>2 DEF Answered
  <2>2. pc[Stopper] = "post" /\ closed
    BY <2>1 DEF Reply, PostAccepted, PostRejected, PostRetryable, DrainOwner
  <2>3. pc'[Stopper] = "wipe"
    BY <2>1, <2>2, AfterPlaces DEF Reply, PostRejected, PostRetryable, TypeOK, Threads
  <2>4. QED
    BY <2>1, <2>2, <2>3 DEF AttemptInv
<1>3. QED
  BY <1>1, <1>2 DEF PNext, Ask, Overtaken, Elsewhere, promiseVars, AllVars

\* stop() sends nothing more after a post of its drain that failed.
THEOREM StopAttemptsOnce == PSpec => []StopFailsAtMostOnce
<1>1. PInit => AttemptInv
  BY DEF PInit, AttemptInv
<1>2. AttemptInv => StopFailsAtMostOnce
  BY DEF AttemptInv, StopFailsAtMostOnce
<1>3. QED
  BY <1>1, <1>2, WatchedHolds, StepKeepsAttempt, PTL DEF PSpec

-----------------------------------------------------------------------------
(* A flush that runs the drain settles what it was asked for.              *)

\* What is asked for is still pending, and nothing is once the drain is over.
AskedInv ==
    /\ asked \in [Callers -> SUBSET Events]
    /\ \A t \in Callers : \A e \in asked[t] : fate[e] = "pending"
    /\ ~closed => \A t \in owned : t \in Callers /\ pc[t] \notin {"take", "post"} => asked[t] = {}

\* A caller leaves the drain loop without an answer only from an empty buffer.
LEMMA LeavesTheLoop ==
    ASSUME TypeOK, Elsewhere, NEW t \in Callers, pc[t] \in {"take", "post"},
           pc'[t] \notin {"take", "post"}
    PROVE  pc[t] = "take" /\ buf = <<>>
<1> USE EventProcessorAssumption, ThreadsDistinct DEF TypeOK, Threads, Flushers
<1>1. CASE Start \/ GateElapses \/ TickerExit \/ StopBegin \/ StopAwait
  BY <1>1 DEF Start, GateElapses, TickerExit, StopBegin, StopAwait
<1>2. ASSUME NEW u \in Flushers, AutoFlush(u) \/ Unlatch(u) \/ EnterFlush(u) \/ EndDrain(u)
      PROVE  FALSE
  BY <1>2 DEF AutoFlush, Unlatch, EnterFlush, EndDrain, AtFlush
<1>3. ASSUME NEW u \in Flushers, CloseDone(u) PROVE FALSE
  BY <1>3 DEF CloseDone
<1>4. ASSUME NEW u \in Threads, DrainBatch(u) PROVE u = t /\ pc[t] = "take" /\ buf = <<>>
  BY <1>4 DEF DrainBatch
<1>5. QED
  BY <1>1, <1>2, <1>3, <1>4 DEF Elsewhere

\* A processor that drains with an empty buffer has nothing pending.
LEMMA DrainedIsSettled ==
    ASSUME TypeOK, DrainOwner, OrderInv, ~closed, NEW t \in Threads, pc[t] = "take", buf = <<>>
    PROVE  \A e \in Events : fate[e] # "pending"
<1>1. \A u \in Threads : batch[u] = <<>>
  BY OthersHoldNothing DEF OrderInv, Settled
<1>2. Range(buf) = {} /\ \A u \in Threads : Range(batch[u]) = {}
  BY <1>1, EmptyKeepsOrder
<1>3. QED
  BY <1>2 DEF OrderInv, Accounted

LEMMA AskKeepsAsked ==
    ASSUME TypeOK, OrderInv, AskedInv, NEW t \in Callers, Ask(t)
    PROVE  AskedInv'
<1>1. /\ asked' = [asked EXCEPT ![t] = Range(buf)]
      /\ owned' = IF pc'[t] = "take" THEN owned \union {t} ELSE owned \ {t}
      /\ UNCHANGED <<fate, closed>>
  BY DEF Ask, EnterFlush
<1>2. \A u \in Callers \ {t} : pc'[u] = pc[u]
  BY DEF Ask, EnterFlush, TypeOK, Threads, Flushers
<1>3. Range(buf) \subseteq Events /\ \A e \in Range(buf) : fate[e] = "pending"
  BY RangeIs DEF TypeOK, OrderInv, Accounted
<1>4. QED
  BY <1>1, <1>2, <1>3 DEF AskedInv

LEMMA AnswerKeepsAsked ==
    ASSUME TypeOK, DrainOwner, AskedInv, NEW t \in Threads, Answered(t)
    PROVE  AskedInv'
<1>1. /\ pc[t] = "post" /\ UNCHANGED <<closed, owned>>
      /\ \A u \in Callers : u # t => pc'[u] = pc[u]
  BY DEF Answered, Reply, PostAccepted, PostRejected, PostRetryable, TypeOK, Threads, Flushers
<1>2. CASE PostRetryable(t)
  <2>1. asked' = [c \in Callers |-> {}]
    BY <1>2 DEF Answered
  <2>2. QED
    BY <1>1, <2>1 DEF AskedInv
<1>3. CASE ~PostRetryable(t)
  <2>1. asked' = [c \in Callers |-> asked[c] \ Range(batch[t])]
    BY <1>3 DEF Answered
  <2>2. PICK f : fate' = Became(Range(batch[t]), f)
    BY <1>3 DEF Answered, Reply, PostAccepted, PostRejected
  <2>3. \A e \in Events : e \notin Range(batch[t]) => fate'[e] = fate[e]
    BY <2>2 DEF Became
  <2>4. ~closed => pc'[t] = "take"
    BY <1>3 DEF Answered, Reply, PostAccepted, PostRejected, TypeOK
  <2>5. \A c \in Callers : asked'[c] \subseteq asked[c] /\ asked'[c] \subseteq Events
    BY <2>1 DEF AskedInv
  <2>6. \A c \in Callers : \A e \in asked'[c] : fate'[e] = "pending"
    BY <2>1, <2>3, <2>5 DEF AskedInv
  <2>7. \A u \in owned : u \in Callers /\ ~closed /\ pc'[u] \notin {"take", "post"} => asked'[u] = {}
    BY <1>1, <2>4, <2>5 DEF AskedInv
  <2>8. QED
    BY <1>1, <2>1, <2>5, <2>6, <2>7 DEF AskedInv
<1>4. QED
  BY <1>2, <1>3

LEMMA OvertakenKeepsAsked ==
    ASSUME TypeOK, DrainOwner, AskedInv, Overtaken
    PROVE  AskedInv'
<1>1. /\ asked' = [c \in Callers |-> asked[c] \intersect {e \in Events : fate'[e] = "pending"}]
      /\ owned' = owned
  BY DEF Overtaken
<1>2. ASSUME NEW u \in Callers, ~closed', pc'[u] \notin {"take", "post"}
      PROVE  ~closed /\ pc[u] \notin {"take", "post"}
  <2>1. CASE Wipe
    BY <1>2, <2>1 DEF Wipe, DrainOwner
  <2>2. ASSUME NEW t \in Callers, Enqueue(t)
        PROVE  ~closed /\ pc[u] \notin {"take", "post"}
    BY <1>2, <2>2 DEF Enqueue, TypeOK
  <2>3. QED
    BY <2>1, <2>2 DEF Overtaken
<1>3. QED
  BY <1>1, <1>2 DEF AskedInv

LEMMA ElsewhereKeepsAsked ==
    ASSUME TypeOK, DrainOwner, OrderInv, AskedInv, Elsewhere
    PROVE  AskedInv'
<1>1. UNCHANGED <<asked, owned, fate>> /\ (closed => closed')
  BY DEF Elsewhere, promiseVars, Start, GateElapses, TickerExit, StopBegin, StopAwait,
         EnterFlush, AutoFlush, Unlatch, EndDrain, CloseDone, DrainBatch
<1>2. ASSUME NEW u \in owned, u \in Callers, ~closed', pc'[u] \notin {"take", "post"}
      PROVE  asked[u] = {}
  <2>1. ~closed
    BY <1>1, <1>2
  <2>2. CASE pc[u] \notin {"take", "post"}
    BY <1>2, <2>1, <2>2 DEF AskedInv
  <2>3. CASE pc[u] \in {"take", "post"}
    <3>1. pc[u] = "take" /\ buf = <<>> /\ u \in Threads
      BY <1>2, <2>3, LeavesTheLoop DEF Threads, Flushers
    <3>2. \A e \in Events : fate[e] # "pending"
      BY <2>1, <3>1, DrainedIsSettled
    <3>3. QED
      BY <1>2, <3>2 DEF AskedInv
  <2>4. QED
    BY <2>2, <2>3
<1>3. QED
  BY <1>1, <1>2 DEF AskedInv

LEMMA StepKeepsAsked ==
    TypeOK /\ DrainOwner /\ OrderInv /\ AskedInv /\ [PNext]_AllVars => AskedInv'
<1> SUFFICES ASSUME TypeOK, DrainOwner, OrderInv, AskedInv, [PNext]_AllVars PROVE AskedInv'
  OBVIOUS
<1>1. CASE UNCHANGED AllVars
  BY <1>1 DEF AllVars, vars, promiseVars, AskedInv
<1>2. QED
  BY <1>1, AskKeepsAsked, AnswerKeepsAsked, OvertakenKeepsAsked, ElsewhereKeepsAsked DEF PNext

\* An explicit flush that runs the drain itself returns, while the processor is
\* open, only when every event it was asked for is settled or a post failed.
THEOREM OwnFlushSettles == PSpec => OwnFlushKeepsPromise
<1>1. PInit => AskedInv
  BY DEF PInit, AskedInv
<1>2. AskedInv =>
        [\A t \in Callers : Returns(t) /\ t \in owned /\ ~closed => asked[t] = {}]_AllVars
  BY DEF AskedInv, Returns
<1>3. QED
  BY <1>1, <1>2, WatchedHolds, StepKeepsAsked, PTL DEF PSpec, OwnFlushKeepsPromise

=============================================================================
