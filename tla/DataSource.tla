----------------------------- MODULE DataSource -----------------------------
(***************************************************************************)
(* How a core's store follows the evaluation API: doInit of shared_core.go,*)
(* the stream and its fallback poller of streaming.go, the poll loop of    *)
(* polling.go and the writes of store.go.  A configuration is the number   *)
(* of the edit each key was last given, 0 when the key is absent.  The     *)
(* stream goroutine and the pollers are writers that share one life cycle: *)
(* ask the API, apply the answer, notify.  A request is answered with the  *)
(* server's state of one moment and applied at a later one.                *)
(***************************************************************************)
EXTENDS Integers, Sequences, FiniteSets

CONSTANTS
    Flags, Segments,  \* the keys of the configuration
    Runner,           \* the goroutine of doInit, then of streamSource.run
    Pollers,          \* identities for pollers, used again once one has ended
    None,             \* nil
    All,              \* the task of a fetch of everything
    FallbackThreshold,
    BadEdits,         \* edits that hold an enum value this build does not know
    MaxEdits          \* bound of the model: edits on the server, where edit 1
                      \* created every key

ASSUME DataSourceAssumption ==
    /\ Flags \intersect Segments = {}
    /\ Runner \notin Pollers /\ None \notin Pollers \union {Runner}
    /\ All \notin Flags \union Segments
    /\ FallbackThreshold \in Nat \ {0}
    /\ MaxEdits \in Nat \ {0} /\ BadEdits \subseteq 1 .. MaxEdits

VARIABLES
    server, edits,   \* external: the server's configuration, how many edits it had
    conn, wire,      \* external: the stream's connection and the events in it
    store,
    pc, task, reply, changed, \* each writer's place and locals
    delivered,       \* the connection delivered an event
    failures,        \* consecutiveFailures, no further than the threshold
    fallback,        \* fallbackPoll (stopPoll's poller when streaming is off)
    retired,         \* running pollers whose context is cancelled
    cancelled,       \* the stream's context is cancelled
    stopped,         \* stop has returned
    view,            \* history: what a listener that re-reads when told last saw
    unchecked        \* history: what the initial load left in the store although
                     \* this build cannot evaluate it

serverVars == <<server, edits>>
connVars   == <<conn, wire>>
stopVars   == <<cancelled, stopped>>
pollVars   == <<fallback, retired>>
runVars    == <<delivered, failures>>
dataVars   == <<store, view, unchecked>>
writerVars == <<pc, task, reply, changed>>
vars == <<serverVars, connVars, stopVars, pollVars, runVars, dataVars, writerVars>>

Keys == Flags \union Segments
Writers == {Runner} \union Pollers
Config == [Keys -> 0 .. MaxEdits]
Nothing == [k \in Keys |-> 0]

Init ==
    /\ server = [k \in Keys |-> 1] /\ edits = 1
    /\ conn = "closed" /\ wire = <<>>
    /\ store = Nothing /\ view = Nothing /\ unchecked = {}
    /\ pc = [w \in Writers |-> IF w = Runner THEN "load" ELSE "off"]
    /\ task = [w \in Writers |-> All]
    /\ reply = [w \in Writers |-> Nothing]
    /\ changed = [w \in Writers |-> {}]
    /\ delivered = FALSE /\ failures = 0
    /\ fallback = None /\ retired = {}
    /\ cancelled = FALSE /\ stopped = FALSE

Goto(w, place) == pc' = [pc EXCEPT ![w] = place]

\* The locals of a task end with it.
Forget(w) ==
    /\ task' = [task EXCEPT ![w] = All]
    /\ reply' = [reply EXCEPT ![w] = Nothing]

-----------------------------------------------------------------------------
(* The evaluation API (external)                                           *)

\* An event is written into the open connection, if there is one.
Emit(event) == wire' = IF conn = "open" THEN Append(wire, event) ELSE wire

\* A flag or segment is created, edited or deleted.
Edit(k, present) ==
    /\ edits < MaxEdits
    /\ edits' = edits + 1
    /\ server' = [server EXCEPT ![k] = IF present THEN edits' ELSE 0]
    /\ server' # server
    /\ Emit([kind |-> IF k \in Segments THEN "segment.updated"
                      ELSE IF present THEN "flag.updated" ELSE "flag.deleted",
             key |-> k])
    /\ UNCHANGED <<conn, stopVars, pollVars, runVars, dataVars, writerVars>>

Ping ==
    /\ conn = "open" /\ wire = <<>>
    /\ Emit([kind |-> "ping"])
    /\ UNCHANGED <<serverVars, conn, stopVars, pollVars, runVars, dataVars, writerVars>>

\* The connection is severed; what was in it may still arrive.
Drop ==
    /\ conn = "open"
    /\ conn' = "closed"
    /\ wire' \in {wire, <<>>}
    /\ UNCHANGED <<serverVars, stopVars, pollVars, runVars, dataVars, writerVars>>

-----------------------------------------------------------------------------
(* The pollers' handle *)

Running == {p \in Pollers : pc[p] # "off"}

\* Mutant: the handle is dropped, the poller is left running.
ForgetFallback ==
    /\ fallback' = None
    /\ UNCHANGED retired

\* stopFallbackPolling: the poller's context is cancelled, nobody waits for it.
StopFallback ==
    /\ retired' = IF fallback = None THEN retired ELSE retired \union {fallback}
    /\ fallback' = None

\* Mutant: the context is not looked at.
StartUnlessRunning(place) ==
    \/ /\ fallback = None
       /\ \E p \in Pollers \ Running :
            /\ fallback' = p
            /\ pc' = [pc EXCEPT ![Runner] = place, ![p] = "ask"]
       /\ UNCHANGED retired
    \/ /\ fallback # None
       /\ Goto(Runner, place)
       /\ UNCHANGED pollVars

\* startFallbackPolling: once, and never after stop() has begun.
StartFallback(place) ==
    \/ /\ fallback = None /\ ~cancelled
       /\ \E p \in Pollers \ Running :
            /\ fallback' = p
            /\ pc' = [pc EXCEPT ![Runner] = place, ![p] = "ask"]
       /\ UNCHANGED retired
    \/ /\ fallback # None \/ cancelled
       /\ Goto(Runner, place)
       /\ UNCHANGED pollVars

-----------------------------------------------------------------------------
(* A writer's fetch, store write and notification *)

\* Where a writer goes on after its task: a poller to its ticker, the stream to
\* its event loop.
Done(w) == IF w = Runner THEN "handled" ELSE "wait"

\* getFlags or getFlag: the server's answer leaves the server.  A flag it does
\* not have is an error.
Answer(w) ==
    /\ pc[w] = "ask"
    /\ task[w] # All => server[task[w]] # 0
    /\ reply' = [reply EXCEPT ![w] = IF task[w] = All THEN server
                                     ELSE [Nothing EXCEPT ![task[w]] = server[task[w]]]]
    /\ Goto(w, "apply")
    /\ UNCHANGED <<serverVars, connVars, stopVars, pollVars, runVars, dataVars, task,
                   changed>>

\* A transport failure, a status that is not 200 or a body that does not decode.
FetchFails(w) ==
    /\ pc[w] = "ask"
    /\ Forget(w)
    /\ Goto(w, Done(w))
    /\ UNCHANGED <<serverVars, connVars, stopVars, pollVars, runVars, dataVars, changed>>

\* Mutant: everything is kept.
KeepAll(config) == config

\* dropUnevaluable
Evaluable(config) == [k \in Keys |-> IF config[k] \in BadEdits THEN 0 ELSE config[k]]

\* Mutant: a snapshot is merged, so a deleted flag stays.
MergedStore(w) ==
    IF task[w] = All
    THEN [k \in Keys |-> IF Evaluable(reply[w])[k] = 0 THEN store[k]
                         ELSE Evaluable(reply[w])[k]]
    ELSE IF reply[w][task[w]] \in BadEdits THEN store
    ELSE [store EXCEPT ![task[w]] = reply[w][task[w]]]

\* What the task makes of the store: setAll replaces it, setFlag and removeFlag
\* change one flag, and a flag that cannot be evaluated leaves the copy there is.
NewStore(w) ==
    IF task[w] = All THEN Evaluable(reply[w])
    ELSE IF reply[w][task[w]] \in BadEdits THEN store
    ELSE [store EXCEPT ![task[w]] = reply[w][task[w]]]

\* A write replaces what the initial load left under the keys it writes.
StillUnchecked(w) ==
    IF task[w] = All THEN {}
    ELSE IF reply[w][task[w]] \in BadEdits THEN unchecked
    ELSE unchecked \ {task[w]}

\* Mutant: a flag the snapshot no longer holds is not reported.
ChangedByIncoming(new) == {k \in Keys : new[k] # 0 /\ new[k] # store[k]}

\* What is reported as changed, computed in the same critical section as the write.
Changed(new) == {k \in Keys : new[k] # store[k]}

\* Mutant: listeners are called for an empty set of changes too.
ApplyAndAlwaysNotify(w) ==
    /\ pc[w] = "apply"
    /\ store' = NewStore(w) /\ unchecked' = StillUnchecked(w)
    /\ changed' = [changed EXCEPT ![w] = Changed(NewStore(w))]
    /\ Forget(w)
    /\ Goto(w, "notify")
    /\ UNCHANGED <<serverVars, connVars, stopVars, pollVars, runVars, view>>

\* The write and the diff are one critical section.
Apply(w) ==
    /\ pc[w] = "apply"
    /\ store' = NewStore(w) /\ unchecked' = StillUnchecked(w)
    /\ changed' = [changed EXCEPT ![w] = Changed(NewStore(w))]
    /\ Forget(w)
    /\ Goto(w, IF changed'[w] = {} THEN Done(w) ELSE "notify")
    /\ UNCHANGED <<serverVars, connVars, stopVars, pollVars, runVars, view>>

\* onUpdate: the listeners re-read the flags they are told of, without the lock.
Notify(w) ==
    /\ pc[w] = "notify"
    /\ view' = [k \in Keys |-> IF k \in changed[w] THEN store[k] ELSE view[k]]
    /\ changed' = [changed EXCEPT ![w] = {}]
    /\ Goto(w, Done(w))
    /\ UNCHANGED <<serverVars, connVars, stopVars, pollVars, runVars, store, unchecked,
                   task, reply>>
-----------------------------------------------------------------------------
(* doInit *)

\* The initial fetch is answered in time ...
LoadAnswered ==
    /\ pc[Runner] = "load"
    /\ reply' = [reply EXCEPT ![Runner] = server]
    /\ Goto(Runner, "fill")
    /\ UNCHANGED <<serverVars, connVars, stopVars, pollVars, runVars, dataVars, task,
                   changed>>

\* ... or it fails, or initTimeout comes first and a late answer is dropped.
LoadFails ==
    /\ pc[Runner] = "load"
    /\ Goto(Runner, "start")
    /\ UNCHANGED <<serverVars, connVars, stopVars, pollVars, runVars, dataVars, task,
                   reply, changed>>

\* The store is filled as the answer is; nobody is notified of a cold start.
Fill ==
    /\ pc[Runner] = "fill"
    /\ store' = reply[Runner] /\ view' = reply[Runner]
    /\ unchecked' = {k \in Keys : reply[Runner][k] \in BadEdits}
    /\ Forget(Runner)
    /\ Goto(Runner, "start")
    /\ UNCHANGED <<serverVars, connVars, stopVars, pollVars, runVars, changed>>

StartStream ==
    /\ pc[Runner] = "start"
    /\ Goto(Runner, "dial")
    /\ UNCHANGED <<serverVars, connVars, stopVars, pollVars, runVars, dataVars, task,
                   reply, changed>>

\* With streaming off one poller is started, which stop() retires.
StartPolling ==
    /\ pc[Runner] = "start"
    /\ StartFallback("off")
    /\ UNCHANGED <<serverVars, connVars, stopVars, runVars, dataVars, task, reply,
                   changed>>

-----------------------------------------------------------------------------
(* streamSource: connect, handleEvent, run *)

\* No answer, an error or a status that is not 200.
DialFails ==
    /\ pc[Runner] = "dial"
    /\ delivered' = FALSE
    /\ Goto(Runner, "account")
    /\ UNCHANGED <<serverVars, connVars, stopVars, pollVars, failures, dataVars, task,
                   reply, changed>>

\* 200: the server's first event is a snapshot, unless something on the way
\* swallows it.
DialSucceeds ==
    /\ pc[Runner] = "dial"
    /\ ~cancelled
    /\ conn' = "open"
    /\ wire' \in {<<>>, <<[kind |-> "sync", config |-> server]>>}
    /\ delivered' = FALSE
    /\ Goto(Runner, "read")
    /\ UNCHANGED <<serverVars, stopVars, pollVars, failures, dataVars, task, reply,
                   changed>>

Take(event) ==
    /\ pc[Runner] = "read"
    /\ ~cancelled
    /\ wire # <<>> /\ event = Head(wire)
    /\ wire' = Tail(wire)

\* handleEvent: the event becomes a fetch or an answer already there.
ReadEvent ==
    /\ \E event \in {Head(wire) : x \in 1 .. Len(wire)} :
         /\ Take(event)
         /\ \/ /\ event.kind = "sync"
               /\ task' = [task EXCEPT ![Runner] = All]
               /\ reply' = [reply EXCEPT ![Runner] = event.config]
               /\ Goto(Runner, "apply")
            \/ /\ event.kind = "flag.deleted"
               /\ task' = [task EXCEPT ![Runner] = event.key]
               /\ reply' = [reply EXCEPT ![Runner] = Nothing]
               /\ Goto(Runner, "apply")
            \/ /\ event.kind \in {"flag.updated", "segment.updated"}
               /\ task' = [task EXCEPT ![Runner] =
                              IF event.kind = "flag.updated" THEN event.key ELSE All]
               /\ Goto(Runner, "ask")
               /\ UNCHANGED reply
    /\ UNCHANGED <<serverVars, conn, stopVars, pollVars, runVars, dataVars, changed>>

\* A ping, an unknown event, or one whose payload does not decode.
SkipEvent ==
    /\ wire # <<>> /\ Take(Head(wire))
    /\ Goto(Runner, "handled")
    /\ UNCHANGED <<serverVars, conn, stopVars, pollVars, runVars, dataVars, task, reply,
                   changed>>

\* Mutant: the poller is reaped only when the connection ends.
CountOnly ==
    /\ pc[Runner] = "handled"
    /\ delivered' = TRUE
    /\ Goto(Runner, "read")
    /\ UNCHANGED <<serverVars, connVars, stopVars, pollVars, failures, dataVars, task,
                   reply, changed>>

\* The first event of a connection retires the fallback poller.
EventHandled ==
    /\ pc[Runner] = "handled"
    /\ delivered' = TRUE
    /\ \/ delivered /\ UNCHANGED pollVars
       \/ ~delivered /\ StopFallback
    /\ Goto(Runner, "read")
    /\ UNCHANGED <<serverVars, connVars, stopVars, failures, dataVars, task, reply,
                   changed>>

\* Read error, end of the stream or cancellation.
StreamEnds ==
    /\ pc[Runner] = "read"
    /\ cancelled \/ (conn = "closed" /\ wire = <<>>)
    /\ conn' = "closed" /\ wire' = <<>>
    /\ Goto(Runner, "account")
    /\ UNCHANGED <<serverVars, stopVars, pollVars, runVars, dataVars, task, reply,
                   changed>>

\* run, after connect: it looks whether it was stopped, then counts.
RunGoesOn ==
    /\ pc[Runner] = "account"
    /\ ~cancelled
    /\ Goto(Runner, "count")
    /\ UNCHANGED <<serverVars, connVars, stopVars, pollVars, runVars, dataVars, task,
                   reply, changed>>

RunStopped ==
    /\ pc[Runner] \in {"account", "backoff"}
    /\ cancelled
    /\ Goto(Runner, "gone")
    /\ UNCHANGED <<serverVars, connVars, stopVars, pollVars, runVars, dataVars, task,
                   reply, changed>>

CountRecovery ==
    /\ pc[Runner] = "count"
    /\ delivered
    /\ failures' = 0
    /\ StopFallback
    /\ Goto(Runner, "backoff")
    /\ UNCHANGED <<serverVars, connVars, stopVars, delivered, dataVars, task, reply,
                   changed>>

\* Mutant: failures do not add up.
CountFailureOnce ==
    /\ pc[Runner] = "count"
    /\ ~delivered
    /\ failures' = 1
    /\ \/ failures' >= FallbackThreshold /\ StartFallback("backoff")
       \/ failures' < FallbackThreshold /\ Goto(Runner, "backoff") /\ UNCHANGED pollVars
    /\ UNCHANGED <<serverVars, connVars, stopVars, delivered, dataVars, task, reply,
                   changed>>

CountFailure ==
    /\ pc[Runner] = "count"
    /\ ~delivered
    /\ failures' = IF failures < FallbackThreshold THEN failures + 1 ELSE failures
    /\ \/ failures' >= FallbackThreshold /\ StartFallback("backoff")
       \/ failures' < FallbackThreshold /\ Goto(Runner, "backoff") /\ UNCHANGED pollVars
    /\ UNCHANGED <<serverVars, connVars, stopVars, delivered, dataVars, task, reply,
                   changed>>

\* The select waits for either; cancelled or not, the timer may be the one taken.
BackoffEnds ==
    /\ pc[Runner] = "backoff"
    /\ Goto(Runner, "dial")
    /\ UNCHANGED <<serverVars, connVars, stopVars, pollVars, runVars, dataVars, task,
                   reply, changed>>

-----------------------------------------------------------------------------
(* pollSource: run; and stop *)

Tick(p) ==
    /\ pc[p] = "wait"
    /\ Goto(p, "ask")
    /\ UNCHANGED <<serverVars, connVars, stopVars, pollVars, runVars, dataVars, task,
                   reply, changed>>

PollerExits(p) ==
    /\ pc[p] = "wait"
    /\ p \in retired
    /\ retired' = retired \ {p}
    /\ Goto(p, "off")
    /\ UNCHANGED <<serverVars, connVars, stopVars, fallback, runVars, dataVars, task,
                   reply, changed>>

\* stop: cancel first, so that no poller is started after the next step.
Cancel ==
    /\ pc[Runner] \notin {"load", "fill", "start"}
    /\ ~cancelled
    /\ cancelled' = TRUE
    /\ UNCHANGED <<serverVars, connVars, stopped, pollVars, runVars, dataVars, writerVars>>

StopPollers ==
    /\ cancelled /\ ~stopped
    /\ StopFallback
    /\ stopped' = TRUE
    /\ UNCHANGED <<serverVars, connVars, cancelled, runVars, dataVars, writerVars>>

-----------------------------------------------------------------------------
Environment ==
    \/ \E k \in Keys : Edit(k, TRUE)
    \/ \E k \in Flags : Edit(k, FALSE)
    \/ Ping \/ Drop

WriterStep(w) == Answer(w) \/ FetchFails(w) \/ Apply(w) \/ Notify(w)

RunnerStep ==
    \/ LoadAnswered \/ LoadFails \/ Fill \/ StartStream \/ StartPolling
    \/ DialFails \/ DialSucceeds \/ ReadEvent \/ SkipEvent \/ EventHandled \/ StreamEnds
    \/ RunStopped \/ RunGoesOn \/ CountRecovery \/ CountFailure \/ BackoffEnds
    \/ WriterStep(Runner)

PollerStep(p) == WriterStep(p) \/ Tick(p) \/ PollerExits(p)

Next ==
    \/ Environment
    \/ RunnerStep
    \/ \E p \in Pollers : PollerStep(p)
    \/ Cancel \/ StopPollers

Spec == Init /\ [][Next]_vars

\* Goroutines run, requests end by their timeout, and a select that finds the
\* context cancelled and a tick each time takes the context at some time.
FairSpec ==
    /\ Spec
    /\ WF_vars(RunnerStep) /\ WF_vars(StopPollers)
    /\ \A p \in Pollers : WF_vars(PollerStep(p)) /\ SF_vars(PollerExits(p))

\* The API is reachable again and again, for polls and for what an event asks.
Reachable == \A w \in Writers : SF_vars(Answer(w))
ReachableSpec == FairSpec /\ Reachable

-----------------------------------------------------------------------------
(* Properties *)

\* Every variable keeps its type; a writer holds changes only while it notifies.
TypeOK ==
    /\ server \in Config /\ store \in Config /\ view \in Config /\ unchecked \subseteq Keys
    /\ edits \in 0 .. MaxEdits
    /\ conn \in {"open", "closed"}
    /\ pc[Runner] \in {"load", "fill", "start", "off", "dial", "read", "ask", "apply",
                       "notify", "handled", "account", "count", "backoff", "gone"}
    /\ \A p \in Pollers : pc[p] \in {"off", "ask", "apply", "notify", "wait"}
    /\ task \in [Writers -> Flags \union {All}]
    /\ reply \in [Writers -> Config]
    /\ changed \in [Writers -> SUBSET Keys]
    /\ \A w \in Writers : changed[w] # {} <=> pc[w] = "notify"
    /\ delivered \in BOOLEAN /\ cancelled \in BOOLEAN /\ stopped \in BOOLEAN
    /\ failures \in 0 .. FallbackThreshold
    /\ fallback \in Pollers \union {None} /\ retired \subseteq Pollers

\* The one poller not told to stop is the one the handle points at, through any
\* number of failures and recoveries, and there is none once stop() has returned.
OnePoller ==
    /\ Running \ retired = IF fallback = None THEN {} ELSE {fallback}
    /\ stopped => fallback = None

\* No poller runs beside a stream that has delivered an event and is being read.
StreamReplacesPoller == pc[Runner] = "read" /\ delivered => fallback = None

\* The fallback poller is there when the stream is not, is one, and is gone with
\* the source, however failures, recoveries and stop() overlap.
PollerFollowsStream == OnePoller /\ StreamReplacesPoller

\* A listener that re-reads what it is told of is never left with an old value:
\* every difference is owed by a writer that is about to notify.
ListenersCaughtUp ==
    \A k \in Keys : view[k] # store[k] =>
        \E w \in Writers : pc[w] = "notify" /\ k \in changed[w]

\* What this build cannot evaluate enters the store by the initial load only.
SourcesDropUnevaluable ==
    \A k \in Keys : store[k] \in BadEdits => k \in unchecked

\* After stop() the stream's goroutine and every poller end.
SourcesEnd ==
    cancelled ~> /\ pc[Runner] \in {"gone", "off"}
                 /\ \A p \in Pollers : pc[p] = "off"

StreamLost ==
    []<>(pc[Runner] = "dial") /\ <>[](~delivered /\ ~cancelled)

\* A stream that is dialled again and again and delivers nothing is made up for
\* by the poller, and the store ends up as the server's configuration.
LostStreamIsRepaired ==
    Reachable /\ StreamLost => <>[](fallback # None /\ store = Evaluable(server))

FullReplace == \E w \in Writers : task[w] = All /\ Apply(w)

\* Whatever was lost, failed or overtaken, the store ends up as the server's
\* configuration if snapshots keep coming.
SnapshotsRepair == []<><<FullReplace>>_vars => <>[](store = Evaluable(server))

\* The comment in handleEvent: `a transport failure is retried by the next event
\* or the fallback poller'.
MissedDeltaIsRetried ==
    \A k \in Flags :
        pc[Runner] = "ask" /\ task[Runner] = k ~>
            store[k] = server[k] \/ conn = "closed" \/ cancelled

\* The comment in run: `a silent/broken stream still arms the polling fallback'.
SilentStreamArmsFallback ==
    <>[](~delivered /\ ~cancelled /\ pc[Runner] # "off") => <>(fallback # None)

\* The comment in connect: with the poller retired at the first event its
\* `periodic whole-store replaces' no longer `revert the deltas this stream applies'.
DeltasAreNotReverted ==
    [][pc[Runner] = "read" /\ delivered =>
         \A p \in Pollers : Apply(p) =>
             \A k \in Flags : store[k] # 0 /\ store'[k] # 0 => store'[k] >= store[k]]_vars

\* The comment in unevaluable.go: `the caller gets their default for exactly the
\* affected flag via the FlagNotFound path'.
StoreIsEvaluable == \A k \in Keys : store[k] \notin BadEdits

=============================================================================
