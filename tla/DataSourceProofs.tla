-------------------------- MODULE DataSourceProofs --------------------------
(***************************************************************************)
(* Proofs about DataSource for every value of its constants.               *)
(***************************************************************************)
EXTENDS DataSource, TLAPS

-----------------------------------------------------------------------------
(* Type correctness in two parts, data and places; in addition to TypeOK,  *)
(* what is on the wire is typed and pc is a function of the writers.       *)

StreamEvent ==
    [kind : {"ping"}] \union [kind : {"sync"}, config : Config]
    \union [kind : {"flag.updated", "flag.deleted"}, key : Flags]
    \union [kind : {"segment.updated"}, key : Segments]

RunnerPlaces ==
    {"load", "fill", "start", "off", "dial", "read", "ask", "apply", "notify",
     "handled", "account", "count", "backoff", "gone"}
PollerPlaces == {"off", "ask", "apply", "notify", "wait"}

DataTyped ==
    /\ server \in Config /\ edits \in 0 .. MaxEdits
    /\ conn \in {"open", "closed"} /\ wire \in Seq(StreamEvent)
    /\ store \in Config /\ view \in Config /\ unchecked \subseteq Keys
    /\ task \in [Writers -> Flags \union {All}]
    /\ reply \in [Writers -> Config]
    /\ delivered \in BOOLEAN /\ cancelled \in BOOLEAN /\ stopped \in BOOLEAN
    /\ failures \in 0 .. FallbackThreshold
    /\ fallback \in Pollers \union {None} /\ retired \subseteq Pollers

PlacesTyped ==
    /\ pc \in [Writers -> RunnerPlaces \union PollerPlaces]
    /\ pc[Runner] \in RunnerPlaces
    /\ \A p \in Pollers : pc[p] \in PollerPlaces
    /\ changed \in [Writers -> SUBSET Keys]
    /\ \A w \in Writers : changed[w] # {} <=> pc[w] = "notify"

Typed == DataTyped /\ PlacesTyped

LEMMA TypedIsTypeOK == Typed => TypeOK
BY DEF Typed, DataTyped, PlacesTyped, TypeOK, RunnerPlaces, PollerPlaces

-----------------------------------------------------------------------------
(* Data: what the helpers return                                           *)

LEMMA NothingIsConfig == Nothing \in Config
BY DataSourceAssumption DEF Nothing, Config

LEMMA EvaluableIsConfig ==
    ASSUME NEW config \in Config
    PROVE  Evaluable(config) \in Config
BY DataSourceAssumption DEF Evaluable, Config

LEMMA NewStoreIsConfig ==
    ASSUME DataTyped, NEW w \in Writers
    PROVE  NewStore(w) \in Config
<1>1. CASE task[w] = All
  BY <1>1, EvaluableIsConfig DEF NewStore, DataTyped
<1>2. CASE task[w] # All
  <2>1. task[w] \in Keys
    BY <1>2 DEF DataTyped, Keys
  <2>2. reply[w] \in Config /\ store \in Config
    BY DEF DataTyped
  <2>3. reply[w][task[w]] \in 0 .. MaxEdits
    BY <2>1, <2>2 DEF Config
  <2>4. [store EXCEPT ![task[w]] = reply[w][task[w]]] \in Config
    BY <2>2, <2>3 DEF Config
  <2>5. QED
    BY <1>2, <2>2, <2>4 DEF NewStore
<1>3. QED
  BY <1>1, <1>2

LEMMA EmitTypes ==
    ASSUME wire \in Seq(StreamEvent), NEW event \in StreamEvent, Emit(event)
    PROVE  wire' \in Seq(StreamEvent)
BY DEF Emit

-----------------------------------------------------------------------------
(* Type correctness                                                        *)

LEMMA InitTyped == Init => Typed
<1> SUFFICES ASSUME Init PROVE Typed
  OBVIOUS
<1>1. server \in Config /\ store \in Config /\ view \in Config /\ edits \in 0 .. MaxEdits
  BY NothingIsConfig, DataSourceAssumption DEF Init, Config
<1>2. reply \in [Writers -> Config] /\ changed \in [Writers -> SUBSET Keys]
  BY NothingIsConfig DEF Init
<1>3. wire \in Seq(StreamEvent) /\ failures \in 0 .. FallbackThreshold
  BY DataSourceAssumption DEF Init
<1>4. task \in [Writers -> Flags \union {All}]
  BY DEF Init
<1>5. DataTyped
  BY <1>1, <1>2, <1>3, <1>4 DEF Init, DataTyped
<1>6. PlacesTyped
  BY <1>2, DataSourceAssumption DEF Init, PlacesTyped, Writers, RunnerPlaces, PollerPlaces
<1>7. QED
  BY <1>5, <1>6 DEF Typed

\* A writer that goes somewhere it may be, with changes only to notify.
LEMMA GotoPlaces ==
    ASSUME PlacesTyped, NEW w \in Writers, NEW place, Goto(w, place),
           w = Runner => place \in RunnerPlaces,
           w # Runner => place \in PollerPlaces,
           changed' \in [Writers -> SUBSET Keys],
           \A v \in Writers \ {w} : changed'[v] = changed[v],
           changed'[w] # {} <=> place = "notify"
    PROVE  PlacesTyped'
<1>1. pc' = [pc EXCEPT ![w] = place]
  BY DEF Goto
<1>2. place \in RunnerPlaces \union PollerPlaces
  OBVIOUS
<1>3. pc' \in [Writers -> RunnerPlaces \union PollerPlaces]
  BY <1>1, <1>2 DEF PlacesTyped
<1>4. pc'[w] = place /\ \A v \in Writers \ {w} : pc'[v] = pc[v]
  BY <1>1 DEF PlacesTyped
<1>5. pc'[Runner] \in RunnerPlaces
  BY <1>4 DEF PlacesTyped, Writers
<1>6. \A p \in Pollers : pc'[p] \in PollerPlaces
  BY <1>4, DataSourceAssumption DEF PlacesTyped, Writers
<1>7. \A v \in Writers : changed'[v] # {} <=> pc'[v] = "notify"
  BY <1>4 DEF PlacesTyped
<1>8. QED
  BY <1>3, <1>5, <1>6, <1>7 DEF PlacesTyped

\* A writer that has nothing to notify, before and after.
LEMMA QuietMove ==
    ASSUME PlacesTyped, NEW w \in Writers, NEW place, Goto(w, place),
           w = Runner => place \in RunnerPlaces,
           w # Runner => place \in PollerPlaces,
           pc[w] # "notify", place # "notify", UNCHANGED changed
    PROVE  PlacesTyped'
<1>1. changed' \in [Writers -> SUBSET Keys] /\ changed'[w] = {}
  BY DEF PlacesTyped
<1>2. QED
  BY <1>1, GotoPlaces

LEMMA StartFallbackTypes ==
    ASSUME Typed, NEW place \in RunnerPlaces \ {"notify"}, StartFallback(place),
           pc[Runner] # "notify", UNCHANGED changed
    PROVE  /\ PlacesTyped'
           /\ fallback' \in Pollers \union {None} /\ retired' \subseteq Pollers
<1>0. Runner \in Writers /\ Runner \notin Pollers
  BY DataSourceAssumption DEF Writers
<1>1. ASSUME NEW p \in Pollers \ Running, fallback' = p, UNCHANGED retired,
             pc' = [pc EXCEPT ![Runner] = place, ![p] = "ask"]
      PROVE  PlacesTyped'
  <2>1. p \in Writers /\ p # Runner /\ pc[p] = "off"
    BY <1>0, <1>1 DEF Running, Writers
  <2>2. pc' \in [Writers -> RunnerPlaces \union PollerPlaces]
    BY <1>1, <2>1 DEF Typed, PlacesTyped, PollerPlaces
  <2>3. /\ pc'[Runner] = place /\ pc'[p] = "ask"
        /\ \A v \in Writers \ {Runner, p} : pc'[v] = pc[v]
    BY <1>0, <1>1, <2>1 DEF Typed, PlacesTyped
  <2>4. changed[Runner] = {} /\ changed[p] = {}
    BY <1>0, <2>1 DEF Typed, PlacesTyped
  <2>5. \A q \in Pollers : pc'[q] \in PollerPlaces
    BY <1>0, <2>3 DEF Typed, PlacesTyped, PollerPlaces, Writers
  <2>6. \A v \in Writers : changed'[v] # {} <=> pc'[v] = "notify"
    BY <2>3, <2>4 DEF Typed, PlacesTyped
  <2>7. QED
    BY <2>2, <2>3, <2>5, <2>6 DEF Typed, PlacesTyped
<1>2. CASE Goto(Runner, place) /\ UNCHANGED pollVars
  BY <1>0, <1>2, QuietMove DEF Typed, DataTyped, pollVars
<1>3. QED
  BY <1>1, <1>2 DEF StartFallback, Typed, DataTyped

LEMMA EnvironmentTyped == Typed /\ Environment => Typed'
<1> SUFFICES ASSUME Typed, Environment PROVE Typed'
  OBVIOUS
<1>1. ASSUME NEW k \in Keys, NEW present \in BOOLEAN, Edit(k, present),
             k \in Flags \/ present
      PROVE  Typed'
  <2>1. edits' \in 0 .. MaxEdits
    BY <1>1, DataSourceAssumption DEF Edit, Typed, DataTyped
  <2>2. server' \in Config
    BY <1>1, <2>1, DataSourceAssumption DEF Edit, Config, Typed, DataTyped
  <2>3. wire' \in Seq(StreamEvent)
    <3>1. [kind |-> IF k \in Segments THEN "segment.updated"
                    ELSE IF present THEN "flag.updated" ELSE "flag.deleted",
           key |-> k] \in StreamEvent
      BY DEF StreamEvent, Keys
    <3>2. QED
      BY <1>1, <3>1, EmitTypes DEF Edit, Typed, DataTyped
  <2>4. DataTyped'
    BY <1>1, <2>1, <2>2, <2>3
       DEF Edit, Typed, DataTyped, stopVars, pollVars, runVars, dataVars, writerVars
  <2>5. QED
    BY <1>1, <2>4 DEF Edit, Typed, PlacesTyped, writerVars
<1>2. CASE Ping
  <2>1. [kind |-> "ping"] \in StreamEvent
    BY DEF StreamEvent
  <2>2. wire' \in Seq(StreamEvent)
    BY <1>2, <2>1, EmitTypes DEF Ping, Typed, DataTyped
  <2>3. QED
    BY <1>2, <2>2 DEF Ping, Typed, DataTyped, PlacesTyped, serverVars, stopVars,
                      pollVars, runVars, dataVars, writerVars
<1>3. CASE Drop
  <2>0. wire \in Seq(StreamEvent) /\ <<>> \in Seq(StreamEvent)
    BY DEF Typed, DataTyped
  <2>1. wire' \in Seq(StreamEvent)
    BY <1>3, <2>0 DEF Drop
  <2>2. QED
    BY <1>3, <2>1 DEF Drop, Typed, DataTyped, PlacesTyped, serverVars, stopVars,
                      pollVars, runVars, dataVars, writerVars
<1>4. QED
  BY <1>1, <1>2, <1>3 DEF Environment, Keys

\* The four steps every writer makes.
LEMMA WriterTyped ==
    ASSUME Typed, NEW w \in Writers, WriterStep(w)
    PROVE  Typed'
<1>1. Done(w) # "notify" /\ (w = Runner => Done(w) \in RunnerPlaces)
      /\ (w # Runner => Done(w) \in PollerPlaces)
  BY DEF Done, RunnerPlaces, PollerPlaces
<1>2. \A place \in {"ask", "apply", "notify"} : place \in RunnerPlaces /\ place \in PollerPlaces
  BY DEF RunnerPlaces, PollerPlaces
<1>3. Forget(w) => task' \in [Writers -> Flags \union {All}] /\ reply' \in [Writers -> Config]
  BY NothingIsConfig DEF Forget, Typed, DataTyped
<1>4. CASE Answer(w)
  <2>1. task[w] # All => [Nothing EXCEPT ![task[w]] = server[task[w]]] \in Config
    <3>1. ASSUME task[w] # All PROVE server[task[w]] \in 0 .. MaxEdits
      BY <3>1 DEF Typed, DataTyped, Config, Keys
    <3>2. QED
      BY <3>1, NothingIsConfig DEF Config
  <2>2. reply' \in [Writers -> Config]
    BY <1>4, <2>1 DEF Answer, Typed, DataTyped
  <2>3. DataTyped'
    BY <1>4, <2>2 DEF Answer, Typed, DataTyped, serverVars, connVars, stopVars,
                      pollVars, runVars, dataVars
  <2>4. PlacesTyped'
    BY <1>2, <1>4, QuietMove DEF Answer, Typed
  <2>5. QED
    BY <2>3, <2>4 DEF Typed
<1>5. CASE FetchFails(w)
  <2>1. DataTyped'
    BY <1>3, <1>5 DEF FetchFails, Typed, DataTyped, serverVars, connVars, stopVars,
                      pollVars, runVars, dataVars
  <2>2. PlacesTyped'
    BY <1>1, <1>5, QuietMove DEF FetchFails, Typed
  <2>3. QED
    BY <2>1, <2>2 DEF Typed
<1>6. CASE Apply(w)
  <2>1. store' \in Config
    BY <1>6, NewStoreIsConfig DEF Apply, Typed
  <2>2. unchecked' \subseteq Keys
    BY <1>6 DEF Apply, StillUnchecked, Typed, DataTyped
  <2>3. DataTyped'
    BY <1>3, <1>6, <2>1, <2>2 DEF Apply, Typed, DataTyped, serverVars, connVars,
                                  stopVars, pollVars, runVars
  <2>4. Changed(NewStore(w)) \subseteq Keys
    BY DEF Changed
  <2>5. /\ changed' \in [Writers -> SUBSET Keys]
        /\ \A v \in Writers \ {w} : changed'[v] = changed[v]
        /\ changed'[w] = Changed(NewStore(w))
    BY <1>6, <2>4 DEF Apply, Typed, PlacesTyped
  <2>6. PlacesTyped'
    <3>1. CASE changed'[w] = {}
      <4>1. Goto(w, Done(w))
        BY <1>6, <3>1 DEF Apply
      <4>2. QED
        BY <1>1, <2>5, <3>1, <4>1, GotoPlaces DEF Typed
    <3>2. CASE changed'[w] # {}
      <4>1. Goto(w, "notify")
        BY <1>6, <3>2 DEF Apply
      <4>2. QED
        BY <1>2, <2>5, <3>2, <4>1, GotoPlaces DEF Typed
    <3>3. QED
      BY <3>1, <3>2
  <2>7. QED
    BY <2>3, <2>6 DEF Typed
<1>7. CASE Notify(w)
  <2>1. view' \in Config
    BY <1>7 DEF Notify, Typed, DataTyped, Config
  <2>2. DataTyped'
    BY <1>7, <2>1 DEF Notify, Typed, DataTyped, serverVars, connVars, stopVars,
                      pollVars, runVars
  <2>3. /\ changed' \in [Writers -> SUBSET Keys]
        /\ \A v \in Writers \ {w} : changed'[v] = changed[v]
        /\ changed'[w] = {}
    BY <1>7 DEF Notify, Typed, PlacesTyped
  <2>4. PlacesTyped'
    BY <1>1, <1>7, <2>3, GotoPlaces DEF Notify, Typed
  <2>5. QED
    BY <2>2, <2>4 DEF Typed
<1>8. QED
  BY <1>4, <1>5, <1>6, <1>7 DEF WriterStep

LEMMA SyncEvent ==
    ASSUME Typed
    PROVE  [kind |-> "sync", config |-> server] \in StreamEvent
BY DEF Typed, DataTyped, StreamEvent

\* What the stream's goroutine does besides: most of it changes no data.
LEMMA RunnerTyped == Typed /\ RunnerStep => Typed'
<1> SUFFICES ASSUME Typed, RunnerStep PROVE Typed'
  OBVIOUS
<1>0. Runner \in Writers /\ Runner \notin Pollers
  BY DataSourceAssumption DEF Writers
<1>a. \A place \in {"fill", "start", "dial", "read", "account", "handled", "gone", "count",
                    "backoff", "off", "ask", "apply"} : place \in RunnerPlaces \ {"notify"}
  BY DEF RunnerPlaces
<1>b. <<>> \in Seq(StreamEvent) /\ wire \in Seq(StreamEvent)
  BY DEF Typed, DataTyped
<1>c. wire # <<>> => Head(wire) \in StreamEvent /\ Tail(wire) \in Seq(StreamEvent)
  BY <1>b
<1>1. CASE LoadAnswered
  <2>1. reply' \in [Writers -> Config]
    BY <1>1 DEF LoadAnswered, Typed, DataTyped
  <2>2. DataTyped'
    BY <1>1, <2>1 DEF LoadAnswered, Typed, DataTyped, serverVars, connVars,
       stopVars, pollVars, runVars, dataVars
  <2>3. PlacesTyped'
    BY <1>0, <1>a, <1>1, QuietMove DEF LoadAnswered, Typed
  <2>4. QED
    BY <2>2, <2>3 DEF Typed
<1>2. CASE LoadFails
  <2>1. DataTyped'
    BY <1>2 DEF LoadFails, Typed, DataTyped, serverVars, connVars,
       stopVars, pollVars, runVars, dataVars
  <2>2. PlacesTyped'
    BY <1>0, <1>a, <1>2, QuietMove DEF LoadFails, Typed
  <2>3. QED
    BY <2>1, <2>2 DEF Typed
<1>3. CASE StartStream
  <2>1. DataTyped'
    BY <1>3 DEF StartStream, Typed, DataTyped, serverVars, connVars,
       stopVars, pollVars, runVars, dataVars
  <2>2. PlacesTyped'
    BY <1>0, <1>a, <1>3, QuietMove DEF StartStream, Typed
  <2>3. QED
    BY <2>1, <2>2 DEF Typed
<1>4. CASE DialFails
  <2>1. DataTyped'
    BY <1>4 DEF DialFails, Typed, DataTyped, serverVars, connVars,
       stopVars, pollVars, runVars, dataVars
  <2>2. PlacesTyped'
    BY <1>0, <1>a, <1>4, QuietMove DEF DialFails, Typed
  <2>3. QED
    BY <2>1, <2>2 DEF Typed
<1>5. CASE DialSucceeds
  <2>1. <<[kind |-> "sync", config |-> server]>> \in Seq(StreamEvent)
    BY SyncEvent
  <2>2. DataTyped'
    BY <1>5, <1>b, <2>1 DEF DialSucceeds, Typed, DataTyped, serverVars, connVars,
       stopVars, pollVars, runVars, dataVars
  <2>3. PlacesTyped'
    BY <1>0, <1>a, <1>5, QuietMove DEF DialSucceeds, Typed
  <2>4. QED
    BY <2>2, <2>3 DEF Typed
<1>6. CASE SkipEvent
  <2>1. DataTyped'
    BY <1>6, <1>c DEF SkipEvent, Take, Typed, DataTyped, serverVars, connVars,
       stopVars, pollVars, runVars, dataVars
  <2>2. PlacesTyped'
    BY <1>0, <1>a, <1>6, QuietMove DEF SkipEvent, Take, Typed
  <2>3. QED
    BY <2>1, <2>2 DEF Typed
<1>7. CASE EventHandled
  <2>1. DataTyped'
    BY <1>7 DEF EventHandled, StopFallback, Typed, DataTyped, serverVars, connVars,
       stopVars, pollVars, runVars, dataVars
  <2>2. PlacesTyped'
    BY <1>0, <1>a, <1>7, QuietMove DEF EventHandled, StopFallback, Typed
  <2>3. QED
    BY <2>1, <2>2 DEF Typed
<1>8. CASE StreamEnds
  <2>1. DataTyped'
    BY <1>8, <1>b DEF StreamEnds, Typed, DataTyped, serverVars, connVars,
       stopVars, pollVars, runVars, dataVars
  <2>2. PlacesTyped'
    BY <1>0, <1>a, <1>8, QuietMove DEF StreamEnds, Typed
  <2>3. QED
    BY <2>1, <2>2 DEF Typed
<1>9. CASE RunStopped
  <2>1. DataTyped'
    BY <1>9 DEF RunStopped, Typed, DataTyped, serverVars, connVars,
       stopVars, pollVars, runVars, dataVars
  <2>2. PlacesTyped'
    BY <1>0, <1>a, <1>9, QuietMove DEF RunStopped, Typed
  <2>3. QED
    BY <2>1, <2>2 DEF Typed
<1>10. CASE RunGoesOn
  <2>1. DataTyped'
    BY <1>10 DEF RunGoesOn, Typed, DataTyped, serverVars, connVars,
       stopVars, pollVars, runVars, dataVars
  <2>2. PlacesTyped'
    BY <1>0, <1>a, <1>10, QuietMove DEF RunGoesOn, Typed
  <2>3. QED
    BY <2>1, <2>2 DEF Typed
<1>11. CASE CountRecovery
  <2>0. 0 \in 0 .. FallbackThreshold
    BY DataSourceAssumption
  <2>1. DataTyped'
    BY <1>11, <2>0 DEF CountRecovery, StopFallback, Typed, DataTyped, serverVars, connVars,
       stopVars, pollVars, runVars, dataVars
  <2>2. PlacesTyped'
    BY <1>0, <1>a, <1>11, QuietMove DEF CountRecovery, StopFallback, Typed
  <2>3. QED
    BY <2>1, <2>2 DEF Typed
<1>12. CASE BackoffEnds
  <2>1. DataTyped'
    BY <1>12 DEF BackoffEnds, Typed, DataTyped, serverVars, connVars,
       stopVars, pollVars, runVars, dataVars
  <2>2. PlacesTyped'
    BY <1>0, <1>a, <1>12, QuietMove DEF BackoffEnds, Typed
  <2>3. QED
    BY <2>1, <2>2 DEF Typed
<1>13. CASE Fill
  <2>1. reply[Runner] \in Config
    BY <1>0 DEF Typed, DataTyped
  <2>2. task' \in [Writers -> Flags \union {All}] /\ reply' \in [Writers -> Config]
    BY <1>13, NothingIsConfig DEF Fill, Forget, Typed, DataTyped
  <2>3. DataTyped'
    BY <1>13, <2>1, <2>2 DEF Fill, Typed, DataTyped, serverVars, connVars, stopVars,
                           pollVars, runVars
  <2>4. PlacesTyped'
    BY <1>0, <1>a, <1>13, QuietMove DEF Fill, Typed
  <2>5. QED
    BY <2>3, <2>4 DEF Typed
<1>14. CASE StartPolling
  <2>1. /\ PlacesTyped'
        /\ fallback' \in Pollers \union {None} /\ retired' \subseteq Pollers
    BY <1>a, <1>14, StartFallbackTypes DEF StartPolling
  <2>2. QED
    BY <1>14, <2>1 DEF StartPolling, Typed, DataTyped, serverVars, connVars, stopVars,
                      runVars, dataVars
<1>15. CASE CountFailure
  <2>1. failures' \in 0 .. FallbackThreshold
    BY <1>15, DataSourceAssumption DEF CountFailure, Typed, DataTyped
  <2>2. /\ PlacesTyped'
        /\ fallback' \in Pollers \union {None} /\ retired' \subseteq Pollers
    <3>1. CASE StartFallback("backoff")
      BY <1>a, <1>15, <3>1, StartFallbackTypes DEF CountFailure
    <3>2. CASE Goto(Runner, "backoff") /\ UNCHANGED pollVars
      BY <1>0, <1>a, <1>15, <3>2, QuietMove DEF CountFailure, Typed, DataTyped, pollVars
    <3>3. QED
      BY <1>15, <3>1, <3>2 DEF CountFailure
  <2>3. QED
    BY <1>15, <2>1, <2>2 DEF CountFailure, Typed, DataTyped, serverVars, connVars,
                            stopVars, dataVars
<1>16. CASE ReadEvent
  <2>1. PICK event \in {Head(wire) : x \in 1 .. Len(wire)} :
          /\ Take(event)
          /\ \/ /\ event.kind = "sync"
                /\ task' = [task EXCEPT ![Runner] = All]
                /\ reply' = [reply EXCEPT ![Runner] = event.config]
                /\ Goto(Runner, "apply")
             \/ /\ event.kind = "flag.deleted"
                /\ task' = [task EXCEPT ![Runner] = event.key]
                /\ reply' = [reply EXCEPT ![Runner] = Nothing]
                /\ Goto(Runner, "apply")
             \/ /\ event.kind \in {"flag.updated", "segment.updated"}
                /\ task' = [task EXCEPT ![Runner] =
                               IF event.kind = "flag.updated" THEN event.key ELSE All]
                /\ Goto(Runner, "ask")
                /\ UNCHANGED reply
    BY <1>16 DEF ReadEvent
  <2>2. event \in StreamEvent /\ wire' \in Seq(StreamEvent) /\ pc[Runner] = "read"
    BY <1>c, <2>1 DEF Take
  <2>3. /\ event.kind = "sync" => event.config \in Config
        /\ event.kind \in {"flag.updated", "flag.deleted"} => event.key \in Flags
    BY <2>2 DEF StreamEvent
  <2>4. task' \in [Writers -> Flags \union {All}] /\ reply' \in [Writers -> Config]
    BY <2>1, <2>3, NothingIsConfig DEF Typed, DataTyped
  <2>5. DataTyped'
    BY <1>16, <2>2, <2>4 DEF ReadEvent, Typed, DataTyped, serverVars, stopVars, pollVars,
                            runVars, dataVars
  <2>6. PlacesTyped'
    <3>1. UNCHANGED changed
      BY <1>16 DEF ReadEvent
    <3>2. Goto(Runner, "apply") \/ Goto(Runner, "ask")
      BY <2>1
    <3>3. QED
      BY <1>0, <1>a, <2>2, <3>1, <3>2, QuietMove DEF Typed
  <2>7. QED
    BY <2>5, <2>6 DEF Typed
<1>17. CASE WriterStep(Runner)
  BY <1>0, <1>17, WriterTyped
<1>18. QED
  BY <1>1, <1>2, <1>3, <1>4, <1>5, <1>6, <1>7, <1>8, <1>9, <1>10, <1>11, <1>12, <1>13, <1>14, <1>15, <1>16, <1>17 DEF RunnerStep

LEMMA StepTyped == Typed /\ [Next]_vars => Typed'
<1> SUFFICES ASSUME Typed, [Next]_vars PROVE Typed'
  OBVIOUS
<1>1. CASE Environment
  BY <1>1, EnvironmentTyped
<1>2. CASE RunnerStep
  BY <1>2, RunnerTyped
<1>3. ASSUME NEW p \in Pollers, PollerStep(p) PROVE Typed'
  <2>0. p \in Writers /\ p # Runner
    BY DataSourceAssumption DEF Writers
  <2>1. CASE WriterStep(p)
    BY <2>0, <2>1, WriterTyped
  <2>2. CASE Tick(p)
    <3>1. DataTyped'
      BY <2>2 DEF Tick, Typed, DataTyped, serverVars, connVars, stopVars, pollVars,
                  runVars, dataVars
    <3>2. PlacesTyped'
      BY <2>0, <2>2, QuietMove DEF Tick, Typed, PollerPlaces
    <3>3. QED
      BY <3>1, <3>2 DEF Typed
  <2>3. CASE PollerExits(p)
    <3>1. DataTyped'
      BY <2>3 DEF PollerExits, Typed, DataTyped, serverVars, connVars, stopVars,
                  runVars, dataVars
    <3>2. PlacesTyped'
      BY <2>0, <2>3, QuietMove DEF PollerExits, Typed, PollerPlaces
    <3>3. QED
      BY <3>1, <3>2 DEF Typed
  <2>4. QED
    BY <1>3, <2>1, <2>2, <2>3 DEF PollerStep
<1>4. CASE Cancel
  BY <1>4 DEF Cancel, Typed, DataTyped, PlacesTyped, serverVars, connVars, pollVars,
              runVars, dataVars, writerVars
<1>5. CASE StopPollers
  BY <1>5 DEF StopPollers, StopFallback, Typed, DataTyped, PlacesTyped, serverVars,
              connVars, runVars, dataVars, writerVars
<1>6. CASE UNCHANGED vars
  BY <1>6 DEF vars, Typed, DataTyped, PlacesTyped, serverVars, connVars, stopVars,
              pollVars, runVars, dataVars, writerVars
<1>7. QED
  BY <1>1, <1>2, <1>3, <1>4, <1>5, <1>6 DEF Next

\* The data source keeps its types, for every set of keys, pollers and edits: what
\* is fetched, parsed and stored is a configuration, and a writer holds changes
\* exactly while it notifies.
THEOREM SourceTypeCorrect == Spec => []TypeOK
<1>1. Spec => []Typed
  BY InitTyped, StepTyped, PTL DEF Spec
<1>2. QED
  BY <1>1, TypedIsTypeOK, PTL

-----------------------------------------------------------------------------
(* Listeners: inductive together with the types.                           *)

LEMMA InitCaughtUp == Init => ListenersCaughtUp
BY DEF Init, ListenersCaughtUp

\* Only a write, a notification and the initial load touch what it relates.
LEMMA StepCaughtUp == Typed /\ ListenersCaughtUp /\ [Next]_vars => ListenersCaughtUp'
<1> SUFFICES ASSUME Typed, ListenersCaughtUp, [Next]_vars, NEW k \in Keys,
                    view'[k] # store'[k]
             PROVE  \E w \in Writers : pc'[w] = "notify" /\ k \in changed'[w]
  BY DEF ListenersCaughtUp
<1>0. Runner \in Writers /\ Runner \notin Pollers /\ Pollers \subseteq Writers
  BY DataSourceAssumption DEF Writers
<1>1. Typed'
  BY StepTyped
<1>2. SUFFICES \E w \in Writers : k \in changed'[w]
  BY <1>1 DEF Typed, PlacesTyped
<1>3. view[k] # store[k] => \E w \in Writers : k \in changed[w]
  BY DEF ListenersCaughtUp
<1>4. CASE UNCHANGED <<store, view, changed>>
  BY <1>3, <1>4
<1>5. ASSUME NEW w \in Writers, Apply(w) PROVE \E v \in Writers : k \in changed'[v]
  <2>1. changed' = [changed EXCEPT ![w] = Changed(store')] /\ UNCHANGED view
    BY <1>5 DEF Apply
  <2>2. changed[w] = {}
    BY <1>5 DEF Apply, Typed, PlacesTyped
  <2>3. CASE store'[k] # store[k]
    <3>1. k \in changed'[w]
      BY <2>1, <2>3 DEF Changed, Typed, PlacesTyped
    <3>2. QED
      BY <3>1
  <2>4. CASE store'[k] = store[k]
    <3>1. PICK v \in Writers : k \in changed[v]
      BY <1>3, <2>1, <2>4
    <3>2. v # w /\ changed'[v] = changed[v]
      BY <2>1, <2>2, <3>1 DEF Typed, PlacesTyped
    <3>3. QED
      BY <3>1, <3>2
  <2>5. QED
    BY <2>3, <2>4
<1>6. ASSUME NEW w \in Writers, Notify(w) PROVE \E v \in Writers : k \in changed'[v]
  <2>1. /\ view' = [j \in Keys |-> IF j \in changed[w] THEN store[j] ELSE view[j]]
        /\ changed' = [changed EXCEPT ![w] = {}] /\ UNCHANGED store
    BY <1>6 DEF Notify
  <2>2. k \notin changed[w] /\ view[k] # store[k]
    BY <2>1
  <2>3. PICK v \in Writers : k \in changed[v]
    BY <1>3, <2>2
  <2>4. changed'[v] = changed[v]
    BY <2>1, <2>2, <2>3 DEF Typed, PlacesTyped
  <2>5. QED
    BY <2>3, <2>4
<1>7. CASE Fill
  BY <1>7 DEF Fill
<1>8. CASE Environment
  BY <1>4, <1>8 DEF Environment, Edit, Ping, Drop, dataVars, writerVars
<1>9. ASSUME NEW w \in Writers, WriterStep(w) PROVE \E v \in Writers : k \in changed'[v]
  BY <1>4, <1>5, <1>6, <1>9 DEF WriterStep, Answer, FetchFails, dataVars
<1>10. CASE RunnerStep
  BY <1>0, <1>4, <1>7, <1>9, <1>10
     DEF RunnerStep, LoadAnswered, LoadFails, StartStream, StartPolling, DialFails,
         DialSucceeds, ReadEvent, SkipEvent, EventHandled, StreamEnds, RunStopped,
         RunGoesOn, CountRecovery, CountFailure, BackoffEnds, dataVars
<1>11. ASSUME NEW p \in Pollers, PollerStep(p) PROVE \E v \in Writers : k \in changed'[v]
  BY <1>0, <1>4, <1>9, <1>11 DEF PollerStep, Tick, PollerExits, dataVars
<1>12. CASE Cancel \/ StopPollers \/ UNCHANGED vars
  BY <1>4, <1>12 DEF Cancel, StopPollers, vars, dataVars, writerVars
<1>13. QED
  BY <1>8, <1>10, <1>11, <1>12 DEF Next

\* A listener that re-reads the flags it is told of is never left with an old
\* value, whatever the stream and any number of pollers write: every difference is
\* owed by a writer that is about to notify.
THEOREM ListenersNeverStale == Spec => []ListenersCaughtUp
<1>1. Init => Typed /\ ListenersCaughtUp
  BY InitTyped, InitCaughtUp
<1>2. Typed /\ ListenersCaughtUp /\ [Next]_vars => (Typed /\ ListenersCaughtUp)'
  BY StepTyped, StepCaughtUp
<1>3. QED
  BY <1>1, <1>2, PTL DEF Spec

-----------------------------------------------------------------------------
(* What this build cannot evaluate                                         *)

LEMMA StepDropsUnevaluable ==
    Typed /\ SourcesDropUnevaluable /\ [Next]_vars => SourcesDropUnevaluable'
<1> SUFFICES ASSUME Typed, SourcesDropUnevaluable, [Next]_vars
             PROVE  SourcesDropUnevaluable'
  OBVIOUS
<1>0. 0 \notin BadEdits /\ Runner \in Writers /\ Pollers \subseteq Writers
  BY DataSourceAssumption DEF Writers
<1>1. CASE UNCHANGED <<store, unchecked>>
  BY <1>1 DEF SourcesDropUnevaluable
<1>2. ASSUME NEW w \in Writers, Apply(w) PROVE SourcesDropUnevaluable'
  <2>1. store' = NewStore(w) /\ unchecked' = StillUnchecked(w)
    BY <1>2 DEF Apply
  <2>2. CASE task[w] = All
    <3>1. store' = Evaluable(reply[w])
      BY <2>1, <2>2 DEF NewStore
    <3>2. \A k \in Keys : store'[k] \notin BadEdits
      BY <1>0, <3>1 DEF Evaluable
    <3>3. QED
      BY <3>2 DEF SourcesDropUnevaluable
  <2>3. CASE task[w] # All /\ reply[w][task[w]] \in BadEdits
    BY <2>1, <2>3 DEF NewStore, StillUnchecked, SourcesDropUnevaluable
  <2>4. CASE task[w] # All /\ reply[w][task[w]] \notin BadEdits
    <3>1. store' = [store EXCEPT ![task[w]] = reply[w][task[w]]]
          /\ unchecked' = unchecked \ {task[w]}
      BY <2>1, <2>4 DEF NewStore, StillUnchecked
    <3>2. store \in [Keys -> 0 .. MaxEdits]
      BY DEF Typed, DataTyped, Config
    <3>3. QED
      BY <2>4, <3>1, <3>2 DEF SourcesDropUnevaluable
  <2>5. QED
    BY <2>2, <2>3, <2>4
<1>3. CASE Fill
  BY <1>3 DEF Fill, SourcesDropUnevaluable
<1>4. CASE Environment
  BY <1>1, <1>4 DEF Environment, Edit, Ping, Drop, dataVars
<1>5. ASSUME NEW w \in Writers, WriterStep(w) PROVE SourcesDropUnevaluable'
  BY <1>1, <1>2, <1>5 DEF WriterStep, Answer, FetchFails, Notify, dataVars
<1>6. CASE RunnerStep
  BY <1>0, <1>1, <1>3, <1>5, <1>6
     DEF RunnerStep, LoadAnswered, LoadFails, StartStream, StartPolling, DialFails,
         DialSucceeds, ReadEvent, SkipEvent, EventHandled, StreamEnds, RunStopped,
         RunGoesOn, CountRecovery, CountFailure, BackoffEnds, dataVars
<1>7. ASSUME NEW p \in Pollers, PollerStep(p) PROVE SourcesDropUnevaluable'
  BY <1>0, <1>1, <1>5, <1>7 DEF PollerStep, Tick, PollerExits, dataVars
<1>8. CASE Cancel \/ StopPollers \/ UNCHANGED vars
  BY <1>1, <1>8 DEF Cancel, StopPollers, vars, dataVars
<1>9. QED
  BY <1>4, <1>6, <1>7, <1>8 DEF Next

\* Polls, sync events and deltas bring nothing into the store that this build cannot
\* evaluate: what there is of it, the initial load has left.
THEOREM SourcesFilter == Spec => []SourcesDropUnevaluable
<1>1. Init => SourcesDropUnevaluable
  BY DataSourceAssumption DEF Init, Nothing, SourcesDropUnevaluable
<1>2. Init => Typed /\ SourcesDropUnevaluable
  BY <1>1, InitTyped
<1>3. Typed /\ SourcesDropUnevaluable /\ [Next]_vars => (Typed /\ SourcesDropUnevaluable)'
  BY StepTyped, StepDropsUnevaluable
<1>4. QED
  BY <1>2, <1>3, PTL DEF Spec

-----------------------------------------------------------------------------
(* Pollers: retired ones run, stop() cancels first, and a connection that  *)
(* delivered has retired the poller, wherever the stream's goroutine is.   *)

PollersControlled ==
    /\ OnePoller
    /\ retired \subseteq Running
    /\ stopped => cancelled
    /\ delivered => fallback = None
    /\ pc[Runner] \in {"load", "fill", "start"} => ~delivered

LEMMA InitControlled == Init => PollersControlled
BY DataSourceAssumption DEF Init, PollersControlled, OnePoller, Running, Writers

\* A writer that neither starts nor ends leaves the set of running pollers alone.
LEMMA RunningKept ==
    ASSUME Typed, NEW w \in Writers, NEW place, Goto(w, place),
           w \in Pollers => pc[w] # "off" /\ place # "off"
    PROVE  Running' = Running /\ pc'[w] = place /\ (w # Runner => pc'[Runner] = pc[Runner])
BY DataSourceAssumption DEF Typed, PlacesTyped, Goto, Running, Writers

LEMMA StopFallbackControls ==
    ASSUME Typed, PollersControlled, StopFallback, Running' = Running
    PROVE  /\ fallback' = None /\ Running' \ retired' = {}
           /\ retired' \subseteq Running'
BY DataSourceAssumption DEF Typed, DataTyped, PollersControlled, OnePoller, StopFallback

LEMMA StartFallbackControls ==
    ASSUME Typed, PollersControlled, NEW place, StartFallback(place), UNCHANGED stopVars
    PROVE  /\ OnePoller' /\ retired' \subseteq Running' /\ pc'[Runner] = place
           /\ UNCHANGED stopVars
<1>0. Runner \in Writers /\ Runner \notin Pollers /\ Pollers \subseteq Writers
      /\ None \notin Pollers
  BY DataSourceAssumption DEF Writers
<1>1. ASSUME fallback = None, ~cancelled, NEW p \in Pollers \ Running, fallback' = p,
             pc' = [pc EXCEPT ![Runner] = place, ![p] = "ask"], UNCHANGED retired
      PROVE  OnePoller' /\ retired' \subseteq Running' /\ pc'[Runner] = place
  <2>1. Running' = Running \union {p} /\ pc'[Runner] = place
    BY <1>0, <1>1 DEF Running, Typed, PlacesTyped
  <2>2. Running \ retired = {} /\ p \notin retired /\ ~stopped'
    BY <1>1 DEF PollersControlled, OnePoller, stopVars
  <2>3. QED
    BY <1>0, <1>1, <2>1, <2>2 DEF OnePoller, PollersControlled
<1>2. CASE Goto(Runner, place) /\ UNCHANGED pollVars
  <2>1. Running' = Running /\ pc'[Runner] = place
    BY <1>0, <1>2, RunningKept
  <2>2. QED
    BY <1>2, <2>1 DEF PollersControlled, OnePoller, pollVars, stopVars
<1>3. QED
  BY <1>1, <1>2 DEF StartFallback

LEMMA StepControlled == Typed /\ PollersControlled /\ [Next]_vars => PollersControlled'
<1> SUFFICES ASSUME Typed, PollersControlled, [Next]_vars PROVE PollersControlled'
  OBVIOUS
<1>0. Runner \in Writers /\ Runner \notin Pollers /\ Pollers \subseteq Writers
      /\ None \notin Pollers
  BY DataSourceAssumption DEF Writers
<1>1. CASE UNCHANGED <<pc, pollVars, stopVars, delivered>>
  BY <1>1 DEF PollersControlled, OnePoller, Running, pollVars, stopVars
\* A move that changes none of what the invariant speaks of but a place.
<1>2. ASSUME NEW w \in Writers, NEW place, Goto(w, place),
             w \in Pollers => pc[w] # "off" /\ place # "off",
             w = Runner => place \notin {"load", "fill", "start"}
                           \/ pc[Runner] \in {"load", "fill", "start"},
             UNCHANGED <<pollVars, stopVars, delivered>>
      PROVE  PollersControlled'
  <2>1. Running' = Running /\ pc'[w] = place /\ (w # Runner => pc'[Runner] = pc[Runner])
    BY <1>2, RunningKept
  <2>2. QED
    BY <1>2, <2>1 DEF PollersControlled, OnePoller, pollVars, stopVars
<1>3. CASE Environment
  BY <1>1, <1>3 DEF Environment, Edit, Ping, Drop, runVars, writerVars
<1>4. ASSUME NEW w \in Writers, WriterStep(w) PROVE PollersControlled'
  <2>1. PICK place : /\ Goto(w, place) /\ pc[w] \in {"ask", "apply", "notify"}
                     /\ place \in {"apply", "notify", "handled", "wait"}
    BY <1>4 DEF WriterStep, Answer, FetchFails, Apply, Notify, Done
  <2>2. UNCHANGED <<pollVars, stopVars, delivered>>
    BY <1>4 DEF WriterStep, Answer, FetchFails, Apply, Notify, runVars
  <2>3. QED
    BY <1>2, <2>1, <2>2
<1>5. CASE \/ LoadAnswered \/ LoadFails \/ Fill \/ StartStream \/ ReadEvent \/ SkipEvent
           \/ StreamEnds \/ RunStopped \/ RunGoesOn \/ BackoffEnds
  <2>1. PICK place : /\ Goto(Runner, place)
                     /\ \/ place \notin {"load", "fill", "start"}
                        \/ pc[Runner] \in {"load", "fill", "start"}
    BY <1>5 DEF LoadAnswered, LoadFails, Fill, StartStream, ReadEvent, SkipEvent,
                StreamEnds, RunStopped, RunGoesOn, BackoffEnds
  <2>2. UNCHANGED <<pollVars, stopVars, delivered>>
    BY <1>5 DEF LoadAnswered, LoadFails, Fill, StartStream, ReadEvent, SkipEvent,
                StreamEnds, RunStopped, RunGoesOn, BackoffEnds, runVars
  <2>3. QED
    BY <1>0, <1>2, <2>1, <2>2
<1>6. CASE DialFails \/ DialSucceeds
  <2>1. PICK place : Goto(Runner, place) /\ place \in {"account", "read"}
    BY <1>6 DEF DialFails, DialSucceeds
  <2>2. ~delivered' /\ UNCHANGED <<pollVars, stopVars>>
    BY <1>6 DEF DialFails, DialSucceeds
  <2>3. Running' = Running /\ pc'[Runner] = place
    BY <1>0, <2>1, RunningKept
  <2>4. QED
    BY <2>1, <2>2, <2>3 DEF PollersControlled, OnePoller, pollVars, stopVars
<1>7. CASE EventHandled
  <2>1. Running' = Running /\ pc'[Runner] = "read"
    BY <1>0, <1>7, RunningKept DEF EventHandled
  <2>2. CASE delivered /\ UNCHANGED pollVars
    BY <1>7, <2>1, <2>2 DEF EventHandled, PollersControlled, OnePoller, pollVars, stopVars
  <2>3. CASE StopFallback
    BY <1>7, <2>1, <2>3, StopFallbackControls
       DEF EventHandled, PollersControlled, OnePoller, stopVars
  <2>4. QED
    BY <1>7, <2>2, <2>3 DEF EventHandled
<1>8. CASE CountRecovery
  <2>1. Running' = Running /\ pc'[Runner] = "backoff"
    BY <1>0, <1>8, RunningKept DEF CountRecovery
  <2>2. StopFallback /\ UNCHANGED <<stopVars, delivered>>
    BY <1>8 DEF CountRecovery
  <2>3. QED
    BY <2>1, <2>2, StopFallbackControls DEF PollersControlled, OnePoller, stopVars
<1>9. CASE StartPolling
  <2>1. StartFallback("off") /\ UNCHANGED <<stopVars, delivered>> /\ ~delivered
    BY <1>9 DEF StartPolling, runVars, PollersControlled
  <2>2. QED
    BY <2>1, StartFallbackControls DEF PollersControlled, stopVars
<1>10. CASE CountFailure
  <2>1. ~delivered /\ UNCHANGED <<stopVars, delivered>>
    BY <1>10 DEF CountFailure
  <2>2. CASE StartFallback("backoff")
    BY <2>1, <2>2, StartFallbackControls DEF PollersControlled, stopVars
  <2>3. CASE Goto(Runner, "backoff") /\ UNCHANGED pollVars
    BY <1>0, <1>2, <2>1, <2>3
  <2>4. QED
    BY <1>10, <2>2, <2>3 DEF CountFailure
<1>11. ASSUME NEW p \in Pollers, PollerStep(p) PROVE PollersControlled'
  <2>1. CASE Tick(p)
    BY <1>0, <1>2, <2>1 DEF Tick, runVars
  <2>2. CASE PollerExits(p)
    <3>1. /\ p \in retired /\ retired' = retired \ {p} /\ Goto(p, "off")
          /\ UNCHANGED <<fallback, stopVars, delivered>>
      BY <2>2 DEF PollerExits, runVars
    <3>2. Running' = Running \ {p} /\ pc'[Runner] = pc[Runner]
      BY <1>0, <3>1 DEF Running, Goto, Typed, PlacesTyped
    <3>3. QED
      BY <3>1, <3>2 DEF PollersControlled, OnePoller, stopVars
  <2>3. QED
    BY <1>0, <1>4, <1>11, <2>1, <2>2 DEF PollerStep
<1>12. CASE Cancel
  BY <1>12 DEF Cancel, PollersControlled, OnePoller, Running, pollVars, runVars, writerVars
<1>13. CASE StopPollers
  <2>1. Running' = Running /\ pc' = pc /\ UNCHANGED delivered
    BY <1>13 DEF StopPollers, Running, runVars, writerVars
  <2>2. QED
    BY <1>13, <2>1, StopFallbackControls DEF StopPollers, PollersControlled, OnePoller
<1>14. CASE UNCHANGED vars
  BY <1>1, <1>14 DEF vars, runVars, writerVars
<1>15. QED
  BY <1>0, <1>3, <1>4, <1>5, <1>6, <1>7, <1>8, <1>9, <1>10, <1>11, <1>12, <1>13, <1>14
     DEF Next, RunnerStep

LEMMA Controlled == Spec => []PollersControlled
<1>1. Init => Typed /\ PollersControlled
  BY InitTyped, InitControlled
<1>2. Typed /\ PollersControlled /\ [Next]_vars => (Typed /\ PollersControlled)'
  BY StepTyped, StepControlled
<1>3. QED
  BY <1>1, <1>2, PTL DEF Spec

\* The one poller not told to stop is the one the handle points at, through any
\* number of failures, recoveries and pollers, and there is none once stop() has
\* returned: no poller is orphaned.
THEOREM NoOrphanedPoller == Spec => []OnePoller
<1>1. PollersControlled => OnePoller
  BY DEF PollersControlled
<1>2. QED
  BY <1>1, Controlled, PTL

\* No poller that is not told to stop runs beside a stream that has delivered an
\* event and is being read.
THEOREM StreamTakesOver == Spec => []StreamReplacesPoller
<1>1. PollersControlled => StreamReplacesPoller
  BY DEF PollersControlled, StreamReplacesPoller
<1>2. QED
  BY <1>1, Controlled, PTL

\* Through all failures, recoveries and stop(), the poller is there for the
\* stream and never beside it.
THEOREM PollersFollowStreams == Spec => []PollerFollowsStream
<1>1. OnePoller /\ StreamReplacesPoller => PollerFollowsStream
  BY DEF PollerFollowsStream
<1>2. QED
  BY <1>1, NoOrphanedPoller, StreamTakesOver, PTL

=============================================================================
