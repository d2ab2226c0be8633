---------------------------- MODULE Subscriptions ----------------------------
(***************************************************************************)
(* Flag-update subscriptions: Client.OnUpdate and Client.Close of          *)
(* featureflip.go, the listener registry, the fan-out and the end of       *)
(* shutdown of shared_core.go.  Several clients (Handles) share one core.  *)
(* Listeners run on the source goroutines and may call the SDK themselves: *)
(* a source inside a callback makes calls like any caller.  Each critical  *)
(* section is one action.                                                  *)
(***************************************************************************)
EXTENDS Integers, FiniteSets, Functions

CONSTANTS
    Callers,     \* application goroutines
    Sources,     \* streaming and polling goroutines
    Handles,     \* clients of the core, all open at first
    None,        \* nil
    MaxSubs,     \* bound of the model: calls of OnUpdate that register
    MaxUpdates   \* bound of the model: changes received

ASSUME SubscriptionsAssumption ==
    /\ Callers \intersect Sources = {}
    /\ IsFiniteSet(Callers) /\ IsFiniteSet(Sources)
    /\ IsFiniteSet(Handles) /\ Handles # {}
    /\ MaxSubs \in Nat /\ MaxUpdates \in Nat
    /\ None \notin Handles \union Nat

VARIABLES
    listeners,   \* updateListeners: a function from ids to subscriptions
    nextListenerID,
    disposed,    \* the handles Close was called on
    unsubs,      \* the subscriptions each handle drops when it closes
    cut,         \* subscriptions whose once-only unsubscribe has run
    refCount,
    cancelled,   \* the sources' contexts are cancelled
    down,        \* shutdown has returned
    idOf, ownerOf, returned, \* of each subscription: id, handle, OnUpdate is over
    made,        \* how many subscriptions were made
    version,     \* how many changes the sources received
    pc, handle, sub, drop,   \* each goroutine's place and locals in a call
    stage, todo, callee, update, \* each source's place and locals in a fan-out
    overlapped,  \* history: handles closed while an OnUpdate on them was running
    since, seen  \* history: version at registration, and versions delivered

subVars  == <<unsubs, cut, idOf, ownerOf, returned, made, since>>
coreVars == <<refCount, cancelled, down>>
callVars == <<pc, handle, sub, drop>>
fanVars  == <<stage, todo, callee, update, version, seen>>
vars == <<listeners, nextListenerID, disposed, subVars, coreVars, callVars,
          fanVars, overlapped>>

Goroutines == Callers \union Sources
Subs == 1 .. MaxSubs

Init ==
    /\ listeners = [i \in {} |-> None]
    /\ nextListenerID = 0
    /\ disposed = {}
    /\ unsubs = [h \in Handles |-> {}]
    /\ cut = {}
    /\ refCount = Cardinality(Handles)
    /\ cancelled = FALSE /\ down = FALSE
    /\ idOf = [s \in Subs |-> None] /\ ownerOf = [s \in Subs |-> None]
    /\ returned = {}
    /\ made = 0 /\ version = 0
    /\ pc = [g \in Goroutines |-> "idle"]
    /\ handle = [g \in Goroutines |-> None]
    /\ sub = [g \in Goroutines |-> None]
    /\ drop = [g \in Goroutines |-> {}]
    /\ stage = [s \in Sources |-> "wait"]
    /\ todo = [s \in Sources |-> {}]
    /\ callee = [s \in Sources |-> None]
    /\ update = [s \in Sources |-> 0]
    /\ overlapped = {}
    /\ since = [s \in Subs |-> 0]
    /\ seen = [s \in Subs |-> {}]

Goto(g, place) == pc' = [pc EXCEPT ![g] = place]

\* Application code runs on g: on a caller, or on a source inside a listener.
MayCall(g) ==
    /\ pc[g] = "idle"
    /\ g \in Sources => callee[g] # None

Registered == Range(listeners)

Having(id, s) == [i \in DOMAIN listeners \union {id} |->
                    IF i = id THEN s ELSE listeners[i]]

-----------------------------------------------------------------------------
(* OnUpdate *)

\* The check that the handle is open; a closed one gets a no-op.
OnUpdate(g, h) ==
    /\ MayCall(g)
    /\ h \notin disposed
    /\ made + Cardinality({o \in Goroutines : pc[o] = "register"}) < MaxSubs
    /\ Goto(g, "register")
    /\ handle' = [handle EXCEPT ![g] = h]
    /\ UNCHANGED <<listeners, nextListenerID, disposed, subVars, coreVars, sub,
                   drop, fanVars, overlapped>>

\* Mutant: the number of listeners as the next id.
CountAsID == Cardinality(DOMAIN listeners)

\* Ids only grow, so an id names one subscription for ever.
FreshID == nextListenerID

\* Mutant: the id counter is not advanced.
AddWithoutCounting(g) ==
    /\ pc[g] = "register"
    /\ made' = made + 1
    /\ listeners' = Having(FreshID, made')
    /\ idOf' = [idOf EXCEPT ![made'] = FreshID]
    /\ ownerOf' = [ownerOf EXCEPT ![made'] = handle[g]]
    /\ since' = [since EXCEPT ![made'] = version]
    /\ sub' = [sub EXCEPT ![g] = made']
    /\ Goto(g, "record")
    /\ UNCHANGED <<nextListenerID, disposed, unsubs, cut, returned, coreVars, handle,
                   drop, fanVars, overlapped>>

\* addUpdateListener
AddUpdateListener(g) ==
    /\ pc[g] = "register"
    /\ made' = made + 1
    /\ listeners' = Having(FreshID, made')
    /\ nextListenerID' = nextListenerID + 1
    /\ idOf' = [idOf EXCEPT ![made'] = FreshID]
    /\ ownerOf' = [ownerOf EXCEPT ![made'] = handle[g]]
    /\ since' = [since EXCEPT ![made'] = version]
    /\ sub' = [sub EXCEPT ![g] = made']
    /\ Goto(g, "record")
    /\ UNCHANGED <<disposed, unsubs, cut, returned, coreVars, handle, drop,
                   fanVars, overlapped>>

\* The handle remembers what to drop, and the caller gets the unsubscribe.
RecordUnsub(g) ==
    /\ pc[g] = "record"
    /\ unsubs' = [unsubs EXCEPT ![handle[g]] = @ \union {sub[g]}]
    /\ returned' = returned \union {sub[g]}
    /\ Goto(g, "idle")
    /\ UNCHANGED <<listeners, nextListenerID, disposed, cut, idOf, ownerOf, made,
                   since, coreVars, handle, sub, drop, fanVars, overlapped>>

\* The unsubscribe func: sync.Once around the deletion of its own id.
Unsub(s) ==
    \/ /\ s \notin cut
       /\ listeners' = Restrict(listeners, DOMAIN listeners \ {idOf[s]})
       /\ cut' = cut \union {s}
    \/ /\ s \in cut
       /\ UNCHANGED <<listeners, cut>>

Unsubscribe(g, s) ==
    /\ MayCall(g)
    /\ s \in returned
    /\ Unsub(s)
    /\ UNCHANGED <<nextListenerID, disposed, unsubs, idOf, ownerOf, returned, made,
                   since, coreVars, callVars, fanVars, overlapped>>

-----------------------------------------------------------------------------
(* Close, release and shutdown *)

\* The CAS on disposed.
Close(g, h) ==
    /\ MayCall(g)
    /\ h \notin disposed
    /\ disposed' = disposed \union {h}
    /\ overlapped' =
         IF \E o \in Goroutines : pc[o] \in {"register", "record"} /\ handle[o] = h
         THEN overlapped \union {h} ELSE overlapped
    /\ handle' = [handle EXCEPT ![g] = h]
    /\ Goto(g, "take")
    /\ UNCHANGED <<listeners, nextListenerID, subVars, coreVars, sub, drop, fanVars>>

\* Mutant: the handle forgets its subscriptions without dropping them.
TakeNothing(g) ==
    /\ pc[g] = "take"
    /\ unsubs' = [unsubs EXCEPT ![handle[g]] = {}]
    /\ Goto(g, "drop")
    /\ UNCHANGED <<listeners, nextListenerID, disposed, cut, idOf, ownerOf, returned,
                   made, since, coreVars, handle, sub, drop, fanVars, overlapped>>

\* The list is taken under subsMu ...
TakeUnsubs(g) ==
    /\ pc[g] = "take"
    /\ drop' = [drop EXCEPT ![g] = unsubs[handle[g]]]
    /\ unsubs' = [unsubs EXCEPT ![handle[g]] = {}]
    /\ Goto(g, "drop")
    /\ UNCHANGED <<listeners, nextListenerID, disposed, cut, idOf, ownerOf, returned,
                   made, since, coreVars, handle, sub, fanVars, overlapped>>

\* ... and each is unsubscribed without it.
DropSub(g) ==
    /\ pc[g] = "drop"
    /\ \E s \in drop[g] :
         /\ Unsub(s)
         /\ drop' = [drop EXCEPT ![g] = @ \ {s}]
    /\ UNCHANGED <<nextListenerID, disposed, unsubs, idOf, ownerOf, returned, made,
                   since, coreVars, pc, handle, sub, fanVars, overlapped>>

\* release: the last one shuts the core down.
Release(g) ==
    /\ pc[g] = "drop"
    /\ drop[g] = {}
    /\ refCount' = refCount - 1
    /\ Goto(g, IF refCount = 1 THEN "stop" ELSE "idle")
    /\ UNCHANGED <<listeners, nextListenerID, disposed, subVars, cancelled, down,
                   handle, sub, drop, fanVars, overlapped>>

\* Mutant: the sources are left running.
StopNothing(g) ==
    /\ pc[g] = "stop"
    /\ Goto(g, "forget")
    /\ UNCHANGED <<listeners, nextListenerID, disposed, subVars, coreVars, handle,
                   sub, drop, fanVars, overlapped>>

\* shutdown: stop() cancels a source's context, it does not wait for it.
StopSources(g) ==
    /\ pc[g] = "stop"
    /\ cancelled' = TRUE
    /\ Goto(g, "forget")
    /\ UNCHANGED <<listeners, nextListenerID, disposed, subVars, refCount, down,
                   handle, sub, drop, fanVars, overlapped>>

\* shutdown: every subscription is dropped.
ForgetListeners(g) ==
    /\ pc[g] = "forget"
    /\ listeners' = [i \in {} |-> None]
    /\ down' = TRUE
    /\ Goto(g, "idle")
    /\ UNCHANGED <<nextListenerID, disposed, subVars, refCount, cancelled, handle,
                   sub, drop, fanVars, overlapped>>

-----------------------------------------------------------------------------
(* notifyUpdateListeners, on a source goroutine *)

Stage(s, place) == stage' = [stage EXCEPT ![s] = place]

\* A change is read and applied to the store.  It may be so after the sources are
\* cancelled: the stream can be past its look at the context, and the select of a
\* poller with a tick ready can take the tick.
Receive(s) ==
    /\ stage[s] = "wait"
    /\ version < MaxUpdates
    /\ version' = version + 1
    /\ update' = [update EXCEPT ![s] = version']
    /\ Stage(s, "copy")
    /\ UNCHANGED <<listeners, nextListenerID, disposed, subVars, coreVars, callVars,
                   todo, callee, seen, overlapped>>

\* The listeners are copied under the lock ...
CopyListeners(s) ==
    /\ stage[s] = "copy"
    /\ todo' = [todo EXCEPT ![s] = Registered]
    /\ Stage(s, "call")
    /\ UNCHANGED <<listeners, nextListenerID, disposed, subVars, coreVars, callVars,
                   callee, update, version, seen, overlapped>>

\* ... and called without it, in the map's random order.
CallListener(s) ==
    /\ stage[s] = "call"
    /\ callee[s] = None
    /\ \E l \in todo[s] :
         /\ callee' = [callee EXCEPT ![s] = l]
         /\ todo' = [todo EXCEPT ![s] = @ \ {l}]
         /\ seen' = [seen EXCEPT ![l] = @ \union {update[s]}]
    /\ UNCHANGED <<listeners, nextListenerID, disposed, subVars, coreVars, callVars,
                   stage, update, version, overlapped>>

ListenerReturns(s) ==
    /\ callee[s] # None
    /\ pc[s] = "idle"
    /\ callee' = [callee EXCEPT ![s] = None]
    /\ UNCHANGED <<listeners, nextListenerID, disposed, subVars, coreVars, callVars,
                   stage, todo, update, version, seen, overlapped>>

\* Mutant: a panic unwinds the whole fan-out.
PanicEscapes(s) ==
    /\ callee[s] # None
    /\ pc[s] = "idle"
    /\ callee' = [callee EXCEPT ![s] = None]
    /\ todo' = [todo EXCEPT ![s] = {}]
    /\ UNCHANGED <<listeners, nextListenerID, disposed, subVars, coreVars, callVars,
                   stage, update, version, seen, overlapped>>

\* A panic is recovered around the one listener; the others still run.
ListenerPanics(s) ==
    /\ callee[s] # None
    /\ pc[s] = "idle"
    /\ callee' = [callee EXCEPT ![s] = None]
    /\ UNCHANGED <<listeners, nextListenerID, disposed, subVars, coreVars, callVars,
                   stage, todo, update, version, seen, overlapped>>

FanOutEnds(s) ==
    /\ stage[s] = "call"
    /\ todo[s] = {} /\ callee[s] = None
    /\ Stage(s, "wait")
    /\ UNCHANGED <<listeners, nextListenerID, disposed, subVars, coreVars, callVars,
                   todo, callee, update, version, seen, overlapped>>

\* The source notices its cancelled context between two changes.
SourceExits(s) ==
    /\ stage[s] = "wait"
    /\ cancelled
    /\ Stage(s, "gone")
    /\ UNCHANGED <<listeners, nextListenerID, disposed, subVars, coreVars, callVars,
                   todo, callee, update, version, seen, overlapped>>

-----------------------------------------------------------------------------
CallStep(g) ==
    \/ AddUpdateListener(g) \/ RecordUnsub(g) \/ TakeUnsubs(g) \/ DropSub(g)
    \/ Release(g) \/ StopSources(g) \/ ForgetListeners(g)

Call(g) ==
    \/ \E h \in Handles : OnUpdate(g, h) \/ Close(g, h)
    \/ \E s \in Subs : Unsubscribe(g, s)

FanOutStep(s) ==
    \/ CopyListeners(s) \/ CallListener(s) \/ ListenerReturns(s) \/ ListenerPanics(s)
    \/ FanOutEnds(s) \/ SourceExits(s)

Next ==
    \/ \E g \in Goroutines : Call(g) \/ CallStep(g)
    \/ \E s \in Sources : Receive(s) \/ FanOutStep(s)

Spec == Init /\ [][Next]_vars

\* Goroutines inside the SDK go on, and listeners do not block (their contract); a
\* select that finds the context cancelled again and again takes that case in the end.
FairSpec ==
    /\ Spec
    /\ \A g \in Goroutines : WF_vars(CallStep(g))
    /\ \A s \in Sources : WF_vars(FanOutStep(s)) /\ SF_vars(SourceExits(s))

-----------------------------------------------------------------------------
(* Properties *)

\* Every variable keeps its type, and the map never holds an id that was not
\* given out.
TypeOK ==
    /\ DOMAIN listeners \subseteq 0 .. nextListenerID - 1
    /\ Registered \subseteq 1 .. made
    /\ disposed \subseteq Handles /\ overlapped \subseteq disposed
    /\ unsubs \in [Handles -> SUBSET Subs]
    /\ cut \subseteq returned /\ returned \subseteq 1 .. made
    /\ refCount \in 0 .. Cardinality(Handles)
    /\ cancelled \in BOOLEAN /\ down \in BOOLEAN
    /\ pc \in [Goroutines -> {"idle", "register", "record", "take", "drop", "stop",
                              "forget"}]
    /\ stage \in [Sources -> {"wait", "copy", "call", "gone"}]
    /\ todo \in [Sources -> SUBSET Subs]
    /\ callee \in [Sources -> Subs \union {None}]
    /\ made \in 0 .. MaxSubs /\ version \in 0 .. MaxUpdates

\* A subscription of an open client stays until its own unsubscribe: neither
\* another subscription's unsubscribe nor a sibling's Close removes it.
OpenSubscriptionStays ==
    \A s \in returned : s \notin cut /\ ownerOf[s] \notin disposed => s \in Registered

\* Close has returned for every handle it was called on.
NoCloseRunning == \A g \in Goroutines : pc[g] \notin {"take", "drop", "stop", "forget"}

\* A closed client's subscriptions are gone, also when siblings keep the core
\* alive, provided no OnUpdate was running on it when it was closed.
CloseDropsSubscriptions ==
    NoCloseRunning =>
        \A s \in Registered : ownerOf[s] \in disposed => ownerOf[s] \in overlapped

\* A subscription lasts as long as its own unsubscribe and its own client let it.
SubscriptionsFollowOwners == OpenSubscriptionStays /\ CloseDropsSubscriptions

\* When the sources are between changes, a listener that is still registered
\* was called for every change received since it registered, whatever other
\* listeners did: panic, unsubscribe, subscribe or close a client.
ChangesReachListeners ==
    (\A s \in Sources : stage[s] \in {"wait", "gone"}) =>
        \A l \in Registered : since[l] + 1 .. version \subseteq seen[l]

\* Once every client is closed the sources' goroutines end.
SourcesEnd == disposed = Handles ~> \A s \in Sources : stage[s] = "gone"

\* The comment on OnUpdate: `Subscriptions are also dropped when this handle is
\* closed'.
ClosedClientHasNoListener ==
    (\A g \in Goroutines : pc[g] = "idle") =>
        \A s \in Registered : ownerOf[s] \notin disposed

\* The comment in shutdown: `The data sources are stopped above, so nothing
\* should fire after this'.
NothingFiresAfterShutdown ==
    [][\A s \in Sources : down /\ callee[s] = None => callee'[s] = None]_vars

=============================================================================
