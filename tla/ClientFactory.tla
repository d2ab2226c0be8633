---------------------------- MODULE ClientFactory ----------------------------
(***************************************************************************)
(* The process-wide client factory (featureflip.go) and the refcounted     *)
(* lifecycle of the cores it hands out (shared_core.go).  Goroutines call  *)
(* Get, Close and ResetForTesting.  liveCoresMu guards only the map, the   *)
(* refcount is an atomic: every critical section and every successful CAS  *)
(* is one action, and other goroutines run in between.                     *)
(*                                                                         *)
(* Cores are numbered as they are constructed.                             *)
(***************************************************************************)
EXTENDS Integers, FiniteSets

CONSTANTS
    Threads,    \* application goroutines
    Keys,       \* SDK keys
    None,       \* nil
    MaxCores,   \* bound of the model: cores constructed
    MaxGets,    \* bound of the model: calls of Get
    MaxResets   \* bound of the model: calls of ResetForTesting

ASSUME ClientFactoryAssumption ==
    /\ MaxCores \in Nat /\ MaxGets \in Nat /\ MaxResets \in Nat
    /\ None \notin Keys \union (1 .. MaxCores)
    /\ IsFiniteSet(Threads)

VARIABLES
    liveCores,  \* the factory's map
    refCount,   \* sharedCore.refCount
    shutDown,   \* sharedCore.shutDown
    running,    \* its event ticker and data source goroutines run
    loaded,     \* doInit is past the initial fetch, successful or not
    keyOf,      \* the key a core was published under, None if it never was
    handles,    \* how many clients of a core have not been closed
    constructed,\* how many cores were constructed
    gets, resets, \* calls made, for the bounds
    disowned,   \* history: cores ResetForTesting found in the map
    pc, key, core, todo  \* each goroutine's place and locals

vars == <<liveCores, refCount, shutDown, running, loaded, keyOf, handles,
          constructed, gets, resets, disowned, pc, key, core, todo>>

locals == <<key, todo>>

Cores == 1 .. MaxCores

Places == {"idle", "lookup", "acquire", "unmap", "insert", "race", "load", "start",
           "release", "unpublish", "stop", "reset"}

Init ==
    /\ liveCores = [k \in Keys |-> None]
    /\ refCount = [c \in Cores |-> 0]
    /\ shutDown = [c \in Cores |-> FALSE]
    /\ running = [c \in Cores |-> FALSE]
    /\ loaded = [c \in Cores |-> FALSE]
    /\ keyOf = [c \in Cores |-> None]
    /\ handles = [c \in Cores |-> 0]
    /\ constructed = 0
    /\ gets = 0 /\ resets = 0
    /\ disowned = {}
    /\ pc = [t \in Threads |-> "idle"]
    /\ key = [t \in Threads |-> None]
    /\ core = [t \in Threads |-> None]
    /\ todo = [t \in Threads |-> {}]

Goto(t, place) == pc' = [pc EXCEPT ![t] = place]

-----------------------------------------------------------------------------
(* Get *)

Get(t, k) ==
    /\ pc[t] = "idle"
    /\ gets < MaxGets
    /\ gets' = gets + 1
    /\ key' = [key EXCEPT ![t] = k]
    /\ Goto(t, "lookup")
    /\ UNCHANGED <<liveCores, refCount, shutDown, running, loaded, keyOf,
                   handles, constructed, resets, disowned, core, todo>>

\* The locked lookup at the top of the retry loop.
Lookup(t) ==
    /\ pc[t] = "lookup"
    /\ core' = [core EXCEPT ![t] = liveCores[key[t]]]
    /\ Goto(t, IF liveCores[key[t]] = None THEN "insert" ELSE "acquire")
    /\ UNCHANGED <<liveCores, refCount, shutDown, running, loaded, keyOf,
                   handles, constructed, gets, resets, disowned, locals>>

\* Mutant: a dead core is acquired like any other.
AcquirableAlways(c) == TRUE

\* tryAcquire fails once the count has been zero.
Acquirable(c) == refCount[c] > 0

\* Mutant: the winner of the race to insert is handed out without tryAcquire.
TryAcquireFoundOnly(t) ==
    /\ pc[t] \in {"acquire", "race"}
    /\ \/ /\ pc[t] = "race" \/ Acquirable(core[t])
          /\ refCount' = [refCount EXCEPT ![core[t]] = IF pc[t] = "race" THEN @ ELSE @ + 1]
          /\ handles' = [handles EXCEPT ![core[t]] = @ + 1]
          /\ Goto(t, "idle")
       \/ /\ pc[t] = "acquire" /\ ~Acquirable(core[t])
          /\ Goto(t, "unmap")
          /\ UNCHANGED <<refCount, handles>>
    /\ UNCHANGED <<liveCores, shutDown, running, loaded, keyOf, constructed, gets,
                   resets, disowned, core, locals>>

\* Mutant: the loser of the race to insert keeps trying the winner.
TryAcquireSpins(t) ==
    /\ pc[t] \in {"acquire", "race"}
    /\ \/ /\ Acquirable(core[t])
          /\ refCount' = [refCount EXCEPT ![core[t]] = @ + 1]
          /\ handles' = [handles EXCEPT ![core[t]] = @ + 1]
          /\ Goto(t, "idle")
       \/ /\ ~Acquirable(core[t])
          /\ Goto(t, IF pc[t] = "acquire" THEN "unmap" ELSE "race")
          /\ UNCHANGED <<refCount, handles>>
    /\ UNCHANGED <<liveCores, shutDown, running, loaded, keyOf, constructed, gets,
                   resets, disowned, core, locals>>

\* Mutant: a handle that is shared does not count.
ShareUncounted(t) ==
    /\ pc[t] \in {"acquire", "race"}
    /\ \/ /\ Acquirable(core[t])
          /\ handles' = [handles EXCEPT ![core[t]] = @ + 1]
          /\ Goto(t, "idle")
       \/ /\ ~Acquirable(core[t])
          /\ Goto(t, IF pc[t] = "acquire" THEN "unmap" ELSE "lookup")
          /\ UNCHANGED handles
    /\ UNCHANGED <<liveCores, refCount, shutDown, running, loaded, keyOf, constructed, gets,
                   resets, disowned, core, locals>>

\* tryAcquire of the core the lookup found, or that won the race to insert; a
\* handle on success, another round otherwise.
TryAcquire(t) ==
    /\ pc[t] \in {"acquire", "race"}
    /\ \/ /\ Acquirable(core[t])
          /\ refCount' = [refCount EXCEPT ![core[t]] = @ + 1]
          /\ handles' = [handles EXCEPT ![core[t]] = @ + 1]
          /\ Goto(t, "idle")
       \/ /\ ~Acquirable(core[t])
          /\ Goto(t, IF pc[t] = "acquire" THEN "unmap" ELSE "lookup")
          /\ UNCHANGED <<refCount, handles>>
    /\ UNCHANGED <<liveCores, shutDown, running, loaded, keyOf, constructed, gets,
                   resets, disowned, core, locals>>

\* Mutant: whatever the map holds under the key is deleted.
WithoutWhatever(c, k) == [liveCores EXCEPT ![k] = None]

\* The map without core c, if it still holds that very core under key k.
Without(c, k) == [liveCores EXCEPT ![k] = IF @ = c THEN None ELSE @]

\* The stale entry is removed, unless somebody replaced it.
UnmapStale(t) ==
    /\ pc[t] = "unmap"
    /\ liveCores' = Without(core[t], key[t])
    /\ Goto(t, "lookup")
    /\ UNCHANGED <<refCount, shutDown, running, loaded, keyOf, handles,
                   constructed, gets, resets, disowned, core, locals>>

\* Mutant: the core that lost the race is forgotten.
ForgetSpeculative(c) == UNCHANGED <<refCount, shutDown>>

\* The core that lost the race is released; nobody else ever saw it.
DropSpeculative(c) ==
    /\ refCount' = refCount
    /\ shutDown' = [shutDown EXCEPT ![c] = TRUE]

\* Mutant: no second look at the map before publishing.
InsertBlindly(t) ==
    /\ pc[t] = "insert"
    /\ constructed < MaxCores
    /\ constructed' = constructed + 1
    /\ core' = [core EXCEPT ![t] = constructed']
    /\ liveCores' = [liveCores EXCEPT ![key[t]] = constructed']
    /\ keyOf' = [keyOf EXCEPT ![constructed'] = key[t]]
    /\ refCount' = [refCount EXCEPT ![constructed'] = 1]
    /\ Goto(t, "load")
    /\ UNCHANGED <<shutDown, running, loaded, handles, gets, resets, disowned,
                   locals>>

\* newSharedCore and the locked double-check: publish it, or drop it.
Insert(t) ==
    /\ pc[t] = "insert"
    /\ constructed < MaxCores
    /\ constructed' = constructed + 1
    /\ LET c == constructed' IN
       \/ /\ liveCores[key[t]] # None
          /\ core' = [core EXCEPT ![t] = liveCores[key[t]]]
          /\ DropSpeculative(c)
          /\ Goto(t, "race")
          /\ UNCHANGED <<liveCores, keyOf>>
       \/ /\ liveCores[key[t]] = None
          /\ core' = [core EXCEPT ![t] = c]
          /\ liveCores' = [liveCores EXCEPT ![key[t]] = c]
          /\ keyOf' = [keyOf EXCEPT ![c] = key[t]]
          /\ refCount' = [refCount EXCEPT ![c] = 1]
          /\ Goto(t, "load")
          /\ UNCHANGED shutDown
    /\ UNCHANGED <<running, loaded, handles, gets, resets, disowned, locals>>

\* doInit: the initial fetch answers, fails or times out ...
InitialLoad(t) ==
    /\ pc[t] = "load"
    /\ loaded' = [loaded EXCEPT ![core[t]] = TRUE]
    /\ Goto(t, "start")
    /\ UNCHANGED <<liveCores, refCount, shutDown, running, keyOf, handles,
                   constructed, gets, resets, disowned, core, locals>>

\* ... and the event processor and the data source are started whatever it did.
\* doInit never fails, so Get returns the handle.
StartSources(t) ==
    /\ pc[t] = "start"
    /\ running' = [running EXCEPT ![core[t]] = TRUE]
    /\ handles' = [handles EXCEPT ![core[t]] = @ + 1]
    /\ Goto(t, "idle")
    /\ UNCHANGED <<liveCores, refCount, shutDown, loaded, keyOf, constructed, gets,
                   resets, disowned, core, locals>>

-----------------------------------------------------------------------------
(* Close and shutdown *)

\* Close: the CAS on disposed makes one caller of a handle go on to release.
Close(t, c) ==
    /\ pc[t] = "idle"
    /\ handles[c] > 0
    /\ handles' = [handles EXCEPT ![c] = @ - 1]
    /\ core' = [core EXCEPT ![t] = c]
    /\ Goto(t, "release")
    /\ UNCHANGED <<liveCores, refCount, shutDown, running, loaded, keyOf,
                   constructed, gets, resets, disowned, locals>>

\* Where a goroutine goes when release() returns.
Resume(t) == IF todo[t] = {} THEN "idle" ELSE "reset"

\* Mutant: an over-release is counted.
ReleaseBelowZero(t, c) ==
    /\ refCount' = [refCount EXCEPT ![c] = @ - 1]
    /\ shutDown' = [shutDown EXCEPT ![c] = @ \/ refCount[c] = 1]
    /\ Goto(t, IF refCount[c] = 1 THEN "unpublish" ELSE Resume(t))

\* release of core c: whoever takes the count to zero runs shutdown, and an
\* over-release does nothing.
ReleaseRef(t, c) ==
    \/ /\ refCount[c] > 0
       /\ refCount' = [refCount EXCEPT ![c] = @ - 1]
       /\ shutDown' = [shutDown EXCEPT ![c] = refCount[c] = 1]
       /\ Goto(t, IF refCount[c] = 1 THEN "unpublish" ELSE Resume(t))
    \/ /\ refCount[c] <= 0
       /\ Goto(t, Resume(t))
       /\ UNCHANGED <<refCount, shutDown>>

Release(t) ==
    /\ pc[t] = "release"
    /\ ReleaseRef(t, core[t])
    /\ UNCHANGED <<liveCores, running, loaded, keyOf, handles, constructed, gets,
                   resets, disowned, core, locals>>

\* shutdown: the core leaves the map it was published in, if it is still there.
Unpublish(t) ==
    /\ pc[t] = "unpublish"
    /\ liveCores' = Without(core[t], keyOf[core[t]])
    /\ Goto(t, "stop")
    /\ UNCHANGED <<refCount, shutDown, running, loaded, keyOf, handles,
                   constructed, gets, resets, disowned, core, locals>>

\* shutdown: the data source and the event processor are stopped.
StopSources(t) ==
    /\ pc[t] = "stop"
    /\ running' = [running EXCEPT ![core[t]] = FALSE]
    /\ Goto(t, Resume(t))
    /\ UNCHANGED <<liveCores, refCount, shutDown, loaded, keyOf, handles,
                   constructed, gets, resets, disowned, core, locals>>

-----------------------------------------------------------------------------
(* ResetForTesting *)

Mapped == {liveCores[k] : k \in Keys} \ {None}

\* The map is replaced by an empty one.
Reset(t) ==
    /\ pc[t] = "idle"
    /\ resets < MaxResets
    /\ resets' = resets + 1
    /\ todo' = [todo EXCEPT ![t] = Mapped]
    /\ disowned' = disowned \union Mapped
    /\ liveCores' = [k \in Keys |-> None]
    /\ Goto(t, IF Mapped = {} THEN "idle" ELSE "reset")
    /\ UNCHANGED <<refCount, shutDown, running, loaded, keyOf, handles,
                   constructed, gets, key, core>>

\* One release of a core it found ...
ResetRelease(t) ==
    /\ pc[t] = "reset"
    /\ \E c \in todo[t] :
         /\ refCount[c] > 0 /\ ~shutDown[c]
         /\ core' = [core EXCEPT ![t] = c]
         /\ ReleaseRef(t, c)
    /\ UNCHANGED <<liveCores, running, loaded, keyOf, handles, constructed, gets,
                   resets, disowned, locals>>

\* ... until it is dead.
ResetNext(t) ==
    /\ pc[t] = "reset"
    /\ \E c \in todo[t] :
         /\ refCount[c] <= 0 \/ shutDown[c]
         /\ todo' = [todo EXCEPT ![t] = @ \ {c}]
         /\ Goto(t, IF todo[t] = {c} THEN "idle" ELSE "reset")
    /\ UNCHANGED <<liveCores, refCount, shutDown, running, loaded, keyOf, handles,
                   constructed, gets, resets, disowned, key, core>>

-----------------------------------------------------------------------------
Step(t) ==
    \/ Lookup(t) \/ TryAcquire(t) \/ UnmapStale(t) \/ Insert(t)
    \/ InitialLoad(t) \/ StartSources(t)
    \/ Release(t) \/ Unpublish(t) \/ StopSources(t)
    \/ ResetRelease(t) \/ ResetNext(t)

Call(t) ==
    \/ \E k \in Keys : Get(t, k)
    \/ \E c \in Cores : Close(t, c)
    \/ Reset(t)

Next == \E t \in Threads : Call(t) \/ Step(t)

Spec == Init /\ [][Next]_vars

\* Every goroutine inside a call goes on; the initial fetch is bounded by
\* initTimeout.  Nothing obliges anybody to make a call.
FairSpec == Spec /\ \A t \in Threads : WF_vars(Step(t))

-----------------------------------------------------------------------------
(* Properties *)

\* Goroutines that hold a reference which is not a client's.
Holders(c) == {t \in Threads : core[t] = c /\ pc[t] \in {"load", "start", "release"}}

Quiescent == \A t \in Threads : pc[t] = "idle"

\* Every variable keeps its type; in particular no over-release takes a count
\* below zero.
TypeOK ==
    /\ liveCores \in [Keys -> Cores \union {None}]
    /\ refCount \in [Cores -> Nat]
    /\ shutDown \in [Cores -> BOOLEAN]
    /\ running \in [Cores -> BOOLEAN]
    /\ loaded \in [Cores -> BOOLEAN]
    /\ keyOf \in [Cores -> Keys \union {None}]
    /\ handles \in [Cores -> Nat]
    /\ constructed \in 0 .. MaxCores
    /\ gets \in 0 .. MaxGets /\ resets \in 0 .. MaxResets
    /\ disowned \subseteq Cores
    /\ pc \in [Threads -> Places]
    /\ key \in [Threads -> Keys \union {None}]
    /\ core \in [Threads -> Cores \union {None}]
    /\ todo \in [Threads -> SUBSET Cores]

\* The refcount is exact: one for each client that is not closed and each
\* goroutine that is still constructing or releasing one.
RefCountExact ==
    \A c \in Cores \ disowned : refCount[c] = handles[c] + Cardinality(Holders(c))

\* An open client's core is alive: it was not shut down under it.
OpenClientIsAlive ==
    \A c \in Cores \ disowned : handles[c] > 0 => refCount[c] > 0 /\ ~shutDown[c]

\* `concurrent Get calls resolve to exactly one core per key': a core that is
\* referenced is the one in the map, so that no second one is made beside it,
\* and nobody's stale delete or shutdown ever removes it.
LiveCoreIsPublished ==
    \A c \in Cores \ disowned :
        refCount[c] > 0 => keyOf[c] # None /\ liveCores[keyOf[c]] = c

\* The clients of a key share one core, alive while any of them is open.
OneLiveCore == OpenClientIsAlive /\ LiveCoreIsPublished

\* When every call has returned, a core with no open client is shut down, its
\* goroutines are stopped and the cache does not hold it: nothing is leaked,
\* neither a core that lost the race to be published.
NothingLeaks ==
    Quiescent =>
        \A c \in 1 .. constructed :
            c \notin disowned /\ handles[c] = 0
                => shutDown[c] /\ ~running[c] /\ c \notin Mapped

\* doInit ends long after its core was published and shared: whoever closes it
\* meanwhile, a core that was shut down is never started, except when
\* ResetForTesting took the reference of the Get that is still inside.
DeadCoresStayStopped ==
    [][\A c \in Cores : shutDown[c] /\ ~running[c] /\ running'[c] => c \in disowned]_vars

\* Every call of Get, Close and ResetForTesting returns, whatever cores die
\* between its lookup and its acquire.
CallsReturn == \A t \in Threads : pc[t] # "idle" ~> pc[t] = "idle"

\* The factory behaves like an atomic registry.
Registry == INSTANCE CoreRegistry WITH
    disowned <- {c \in disowned : refCount[c] > 0},
    current <- [k \in Keys |-> IF liveCores[k] # None /\ refCount[liveCores[k]] > 0
                               THEN liveCores[k] ELSE None],
    holders <- refCount,
    spent <- {c \in Cores : keyOf[c] # None}
RegistrySpec == Registry!Spec

\* The comment in doInit: `a listener can only be registered through a Client,
\* and Get does not return until this [the initial load] has already run'.
ClientAfterInitialLoad == \A c \in Cores : handles[c] > 0 => loaded[c]

=============================================================================
