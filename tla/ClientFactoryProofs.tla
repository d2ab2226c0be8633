------------------------- MODULE ClientFactoryProofs -------------------------
(***************************************************************************)
(* Proofs about ClientFactory for any number of goroutines, keys, cores    *)
(* and calls.                                                              *)
(***************************************************************************)
EXTENDS ClientFactory, FiniteSetTheorems, TLAPS

-----------------------------------------------------------------------------
(* Type correctness; in addition to TypeOK, only cores that were           *)
(* constructed are anywhere, and a goroutine has the locals its place      *)
(* needs.                                                                  *)

Made == 1 .. constructed

Blank(c) ==
    /\ refCount[c] = 0 /\ handles[c] = 0 /\ keyOf[c] = None
    /\ ~running[c] /\ ~shutDown[c]

Located(t) ==
    /\ pc[t] \in {"lookup", "acquire", "unmap", "insert", "race"} => key[t] \in Keys
    /\ pc[t] \in {"acquire", "unmap", "race", "load", "start", "release", "unpublish", "stop"}
           => core[t] \in Made

Typed ==
    /\ TypeOK
    /\ liveCores \in [Keys -> Made \union {None}]
    /\ core \in [Threads -> Made \union {None}]
    /\ todo \in [Threads -> SUBSET disowned] /\ disowned \subseteq Made
    /\ \A c \in Cores \ Made : Blank(c)
    /\ \A t \in Threads : Located(t)

LEMMA MadeAreCores == Typed => Made \subseteq Cores /\ constructed \in Nat /\ None \notin Cores
BY ClientFactoryAssumption DEF Typed, TypeOK, Made, Cores

LEMMA InitTyped == Init => Typed
BY ClientFactoryAssumption DEF Init, Typed, TypeOK, Made, Cores, Blank, Located, Places

LEMMA GetTyped ==
    ASSUME Typed, NEW t \in Threads, NEW k \in Keys, Get(t, k)
    PROVE  Typed'
BY ClientFactoryAssumption DEF Get, Goto, Typed, TypeOK, Made, Cores, Blank, Located, Places

LEMMA LookupTyped ==
    ASSUME Typed, NEW t \in Threads, Lookup(t)
    PROVE  Typed'
BY ClientFactoryAssumption
   DEF Lookup, Goto, Typed, TypeOK, Made, Cores, Blank, Located, Places, locals

LEMMA TryAcquireTyped ==
    ASSUME Typed, NEW t \in Threads, TryAcquire(t)
    PROVE  Typed'
<1> USE DEF TryAcquire, Acquirable, Goto, locals
<1>a. core[t] \in Cores
  BY MadeAreCores DEF Typed, Located
<1>0. refCount' \in [Cores -> Nat] /\ handles' \in [Cores -> Nat]
  BY <1>a DEF Typed, TypeOK
<1>1. TypeOK'
  BY <1>0, ClientFactoryAssumption DEF Typed, TypeOK, Made, Cores, Located, Places
<1>2. /\ liveCores' \in [Keys -> Made' \union {None}]
      /\ core' \in [Threads -> Made' \union {None}]
      /\ todo' \in [Threads -> SUBSET disowned'] /\ disowned' \subseteq Made'
  BY ClientFactoryAssumption DEF Typed, TypeOK, Made, Cores, Located
<1>3. \A c \in Cores \ Made' : Blank(c)'
  BY ClientFactoryAssumption DEF Typed, TypeOK, Made, Cores, Blank, Located
<1>4. \A u \in Threads : Located(u)'
  BY ClientFactoryAssumption DEF Typed, TypeOK, Made, Cores, Located, Places
<1>5. QED
  BY <1>1, <1>2, <1>3, <1>4 DEF Typed

LEMMA UnmapStaleTyped ==
    ASSUME Typed, NEW t \in Threads, UnmapStale(t)
    PROVE  Typed'
BY ClientFactoryAssumption
   DEF UnmapStale, Without, Goto, Typed, TypeOK, Made, Cores, Blank, Located, Places, locals

LEMMA InsertTyped ==
    ASSUME Typed, NEW t \in Threads, Insert(t)
    PROVE  Typed'
<1> USE DEF Insert, DropSpeculative, Goto, locals
<1> DEFINE c == constructed'
<1>1. constructed \in Nat /\ c = constructed + 1 /\ c \in Cores \ Made /\ key[t] \in Keys
  BY ClientFactoryAssumption DEF Typed, TypeOK, Made, Cores, Located
<1>2. Made' = Made \union {c} /\ Made' \subseteq Cores
  BY <1>1, MadeAreCores DEF Made
<1>3. Blank(c)
  BY <1>1 DEF Typed
<1>4. liveCores[key[t]] \in Made \union {None}
  BY <1>1 DEF Typed
<1>5. liveCores' \in [Keys -> Made' \union {None}] /\ core' \in [Threads -> Made' \union {None}]
  BY <1>1, <1>2, <1>4 DEF Typed
<1>6. /\ refCount' \in [Cores -> Nat] /\ shutDown' \in [Cores -> BOOLEAN]
      /\ keyOf' \in [Cores -> Keys \union {None}]
  <2>1. refCount' = refCount \/ refCount' = [refCount EXCEPT ![c] = 1]
    OBVIOUS
  <2>2. shutDown' = shutDown \/ shutDown' = [shutDown EXCEPT ![c] = TRUE]
    OBVIOUS
  <2>3. keyOf' = keyOf \/ keyOf' = [keyOf EXCEPT ![c] = key[t]]
    OBVIOUS
  <2> HIDE DEF c, Insert
  <2>4. refCount' \in [Cores -> Nat]
    BY <2>1 DEF Typed, TypeOK
  <2>5. shutDown' \in [Cores -> BOOLEAN]
    BY <2>2 DEF Typed, TypeOK
  <2>6. keyOf' \in [Cores -> Keys \union {None}]
    BY <1>1, <2>3 DEF Typed, TypeOK
  <2>7. QED
    BY <2>4, <2>5, <2>6
<1>7. pc' \in [Threads -> Places] /\ constructed' \in 0 .. MaxCores
  BY <1>1 DEF Typed, TypeOK, Places, Cores
<1>8. TypeOK'
  BY <1>2, <1>5, <1>6, <1>7 DEF Typed, TypeOK
<1>9. todo' \in [Threads -> SUBSET disowned'] /\ disowned' \subseteq Made'
  BY <1>2 DEF Typed
<1>10. \A d \in Cores \ Made' : Blank(d)'
  <2> SUFFICES ASSUME NEW d \in Cores \ Made' PROVE Blank(d)'
    OBVIOUS
  <2>1. d # c /\ d \in Cores \ Made /\ Blank(d)
    BY <1>2 DEF Typed
  <2>2. QED
    BY <1>1, <2>1 DEF Blank, Typed, TypeOK
<1>11. \A u \in Threads : Located(u)'
  <2> SUFFICES ASSUME NEW u \in Threads PROVE Located(u)'
    OBVIOUS
  <2>1. CASE u = t
    BY <1>1, <1>2, <1>4, <2>1 DEF Typed, TypeOK, Located
  <2>2. CASE u # t
    BY <1>2, <2>2 DEF Typed, TypeOK, Located
  <2>3. QED
    BY <2>1, <2>2
<1>12. QED
  BY <1>5, <1>8, <1>9, <1>10, <1>11 DEF Typed

LEMMA InitialLoadTyped ==
    ASSUME Typed, NEW t \in Threads, InitialLoad(t)
    PROVE  Typed'
<1> USE DEF InitialLoad, Goto, locals
<1>1. TypeOK'
  BY ClientFactoryAssumption DEF Typed, TypeOK, Made, Cores, Located, Places
<1>2. /\ liveCores' \in [Keys -> Made' \union {None}]
      /\ core' \in [Threads -> Made' \union {None}]
      /\ todo' \in [Threads -> SUBSET disowned'] /\ disowned' \subseteq Made'
  BY ClientFactoryAssumption DEF Typed, TypeOK, Made, Cores, Located
<1>3. \A c \in Cores \ Made' : Blank(c)'
  BY ClientFactoryAssumption DEF Typed, TypeOK, Made, Cores, Blank, Located
<1>4. \A u \in Threads : Located(u)'
  BY ClientFactoryAssumption DEF Typed, TypeOK, Made, Cores, Located, Places
<1>5. QED
  BY <1>1, <1>2, <1>3, <1>4 DEF Typed

LEMMA StartSourcesTyped ==
    ASSUME Typed, NEW t \in Threads, StartSources(t)
    PROVE  Typed'
<1> USE DEF StartSources, Goto, locals
<1>a. core[t] \in Cores
  BY MadeAreCores DEF Typed, Located
<1>0. refCount' \in [Cores -> Nat] /\ handles' \in [Cores -> Nat]
  BY <1>a DEF Typed, TypeOK
<1>1. TypeOK'
  BY <1>0, ClientFactoryAssumption DEF Typed, TypeOK, Made, Cores, Located, Places
<1>2. /\ liveCores' \in [Keys -> Made' \union {None}]
      /\ core' \in [Threads -> Made' \union {None}]
      /\ todo' \in [Threads -> SUBSET disowned'] /\ disowned' \subseteq Made'
  BY ClientFactoryAssumption DEF Typed, TypeOK, Made, Cores, Located
<1>3. \A c \in Cores \ Made' : Blank(c)'
  BY ClientFactoryAssumption DEF Typed, TypeOK, Made, Cores, Blank, Located
<1>4. \A u \in Threads : Located(u)'
  BY ClientFactoryAssumption DEF Typed, TypeOK, Made, Cores, Located, Places
<1>5. QED
  BY <1>1, <1>2, <1>3, <1>4 DEF Typed

LEMMA CloseTyped ==
    ASSUME Typed, NEW t \in Threads, NEW d \in Cores, Close(t, d)
    PROVE  Typed'
<1> USE DEF Close, Goto, locals
<1>a. d \in Made
  BY DEF Typed, Blank
<1>0. refCount' \in [Cores -> Nat] /\ handles' \in [Cores -> Nat]
  BY DEF Typed, TypeOK
<1>1. TypeOK'
  BY <1>0, <1>a, ClientFactoryAssumption DEF Typed, TypeOK, Made, Cores, Located, Places
<1>2. /\ liveCores' \in [Keys -> Made' \union {None}]
      /\ core' \in [Threads -> Made' \union {None}]
      /\ todo' \in [Threads -> SUBSET disowned'] /\ disowned' \subseteq Made'
  BY <1>a, ClientFactoryAssumption DEF Typed, TypeOK, Made, Cores, Located
<1>3. \A c \in Cores \ Made' : Blank(c)'
  BY ClientFactoryAssumption DEF Typed, TypeOK, Made, Cores, Blank, Located
<1>4. \A u \in Threads : Located(u)'
  BY <1>a, ClientFactoryAssumption DEF Typed, TypeOK, Made, Cores, Located, Places
<1>5. QED
  BY <1>1, <1>2, <1>3, <1>4 DEF Typed

LEMMA ReleaseTyped ==
    ASSUME Typed, NEW t \in Threads, Release(t)
    PROVE  Typed'
<1> USE DEF Release, ReleaseRef, Resume, Goto, locals
<1>a. core[t] \in Cores
  BY MadeAreCores DEF Typed, Located
<1>0. refCount' \in [Cores -> Nat] /\ handles' \in [Cores -> Nat]
  BY <1>a DEF Typed, TypeOK
<1>1. TypeOK'
  BY <1>0, ClientFactoryAssumption DEF Typed, TypeOK, Made, Cores, Located, Places
<1>2. /\ liveCores' \in [Keys -> Made' \union {None}]
      /\ core' \in [Threads -> Made' \union {None}]
      /\ todo' \in [Threads -> SUBSET disowned'] /\ disowned' \subseteq Made'
  BY ClientFactoryAssumption DEF Typed, TypeOK, Made, Cores, Located
<1>3. \A c \in Cores \ Made' : Blank(c)'
  BY ClientFactoryAssumption DEF Typed, TypeOK, Made, Cores, Blank, Located
<1>4. \A u \in Threads : Located(u)'
  BY ClientFactoryAssumption DEF Typed, TypeOK, Made, Cores, Located, Places
<1>5. QED
  BY <1>1, <1>2, <1>3, <1>4 DEF Typed

LEMMA ResetReleaseTyped ==
    ASSUME Typed, NEW t \in Threads, ResetRelease(t)
    PROVE  Typed'
<1> USE DEF ResetRelease, ReleaseRef, Resume, Goto, locals
<1>0. refCount' \in [Cores -> Nat] /\ handles' \in [Cores -> Nat]
  BY ClientFactoryAssumption DEF Typed, TypeOK, Made
<1>1. TypeOK'
  BY <1>0, ClientFactoryAssumption DEF Typed, TypeOK, Made, Cores, Located, Places
<1>2. /\ liveCores' \in [Keys -> Made' \union {None}]
      /\ core' \in [Threads -> Made' \union {None}]
      /\ todo' \in [Threads -> SUBSET disowned'] /\ disowned' \subseteq Made'
  BY ClientFactoryAssumption DEF Typed, TypeOK, Made, Cores, Located
<1>3. \A c \in Cores \ Made' : Blank(c)'
  BY ClientFactoryAssumption DEF Typed, TypeOK, Made, Cores, Blank, Located
<1>4. \A u \in Threads : Located(u)'
  BY ClientFactoryAssumption DEF Typed, TypeOK, Made, Cores, Located, Places
<1>5. QED
  BY <1>1, <1>2, <1>3, <1>4 DEF Typed

LEMMA UnpublishTyped ==
    ASSUME Typed, NEW t \in Threads, Unpublish(t)
    PROVE  Typed'
<1> USE DEF Unpublish, Without, Goto, locals
<1>1. TypeOK'
  BY ClientFactoryAssumption DEF Typed, TypeOK, Made, Cores, Located, Places
<1>2. /\ liveCores' \in [Keys -> Made' \union {None}]
      /\ core' \in [Threads -> Made' \union {None}]
      /\ todo' \in [Threads -> SUBSET disowned'] /\ disowned' \subseteq Made'
  BY ClientFactoryAssumption DEF Typed, TypeOK, Made, Cores, Located
<1>3. \A c \in Cores \ Made' : Blank(c)'
  BY ClientFactoryAssumption DEF Typed, TypeOK, Made, Cores, Blank, Located
<1>4. \A u \in Threads : Located(u)'
  BY ClientFactoryAssumption DEF Typed, TypeOK, Made, Cores, Located, Places
<1>5. QED
  BY <1>1, <1>2, <1>3, <1>4 DEF Typed

LEMMA StopSourcesTyped ==
    ASSUME Typed, NEW t \in Threads, StopSources(t)
    PROVE  Typed'
<1> USE DEF StopSources, Resume, Goto, locals
<1>1. TypeOK'
  BY ClientFactoryAssumption DEF Typed, TypeOK, Made, Cores, Located, Places
<1>2. /\ liveCores' \in [Keys -> Made' \union {None}]
      /\ core' \in [Threads -> Made' \union {None}]
      /\ todo' \in [Threads -> SUBSET disowned'] /\ disowned' \subseteq Made'
  BY ClientFactoryAssumption DEF Typed, TypeOK, Made, Cores, Located
<1>3. \A c \in Cores \ Made' : Blank(c)'
  BY ClientFactoryAssumption DEF Typed, TypeOK, Made, Cores, Blank, Located
<1>4. \A u \in Threads : Located(u)'
  BY ClientFactoryAssumption DEF Typed, TypeOK, Made, Cores, Located, Places
<1>5. QED
  BY <1>1, <1>2, <1>3, <1>4 DEF Typed

LEMMA ResetTyped ==
    ASSUME Typed, NEW t \in Threads, Reset(t)
    PROVE  Typed'
<1> USE DEF Reset, Goto, locals
<1>a. Mapped \subseteq Made /\ Mapped \subseteq disowned' /\ disowned \subseteq disowned'
  BY DEF Typed, Mapped
<1>b. todo' \in [Threads -> SUBSET disowned'] /\ disowned' \subseteq Made'
  BY <1>a DEF Typed, Made
<1>c. disowned' \subseteq Cores /\ todo' \in [Threads -> SUBSET Cores]
  BY <1>b, MadeAreCores DEF Made
<1>d. pc' \in [Threads -> Places]
  BY DEF Typed, TypeOK, Places
<1>e. liveCores' \in [Keys -> Cores \union {None}] /\ resets' \in 0 .. MaxResets
  BY ClientFactoryAssumption DEF Typed, TypeOK
<1>1. TypeOK'
  BY <1>c, <1>d, <1>e DEF Typed, TypeOK
<1>2. /\ liveCores' \in [Keys -> Made' \union {None}]
      /\ core' \in [Threads -> Made' \union {None}]
      /\ todo' \in [Threads -> SUBSET disowned'] /\ disowned' \subseteq Made'
  BY <1>b DEF Typed, Made
<1>3. \A c \in Cores \ Made' : Blank(c)'
  BY ClientFactoryAssumption DEF Typed, TypeOK, Made, Cores, Blank, Located, Mapped
<1>4. \A u \in Threads : Located(u)'
  BY ClientFactoryAssumption DEF Typed, TypeOK, Made, Cores, Located, Places, Mapped
<1>5. QED
  BY <1>1, <1>2, <1>3, <1>4 DEF Typed

LEMMA ResetNextTyped ==
    ASSUME Typed, NEW t \in Threads, ResetNext(t)
    PROVE  Typed'
<1> USE DEF ResetNext, Goto, locals
<1>a. todo' \in [Threads -> SUBSET Cores] /\ pc' \in [Threads -> Places]
  BY DEF Typed, TypeOK, Places
<1>1. TypeOK'
  BY <1>a DEF Typed, TypeOK
<1>2. /\ liveCores' \in [Keys -> Made' \union {None}]
      /\ core' \in [Threads -> Made' \union {None}]
      /\ todo' \in [Threads -> SUBSET disowned'] /\ disowned' \subseteq Made'
  BY ClientFactoryAssumption DEF Typed, TypeOK, Made, Cores, Located
<1>3. \A c \in Cores \ Made' : Blank(c)'
  BY ClientFactoryAssumption DEF Typed, TypeOK, Made, Cores, Blank, Located
<1>4. \A u \in Threads : Located(u)'
  BY ClientFactoryAssumption DEF Typed, TypeOK, Made, Cores, Located, Places
<1>5. QED
  BY <1>1, <1>2, <1>3, <1>4 DEF Typed

LEMMA StutterTyped == Typed /\ UNCHANGED vars => Typed'
BY DEF Typed, TypeOK, Made, Cores, Blank, Located, vars

LEMMA NextTyped == Typed /\ [Next]_vars => Typed'
<1> SUFFICES ASSUME Typed, Next PROVE Typed'
  BY StutterTyped
<1>1. ASSUME NEW t \in Threads, Call(t) PROVE Typed'
  BY <1>1, GetTyped, CloseTyped, ResetTyped DEF Call
<1>2. ASSUME NEW t \in Threads, Step(t) PROVE Typed'
  BY <1>2, LookupTyped, TryAcquireTyped, UnmapStaleTyped, InsertTyped, InitialLoadTyped,
     StartSourcesTyped, ReleaseTyped, UnpublishTyped, StopSourcesTyped, ResetReleaseTyped,
     ResetNextTyped DEF Step
<1>3. QED
  BY <1>1, <1>2 DEF Next

\* Every variable keeps its type and no count goes below zero, whatever is
\* released how often.
THEOREM FactoryTypeCorrect == Spec => []TypeOK
<1>1. Init => Typed
  BY InitTyped
<1>2. Typed /\ [Next]_vars => Typed'
  BY NextTyped
<1>3. Typed => TypeOK
  BY DEF Typed
<1>4. QED
  BY <1>1, <1>2, <1>3, PTL DEF Spec

-----------------------------------------------------------------------------
(* What a core and the goroutines that work on it have to do with each     *)
(* other: the invariant the safety properties follow from.                 *)

\* A core that was constructed is shut down exactly when nothing refers to it.
ZeroIsDead == \A c \in Made : shutDown[c] <=> refCount[c] = 0

\* A core with references was published, and the map holds a core under the
\* key that core knows.
Keyed ==
    /\ \A c \in Made : refCount[c] > 0 => keyOf[c] \in Keys
    /\ \A k \in Keys : liveCores[k] # None => keyOf[liveCores[k]] = k

\* Only dead cores are deleted from the map or stopped.
DeadInHand ==
    \A t \in Threads :
        /\ pc[t] \in {"unmap", "unpublish", "stop"} => refCount[core[t]] = 0
        /\ pc[t] = "unpublish" => keyOf[core[t]] \in Keys

\* A core that was shut down is still in the map, or still runs, only while a
\* goroutine is inside its shutdown.
CleanUp ==
    \A c \in Made \ disowned : shutDown[c] =>
        /\ running[c] => \E t \in Threads : core[t] = c /\ pc[t] \in {"unpublish", "stop"}
        /\ c \in Mapped => \E t \in Threads : core[t] = c /\ pc[t] = "unpublish"

IInv ==
    /\ Typed
    /\ ZeroIsDead
    /\ Keyed
    /\ DeadInHand
    /\ RefCountExact
    /\ LiveCoreIsPublished
    /\ CleanUp

LEMMA InitIInv == Init => IInv
<1> SUFFICES ASSUME Init PROVE IInv
  OBVIOUS
<1>1. Typed
  BY InitTyped
<1>2. Made = {} /\ \A k \in Keys : liveCores[k] = None
  BY DEF Init, Made
<1>3. ZeroIsDead /\ Keyed /\ CleanUp /\ DeadInHand
  BY <1>2 DEF Init, ZeroIsDead, Keyed, CleanUp, DeadInHand
<1>4. LiveCoreIsPublished
  BY DEF Init, LiveCoreIsPublished
<1>5. \A c : Holders(c) = {}
  BY DEF Init, Holders
<1>6. RefCountExact
  <2> SUFFICES ASSUME NEW c \in Cores
               PROVE refCount[c] = handles[c] + Cardinality(Holders(c))
    BY DEF RefCountExact
  <2>1. refCount[c] = 0 /\ handles[c] = 0
    BY DEF Init
  <2>2. Cardinality(Holders(c)) = 0
    BY <1>5, FS_EmptySet
  <2>3. QED
    BY <2>1, <2>2
<1>7. QED
  BY <1>1, <1>3, <1>4, <1>6 DEF IInv

\* Release takes one reference away, and shuts down what it takes the last of.
LEMMA ReleaseKeepsZeroDead ==
    ASSUME Typed, ZeroIsDead, NEW t \in Threads, NEW c \in Made, ReleaseRef(t, c),
           UNCHANGED constructed
    PROVE  ZeroIsDead'
<1>1. c \in Cores /\ refCount \in [Cores -> Nat] /\ shutDown \in [Cores -> BOOLEAN]
      /\ Made \subseteq Cores /\ Made' = Made
  BY MadeAreCores DEF Typed, TypeOK, Made
<1>2. CASE refCount[c] > 0 /\ refCount' = [refCount EXCEPT ![c] = @ - 1]
           /\ shutDown' = [shutDown EXCEPT ![c] = refCount[c] = 1]
  <2> SUFFICES ASSUME NEW d \in Made PROVE shutDown'[d] <=> refCount'[d] = 0
    BY <1>1 DEF ZeroIsDead
  <2>1. CASE d = c
    <3>1. refCount'[d] = refCount[c] - 1 /\ refCount[c] \in Nat
      BY <1>1, <1>2, <2>1
    <3>2. refCount'[d] = 0 <=> refCount[c] = 1
      BY <3>1
    <3>3. shutDown'[d] <=> refCount[c] = 1
      BY <1>1, <1>2, <2>1
    <3>4. QED
      BY <3>2, <3>3
  <2>2. CASE d # c
    BY <1>1, <1>2, <2>2 DEF ZeroIsDead
  <2>3. QED
    BY <2>1, <2>2
<1>3. CASE UNCHANGED <<refCount, shutDown>>
  BY <1>1, <1>3 DEF ZeroIsDead
<1>4. QED
  BY <1>2, <1>3 DEF ReleaseRef

\* The core Insert constructs is a new one.
LEMMA InsertMakes ==
    ASSUME Typed, NEW t \in Threads, Insert(t)
    PROVE  /\ constructed' \in Cores \ Made
           /\ Made' = Made \union {constructed'}
           /\ Blank(constructed')
<1>1. constructed \in Nat /\ constructed' = constructed + 1 /\ constructed' <= MaxCores
      /\ MaxCores \in Nat
  BY ClientFactoryAssumption DEF Typed, TypeOK, Insert
<1>2. constructed' \in Cores \ Made /\ Made' = Made \union {constructed'}
  BY <1>1 DEF Made, Cores
<1>3. QED
  BY <1>2 DEF Typed

LEMMA ZeroIsDeadStep == Typed /\ ZeroIsDead /\ [Next]_vars => ZeroIsDead'
<1> SUFFICES ASSUME Typed, ZeroIsDead, [Next]_vars PROVE ZeroIsDead'
  OBVIOUS
<1>1. ASSUME UNCHANGED <<refCount, shutDown, constructed>> PROVE ZeroIsDead'
  BY <1>1 DEF ZeroIsDead, Made
<1>2. ASSUME NEW t \in Threads, TryAcquire(t) PROVE ZeroIsDead'
  <2>1. core[t] \in Cores /\ refCount \in [Cores -> Nat] /\ Made \subseteq Cores /\ Made' = Made
    BY <1>2, MadeAreCores DEF Typed, TypeOK, Located, TryAcquire, Made
  <2>2. shutDown' = shutDown
    BY <1>2 DEF TryAcquire
  <2>3. \/ refCount' = refCount
        \/ refCount[core[t]] > 0 /\ refCount' = [refCount EXCEPT ![core[t]] = @ + 1]
    BY <1>2 DEF TryAcquire, Acquirable
  <2>4. \A c \in Made : refCount'[c] = 0 <=> refCount[c] = 0
    BY <2>1, <2>3
  <2>5. QED
    BY <2>1, <2>2, <2>4 DEF ZeroIsDead
<1>3. ASSUME NEW t \in Threads, Insert(t) PROVE ZeroIsDead'
  <2> DEFINE c == constructed'
  <2>1. c \in Cores \ Made /\ Made' = Made \union {c} /\ Blank(c)
    BY <1>3, InsertMakes
  <2>2. refCount \in [Cores -> Nat] /\ shutDown \in [Cores -> BOOLEAN] /\ Made \subseteq Cores
    BY MadeAreCores DEF Typed, TypeOK
  <2>3. \/ refCount' = refCount /\ shutDown' = [shutDown EXCEPT ![c] = TRUE]
        \/ shutDown' = shutDown /\ refCount' = [refCount EXCEPT ![c] = 1]
    BY <1>3 DEF Insert, DropSpeculative
  <2> HIDE DEF c
  <2>4. QED
    BY <2>1, <2>2, <2>3 DEF ZeroIsDead, Blank
<1>4. ASSUME NEW t \in Threads, Release(t) PROVE ZeroIsDead'
  BY <1>4, ReleaseKeepsZeroDead DEF Release, Typed, Located
<1>5. ASSUME NEW t \in Threads, ResetRelease(t) PROVE ZeroIsDead'
  BY <1>5, ReleaseKeepsZeroDead DEF ResetRelease, Typed
<1>6. CASE UNCHANGED vars
  BY <1>1, <1>6 DEF vars
<1>7. ASSUME NEW t \in Threads, Call(t) PROVE ZeroIsDead'
  BY <1>1, <1>7 DEF Call, Get, Close, Reset
<1>8. ASSUME NEW t \in Threads, Step(t) PROVE ZeroIsDead'
  BY <1>1, <1>2, <1>3, <1>4, <1>5, <1>8
     DEF Step, Lookup, UnmapStale, InitialLoad, StartSources, Unpublish, StopSources, ResetNext
<1>9. QED
  BY <1>6, <1>7, <1>8 DEF Next

\* What a step may do to the count of a core: nothing comes back from zero, and
\* only Insert brings a new core to one.
LEMMA NoneComesBack ==
    ASSUME Typed, [Next]_vars
    PROVE  /\ Made \subseteq Made'
           /\ \A c \in Made : refCount[c] = 0 => refCount'[c] = 0
<1> USE MadeAreCores DEF Typed, TypeOK
<1>1. CASE UNCHANGED vars
  BY <1>1 DEF vars, Made
<1>2. ASSUME NEW t \in Threads, Call(t)
      PROVE  Made' = Made /\ refCount' = refCount
  BY <1>2 DEF Call, Get, Close, Reset, Made
<1>3. ASSUME NEW t \in Threads, TryAcquire(t)
      PROVE  Made' = Made /\ \A c \in Made : refCount[c] = 0 => refCount'[c] = 0
  <2>1. core[t] \in Cores /\ Made \subseteq Cores
    BY <1>3 DEF Located, TryAcquire
  <2>2. QED
    BY <1>3, <2>1 DEF TryAcquire, Acquirable, Made
<1>4. ASSUME NEW t \in Threads, Insert(t)
      PROVE  Made \subseteq Made' /\ \A c \in Made : refCount[c] = 0 => refCount'[c] = 0
  <2>1. refCount' = refCount \/ refCount' = [refCount EXCEPT ![constructed'] = 1]
    BY <1>4 DEF Insert, DropSpeculative
  <2>2. QED
    BY <1>4, <2>1, InsertMakes
<1>5. ASSUME NEW t \in Threads, NEW c \in Made, ReleaseRef(t, c)
      PROVE  \A d \in Made : refCount[d] = 0 => refCount'[d] = 0
  BY <1>5 DEF ReleaseRef
<1>6. ASSUME NEW t \in Threads, Release(t)
      PROVE  Made' = Made /\ \A c \in Made : refCount[c] = 0 => refCount'[c] = 0
  BY <1>5, <1>6 DEF Release, Located, Made
<1>7. ASSUME NEW t \in Threads, ResetRelease(t)
      PROVE  Made' = Made /\ \A c \in Made : refCount[c] = 0 => refCount'[c] = 0
  BY <1>5, <1>7 DEF ResetRelease, Made
<1>8. ASSUME NEW t \in Threads, Step(t)
      PROVE  Made \subseteq Made' /\ \A c \in Made : refCount[c] = 0 => refCount'[c] = 0
  BY <1>3, <1>4, <1>6, <1>7, <1>8
     DEF Step, Lookup, UnmapStale, InitialLoad, StartSources, Unpublish, StopSources, ResetNext,
         Made
<1>9. QED
  BY <1>1, <1>2, <1>8 DEF Next

\* A core keeps the key it was published under.
LEMMA KeyIsKept == ASSUME Typed, [Next]_vars PROVE \A c \in Made : keyOf'[c] = keyOf[c]
<1> USE DEF Typed, TypeOK
<1>1. CASE UNCHANGED vars
  BY <1>1 DEF vars
<1>2. ASSUME NEW t \in Threads, Insert(t) PROVE \A c \in Made : keyOf'[c] = keyOf[c]
  <2>1. keyOf' = keyOf \/ keyOf' = [keyOf EXCEPT ![constructed'] = key[t]]
    BY <1>2 DEF Insert
  <2>2. QED
    BY <1>2, <2>1, InsertMakes, MadeAreCores
<1>3. ASSUME NEW t \in Threads, Call(t) PROVE keyOf' = keyOf
  BY <1>3 DEF Call, Get, Close, Reset
<1>4. ASSUME NEW t \in Threads, Step(t) PROVE keyOf' = keyOf \/ Insert(t)
  BY <1>4 DEF Step, Lookup, TryAcquire, UnmapStale, InitialLoad, StartSources, Release,
     Unpublish, StopSources, ResetRelease, ResetNext
<1>5. QED
  BY <1>1, <1>2, <1>3, <1>4 DEF Next

\* What a step may do to the map: an entry stays, leaves, or is the core a Get
\* inserts where there was none.
LEMMA MapSteps ==
    ASSUME Typed, [Next]_vars, NEW k \in Keys
    PROVE  \/ liveCores'[k] \in {liveCores[k], None}
           \/ /\ liveCores[k] = None
              /\ \E t \in Threads : Insert(t) /\ key[t] = k
              /\ liveCores'[k] = constructed' /\ keyOf'[constructed'] = k
              /\ refCount'[constructed'] = 1
<1> USE DEF Typed, TypeOK
<1>1. CASE UNCHANGED vars
  BY <1>1 DEF vars
<1>2. ASSUME NEW t \in Threads, Insert(t), liveCores'[k] # liveCores[k]
      PROVE  /\ liveCores[k] = None /\ key[t] = k
             /\ liveCores'[k] = constructed' /\ keyOf'[constructed'] = k
             /\ refCount'[constructed'] = 1
  <2>1. constructed' \in Cores /\ key[t] \in Keys
    BY <1>2, InsertMakes DEF Located, Insert
  <2>2. QED
    BY <1>2, <2>1 DEF Insert
<1>3. ASSUME NEW t \in Threads, Call(t) PROVE liveCores'[k] \in {liveCores[k], None}
  BY <1>3 DEF Call, Get, Close, Reset
<1>4. ASSUME NEW t \in Threads, Step(t), ~Insert(t)
      PROVE  liveCores'[k] \in {liveCores[k], None}
  BY <1>4 DEF Step, Lookup, TryAcquire, UnmapStale, Without, InitialLoad, StartSources, Release,
     Unpublish, StopSources, ResetRelease, ResetNext
<1>5. QED
  BY <1>1, <1>2, <1>3, <1>4 DEF Next

LEMMA KeyedStep == Typed /\ Keyed /\ [Next]_vars => Keyed'
<1> SUFFICES ASSUME Typed, Keyed, [Next]_vars PROVE Keyed'
  OBVIOUS
<1>1. ASSUME NEW k \in Keys, liveCores'[k] # None PROVE keyOf'[liveCores'[k]] = k
  <2>1. CASE liveCores'[k] = liveCores[k]
    <3>1. liveCores[k] \in Made
      BY <1>1, <2>1 DEF Typed
    <3>2. QED
      BY <1>1, <2>1, <3>1, KeyIsKept DEF Keyed
  <2>2. QED
    BY <1>1, <2>1, MapSteps
<1>2. ASSUME NEW c \in Made', refCount'[c] > 0 PROVE keyOf'[c] \in Keys
  <2>1. CASE c \in Made
    <3>1. refCount[c] # 0 /\ refCount[c] \in Nat
      BY <1>2, <2>1, NoneComesBack, MadeAreCores DEF Typed, TypeOK
    <3>2. QED
      BY <2>1, <3>1, KeyIsKept DEF Keyed
  <2>2. CASE c \notin Made
    <3>1. PICK t \in Threads : Insert(t)
      BY <1>2, <2>2 DEF Next, Call, Get, Close, Reset, Step, Lookup, TryAcquire, UnmapStale,
         InitialLoad, StartSources, Release, Unpublish, StopSources, ResetRelease, ResetNext,
         vars, Made
    <3>2. c = constructed' /\ c \in Cores /\ Blank(c)
      BY <1>2, <2>2, <3>1, InsertMakes
    <3>3. key[t] \in Keys
      BY <3>1 DEF Insert, Typed, Located
    <3>4. keyOf' = [keyOf EXCEPT ![c] = key[t]]
      BY <1>2, <3>1, <3>2 DEF Insert, DropSpeculative, Blank
    <3>5. QED
      BY <3>2, <3>3, <3>4 DEF Typed, TypeOK
  <2>3. QED
    BY <2>1, <2>2
<1>3. QED
  BY <1>1, <1>2 DEF Keyed

\* A step moves one goroutine.
LEMMA OneMoves ==
    ASSUME Typed, NEW t \in Threads, Call(t) \/ Step(t)
    PROVE  \A u \in Threads \ {t} : pc'[u] = pc[u] /\ core'[u] = core[u] /\ todo'[u] = todo[u]
<1> USE DEF Typed, TypeOK, Goto
<1>1. CASE Call(t)
  <2>1. \A k \in Keys : ~Get(t, k) \/ UNCHANGED <<core, todo>>
    BY DEF Get
  <2>2. \A c \in Cores : Close(t, c) => UNCHANGED todo /\ core' = [core EXCEPT ![t] = c]
    BY DEF Close, locals
  <2>3. Reset(t) => UNCHANGED core /\ todo' = [todo EXCEPT ![t] = Mapped]
    BY DEF Reset
  <2>4. \E p : pc' = [pc EXCEPT ![t] = p]
    BY <1>1 DEF Call, Get, Close, Reset
  <2>5. QED
    BY <1>1, <2>1, <2>2, <2>3, <2>4 DEF Call
<1>2. CASE Step(t)
  BY <1>2 DEF Step, Lookup, TryAcquire, UnmapStale, Insert, InitialLoad, StartSources, Release,
     Unpublish, StopSources, ResetRelease, ResetNext, ReleaseRef, locals
<1>3. QED
  BY <1>1, <1>2

\* A goroutine that enters a shutdown or goes to delete a stale entry does so
\* for a core without references.
LEMMA DeadWhenTaken ==
    ASSUME Typed, Keyed, DeadInHand, NEW t \in Threads, Call(t) \/ Step(t),
           pc'[t] \in {"unmap", "unpublish", "stop"}
    PROVE  /\ core'[t] \in Made
           /\ refCount'[core'[t]] = 0
           /\ pc'[t] = "unpublish" => keyOf[core'[t]] \in Keys
<1> USE DEF Goto, Typed, TypeOK
<1>1. ASSUME NEW c \in Made, ReleaseRef(t, c), core'[t] = c
      PROVE  refCount'[core'[t]] = 0 /\ keyOf[core'[t]] \in Keys
  <2>1. c \in Cores /\ refCount[c] = 1 /\ refCount' = [refCount EXCEPT ![c] = @ - 1]
    BY <1>1, MadeAreCores DEF ReleaseRef, Resume
  <2>2. QED
    BY <1>1, <2>1 DEF Keyed
<1>2. CASE Release(t)
  <2>1. core[t] \in Made /\ core'[t] = core[t]
    BY <1>2 DEF Release, Located
  <2>2. QED
    BY <1>1, <1>2, <2>1 DEF Release
<1>3. CASE ResetRelease(t)
  <2>1. PICK c \in todo[t] : core' = [core EXCEPT ![t] = c] /\ ReleaseRef(t, c)
    BY <1>3 DEF ResetRelease
  <2>2. c \in Made /\ core'[t] = c
    BY <2>1
  <2>3. QED
    BY <1>1, <2>1, <2>2
<1>4. CASE TryAcquire(t)
  <2>1. core[t] \in Made /\ core[t] \in Cores /\ core' = core
    BY <1>4, MadeAreCores DEF TryAcquire, Located
  <2>2. refCount' = refCount /\ ~(refCount[core[t]] > 0) /\ pc'[t] = "unmap"
    BY <1>4 DEF TryAcquire, Acquirable
  <2>3. QED
    BY <2>1, <2>2
<1>5. CASE Unpublish(t)
  BY <1>5 DEF Unpublish, DeadInHand, Located
<1>6. QED
  BY <1>2, <1>3, <1>4, <1>5 DEF Call, Get, Close, Reset, Step, Lookup, UnmapStale, Insert,
     InitialLoad, StartSources, StopSources, Resume, ResetNext

LEMMA DeadInHandStep == Typed /\ Keyed /\ DeadInHand /\ [Next]_vars => DeadInHand'
<1> SUFFICES ASSUME Typed, Keyed, DeadInHand, [Next]_vars, NEW u \in Threads
             PROVE  /\ pc'[u] \in {"unmap", "unpublish", "stop"} => refCount'[core'[u]] = 0
                    /\ pc'[u] = "unpublish" => keyOf'[core'[u]] \in Keys
  BY DEF DeadInHand
<1>1. CASE pc'[u] = pc[u] /\ core'[u] = core[u]
  BY <1>1, NoneComesBack, KeyIsKept DEF DeadInHand, Typed, Located
<1>2. CASE Call(u) \/ Step(u)
  BY <1>2, DeadWhenTaken, KeyIsKept
<1>3. CASE UNCHANGED vars
  BY <1>1, <1>3 DEF vars
<1>4. ASSUME NEW t \in Threads, Call(t) \/ Step(t), t # u
      PROVE  pc'[u] = pc[u] /\ core'[u] = core[u]
  BY <1>4, OneMoves
<1>5. QED
  BY <1>1, <1>2, <1>3, <1>4 DEF Next

\* A reference to a core that ResetForTesting left alone is never the first but
\* by its insertion.
LEMMA PublishedStep ==
    Typed /\ Keyed /\ DeadInHand /\ LiveCoreIsPublished /\ [Next]_vars => LiveCoreIsPublished'
<1> SUFFICES ASSUME Typed, Keyed, DeadInHand, LiveCoreIsPublished, [Next]_vars,
                    NEW c \in Cores \ disowned', refCount'[c] > 0
             PROVE  keyOf'[c] # None /\ liveCores'[keyOf'[c]] = c
  BY DEF LiveCoreIsPublished
<1>1. disowned \subseteq disowned'
  BY DEF Next, Call, Get, Close, Reset, Step, Lookup, TryAcquire, UnmapStale, Insert,
     InitialLoad, StartSources, Release, Unpublish, StopSources, ResetRelease, ResetNext, vars
<1>2. CASE c \in Made /\ refCount[c] # 0
  <2>1. refCount[c] > 0
    BY <1>2 DEF Typed, TypeOK
  <2>2. keyOf[c] \in Keys /\ liveCores[keyOf[c]] = c /\ keyOf'[c] = keyOf[c] /\ keyOf[c] # None
    BY <1>1, <1>2, <2>1, KeyIsKept, ClientFactoryAssumption DEF LiveCoreIsPublished, Keyed
  <2> DEFINE k == keyOf[c]
  <2>3. CASE UNCHANGED vars
    BY <2>2, <2>3 DEF vars
  <2>4. ASSUME NEW t \in Threads, Reset(t) PROVE FALSE
    <3>1. c \in Mapped
      BY <2>2, <1>2, MadeAreCores DEF Mapped
    <3>2. QED
      BY <2>4, <3>1 DEF Reset
  <2>5. ASSUME NEW t \in Threads, UnmapStale(t) \/ Unpublish(t) PROVE liveCores'[k] = c
    <3>1. refCount[core[t]] = 0
      BY <2>5 DEF DeadInHand, UnmapStale, Unpublish
    <3>2. core[t] # c
      BY <1>2, <3>1
    <3>3. QED
      BY <2>2, <2>5, <3>2 DEF UnmapStale, Unpublish, Without, Typed, TypeOK
  <2>6. ASSUME NEW t \in Threads, Insert(t) PROVE liveCores'[k] = c
    BY <1>2, <2>2, MapSteps, <2>6, MadeAreCores DEF Insert, Typed, TypeOK
  <2>7. ASSUME NEW t \in Threads, Call(t) PROVE liveCores'[k] = c
    BY <2>2, <2>4, <2>7 DEF Call, Get, Close
  <2>8. ASSUME NEW t \in Threads, Step(t) PROVE liveCores'[k] = c
    BY <2>2, <2>5, <2>6, <2>8 DEF Step, Lookup, TryAcquire, InitialLoad, StartSources, Release,
       StopSources, ResetRelease, ResetNext
  <2>9. QED
    BY <2>2, <2>3, <2>7, <2>8 DEF Next
<1>3. CASE c \notin Made
  <2>1. PICK t \in Threads : Insert(t) /\ c = constructed'
    <3>1. refCount[c] = 0
      BY <1>3 DEF Typed, Blank
    <3>2. PICK t \in Threads : Call(t) \/ Step(t)
      BY <3>1 DEF Next, vars
    <3>3. refCount' # refCount
      BY <3>1
    <3>4. ASSUME NEW d \in Made, ReleaseRef(t, d) PROVE FALSE
      BY <1>3, <3>1, <3>4, MadeAreCores DEF ReleaseRef, Typed, TypeOK
    <3>5. ~Release(t) /\ ~ResetRelease(t)
      BY <3>4 DEF Release, ResetRelease, Typed, Located
    <3>6. ~TryAcquire(t)
      BY <1>3, <3>1, MadeAreCores DEF TryAcquire, Typed, TypeOK, Located
    <3>7. Insert(t)
      BY <3>2, <3>3, <3>5, <3>6 DEF Call, Get, Close, Reset, Step, Lookup, UnmapStale,
         InitialLoad, StartSources, Unpublish, StopSources, ResetNext
    <3>8. c = constructed'
      BY <3>1, <3>7, InsertMakes DEF Insert, DropSpeculative, Typed, TypeOK
    <3>9. QED
      BY <3>7, <3>8
  <2>2. key[t] \in Keys /\ Blank(c)
    BY <2>1, InsertMakes DEF Insert, Typed, Located
  <2>3. liveCores' = [liveCores EXCEPT ![key[t]] = c] /\ keyOf' = [keyOf EXCEPT ![c] = key[t]]
    BY <2>1, <2>2 DEF Insert, DropSpeculative, Blank
  <2>4. QED
    BY <2>2, <2>3, ClientFactoryAssumption DEF Typed, TypeOK
<1>4. QED
  BY <1>2, <1>3, NoneComesBack

\* How a step of goroutine t changes the number of a core's holders.
LEMMA HolderCount ==
    ASSUME Typed, NEW t \in Threads, Call(t) \/ Step(t), NEW c \in Cores
    PROVE  /\ Cardinality(Holders(c)) \in Nat
           /\ t \notin Holders(c) /\ t \notin Holders(c)'
                  => Cardinality(Holders(c)') = Cardinality(Holders(c))
           /\ t \in Holders(c) /\ t \in Holders(c)'
                  => Cardinality(Holders(c)') = Cardinality(Holders(c))
           /\ t \notin Holders(c) /\ t \in Holders(c)'
                  => Cardinality(Holders(c)') = Cardinality(Holders(c)) + 1
           /\ t \in Holders(c) /\ t \notin Holders(c)'
                  => Cardinality(Holders(c)') = Cardinality(Holders(c)) - 1
<1>1. IsFiniteSet(Holders(c)) /\ Cardinality(Holders(c)) \in Nat
  <2>1. Holders(c) \subseteq Threads /\ IsFiniteSet(Threads)
    BY ClientFactoryAssumption DEF Holders
  <2>2. IsFiniteSet(Holders(c))
    BY <2>1, FS_Subset
  <2>3. QED
    BY <2>2, FS_CardinalityType
<1>2. \A u \in Threads \ {t} : u \in Holders(c)' <=> u \in Holders(c)
  BY OneMoves DEF Holders
<1>3. Holders(c)' \subseteq Threads /\ Holders(c) \subseteq Threads
  BY DEF Holders
<1>4. CASE t \in Holders(c)' <=> t \in Holders(c)
  <2>1. Holders(c)' = Holders(c)
    BY <1>2, <1>3, <1>4
  <2>2. QED
    BY <1>1, <1>4, <2>1
<1>5. CASE t \in Holders(c)' /\ t \notin Holders(c)
  <2>1. Holders(c)' = Holders(c) \union {t}
    BY <1>2, <1>3, <1>5
  <2>2. Cardinality(Holders(c)') = Cardinality(Holders(c)) + 1
    BY <1>1, <1>5, <2>1, FS_AddElement
  <2>3. QED
    BY <1>1, <1>5, <2>2
<1>6. CASE t \notin Holders(c)' /\ t \in Holders(c)
  <2>1. Holders(c)' = Holders(c) \ {t}
    BY <1>2, <1>3, <1>6
  <2>2. Cardinality(Holders(c)') = Cardinality(Holders(c)) - 1
    BY <1>1, <1>6, <2>1, FS_RemoveElement
  <2>3. QED
    BY <1>1, <1>6, <2>2
<1>7. QED
  BY <1>4, <1>5, <1>6

\* A holder's core has a reference.
LEMMA HeldIsReferenced ==
    ASSUME Typed, RefCountExact, NEW c \in Cores \ disowned, NEW t \in Holders(c)
    PROVE  refCount[c] > 0
<1>1. Holders(c) \subseteq Threads /\ IsFiniteSet(Threads) /\ Holders(c) # {}
  BY ClientFactoryAssumption DEF Holders
<1>2. IsFiniteSet(Holders(c))
  BY <1>1, FS_Subset
<1>3. Cardinality(Holders(c)) \in Nat /\ Cardinality(Holders(c)) # 0
  BY <1>1, <1>2, FS_EmptySet, FS_CardinalityType
<1>4. refCount[c] = handles[c] + Cardinality(Holders(c)) /\ handles[c] \in Nat
  BY DEF RefCountExact, Typed, TypeOK
<1>5. QED
  BY <1>3, <1>4

LEMMA DisownedGrow == Next => disowned \subseteq disowned'
BY DEF Next, Call, Get, Close, Reset, Step, Lookup, TryAcquire, UnmapStale, Insert, InitialLoad,
   StartSources, Release, Unpublish, StopSources, ResetRelease, ResetNext

LEMMA RefCountExactStep == Typed /\ RefCountExact /\ [Next]_vars => RefCountExact'
<1>1. ASSUME UNCHANGED vars, RefCountExact PROVE RefCountExact'
  <2>1. \A c : Holders(c)' = Holders(c)
    BY <1>1 DEF Holders, vars
  <2>2. QED
    BY <1>1, <2>1 DEF RefCountExact, vars
<1> SUFFICES ASSUME Typed, RefCountExact, NEW t \in Threads, Call(t) \/ Step(t),
                    NEW c \in Cores \ disowned'
             PROVE  refCount'[c] = handles'[c] + Cardinality(Holders(c)')
  BY <1>1 DEF Next, RefCountExact
<1> DEFINE H == Cardinality(Holders(c))
           I == Cardinality(Holders(c)')
<1>2. /\ c \notin disowned /\ refCount[c] = handles[c] + H /\ H \in Nat
      /\ refCount[c] \in Nat /\ handles[c] \in Nat
  BY HolderCount, DisownedGrow DEF Next, RefCountExact, Typed, TypeOK
<1> HIDE DEF H, I
<1>3. /\ t \notin Holders(c) /\ t \notin Holders(c)' => I = H
      /\ t \in Holders(c) /\ t \in Holders(c)' => I = H
      /\ t \notin Holders(c) /\ t \in Holders(c)' => I = H + 1
      /\ t \in Holders(c) /\ t \notin Holders(c)' => I = H - 1
  BY HolderCount DEF H, I
<1> USE DEF Typed, TypeOK, Goto, locals
<1>4. ASSUME UNCHANGED <<refCount, handles>>, t \notin Holders(c), t \notin Holders(c)'
      PROVE  refCount'[c] = handles'[c] + I
  BY <1>2, <1>3, <1>4
<1>5. ASSUME NEW k \in Keys, Get(t, k) PROVE refCount'[c] = handles'[c] + I
  BY <1>4, <1>5 DEF Get, Holders
<1>6. ASSUME NEW d \in Cores, Close(t, d) PROVE refCount'[c] = handles'[c] + I
  <2>1. t \notin Holders(c) /\ (t \in Holders(c)' <=> c = d)
    BY <1>6 DEF Close, Holders
  <2>2. refCount' = refCount /\ handles' = [handles EXCEPT ![d] = @ - 1]
    BY <1>6 DEF Close
  <2>3. CASE c = d
    BY <1>2, <1>3, <2>1, <2>2, <2>3
  <2>4. CASE c # d
    BY <1>2, <1>3, <2>1, <2>2, <2>4
  <2>5. QED
    BY <2>3, <2>4
<1>7. ASSUME Reset(t) PROVE refCount'[c] = handles'[c] + I
  BY <1>4, <1>7 DEF Reset, Holders
<1>8. ASSUME TryAcquire(t) PROVE refCount'[c] = handles'[c] + I
  <2>1. t \notin Holders(c) /\ t \notin Holders(c)'
    BY <1>8 DEF TryAcquire, Holders
  <2>2. \/ UNCHANGED <<refCount, handles>>
        \/ /\ refCount' = [refCount EXCEPT ![core[t]] = @ + 1]
           /\ handles' = [handles EXCEPT ![core[t]] = @ + 1]
    BY <1>8 DEF TryAcquire
  <2>3. QED
    BY <1>2, <1>3, <2>1, <2>2
<1>9. ASSUME Insert(t) PROVE refCount'[c] = handles'[c] + I
  <2>1. t \notin Holders(c) /\ handles' = handles
    BY <1>9 DEF Insert, Holders
  <2>2. /\ constructed' \in Cores \ Made /\ refCount[constructed'] = 0
        /\ handles[constructed'] = 0
    BY <1>9, InsertMakes DEF Blank
  <2>3. CASE liveCores[key[t]] # None
    <3>1. refCount' = refCount /\ t \notin Holders(c)'
      BY <1>9, <2>3 DEF Insert, DropSpeculative, Holders
    <3>2. QED
      BY <1>4, <2>1, <3>1
  <2>4. CASE liveCores[key[t]] = None
    <3>1. /\ refCount' = [refCount EXCEPT ![constructed'] = 1]
          /\ core' = [core EXCEPT ![t] = constructed'] /\ pc'[t] = "load"
      BY <1>9, <2>4 DEF Insert
    <3>2. t \in Holders(c)' <=> c = constructed'
      BY <3>1 DEF Holders
    <3>3. QED
      BY <1>2, <1>3, <2>1, <2>2, <3>1, <3>2
  <2>5. QED
    BY <2>3, <2>4
<1>10. ASSUME InitialLoad(t) PROVE refCount'[c] = handles'[c] + I
  <2>1. t \in Holders(c)' <=> t \in Holders(c)
    BY <1>10 DEF InitialLoad, Holders
  <2>2. QED
    BY <1>2, <1>3, <1>10, <2>1 DEF InitialLoad
<1>11. ASSUME StartSources(t) PROVE refCount'[c] = handles'[c] + I
  <2>1. t \notin Holders(c)' /\ (t \in Holders(c) <=> c = core[t])
    BY <1>11 DEF StartSources, Holders
  <2>2. refCount' = refCount /\ handles' = [handles EXCEPT ![core[t]] = @ + 1]
    BY <1>11 DEF StartSources
  <2>3. QED
    BY <1>2, <1>3, <2>1, <2>2
<1>12. ASSUME Release(t) PROVE refCount'[c] = handles'[c] + I
  <2>1. t \notin Holders(c)' /\ (t \in Holders(c) <=> c = core[t])
    BY <1>12 DEF Release, ReleaseRef, Resume, Holders
  <2>2. core[t] \in Cores /\ handles' = handles
    BY <1>12, MadeAreCores DEF Release, Located
  <2>3. CASE c = core[t]
    <3>1. refCount[c] > 0
      BY <1>2, <2>1, <2>3, HeldIsReferenced
    <3>2. refCount' = [refCount EXCEPT ![c] = @ - 1]
      BY <1>12, <2>3, <3>1 DEF Release, ReleaseRef
    <3>3. QED
      BY <1>2, <1>3, <2>1, <2>2, <2>3, <3>2
  <2>4. CASE c # core[t]
    <3>1. refCount'[c] = refCount[c]
      BY <1>12, <2>2, <2>4 DEF Release, ReleaseRef
    <3>2. QED
      BY <1>2, <1>3, <2>1, <2>2, <2>4, <3>1
  <2>5. QED
    BY <2>3, <2>4
<1>13. ASSUME ResetRelease(t) PROVE refCount'[c] = handles'[c] + I
  <2>1. PICK d \in todo[t] : ReleaseRef(t, d)
    BY <1>13 DEF ResetRelease
  <2>2. d \in disowned /\ handles' = handles /\ d # c
    BY <1>2, <1>13 DEF ResetRelease
  <2>3. refCount'[c] = refCount[c]
    BY <2>1, <2>2 DEF ReleaseRef
  <2>4. t \notin Holders(c) /\ t \notin Holders(c)'
    BY <1>13, <2>1 DEF ResetRelease, ReleaseRef, Resume, Holders
  <2>5. QED
    BY <1>2, <1>3, <2>2, <2>3, <2>4
<1>14. ASSUME Lookup(t) \/ UnmapStale(t) \/ Unpublish(t) \/ StopSources(t) \/ ResetNext(t)
       PROVE  refCount'[c] = handles'[c] + I
  <2>1. UNCHANGED <<refCount, handles>> /\ t \notin Holders(c) /\ t \notin Holders(c)'
    BY <1>14 DEF Lookup, UnmapStale, Unpublish, StopSources, ResetNext, Resume, Holders
  <2>2. QED
    BY <1>4, <2>1
<1>15. QED
  BY <1>5, <1>6, <1>7, <1>8, <1>9, <1>10, <1>11, <1>12, <1>13, <1>14 DEF Call, Step, I

\* A goroutine inside a shutdown stays with its core until the step is done.
LEMMA ShutdownGoesOn ==
    ASSUME Typed, NEW t \in Threads, Call(t) \/ Step(t),
           NEW u \in Threads, pc[u] \in {"unpublish", "stop"}
    PROVE  /\ core'[u] = core[u]
           /\ \/ pc'[u] = pc[u]
              \/ u = t /\ Unpublish(t) /\ pc'[u] = "stop"
              \/ u = t /\ StopSources(t)
<1>1. CASE u # t
  BY <1>1, OneMoves
<1>2. CASE u = t
  <2>1. Unpublish(t) \/ StopSources(t)
    BY <1>2 DEF Call, Get, Close, Reset, Step, Lookup, TryAcquire, UnmapStale, Insert,
       InitialLoad, StartSources, Release, ResetRelease, ResetNext
  <2>2. QED
    BY <1>2, <2>1 DEF Unpublish, StopSources, Goto, Typed, TypeOK
<1>3. QED
  BY <1>1, <1>2

\* A core that ResetForTesting left alone is shut down by the goroutine that
\* releases its last reference, which goes on to clean up.
LEMMA WhoShutsDown ==
    ASSUME IInv, NEW t \in Threads, Call(t) \/ Step(t), NEW c \in Made \ disowned,
           ~shutDown[c], shutDown'[c]
    PROVE  core'[t] = c /\ pc'[t] = "unpublish"
<1> USE MadeAreCores DEF IInv, Typed, TypeOK
<1>1. CASE Release(t)
  <2>1. core[t] \in Cores
    BY <1>1 DEF Release, Located
  <2>2. refCount[core[t]] > 0 /\ shutDown' = [shutDown EXCEPT ![core[t]] = refCount[core[t]] = 1]
    BY <1>1 DEF Release, ReleaseRef
  <2>3. core[t] = c /\ refCount[c] = 1
    BY <2>1, <2>2
  <2>4. QED
    BY <1>1, <2>2, <2>3 DEF Release, ReleaseRef, Goto
<1>2. CASE ResetRelease(t)
  <2>1. PICK d \in todo[t] : ReleaseRef(t, d)
    BY <1>2 DEF ResetRelease
  <2>2. d # c
    BY <2>1
  <2>3. QED
    BY <2>1, <2>2 DEF ReleaseRef
<1>3. ~Insert(t)
  BY InsertMakes DEF Insert, DropSpeculative
<1>4. QED
  BY <1>1, <1>2, <1>3 DEF Call, Get, Close, Reset, Step, Lookup, TryAcquire, UnmapStale,
     InitialLoad, StartSources, Unpublish, StopSources, ResetNext

\* A core that ResetForTesting left alone is started only while it has a
\* reference.
LEMMA WhoStarts ==
    ASSUME IInv, NEW t \in Threads, Call(t) \/ Step(t), NEW c \in Cores,
           ~running[c], running'[c]
    PROVE  /\ StartSources(t) /\ c = core[t] /\ c \in Made
           /\ c \notin disowned => ~shutDown[c]
<1>1. StartSources(t) /\ c = core[t]
  BY DEF Call, Get, Close, Reset, Step, Lookup, TryAcquire, UnmapStale, Insert, InitialLoad,
     StartSources, Release, Unpublish, StopSources, ResetRelease, ResetNext, IInv, Typed, TypeOK
<1>2. c \in Made /\ t \in Holders(c)
  BY <1>1 DEF StartSources, IInv, Typed, Located, Holders
<1>3. c \notin disowned => refCount[c] > 0
  BY <1>2, HeldIsReferenced DEF IInv
<1>4. QED
  BY <1>1, <1>2, <1>3 DEF IInv, ZeroIsDead, Typed, TypeOK

LEMMA CleanUpStep == IInv /\ [Next]_vars => CleanUp'
<1>1. ASSUME UNCHANGED vars, CleanUp PROVE CleanUp'
  BY <1>1 DEF CleanUp, vars, Made, Mapped
<1> SUFFICES ASSUME IInv, NEW t \in Threads, Call(t) \/ Step(t),
                    NEW c \in Made' \ disowned', shutDown'[c]
             PROVE  /\ running'[c] => \E u \in Threads :
                           core'[u] = c /\ pc'[u] \in {"unpublish", "stop"}
                    /\ c \in Mapped' => \E u \in Threads : core'[u] = c /\ pc'[u] = "unpublish"
  BY <1>1 DEF Next, CleanUp, IInv
<1> USE DEF IInv
<1>2. c \notin disowned /\ c \in Cores
  <2>1. Next /\ Typed'
    BY NextTyped DEF Next
  <2>2. constructed' \in 0 .. MaxCores
    BY <2>1 DEF Typed, TypeOK
  <2>3. Made' \subseteq Cores
    BY <2>2, ClientFactoryAssumption DEF Made, Cores
  <2>4. QED
    BY <2>1, <2>3, DisownedGrow
<1>3. CASE c \notin Made
  <2>1. Blank(c) /\ \A k \in Keys : liveCores[k] # c
    BY <1>2, <1>3, MadeAreCores DEF Typed
  <2>2. ~running'[c]
    BY <1>2, <1>3, <2>1, WhoStarts DEF Blank
  <2>3. Insert(t) /\ c = constructed'
    <3>1. Insert(t)
      BY <1>3 DEF Call, Get, Close, Reset, Step, Lookup, TryAcquire, UnmapStale,
         InitialLoad, StartSources, Release, Unpublish, StopSources, ResetRelease, ResetNext, Made
    <3>2. QED
      BY <1>3, <3>1, InsertMakes
  <2>4. liveCores' = liveCores
    BY <2>1, <2>3 DEF Insert, Blank
  <2>5. QED
    BY <2>1, <2>2, <2>4 DEF Mapped
<1>4. CASE c \in Made /\ ~shutDown[c]
  BY <1>2, <1>4, WhoShutsDown
<1>5. CASE c \in Made /\ shutDown[c]
  <2>1. ASSUME running'[c]
        PROVE  \E u \in Threads : core'[u] = c /\ pc'[u] \in {"unpublish", "stop"}
    <3>1. running[c]
      BY <1>2, <1>5, <2>1, WhoStarts
    <3>2. PICK u \in Threads : core[u] = c /\ pc[u] \in {"unpublish", "stop"}
      BY <1>2, <1>5, <3>1 DEF CleanUp
    <3>3. ~(u = t /\ StopSources(t))
      BY <1>2, <2>1, <3>2 DEF StopSources, Typed, TypeOK
    <3>4. QED
      BY <3>2, <3>3, ShutdownGoesOn
  <2>2. ASSUME c \in Mapped'
        PROVE  \E u \in Threads : core'[u] = c /\ pc'[u] = "unpublish"
    <3>1. PICK k \in Keys : liveCores'[k] = c /\ c # None
      BY <2>2 DEF Mapped
    <3>2. liveCores[k] = c /\ keyOf[c] = k
      <4>1. constructed' # c \/ ~Insert(t)
        BY <1>5, InsertMakes
      <4>2. liveCores[k] = c
        BY <3>1, <4>1, <1>5 DEF Call, Get, Close, Reset, Step, Lookup, TryAcquire, UnmapStale,
           Without, Insert, InitialLoad, StartSources, Release, Unpublish, StopSources,
           ResetRelease, ResetNext, Typed, TypeOK
      <4>3. QED
        BY <3>1, <4>2 DEF Keyed
    <3>3. c \in Mapped
      BY <3>1, <3>2 DEF Mapped
    <3>4. PICK u \in Threads : core[u] = c /\ pc[u] = "unpublish"
      BY <1>2, <1>5, <3>3 DEF CleanUp
    <3>5. ~(u = t /\ Unpublish(t))
      BY <3>1, <3>2, <3>4 DEF Unpublish, Without, Typed, TypeOK
    <3>6. ~(u = t /\ StopSources(t))
      BY <3>4 DEF StopSources
    <3>7. QED
      BY <3>4, <3>5, <3>6, ShutdownGoesOn
  <2>3. QED
    BY <2>1, <2>2
<1>6. QED
  BY <1>3, <1>4, <1>5

LEMMA NextIInv == IInv /\ [Next]_vars => IInv'
BY NextTyped, ZeroIsDeadStep, KeyedStep, DeadInHandStep, RefCountExactStep, PublishedStep,
   CleanUpStep DEF IInv

LEMMA FactoryInvariant == Spec => []IInv
<1>1. Init => IInv
  BY InitIInv
<1>2. IInv /\ [Next]_vars => IInv'
  BY NextIInv
<1>3. QED
  BY <1>1, <1>2, PTL DEF Spec

-----------------------------------------------------------------------------
(* The safety properties.                                                  *)

\* The atomic count is one for each open client and each goroutine inside Get
\* or Close, however many of them race.
THEOREM CountIsExact == Spec => []RefCountExact
<1>1. IInv => RefCountExact
  BY DEF IInv
<1>2. QED
  BY <1>1, FactoryInvariant, PTL

\* No client's core is shut down under it.
THEOREM OpenClientsLive == Spec => []OpenClientIsAlive
<1>1. IInv => OpenClientIsAlive
  <2> SUFFICES ASSUME IInv, NEW c \in Cores \ disowned, handles[c] > 0
               PROVE  refCount[c] > 0 /\ ~shutDown[c]
    BY DEF OpenClientIsAlive
  <2>1. c \in Made
    BY DEF IInv, Typed, Blank
  <2>2. refCount[c] > 0
    <3>1. Holders(c) \subseteq Threads /\ IsFiniteSet(Threads)
      BY ClientFactoryAssumption DEF Holders
    <3>2. Cardinality(Holders(c)) \in Nat
      BY <3>1, FS_Subset, FS_CardinalityType
    <3>3. refCount[c] = handles[c] + Cardinality(Holders(c)) /\ handles[c] \in Nat
      BY DEF IInv, RefCountExact, Typed, TypeOK
    <3>4. QED
      BY <3>2, <3>3
  <2>3. QED
    BY <2>1, <2>2 DEF IInv, ZeroIsDead
<1>2. QED
  BY <1>1, FactoryInvariant, PTL

\* A core that is referenced is the one the next Get of its key finds.
THEOREM LiveCoresPublished == Spec => []LiveCoreIsPublished
<1>1. IInv => LiveCoreIsPublished
  BY DEF IInv
<1>2. QED
  BY <1>1, FactoryInvariant, PTL

\* All clients of a key have the one core that the map holds, and it is alive.
THEOREM CoresAreShared == Spec => []OneLiveCore
<1>1. OpenClientIsAlive /\ LiveCoreIsPublished => OneLiveCore
  BY DEF OneLiveCore
<1>2. QED
  BY <1>1, OpenClientsLive, LiveCoresPublished, PTL

\* When every call has returned, what nobody has open is shut down, stopped and
\* out of the map.
THEOREM NothingIsLeaked == Spec => []NothingLeaks
<1>1. IInv => NothingLeaks
  <2> SUFFICES ASSUME IInv, Quiescent, NEW c \in Made, c \notin disowned, handles[c] = 0
               PROVE  shutDown[c] /\ ~running[c] /\ c \notin Mapped
    BY DEF NothingLeaks, Made
  <2>1. Holders(c) = {}
    BY DEF Quiescent, Holders
  <2>2. Cardinality(Holders(c)) = 0
    BY <2>1, FS_EmptySet
  <2>3. refCount[c] = handles[c] + Cardinality(Holders(c))
    BY MadeAreCores DEF IInv, RefCountExact
  <2>4. refCount[c] = 0
    BY <2>2, <2>3
  <2>5. shutDown[c]
    BY <2>4 DEF IInv, ZeroIsDead
  <2>6. QED
    BY <2>5 DEF IInv, CleanUp, Quiescent
<1>2. QED
  BY <1>1, FactoryInvariant, PTL

\* Whoever closes a core while its first Get is still loading, its goroutines
\* are never started after its shutdown stopped them.
THEOREM DeadCoresNeverStart == Spec => DeadCoresStayStopped
<1>1. IInv /\ [Next]_vars
          => [\A c \in Cores : shutDown[c] /\ ~running[c] /\ running'[c] => c \in disowned]_vars
  <2> SUFFICES ASSUME IInv, NEW t \in Threads, Call(t) \/ Step(t),
                      NEW c \in Cores, shutDown[c], ~running[c], running'[c]
               PROVE  c \in disowned
    BY DEF Next
  <2>1. QED
    BY WhoStarts
<1>2. QED
  BY <1>1, FactoryInvariant, PTL DEF Spec, DeadCoresStayStopped

-----------------------------------------------------------------------------
(* The factory implements the atomic registry.                             *)

\* The registry's state, read off the factory's.
CurrentCore == [k \in Keys |-> IF liveCores[k] # None /\ refCount[liveCores[k]] > 0
                               THEN liveCores[k] ELSE None]
AliveDisowned == {c \in disowned : refCount[c] > 0}
Spent == {c \in Cores : keyOf[c] # None}

LEMMA RegistryStutters ==
    ASSUME UNCHANGED <<CurrentCore, refCount, Spent, AliveDisowned>>
    PROVE  UNCHANGED Registry!vars
BY DEF CurrentCore, Spent, AliveDisowned, Registry!vars

\* A step that only moves its goroutine, or its core's goroutines, is no step
\* of the registry.
LEMMA QuietStep ==
    ASSUME UNCHANGED <<liveCores, refCount, keyOf, disowned>>
    PROVE  UNCHANGED Registry!vars
<1>1. UNCHANGED <<CurrentCore, refCount, Spent, AliveDisowned>>
  BY DEF CurrentCore, Spent, AliveDisowned
<1>2. QED
  BY <1>1, RegistryStutters

\* Neither is taking a dead core out of the map.
LEMMA DeadEntryLeaves ==
    ASSUME IInv, NEW t \in Threads, UnmapStale(t) \/ Unpublish(t)
    PROVE  UNCHANGED Registry!vars
<1>1. refCount[core[t]] = 0 /\ UNCHANGED <<refCount, keyOf, disowned>>
  BY DEF IInv, DeadInHand, UnmapStale, Unpublish
<1>2. ASSUME NEW k \in Keys, liveCores'[k] # liveCores[k]
      PROVE  liveCores[k] = core[t] /\ liveCores'[k] = None
  BY <1>2 DEF UnmapStale, Unpublish, Without, IInv, Typed, TypeOK
<1>3. \A k \in Keys : CurrentCore'[k] = CurrentCore[k]
  BY <1>1, <1>2 DEF CurrentCore
<1>4. UNCHANGED CurrentCore
  BY <1>3 DEF CurrentCore
<1>5. QED
  BY <1>1, <1>4, RegistryStutters DEF Spent, AliveDisowned

LEMMA ReleaseImplements ==
    ASSUME IInv, NEW t \in Threads, NEW c \in Made, ReleaseRef(t, c),
           UNCHANGED <<liveCores, keyOf, disowned>>
    PROVE  Registry!Release(c) \/ UNCHANGED Registry!vars
<1> USE MadeAreCores DEF IInv, Typed, TypeOK
<1>1. CASE UNCHANGED refCount
  BY <1>1, QuietStep
<1>2. CASE refCount[c] > 0 /\ refCount' = [refCount EXCEPT ![c] = @ - 1]
  <2>1. \A d \in Cores : refCount'[d] > 0 <=> refCount[d] > 0 /\ ~(d = c /\ refCount[c] = 1)
    BY <1>2
  <2>2. ASSUME NEW k \in Keys
        PROVE  CurrentCore'[k] = IF CurrentCore[k] = c /\ refCount[c] = 1
                                 THEN None ELSE CurrentCore[k]
    BY <1>2, <2>1 DEF CurrentCore
  <2>3. CurrentCore' = [k \in Keys |-> IF CurrentCore[k] = c /\ refCount[c] = 1
                                       THEN None ELSE CurrentCore[k]]
    BY <2>2 DEF CurrentCore
  <2>4. AliveDisowned' = IF refCount[c] = 1 THEN AliveDisowned \ {c} ELSE AliveDisowned
    BY <2>1 DEF AliveDisowned
  <2>5. Spent' = Spent
    BY DEF Spent
  <2>6. QED
    BY <1>2, <2>3, <2>4, <2>5
       DEF Registry!Release, CurrentCore, AliveDisowned, Spent
<1>3. QED
  BY <1>1, <1>2 DEF ReleaseRef

LEMMA ShareImplements ==
    ASSUME IInv, NEW t \in Threads, TryAcquire(t)
    PROVE  (\E c \in Cores : Registry!Share(c)) \/ UNCHANGED Registry!vars
<1> USE DEF IInv, Typed, TypeOK
<1>1. core[t] \in Cores /\ UNCHANGED <<liveCores, keyOf, disowned>>
  BY MadeAreCores DEF TryAcquire, Located
<1>2. CASE UNCHANGED refCount
  BY <1>1, <1>2, QuietStep
<1>3. CASE refCount[core[t]] > 0 /\ refCount' = [refCount EXCEPT ![core[t]] = @ + 1]
  <2> DEFINE c == core[t]
  <2>1. \A d \in Cores : refCount'[d] > 0 <=> refCount[d] > 0
    BY <1>1, <1>3
  <2>2. UNCHANGED <<CurrentCore, AliveDisowned, Spent>>
    BY <1>1, <2>1 DEF CurrentCore, AliveDisowned, Spent
  <2>3. c \in ({CurrentCore[k] : k \in Keys} \ {None}) \union AliveDisowned
    <3>1. CASE c \in disowned
      BY <1>3, <3>1 DEF AliveDisowned
    <3>2. CASE c \notin disowned
      <4>1. keyOf[c] \in Keys /\ liveCores[keyOf[c]] = c /\ c # None
        BY <1>1, <1>3, <3>2, MadeAreCores DEF LiveCoreIsPublished
      <4>2. CurrentCore[keyOf[c]] = c
        BY <1>3, <4>1 DEF CurrentCore
      <4>3. QED
        BY <4>1, <4>2
    <3>3. QED
      BY <3>1, <3>2
  <2>4. Registry!Share(c)
    BY <1>3, <2>2, <2>3
       DEF Registry!Share, Registry!Current, CurrentCore, AliveDisowned, Spent
  <2>5. QED
    BY <1>1, <2>4
<1>4. QED
  BY <1>2, <1>3 DEF TryAcquire, Acquirable

LEMMA CreateImplements ==
    ASSUME IInv, NEW t \in Threads, Insert(t)
    PROVE  (\E k \in Keys : Registry!Create(k)) \/ UNCHANGED Registry!vars
<1> USE DEF IInv, Typed, TypeOK
<1>1. /\ constructed' \in Cores \ Made /\ Blank(constructed') /\ key[t] \in Keys
      /\ disowned' = disowned /\ disowned \subseteq Made /\ None \notin Cores
  BY InsertMakes, MadeAreCores DEF Insert, Located
<1>2. CASE UNCHANGED <<liveCores, refCount, keyOf>>
  BY <1>1, <1>2, QuietStep
<1>3. CASE liveCores[key[t]] # None
  BY <1>2, <1>3 DEF Insert, DropSpeculative
<1>4. CASE liveCores[key[t]] = None
  <2>0. PICK k \in Keys : k = key[t]
    BY <1>1
  <2>1. PICK c \in Cores \ Made : c = constructed'
    BY <1>1
  <2>2. /\ liveCores' = [liveCores EXCEPT ![k] = c]
        /\ keyOf' = [keyOf EXCEPT ![c] = k] /\ refCount' = [refCount EXCEPT ![c] = 1]
    BY <1>4, <2>0, <2>1 DEF Insert
  <2>3. CurrentCore[k] = None
    BY <1>4, <2>0 DEF CurrentCore
  <2>4. c \in Cores \ Spent
    BY <1>1, <2>1 DEF Spent, Blank
  <2>5. \A j \in Keys : CurrentCore'[j] = IF j = k THEN c ELSE CurrentCore[j]
    BY <1>1, <2>2, MadeAreCores DEF CurrentCore
  <2>6. CurrentCore' = [CurrentCore EXCEPT ![k] = c]
    BY <1>1, <2>5 DEF CurrentCore
  <2>7. Spent' = Spent \union {c}
    BY <1>1, <2>2, ClientFactoryAssumption DEF Spent
  <2>8. AliveDisowned' = AliveDisowned
    BY <1>1, <2>2 DEF AliveDisowned
  <2>9. Registry!Create(k)
    BY <2>2, <2>3, <2>4, <2>6, <2>7, <2>8
       DEF Registry!Create, CurrentCore, AliveDisowned, Spent
  <2>10. QED
    BY <2>9
<1>5. QED
  BY <1>3, <1>4

LEMMA DisownImplements ==
    ASSUME IInv, NEW t \in Threads, Reset(t)
    PROVE  Registry!Disown
<1> USE DEF IInv, Typed, TypeOK
<1>1. UNCHANGED <<refCount, keyOf>> /\ disowned' = disowned \union Mapped
      /\ liveCores' = [k \in Keys |-> None]
  BY DEF Reset
<1>2. CurrentCore' = [k \in Keys |-> None]
  BY <1>1 DEF CurrentCore
<1>3. {CurrentCore[k] : k \in Keys} \ {None} = {c \in Mapped : refCount[c] > 0}
  BY DEF CurrentCore, Mapped
<1>4. AliveDisowned' = AliveDisowned \union ({CurrentCore[k] : k \in Keys} \ {None})
  BY <1>1, <1>3 DEF AliveDisowned
<1>5. Spent' = Spent
  BY <1>1 DEF Spent
<1>6. QED
  BY <1>1, <1>2, <1>4, <1>5
     DEF Registry!Disown, Registry!Current, CurrentCore, AliveDisowned, Spent

LEMMA StepImplements == IInv /\ [Next]_vars => [Registry!Next]_Registry!vars
<1>1. CASE UNCHANGED vars
  BY <1>1, QuietStep DEF vars
<1> SUFFICES ASSUME IInv, NEW t \in Threads, Call(t) \/ Step(t)
             PROVE  Registry!Next \/ UNCHANGED Registry!vars
  BY <1>1 DEF Next
<1>2. CASE Release(t)
  BY <1>2, ReleaseImplements, MadeAreCores
     DEF Release, Registry!Next, IInv, Typed, Located
<1>3. CASE ResetRelease(t)
  BY <1>3, ReleaseImplements, MadeAreCores DEF ResetRelease, Registry!Next, IInv, Typed
<1>4. CASE TryAcquire(t)
  BY <1>4, ShareImplements DEF Registry!Next
<1>5. CASE Insert(t)
  BY <1>5, CreateImplements DEF Registry!Next
<1>6. CASE Reset(t)
  BY <1>6, DisownImplements DEF Registry!Next
<1>7. CASE UnmapStale(t) \/ Unpublish(t)
  BY <1>7, DeadEntryLeaves
<1>8. QED
  BY <1>2, <1>3, <1>4, <1>5, <1>6, <1>7, QuietStep
     DEF Call, Get, Close, Step, Lookup, InitialLoad, StartSources, StopSources, ResetNext

\* Whatever the interleaving of lookups, retries, races to insert and shutdowns,
\* the goroutines see an atomic registry: one current core per key, shared or
\* created by Get and retired for good by the last release.
THEOREM FactoryIsARegistry == Spec => RegistrySpec
<1>1. Init => Registry!Init
  BY ClientFactoryAssumption DEF Init, Registry!Init
<1>2. IInv /\ [Next]_vars => [Registry!Next]_Registry!vars
  BY StepImplements
<1>3. QED
  BY <1>1, <1>2, FactoryInvariant, PTL DEF Spec, RegistrySpec, Registry!Spec

=============================================================================
