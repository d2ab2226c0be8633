-------------------------- MODULE SubscriptionsProofs --------------------------
(***************************************************************************)
(* Proofs about Subscriptions for any number of callers, sources, clients, *)
(* subscriptions and changes.                                              *)
(***************************************************************************)
EXTENDS Subscriptions, FiniteSetTheorems, TLAPS

-----------------------------------------------------------------------------
(* The shape of the state: TypeOK, the types of what TypeOK leaves out, and *)
(* that ids and subscriptions are given out together, one after the other.  *)

CallPlaces == {"idle", "register", "record", "take", "drop", "stop", "forget"}

Made == 1 .. made

\* What a goroutine knows at each place of a call.
Located(g) ==
    /\ pc[g] \in {"register", "record", "take"} => handle[g] \in Handles
    /\ pc[g] = "take" => handle[g] \in disposed
    /\ pc[g] = "record" => sub[g] \in Made /\ ownerOf[sub[g]] = handle[g]

Numbered ==
    /\ nextListenerID = made
    /\ \A i \in DOMAIN listeners : i \in 0 .. made - 1 /\ listeners[i] = i + 1
    /\ \A s \in Made : idOf[s] = s - 1 /\ ownerOf[s] \in Handles

SubTypes ==
    /\ made \in 0 .. MaxSubs
    /\ idOf \in [Subs -> Nat \union {None}]
    /\ ownerOf \in [Subs -> Handles \union {None}]
    /\ returned \subseteq Made /\ cut \subseteq returned
    /\ unsubs \in [Handles -> SUBSET Subs] /\ \A h \in Handles : unsubs[h] \subseteq returned

CallTypes ==
    /\ disposed \subseteq Handles /\ overlapped \subseteq disposed
    /\ refCount \in 0 .. Cardinality(Handles)
    /\ cancelled \in BOOLEAN /\ down \in BOOLEAN
    /\ pc \in [Goroutines -> CallPlaces]
    /\ handle \in [Goroutines -> Handles \union {None}]
    /\ sub \in [Goroutines -> Subs \union {None}]
    /\ drop \in [Goroutines -> SUBSET Subs] /\ \A g \in Goroutines : drop[g] \subseteq returned

FanTypes ==
    /\ stage \in [Sources -> {"wait", "copy", "call", "gone"}]
    /\ todo \in [Sources -> SUBSET Subs]
    /\ callee \in [Sources -> Subs \union {None}]
    /\ update \in [Sources -> Nat]
    /\ version \in 0 .. MaxUpdates
    /\ since \in [Subs -> Nat]
    /\ seen \in [Subs -> SUBSET Nat]

Shape == Numbered /\ SubTypes /\ CallTypes /\ FanTypes /\ \A g \in Goroutines : Located(g)

\* Every OnUpdate that is about to register has a number left for it, and the
\* count is one for each open client and each Close before its release.
Registering == {g \in Goroutines : pc[g] = "register"}
Closing == {g \in Goroutines : pc[g] \in {"take", "drop"}}

RoomLeft == made + Cardinality(Registering) <= MaxSubs
CountExact == refCount = Cardinality(Handles \ disposed) + Cardinality(Closing)

LEMMA Finite ==
    /\ IsFiniteSet(Registering) /\ Cardinality(Registering) \in Nat
    /\ IsFiniteSet(Closing) /\ Cardinality(Closing) \in Nat
    /\ IsFiniteSet(Handles \ disposed) /\ Cardinality(Handles \ disposed) \in Nat
    /\ Cardinality(Handles) \in Nat
<1>1. IsFiniteSet(Goroutines)
  BY SubscriptionsAssumption, FS_Union DEF Goroutines
<1>2. Registering \subseteq Goroutines /\ Closing \subseteq Goroutines
      /\ Handles \ disposed \subseteq Handles
  BY DEF Registering, Closing
<1>3. IsFiniteSet(Registering) /\ IsFiniteSet(Closing) /\ IsFiniteSet(Handles \ disposed)
  BY <1>1, <1>2, SubscriptionsAssumption, FS_Subset
<1>4. QED
  BY <1>3, SubscriptionsAssumption, FS_CardinalityType

LEMMA InitShape == Init => Shape /\ RoomLeft /\ CountExact
<1> SUFFICES ASSUME Init PROVE Shape /\ RoomLeft /\ CountExact
  OBVIOUS
<1>1. Made = {} /\ Cardinality(Handles) \in Nat
  BY Finite DEF Init, Made
<1>2. Numbered /\ SubTypes
  <2>1. DOMAIN listeners = {} /\ nextListenerID = made /\ made \in 0 .. MaxSubs
    BY SubscriptionsAssumption DEF Init
  <2>2. Numbered
    BY <1>1, <2>1 DEF Numbered
  <2>3. SubTypes
    BY <1>1, <2>1 DEF Init, SubTypes
  <2>4. QED
    BY <2>2, <2>3
<1>3. CallTypes
  <2>1. refCount \in 0 .. Cardinality(Handles)
    BY <1>1 DEF Init
  <2>2. QED
    BY <2>1 DEF Init, CallTypes, CallPlaces
<1>4. FanTypes
  BY SubscriptionsAssumption DEF Init, FanTypes
<1>5. \A g \in Goroutines : Located(g)
  BY DEF Init, Located
<1>6. Registering = {} /\ Closing = {} /\ Handles \ disposed = Handles
  BY DEF Init, Registering, Closing
<1>7. RoomLeft /\ CountExact
  BY <1>1, <1>6, FS_EmptySet, SubscriptionsAssumption DEF Init, RoomLeft, CountExact
<1>8. QED
  BY <1>2, <1>3, <1>4, <1>5, <1>7 DEF Shape

\* A goroutine about to register finds a number; one about to release finds a
\* reference.
LEMMA ThereIsRoom ==
    ASSUME Shape, RoomLeft, NEW g \in Goroutines, pc[g] = "register"
    PROVE  made + 1 \in Subs
<1>1. g \in Registering
  BY DEF Registering
<1>2. Cardinality(Registering) # 0
  BY <1>1, Finite, FS_EmptySet
<1>3. QED
  BY <1>2, Finite, SubscriptionsAssumption DEF RoomLeft, Shape, SubTypes, Subs

LEMMA ThereIsAReference ==
    ASSUME Shape, CountExact, NEW g \in Goroutines, pc[g] \in {"take", "drop"}
    PROVE  refCount >= 1 /\ (refCount = 1 => disposed = Handles)
<1>1. g \in Closing
  BY DEF Closing
<1>2. Cardinality(Closing) # 0
  BY <1>1, Finite, FS_EmptySet
<1>3. refCount >= 1 /\ (refCount = 1 => Cardinality(Handles \ disposed) = 0)
  BY <1>2, Finite DEF CountExact
<1>4. Cardinality(Handles \ disposed) = 0 => disposed = Handles
  BY Finite, FS_EmptySet DEF Shape, CallTypes
<1>5. QED
  BY <1>3, <1>4

-----------------------------------------------------------------------------
(* The steps keep the shape.                                               *)

\* What a removal, a registration and an unsubscribe do to the map.
LEMMA UnsubShape ==
    ASSUME Shape, NEW s \in returned, Unsub(s)
    PROVE  /\ DOMAIN listeners' \subseteq DOMAIN listeners
           /\ \A i \in DOMAIN listeners' : listeners'[i] = listeners[i]
           /\ cut' \subseteq returned /\ cut \subseteq cut'
           /\ Registered' \subseteq Registered
           /\ \A l \in Registered \ {s} : l \in Registered'
           /\ s \in cut \/ s \notin Registered'
           /\ s \in cut'
           /\ cut' \subseteq cut \union {s}
<1> USE DEF Shape, SubTypes, Made
<1>1. CASE s \in cut
  <2>1. UNCHANGED <<listeners, cut>>
    BY <1>1 DEF Unsub
  <2>2. QED
    BY <1>1, <2>1 DEF Registered
<1>2. CASE s \notin cut
  <2>1. /\ listeners' = Restrict(listeners, DOMAIN listeners \ {idOf[s]})
        /\ cut' = cut \union {s}
    BY <1>2 DEF Unsub
  <2>2. /\ DOMAIN listeners' = DOMAIN listeners \ {idOf[s]}
        /\ \A i \in DOMAIN listeners' : listeners'[i] = listeners[i]
    BY <2>1 DEF Restrict
  <2>3. idOf[s] = s - 1 /\ s \in Int
    BY DEF Numbered
  <2>4. s \notin Registered'
    <3>1. ASSUME NEW i \in DOMAIN listeners, listeners[i] = s PROVE i = idOf[s]
      BY <2>3, <3>1 DEF Numbered
    <3>2. QED
      BY <2>2, <3>1 DEF Registered, Range
  <2>5. ASSUME NEW l \in Registered, l # s PROVE l \in Registered'
    <3>1. PICK i \in DOMAIN listeners : listeners[i] = l
      BY <2>5 DEF Registered, Range
    <3>2. i # idOf[s]
      BY <2>3, <2>5, <3>1 DEF Numbered
    <3>3. QED
      BY <2>2, <3>1, <3>2 DEF Registered, Range
  <2>6. Registered' \subseteq Registered
    BY <2>2 DEF Registered, Range
  <2>7. QED
    BY <2>1, <2>2, <2>4, <2>5, <2>6
<1>3. QED
  BY <1>1, <1>2

LEMMA RegisterShape ==
    ASSUME Shape, RoomLeft, NEW g \in Goroutines, AddUpdateListener(g)
    PROVE  /\ made' = made + 1 /\ made' \in Subs
           /\ DOMAIN listeners' = DOMAIN listeners \union {made}
           /\ \A i \in DOMAIN listeners : listeners'[i] = listeners[i]
           /\ listeners'[made] = made + 1
           /\ Made' = Made \union {made'} /\ made' \notin Made
           /\ Registered' = Registered \union {made'}
<1>1. made' = made + 1 /\ made' \in Subs /\ made \in Nat
  BY ThereIsRoom DEF AddUpdateListener, Shape, SubTypes
<1>2. /\ DOMAIN listeners' = DOMAIN listeners \union {made} /\ made \notin DOMAIN listeners
      /\ \A i \in DOMAIN listeners : listeners'[i] = listeners[i]
      /\ listeners'[made] = made + 1
  BY <1>1 DEF AddUpdateListener, Having, FreshID, Shape, Numbered
<1>3. Made' = Made \union {made'} /\ made' \notin Made
  BY <1>1 DEF Made
<1>4. Registered' = Registered \union {made'}
  BY <1>1, <1>2 DEF Registered, Range
<1>5. QED
  BY <1>1, <1>2, <1>3, <1>4

LEMMA OnUpdateShape ==
    ASSUME Shape, NEW g \in Goroutines, NEW h \in Handles, OnUpdate(g, h)
    PROVE  Shape'
<1> USE DEF OnUpdate, Goto, subVars, coreVars, fanVars
<1>1. Numbered' /\ SubTypes' /\ FanTypes'
  BY DEF Shape, Numbered, SubTypes, FanTypes, Made
<1>2. CallTypes'
  BY DEF Shape, CallTypes, CallPlaces
<1>3. \A o \in Goroutines : Located(o)'
  BY DEF Shape, CallTypes, Located, Made
<1>4. QED
  BY <1>1, <1>2, <1>3 DEF Shape

LEMMA AddUpdateListenerShape ==
    ASSUME Shape, RoomLeft, NEW g \in Goroutines, AddUpdateListener(g)
    PROVE  Shape'
<1>0. /\ pc[g] = "register" /\ nextListenerID' = nextListenerID + 1
      /\ idOf' = [idOf EXCEPT ![made'] = nextListenerID]
      /\ ownerOf' = [ownerOf EXCEPT ![made'] = handle[g]]
      /\ since' = [since EXCEPT ![made'] = version]
      /\ sub' = [sub EXCEPT ![g] = made'] /\ pc' = [pc EXCEPT ![g] = "record"]
      /\ UNCHANGED <<disposed, unsubs, cut, returned, coreVars, handle, drop, fanVars, overlapped>>
  BY DEF AddUpdateListener, FreshID, Goto
<1> USE DEF coreVars, fanVars
<1>1. made' \in Subs /\ made' = made + 1 /\ Made' = Made \union {made'} /\ made \in Nat
      /\ handle[g] \in Handles /\ made' \notin Made
  BY <1>0, RegisterShape DEF Shape, SubTypes, Located
<1>2. idOf' = [idOf EXCEPT ![made'] = made] /\ ownerOf' = [ownerOf EXCEPT ![made'] = handle[g]]
  BY <1>0 DEF Shape, Numbered
<1>3. Made' \subseteq Subs
  <2>1. made' \in 1 .. MaxSubs /\ MaxSubs \in Nat
    BY <1>1, SubscriptionsAssumption DEF Subs
  <2>2. QED
    BY <2>1 DEF Made, Subs
<1>4. Numbered'
  <2>1. nextListenerID' = made'
    BY <1>0, <1>1 DEF Shape, Numbered
  <2>2. \A i \in DOMAIN listeners' : i \in 0 .. made' - 1 /\ listeners'[i] = i + 1
    BY <1>1, RegisterShape DEF Shape, Numbered
  <2>3. \A s \in Made' : idOf'[s] = s - 1 /\ ownerOf'[s] \in Handles
    BY <1>1, <1>2, <1>3 DEF Shape, Numbered, SubTypes
  <2>4. QED
    BY <2>1, <2>2, <2>3 DEF Numbered
<1>5. SubTypes'
  <2>1. idOf' \in [Subs -> Nat \union {None}] /\ ownerOf' \in [Subs -> Handles \union {None}]
    BY <1>1, <1>2 DEF Shape, SubTypes
  <2>2. made' \in 0 .. MaxSubs
    BY <1>1 DEF Subs
  <2>3. returned' \subseteq Made' /\ cut' \subseteq returned'
        /\ unsubs' \in [Handles -> SUBSET Subs] /\ \A h \in Handles : unsubs'[h] \subseteq returned'
    BY <1>0, <1>1 DEF Shape, SubTypes
  <2>4. QED
    BY <2>1, <2>2, <2>3 DEF SubTypes
<1>6. CallTypes'
  BY <1>0, <1>1 DEF Shape, CallTypes, CallPlaces
<1>7. FanTypes'
  BY <1>0, <1>1, SubscriptionsAssumption DEF Shape, FanTypes
<1>8. \A o \in Goroutines : Located(o)'
  <2> SUFFICES ASSUME NEW o \in Goroutines PROVE Located(o)'
    OBVIOUS
  <2>1. CASE o = g
    BY <1>0, <1>1, <1>2, <2>1 DEF Shape, CallTypes, SubTypes, Located
  <2>2. CASE o # g
    BY <1>0, <1>1, <1>2, <1>3, <2>2 DEF Shape, CallTypes, SubTypes, Located
  <2>3. QED
    BY <2>1, <2>2
<1>9. QED
  BY <1>4, <1>5, <1>6, <1>7, <1>8 DEF Shape

LEMMA RecordUnsubShape ==
    ASSUME Shape, NEW g \in Goroutines, RecordUnsub(g)
    PROVE  Shape'
<1> USE DEF RecordUnsub, Goto, coreVars, fanVars
<1>1. sub[g] \in Made /\ handle[g] \in Handles /\ Made \subseteq Subs
  BY SubscriptionsAssumption DEF Shape, Located, SubTypes, Made, Subs
<1>2. Numbered' /\ FanTypes'
  BY DEF Shape, Numbered, FanTypes, Made
<1>3. SubTypes'
  BY <1>1 DEF Shape, SubTypes, Made
<1>4. CallTypes'
  BY DEF Shape, CallTypes, CallPlaces
<1>5. \A o \in Goroutines : Located(o)'
  BY DEF Shape, CallTypes, Located, Made
<1>6. QED
  BY <1>2, <1>3, <1>4, <1>5 DEF Shape

LEMMA UnsubscribeShape ==
    ASSUME Shape, NEW g \in Goroutines, NEW s \in Subs, Unsubscribe(g, s)
    PROVE  Shape'
<1> USE DEF Unsubscribe, coreVars, fanVars, callVars
<1>1. Numbered' /\ SubTypes'
  BY UnsubShape DEF Shape, Numbered, SubTypes, Made
<1>2. CallTypes' /\ FanTypes'
  BY DEF Shape, CallTypes, FanTypes
<1>3. \A o \in Goroutines : Located(o)'
  BY DEF Shape, Located, Made
<1>4. QED
  BY <1>1, <1>2, <1>3 DEF Shape

LEMMA CloseShape ==
    ASSUME Shape, NEW g \in Goroutines, NEW h \in Handles, Close(g, h)
    PROVE  Shape'
<1> USE DEF Close, Goto, subVars, coreVars, fanVars
<1>1. Numbered' /\ SubTypes' /\ FanTypes'
  BY DEF Shape, Numbered, SubTypes, FanTypes, Made
<1>2. CallTypes'
  BY DEF Shape, CallTypes, CallPlaces
<1>3. \A o \in Goroutines : Located(o)'
  BY DEF Shape, CallTypes, Located, Made
<1>4. QED
  BY <1>1, <1>2, <1>3 DEF Shape

LEMMA TakeUnsubsShape ==
    ASSUME Shape, NEW g \in Goroutines, TakeUnsubs(g)
    PROVE  Shape'
<1> USE DEF TakeUnsubs, Goto, coreVars, fanVars
<1>1. handle[g] \in Handles
  BY DEF Shape, Located
<1>2. Numbered' /\ FanTypes'
  BY DEF Shape, Numbered, FanTypes, Made
<1>3. SubTypes'
  BY <1>1 DEF Shape, SubTypes, Made
<1>4. CallTypes'
  BY <1>1 DEF Shape, CallTypes, CallPlaces, SubTypes
<1>5. \A o \in Goroutines : Located(o)'
  BY DEF Shape, CallTypes, Located, Made
<1>6. QED
  BY <1>2, <1>3, <1>4, <1>5 DEF Shape

LEMMA DropSubShape ==
    ASSUME Shape, NEW g \in Goroutines, DropSub(g)
    PROVE  Shape'
<1> USE DEF DropSub, coreVars, fanVars
<1>1. PICK s \in drop[g] : Unsub(s) /\ drop' = [drop EXCEPT ![g] = @ \ {s}]
  OBVIOUS
<1>2. s \in returned
  BY DEF Shape, CallTypes
<1>3. Numbered' /\ SubTypes'
  BY <1>1, <1>2, UnsubShape DEF Shape, Numbered, SubTypes, Made
<1>4. CallTypes' /\ FanTypes'
  BY <1>1 DEF Shape, CallTypes, FanTypes
<1>5. \A o \in Goroutines : Located(o)'
  BY DEF Shape, Located, Made
<1>6. QED
  BY <1>3, <1>4, <1>5 DEF Shape

LEMMA ReleaseShape ==
    ASSUME Shape, CountExact, NEW g \in Goroutines, Release(g)
    PROVE  Shape'
<1> USE DEF Release, Goto, subVars, fanVars
<1>1. Numbered' /\ SubTypes' /\ FanTypes'
  BY DEF Shape, Numbered, SubTypes, FanTypes, Made
<1>2. CallTypes'
  <2>1. refCount' \in 0 .. Cardinality(Handles)
    BY ThereIsAReference, Finite DEF Shape, CallTypes
  <2>2. pc' \in [Goroutines -> CallPlaces]
    BY DEF Shape, CallTypes, CallPlaces
  <2>3. QED
    BY <2>1, <2>2 DEF Shape, CallTypes
<1>3. \A o \in Goroutines : Located(o)'
  BY DEF Shape, CallTypes, Located, Made
<1>4. QED
  BY <1>1, <1>2, <1>3 DEF Shape

LEMMA StopSourcesShape ==
    ASSUME Shape, NEW g \in Goroutines, StopSources(g)
    PROVE  Shape'
<1> USE DEF StopSources, Goto, subVars, fanVars
<1>1. Numbered' /\ SubTypes' /\ FanTypes'
  BY DEF Shape, Numbered, SubTypes, FanTypes, Made
<1>2. CallTypes'
  BY DEF Shape, CallTypes, CallPlaces
<1>3. \A o \in Goroutines : Located(o)'
  BY DEF Shape, CallTypes, Located, Made
<1>4. QED
  BY <1>1, <1>2, <1>3 DEF Shape

LEMMA ForgetListenersShape ==
    ASSUME Shape, NEW g \in Goroutines, ForgetListeners(g)
    PROVE  Shape'
<1> USE DEF ForgetListeners, Goto, subVars, fanVars
<1>1. Numbered' /\ SubTypes' /\ FanTypes'
  BY DEF Shape, Numbered, SubTypes, FanTypes, Made
<1>2. CallTypes'
  BY DEF Shape, CallTypes, CallPlaces
<1>3. \A o \in Goroutines : Located(o)'
  BY DEF Shape, CallTypes, Located, Made
<1>4. QED
  BY <1>1, <1>2, <1>3 DEF Shape

LEMMA FanShape ==
    ASSUME Shape, NEW s \in Sources, Receive(s) \/ FanOutStep(s)
    PROVE  Shape'
<1> USE DEF FanOutStep, Receive, CopyListeners, CallListener, ListenerReturns, ListenerPanics,
            FanOutEnds, SourceExits, Stage
<1>1. UNCHANGED <<listeners, nextListenerID, disposed, subVars, coreVars, callVars, overlapped>>
  OBVIOUS
<1>2. Numbered' /\ SubTypes' /\ CallTypes' /\ \A g \in Goroutines : Located(g)'
  BY <1>1 DEF Shape, Numbered, SubTypes, CallTypes, Located, Made, subVars, coreVars, callVars
<1>3. Registered \subseteq Subs
  BY SubscriptionsAssumption DEF Shape, Numbered, SubTypes, Registered, Range, Subs
<1>4. FanTypes'
  <2>1. stage' \in [Sources -> {"wait", "copy", "call", "gone"}]
    BY DEF Shape, FanTypes
  <2>2. todo' \in [Sources -> SUBSET Subs]
    BY <1>3 DEF Shape, FanTypes
  <2>3. callee' \in [Sources -> Subs \union {None}]
    BY DEF Shape, FanTypes
  <2>4. version' \in 0 .. MaxUpdates /\ update' \in [Sources -> Nat]
    BY SubscriptionsAssumption DEF Shape, FanTypes
  <2>5. since' \in [Subs -> Nat]
    BY <1>1 DEF Shape, FanTypes, subVars
  <2>6. seen' \in [Subs -> SUBSET Nat]
    BY DEF Shape, FanTypes
  <2>7. QED
    BY <2>1, <2>2, <2>3, <2>4, <2>5, <2>6 DEF FanTypes
<1>5. QED
  BY <1>2, <1>4 DEF Shape

-----------------------------------------------------------------------------
(* Room and references.                                                    *)

\* How a step of goroutine g changes the number of goroutines in a set that
\* only their places decide.
LEMMA OneJoinsOrLeaves ==
    ASSUME NEW S, NEW T, NEW g, IsFiniteSet(S), \A o : o # g => (o \in T <=> o \in S)
    PROVE  /\ (g \in S <=> g \in T) => Cardinality(T) = Cardinality(S)
           /\ g \notin S /\ g \in T => Cardinality(T) = Cardinality(S) + 1
           /\ g \in S /\ g \notin T => Cardinality(T) = Cardinality(S) - 1
<1>1. CASE g \in S <=> g \in T
  <2>1. S = T
    BY <1>1
  <2>2. QED
    BY <1>1, <2>1
<1>2. CASE g \notin S /\ g \in T
  <2>1. T = S \union {g}
    BY <1>2
  <2>2. QED
    BY <1>2, <2>1, FS_AddElement
<1>3. CASE g \in S /\ g \notin T
  <2>1. T = S \ {g}
    BY <1>3
  <2>2. QED
    BY <1>3, <2>1, FS_RemoveElement
<1>4. QED
  BY <1>1, <1>2, <1>3

\* Only goroutine g moves.
Alone(g) == \A o \in Goroutines \ {g} : pc'[o] = pc[o]

LEMMA CountsStep ==
    ASSUME Shape, RoomLeft, CountExact, [Next]_vars
    PROVE  RoomLeft' /\ CountExact'
<1> DEFINE R == Cardinality(Registering)
           C == Cardinality(Closing)
           H == Cardinality(Handles \ disposed)
<1>1. /\ R \in Nat /\ C \in Nat /\ H \in Nat /\ made \in Nat /\ refCount \in Nat
      /\ made + R <= MaxSubs /\ refCount = H + C
  BY Finite DEF RoomLeft, CountExact, Shape, SubTypes, CallTypes
<1>2. ASSUME UNCHANGED <<pc, made, disposed, refCount>> PROVE RoomLeft' /\ CountExact'
  <2>1. Registering' = Registering /\ Closing' = Closing
    BY <1>2 DEF Registering, Closing
  <2>2. QED
    BY <1>2, <2>1 DEF RoomLeft, CountExact
<1>3. CASE UNCHANGED vars
  BY <1>2, <1>3 DEF vars, subVars, coreVars, callVars
<1>4. ASSUME NEW s \in Sources, Receive(s) \/ FanOutStep(s) PROVE RoomLeft' /\ CountExact'
  BY <1>2, <1>4 DEF Receive, FanOutStep, CopyListeners, CallListener, ListenerReturns,
     ListenerPanics, FanOutEnds, SourceExits, subVars, coreVars, callVars
<1>5. ASSUME NEW g \in Goroutines, Alone(g)
      PROVE  /\ pc[g] # "register" /\ pc'[g] # "register" => Cardinality(Registering') = R
             /\ pc[g] # "register" /\ pc'[g] = "register" => Cardinality(Registering') = R + 1
             /\ pc[g] = "register" /\ pc'[g] # "register" => Cardinality(Registering') = R - 1
             /\ pc[g] \notin {"take", "drop"} /\ pc'[g] \notin {"take", "drop"}
                    => Cardinality(Closing') = C
             /\ pc[g] \in {"take", "drop"} /\ pc'[g] \in {"take", "drop"}
                    => Cardinality(Closing') = C
             /\ pc[g] \notin {"take", "drop"} /\ pc'[g] \in {"take", "drop"}
                    => Cardinality(Closing') = C + 1
             /\ pc[g] \in {"take", "drop"} /\ pc'[g] \notin {"take", "drop"}
                    => Cardinality(Closing') = C - 1
  <2>1. /\ \A o : o # g => (o \in Registering' <=> o \in Registering)
        /\ \A o : o # g => (o \in Closing' <=> o \in Closing)
        /\ g \in Registering' <=> pc'[g] = "register"
        /\ g \in Closing' <=> pc'[g] \in {"take", "drop"}
        /\ g \in Registering <=> pc[g] = "register"
        /\ g \in Closing <=> pc[g] \in {"take", "drop"}
    BY <1>5 DEF Alone, Registering, Closing
  <2>2. /\ (g \in Registering <=> g \in Registering') => Cardinality(Registering') = R
        /\ g \notin Registering /\ g \in Registering' => Cardinality(Registering') = R + 1
        /\ g \in Registering /\ g \notin Registering' => Cardinality(Registering') = R - 1
    BY <2>1, Finite, OneJoinsOrLeaves
  <2>3. /\ (g \in Closing <=> g \in Closing') => Cardinality(Closing') = C
        /\ g \notin Closing /\ g \in Closing' => Cardinality(Closing') = C + 1
        /\ g \in Closing /\ g \notin Closing' => Cardinality(Closing') = C - 1
    BY <2>1, Finite, OneJoinsOrLeaves
  <2> HIDE DEF R, C
  <2>4. QED
    BY <2>1, <2>2, <2>3
<1>6. ASSUME NEW g \in Goroutines, NEW h \in Handles, OnUpdate(g, h)
      PROVE  RoomLeft' /\ CountExact'
  <2>1. /\ pc[g] = "idle" /\ pc'[g] = "register" /\ Alone(g)
        /\ UNCHANGED <<made, disposed, refCount>> /\ made + R < MaxSubs
    BY <1>6 DEF OnUpdate, MayCall, Goto, subVars, coreVars, Registering, Alone, Shape, CallTypes
  <2>2. Cardinality(Registering') = R + 1 /\ Cardinality(Closing') = C
    BY <1>5, <2>1
  <2> HIDE DEF R, C
  <2>3. QED
    BY <1>1, <2>1, <2>2, SubscriptionsAssumption DEF RoomLeft, CountExact, H
<1>7. ASSUME NEW g \in Goroutines, NEW h \in Handles, Close(g, h)
      PROVE  RoomLeft' /\ CountExact'
  <2>1. /\ pc[g] = "idle" /\ pc'[g] = "take" /\ Alone(g) /\ h \in Handles \ disposed
        /\ UNCHANGED <<made, refCount>> /\ disposed' = disposed \union {h}
    BY <1>7 DEF Close, MayCall, Goto, subVars, coreVars, Alone, Shape, CallTypes
  <2>2. Cardinality(Registering') = R /\ Cardinality(Closing') = C + 1
    BY <1>5, <2>1
  <2>3. Cardinality(Handles \ disposed') = H - 1
    <3>1. Handles \ disposed' = (Handles \ disposed) \ {h}
      BY <2>1
    <3>2. QED
      BY <2>1, <3>1, Finite, FS_RemoveElement
  <2> HIDE DEF R, C, H
  <2>4. QED
    BY <1>1, <2>1, <2>2, <2>3 DEF RoomLeft, CountExact
<1>8. ASSUME NEW g \in Goroutines, NEW s \in Subs, Unsubscribe(g, s)
      PROVE  RoomLeft' /\ CountExact'
  BY <1>2, <1>8 DEF Unsubscribe, coreVars, callVars
<1>9. ASSUME NEW g \in Goroutines, AddUpdateListener(g) PROVE RoomLeft' /\ CountExact'
  <2>1. /\ pc[g] = "register" /\ pc'[g] = "record" /\ Alone(g)
        /\ UNCHANGED <<disposed, refCount>> /\ made' = made + 1
    BY <1>9 DEF AddUpdateListener, Goto, coreVars, Alone, Shape, CallTypes
  <2>2. Cardinality(Registering') = R - 1 /\ Cardinality(Closing') = C
    BY <1>5, <2>1
  <2> HIDE DEF R, C
  <2>3. QED
    BY <1>1, <2>1, <2>2, SubscriptionsAssumption DEF RoomLeft, CountExact, H
<1>10. ASSUME NEW g \in Goroutines, RecordUnsub(g) PROVE RoomLeft' /\ CountExact'
  <2>1. /\ pc[g] = "record" /\ pc'[g] = "idle" /\ Alone(g)
        /\ UNCHANGED <<made, disposed, refCount>>
    BY <1>10 DEF RecordUnsub, Goto, coreVars, Alone, Shape, CallTypes
  <2>2. Cardinality(Registering') = R /\ Cardinality(Closing') = C
    BY <1>5, <2>1
  <2> HIDE DEF R, C
  <2>3. QED
    BY <1>1, <2>1, <2>2, SubscriptionsAssumption DEF RoomLeft, CountExact, H
<1>11. ASSUME NEW g \in Goroutines, TakeUnsubs(g) PROVE RoomLeft' /\ CountExact'
  <2>1. /\ pc[g] = "take" /\ pc'[g] = "drop" /\ Alone(g)
        /\ UNCHANGED <<made, disposed, refCount>>
    BY <1>11 DEF TakeUnsubs, Goto, coreVars, Alone, Shape, CallTypes
  <2>2. Cardinality(Registering') = R /\ Cardinality(Closing') = C
    BY <1>5, <2>1
  <2> HIDE DEF R, C
  <2>3. QED
    BY <1>1, <2>1, <2>2, SubscriptionsAssumption DEF RoomLeft, CountExact, H
<1>12. ASSUME NEW g \in Goroutines, DropSub(g) PROVE RoomLeft' /\ CountExact'
  BY <1>2, <1>12 DEF DropSub, coreVars
<1>13. ASSUME NEW g \in Goroutines, Release(g) PROVE RoomLeft' /\ CountExact'
  <2>1. pc'[g] \in {"stop", "idle"} /\ Alone(g)
    BY <1>13 DEF Release, Goto, Alone, Shape, CallTypes
  <2>2. /\ pc[g] = "drop" /\ UNCHANGED <<made, disposed>> /\ refCount' = refCount - 1
    BY <1>13 DEF Release, subVars
  <2>3. Cardinality(Registering') = R /\ Cardinality(Closing') = C - 1
    BY <1>5, <2>1, <2>2
  <2> HIDE DEF R, C
  <2>4. QED
    BY <1>1, <2>2, <2>3, SubscriptionsAssumption DEF RoomLeft, CountExact, H
<1>14. ASSUME NEW g \in Goroutines, StopSources(g) \/ ForgetListeners(g)
       PROVE  RoomLeft' /\ CountExact'
  <2>1. pc'[g] \in {"forget", "idle"} /\ Alone(g)
    BY <1>14 DEF StopSources, ForgetListeners, Goto, Alone, Shape, CallTypes
  <2>2. /\ pc[g] \in {"stop", "forget"} /\ UNCHANGED <<made, disposed, refCount>>
    BY <1>14 DEF StopSources, ForgetListeners, subVars
  <2>3. Cardinality(Registering') = R /\ Cardinality(Closing') = C
    BY <1>5, <2>1, <2>2
  <2> HIDE DEF R, C
  <2>4. QED
    BY <1>1, <2>2, <2>3, SubscriptionsAssumption DEF RoomLeft, CountExact, H
<1>15. QED
  BY <1>3, <1>4, <1>6, <1>7, <1>8, <1>9, <1>10, <1>11, <1>12, <1>13, <1>14
     DEF Next, Call, CallStep

LEMMA ShapeStep ==
    ASSUME Shape, RoomLeft, CountExact, [Next]_vars
    PROVE  Shape'
<1>1. CASE UNCHANGED vars
  BY <1>1 DEF vars, subVars, coreVars, callVars, fanVars, Shape, Numbered, SubTypes, CallTypes,
     FanTypes, Located, Made
<1>2. ASSUME NEW g \in Goroutines, Call(g) PROVE Shape'
  BY <1>2, OnUpdateShape, CloseShape, UnsubscribeShape DEF Call
<1>3. ASSUME NEW g \in Goroutines, CallStep(g) PROVE Shape'
  BY <1>3, AddUpdateListenerShape, RecordUnsubShape, TakeUnsubsShape, DropSubShape, ReleaseShape,
     StopSourcesShape, ForgetListenersShape DEF CallStep
<1>4. QED
  BY <1>1, <1>2, <1>3, FanShape DEF Next

LEMMA ShapeIsTypeOK == Shape => TypeOK
<1> SUFFICES ASSUME Shape PROVE TypeOK
  OBVIOUS
<1>1. DOMAIN listeners \subseteq 0 .. nextListenerID - 1
  BY DEF Shape, Numbered
<1>2. Registered \subseteq 1 .. made
  BY DEF Shape, Numbered, SubTypes, Registered, Range
<1>3. QED
  BY <1>1, <1>2 DEF Shape, SubTypes, CallTypes, FanTypes, TypeOK, CallPlaces, Made

LEMMA ShapeHolds == Spec => [](Shape /\ RoomLeft /\ CountExact)
<1>1. Init => Shape /\ RoomLeft /\ CountExact
  BY InitShape
<1>2. Shape /\ RoomLeft /\ CountExact /\ [Next]_vars => (Shape /\ RoomLeft /\ CountExact)'
  BY ShapeStep, CountsStep
<1>3. QED
  BY <1>1, <1>2, PTL DEF Spec

\* Every variable keeps its type: an id is never given out twice, and no Close
\* takes the core's count below zero.
THEOREM SubscriptionsTypeCorrect == Spec => []TypeOK
BY ShapeHolds, ShapeIsTypeOK, PTL

-----------------------------------------------------------------------------
(* The invariant the properties follow from.                               *)

\* What was unsubscribed is gone, and only what was, or what belongs to a
\* closed client: the core is not shut down before the last client is closed.
KeptOrCut ==
    /\ Registered \intersect cut = {}
    /\ \A g \in Goroutines : pc[g] \in {"stop", "forget"} => disposed = Handles
    /\ \A s \in Made : s \notin cut /\ ownerOf[s] \notin disposed => s \in Registered

\* A registered subscription of an open client is on that client's list or
\* about to be put there; one of a closed client is about to be dropped, unless
\* an OnUpdate ran into the Close.
LateOnesOverlap ==
    \A g \in Goroutines :
        pc[g] \in {"register", "record"} /\ handle[g] \in disposed => handle[g] \in overlapped
Listed(s) ==
    \/ s \in unsubs[ownerOf[s]]
    \/ \E g \in Goroutines : pc[g] = "record" /\ sub[g] = s
Dropping(s) ==
    \/ /\ s \in unsubs[ownerOf[s]]
       /\ \E g \in Goroutines : pc[g] = "take" /\ handle[g] = ownerOf[s]
    \/ \E g \in Goroutines : pc[g] = "drop" /\ s \in drop[g]
OnAList(s) ==
    /\ ownerOf[s] \notin disposed => Listed(s)
    /\ ownerOf[s] \in disposed \ overlapped => Dropping(s)
Remembered == LateOnesOverlap /\ \A s \in Registered : OnAList(s)

\* A change a registered listener was not called for is on its way to it.
OnItsWay ==
    \A l \in Registered : \A v \in since[l] + 1 .. version :
        \/ v \in seen[l]
        \/ \E s \in Sources : /\ update[s] = v
                              /\ stage[s] = "copy" \/ (stage[s] = "call" /\ l \in todo[s])

LEMMA InitSafe == Init => KeptOrCut /\ Remembered /\ OnItsWay
<1> SUFFICES ASSUME Init PROVE KeptOrCut /\ Remembered /\ OnItsWay
  OBVIOUS
<1>1. Registered = {} /\ Made = {}
  BY DEF Init, Registered, Range, Made
<1>2. QED
  BY <1>1 DEF Init, KeptOrCut, Remembered, LateOnesOverlap, OnItsWay

LEMMA KeptOrCutStep ==
    ASSUME Shape, RoomLeft, CountExact, KeptOrCut, [Next]_vars
    PROVE  KeptOrCut'
<1> USE DEF KeptOrCut
<1>1. ASSUME UNCHANGED <<listeners, cut, made, ownerOf>>, disposed \subseteq disposed',
             disposed' \subseteq Handles,
             \A g \in Goroutines : pc'[g] \in {"stop", "forget"} => disposed' = Handles
      PROVE  KeptOrCut'
  BY <1>1 DEF Registered, Made
<1>2. CASE UNCHANGED vars
  BY <1>1, <1>2 DEF vars, subVars, coreVars, callVars, Shape, CallTypes
<1>3. ASSUME NEW s \in Sources, Receive(s) \/ FanOutStep(s) PROVE KeptOrCut'
  BY <1>1, <1>3 DEF Receive, FanOutStep, CopyListeners, CallListener, ListenerReturns,
     ListenerPanics, FanOutEnds, SourceExits, subVars, coreVars, callVars, Shape, CallTypes
<1>4. ASSUME NEW g \in Goroutines, NEW s \in returned, Unsub(s),
             UNCHANGED <<made, ownerOf, disposed, pc>>
      PROVE  KeptOrCut'
  <2>1. Registered' \intersect cut' = {}
    BY <1>4, UnsubShape
  <2>2. \A l \in Made' : l \notin cut' /\ ownerOf'[l] \notin disposed' => l \in Registered'
    BY <1>4, UnsubShape DEF Made
  <2>3. QED
    BY <1>4, <2>1, <2>2
<1>5. ASSUME NEW g \in Goroutines, Call(g) PROVE KeptOrCut'
  <2>1. ASSUME NEW h \in Handles, OnUpdate(g, h) \/ Close(g, h) PROVE KeptOrCut'
    <3>1. UNCHANGED <<listeners, cut, made, ownerOf>> /\ disposed \subseteq disposed'
          /\ disposed' \subseteq Handles
      BY <2>1 DEF OnUpdate, Close, subVars, Shape, CallTypes
    <3>2. \A o \in Goroutines : pc'[o] \in {"stop", "forget"} => pc[o] = pc'[o]
      BY <2>1 DEF OnUpdate, Close, Goto, Shape, CallTypes
    <3>3. QED
      BY <1>1, <3>1, <3>2
  <2>2. ASSUME NEW s \in Subs, Unsubscribe(g, s) PROVE KeptOrCut'
    BY <1>4, <2>2 DEF Unsubscribe, callVars
  <2>3. QED
    BY <1>5, <2>1, <2>2 DEF Call
<1>6. ASSUME NEW g \in Goroutines, AddUpdateListener(g) PROVE KeptOrCut'
  <2>1. /\ UNCHANGED <<cut, disposed>> /\ made' = made + 1
        /\ ownerOf' = [ownerOf EXCEPT ![made'] = handle[g]]
        /\ \A o \in Goroutines : pc'[o] \in {"stop", "forget"} => pc[o] = pc'[o]
    BY <1>6 DEF AddUpdateListener, Goto, Shape, CallTypes
  <2>2. Registered' = Registered \union {made'} /\ Made' = Made \union {made'}
        /\ made' \notin Made /\ made' \in Subs
    BY <1>6, RegisterShape
  <2>3. Registered' \intersect cut' = {}
    BY <2>1, <2>2 DEF Shape, SubTypes
  <2>4. \A s \in Made : ownerOf'[s] = ownerOf[s]
    BY <2>1, <2>2 DEF Shape, SubTypes
  <2>5. QED
    BY <2>1, <2>2, <2>3, <2>4
<1>7. ASSUME NEW g \in Goroutines, RecordUnsub(g) \/ TakeUnsubs(g) PROVE KeptOrCut'
  <2>1. UNCHANGED <<listeners, cut, made, ownerOf, disposed>>
        /\ \A o \in Goroutines : pc'[o] \in {"stop", "forget"} => pc[o] = pc'[o]
    BY <1>7 DEF RecordUnsub, TakeUnsubs, Goto, Shape, CallTypes
  <2>2. QED
    BY <1>1, <2>1 DEF Shape, CallTypes
<1>8. ASSUME NEW g \in Goroutines, DropSub(g) PROVE KeptOrCut'
  BY <1>4, <1>8 DEF DropSub, Shape, CallTypes
<1>9. ASSUME NEW g \in Goroutines, Release(g) PROVE KeptOrCut'
  <2>1. UNCHANGED <<listeners, cut, made, ownerOf, disposed>>
    BY <1>9 DEF Release, subVars
  <2>2. \A o \in Goroutines : pc'[o] \in {"stop", "forget"} => pc[o] = pc'[o] \/ refCount = 1
    BY <1>9 DEF Release, Goto, Shape, CallTypes
  <2>3. refCount = 1 => disposed = Handles
    BY <1>9, ThereIsAReference DEF Release
  <2>4. QED
    BY <1>1, <2>1, <2>2, <2>3 DEF Shape, CallTypes
<1>10. ASSUME NEW g \in Goroutines, StopSources(g) PROVE KeptOrCut'
  <2>1. UNCHANGED <<listeners, cut, made, ownerOf, disposed>>
        /\ disposed = Handles
    BY <1>10 DEF StopSources, subVars
  <2>2. QED
    BY <1>1, <2>1
<1>11. ASSUME NEW g \in Goroutines, ForgetListeners(g) PROVE KeptOrCut'
  <2>1. UNCHANGED <<cut, made, ownerOf, disposed>> /\ disposed = Handles
    BY <1>11 DEF ForgetListeners, subVars
  <2>2. Registered' = {}
    BY <1>11 DEF ForgetListeners, Registered, Range
  <2>3. \A s \in Made : ownerOf[s] \in Handles
    BY DEF Shape, Numbered
  <2>4. QED
    BY <2>1, <2>2, <2>3 DEF Made
<1>12. QED
  BY <1>2, <1>3, <1>5, <1>6, <1>7, <1>8, <1>9, <1>10, <1>11 DEF Next, CallStep

LEMMA OnItsWayStep ==
    ASSUME Shape, RoomLeft, OnItsWay, [Next]_vars
    PROVE  OnItsWay'
<1>1. ASSUME Registered' \subseteq Registered, UNCHANGED since, UNCHANGED fanVars PROVE OnItsWay'
  BY <1>1 DEF OnItsWay, fanVars
<1>2. CASE UNCHANGED vars
  BY <1>1, <1>2 DEF vars, subVars, Registered
<1>3. ASSUME NEW g \in Goroutines, Call(g) PROVE OnItsWay'
  <2>1. ASSUME NEW h \in Handles, OnUpdate(g, h) \/ Close(g, h) PROVE OnItsWay'
    BY <1>1, <2>1 DEF OnUpdate, Close, subVars, Registered
  <2>2. ASSUME NEW s \in Subs, Unsubscribe(g, s) PROVE OnItsWay'
    BY <1>1, <2>2, UnsubShape DEF Unsubscribe
  <2>3. QED
    BY <1>3, <2>1, <2>2 DEF Call
<1>4. ASSUME NEW g \in Goroutines, AddUpdateListener(g) PROVE OnItsWay'
  <2>1. /\ since' = [since EXCEPT ![made'] = version] /\ UNCHANGED fanVars
        /\ Registered' = Registered \union {made'} /\ made' \in Subs /\ made' \notin Made
    BY <1>4, RegisterShape DEF AddUpdateListener
  <2>2. \A l \in Registered : l \in Made
    BY DEF Shape, Numbered, SubTypes, Registered, Range, Made
  <2>3. \A l \in Registered : since'[l] = since[l]
    BY <2>1, <2>2 DEF Shape, FanTypes
  <2>4. since'[made'] = version /\ version' = version /\ version \in Nat
    BY <2>1 DEF Shape, FanTypes, fanVars
  <2>5. since'[made'] + 1 .. version' = {}
    BY <2>4
  <2>6. QED
    BY <2>1, <2>3, <2>4, <2>5 DEF OnItsWay, fanVars
<1>5. ASSUME NEW g \in Goroutines, DropSub(g) PROVE OnItsWay'
  BY <1>1, <1>5, UnsubShape DEF DropSub, Shape, CallTypes
<1>6. ASSUME NEW g \in Goroutines, ForgetListeners(g) PROVE OnItsWay'
  BY <1>1, <1>6 DEF ForgetListeners, Registered, Range, subVars
<1>7. ASSUME NEW g \in Goroutines,
             RecordUnsub(g) \/ TakeUnsubs(g) \/ Release(g) \/ StopSources(g)
      PROVE  OnItsWay'
  BY <1>1, <1>7 DEF RecordUnsub, TakeUnsubs, Release, StopSources, subVars, Registered
<1> SUFFICES ASSUME NEW s \in Sources, Receive(s) \/ FanOutStep(s),
                    NEW l \in Registered', NEW v \in since'[l] + 1 .. version'
             PROVE  \/ v \in seen'[l]
                    \/ \E u \in Sources :
                          /\ update'[u] = v
                          /\ stage'[u] = "copy" \/ (stage'[u] = "call" /\ l \in todo'[u])
  BY <1>2, <1>3, <1>4, <1>5, <1>6, <1>7 DEF Next, CallStep, OnItsWay
<1> USE DEF Shape, FanTypes, Stage
<1>8. l \in Registered /\ since' = since /\ l \in Subs /\ since[l] \in Nat /\ version \in Nat
  BY SubscriptionsAssumption DEF Receive, FanOutStep, CopyListeners, CallListener,
     ListenerReturns, ListenerPanics, FanOutEnds, SourceExits, subVars, Registered, Range,
     Numbered, SubTypes, Subs
<1>9. CASE Receive(s)
  <2>1. CASE v = version'
    BY <1>9, <2>1 DEF Receive
  <2>2. CASE v # version'
    <3>1. v \in since[l] + 1 .. version
      BY <1>8, <1>9, <2>2 DEF Receive
    <3>2. CASE v \in seen[l]
      BY <1>9, <3>2 DEF Receive
    <3>3. CASE \E u \in Sources :
                  /\ update[u] = v
                  /\ stage[u] = "copy" \/ (stage[u] = "call" /\ l \in todo[u])
      <4>1. PICK u \in Sources :
                    /\ update[u] = v
                    /\ stage[u] = "copy" \/ (stage[u] = "call" /\ l \in todo[u])
        BY <3>3
      <4>2. u # s
        BY <1>9, <4>1 DEF Receive
      <4>3. QED
        BY <1>9, <4>1, <4>2 DEF Receive
    <3>4. QED
      BY <1>8, <3>1, <3>2, <3>3 DEF OnItsWay
  <2>3. QED
    BY <2>1, <2>2
<1>10. CASE FanOutStep(s)
  <2>1. version' = version /\ update' = update
    BY <1>10 DEF FanOutStep, CopyListeners, CallListener, ListenerReturns, ListenerPanics,
       FanOutEnds, SourceExits
  <2>2. CASE v \in seen[l]
    BY <1>8, <1>10, <2>2 DEF FanOutStep, CopyListeners, CallListener, ListenerReturns,
       ListenerPanics, FanOutEnds, SourceExits
  <2>3. CASE \E u \in Sources :
                /\ update[u] = v
                /\ stage[u] = "copy" \/ (stage[u] = "call" /\ l \in todo[u])
    <3>1. PICK u \in Sources :
                  /\ update[u] = v
                  /\ stage[u] = "copy" \/ (stage[u] = "call" /\ l \in todo[u])
      BY <2>3
    <3>2. CASE u # s
      BY <1>10, <2>1, <3>1, <3>2 DEF FanOutStep, CopyListeners, CallListener, ListenerReturns,
         ListenerPanics, FanOutEnds, SourceExits
    <3>3. CASE u = s
      <4>1. CASE CopyListeners(s)
        BY <1>8, <2>1, <3>1, <3>3, <4>1 DEF CopyListeners
      <4>2. CASE CallListener(s)
        <5>1. PICK c \in todo[s] : /\ todo' = [todo EXCEPT ![s] = @ \ {c}]
                                   /\ seen' = [seen EXCEPT ![c] = @ \union {update[s]}]
          BY <4>2 DEF CallListener
        <5>2. CASE c = l
          BY <1>8, <3>1, <3>3, <5>1, <5>2
        <5>3. CASE c # l
          BY <2>1, <3>1, <3>3, <4>2, <5>1, <5>3 DEF CallListener
        <5>4. QED
          BY <5>2, <5>3
      <4>3. CASE ListenerReturns(s) \/ ListenerPanics(s)
        BY <2>1, <3>1, <3>3, <4>3 DEF ListenerReturns, ListenerPanics
      <4>4. CASE FanOutEnds(s) \/ SourceExits(s)
        BY <3>1, <3>3, <4>4 DEF FanOutEnds, SourceExits
      <4>5. QED
        BY <1>10, <4>1, <4>2, <4>3, <4>4 DEF FanOutStep
    <3>4. QED
      BY <3>2, <3>3
  <2>4. QED
    BY <1>8, <2>1, <2>2, <2>3 DEF OnItsWay
<1>11. QED
  BY <1>9, <1>10

LEMMA RegisteredAreMade ==
    ASSUME Shape PROVE \A s \in Registered : s \in Made /\ s \in Subs /\ ownerOf[s] \in Handles
BY SubscriptionsAssumption DEF Shape, Numbered, SubTypes, Registered, Range, Made, Subs

LEMMA RememberedCall ==
    ASSUME Shape, KeptOrCut, Remembered, NEW g \in Goroutines, Call(g)
    PROVE  Remembered'
<1> USE DEF Remembered
<1>1. ASSUME NEW h \in Handles, OnUpdate(g, h) PROVE Remembered'
  <2>1. /\ UNCHANGED <<listeners, disposed, subVars, sub, drop, overlapped>> /\ h \notin disposed
        /\ pc[g] = "idle" /\ pc' = [pc EXCEPT ![g] = "register"]
        /\ handle' = [handle EXCEPT ![g] = h]
    BY <1>1 DEF OnUpdate, MayCall, Goto
  <2>2. LateOnesOverlap'
    BY <2>1 DEF LateOnesOverlap, Shape, CallTypes
  <2>3. ASSUME NEW s \in Registered PROVE OnAList(s)'
    <3>1. Listed(s) => Listed(s)'
      BY <2>1 DEF Listed, subVars, Shape, CallTypes
    <3>2. Dropping(s) => Dropping(s)'
      BY <2>1 DEF Dropping, subVars, Shape, CallTypes
    <3>3. QED
      BY <2>1, <3>1, <3>2 DEF OnAList, subVars
  <2>4. Registered' = Registered
    BY <2>1 DEF Registered
  <2>5. QED
    BY <2>2, <2>3, <2>4
<1>2. ASSUME NEW h \in Handles, Close(g, h) PROVE Remembered'
  <2>1. /\ UNCHANGED <<listeners, subVars, sub, drop>> /\ disposed' = disposed \union {h}
        /\ h \notin disposed
        /\ pc[g] = "idle" /\ pc' = [pc EXCEPT ![g] = "take"]
        /\ handle' = [handle EXCEPT ![g] = h]
    BY <1>2 DEF Close, MayCall, Goto
  <2>2. /\ overlapped \subseteq overlapped'
        /\ \A o \in Goroutines :
              pc[o] \in {"register", "record"} /\ handle[o] = h => h \in overlapped'
    BY <1>2 DEF Close
  <2>3. LateOnesOverlap'
    BY <2>1, <2>2 DEF LateOnesOverlap, Shape, CallTypes
  <2>4. ASSUME NEW s \in Registered PROVE OnAList(s)'
    <3>1. ownerOf' = ownerOf /\ unsubs' = unsubs
      BY <2>1 DEF subVars
    <3>2. Listed(s) => Listed(s)'
      BY <2>1, <3>1 DEF Listed, Shape, CallTypes
    <3>3. Dropping(s) => Dropping(s)'
      BY <2>1, <3>1 DEF Dropping, Shape, CallTypes
    <3>4. ASSUME ownerOf[s] = h, h \notin overlapped' PROVE Dropping(s)'
      <4>1. Listed(s)
        BY <2>1, <3>4 DEF OnAList
      <4>2. ASSUME NEW o \in Goroutines, pc[o] = "record", sub[o] = s PROVE FALSE
        BY <2>2, <3>4, <4>2 DEF Shape, Located
      <4>3. s \in unsubs[h]
        BY <3>4, <4>1, <4>2 DEF Listed
      <4>4. QED
        BY <2>1, <3>1, <3>4, <4>3 DEF Dropping, Shape, CallTypes
    <3>5. QED
      BY <2>1, <2>2, <3>1, <3>2, <3>3, <3>4 DEF OnAList
  <2>5. Registered' = Registered
    BY <2>1 DEF Registered
  <2>6. QED
    BY <2>3, <2>4, <2>5
<1>3. ASSUME NEW s \in Subs, Unsubscribe(g, s) PROVE Remembered'
  <2>1. /\ UNCHANGED <<disposed, unsubs, ownerOf, pc, handle, sub, drop, overlapped>>
        /\ Registered' \subseteq Registered
    BY <1>3, UnsubShape DEF Unsubscribe, callVars
  <2>2. LateOnesOverlap' /\ \A l \in Registered : OnAList(l)'
    BY <2>1 DEF LateOnesOverlap, OnAList, Listed, Dropping
  <2>3. QED
    BY <2>1, <2>2
<1>4. QED
  BY <1>1, <1>2, <1>3 DEF Call

LEMMA RememberedCallStep ==
    ASSUME Shape, RoomLeft, KeptOrCut, Remembered, NEW g \in Goroutines, CallStep(g)
    PROVE  Remembered'
<1> USE DEF Remembered
<1>1. CASE AddUpdateListener(g)
  <2>1. /\ UNCHANGED <<disposed, unsubs, handle, drop, overlapped>>
        /\ pc[g] = "register" /\ pc' = [pc EXCEPT ![g] = "record"]
        /\ sub' = [sub EXCEPT ![g] = made']
        /\ ownerOf' = [ownerOf EXCEPT ![made'] = handle[g]]
    BY <1>1 DEF AddUpdateListener, Goto
  <2>2. made' \in Subs /\ made' \notin Made /\ Registered' = Registered \union {made'}
    BY <1>1, RegisterShape
  <2>3. LateOnesOverlap'
    BY <2>1 DEF LateOnesOverlap, Shape, CallTypes
  <2>4. ASSUME NEW s \in Registered PROVE OnAList(s)'
    <3>1. ownerOf'[s] = ownerOf[s]
      BY <2>1, <2>2, RegisteredAreMade DEF Shape, SubTypes
    <3>2. Listed(s) => Listed(s)'
      BY <2>1, <3>1 DEF Listed, Shape, CallTypes
    <3>3. Dropping(s) => Dropping(s)'
      BY <2>1, <3>1 DEF Dropping, Shape, CallTypes
    <3>4. QED
      BY <2>1, <3>1, <3>2, <3>3 DEF OnAList
  <2>5. PICK m \in Subs : m = made'
    BY <2>2
  <2>6. OnAList(m)'
    <3>1. ownerOf'[m] = handle[g]
      BY <2>1, <2>5 DEF Shape, SubTypes
    <3>2. handle[g] \in disposed => handle[g] \in overlapped
      BY <2>1 DEF LateOnesOverlap
    <3>3. pc'[g] = "record" /\ sub'[g] = m
      BY <2>1, <2>5 DEF Shape, CallTypes
    <3>4. QED
      BY <2>1, <3>1, <3>2, <3>3 DEF OnAList, Listed
  <2>7. QED
    BY <2>2, <2>3, <2>4, <2>5, <2>6
<1>2. CASE RecordUnsub(g)
  <2>1. /\ UNCHANGED <<listeners, disposed, ownerOf, handle, sub, drop, overlapped>>
        /\ pc[g] = "record" /\ pc' = [pc EXCEPT ![g] = "idle"]
        /\ unsubs' = [unsubs EXCEPT ![handle[g]] = @ \union {sub[g]}]
        /\ handle[g] \in Handles /\ ownerOf[sub[g]] = handle[g]
    BY <1>2 DEF RecordUnsub, Goto, Shape, Located
  <2>2. LateOnesOverlap'
    BY <2>1 DEF LateOnesOverlap, Shape, CallTypes
  <2>3. ASSUME NEW s \in Registered PROVE OnAList(s)'
    <3>1. \A h \in Handles : unsubs[h] \subseteq unsubs'[h]
      BY <2>1 DEF Shape, SubTypes
    <3>2. Listed(s) => Listed(s)'
      <4>1. s \in unsubs[ownerOf[s]] => Listed(s)'
        BY <2>1, <3>1, RegisteredAreMade DEF Listed
      <4>2. ASSUME NEW o \in Goroutines, pc[o] = "record", sub[o] = s PROVE Listed(s)'
        <5>1. CASE o = g
          BY <2>1, <4>2, <5>1 DEF Listed, Shape, SubTypes
        <5>2. CASE o # g
          BY <2>1, <4>2, <5>2 DEF Listed, Shape, CallTypes
        <5>3. QED
          BY <5>1, <5>2
      <4>3. QED
        BY <4>1, <4>2 DEF Listed
    <3>3. Dropping(s) => Dropping(s)'
      BY <2>1, <3>1, RegisteredAreMade DEF Dropping, Shape, CallTypes
    <3>4. QED
      BY <2>1, <3>2, <3>3 DEF OnAList
  <2>4. Registered' = Registered
    BY <2>1 DEF Registered
  <2>5. QED
    BY <2>2, <2>3, <2>4
<1>3. CASE TakeUnsubs(g)
  <2>1. /\ UNCHANGED <<listeners, disposed, ownerOf, handle, sub, overlapped>>
        /\ pc[g] = "take" /\ pc' = [pc EXCEPT ![g] = "drop"]
        /\ drop' = [drop EXCEPT ![g] = unsubs[handle[g]]]
        /\ unsubs' = [unsubs EXCEPT ![handle[g]] = {}]
        /\ handle[g] \in Handles /\ handle[g] \in disposed
    BY <1>3 DEF TakeUnsubs, Goto, Shape, Located
  <2>2. LateOnesOverlap'
    BY <2>1 DEF LateOnesOverlap, Shape, CallTypes
  <2>3. ASSUME NEW s \in Registered PROVE OnAList(s)'
    <3>1. CASE ownerOf[s] = handle[g]
      <4>1. s \in unsubs[handle[g]] => Dropping(s)'
        BY <2>1 DEF Dropping, Shape, CallTypes
      <4>2. ASSUME NEW o \in Goroutines, pc[o] = "drop", s \in drop[o] PROVE Dropping(s)'
        BY <2>1, <4>2 DEF Dropping, Shape, CallTypes
      <4>3. Dropping(s) => Dropping(s)'
        BY <3>1, <4>1, <4>2 DEF Dropping
      <4>4. QED
        BY <2>1, <3>1, <4>3 DEF OnAList
    <3>2. CASE ownerOf[s] # handle[g]
      <4>1. unsubs'[ownerOf[s]] = unsubs[ownerOf[s]]
        BY <2>1, <3>2, RegisteredAreMade DEF Shape, SubTypes
      <4>2. Listed(s) => Listed(s)'
        BY <2>1, <4>1 DEF Listed, Shape, CallTypes
      <4>3. Dropping(s) => Dropping(s)'
        BY <2>1, <3>2, <4>1 DEF Dropping, Shape, CallTypes
      <4>4. QED
        BY <2>1, <4>2, <4>3 DEF OnAList
    <3>3. QED
      BY <3>1, <3>2
  <2>4. Registered' = Registered
    BY <2>1 DEF Registered
  <2>5. QED
    BY <2>2, <2>3, <2>4
<1>4. CASE DropSub(g)
  <2>1. PICK d \in drop[g] : Unsub(d) /\ drop' = [drop EXCEPT ![g] = @ \ {d}]
    BY <1>4 DEF DropSub
  <2>2. UNCHANGED <<disposed, unsubs, ownerOf, pc, handle, sub, overlapped>>
    BY <1>4 DEF DropSub
  <2>3. d \in returned
    BY DEF Shape, CallTypes
  <2>4. Registered' \subseteq Registered /\ d \notin Registered'
    BY <2>1, <2>3, UnsubShape DEF KeptOrCut
  <2>5. LateOnesOverlap'
    BY <2>2 DEF LateOnesOverlap
  <2>6. ASSUME NEW s \in Registered' PROVE OnAList(s)'
    <3>1. s # d /\ OnAList(s)
      BY <2>4
    <3>2. Dropping(s) => Dropping(s)'
      BY <2>1, <2>2, <3>1 DEF Dropping, Shape, CallTypes
    <3>3. QED
      BY <2>2, <3>1, <3>2 DEF OnAList, Listed
  <2>7. QED
    BY <2>5, <2>6
<1>5. CASE Release(g)
  <2>1. /\ UNCHANGED <<listeners, disposed, unsubs, ownerOf, handle, sub, drop, overlapped>>
        /\ pc[g] = "drop" /\ drop[g] = {}
        /\ \A o \in Goroutines : pc'[o] # pc[o] => o = g /\ pc'[o] \in {"stop", "idle"}
    BY <1>5 DEF Release, Goto, subVars, Shape, CallTypes
  <2>2. LateOnesOverlap'
    BY <2>1 DEF LateOnesOverlap
  <2>3. ASSUME NEW s \in Registered PROVE OnAList(s)'
    <3>1. Listed(s) => Listed(s)'
      BY <2>1 DEF Listed
    <3>2. Dropping(s) => Dropping(s)'
      BY <2>1 DEF Dropping
    <3>3. QED
      BY <2>1, <3>1, <3>2 DEF OnAList
  <2>4. Registered' = Registered
    BY <2>1 DEF Registered
  <2>5. QED
    BY <2>2, <2>3, <2>4
<1>6. CASE StopSources(g)
  <2>1. /\ UNCHANGED <<listeners, disposed, unsubs, ownerOf, handle, sub, drop, overlapped>>
        /\ pc[g] = "stop"
        /\ \A o \in Goroutines : pc'[o] # pc[o] => o = g /\ pc'[o] = "forget"
    BY <1>6 DEF StopSources, Goto, subVars, Shape, CallTypes
  <2>2. LateOnesOverlap'
    BY <2>1 DEF LateOnesOverlap
  <2>3. ASSUME NEW s \in Registered PROVE OnAList(s)'
    <3>1. Listed(s) => Listed(s)'
      BY <2>1 DEF Listed
    <3>2. Dropping(s) => Dropping(s)'
      BY <2>1 DEF Dropping
    <3>3. QED
      BY <2>1, <3>1, <3>2 DEF OnAList
  <2>4. Registered' = Registered
    BY <2>1 DEF Registered
  <2>5. QED
    BY <2>2, <2>3, <2>4
<1>7. CASE ForgetListeners(g)
  <2>1. Registered' = {}
    BY <1>7 DEF ForgetListeners, Registered, Range
  <2>2. LateOnesOverlap'
    BY <1>7 DEF ForgetListeners, Goto, LateOnesOverlap, Shape, CallTypes
  <2>3. QED
    BY <2>1, <2>2
<1>8. QED
  BY <1>1, <1>2, <1>3, <1>4, <1>5, <1>6, <1>7 DEF CallStep

LEMMA RememberedStep ==
    ASSUME Shape, RoomLeft, KeptOrCut, Remembered, [Next]_vars
    PROVE  Remembered'
<1>1. ASSUME UNCHANGED <<listeners, disposed, subVars, callVars, overlapped>> PROVE Remembered'
  BY <1>1 DEF Remembered, LateOnesOverlap, OnAList, Listed, Dropping, Registered, subVars,
     callVars
<1>2. ASSUME NEW s \in Sources, Receive(s) \/ FanOutStep(s) PROVE Remembered'
  BY <1>1, <1>2 DEF Receive, FanOutStep, CopyListeners, CallListener, ListenerReturns,
     ListenerPanics, FanOutEnds, SourceExits
<1>3. CASE UNCHANGED vars
  BY <1>1, <1>3 DEF vars
<1>4. QED
  BY <1>2, <1>3, RememberedCall, RememberedCallStep DEF Next

IInv == Shape /\ RoomLeft /\ CountExact /\ KeptOrCut /\ Remembered /\ OnItsWay

LEMMA SubscriptionsInvariant == Spec => []IInv
<1>1. Init => IInv
  BY InitShape, InitSafe DEF IInv
<1>2. IInv /\ [Next]_vars => IInv'
  BY ShapeStep, CountsStep, KeptOrCutStep, RememberedStep, OnItsWayStep DEF IInv
<1>3. QED
  BY <1>1, <1>2, PTL DEF Spec

-----------------------------------------------------------------------------
(* The safety properties.                                                  *)

\* No other subscription's unsubscribe, sibling's Close or early shutdown
\* removes a subscription of an open client.
THEOREM OpenSubscriptionsStay == Spec => []OpenSubscriptionStays
<1>1. IInv => OpenSubscriptionStays
  BY DEF IInv, KeptOrCut, OpenSubscriptionStays, Shape, SubTypes
<1>2. QED
  BY <1>1, SubscriptionsInvariant, PTL

\* A Close that no OnUpdate ran into leaves no listener of its client.
THEOREM ClosedOnesAreDropped == Spec => []CloseDropsSubscriptions
<1>1. IInv => CloseDropsSubscriptions
  BY DEF IInv, Remembered, OnAList, Dropping, CloseDropsSubscriptions, NoCloseRunning
<1>2. QED
  BY <1>1, SubscriptionsInvariant, PTL

\* Panics, reentrant calls and concurrent closes never keep a change from a
\* listener that stays registered.
THEOREM ChangesAreDelivered == Spec => []ChangesReachListeners
<1>1. IInv => ChangesReachListeners
  BY DEF IInv, OnItsWay, ChangesReachListeners
<1>2. QED
  BY <1>1, SubscriptionsInvariant, PTL

\* A subscription is ended by its own unsubscribe or its own client, only and
\* always.
THEOREM SubscriptionsAreOwned == Spec => []SubscriptionsFollowOwners
<1>1. OpenSubscriptionStays /\ CloseDropsSubscriptions => SubscriptionsFollowOwners
  BY DEF SubscriptionsFollowOwners
<1>2. QED
  BY <1>1, OpenSubscriptionsStay, ClosedOnesAreDropped, PTL

=============================================================================
