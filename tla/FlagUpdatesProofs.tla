-------------------------- MODULE FlagUpdatesProofs --------------------------
(***************************************************************************)
(* Proofs about local evaluation and the reports of the store's writes:    *)
(* the memo of evaluation.go changes no result, and a flag that updates.go *)
(* does not report has the result it had.                                  *)
(***************************************************************************)
EXTENDS FlagUpdates, FiniteSetTheorems, TLAPS

-----------------------------------------------------------------------------
(* Induction, over sets of numbers, and what is defined by recursion.      *)

\* A non-empty set of numbers has a least one.
LEMMA LeastNumber ==
    ASSUME NEW T \in SUBSET Nat, T # {}
    PROVE  \E n \in T : \A m \in T : n <= m
<1>1. PICK n \in T : \A m \in T : ~(<<m, n>> \in OpToRel(<, Nat))
  BY NatLessThanWellFounded, WFMin
<1>2. \A m \in T : ~(m < n)
  BY <1>1 DEF OpToRel
<1>3. QED
  BY <1>2

\* What holds at 0, and one further up to N, holds up to N.
LEMMA Upwards ==
    ASSUME NEW N \in Nat, NEW T, 0 \in T,
           \A n \in Nat : n < N /\ n \in T => n + 1 \in T
    PROVE  0 .. N \subseteq T
<1> DEFINE missing == {n \in 0 .. N : n \notin T}
<1>1. SUFFICES ASSUME missing # {} PROVE FALSE
  OBVIOUS
<1>2. PICK n \in missing : \A m \in missing : n <= m
  <2>1. missing \in SUBSET Nat
    OBVIOUS
  <2> HIDE DEF missing
  <2>2. QED
    BY <1>1, <2>1, LeastNumber
<1>3. n # 0 /\ n \in 0 .. N /\ n \notin T
  OBVIOUS
<1>4. n - 1 \in Nat /\ n - 1 < N /\ n - 1 \in 0 .. N /\ ~(n <= n - 1)
  BY <1>3
<1>5. n - 1 \in T
  BY <1>2, <1>4
<1>6. QED
  BY <1>3, <1>4, <1>5

\* A function on 0 .. N, by what it is at 0 and how it goes on.
Unfolds(g, N, S, start, next) ==
    /\ g \in [0 .. N -> S] /\ g[0] = start
    /\ \A n \in Nat : n < N => g[n + 1] = next[<<n, g[n]>>]

\* There is such a function, however it goes on.
LEMMA RecursionExists ==
    ASSUME NEW N \in Nat, NEW S, NEW start \in S, NEW next \in [(0 .. N) \X S -> S]
    PROVE  \E g : Unfolds(g, N, S, start, next)
<1> DEFINE Begins(g, n) ==
             /\ g \in [0 .. n -> S] /\ g[0] = start
             /\ \A i \in Nat : i < n => g[i + 1] = next[<<i, g[i]>>]
           T == {n \in 0 .. N : \E g \in [0 .. n -> S] : Begins(g, n)}
<1>1. 0 \in T
  <2>1. Begins([i \in 0 .. 0 |-> start], 0)
    OBVIOUS
  <2>2. QED
    BY <2>1
<1>2. ASSUME NEW n \in Nat, n < N, n \in T PROVE n + 1 \in T
  <2>1. PICK g \in [0 .. n -> S] : Begins(g, n)
    BY <1>2
  <2> DEFINE h == [i \in 0 .. n + 1 |-> IF i = n + 1 THEN next[<<n, g[n]>>] ELSE g[i]]
  <2>2. next[<<n, g[n]>>] \in S
    BY <1>2, <2>1
  <2>3. h \in [0 .. n + 1 -> S] /\ h[0] = start
    BY <2>1, <2>2
  <2>4. ASSUME NEW i \in Nat, i < n + 1 PROVE h[i + 1] = next[<<i, h[i]>>]
    <3>1. CASE i = n
      <4>1. n + 1 \in 0 .. n + 1 /\ n \in 0 .. n + 1 /\ n # n + 1
        OBVIOUS
      <4>2. h[n + 1] = next[<<n, g[n]>>] /\ h[n] = g[n]
        BY <4>1
      <4>3. QED
        BY <3>1, <4>2
    <3>2. CASE i < n
      <4>1. i + 1 \in 0 .. n /\ i \in 0 .. n
        BY <3>2
      <4>2. h[i + 1] = g[i + 1] /\ h[i] = g[i]
        BY <4>1
      <4>3. QED
        BY <2>1, <3>2, <4>2
    <3>3. QED
      BY <2>4, <3>1, <3>2
  <2> HIDE DEF h
  <2>5. Begins(h, n + 1)
    BY <2>3, <2>4
  <2>6. QED
    BY <1>2, <2>3, <2>5
<1> HIDE DEF T
<1>3. 0 .. N \subseteq T
  BY <1>1, <1>2, Upwards
<1>4. N \in T
  BY <1>3
<1>5. QED
  BY <1>4 DEF T, Unfolds

-----------------------------------------------------------------------------
(* What evaluation is made of.                                             *)

Configurations == [Flags -> FlagType \union {None}]

Evaluated == [result : Details, memo : Memos]
Checked == [verdict : Details \union {None}, memo : Memos]

LEMMA ServeType ==
    ASSUME NEW v \in VariationKeys, NEW reason \in Reasons, NEW blame \in Flags \union {None}
    PROVE  Serve(v, reason, blame) \in Details
BY DEF Serve, Detail, Details, Reasons

LEMMA ServeOffType ==
    ASSUME NEW def \in FlagType, NEW reason \in Reasons, NEW blame \in Flags \union {None}
    PROVE  ServeOff(def, reason, blame) \in Details
BY ServeType DEF ServeOff, FlagType

LEMMA ServeOffError ==
    ASSUME NEW def PROVE ServeOff(def, "Error", None).reason = "Error"
BY DEF ServeOff, Serve, Detail

\* Of finitely many rules one is the first.
LEMMA FirstRule ==
    ASSUME NEW R, IsFiniteSet(R), \A r \in R : r.priority \in Int, R # {}
    PROVE  \E r \in R : \A q \in R : r.priority <= q.priority
<1> DEFINE Firstless == {T \in SUBSET R : T # {} /\ ~\E r \in T : \A q \in T : r.priority <= q.priority}
<1>1. SUFFICES ASSUME R \in Firstless PROVE FALSE
  OBVIOUS
<1>2. Firstless \subseteq FiniteSubsetsOf(R)
  BY FS_Subset DEF FiniteSubsetsOf
<1>3. PICK T \in Firstless : \A U \in Firstless : ~(<<U, T>> \in StrictSubsetOrdering(R))
  <2> HIDE DEF Firstless
  <2>1. QED
    BY <1>1, <1>2, FS_StrictSubsetOrderingWellFounded, WFMin
<1>4. PICK x \in T : TRUE
  OBVIOUS
<1>5. T \ {x} \notin Firstless
  BY <1>3, <1>4 DEF StrictSubsetOrdering
<1>6. T # {x}
  BY <1>4
<1>7. PICK r \in T \ {x} : \A q \in T \ {x} : r.priority <= q.priority
  BY <1>4, <1>5, <1>6
<1>8. r.priority \in Int /\ x.priority \in Int /\ \A q \in T : q.priority \in Int
  BY <1>4, <1>7
<1>9. CASE r.priority <= x.priority
  BY <1>3, <1>7, <1>9
<1>10. CASE ~(r.priority <= x.priority)
  <2>1. \A q \in T : x.priority <= q.priority
    BY <1>7, <1>8, <1>10
  <2>2. QED
    BY <1>3, <1>4, <2>1
<1>11. QED
  BY <1>9, <1>10

LEMMA OwnResultType ==
    ASSUME NEW def \in FlagType, NEW segs
    PROVE  OwnResult(def, segs) \in Details
<1> DEFINE R == ServingRules(def, segs)
           first == CHOOSE r \in R : \A q \in R : r.priority <= q.priority
           fall == IF def.fall = NoBucket THEN def.default ELSE def.fall
<1>1. def.rules \in RulesType /\ fall \in VariationKeys
  BY DEF FlagType
<1>2. R \subseteq def.rules /\ IsFiniteSet(R) /\ R \subseteq Rule
  <2>1. R \subseteq def.rules
    BY DEF ServingRules
  <2>2. IsFiniteSet(def.rules) /\ def.rules \subseteq Rule
    BY <1>1 DEF RulesType
  <2>3. QED
    BY <2>1, <2>2, FS_Subset
<1>3. CASE R = {}
  <2>1. OwnResult(def, segs) = Serve(fall, "Fallthrough", None)
    BY <1>3 DEF OwnResult
  <2> HIDE DEF fall
  <2>2. QED
    BY <1>1, <2>1, ServeType DEF Reasons
<1>4. CASE R # {}
  <2>1. \A r \in R : r.priority \in Int
    BY <1>2 DEF Rule
  <2>2. first \in R
    <3> HIDE DEF R
    <3>1. QED
      BY <1>2, <1>4, <2>1, FirstRule
  <2>3. first.serve \in VariationKeys
    BY <1>2, <2>2 DEF Rule, ServingRules
  <2>4. OwnResult(def, segs) = Serve(first.serve, "RuleMatch", None)
    BY <1>4 DEF OwnResult
  <2> HIDE DEF first
  <2>5. QED
    BY <2>3, <2>4, ServeType DEF Reasons
<1>5. QED
  BY <1>3, <1>4

LEMMA NoneIsNoDetail == None \notin Details /\ None \notin FlagType /\ None \notin Flags
BY EvaluationAssumption

LEMMA NoMemoType == NoMemo \in Memos
BY DEF NoMemo, Memos

LEMMA CheckPrerequisiteType ==
    ASSUME NEW p \in Prerequisite, NEW def \in FlagType, NEW fs \in Configurations,
           NEW memo \in Memos, NEW inner \in [HeldFlags(fs) \X Memos -> Evaluated]
    PROVE  CheckPrerequisite(p, def, fs, memo, inner) \in Checked
<1> DEFINE evaluated == IF memo[p.flag] # None THEN [result |-> memo[p.flag], memo |-> memo]
                        ELSE inner[<<p.flag, memo>>]
           verdict == IF evaluated.result.reason = "Error" THEN ServeOff(def, "Error", None)
                      ELSE IF evaluated.result.variation # p.expect
                      THEN ServeOff(def, "PrerequisiteFailed", p.flag)
                      ELSE None
<1>1. p.flag \in Flags
  BY DEF Prerequisite
<1>2. CASE memo[p.flag] = None /\ fs[p.flag] = None
  BY <1>1, <1>2, ServeOffType DEF CheckPrerequisite, Checked, Reasons
<1>3. CASE ~(memo[p.flag] = None /\ fs[p.flag] = None)
  <2>1. evaluated.result \in Details /\ evaluated.memo \in Memos
    <3>1. CASE memo[p.flag] # None
      BY <1>1, <3>1 DEF Memos
    <3>2. CASE memo[p.flag] = None
      <4>1. <<p.flag, memo>> \in HeldFlags(fs) \X Memos
        BY <1>1, <1>3, <3>2 DEF HeldFlags
      <4>2. evaluated = inner[<<p.flag, memo>>]
        BY <3>2
      <4>3. QED
        BY <4>1, <4>2 DEF Evaluated
    <3>3. QED
      BY <3>1, <3>2
  <2> DEFINE after == [evaluated.memo EXCEPT ![p.flag] = evaluated.result]
  <2>2. after \in Memos
    <3> HIDE DEF evaluated
    <3>1. QED
      BY <1>1, <2>1 DEF Memos
  <2>3. verdict \in Details \union {None}
    BY <1>1, ServeOffType DEF Reasons
  <2>4. CheckPrerequisite(p, def, fs, memo, inner) = [verdict |-> verdict, memo |-> after]
    BY <1>3 DEF CheckPrerequisite
  <2> HIDE DEF verdict, after
  <2>5. QED
    BY <2>2, <2>3, <2>4 DEF Checked
<1>4. QED
  BY <1>2, <1>3

\* The loop over the prerequisites, turn by turn.
TakesTurns(turn, def, fs, memo, inner) ==
    /\ turn \in [0 .. Len(def.prereqs) -> Checked]
    /\ turn[0] = [verdict |-> None, memo |-> memo]
    /\ \A i \in Nat : i < Len(def.prereqs) =>
         turn[i + 1] = IF turn[i].verdict # None THEN turn[i]
                       ELSE CheckPrerequisite(def.prereqs[i + 1], def, fs, turn[i].memo, inner)

LEMMA Turns ==
    ASSUME NEW def \in FlagType, NEW fs \in Configurations, NEW memo \in Memos,
           NEW inner \in [HeldFlags(fs) \X Memos -> Evaluated]
    PROVE  TakesTurns(CheckPrerequisites(def, fs, memo, inner), def, fs, memo, inner)
<1> DEFINE turn == CheckPrerequisites(def, fs, memo, inner)
           N == Len(def.prereqs)
           start == [verdict |-> None, memo |-> memo]
           After(i, c) == IF c.verdict # None THEN c
                          ELSE CheckPrerequisite(def.prereqs[i], def, fs, c.memo, inner)
           next == [c \in (0 .. N) \X Checked |-> IF c[1] < N THEN After(c[1] + 1, c[2]) ELSE c[2]]
<1>1. N \in Nat /\ \A i \in 1 .. N : def.prereqs[i] \in Prerequisite
  BY DEF FlagType
<1>2. \A i \in 1 .. N, c \in Checked : After(i, c) \in Checked
  <2> TAKE i \in 1 .. N, c \in Checked
  <2>1. c.memo \in Memos
    BY DEF Checked
  <2>2. CheckPrerequisite(def.prereqs[i], def, fs, c.memo, inner) \in Checked
    BY <1>1, <2>1, CheckPrerequisiteType
  <2>3. QED
    BY <2>2
<1>3. start \in Checked
  BY DEF Checked
<1> HIDE DEF N, After, start
<1>4. next \in [(0 .. N) \X Checked -> Checked]
  <2>1. ASSUME NEW c \in (0 .. N) \X Checked
        PROVE  (IF c[1] < N THEN After(c[1] + 1, c[2]) ELSE c[2]) \in Checked
    <3>1. c[1] \in 0 .. N /\ c[2] \in Checked
      OBVIOUS
    <3>2. c[1] < N => c[1] + 1 \in 1 .. N
      BY <1>1, <3>1
    <3>3. QED
      BY <1>2, <3>1, <3>2
  <2>2. QED
    BY <2>1
<1>5. PICK g : Unfolds(g, N, Checked, start, next)
  <2> HIDE DEF next
  <2>1. N \in Nat
    BY <1>1
  <2>2. QED
    BY <1>3, <1>4, <2>1, RecursionExists
<1>6. g = [i \in 0 .. N |-> IF i = 0 THEN start ELSE After(i, g[i - 1])]
  <2>1. ASSUME NEW i \in 0 .. N, i # 0 PROVE g[i] = After(i, g[i - 1])
    <3>1. i - 1 \in Nat /\ i - 1 < N /\ i - 1 \in 0 .. N /\ (i - 1) + 1 = i
      BY <1>1, <2>1
    <3>2. g[i] = next[<<i - 1, g[i - 1]>>]
      BY <1>5, <3>1 DEF Unfolds
    <3>3. <<i - 1, g[i - 1]>> \in (0 .. N) \X Checked
      BY <1>5, <3>1 DEF Unfolds
    <3>4. QED
      BY <3>1, <3>2, <3>3
  <2>2. QED
    BY <1>5, <2>1 DEF Unfolds
<1>7. turn = CHOOSE t : t = [i \in 0 .. N |-> IF i = 0 THEN start ELSE After(i, t[i - 1])]
  BY DEF CheckPrerequisites, N, start, After
<1> HIDE DEF turn
<1>8. turn = [i \in 0 .. N |-> IF i = 0 THEN start ELSE After(i, turn[i - 1])]
  BY <1>6, <1>7
<1>9. turn[0] = start /\ \A i \in Nat : i < N => turn[i + 1] = After(i + 1, turn[i])
  <2>1. \A i \in Nat : i < N => i + 1 \in 0 .. N /\ i + 1 # 0 /\ (i + 1) - 1 = i
    BY <1>1
  <2>2. 0 \in 0 .. N
    BY <1>1
  <2>3. QED
    BY <1>8, <2>1, <2>2
<1>10. turn \in [0 .. N -> Checked]
  <2> DEFINE T == {i \in 0 .. N : turn[i] \in Checked}
  <2>1. 0 \in T
    BY <1>1, <1>3, <1>9
  <2>2. \A n \in Nat : n < N /\ n \in T => n + 1 \in T
    BY <1>1, <1>2, <1>9
  <2>3. 0 .. N \subseteq T
    <3> HIDE DEF T
    <3>1. QED
      BY <1>1, <2>1, <2>2, Upwards
  <2>4. QED
    BY <1>8, <2>3
<1>11. QED
  BY <1>1, <1>9, <1>10 DEF N, start, After, TakesTurns, turn

\* Any depth within the limit is as good as the first.
LEMMA EvaluateWithinLimit ==
    ASSUME NEW f, NEW def, NEW fs, NEW segs, NEW depth, NEW memo, NEW inner,
           ~(depth > MaxPrerequisiteDepth)
    PROVE  EvaluateInternal(f, def, fs, segs, depth, memo, inner) =
           EvaluateInternal(f, def, fs, segs, 0, memo, inner)
<1>1. ~(0 > MaxPrerequisiteDepth)
  BY EvaluationAssumption
<1>2. QED
  BY <1>1 DEF EvaluateInternal

\* The functions a level is one of.
LevelType(fs) == [HeldFlags(fs) \X Memos -> Evaluated]

LEMMA EvaluateInternalType ==
    ASSUME NEW f \in Flags, NEW def \in FlagType, NEW fs \in Configurations, NEW segs,
           NEW memo \in Memos, NEW inner \in LevelType(fs)
    PROVE  EvaluateInternal(f, def, fs, segs, 0, memo, inner) \in Evaluated
<1>1. ~(0 > MaxPrerequisiteDepth)
  BY EvaluationAssumption
<1>2. CASE ~def.on
  <2>1. ServeOff(def, "FlagDisabled", None) \in Details
    BY ServeOffType DEF Reasons
  <2>2. QED
    BY <1>1, <1>2, <2>1 DEF EvaluateInternal, Evaluated
<1>3. CASE def.on
  <2> DEFINE turn == CheckPrerequisites(def, fs, memo, inner)
             checked == turn[Len(def.prereqs)]
             result == IF checked.verdict = None THEN OwnResult(def, segs) ELSE checked.verdict
             after == [checked.memo EXCEPT ![f] = result]
  <2>1. TakesTurns(turn, def, fs, memo, inner)
    BY Turns DEF LevelType
  <2> HIDE DEF turn
  <2>2. checked \in Checked
    <3>1. Len(def.prereqs) \in Nat
      BY DEF FlagType
    <3>2. QED
      BY <2>1, <3>1 DEF TakesTurns
  <2> HIDE DEF checked
  <2>3. result \in Details
    BY <2>2, OwnResultType DEF Checked
  <2>4. EvaluateInternal(f, def, fs, segs, 0, memo, inner) = [result |-> result, memo |-> after]
    BY <1>1, <1>3 DEF EvaluateInternal, checked, turn
  <2> HIDE DEF result
  <2>5. after \in Memos
    BY <2>2, <2>3 DEF Checked, Memos
  <2>6. QED
    BY <2>3, <2>4, <2>5 DEF Evaluated
<1>4. QED
  BY <1>2, <1>3 DEF FlagType

LEMMA HeldFlagsAre ==
    ASSUME NEW fs \in Configurations, NEW f \in HeldFlags(fs)
    PROVE  f \in Flags /\ fs[f] \in FlagType
BY DEF HeldFlags, Configurations

\* The levels, from that at which everything is an error.
LEMMA LevelsUnfold ==
    ASSUME NEW fs \in Configurations, NEW segs, NEW level, level = Levels(fs, segs)
    PROVE  /\ level \in [0 .. MaxPrerequisiteDepth -> LevelType(fs)]
           /\ \A f \in HeldFlags(fs), memo \in Memos :
                level[0][<<f, memo>>] =
                    [result |-> ServeOff(fs[f], "Error", None), memo |-> memo]
           /\ \A n \in Nat : n < MaxPrerequisiteDepth =>
                \A f \in HeldFlags(fs), memo \in Memos :
                    level[n + 1][<<f, memo>>] =
                        EvaluateInternal(f, fs[f], fs, segs, 0, memo, level[n])
<1> DEFINE N == MaxPrerequisiteDepth
           Calls == HeldFlags(fs) \X Memos
           Raw(n, inner) == [call \in Calls |->
               EvaluateInternal(call[1], fs[call[1]], fs, segs, N + 1 - n, call[2], inner)]
           start == [call \in Calls |->
               [result |-> ServeOff(fs[call[1]], "Error", None), memo |-> call[2]]]
           Up(inner) == [call \in Calls |->
               EvaluateInternal(call[1], fs[call[1]], fs, segs, 0, call[2], inner)]
           next == [a \in (0 .. N) \X LevelType(fs) |-> Up(a[2])]
<1>1. N \in Nat
  BY EvaluationAssumption
<1>2. \A call \in Calls : call[1] \in Flags /\ fs[call[1]] \in FlagType /\ call[2] \in Memos
  BY HeldFlagsAre
<1>3. start \in LevelType(fs)
  <2>1. \A call \in Calls : ServeOff(fs[call[1]], "Error", None) \in Details
    BY <1>2, ServeOffType DEF Reasons
  <2>2. QED
    BY <1>2, <2>1 DEF LevelType, Evaluated
<1>4. \A inner \in LevelType(fs) : Up(inner) \in LevelType(fs)
  <2> TAKE inner \in LevelType(fs)
  <2>1. \A call \in Calls :
          EvaluateInternal(call[1], fs[call[1]], fs, segs, 0, call[2], inner) \in Evaluated
    BY <1>2, EvaluateInternalType
  <2>2. QED
    BY <2>1 DEF LevelType
<1>5. \A inner : Raw(0, inner) = start
  <2>1. N + 1 - 0 > MaxPrerequisiteDepth
    BY <1>1
  <2>2. QED
    BY <2>1 DEF EvaluateInternal
<1>6. \A n \in 1 .. N : \A inner : Raw(n, inner) = Up(inner)
  <2> TAKE n \in 1 .. N
  <2> TAKE inner
  <2>1. ~(N + 1 - n > MaxPrerequisiteDepth)
    BY <1>1
  <2>2. \A call \in Calls :
          EvaluateInternal(call[1], fs[call[1]], fs, segs, N + 1 - n, call[2], inner) =
          EvaluateInternal(call[1], fs[call[1]], fs, segs, 0, call[2], inner)
    BY <2>1, EvaluateWithinLimit
  <2>3. QED
    BY <2>2
<1>7. level = CHOOSE l : l = [n \in 0 .. N |-> Raw(n, l[n - 1])]
  BY DEF Levels
<1> HIDE DEF Raw, start, Up
<1>8. PICK g : Unfolds(g, N, LevelType(fs), start, next)
  <2>1. \A a \in (0 .. N) \X LevelType(fs) : Up(a[2]) \in LevelType(fs)
    BY <1>4
  <2>2. next \in [(0 .. N) \X LevelType(fs) -> LevelType(fs)]
    BY <2>1
  <2> HIDE DEF next, N
  <2>3. QED
    BY <1>1, <1>3, <2>2, RecursionExists
<1>9. g = [n \in 0 .. N |-> Raw(n, g[n - 1])]
  <2>1. ASSUME NEW n \in 0 .. N, n # 0 PROVE g[n] = Up(g[n - 1])
    <3>1. n - 1 \in Nat /\ n - 1 < N /\ n - 1 \in 0 .. N /\ (n - 1) + 1 = n
      BY <1>1, <2>1
    <3>2. g[n] = next[<<n - 1, g[n - 1]>>] /\ g[n - 1] \in LevelType(fs)
      BY <1>8, <3>1 DEF Unfolds
    <3>3. <<n - 1, g[n - 1]>> \in (0 .. N) \X LevelType(fs)
      BY <3>1, <3>2
    <3>4. QED
      BY <3>2, <3>3
  <2>2. \A n \in 0 .. N : g[n] = Raw(n, g[n - 1])
    BY <1>1, <1>5, <1>6, <1>8, <2>1 DEF Unfolds
  <2>3. QED
    BY <1>8, <2>2 DEF Unfolds
<1>10. level = [n \in 0 .. N |-> Raw(n, level[n - 1])]
  BY <1>7, <1>9
<1>11. level[0] = start /\ \A n \in Nat : n < N => level[n + 1] = Up(level[n])
  <2>1. \A n \in Nat : n < N => n + 1 \in 1 .. N /\ n + 1 \in 0 .. N /\ (n + 1) - 1 = n
    BY <1>1
  <2>2. 0 \in 0 .. N
    BY <1>1
  <2>3. level[0] = Raw(0, level[0 - 1])
    BY <1>10, <2>2
  <2>4. ASSUME NEW n \in Nat, n < N PROVE level[n + 1] = Up(level[n])
    <3>1. level[n + 1] = Raw(n + 1, level[(n + 1) - 1])
      BY <1>10, <2>1, <2>4
    <3>2. level[n + 1] = Raw(n + 1, level[n])
      BY <2>1, <2>4, <3>1
    <3>3. QED
      BY <1>6, <2>1, <2>4, <3>2
  <2>5. QED
    BY <1>5, <2>3, <2>4
<1>12. level \in [0 .. N -> LevelType(fs)]
  <2> DEFINE T == {n \in 0 .. N : level[n] \in LevelType(fs)}
  <2>1. 0 \in T
    BY <1>1, <1>3, <1>11
  <2>2. \A n \in Nat : n < N /\ n \in T => n + 1 \in T
    BY <1>1, <1>4, <1>11
  <2>3. 0 .. N \subseteq T
    <3> HIDE DEF T
    <3>1. QED
      BY <1>1, <2>1, <2>2, Upwards
  <2>4. QED
    BY <1>10, <2>3
<1>13. \A f \in HeldFlags(fs), memo \in Memos :
          start[<<f, memo>>] = [result |-> ServeOff(fs[f], "Error", None), memo |-> memo]
  BY DEF start
<1>14. \A n \in Nat : n < N => \A f \in HeldFlags(fs), memo \in Memos :
         level[n + 1][<<f, memo>>] = EvaluateInternal(f, fs[f], fs, segs, 0, memo, level[n])
  <2> TAKE n \in Nat
  <2> HAVE n < N
  <2> TAKE f \in HeldFlags(fs), memo \in Memos
  <2>1. level[n + 1] = Up(level[n])
    BY <1>11
  <2>2. Up(level[n])[<<f, memo>>] = EvaluateInternal(f, fs[f], fs, segs, 0, memo, level[n])
    BY DEF Up
  <2>3. QED
    BY <2>1, <2>2
<1>15. QED
  BY <1>11, <1>12, <1>13, <1>14

-----------------------------------------------------------------------------
(* The reference.                                                          *)

\* What a prerequisite that does not hold makes of a flag.
Verdict(def, fs, row, culprit) ==
    IF fs[culprit] # None /\ row[culprit].reason = "Error" THEN ServeOff(def, "Error", None)
    ELSE ServeOff(def, "PrerequisiteFailed", culprit)

\* The prerequisites before the i-th hold.
HoldUpTo(def, fs, row, i) ==
    \A j \in 1 .. i - 1 : Holds(def.prereqs[j], fs, row)

LEMMA PrereqsAre ==
    ASSUME NEW def \in FlagType
    PROVE  /\ Len(def.prereqs) \in Nat /\ DOMAIN def.prereqs = 1 .. Len(def.prereqs)
           /\ \A i \in 1 .. Len(def.prereqs) :
                def.prereqs[i] \in Prerequisite /\ def.prereqs[i].flag \in Flags
<1>1. def.prereqs \in Seq(Prerequisite)
  BY DEF FlagType
<1>2. Len(def.prereqs) \in Nat /\ DOMAIN def.prereqs = 1 .. Len(def.prereqs)
  BY <1>1
<1>3. \A i \in 1 .. Len(def.prereqs) : def.prereqs[i] \in Prerequisite
  BY <1>1
<1>4. QED
  BY <1>2, <1>3 DEF Prerequisite

\* The first prerequisite that does not hold decides.
LEMMA JudgeAt ==
    ASSUME NEW def \in FlagType, NEW fs, NEW segs, NEW row, def.on,
           NEW i \in 1 .. Len(def.prereqs),
           ~Holds(def.prereqs[i], fs, row), HoldUpTo(def, fs, row, i)
    PROVE  Judge(def, fs, segs, row) = Verdict(def, fs, row, def.prereqs[i].flag)
<1> DEFINE bad == {k \in DOMAIN def.prereqs : ~Holds(def.prereqs[k], fs, row)}
<1>1. i \in bad /\ bad \subseteq 1 .. Len(def.prereqs) /\ Len(def.prereqs) \in Nat
  BY PrereqsAre
<1>2. \A k \in bad : i <= k
  <2>1. ASSUME NEW k \in bad, k < i PROVE FALSE
    <3>1. k \in 1 .. i - 1
      BY <1>1, <2>1
    <3>2. QED
      BY <2>1, <3>1 DEF HoldUpTo
  <2>2. QED
    BY <1>1, <2>1
<1>3. Min(bad) = i
  <2> HIDE DEF bad
  <2>1. \A x \in bad : (\A y \in bad : x <= y) => x = i
    BY <1>1, <1>2
  <2>2. QED
    BY <1>1, <1>2, <2>1 DEF Min
<1>4. bad # {}
  BY <1>1
<1>5. QED
  BY <1>3, <1>4 DEF Judge, Verdict

LEMMA JudgeAll ==
    ASSUME NEW def \in FlagType, NEW fs, NEW segs, NEW row, def.on,
           \A i \in 1 .. Len(def.prereqs) : Holds(def.prereqs[i], fs, row)
    PROVE  Judge(def, fs, segs, row) = OwnResult(def, segs)
BY PrereqsAre DEF Judge

LEMMA JudgeOff ==
    ASSUME NEW def \in FlagType, NEW fs, NEW segs, NEW row, ~def.on
    PROVE  Judge(def, fs, segs, row) = ServeOff(def, "FlagDisabled", None)
BY DEF Judge

\* Either all hold, or there is a first that does not.
LEMMA FirstFailure ==
    ASSUME NEW def \in FlagType, NEW fs, NEW row
    PROVE  \/ \A i \in 1 .. Len(def.prereqs) : Holds(def.prereqs[i], fs, row)
           \/ \E i \in 1 .. Len(def.prereqs) :
                ~Holds(def.prereqs[i], fs, row) /\ HoldUpTo(def, fs, row, i)
<1> DEFINE bad == {k \in 1 .. Len(def.prereqs) : ~Holds(def.prereqs[k], fs, row)}
<1>1. CASE bad = {}
  BY <1>1
<1>2. CASE bad # {}
  <2>1. Len(def.prereqs) \in Nat /\ bad \in SUBSET Nat
    BY PrereqsAre
  <2>2. PICK i \in bad : \A k \in bad : i <= k
    <3> HIDE DEF bad
    <3>1. QED
      BY <1>2, <2>1, LeastNumber
  <2>3. ASSUME NEW j \in 1 .. i - 1 PROVE Holds(def.prereqs[j], fs, row)
    <3>1. j \in 1 .. Len(def.prereqs) /\ ~(i <= j)
      BY <2>1, <2>2
    <3>2. QED
      BY <2>2, <3>1
  <2>4. QED
    BY <2>2, <2>3 DEF HoldUpTo
<1>3. QED
  BY <1>1, <1>2

LEMMA JudgeType ==
    ASSUME NEW def \in FlagType, NEW fs, NEW segs, NEW row
    PROVE  Judge(def, fs, segs, row) \in Details
<1>1. CASE ~def.on
  BY <1>1, JudgeOff, ServeOffType DEF Reasons
<1>2. CASE def.on /\ \A i \in 1 .. Len(def.prereqs) : Holds(def.prereqs[i], fs, row)
  BY <1>2, JudgeAll, OwnResultType
<1>3. CASE def.on /\ \E i \in 1 .. Len(def.prereqs) :
                ~Holds(def.prereqs[i], fs, row) /\ HoldUpTo(def, fs, row, i)
  <2>1. PICK i \in 1 .. Len(def.prereqs) :
                ~Holds(def.prereqs[i], fs, row) /\ HoldUpTo(def, fs, row, i)
    BY <1>3
  <2>2. def.prereqs[i].flag \in Flags
    BY PrereqsAre
  <2>3. Verdict(def, fs, row, def.prereqs[i].flag) \in Details
    BY <2>2, ServeOffType DEF Verdict, Reasons
  <2>4. QED
    BY <1>3, <2>1, <2>3, JudgeAt
<1>4. QED
  BY <1>1, <1>2, <1>3, FirstFailure DEF FlagType

\* Rows that agree on every prerequisite that is looked at give one result.
LEMMA JudgeAgree ==
    ASSUME NEW def \in FlagType, NEW fs, NEW segs, NEW row, NEW other, def.on,
           \A i \in 1 .. Len(def.prereqs) : HoldUpTo(def, fs, other, i) =>
               \/ fs[def.prereqs[i].flag] = None
               \/ row[def.prereqs[i].flag] = other[def.prereqs[i].flag]
    PROVE  Judge(def, fs, segs, row) = Judge(def, fs, segs, other)
<1>1. \A i \in 1 .. Len(def.prereqs) : HoldUpTo(def, fs, other, i) =>
         (Holds(def.prereqs[i], fs, row) <=> Holds(def.prereqs[i], fs, other))
  BY DEF Holds
<1>2. CASE \A i \in 1 .. Len(def.prereqs) : Holds(def.prereqs[i], fs, other)
  <2>1. \A i \in 1 .. Len(def.prereqs) : HoldUpTo(def, fs, other, i)
    BY <1>2, PrereqsAre DEF HoldUpTo
  <2>2. QED
    BY <1>1, <1>2, <2>1, JudgeAll
<1>3. ASSUME NEW i \in 1 .. Len(def.prereqs),
             ~Holds(def.prereqs[i], fs, other), HoldUpTo(def, fs, other, i)
      PROVE  Judge(def, fs, segs, row) = Judge(def, fs, segs, other)
  <2>1. \A j \in 1 .. i - 1 : j \in 1 .. Len(def.prereqs) /\ HoldUpTo(def, fs, other, j)
    BY <1>3, PrereqsAre DEF HoldUpTo
  <2>2. HoldUpTo(def, fs, row, i) /\ ~Holds(def.prereqs[i], fs, row)
    BY <1>1, <1>3, <2>1 DEF HoldUpTo
  <2>3. Verdict(def, fs, row, def.prereqs[i].flag) = Verdict(def, fs, other, def.prereqs[i].flag)
    BY <1>3 DEF Verdict
  <2>4. QED
    BY <1>3, <2>2, <2>3, JudgeAt
<1>4. QED
  BY <1>2, <1>3, FirstFailure

LEMMA RowsUnfold ==
    ASSUME NEW fs \in Configurations, NEW segs, NEW row, row = Rows(fs, segs)
    PROVE  /\ row \in [0 .. MaxPrerequisiteDepth + 1 -> [HeldFlags(fs) -> Details]]
           /\ \A f \in HeldFlags(fs) : row[0][f] = ServeOff(fs[f], "Error", None)
           /\ \A n \in Nat : n < MaxPrerequisiteDepth + 1 =>
                \A f \in HeldFlags(fs) : row[n + 1][f] = Judge(fs[f], fs, segs, row[n])
<1> DEFINE N == MaxPrerequisiteDepth + 1
           S == [HeldFlags(fs) -> Details]
           start == [f \in HeldFlags(fs) |-> ServeOff(fs[f], "Error", None)]
           Up(r) == [f \in HeldFlags(fs) |-> Judge(fs[f], fs, segs, r)]
           Raw(n, r) == [f \in HeldFlags(fs) |->
               IF n = 0 THEN ServeOff(fs[f], "Error", None) ELSE Judge(fs[f], fs, segs, r)]
           next == [a \in (0 .. N) \X S |-> Up(a[2])]
<1>1. N \in Nat
  BY EvaluationAssumption
<1>2. start \in S
  BY HeldFlagsAre, ServeOffType DEF Reasons
<1>3. \A r : Up(r) \in S
  BY HeldFlagsAre, JudgeType
<1>4. \A r : Raw(0, r) = start /\ \A n \in 1 .. N : Raw(n, r) = Up(r)
  OBVIOUS
<1>5. row = CHOOSE t : t = [n \in 0 .. N |-> Raw(n, t[n - 1])]
  BY DEF Rows
<1> HIDE DEF N, S, start, Up, Raw
<1>6. PICK g : Unfolds(g, N, S, start, next)
  <2>1. next \in [(0 .. N) \X S -> S]
    BY <1>3
  <2> HIDE DEF next
  <2>2. QED
    BY <1>1, <1>2, <2>1, RecursionExists
<1>7. g = [n \in 0 .. N |-> Raw(n, g[n - 1])]
  <2>1. ASSUME NEW n \in 0 .. N, n # 0 PROVE g[n] = Up(g[n - 1]) /\ n \in 1 .. N
    <3>1. n - 1 \in Nat /\ n - 1 < N /\ n - 1 \in 0 .. N /\ (n - 1) + 1 = n
      BY <1>1, <2>1
    <3>2. g[n] = next[<<n - 1, g[n - 1]>>] /\ g[n - 1] \in S
      BY <1>6, <3>1 DEF Unfolds
    <3>3. <<n - 1, g[n - 1]>> \in (0 .. N) \X S
      BY <3>1, <3>2
    <3>4. QED
      BY <1>1, <2>1, <3>2, <3>3
  <2>2. \A n \in 0 .. N : g[n] = Raw(n, g[n - 1])
    BY <1>1, <1>4, <1>6, <2>1 DEF Unfolds
  <2>3. QED
    BY <1>6, <2>2 DEF Unfolds
<1>8. row = [n \in 0 .. N |-> Raw(n, row[n - 1])]
  BY <1>5, <1>7
<1>9. row[0] = start /\ \A n \in Nat : n < N => row[n + 1] = Up(row[n])
  <2>1. \A n \in Nat : n < N => n + 1 \in 1 .. N /\ n + 1 \in 0 .. N /\ (n + 1) - 1 = n
    BY <1>1
  <2>2. 0 \in 0 .. N
    BY <1>1
  <2>3. QED
    BY <1>4, <1>8, <2>1, <2>2
<1>10. row \in [0 .. N -> S]
  <2>1. \A n \in 0 .. N : n = 0 \/ (n - 1 \in Nat /\ n - 1 < N /\ (n - 1) + 1 = n)
    BY <1>1
  <2>2. \A n \in 0 .. N : row[n] \in S
    BY <1>2, <1>3, <1>9, <2>1
  <2>3. QED
    BY <1>8, <2>2
<1>11. QED
  BY <1>9, <1>10 DEF N, S, start, Up

LEMMA HeadsUnfold ==
    ASSUME NEW fs \in Configurations, NEW head, head = Heads(fs)
    PROVE  /\ head \in [0 .. MaxPrerequisiteDepth + 1 -> SUBSET HeldFlags(fs)]
           /\ head[0] = HeldFlags(fs)
           /\ \A n \in Nat : n < MaxPrerequisiteDepth + 1 =>
                head[n + 1] =
                    {f \in HeldFlags(fs) :
                       \E i \in DOMAIN fs[f].prereqs : fs[f].prereqs[i].flag \in head[n]}
<1> DEFINE N == MaxPrerequisiteDepth + 1
           S == SUBSET HeldFlags(fs)
           start == HeldFlags(fs)
           Up(h) == {f \in HeldFlags(fs) :
                       \E i \in DOMAIN fs[f].prereqs : fs[f].prereqs[i].flag \in h}
           next == [a \in (0 .. N) \X S |-> Up(a[2])]
<1>1. N \in Nat /\ start \in S /\ \A h : Up(h) \in S
  BY EvaluationAssumption
<1>2. head = CHOOSE t : t = [n \in 0 .. N |-> IF n = 0 THEN start ELSE Up(t[n - 1])]
  BY DEF Heads
<1> HIDE DEF N, S, start, Up
<1>3. PICK g : Unfolds(g, N, S, start, next)
  <2>1. next \in [(0 .. N) \X S -> S]
    BY <1>1
  <2> HIDE DEF next
  <2>2. QED
    BY <1>1, <2>1, RecursionExists
<1>4. g = [n \in 0 .. N |-> IF n = 0 THEN start ELSE Up(g[n - 1])]
  <2>1. ASSUME NEW n \in 0 .. N, n # 0 PROVE g[n] = Up(g[n - 1])
    <3>1. n - 1 \in Nat /\ n - 1 < N /\ n - 1 \in 0 .. N /\ (n - 1) + 1 = n
      BY <1>1, <2>1
    <3>2. g[n] = next[<<n - 1, g[n - 1]>>] /\ g[n - 1] \in S
      BY <1>3, <3>1 DEF Unfolds
    <3>3. <<n - 1, g[n - 1]>> \in (0 .. N) \X S
      BY <3>1, <3>2
    <3>4. QED
      BY <3>2, <3>3
  <2>2. QED
    BY <1>3, <2>1 DEF Unfolds
<1>5. head = [n \in 0 .. N |-> IF n = 0 THEN start ELSE Up(head[n - 1])]
  BY <1>2, <1>4
<1>6. head[0] = start /\ \A n \in Nat : n < N => head[n + 1] = Up(head[n])
  <2>1. \A n \in Nat : n < N => n + 1 # 0 /\ n + 1 \in 0 .. N /\ (n + 1) - 1 = n
    BY <1>1
  <2>2. 0 \in 0 .. N
    BY <1>1
  <2>3. QED
    BY <1>5, <2>1, <2>2
<1>7. head \in [0 .. N -> S]
  BY <1>1, <1>5
<1>8. QED
  BY <1>6, <1>7 DEF N, S, start, Up

-----------------------------------------------------------------------------
(* The flags that the depth limit does not matter to.                      *)

\* With n levels allowed the limit is not met below these flags: no chain of n
\* prerequisites begins at them, or they get a result that is no error.
Sure(fs, segs, n) ==
    {f \in HeldFlags(fs) : f \notin Heads(fs)[n] \/ Rows(fs, segs)[n][f].reason # "Error"}

\* Their results do not change when more levels are allowed.
SureFrom(fs, segs, n) ==
    \A f \in Sure(fs, segs, n), m \in n .. MaxPrerequisiteDepth + 1 :
        Rows(fs, segs)[m][f] = Reference(fs, segs)[f]

LEMMA NoneIsSureAtFirst ==
    ASSUME NEW fs \in Configurations, NEW segs
    PROVE  Sure(fs, segs, 0) = {}
BY RowsUnfold, HeadsUnfold, ServeOffError DEF Sure

\* The prerequisites that such a flag looks at are such flags one level down.
LEMMA SureAsks ==
    ASSUME NEW fs \in Configurations, NEW segs, NEW n \in Nat, n < MaxPrerequisiteDepth + 1,
           SureFrom(fs, segs, n), NEW f \in Sure(fs, segs, n + 1), fs[f].on,
           NEW i \in 1 .. Len(fs[f].prereqs),
           HoldUpTo(fs[f], fs, Reference(fs, segs), i)
    PROVE  \/ fs[fs[f].prereqs[i].flag] = None
           \/ fs[f].prereqs[i].flag \in Sure(fs, segs, n)
<1> DEFINE def == fs[f]
           p == def.prereqs[i].flag
           row == Rows(fs, segs)[n]
           final == Reference(fs, segs)
<1>1. f \in HeldFlags(fs) /\ def \in FlagType /\ MaxPrerequisiteDepth \in Nat
  BY HeldFlagsAre, EvaluationAssumption DEF Sure
<1>2. SUFFICES ASSUME fs[p] # None PROVE p \in Sure(fs, segs, n)
  OBVIOUS
<1>3. p \in HeldFlags(fs) /\ DOMAIN def.prereqs = 1 .. Len(def.prereqs)
  BY <1>1, <1>2, PrereqsAre DEF HeldFlags
<1>4. CASE f \notin Heads(fs)[n + 1]
  <2>1. p \notin Heads(fs)[n]
    BY <1>1, <1>3, <1>4, HeadsUnfold
  <2>2. QED
    BY <1>3, <2>1 DEF Sure
<1>5. CASE Rows(fs, segs)[n + 1][f].reason # "Error"
  <2>1. Rows(fs, segs)[n + 1][f] = Judge(def, fs, segs, row)
    BY <1>1, RowsUnfold
  <2>2. SUFFICES row[p].reason # "Error"
    BY <1>3 DEF Sure
  <2>3. CASE \A k \in 1 .. Len(def.prereqs) : Holds(def.prereqs[k], fs, row)
    BY <2>3 DEF Holds
  <2>4. ASSUME NEW k \in 1 .. Len(def.prereqs),
               ~Holds(def.prereqs[k], fs, row), HoldUpTo(def, fs, row, k)
        PROVE  row[p].reason # "Error"
    <3> DEFINE q == def.prereqs[k].flag
    <3>1. Len(def.prereqs) \in Nat
      BY <1>1, PrereqsAre
    <3>2. CASE i < k
      <4>1. i \in 1 .. k - 1
        BY <3>1, <3>2
      <4>2. QED
        BY <2>4, <4>1 DEF HoldUpTo, Holds
    <3>3. ~(fs[q] # None /\ row[q].reason = "Error")
      <4>1. Judge(def, fs, segs, row) = Verdict(def, fs, row, q)
        BY <1>1, <2>4, JudgeAt
      <4>2. QED
        BY <1>5, <2>1, <4>1, ServeOffError DEF Verdict
    <3>4. CASE i = k
      BY <1>2, <3>3, <3>4
    <3>5. CASE i > k
      <4>1. k \in 1 .. i - 1
        BY <3>1, <3>5
      <4>2. Holds(def.prereqs[k], fs, final)
        BY <4>1 DEF HoldUpTo
      <4>3. q \in Sure(fs, segs, n)
        <5>1. fs[q] # None /\ q \in Flags
          BY <1>1, <4>2, PrereqsAre DEF Holds
        <5>2. QED
          BY <3>3, <5>1 DEF Sure, HeldFlags
      <4>4. n \in n .. MaxPrerequisiteDepth + 1
        BY <1>1
      <4>5. row[q] = final[q]
        BY <4>3, <4>4 DEF SureFrom
      <4>6. QED
        BY <2>4, <4>2, <4>5 DEF Holds
    <3>6. QED
      BY <3>1, <3>2, <3>4, <3>5
  <2>5. QED
    BY <1>1, <2>3, <2>4, FirstFailure
<1>6. QED
  BY <1>4, <1>5 DEF Sure

\* Such a flag's result is what the reference makes of the reference.
LEMMA SureStep ==
    ASSUME NEW fs \in Configurations, NEW segs, NEW n \in Nat, n < MaxPrerequisiteDepth + 1,
           SureFrom(fs, segs, n), NEW f \in Sure(fs, segs, n + 1),
           NEW m \in n + 1 .. MaxPrerequisiteDepth + 1
    PROVE  Rows(fs, segs)[m][f] = Judge(fs[f], fs, segs, Reference(fs, segs))
<1> DEFINE def == fs[f]
           row == Rows(fs, segs)[m - 1]
           final == Reference(fs, segs)
<1>1. f \in HeldFlags(fs) /\ def \in FlagType /\ MaxPrerequisiteDepth \in Nat
  BY HeldFlagsAre, EvaluationAssumption DEF Sure
<1>2. m - 1 \in Nat /\ m - 1 < MaxPrerequisiteDepth + 1 /\ (m - 1) + 1 = m
      /\ m - 1 \in n .. MaxPrerequisiteDepth + 1
  BY <1>1
<1>3. Rows(fs, segs)[m][f] = Judge(def, fs, segs, row)
  BY <1>1, <1>2, RowsUnfold
<1>4. CASE ~def.on
  BY <1>1, <1>3, <1>4, JudgeOff
<1>5. CASE def.on
  <2>1. ASSUME NEW i \in 1 .. Len(def.prereqs), HoldUpTo(def, fs, final, i)
        PROVE  fs[def.prereqs[i].flag] = None
               \/ row[def.prereqs[i].flag] = final[def.prereqs[i].flag]
    <3>1. fs[def.prereqs[i].flag] = None \/ def.prereqs[i].flag \in Sure(fs, segs, n)
      BY <1>5, <2>1, SureAsks
    <3>2. QED
      BY <1>2, <3>1 DEF SureFrom
  <2>2. Judge(def, fs, segs, row) = Judge(def, fs, segs, final)
    BY <1>1, <1>5, <2>1, JudgeAgree
  <2>3. QED
    BY <1>3, <2>2
<1>6. QED
  BY <1>1, <1>4, <1>5 DEF FlagType

LEMMA SureAreSure ==
    ASSUME NEW fs \in Configurations, NEW segs
    PROVE  \A n \in 0 .. MaxPrerequisiteDepth + 1 : SureFrom(fs, segs, n)
<1> DEFINE N == MaxPrerequisiteDepth + 1
           T == {n \in 0 .. N : SureFrom(fs, segs, n)}
<1>1. N \in Nat
  BY EvaluationAssumption
<1>2. 0 \in T
  BY <1>1, NoneIsSureAtFirst DEF SureFrom
<1>3. ASSUME NEW n \in Nat, n < N, n \in T PROVE n + 1 \in T
  <2>1. n + 1 \in 0 .. N /\ N \in n + 1 .. N
    BY <1>1, <1>3
  <2>2. ASSUME NEW f \in Sure(fs, segs, n + 1), NEW m \in n + 1 .. N
        PROVE  Rows(fs, segs)[m][f] = Reference(fs, segs)[f]
    <3>1. \A k \in n + 1 .. N :
            Rows(fs, segs)[k][f] = Judge(fs[f], fs, segs, Reference(fs, segs))
      BY <1>3, SureStep
    <3>2. Rows(fs, segs)[m][f] = Rows(fs, segs)[N][f]
      BY <2>1, <3>1
    <3>3. QED
      BY <3>2 DEF Reference
  <2>3. QED
    BY <2>1, <2>2 DEF SureFrom
<1>4. 0 .. N \subseteq T
  <2> HIDE DEF T, N
  <2>1. QED
    BY <1>1, <1>2, <1>3, Upwards
<1>5. QED
  BY <1>4

LEMMA SureJudge ==
    ASSUME NEW fs \in Configurations, NEW segs, NEW n \in Nat, n < MaxPrerequisiteDepth + 1,
           NEW f \in Sure(fs, segs, n + 1)
    PROVE  Reference(fs, segs)[f] = Judge(fs[f], fs, segs, Reference(fs, segs))
<1>1. n \in 0 .. MaxPrerequisiteDepth + 1
      /\ MaxPrerequisiteDepth + 1 \in n + 1 .. MaxPrerequisiteDepth + 1
  BY EvaluationAssumption
<1>2. QED
  BY <1>1, SureAreSure, SureStep DEF Reference

-----------------------------------------------------------------------------
(* Evaluation with a memo gives the reference's results.                   *)

\* What a memo holds are results of the reference.
MemoIsRight(memo, fs, segs) ==
    /\ memo \in Memos
    /\ \A g \in Flags : memo[g] # None => fs[g] # None /\ memo[g] = Reference(fs, segs)[g]

\* A level that is right about some flags, and keeps a memo right.
LevelIsRight(inner, some, fs, segs) ==
    \A f \in some, memo \in Memos : MemoIsRight(memo, fs, segs) =>
        /\ inner[<<f, memo>>].result = Reference(fs, segs)[f]
        /\ MemoIsRight(inner[<<f, memo>>].memo, fs, segs)

\* Where the loop over the prerequisites is after i turns.
TurnIsRight(checked, i, def, fs, segs) ==
    LET final == Reference(fs, segs)
    IN  /\ MemoIsRight(checked.memo, fs, segs)
        /\ \/ checked.verdict = None /\ \A j \in 1 .. i : Holds(def.prereqs[j], fs, final)
           \/ checked.verdict # None /\ checked.verdict = Judge(def, fs, segs, final)

\* One turn.
LEMMA PrerequisiteIsRight ==
    ASSUME NEW fs \in Configurations, NEW segs, NEW def \in FlagType, def.on,
           NEW i \in 1 .. Len(def.prereqs), NEW memo, MemoIsRight(memo, fs, segs),
           HoldUpTo(def, fs, Reference(fs, segs), i),
           NEW some \in SUBSET HeldFlags(fs), NEW inner \in LevelType(fs),
           LevelIsRight(inner, some, fs, segs),
           fs[def.prereqs[i].flag] = None \/ def.prereqs[i].flag \in some
    PROVE  TurnIsRight(CheckPrerequisite(def.prereqs[i], def, fs, memo, inner), i, def, fs, segs)
<1> DEFINE p == def.prereqs[i]
           final == Reference(fs, segs)
           evaluated == IF memo[p.flag] # None THEN [result |-> memo[p.flag], memo |-> memo]
                        ELSE inner[<<p.flag, memo>>]
           verdict == IF evaluated.result.reason = "Error" THEN ServeOff(def, "Error", None)
                      ELSE IF evaluated.result.variation # p.expect
                      THEN ServeOff(def, "PrerequisiteFailed", p.flag)
                      ELSE None
           after == [evaluated.memo EXCEPT ![p.flag] = evaluated.result]
<1>1. p.flag \in Flags /\ p \in Prerequisite /\ memo \in Memos
  BY PrereqsAre DEF MemoIsRight
<1>2. \A blame \in Flags \union {None} :
         /\ ServeOff(def, "Error", blame) \in Details /\ ServeOff(def, "Error", blame) # None
         /\ ServeOff(def, "PrerequisiteFailed", blame) # None
  <2>1. \A blame \in Flags \union {None} :
          ServeOff(def, "Error", blame) \in Details
          /\ ServeOff(def, "PrerequisiteFailed", blame) \in Details
    BY ServeOffType DEF Reasons
  <2>2. QED
    BY <2>1, NoneIsNoDetail
<1>3. ~Holds(p, fs, final) => Judge(def, fs, segs, final) = Verdict(def, fs, final, p.flag)
  BY JudgeAt
<1>4. CASE memo[p.flag] = None /\ fs[p.flag] = None
  <2>1. CheckPrerequisite(p, def, fs, memo, inner) =
          [verdict |-> ServeOff(def, "PrerequisiteFailed", p.flag), memo |-> memo]
    BY <1>4 DEF CheckPrerequisite
  <2>2. ~Holds(p, fs, final)
        /\ Verdict(def, fs, final, p.flag) = ServeOff(def, "PrerequisiteFailed", p.flag)
    BY <1>4 DEF Holds, Verdict
  <2>3. QED
    BY <1>1, <1>2, <1>3, <2>1, <2>2 DEF TurnIsRight
<1>5. CASE ~(memo[p.flag] = None /\ fs[p.flag] = None)
  <2>1. fs[p.flag] # None /\ evaluated.result = final[p.flag]
        /\ MemoIsRight(evaluated.memo, fs, segs) /\ evaluated.result \in Details
    <3>1. CASE memo[p.flag] # None
      BY <1>1, <3>1 DEF MemoIsRight, Memos
    <3>2. CASE memo[p.flag] = None
      <4>1. p.flag \in some /\ <<p.flag, memo>> \in HeldFlags(fs) \X Memos
        BY <1>1, <1>5, <3>2
      <4>2. inner[<<p.flag, memo>>] \in Evaluated
        BY <4>1 DEF LevelType
      <4>3. evaluated = inner[<<p.flag, memo>>]
        BY <3>2
      <4> HIDE DEF evaluated
      <4>4. evaluated.result = final[p.flag] /\ MemoIsRight(evaluated.memo, fs, segs)
        BY <1>1, <4>1, <4>3 DEF LevelIsRight
      <4>5. QED
        BY <1>5, <3>2, <4>2, <4>3, <4>4 DEF Evaluated
    <3>3. QED
      BY <3>1, <3>2
  <2>2. CheckPrerequisite(p, def, fs, memo, inner) = [verdict |-> verdict, memo |-> after]
    BY <1>5 DEF CheckPrerequisite
  <2> HIDE DEF evaluated
  <2>3. MemoIsRight(after, fs, segs)
    <3>1. evaluated.memo \in Memos
      BY <2>1 DEF MemoIsRight
    <3>2. after \in Memos
      BY <1>1, <2>1, <3>1 DEF Memos
    <3>3. \A g \in Flags : after[g] = IF g = p.flag THEN evaluated.result ELSE evaluated.memo[g]
      BY <3>1 DEF Memos
    <3> HIDE DEF after
    <3>4. QED
      BY <2>1, <3>2, <3>3 DEF MemoIsRight
  <2>4. CASE Holds(p, fs, final)
    <3>1. verdict = None
      BY <2>1, <2>4 DEF Holds
    <3>2. \A j \in 1 .. i : Holds(def.prereqs[j], fs, final)
      <4>1. \A j \in 1 .. i : j = i \/ j \in 1 .. i - 1
        BY PrereqsAre
      <4>2. QED
        BY <2>4, <4>1 DEF HoldUpTo
    <3>3. QED
      BY <2>2, <2>3, <3>1, <3>2 DEF TurnIsRight
  <2>5. CASE ~Holds(p, fs, final)
    <3>1. verdict = Verdict(def, fs, final, p.flag) /\ verdict # None
      BY <1>1, <1>2, <2>1, <2>5 DEF Holds, Verdict
    <3>2. QED
      BY <1>3, <2>2, <2>3, <2>5, <3>1 DEF TurnIsRight
  <2>6. QED
    BY <2>4, <2>5
<1>6. QED
  BY <1>4, <1>5

\* One evaluation, of a flag whose prerequisites the level below is right about.
LEMMA EvaluationIsRight ==
    ASSUME NEW fs \in Configurations, NEW segs, NEW n \in Nat, n < MaxPrerequisiteDepth + 1,
           NEW f \in Sure(fs, segs, n + 1), NEW memo, MemoIsRight(memo, fs, segs),
           NEW inner \in LevelType(fs), LevelIsRight(inner, Sure(fs, segs, n), fs, segs)
    PROVE  LET evaluated == EvaluateInternal(f, fs[f], fs, segs, 0, memo, inner)
           IN  /\ evaluated.result = Reference(fs, segs)[f]
               /\ MemoIsRight(evaluated.memo, fs, segs)
<1> DEFINE def == fs[f]
           L == Len(def.prereqs)
           final == Reference(fs, segs)
           turn == CheckPrerequisites(def, fs, memo, inner)
<1>1. f \in HeldFlags(fs) /\ f \in Flags /\ def \in FlagType /\ L \in Nat
      /\ ~(0 > MaxPrerequisiteDepth)
  BY HeldFlagsAre, PrereqsAre, EvaluationAssumption DEF Sure
<1>2. final[f] = Judge(def, fs, segs, final)
  BY SureJudge
<1>3. CASE ~def.on
  BY <1>1, <1>2, <1>3, JudgeOff DEF EvaluateInternal
<1>4. CASE def.on
  <2>1. memo \in Memos
    BY DEF MemoIsRight
  <2>2. /\ turn \in [0 .. L -> Checked] /\ turn[0] = [verdict |-> None, memo |-> memo]
        /\ \A i \in Nat : i < L =>
             turn[i + 1] = IF turn[i].verdict # None THEN turn[i]
                           ELSE CheckPrerequisite(def.prereqs[i + 1], def, fs,
                                                  turn[i].memo, inner)
    <3>1. TakesTurns(turn, def, fs, memo, inner)
      BY <1>1, <2>1, Turns DEF LevelType
    <3> HIDE DEF turn
    <3>2. QED
      BY <3>1 DEF TakesTurns
  <2> HIDE DEF turn
  <2> DEFINE T == {i \in 0 .. L : TurnIsRight(turn[i], i, def, fs, segs)}
  <2>3. 0 \in T
    BY <1>1, <2>2 DEF TurnIsRight
  <2>4. ASSUME NEW i \in Nat, i < L, i \in T PROVE i + 1 \in T
    <3>1. i + 1 \in 1 .. L /\ i + 1 \in 0 .. L /\ i \in 0 .. L /\ (i + 1) - 1 = i
      BY <1>1, <2>4
    <3>2. TurnIsRight(turn[i], i, def, fs, segs)
      BY <2>4
    <3>3. CASE turn[i].verdict # None
      BY <2>2, <2>4, <3>1, <3>2, <3>3 DEF TurnIsRight
    <3>4. CASE turn[i].verdict = None
      <4>1. HoldUpTo(def, fs, final, i + 1) /\ MemoIsRight(turn[i].memo, fs, segs)
        BY <3>1, <3>2, <3>4 DEF TurnIsRight, HoldUpTo
      <4>2. SureFrom(fs, segs, n)
        <5>1. n \in 0 .. MaxPrerequisiteDepth + 1
          BY EvaluationAssumption
        <5>2. QED
          BY <5>1, SureAreSure
      <4>3. fs[def.prereqs[i + 1].flag] = None
            \/ def.prereqs[i + 1].flag \in Sure(fs, segs, n)
        BY <1>4, <3>1, <4>1, <4>2, SureAsks
      <4>4. Sure(fs, segs, n) \in SUBSET HeldFlags(fs)
        BY DEF Sure
      <4>5. turn[i + 1] = CheckPrerequisite(def.prereqs[i + 1], def, fs, turn[i].memo, inner)
        BY <2>2, <2>4, <3>4
      <4> HIDE DEF def, L, final
      <4>6. TurnIsRight(turn[i + 1], i + 1, def, fs, segs)
        BY <1>1, <1>4, <3>1, <4>1, <4>3, <4>4, <4>5, PrerequisiteIsRight DEF L, final
      <4>7. QED
        BY <3>1, <4>6
    <3>5. QED
      BY <3>3, <3>4
  <2>5. 0 .. L \subseteq T
    <3> HIDE DEF T, L
    <3>1. QED
      BY <1>1, <2>3, <2>4, Upwards
  <2>6. TurnIsRight(turn[L], L, def, fs, segs) /\ turn[L] \in Checked
    BY <1>1, <2>2, <2>5
  <2> DEFINE result == IF turn[L].verdict = None THEN OwnResult(def, segs) ELSE turn[L].verdict
  <2>7. result = final[f]
    <3>1. CASE turn[L].verdict = None
      <4>1. Judge(def, fs, segs, final) = OwnResult(def, segs)
        BY <1>1, <1>4, <2>6, <3>1, JudgeAll DEF TurnIsRight
      <4>2. QED
        BY <1>2, <3>1, <4>1
    <3>2. CASE turn[L].verdict # None
      BY <1>2, <2>6, <3>2 DEF TurnIsRight
    <3>3. QED
      BY <3>1, <3>2
  <2>8. result \in Details
    BY <1>1, <2>6, OwnResultType DEF Checked
  <2>9. EvaluateInternal(f, def, fs, segs, 0, memo, inner) =
          [result |-> result, memo |-> [turn[L].memo EXCEPT ![f] = result]]
    BY <1>1, <1>4 DEF EvaluateInternal, turn
  <2> HIDE DEF result
  <2>10. MemoIsRight([turn[L].memo EXCEPT ![f] = result], fs, segs)
    <3> DEFINE after == [turn[L].memo EXCEPT ![f] = result]
    <3>1. turn[L].memo \in Memos /\ MemoIsRight(turn[L].memo, fs, segs)
      BY <2>6 DEF TurnIsRight, Checked
    <3>2. after \in Memos /\ \A g \in Flags : after[g] = IF g = f THEN result ELSE turn[L].memo[g]
      BY <1>1, <2>8, <3>1 DEF Memos
    <3> HIDE DEF after
    <3>3. fs[f] # None
      BY <1>1 DEF HeldFlags
    <3>4. QED
      BY <2>7, <3>1, <3>2, <3>3 DEF MemoIsRight, after
  <2>11. QED
    BY <2>7, <2>9, <2>10
<1>5. QED
  BY <1>1, <1>3, <1>4 DEF FlagType

LEMMA LevelsAreRight ==
    ASSUME NEW fs \in Configurations, NEW segs
    PROVE  \A n \in 0 .. MaxPrerequisiteDepth :
              LevelIsRight(Levels(fs, segs)[n], Sure(fs, segs, n), fs, segs)
<1> DEFINE N == MaxPrerequisiteDepth
           level == Levels(fs, segs)
           T == {n \in 0 .. N : LevelIsRight(level[n], Sure(fs, segs, n), fs, segs)}
<1>1. N \in Nat
  BY EvaluationAssumption
<1>2. 0 \in T
  BY <1>1, NoneIsSureAtFirst DEF LevelIsRight
<1>3. ASSUME NEW n \in Nat, n < N, n \in T PROVE n + 1 \in T
  <2>1. n + 1 \in 0 .. N /\ n < MaxPrerequisiteDepth + 1 /\ n \in 0 .. N
    BY <1>1, <1>3
  <2>2. level[n] \in LevelType(fs)
    BY <2>1, LevelsUnfold
  <2>3. ASSUME NEW f \in Sure(fs, segs, n + 1), NEW memo \in Memos, MemoIsRight(memo, fs, segs)
        PROVE  /\ level[n + 1][<<f, memo>>].result = Reference(fs, segs)[f]
               /\ MemoIsRight(level[n + 1][<<f, memo>>].memo, fs, segs)
    <3>1. level[n + 1][<<f, memo>>] = EvaluateInternal(f, fs[f], fs, segs, 0, memo, level[n])
      BY <1>3, LevelsUnfold DEF Sure
    <3> HIDE DEF level
    <3>2. QED
      BY <1>3, <2>1, <2>2, <2>3, <3>1, EvaluationIsRight
  <2>4. QED
    BY <2>1, <2>3 DEF LevelIsRight
<1>4. 0 .. N \subseteq T
  <2> HIDE DEF T, N
  <2>1. QED
    BY <1>1, <1>2, <1>3, Upwards
<1>5. QED
  BY <1>4

\* The call from outside, whatever was evaluated with the memo before.
LEMMA EvaluateFromIsRight ==
    ASSUME NEW fs \in Configurations, NEW segs,
           NEW f \in Sure(fs, segs, MaxPrerequisiteDepth + 1),
           NEW memo, MemoIsRight(memo, fs, segs)
    PROVE  /\ EvaluateFrom(f, fs[f], fs, segs, memo).result = Reference(fs, segs)[f]
           /\ MemoIsRight(EvaluateFrom(f, fs[f], fs, segs, memo).memo, fs, segs)
<1> DEFINE N == MaxPrerequisiteDepth
           inner == Levels(fs, segs)[N]
<1>1. N \in Nat /\ N \in 0 .. N /\ N < N + 1
  BY EvaluationAssumption
<1>2. inner \in LevelType(fs) /\ LevelIsRight(inner, Sure(fs, segs, N), fs, segs)
  BY <1>1, LevelsUnfold, LevelsAreRight
<1>3. EvaluateFrom(f, fs[f], fs, segs, memo) =
        EvaluateInternal(f, fs[f], fs, segs, 0, memo, inner)
  BY DEF EvaluateFrom
<1> HIDE DEF inner
<1>4. QED
  BY <1>1, <1>2, <1>3, EvaluationIsRight

LEMMA NoMemoIsRight ==
    ASSUME NEW fs, NEW segs PROVE MemoIsRight(NoMemo, fs, segs)
BY NoMemoType DEF MemoIsRight, NoMemo

-----------------------------------------------------------------------------
(* The memo changes nothing.                                               *)

\* Where no chain of prerequisites is too long every held flag is sure.
LEMMA ShallowAreSure ==
    ASSUME NEW fs, NEW segs, Shallow(fs)
    PROVE  HeldFlags(fs) \subseteq Sure(fs, segs, MaxPrerequisiteDepth + 1)
BY DEF Shallow, Sure

\* A flag evaluated alone, against the reference.
LEMMA OutcomeIsReference ==
    ASSUME NEW fs \in Configurations, NEW segs, NEW f \in HeldFlags(fs),
           Shallow(fs) \/ Reference(fs, segs)[f].reason # "Error"
    PROVE  Evaluate(f, fs, segs) = Reference(fs, segs)[f]
<1>1. f \in Sure(fs, segs, MaxPrerequisiteDepth + 1)
  BY ShallowAreSure DEF Sure, Reference
<1>2. EvaluateFrom(f, fs[f], fs, segs, NoMemo).result = Reference(fs, segs)[f]
  BY <1>1, NoMemoIsRight, EvaluateFromIsRight
<1>3. fs[f] # None
  BY DEF HeldFlags
<1>4. QED
  BY <1>2, <1>3 DEF Evaluate, EvaluateHeld

LEMMA EvaluateFromType ==
    ASSUME NEW fs \in Configurations, NEW segs, NEW f \in Flags, NEW def \in FlagType,
           NEW memo \in Memos
    PROVE  EvaluateFrom(f, def, fs, segs, memo) \in Evaluated
<1>1. MaxPrerequisiteDepth \in 0 .. MaxPrerequisiteDepth
  BY EvaluationAssumption
<1>2. Levels(fs, segs)[MaxPrerequisiteDepth] \in LevelType(fs)
  BY <1>1, LevelsUnfold
<1>3. QED
  BY <1>2, EvaluateInternalType DEF EvaluateFrom

\* The sweep, flag by flag.
Sweeps(swept, order, fs, segs) ==
    /\ swept[0] = [memo |-> NoMemo, results |-> NoMemo]
    /\ \A i \in Nat : i < Len(order) =>
         LET evaluated == EvaluateFrom(order[i + 1], fs[order[i + 1]], fs, segs, swept[i].memo)
         IN  swept[i + 1] = [memo |-> evaluated.memo,
                             results |-> [swept[i].results EXCEPT
                                            ![order[i + 1]] = evaluated.result]]

LEMMA SweepUnfolds ==
    ASSUME NEW fs \in Configurations, NEW segs, NEW order \in Seq(HeldFlags(fs))
    PROVE  Sweeps(EvaluateWithSharedMemo(order, fs, segs), order, fs, segs)
<1> DEFINE N == Len(order)
           S == [memo : Memos, results : Memos]
           start == [memo |-> NoMemo, results |-> NoMemo]
           evaluated(i, c) == EvaluateFrom(order[i], fs[order[i]], fs, segs, c.memo)
           After(i, c) == [memo |-> evaluated(i, c).memo,
                           results |-> [c.results EXCEPT ![order[i]] = evaluated(i, c).result]]
           next == [c \in (0 .. N) \X S |-> IF c[1] < N THEN After(c[1] + 1, c[2]) ELSE c[2]]
           swept == EvaluateWithSharedMemo(order, fs, segs)
<1>1. N \in Nat /\ \A i \in 1 .. N : order[i] \in HeldFlags(fs)
  OBVIOUS
<1>2. \A i \in 1 .. N, c \in S : After(i, c) \in S
  <2> TAKE i \in 1 .. N, c \in S
  <2>1. order[i] \in Flags /\ fs[order[i]] \in FlagType /\ c.memo \in Memos /\ c.results \in Memos
    BY <1>1, HeldFlagsAre
  <2>2. evaluated(i, c) \in Evaluated
    BY <2>1, EvaluateFromType
  <2> HIDE DEF evaluated
  <2>3. evaluated(i, c).memo \in Memos /\ evaluated(i, c).result \in Details
    BY <2>2 DEF Evaluated
  <2>4. [c.results EXCEPT ![order[i]] = evaluated(i, c).result] \in Memos
    BY <2>1, <2>3 DEF Memos
  <2>5. QED
    BY <2>3, <2>4
<1>3. start \in S
  BY NoMemoType
<1>4. swept = CHOOSE t : t = [i \in 0 .. N |-> IF i = 0 THEN start ELSE After(i, t[i - 1])]
  BY DEF EvaluateWithSharedMemo
<1> HIDE DEF N, After, start, S, swept
<1>5. next \in [(0 .. N) \X S -> S]
  <2>1. ASSUME NEW c \in (0 .. N) \X S
        PROVE  (IF c[1] < N THEN After(c[1] + 1, c[2]) ELSE c[2]) \in S
    <3>1. c[1] \in 0 .. N /\ c[2] \in S
      OBVIOUS
    <3>2. c[1] < N => c[1] + 1 \in 1 .. N
      BY <1>1, <3>1
    <3>3. QED
      BY <1>2, <3>1, <3>2
  <2>2. QED
    BY <2>1
<1>6. PICK g : Unfolds(g, N, S, start, next)
  <2> HIDE DEF next
  <2>1. QED
    BY <1>1, <1>3, <1>5, RecursionExists
<1>7. g = [i \in 0 .. N |-> IF i = 0 THEN start ELSE After(i, g[i - 1])]
  <2>1. ASSUME NEW i \in 0 .. N, i # 0 PROVE g[i] = After(i, g[i - 1])
    <3>1. i - 1 \in Nat /\ i - 1 < N /\ i - 1 \in 0 .. N /\ (i - 1) + 1 = i
      BY <1>1, <2>1
    <3>2. g[i] = next[<<i - 1, g[i - 1]>>]
      BY <1>6, <3>1 DEF Unfolds
    <3>3. <<i - 1, g[i - 1]>> \in (0 .. N) \X S
      BY <1>6, <3>1 DEF Unfolds
    <3>4. QED
      BY <3>1, <3>2, <3>3
  <2>2. QED
    BY <1>6, <2>1 DEF Unfolds
<1>8. swept = [i \in 0 .. N |-> IF i = 0 THEN start ELSE After(i, swept[i - 1])]
  BY <1>4, <1>7
<1>9. swept[0] = start /\ \A i \in Nat : i < N => swept[i + 1] = After(i + 1, swept[i])
  <2>1. \A i \in Nat : i < N => i + 1 \in 0 .. N /\ i + 1 # 0 /\ (i + 1) - 1 = i
    BY <1>1
  <2>2. 0 \in 0 .. N
    BY <1>1
  <2>3. QED
    BY <1>8, <2>1, <2>2
<1>10. QED
  BY <1>9 DEF N, start, After, Sweeps, swept

\* After i flags the memo is right and so are the i results.
SweptIsRight(swept, i, order, fs, segs) ==
    /\ MemoIsRight(swept[i].memo, fs, segs)
    /\ swept[i].results \in Memos
    /\ \A j \in 1 .. i : swept[i].results[order[j]] = Reference(fs, segs)[order[j]]

LEMMA SweepIsRight ==
    ASSUME NEW fs \in Configurations, NEW segs, Shallow(fs), NEW order \in Seq(HeldFlags(fs)),
           NEW swept, Sweeps(swept, order, fs, segs)
    PROVE  SweptIsRight(swept, Len(order), order, fs, segs)
<1> DEFINE N == Len(order)
           T == {i \in 0 .. N : SweptIsRight(swept, i, order, fs, segs)}
<1>1. N \in Nat /\ \A i \in 1 .. N : order[i] \in HeldFlags(fs)
  OBVIOUS
<1>2. 0 \in T
  <2>1. swept[0].memo = NoMemo /\ swept[0].results = NoMemo
    BY DEF Sweeps
  <2>2. SweptIsRight(swept, 0, order, fs, segs)
    BY <2>1, NoMemoType, NoMemoIsRight DEF SweptIsRight
  <2>3. QED
    BY <1>1, <2>2
<1>3. ASSUME NEW n \in Nat, n < N, n \in T PROVE n + 1 \in T
  <2> DEFINE f == order[n + 1]
             evaluated == EvaluateFrom(f, fs[f], fs, segs, swept[n].memo)
  <2>1. n + 1 \in 1 .. N
    BY <1>1, <1>3
  <2>2. f \in HeldFlags(fs) /\ f \in Flags /\ fs[f] \in FlagType
    BY <1>1, <2>1, HeldFlagsAre
  <2>3. SweptIsRight(swept, n, order, fs, segs)
    BY <1>3
  <2>4. swept[n + 1] = [memo |-> evaluated.memo,
                        results |-> [swept[n].results EXCEPT ![f] = evaluated.result]]
    BY <1>3 DEF Sweeps
  <2>5. evaluated.result = Reference(fs, segs)[f] /\ MemoIsRight(evaluated.memo, fs, segs)
    <3>1. f \in Sure(fs, segs, MaxPrerequisiteDepth + 1)
      BY <2>2, ShallowAreSure
    <3>2. QED
      BY <2>3, <3>1, EvaluateFromIsRight DEF SweptIsRight
  <2>6. evaluated.result \in Details
    <3>1. swept[n].memo \in Memos
      BY <2>3 DEF SweptIsRight, MemoIsRight
    <3>2. evaluated \in Evaluated
      BY <2>2, <3>1, EvaluateFromType
    <3> HIDE DEF evaluated
    <3>3. QED
      BY <3>2 DEF Evaluated
  <2> HIDE DEF evaluated
  <2>7. swept[n + 1].results \in Memos
    BY <2>2, <2>3, <2>4, <2>6 DEF SweptIsRight, Memos
  <2>8. ASSUME NEW j \in 1 .. n + 1
        PROVE  swept[n + 1].results[order[j]] = Reference(fs, segs)[order[j]]
    <3>1. j \in 1 .. N
      BY <1>3, <2>1
    <3>2. order[j] \in Flags
      BY <1>1, <3>1, HeldFlagsAre
    <3>3. CASE order[j] = f
      BY <2>2, <2>3, <2>4, <2>5, <3>3 DEF SweptIsRight, Memos
    <3>4. CASE order[j] # f
      <4>1. j \in 1 .. n
        BY <2>8, <3>4
      <4>2. swept[n + 1].results[order[j]] = swept[n].results[order[j]]
        BY <2>3, <2>4, <3>2, <3>4 DEF SweptIsRight, Memos
      <4>3. QED
        BY <2>3, <4>1, <4>2 DEF SweptIsRight
    <3>5. QED
      BY <3>3, <3>4
  <2>9. SweptIsRight(swept, n + 1, order, fs, segs)
    BY <2>4, <2>5, <2>7, <2>8 DEF SweptIsRight
  <2>10. QED
    BY <2>1, <2>9
<1>4. 0 .. N \subseteq T
  <2> HIDE DEF T, N
  <2>1. QED
    BY <1>1, <1>2, <1>3, Upwards
<1>5. QED
  BY <1>1, <1>4

-----------------------------------------------------------------------------
(* The store's writes.                                                     *)

\* What the store holds.
Stored == flags \in [Flags -> FlagStates] /\ segments \in [Segments -> SegmentStates]

LEMMA StoredIsConfiguration == Stored => flags \in Configurations
BY FlagUpdatesAssumption DEF Stored, FlagStates, Configurations

\* What the three writes have in common.
LEMMA WritesStore ==
    ASSUME Stored, Next
    PROVE  Stored'
<1>1. CASE \E some \in SUBSET Flags, newSegments \in [Segments -> SegmentStates] :
             /\ Cardinality(some) <= MaxMoves
             /\ \E defs \in [some -> FlagStates] :
                  SetAll([f \in Flags |-> IF f \in some THEN defs[f] ELSE flags[f]], newSegments)
  BY <1>1 DEF SetAll, Stored
<1>2. CASE \E f \in Flags, def \in FlagDefs : SetFlag(f, def)
  BY <1>2 DEF SetFlag, Stored, FlagStates
<1>3. CASE \E f \in Flags : RemoveFlag(f)
  BY <1>3 DEF RemoveFlag, Stored, FlagStates
<1>4. QED
  BY <1>1, <1>2, <1>3 DEF Next

\* The store always holds, under every key, a flag or none, and for every segment
\* what the context makes of it: the type invariant of the writes of store.go.
THEOREM StoreTyped == Spec => []Stored
<1>1. Init => Stored
  BY DEF Init, Stored, FlagStates, SegmentStates
<1>2. Stored /\ [Next]_vars => Stored'
  <2>1. Stored /\ UNCHANGED vars => Stored'
    BY DEF Stored, vars
  <2>2. QED
    BY <2>1, WritesStore
<1>3. QED
  BY <1>1, <1>2, PTL DEF Spec

\* A sweep over all held flags, in any order, gives each the result it gets alone.
LEMMA SweepsAgree ==
    ASSUME flags \in Configurations
    PROVE  SweepAgrees
<1> SUFFICES ASSUME Shallow(flags), NEW order \in SetToSeqs(Held)
             PROVE  LET swept == EvaluateWithSharedMemo(order, flags, segments)
                    IN  \A i \in DOMAIN order :
                          swept[Len(order)].results[order[i]] = Outcome(order[i])
  BY DEF SweepAgrees
<1> DEFINE swept == EvaluateWithSharedMemo(order, flags, segments)
<1>1. order \in Seq(HeldFlags(flags))
  <2>1. IsFiniteSet(HeldFlags(flags))
    BY FlagUpdatesAssumption, FS_Subset DEF HeldFlags
  <2>2. Cardinality(HeldFlags(flags)) \in Nat
    BY <2>1, FS_CardinalityType
  <2>3. order \in [1 .. Cardinality(HeldFlags(flags)) -> HeldFlags(flags)]
    BY DEF SetToSeqs, Held
  <2>4. QED
    BY <2>2, <2>3
<1>2. SweptIsRight(swept, Len(order), order, flags, segments)
  BY <1>1, SweepUnfolds, SweepIsRight
<1> HIDE DEF swept
<1>3. ASSUME NEW i \in DOMAIN order
      PROVE  swept[Len(order)].results[order[i]] = Outcome(order[i])
  <2>1. i \in 1 .. Len(order) /\ order[i] \in HeldFlags(flags)
    BY <1>1
  <2>2. Outcome(order[i]) = Reference(flags, segments)[order[i]]
    BY <2>1, OutcomeIsReference DEF Outcome
  <2>3. QED
    BY <1>2, <2>1, <2>2 DEF SweptIsRight
<1>4. QED
  BY <1>3 DEF swept

LEMMA TransparentMemo ==
    ASSUME flags \in Configurations
    PROVE  MemoIsTransparent
BY OutcomeIsReference DEF MemoIsTransparent, Held, Outcome

\* Whatever the store holds, the memo of evaluateInternal changes no result: of
\* one evaluation (unless the depth limit decides), or of a sweep of all flags.
THEOREM MemoIsHarmless == Spec => []MemoChangesNothing
<1>1. Stored => MemoChangesNothing
  BY StoredIsConfiguration, SweepsAgree, TransparentMemo DEF MemoChangesNothing
<1>2. QED
  BY <1>1, StoreTyped, PTL

-----------------------------------------------------------------------------
(* What a result depends on.                                               *)

\* What def asks for is in C, and the segments it uses are the same.
RestsOn(def, C, segs, news) ==
    /\ \A i \in DOMAIN def.prereqs : def.prereqs[i].flag \in C
    /\ \A r \in def.rules : r.when \in Segments => segs[r.when] = news[r.when]

\* C holds the same in both configurations, and whatever it depends on.
Undisturbed(C, fs, gs, segs, news) ==
    /\ C \subseteq Flags
    /\ \A f \in C : fs[f] = gs[f] /\ (fs[f] # None => RestsOn(fs[f], C, segs, news))

\* Two levels that give the flags of C the same.
SameLevel(C, fs, inner, other) ==
    \A f \in C, memo \in Memos : fs[f] # None => inner[<<f, memo>>] = other[<<f, memo>>]

LEMMA OwnResultAgrees ==
    ASSUME NEW def, NEW C, NEW segs, NEW news, RestsOn(def, C, segs, news)
    PROVE  OwnResult(def, segs) = OwnResult(def, news)
<1>1. ServingRules(def, segs) = ServingRules(def, news)
  BY DEF ServingRules, Matches, RestsOn
<1>2. QED
  BY <1>1 DEF OwnResult

LEMMA CheckPrerequisiteAgrees ==
    ASSUME NEW C, NEW fs \in Configurations, NEW gs \in Configurations, NEW segs, NEW news,
           Undisturbed(C, fs, gs, segs, news), NEW def, NEW p, p.flag \in C, NEW memo \in Memos,
           NEW inner, NEW other, SameLevel(C, fs, inner, other)
    PROVE  CheckPrerequisite(p, def, fs, memo, inner) = CheckPrerequisite(p, def, gs, memo, other)
<1>1. fs[p.flag] = gs[p.flag]
  BY DEF Undisturbed
<1>2. fs[p.flag] # None => inner[<<p.flag, memo>>] = other[<<p.flag, memo>>]
  BY DEF SameLevel
<1>3. CASE memo[p.flag] = None /\ fs[p.flag] = None
  BY <1>1, <1>3 DEF CheckPrerequisite
<1>4. CASE memo[p.flag] # None
  BY <1>1, <1>4 DEF CheckPrerequisite
<1>5. CASE memo[p.flag] = None /\ fs[p.flag] # None
  BY <1>1, <1>2, <1>5 DEF CheckPrerequisite
<1>6. QED
  BY <1>3, <1>4, <1>5

LEMMA EvaluateInternalAgrees ==
    ASSUME NEW C, NEW fs \in Configurations, NEW gs \in Configurations, NEW segs, NEW news,
           Undisturbed(C, fs, gs, segs, news),
           NEW f \in Flags, NEW def \in FlagType, RestsOn(def, C, segs, news), NEW memo \in Memos,
           NEW inner \in LevelType(fs), NEW other \in LevelType(gs), SameLevel(C, fs, inner, other)
    PROVE  EvaluateInternal(f, def, fs, segs, 0, memo, inner) =
           EvaluateInternal(f, def, gs, news, 0, memo, other)
<1> DEFINE N == Len(def.prereqs)
           turn == CheckPrerequisites(def, fs, memo, inner)
           twin == CheckPrerequisites(def, gs, memo, other)
           T == {i \in 0 .. N : turn[i] = twin[i]}
<1>1. N \in Nat /\ DOMAIN def.prereqs = 1 .. N
  BY PrereqsAre
<1>2. TakesTurns(turn, def, fs, memo, inner) /\ TakesTurns(twin, def, gs, memo, other)
  BY Turns DEF LevelType
<1> HIDE DEF turn, twin
<1>3. 0 \in T
  BY <1>1, <1>2 DEF TakesTurns
<1>4. ASSUME NEW n \in Nat, n < N, n \in T PROVE n + 1 \in T
  <2>1. n \in 0 .. N /\ n + 1 \in 0 .. N /\ n + 1 \in 1 .. N
    BY <1>1, <1>4
  <2>2. turn[n] = twin[n] /\ turn[n] \in Checked
    BY <1>2, <1>4, <2>1 DEF TakesTurns
  <2>3. turn[n].memo \in Memos
    BY <2>2 DEF Checked
  <2>4. def.prereqs[n + 1].flag \in C
    BY <1>1, <2>1 DEF RestsOn
  <2>5. CheckPrerequisite(def.prereqs[n + 1], def, fs, turn[n].memo, inner) =
          CheckPrerequisite(def.prereqs[n + 1], def, gs, turn[n].memo, other)
    BY <2>3, <2>4, CheckPrerequisiteAgrees
  <2>6. turn[n + 1] = twin[n + 1]
    BY <1>2, <1>4, <2>2, <2>5 DEF TakesTurns
  <2>7. QED
    BY <2>1, <2>6
<1>5. 0 .. N \subseteq T
  <2> HIDE DEF T, N
  <2>1. QED
    BY <1>1, <1>3, <1>4, Upwards
<1>6. turn[N] = twin[N]
  BY <1>1, <1>5
<1>7. OwnResult(def, segs) = OwnResult(def, news)
  BY OwnResultAgrees
<1>8. QED
  BY <1>6, <1>7 DEF EvaluateInternal, turn, twin

LEMMA LevelAtZero ==
    ASSUME NEW fs \in Configurations, NEW segs, NEW f \in HeldFlags(fs), NEW memo \in Memos
    PROVE  Levels(fs, segs)[0][<<f, memo>>] =
             [result |-> ServeOff(fs[f], "Error", None), memo |-> memo]
BY LevelsUnfold

LEMMA LevelIsTyped ==
    ASSUME NEW fs \in Configurations, NEW segs, NEW n \in 0 .. MaxPrerequisiteDepth
    PROVE  Levels(fs, segs)[n] \in LevelType(fs)
BY LevelsUnfold

LEMMA LevelAbove ==
    ASSUME NEW fs \in Configurations, NEW segs, NEW f \in HeldFlags(fs), NEW memo \in Memos,
           NEW n \in Nat, n < MaxPrerequisiteDepth
    PROVE  Levels(fs, segs)[n + 1][<<f, memo>>] =
             EvaluateInternal(f, fs[f], fs, segs, 0, memo, Levels(fs, segs)[n])
BY LevelsUnfold

LEMMA LevelsAgree ==
    ASSUME NEW C, NEW fs \in Configurations, NEW gs \in Configurations, NEW segs, NEW news,
           Undisturbed(C, fs, gs, segs, news)
    PROVE  \A n \in 0 .. MaxPrerequisiteDepth :
              SameLevel(C, fs, Levels(fs, segs)[n], Levels(gs, news)[n])
<1> DEFINE N == MaxPrerequisiteDepth
           level == Levels(fs, segs)
           twin == Levels(gs, news)
           T == {n \in 0 .. N : SameLevel(C, fs, level[n], twin[n])}
<1>1. N \in Nat
  BY EvaluationAssumption
<1>2. ASSUME NEW f \in C, fs[f] # None
      PROVE  f \in HeldFlags(fs) /\ f \in HeldFlags(gs) /\ fs[f] = gs[f] /\ f \in Flags
             /\ RestsOn(fs[f], C, segs, news)
  BY <1>2 DEF Undisturbed, HeldFlags
<1>3. 0 \in T
  <2>1. ASSUME NEW f \in C, NEW memo \in Memos, fs[f] # None
        PROVE  level[0][<<f, memo>>] = twin[0][<<f, memo>>]
    <3>1. level[0][<<f, memo>>] = [result |-> ServeOff(fs[f], "Error", None), memo |-> memo]
      BY <1>2, <2>1, LevelAtZero
    <3>2. twin[0][<<f, memo>>] = [result |-> ServeOff(gs[f], "Error", None), memo |-> memo]
      BY <1>2, <2>1, LevelAtZero
    <3>3. QED
      BY <1>2, <2>1, <3>1, <3>2
  <2>2. SameLevel(C, fs, level[0], twin[0])
    <3> HIDE DEF level, twin
    <3>1. QED
      BY <2>1 DEF SameLevel
  <2>3. QED
    BY <1>1, <2>2
<1>4. ASSUME NEW n \in Nat, n < N, n \in T PROVE n + 1 \in T
  <2>1. n \in 0 .. N /\ n + 1 \in 0 .. N
    BY <1>1, <1>4
  <2>2. level[n] \in LevelType(fs) /\ twin[n] \in LevelType(gs)
    BY <2>1, LevelIsTyped
  <2>3. SameLevel(C, fs, level[n], twin[n])
    BY <1>4
  <2>4. ASSUME NEW f \in C, NEW memo \in Memos, fs[f] # None
        PROVE  level[n + 1][<<f, memo>>] = twin[n + 1][<<f, memo>>]
    <3>1. f \in HeldFlags(fs) /\ f \in HeldFlags(gs) /\ fs[f] = gs[f] /\ f \in Flags
          /\ RestsOn(fs[f], C, segs, news) /\ fs[f] \in FlagType
      BY <1>2, <2>4, HeldFlagsAre
    <3>2. level[n + 1][<<f, memo>>] = EvaluateInternal(f, fs[f], fs, segs, 0, memo, level[n])
      BY <1>4, <3>1, LevelAbove
    <3>3. twin[n + 1][<<f, memo>>] = EvaluateInternal(f, gs[f], gs, news, 0, memo, twin[n])
      BY <1>4, <3>1, LevelAbove
    <3> HIDE DEF level, twin
    <3>4. EvaluateInternal(f, fs[f], fs, segs, 0, memo, level[n]) =
            EvaluateInternal(f, fs[f], gs, news, 0, memo, twin[n])
      BY <2>2, <2>3, <3>1, EvaluateInternalAgrees
    <3>5. QED
      BY <3>1, <3>2, <3>3, <3>4
  <2>5. QED
    BY <2>1, <2>4 DEF SameLevel
<1>5. 0 .. N \subseteq T
  <2> HIDE DEF T, N
  <2>1. QED
    BY <1>1, <1>3, <1>4, Upwards
<1>6. QED
  BY <1>5

\* The same flag, on two configurations that differ in nothing it depends on.
LEMMA HeldAgrees ==
    ASSUME NEW C, NEW fs \in Configurations, NEW gs \in Configurations, NEW segs, NEW news,
           Undisturbed(C, fs, gs, segs, news),
           NEW f \in Flags, NEW def \in FlagType \union {None},
           def # None => RestsOn(def, C, segs, news)
    PROVE  EvaluateHeld(f, def, fs, segs) = EvaluateHeld(f, def, gs, news)
<1>1. CASE def = None
  BY <1>1 DEF EvaluateHeld
<1>2. CASE def # None
  <2>1. MaxPrerequisiteDepth \in 0 .. MaxPrerequisiteDepth
    BY EvaluationAssumption
  <2> DEFINE inner == Levels(fs, segs)[MaxPrerequisiteDepth]
             other == Levels(gs, news)[MaxPrerequisiteDepth]
  <2>2. inner \in LevelType(fs) /\ other \in LevelType(gs) /\ SameLevel(C, fs, inner, other)
    BY <2>1, LevelsUnfold, LevelsAgree
  <2> HIDE DEF inner, other
  <2>3. EvaluateInternal(f, def, fs, segs, 0, NoMemo, inner) =
          EvaluateInternal(f, def, gs, news, 0, NoMemo, other)
    BY <1>2, <2>2, NoMemoType, EvaluateInternalAgrees
  <2>4. QED
    BY <1>2, <2>3 DEF EvaluateHeld, EvaluateFrom, inner, other
<1>3. QED
  BY <1>1, <1>2

-----------------------------------------------------------------------------
(* The walk over dependents, and the reports.                              *)

\* walked is what the seeds lead to: nothing outside it asks for a flag in it, and
\* whatever is in it is a seed or asks for a flag in it.
Walked(fs, seeds, walked) ==
    /\ walked \subseteq Flags
    /\ seeds \subseteq walked
    /\ Dependents(fs, walked, None) \subseteq walked
    /\ walked \subseteq seeds \union Dependents(fs, walked, None)

\* The rounds of the walk.
Rounds(walk, fs, seeds, N) ==
    /\ walk \in [0 .. N -> SUBSET Flags] /\ walk[0] = seeds
    /\ \A n \in Nat : n < N => walk[n + 1] = walk[n] \union Dependents(fs, walk[n], None)

LEMMA DependentsAreFlags ==
    ASSUME NEW fs \in Configurations, NEW keys
    PROVE  Dependents(fs, keys, None) \subseteq Flags
BY DEF Dependents, Configurations

LEMMA WalkUnfolds ==
    ASSUME NEW fs \in Configurations, NEW seeds \in SUBSET Flags
    PROVE  \E walk : /\ Rounds(walk, fs, seeds, Cardinality(Flags))
                     /\ AddPrerequisiteDependents(fs, seeds, None) = walk[Cardinality(Flags)]
<1> DEFINE N == Cardinality(Flags)
           S == SUBSET Flags
           After(c) == c \union Dependents(fs, c, None)
           next == [c \in (0 .. N) \X S |-> After(c[2])]
           walk == CHOOSE t : t = [n \in 0 .. N |-> IF n = 0 THEN seeds ELSE After(t[n - 1])]
<1>1. N \in Nat /\ DOMAIN fs = Flags
  BY FlagUpdatesAssumption, FS_CardinalityType DEF Configurations
<1>2. \A c \in S : After(c) \in S
  BY DependentsAreFlags
<1>3. AddPrerequisiteDependents(fs, seeds, None) = walk[N]
  BY <1>1 DEF AddPrerequisiteDependents
<1> HIDE DEF N, S, After, walk
<1>4. next \in [(0 .. N) \X S -> S]
  BY <1>2
<1>5. seeds \in S
  BY DEF S
<1>6. PICK g : Unfolds(g, N, S, seeds, next)
  <2> HIDE DEF next
  <2>1. QED
    BY <1>1, <1>4, <1>5, RecursionExists
<1>7. g = [n \in 0 .. N |-> IF n = 0 THEN seeds ELSE After(g[n - 1])]
  <2>1. ASSUME NEW n \in 0 .. N, n # 0 PROVE g[n] = After(g[n - 1])
    <3>1. n - 1 \in Nat /\ n - 1 < N /\ n - 1 \in 0 .. N /\ (n - 1) + 1 = n
      BY <1>1, <2>1
    <3>2. g[n] = next[<<n - 1, g[n - 1]>>]
      BY <1>6, <3>1 DEF Unfolds
    <3>3. <<n - 1, g[n - 1]>> \in (0 .. N) \X S
      BY <1>6, <3>1 DEF Unfolds
    <3>4. QED
      BY <3>2, <3>3
  <2>2. QED
    BY <1>6, <2>1 DEF Unfolds
<1>8. walk = [n \in 0 .. N |-> IF n = 0 THEN seeds ELSE After(walk[n - 1])]
  BY <1>7 DEF walk
<1>9. walk[0] = seeds /\ \A n \in Nat : n < N => walk[n + 1] = After(walk[n])
  <2>1. \A n \in Nat : n < N => n + 1 \in 0 .. N /\ n + 1 # 0 /\ (n + 1) - 1 = n
    BY <1>1
  <2>2. 0 \in 0 .. N
    BY <1>1
  <2>3. QED
    BY <1>8, <2>1, <2>2
<1>10. walk \in [0 .. N -> S]
  <2> DEFINE T == {n \in 0 .. N : walk[n] \in S}
  <2>1. 0 \in T
    BY <1>1, <1>5, <1>9
  <2>2. \A n \in Nat : n < N /\ n \in T => n + 1 \in T
    BY <1>1, <1>2, <1>9
  <2>3. 0 .. N \subseteq T
    <3> HIDE DEF T
    <3>1. QED
      BY <1>1, <2>1, <2>2, Upwards
  <2>4. QED
    BY <1>8, <2>3
<1>11. Rounds(walk, fs, seeds, N)
  BY <1>9, <1>10 DEF Rounds, S, After
<1>12. QED
  BY <1>3, <1>11 DEF N

\* A round that adds nothing was not needed, and one that adds a flag can happen
\* only as often as there are flags.
LEMMA WalkIsWalked ==
    ASSUME NEW fs \in Configurations, NEW seeds \in SUBSET Flags
    PROVE  Walked(fs, seeds, AddPrerequisiteDependents(fs, seeds, None))
<1> DEFINE N == Cardinality(Flags)
<1>1. PICK walk : Rounds(walk, fs, seeds, N)
                  /\ AddPrerequisiteDependents(fs, seeds, None) = walk[N]
  BY WalkUnfolds
<1>2. N \in Nat
  BY FlagUpdatesAssumption, FS_CardinalityType
<1> DEFINE Closed(n) == Dependents(fs, walk[n], None) \subseteq walk[n]
           T == {n \in 0 .. N : Closed(n) \/ Cardinality(walk[n]) >= n}
           U == {n \in 0 .. N : /\ seeds \subseteq walk[n]
                                /\ walk[n] \subseteq seeds \union Dependents(fs, walk[n], None)}
<1>3. ASSUME NEW n \in 0 .. N
      PROVE  /\ walk[n] \subseteq Flags /\ IsFiniteSet(walk[n]) /\ Cardinality(walk[n]) \in Nat
             /\ Cardinality(walk[n]) <= N /\ (Cardinality(walk[n]) = N => walk[n] = Flags)
  <2>1. walk[n] \subseteq Flags
    BY <1>1 DEF Rounds
  <2>2. QED
    BY <2>1, FlagUpdatesAssumption, FS_Subset, FS_CardinalityType
<1>4. 0 \in T /\ 0 \in U
  BY <1>1, <1>2, <1>3 DEF Rounds
<1>5. ASSUME NEW n \in Nat, n < N PROVE /\ n \in T => n + 1 \in T
                                        /\ n \in U => n + 1 \in U
  <2>1. n \in 0 .. N /\ n + 1 \in 0 .. N
    BY <1>2, <1>5
  <2>2. walk[n + 1] = walk[n] \union Dependents(fs, walk[n], None)
    BY <1>1, <1>5 DEF Rounds
  <2>3. CASE Closed(n)
    <3>1. walk[n + 1] = walk[n]
      BY <2>2, <2>3
    <3>2. QED
      BY <2>1, <2>3, <3>1
  <2>4. CASE ~Closed(n)
    <3>1. walk[n] \subseteq walk[n + 1] /\ walk[n] # walk[n + 1]
      BY <2>2, <2>4
    <3>2. IsFiniteSet(walk[n + 1]) /\ Cardinality(walk[n + 1]) \in Nat
          /\ Cardinality(walk[n]) \in Nat
      BY <1>3, <2>1
    <3>3. Cardinality(walk[n]) <= Cardinality(walk[n + 1])
          /\ Cardinality(walk[n]) # Cardinality(walk[n + 1])
      BY <3>1, <3>2, FS_Subset
    <3>4. n \in T => Cardinality(walk[n + 1]) >= n + 1
      BY <2>4, <3>2, <3>3
    <3>5. n \in T => n + 1 \in T
      BY <2>1, <3>4
    <3>6. n \in U => n + 1 \in U
      <4>1. Dependents(fs, walk[n], None) \subseteq Dependents(fs, walk[n + 1], None)
        BY <3>1 DEF Dependents
      <4>2. QED
        BY <2>1, <2>2, <3>1, <4>1
    <3>7. QED
      BY <3>5, <3>6
  <2>5. QED
    BY <2>3, <2>4
<1>6. 0 .. N \subseteq T /\ 0 .. N \subseteq U
  <2> HIDE DEF T, U, N
  <2>1. QED
    BY <1>2, <1>4, <1>5, Upwards
<1>7. N \in 0 .. N
  BY <1>2
<1>8. Closed(N)
  <2>1. CASE Cardinality(walk[N]) >= N
    <3>1. walk[N] = Flags
      BY <1>2, <1>3, <1>7, <2>1
    <3>2. QED
      BY <3>1, DependentsAreFlags
  <2>2. QED
    BY <1>6, <1>7, <2>1
<1>9. QED
  BY <1>1, <1>3, <1>6, <1>7, <1>8 DEF Walked

\* What the keys that a write reports must be, from one configuration to the next.
TellsWhatMoved(keys, fs, segs, gs, news) ==
    /\ \A f \in Flags \ keys : Evaluate(f, gs, news) = Evaluate(f, fs, segs)
    /\ \A f \in keys :
        \/ gs[f] # fs[f]
        \/ /\ gs[f] # None
           /\ \/ \E r \in gs[f].rules : r.when \in Segments /\ news[r.when] # segs[r.when]
              \/ \E i \in DOMAIN gs[f].prereqs : gs[f].prereqs[i].flag \in keys

LEMMA DiffTells ==
    ASSUME NEW fs \in Configurations, NEW gs \in Configurations,
           NEW segs \in [Segments -> SegmentStates], NEW news \in [Segments -> SegmentStates]
    PROVE  TellsWhatMoved(DiffSnapshot(fs, segs, gs, news, None), fs, segs, gs, news)
<1> DEFINE using == Referring(gs, Moved(segs, news), None)
           seeds == Moved(fs, gs) \union using
           keys == DiffSnapshot(fs, segs, gs, news, None)
           C == Flags \ keys
<1>1. DOMAIN gs = Flags /\ DOMAIN news = Segments
  BY DEF Configurations
<1>2. seeds \in SUBSET Flags
  BY <1>1 DEF Moved, Referring
<1>3. Walked(gs, seeds, keys)
  <2>1. keys = AddPrerequisiteDependents(gs, seeds, None)
    BY DEF DiffSnapshot
  <2> HIDE DEF keys, seeds
  <2>2. QED
    BY <1>2, <2>1, WalkIsWalked
<1>4. ASSUME NEW f \in C
      PROVE  fs[f] = gs[f] /\ (fs[f] # None => RestsOn(fs[f], C, segs, news))
  <2>1. f \in Flags /\ f \notin seeds /\ f \notin Dependents(gs, keys, None)
    BY <1>3 DEF Walked
  <2>2. fs[f] = gs[f]
    BY <1>1, <2>1 DEF Moved
  <2>3. ASSUME fs[f] # None PROVE RestsOn(fs[f], C, segs, news)
    <3>1. gs[f] \in FlagType /\ gs[f] # None
      BY <2>1, <2>2, <2>3 DEF Configurations
    <3>2. ASSUME NEW i \in DOMAIN gs[f].prereqs PROVE gs[f].prereqs[i].flag \in C
      <4>1. gs[f].prereqs[i].flag \in Flags
        BY <3>1, PrereqsAre
      <4>2. gs[f].prereqs[i].flag \notin keys
        BY <1>1, <2>1, <3>1 DEF Dependents
      <4>3. QED
        BY <4>1, <4>2
    <3>3. ASSUME NEW r \in gs[f].rules, r.when \in Segments PROVE segs[r.when] = news[r.when]
      <4>1. f \notin using
        BY <2>1
      <4>2. r.when \notin Moved(segs, news)
        BY <1>1, <2>1, <3>1, <4>1 DEF Referring
      <4>3. QED
        BY <1>1, <3>3, <4>2 DEF Moved
    <3>4. QED
      BY <2>2, <3>2, <3>3 DEF RestsOn
  <2>4. QED
    BY <2>2, <2>3
<1>5. ASSUME NEW f \in C PROVE Evaluate(f, gs, news) = Evaluate(f, fs, segs)
  <2>1. Undisturbed(C, fs, gs, segs, news)
    BY <1>4 DEF Undisturbed
  <2>2. f \in Flags /\ fs[f] = gs[f] /\ fs[f] \in FlagType \union {None}
        /\ (fs[f] # None => RestsOn(fs[f], C, segs, news))
    BY <1>4 DEF Configurations
  <2> HIDE DEF C
  <2>3. EvaluateHeld(f, fs[f], fs, segs) = EvaluateHeld(f, fs[f], gs, news)
    BY <2>1, <2>2, HeldAgrees
  <2>4. QED
    BY <2>2, <2>3 DEF Evaluate
<1>6. ASSUME NEW f \in keys
      PROVE  \/ gs[f] # fs[f]
             \/ /\ gs[f] # None
                /\ \/ \E r \in gs[f].rules : r.when \in Segments /\ news[r.when] # segs[r.when]
                   \/ \E i \in DOMAIN gs[f].prereqs : gs[f].prereqs[i].flag \in keys
  <2>1. f \in Moved(fs, gs) \/ f \in using \/ f \in Dependents(gs, keys, None)
    BY <1>3 DEF Walked
  <2>2. CASE f \in Moved(fs, gs)
    BY <2>2 DEF Moved
  <2>3. CASE f \in using
    BY <1>1, <2>3 DEF Referring, Moved
  <2>4. CASE f \in Dependents(gs, keys, None)
    BY <2>4 DEF Dependents
  <2>5. QED
    BY <2>1, <2>2, <2>3, <2>4
<1>7. QED
  BY <1>5, <1>6 DEF TellsWhatMoved

\* Every write reports what a whole snapshot with the same outcome would report, or
\* nothing if it changes nothing.
LEMMA WritesTell ==
    ASSUME Stored, Next
    PROVE  TellsWhatMoved(changed', flags, segments, flags', segments')
<1> DEFINE Goal == TellsWhatMoved(changed', flags, segments, flags', segments')
<1>1. DOMAIN flags = Flags /\ DOMAIN flags' = Flags /\ Stored'
  BY WritesStore DEF Stored
<1>2. flags \in Configurations /\ flags' \in Configurations
      /\ segments \in [Segments -> SegmentStates] /\ segments' \in [Segments -> SegmentStates]
  BY <1>1, StoredIsConfiguration, FlagUpdatesAssumption
     DEF Stored, FlagStates, Configurations
<1>3. changed' = DiffSnapshot(flags, segments, flags', segments', None) => Goal
  BY <1>2, DiffTells
<1>4. ASSUME NEW some \in SUBSET Flags, NEW newSegments \in [Segments -> SegmentStates],
             NEW defs \in [some -> FlagStates],
             SetAll([f \in Flags |-> IF f \in some THEN defs[f] ELSE flags[f]], newSegments)
      PROVE  Goal
  <2>1. changed' = DiffSnapshot(flags, segments, flags', segments', None)
    BY <1>4 DEF SetAll
  <2>2. QED
    BY <1>3, <2>1
<1>5. ASSUME NEW f \in Flags, NEW def \in FlagStates, UNCHANGED segments,
             flags' = [flags EXCEPT ![f] = def],
             changed' = IF flags[f] = def THEN {}
                        ELSE AddPrerequisiteDependents(flags', {f}, None)
      PROVE  Goal
  <2>1. CASE flags[f] = def
    <3>1. flags' = flags /\ changed' = {} /\ segments' = segments
      BY <1>5, <2>1 DEF Stored
    <3>2. QED
      BY <3>1 DEF TellsWhatMoved
  <2>2. CASE flags[f] # def
    <3>1. Referring(flags', Moved(segments, segments'), None) = {}
      BY <1>5 DEF Referring, Moved
    <3>2. Moved(flags, flags') = {f}
      BY <1>1, <1>5, <2>2 DEF Moved
    <3>3. Moved(flags, flags') \union Referring(flags', Moved(segments, segments'), None) = {f}
      BY <3>1, <3>2
    <3>4. changed' = DiffSnapshot(flags, segments, flags', segments', None)
      BY <1>5, <2>2, <3>3 DEF DiffSnapshot
    <3>5. QED
      BY <1>3, <3>4
  <2>3. QED
    BY <2>1, <2>2
<1>6. CASE \E f \in Flags, def \in FlagDefs : SetFlag(f, def)
  BY <1>5, <1>6 DEF SetFlag, FlagStates
<1>7. CASE \E f \in Flags : RemoveFlag(f)
  BY <1>5, <1>7 DEF RemoveFlag, FlagStates
<1>8. QED
  BY <1>4, <1>6, <1>7 DEF Next

\* A flag whose result a write of the store moves is among the keys the write
\* reports (setAll, setFlag and removeFlag of store.go with the diff of updates.go),
\* and whatever is reported was edited, uses a segment that moved, or asks for a
\* flag that is reported.
THEOREM WritesReportWhatMoves == Spec => ReportsWhatMoves
<1>1. Stored /\ [Next]_vars => [EveryMoveIsReported /\ NothingElseIsReported]_vars
  BY WritesTell DEF TellsWhatMoved, EveryMoveIsReported, NothingElseIsReported, Outcome
<1>2. QED
  BY <1>1, StoreTyped, PTL DEF Spec, ReportsWhatMoves

=============================================================================
