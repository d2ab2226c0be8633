----------------------------- MODULE Evaluation -----------------------------
(***************************************************************************)
(* Local flag evaluation for one evaluation context: evaluateInternal and  *)
(* resolveServe of evaluation.go, evaluateFlag of featureflip.go.  What the*)
(* context makes of a condition, a segment or a rollout is data: a segment *)
(* is whether it matches, a serve is the variation key it comes to.        *)
(***************************************************************************)
EXTENDS Integers, Sequences, SequencesExt, FiniteSets, FiniteSetsExt

CONSTANTS
    Flags, Segments,
    VariationKeys,         \* the variation keys that occur
    Variations,            \* those of them that name a variation of the flag
    None,                  \* no flag, no result, no blamed prerequisite
    NoBucket,              \* a rollout that has no value to bucket on
    MaxPrerequisiteDepth

Prerequisite == [flag : Flags, expect : VariationKeys]

Rule == [priority : Int, when : Segments \union {"always", "never"},
         serve : VariationKeys \union {NoBucket}]

\* Priorities differ: sort.Slice is not stable.
RulesType ==
    {rules \in SUBSET Rule :
        IsFiniteSet(rules) /\ \A q, r \in rules : q.priority = r.priority => q = r}

FlagType ==
    [on : BOOLEAN, prereqs : Seq(Prerequisite), rules : RulesType,
     fall : VariationKeys \union {NoBucket}, default : VariationKeys, off : VariationKeys]

Reasons == {"Error", "FlagDisabled", "PrerequisiteFailed", "RuleMatch", "Fallthrough"}

Details == [variation : VariationKeys, reason : Reasons, blame : Flags \union {None}]

\* What was evaluated before: a result or none for every flag.
Memos == [Flags -> Details \union {None}]

ASSUME EvaluationAssumption ==
    /\ MaxPrerequisiteDepth \in Nat
    /\ Variations \subseteq VariationKeys /\ NoBucket \notin VariationKeys
    /\ None \notin Flags \union VariationKeys \union Details \union FlagType

Detail(variation, reason, blame) ==
    [variation |-> variation, reason |-> reason, blame |-> blame]

\* A key that names no variation is malformed configuration.
Serve(variation, reason, blame) ==
    IF variation \in Variations THEN Detail(variation, reason, blame)
    ELSE Detail(variation, "Error", None)

ServeOff(def, reason, blame) == Serve(def.off, reason, blame)

\* A segment that the store does not hold matches nothing.
Matches(rule, segments) ==
    IF rule.when \in Segments THEN segments[rule.when] = "match" ELSE rule.when = "always"

\* A matching rule whose rollout cannot bucket the context is passed over.
ServingRules(def, segments) ==
    {r \in def.rules : Matches(r, segments) /\ r.serve # NoBucket}

OwnResult(def, segments) ==
    LET rules == ServingRules(def, segments)
        first == CHOOSE r \in rules : \A q \in rules : r.priority <= q.priority
        fall  == IF def.fall = NoBucket THEN def.default ELSE def.fall
    IN  IF rules = {} THEN Serve(fall, "Fallthrough", None)
        ELSE Serve(first.serve, "RuleMatch", None)

HeldFlags(flags) == {f \in Flags : flags[f] # None}

\* Mutant: a memo hit is taken as a prerequisite that holds.
TrustMemo(p, def, flags, memo, inner) ==
    LET evaluated == inner[<<p.flag, memo>>]
    IN  IF memo[p.flag] # None THEN [verdict |-> None, memo |-> memo]
        ELSE IF flags[p.flag] = None
        THEN [verdict |-> ServeOff(def, "PrerequisiteFailed", p.flag), memo |-> memo]
        ELSE [verdict |->
                IF evaluated.result.reason = "Error" THEN ServeOff(def, "Error", None)
                ELSE IF evaluated.result.variation # p.expect
                THEN ServeOff(def, "PrerequisiteFailed", p.flag)
                ELSE None,
              memo |-> [evaluated.memo EXCEPT ![p.flag] = evaluated.result]]

\* One prerequisite, from the memo or evaluated and remembered: what it decides,
\* None if it holds, and the memo after it.  inner evaluates one level down.
CheckPrerequisite(p, def, flags, memo, inner) ==
    LET evaluated == IF memo[p.flag] # None THEN [result |-> memo[p.flag], memo |-> memo]
                     ELSE inner[<<p.flag, memo>>]
    IN  IF memo[p.flag] = None /\ flags[p.flag] = None
        THEN [verdict |-> ServeOff(def, "PrerequisiteFailed", p.flag), memo |-> memo]
        ELSE [verdict |->
                IF evaluated.result.reason = "Error" THEN ServeOff(def, "Error", None)
                ELSE IF evaluated.result.variation # p.expect
                THEN ServeOff(def, "PrerequisiteFailed", p.flag)
                ELSE None,
              memo |-> [evaluated.memo EXCEPT ![p.flag] = evaluated.result]]

\* The prerequisites in order: turn i has looked at the first i, or at those up
\* to the first that fails.
CheckPrerequisites(def, flags, memo, inner) ==
    LET turn[i \in 0 .. Len(def.prereqs)] ==
            IF i = 0 THEN [verdict |-> None, memo |-> memo]
            ELSE LET before == turn[i - 1]
                 IN  IF before.verdict # None THEN before
                     ELSE CheckPrerequisite(def.prereqs[i], def, flags, before.memo, inner)
    IN  turn

\* Mutant: the limit is reached one level early.
EvaluateToOneLess(f, def, flags, segments, depth, memo, inner) ==
    IF depth >= MaxPrerequisiteDepth
    THEN [result |-> ServeOff(def, "Error", None), memo |-> memo]
    ELSE IF ~def.on THEN [result |-> ServeOff(def, "FlagDisabled", None), memo |-> memo]
    ELSE LET checked == CheckPrerequisites(def, flags, memo, inner)[Len(def.prereqs)]
             result == IF checked.verdict = None THEN OwnResult(def, segments)
                       ELSE checked.verdict
         IN  [result |-> result, memo |-> [checked.memo EXCEPT ![f] = result]]

\* The result of the flag def, whose key is f, and the memo after it.  The first
\* prerequisite that fails decides, and f's own configuration if none does.
EvaluateInternal(f, def, flags, segments, depth, memo, inner) ==
    IF depth > MaxPrerequisiteDepth
    THEN [result |-> ServeOff(def, "Error", None), memo |-> memo]
    ELSE IF ~def.on THEN [result |-> ServeOff(def, "FlagDisabled", None), memo |-> memo]
    ELSE LET checked == CheckPrerequisites(def, flags, memo, inner)[Len(def.prereqs)]
             result == IF checked.verdict = None THEN OwnResult(def, segments)
                       ELSE checked.verdict
         IN  [result |-> result, memo |-> [checked.memo EXCEPT ![f] = result]]

\* The recursion, from the bottom up: level n evaluates a flag with n levels of
\* depth left, the prerequisites of its prerequisites with n - 1.
Levels(flags, segments) ==
    LET level[n \in 0 .. MaxPrerequisiteDepth] ==
            [call \in HeldFlags(flags) \X Memos |->
                EvaluateInternal(call[1], flags[call[1]], flags, segments,
                                 MaxPrerequisiteDepth + 1 - n, call[2], level[n - 1])]
    IN  level

\* The call from outside, at depth 0.
EvaluateFrom(f, def, flags, segments, memo) ==
    EvaluateInternal(f, def, flags, segments, 0, memo,
                     Levels(flags, segments)[MaxPrerequisiteDepth])

NoMemo == [f \in Flags |-> None]

\* evaluateFlag, of a flag that was read apart from the others: one that the
\* store does not hold is not found.
EvaluateHeld(f, def, flags, segments) ==
    IF def = None THEN Detail(None, "FlagNotFound", None)
    ELSE EvaluateFrom(f, def, flags, segments, NoMemo).result

Evaluate(f, flags, segments) == EvaluateHeld(f, flags[f], flags, segments)

\* evaluateWithSharedMemo: one flag after another with one memo for all.
EvaluateWithSharedMemo(order, flags, segments) ==
    LET swept[i \in 0 .. Len(order)] ==
            IF i = 0 THEN [memo |-> NoMemo, results |-> NoMemo]
            ELSE LET f == order[i]
                     done == swept[i - 1]
                     evaluated == EvaluateFrom(f, flags[f], flags, segments, done.memo)
                 IN  [memo |-> evaluated.memo,
                      results |-> [done.results EXCEPT ![f] = evaluated.result]]
    IN  swept

-----------------------------------------------------------------------------
(* The reference: no memo, the results of all flags round by round.         *)

\* A prerequisite holds by a row of results.
Holds(p, flags, row) ==
    flags[p.flag] # None /\ row[p.flag].reason # "Error" /\ row[p.flag].variation = p.expect

\* One flag's result from those of the flags it asks for.
Judge(def, flags, segments, row) ==
    LET bad == {i \in DOMAIN def.prereqs : ~Holds(def.prereqs[i], flags, row)}
        culprit == def.prereqs[Min(bad)].flag
    IN  IF ~def.on THEN ServeOff(def, "FlagDisabled", None)
        ELSE IF bad = {} THEN OwnResult(def, segments)
        ELSE IF flags[culprit] # None /\ row[culprit].reason = "Error"
        THEN ServeOff(def, "Error", None)
        ELSE ServeOff(def, "PrerequisiteFailed", culprit)

\* Row n gives each flag's result when n levels are allowed; no level is an error.
Rows(flags, segments) ==
    LET row[n \in 0 .. MaxPrerequisiteDepth + 1] ==
            [f \in HeldFlags(flags) |->
                IF n = 0 THEN ServeOff(flags[f], "Error", None)
                ELSE Judge(flags[f], flags, segments, row[n - 1])]
    IN  row

Reference(flags, segments) == Rows(flags, segments)[MaxPrerequisiteDepth + 1]

\* The flags at which a chain of n prerequisites begins.
Heads(flags) ==
    LET head[n \in 0 .. MaxPrerequisiteDepth + 1] ==
            IF n = 0 THEN HeldFlags(flags)
            ELSE {f \in HeldFlags(flags) :
                    \E i \in DOMAIN flags[f].prereqs : flags[f].prereqs[i].flag \in head[n - 1]}
    IN  head

\* No chain of prerequisites is longer than the limit (so there is no cycle).
Shallow(flags) == Heads(flags)[MaxPrerequisiteDepth + 1] = {}

=============================================================================
