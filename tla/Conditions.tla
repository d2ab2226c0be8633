----------------------------- MODULE Conditions ------------------------------
(***************************************************************************)
(* Whom a rule is meant for: conditions.go, the rule matching of           *)
(* evaluation.go, and unevaluable.go, which drops what this build does not *)
(* know.  A text is a record of what each parser of conditions.go makes of *)
(* it: its letters in lower case, its number, its moment, its version.     *)
(***************************************************************************)
EXTENDS Versions

CONSTANTS
    None,            \* no value, no number, no moment, no version
    Regex(_, _),     \* does a pattern match a text: the regexp package
    Texts,           \* the texts that occur
    FirstSecond, LastSecond  \* minUnixSeconds, maxUnixSeconds

\* Seconds of some clock, and that clock's offset from UTC.
Moment == [written : Int, offset : Int]

\* An attribute: a number and its spelling, or only a text.
ValueType == [numeric : BOOLEAN, number : Int \union {None}, text : Texts]

ConditionType == [attribute : STRING, operator : STRING, values : SUBSET Texts, negate : BOOLEAN]

\* A group of conditions, or a segment.
GroupType == [conditions : SUBSET ConditionType, operator : STRING]

Complement ==
    [op \in {"notequals", "notin", "notcontains"} |->
        CASE op = "notequals" -> "equals"
          [] op = "notin" -> "in"
          [] op = "notcontains" -> "contains"]

Equalities == {"equals", "in", "notequals", "notin"}

Recognised ==
    Equalities \union
    {"contains", "notcontains", "startswith", "endswith", "matchesregex",
     "greaterthan", "lessthan", "greaterthanorequal", "lessthanorequal", "before", "after",
     "semverequals", "semvergreaterthan", "semvergreaterthanorequal",
     "semverlessthan", "semverlessthanorequal"}

ASSUME ConditionsAssumption ==
    /\ FirstSecond \in Int /\ LastSecond \in Int
    /\ None \notin Int /\ None \notin Moment /\ None \notin ValueType /\ None \notin GroupType
    /\ \A t \in Texts : t.number \in Int \union {None} /\ t.version \in Version \union {None}
    /\ Recognised \union {"userId"} \subseteq STRING  \* names are texts

InDateTimeOffsetRange(second) == second \in FirstSecond .. LastSecond

\* Mutant: the range is checked on what is written.
ParseWritten(moment) ==
    IF moment = None \/ ~InDateTimeOffsetRange(moment.written) THEN None
    ELSE moment.written - moment.offset

\* A moment is written as seconds of some clock and the clock's offset from UTC.
\* What lies outside the range of the engine's dates is no moment at all.
ParseDateTime(moment) ==
    IF moment = None \/ ~InDateTimeOffsetRange(moment.written - moment.offset) THEN None
    ELSE moment.written - moment.offset

\* Mutant: at least is more than.
SatisfiesStrictly(op, sign) ==
    CASE op \in {"greaterthan", "after", "semvergreaterthan", "greaterthanorequal",
                 "semvergreaterthanorequal"} -> sign > 0
      [] op \in {"lessthan", "before", "semverlessthan"} -> sign < 0
      [] op \in {"lessthanorequal", "semverlessthanorequal"} -> sign <= 0
      [] op = "semverequals" -> sign = 0

\* What the comparison of a relational operator asks of the sign.
Satisfies(op, sign) ==
    CASE op \in {"greaterthan", "after", "semvergreaterthan"} -> sign > 0
      [] op \in {"greaterthanorequal", "semvergreaterthanorequal"} -> sign >= 0
      [] op \in {"lessthan", "before", "semverlessthan"} -> sign < 0
      [] op \in {"lessthanorequal", "semverlessthanorequal"} -> sign <= 0
      [] op = "semverequals" -> sign = 0

\* compareNumeric, compareDateTime, compareSemver, for one target: what does not
\* parse never matches.
CompareParsed(op, value, target, sign) ==
    value # None /\ target # None /\ Satisfies(op, sign)

\* One operator, one target.
Test(op, value, target) ==
    CASE op \in {"equals", "in"} -> value.lower = target.lower
      [] op = "contains" -> target.lower \in SubSeqs(value.lower)
      [] op = "startswith" -> IsPrefix(target.lower, value.lower)
      [] op = "endswith" -> IsSuffix(target.lower, value.lower)
      [] op = "matchesregex" -> Regex(target, value)
      [] op \in {"greaterthan", "lessthan", "greaterthanorequal", "lessthanorequal"} ->
           CompareParsed(op, value.number, target.number, Sign(value.number, target.number))
      [] op \in {"before", "after"} ->
           LET v == ParseDateTime(value.moment)
               t == ParseDateTime(target.moment)
           IN  CompareParsed(op, v, t, Sign(v, t))
      [] OTHER -> CompareParsed(op, value.version, target.version,
                                CompareSemverParts(value.version, target.version))

\* Any target will do; a negated operator wants none.
EvaluateOperator(op, value, targets) ==
    IF op \in DOMAIN Complement THEN ~\E t \in targets : Test(Complement[op], value, t)
    ELSE \E t \in targets : Test(op, value, t)

\* Mutant: the negation of the operator is forgotten.
NumericEqualityOnly(op, number, targets, negate) ==
    (\E t \in targets : t.number = number) # negate

EvaluateNumericEquality(op, number, targets, negate) ==
    (\E t \in targets : t.number = number) # ((op \in {"notequals", "notin"}) # negate)

\* userId is the context's own field, whatever its attributes say.
RawAttribute(context, attribute) ==
    IF attribute \in {"userId", "user_id"} THEN context.user ELSE context.attributes[attribute]

\* Mutant: an operator nobody knows is negated like any other.
NegateAnyway(c, context) ==
    LET raw == RawAttribute(context, c.attribute)
    IN  IF raw = None THEN c.negate
        ELSE IF c.operator \in Equalities /\ raw.numeric
        THEN EvaluateNumericEquality(c.operator, raw.number, c.values, c.negate)
        ELSE (c.operator \in Recognised /\ EvaluateOperator(c.operator, raw.text, c.values))
                 # c.negate

\* An attribute that is absent gives the negation; an operator nobody knows
\* gives no match, which nothing negates.
EvaluateCondition(c, context) ==
    LET raw == RawAttribute(context, c.attribute)
    IN  IF raw = None THEN c.negate
        ELSE IF c.operator \in Equalities /\ raw.numeric
        THEN EvaluateNumericEquality(c.operator, raw.number, c.values, c.negate)
        ELSE /\ c.operator \in Recognised
             /\ EvaluateOperator(c.operator, raw.text, c.values) # c.negate

\* What folds to "or"; anything else is an and.
Disjunctions == {"or", "Or", "oR", "OR"}

EvaluateConditions(conditions, logic, context) ==
    \/ conditions = {}
    \/ IF logic \in Disjunctions
       THEN \E c \in conditions : EvaluateCondition(c, context)
       ELSE \A c \in conditions : EvaluateCondition(c, context)

EvaluateConditionGroups(groups, context) ==
    \A g \in groups : EvaluateConditions(g.conditions, g.operator, context)

\* A rule of a segment that is not there matches nobody.
RuleMatches(rule, segments, context) ==
    IF rule.segment # None
    THEN /\ segments[rule.segment] # None
         /\ LET segment == segments[rule.segment]
            IN  EvaluateConditions(segment.conditions, segment.operator, context)
    ELSE EvaluateConditionGroups(rule.groups, context)

-----------------------------------------------------------------------------
(* unevaluable.go: an entity with a name this build does not know is dropped *)
(* whole.  A name that is absent is none of its business.                   *)

KnownConditionLogic == {"And", "Or"}
KnownServeTypes == {"Fixed", "Rollout"}

EvaluableServe(type) == type \in KnownServeTypes \union {""}

EvaluableFlag(flag) ==
    /\ EvaluableServe(flag.fallthrough)
    /\ \A rule \in flag.rules :
         /\ EvaluableServe(rule.serve)
         /\ \A g \in rule.groups : g.operator \in KnownConditionLogic \union {""}

EvaluableSegment(segment) == segment.operator \in KnownConditionLogic \union {""}

Evaluable(entity, kind) ==
    CASE kind = "flag" -> EvaluableFlag(entity)
      [] kind = "segment" -> EvaluableSegment(entity)

\* What is left of the flags, or of the segments.
DropUnevaluable(held, kind) ==
    [k \in DOMAIN held |-> IF held[k] # None /\ Evaluable(held[k], kind) THEN held[k] ELSE None]

-----------------------------------------------------------------------------
(* What is expected of them, for given operands.                            *)

\* Reference: the number a numeral stands for.
NumberOf(numeral) ==
    LET value[n \in 0 .. Len(numeral)] ==
            IF n = 0 THEN 0 ELSE 10 * value[n - 1] + numeral[n]
    IN  value[Len(numeral)]

\* Versions are in a total order, in which every number counts as a number
\* however it is written, zeros that are not written count, and prereleases lie
\* between the version before and their own.
VersionsInOrder(x, y, z) ==
    LET Older(v, w) == CompareSemverParts(v, w) <= 0
        Released(v) == [v EXCEPT !.prerelease = <<>>]
        Padded(v) == [v EXCEPT !.release = Append(@, <<0, 0>>)]
        At(v, i) == NumberOf(Segment(v.release, i))
        Highest == Len(x.release) + Len(y.release)
        first == {i \in 1 .. Highest :
                    At(x, i) # At(y, i) /\ \A j \in 1 .. i - 1 : At(x, j) = At(y, j)}
    IN  /\ CompareSemverParts(x, y) = -CompareSemverParts(y, x)
        /\ Older(x, y) /\ Older(y, z) => Older(x, z)
        /\ CompareSemverParts(x, Padded(x)) = 0
        /\ x.prerelease # <<>> => CompareSemverParts(x, Released(x)) = -1
        /\ \A i \in first : CompareSemverParts(x, y) = Sign(At(x, i), At(y, i))
        /\ \A i \in DOMAIN x.prerelease \intersect DOMAIN y.prerelease :
             /\ \A j \in 1 .. i - 1 : x.prerelease[j] = y.prerelease[j]
             /\ IsAllDigits(x.prerelease[i]) /\ IsAllDigits(y.prerelease[i])
             /\ NumberOf(x.prerelease[i]) # NumberOf(y.prerelease[i]) /\ first = {}
             => CompareSemverParts(x, y) =
                  Sign(NumberOf(x.prerelease[i]), NumberOf(y.prerelease[i]))

\* A version as it is written.
Dotted(parts) ==
    LET text[n \in 0 .. Len(parts) - 1] ==
            IF n = 0 THEN parts[1] ELSE text[n - 1] \o <<Dot>> \o parts[n + 1]
    IN  text[Len(parts) - 1]

Written(v) ==
    Dotted(v.release) \o (IF v.prerelease = <<>> THEN <<>> ELSE <<Hyphen>> \o Dotted(v.prerelease))

\* A version that is written out is read as what was written; a leading v and
\* whatever follows a plus change nothing, also if it has hyphens and dots.
VersionIsRead(version, s, build) ==
    /\ ParseSemver(Written(version), None) = version
    /\ ParseSemver(s \o <<Plus>> \o build, None) = ParseSemver(s, None)
    /\ s = <<>> \/ Head(s) \notin {SmallV, CapitalV} =>
         ParseSemver(<<SmallV>> \o s, None) = ParseSemver(s, None)
    /\ ParseSemver(s, None) # None => \E i \in DOMAIN s : s[i] \in Digit

\* Of two operands that can be compared at all, exactly one of less, the same
\* and more holds, and the operators with "or equal" are what they say: for
\* versions, and for numbers although one operator compares the value and the
\* others what its text parses to.  Where that is another number (a float32), or the
\* value is a text, the order still fits itself; only the equality may not fit it.
RelationsAgree(value, t) ==
    LET Holds(op) == EvaluateCondition(
            [attribute |-> "age", operator |-> op, values |-> {t}, negate |-> FALSE],
            [user |-> None, attributes |-> [age |-> value]])
        OneOf(ops) == \E op \in ops : Holds(op) /\ \A p \in ops \ {op} : ~Holds(p)
    IN  /\ value.text.number # None /\ t.number # None =>
             /\ ~(Holds("lessthan") /\ Holds("greaterthan"))
             /\ Holds("lessthanorequal") <=> ~Holds("greaterthan")
             /\ Holds("greaterthanorequal") <=> ~Holds("lessthan")
             /\ value.numeric /\ value.number = value.text.number =>
                  /\ OneOf({"lessthan", "equals", "greaterthan"})
                  /\ Holds("in") <=> Holds("equals")
        /\ value.text.version # None /\ t.version # None =>
             /\ OneOf({"semverlessthan", "semverequals", "semvergreaterthan"})
             /\ Holds("semverlessthanorequal") <=> ~Holds("semvergreaterthan")
             /\ Holds("semvergreaterthanorequal") <=> ~Holds("semverlessthan")

\* However a moment is written, it is the same moment to every comparison; a
\* moment out of range is none, however it is written, and matches nothing.
MomentsAgree(x, y, t) ==
    LET Holds(op, m) == Test(op, [moment |-> m], [moment |-> t])
        Real(m) == m.written - m.offset
    IN  /\ Real(x) = Real(y) => \A op \in {"before", "after"} : Holds(op, x) = Holds(op, y)
        /\ Real(x) \notin FirstSecond .. LastSecond => ~Holds("before", x) /\ ~Holds("after", x)
        /\ {Real(x), Real(t)} \subseteq FirstSecond .. LastSecond =>
             /\ Holds("before", x) <=> Real(x) < Real(t)
             /\ Holds("after", x) <=> Real(x) > Real(t)

\* Two ways to ask for the opposite agree, the numeric path and the text path
\* alike; and one more value never takes anybody out of a condition that wants
\* any of them, nor lets anybody into one that wants none.
OppositesAgree(c, context, extra) ==
    LET Negated == [c EXCEPT !.negate = ~c.negate]
        More == [c EXCEPT !.values = @ \union {extra}]
        Matched(d) == EvaluateCondition(d, context)
    IN  RawAttribute(context, c.attribute) # None =>
        /\ c.operator \in DOMAIN Complement =>
             (Matched(c) <=> Matched([Negated EXCEPT !.operator = Complement[c.operator]]))
        /\ c.operator \in Recognised =>
             IF (c.operator \in DOMAIN Complement) # c.negate
             THEN Matched(More) => Matched(c)
             ELSE Matched(c) => Matched(More)

\* A configuration may use operators and logics that are newer than this build.
\* A rule that survives the filter lets nobody in whom some meaning of the new
\* names would leave out: whatever known operator the new one means, and also
\* if the new logic wants none of its conditions.
NewNamesCloseRules(rule, segments, context, operator) ==
    LET flags == [f \in {"f"} |-> [fallthrough |-> "Fixed", rules |-> {rule}]]
        Known(c) == [c EXCEPT !.operator = IF @ \in Recognised THEN @ ELSE operator]
        Nobody == [attribute |-> "userId", operator |-> "in", values |-> {}, negate |-> FALSE]
        Meant(g) == [g EXCEPT !.conditions =
                        IF g.operator \in KnownConditionLogic \union {""}
                        THEN {Known(c) : c \in @} ELSE {Nobody}]
    IN  /\ DropUnevaluable(flags, "flag")["f"] # None
            /\ RuleMatches(rule, DropUnevaluable(segments, "segment"), context)
            =>
            RuleMatches([rule EXCEPT !.groups = {Meant(g) : g \in @}],
                        [s \in DOMAIN segments |-> Meant(segments[s])], context)

=============================================================================
