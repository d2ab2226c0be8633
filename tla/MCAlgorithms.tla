---------------------------- MODULE MCAlgorithms -----------------------------
(* Operands for Algorithms.                                                  *)
EXTENDS Algorithms

CONSTANTS k1, k2, k3

LetterA == 20
LetterB == 21

Releases == {<<<<1>>>>, <<<<0, 1>>, <<0>>>>, <<<<9>>>>, <<<<1, 0>>>>, <<<<1>>, <<2>>>>}
Prereleases ==
    {<<>>, <<<<LetterA>>>>, <<<<LetterA>>, <<9>>>>, <<<<LetterA>>, <<1, 1>>>>,
     <<<<LetterA>>, <<LetterB>>>>, <<<<1, LetterA>>>>, <<<<2>>>>, <<<<Hyphen>>>>}
MCVersions == [release : {<<<<1>>>>, <<<<1, 0>>>>, <<<<0, 1>>, <<0>>>>}, prerelease : Prereleases]
                \union [release : Releases, prerelease : {<<>>, <<<<LetterB>>>>}]

VersionProbes == [about : {"versions"}, x : MCVersions, y : MCVersions, z : MCVersions]

\* Any text of up to four characters, with any build of two.
Char == {1, LetterA, Dot, Hyphen, Plus, SmallV}
TextProbes ==
    {[about |-> "text", version |-> v, text |-> t, build |-> <<>>] : v \in MCVersions, t \in {<<1>>}}
        \union {[about |-> "text", version |-> [release |-> <<<<1>>>>, prerelease |-> <<>>],
                 text |-> t, build |-> b] : t \in BoundedSeq(Char, 4), b \in BoundedSeq(Char, 2)}

Moments == [written : -1 .. 4, offset : {-1, 0, 1}]
MomentProbes == [about : {"moments"}, x : Moments, y : Moments, target : Moments]

Word(letters, upper) ==
    [lower |-> letters, upper |-> upper, number |-> None, moment |-> None, version |-> None]
Numeric(letters, n) ==
    [Word(letters, FALSE) EXCEPT !.number = n, !.moment = [written |-> n, offset |-> 0],
                                 !.version = [release |-> <<<<n>>>>, prerelease |-> <<>>]]

One      == Numeric(<<1>>, 1)
OneDotO  == [Numeric(<<1, 10, 0>>, 1) EXCEPT !.moment = None,
                                             !.version.release = <<<<1>>, <<0>>>>]
Two      == Numeric(<<2>>, 2)
Preview  == [Word(<<1, Hyphen, LetterA>>, FALSE) EXCEPT
                !.version = [release |-> <<<<1>>>>, prerelease |-> <<<<LetterA>>>>]]
Shout    == Word(<<LetterA>>, TRUE)
Whisper  == Word(<<LetterA>>, FALSE)
Phrase   == Word(<<LetterB, LetterA>>, FALSE)

MCTexts == {One, OneDotO, Two, Preview, Shout, Whisper, Phrase}

Text(t) == [numeric |-> FALSE, number |-> None, text |-> t]
Number(n, t) == [numeric |-> TRUE, number |-> n, text |-> t]

\* The last is a float32, whose text reads back as another number.
Values == {Text(t) : t \in MCTexts} \union {Number(1, One), Number(2, Two), Number(2, One)}

RelationProbes == [about : {"relation"}, value : Values, target : MCTexts]

\* A pattern that matches itself at the beginning of a text, in its own case.
MCRegex(pattern, text) ==
    IsPrefix(pattern.lower, text.lower) /\ pattern.upper = text.upper

Condition(op, values, negate) ==
    [attribute |-> "age", operator |-> op, values |-> values, negate |-> negate]
Context(value) == [user |-> None, attributes |-> [age |-> value, team |-> None]]

ConditionProbes ==
    {[about |-> "condition", condition |-> Condition(op, values, negate),
      context |-> Context(value), extras |-> MCTexts] :
        op \in Recognised \union {"sounds"}, negate \in BOOLEAN, value \in Values,
        values \in {{t, u} : t \in MCTexts, u \in MCTexts} \union {{}}}

RuleConditions ==
    {[Condition(op, {One}, negate) EXCEPT !.attribute = attribute] :
        op \in {"equals", "sounds"}, negate \in BOOLEAN, attribute \in {"age", "team"}}
Groups == [conditions : {{c, d} : c \in RuleConditions, d \in RuleConditions},
           operator : {"And", "Or", "", "Xor"}]
Everyone == [conditions |-> {}, operator |-> "And"]

RuleProbes ==
    {[about |-> "rule", rule |-> [segment |-> s, groups |-> {g}, serve |-> serve],
      segments |-> [x \in {"s"} |-> IF s = None THEN Everyone ELSE g], context |-> Context(value)] :
        s \in {None, "s"}, g \in Groups, serve \in {"Fixed", "Sticky"},
        value \in {Number(1, One), Text(Two), Text(Whisper)}}

Keys == <<k1, k2, k3>>
Weights ==
    {[i \in 1 .. n |-> [key |-> Keys[i], weight |-> w[i]]] : n \in 1 .. 3, w \in [1 .. 3 -> 0 .. 4]}
WeightProbes == [about : {"weights"}, weights : Weights, wider : Weights]

MCNumbers ==
    [negative : BOOLEAN, digits : {<<1>>, <<2>>, <<1, 2>>, <<1, 0, 2>>},
     point : {-7, -6, -5, 0, 1, 2, 3, 20, 21, 22}]
        \union [negative : BOOLEAN, digits : {<<>>}, point : {0}]
Held ==
    [kind : {"float"}, number : MCNumbers]
        \union {[kind |-> "integer", number |-> n] : n \in {m \in MCNumbers : m.point >= Len(m.digits)}}
NumberProbes == [about : {"numbers"}, x : Held, y : Held]

MCProbes ==
    VersionProbes \union TextProbes \union MomentProbes \union RelationProbes \union ConditionProbes
        \union RuleProbes \union WeightProbes \union NumberProbes
=============================================================================
