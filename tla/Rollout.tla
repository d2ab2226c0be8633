------------------------------- MODULE Rollout -------------------------------
(***************************************************************************)
(* Percentage rollouts: the value a context is bucketed on (bucketing.go,  *)
(* canonical_number.go), the walk over the weights (resolveServe of        *)
(* evaluation.go), and the warning for a context that cannot be bucketed   *)
(* (unbucketable.go).  A number is its digits without zeros at either end  *)
(* and the place of its decimal point.                                     *)
(***************************************************************************)
EXTENDS Integers, Sequences, SequencesExt, FiniteSets

CONSTANTS
    NoValue,      \* a bucketing value that is missing
    Buckets,      \* 100
    MaxKeys       \* maxUnbucketableKeys

ASSUME RolloutAssumption == Buckets \in Nat \ {0} /\ MaxKeys \in Nat

VARIABLES
    unbucketableSeen,  \* the warnings that were given
    logged,            \* history: what was logged, in order
    skipped            \* history: the rollouts skipped for want of a value

warnVars == <<unbucketableSeen, logged, skipped>>

-----------------------------------------------------------------------------
(* What is hashed.  A spelling is a sequence of digits and signs, the signs *)
(* being numbers beyond the digits.                                         *)

Point == 10
Minus == 11
Exponent == 12

\* Numbers, and what a context may hold as one.
Digits == {d \in Seq(0 .. 9) : d # <<>> => d[1] # 0 /\ d[Len(d)] # 0}
Numbers == [negative : BOOLEAN, digits : Digits, point : Int]

IsHeldNumber(v) ==
    /\ v \in [kind : {"float", "integer"}, number : Numbers]
    /\ v.kind = "integer" => v.number.point >= Len(v.number.digits)

Zeros(n) == [i \in 1 .. n |-> 0]

\* Mutant: the exponent form begins one digit early.
SpellShort(digits, n) ==
    LET k == Len(digits)
    IN  CASE k <= n /\ n < 21 -> digits \o Zeros(n - k)
          [] k > n /\ 0 < n /\ n <= 21 ->
               SubSeq(digits, 1, n) \o <<Point>> \o SubSeq(digits, n + 1, k)
          [] -6 < n /\ n <= 0 -> <<0, Point>> \o Zeros(-n) \o digits
          [] OTHER -> <<Head(digits)>> \o (IF k > 1 THEN <<Point>> \o Tail(digits) ELSE <<>>)
                         \o <<Exponent, n - 1>>

\* The four forms of a positive number 0.d1d2d3... times ten to the n.
SpellPositive(digits, n) ==
    LET k == Len(digits)
    IN  CASE k <= n /\ n <= 21 -> digits \o Zeros(n - k)
          [] k > n /\ 0 < n /\ n <= 21 ->
               SubSeq(digits, 1, n) \o <<Point>> \o SubSeq(digits, n + 1, k)
          [] -6 < n /\ n <= 0 -> <<0, Point>> \o Zeros(-n) \o digits
          [] OTHER -> <<Head(digits)>> \o (IF k > 1 THEN <<Point>> \o Tail(digits) ELSE <<>>)
                         \o <<Exponent, n - 1>>

\* Zero has no sign.
CanonicalNumber(x) ==
    IF x.digits = <<>> THEN <<0>>
    ELSE (IF x.negative THEN <<Minus>> ELSE <<>>) \o SpellPositive(x.digits, x.point)

\* An integer, or a literal that is one, keeps its digits.
IntegerText(x) ==
    IF x.digits = <<>> THEN <<0>>
    ELSE (IF x.negative THEN <<Minus>> ELSE <<>>) \o x.digits \o Zeros(x.point - Len(x.digits))

\* The user id is the context's own field or, if that is empty, an attribute of
\* the same name.
BucketedBy(context, attribute) ==
    IF attribute \in {"userId", "user_id"} /\ context.user.kind # "absent" THEN context.user
    ELSE context.attributes[attribute]

\* A list or a map is as good as nothing, like an empty text; a number is
\* spelled by what the context holds it as.
BucketValue(context, attribute) ==
    LET value == BucketedBy(context, attribute)
    IN  CASE value.kind \in {"absent", "list", "map"} -> NoValue
          [] value.kind = "text" -> IF value.chars = <<>> THEN NoValue ELSE value.chars
          [] value.kind = "float" -> CanonicalNumber(value.number)
          [] value.kind = "integer" -> IntegerText(value.number)

-----------------------------------------------------------------------------
(* What a bucket is served.                                                 *)

\* The weights of a rollout that gives each variation one share.
Weighted(weights) ==
    /\ Len(weights) \in Nat \ {0} /\ DOMAIN weights = 1 .. Len(weights)
    /\ \A i \in DOMAIN weights : weights[i].weight \in Nat
    /\ \A i, j \in DOMAIN weights : weights[i].key = weights[j].key => i = j

\* What the walk has added up at each weight.
Cumulative(weights, i) ==
    LET sum[j \in 0 .. Len(weights)] == IF j = 0 THEN 0 ELSE sum[j - 1] + weights[j].weight
    IN  sum[i]

\* Mutant: the boundary belongs to the variation before it.
ServeUpTo(weights, bucket) ==
    LET reached == {i \in DOMAIN weights : bucket <= Cumulative(weights, i)}
        walked == IF reached = {} THEN Len(weights)
                  ELSE CHOOSE i \in reached : \A j \in reached : i <= j
    IN  weights[walked].key

\* Mutant: weights are shares of their sum.
ServeByShare(weights, bucket) ==
    LET total == Cumulative(weights, Len(weights))
        reached == {i \in DOMAIN weights : bucket * total < Cumulative(weights, i) * Buckets}
        walked == IF reached = {} THEN Len(weights)
                  ELSE CHOOSE i \in reached : \A j \in reached : i <= j
    IN  weights[walked].key

\* The walk over the weights; past their sum the last variation is served.
ServeBucket(weights, bucket) ==
    LET reached == {i \in DOMAIN weights : bucket < Cumulative(weights, i)}
        walked == IF reached = {} THEN Len(weights)
                  ELSE CHOOSE i \in reached : \A j \in reached : i <= j
    IN  weights[walked].key

\* NoValue says that the rollout cannot bucket the context.
ResolveServe(serve, bucket) ==
    IF serve.type = "Fixed" \/ serve.weights = <<>> THEN serve.variation
    ELSE IF bucket = NoValue THEN NoValue
    ELSE ServeBucket(serve.weights, bucket)

-----------------------------------------------------------------------------
(* The warnings, shared by all goroutines under one lock.                   *)

InitWarnings == unbucketableSeen = {} /\ logged = <<>> /\ skipped = {}

\* Mutant: the set is not looked at.
WarnAlways(key) ==
    /\ skipped' = skipped \union {key}
    /\ unbucketableSeen' = unbucketableSeen \union {key}
    /\ logged' = IF Cardinality(unbucketableSeen) >= MaxKeys THEN logged ELSE Append(logged, key)

\* A rollout of flag, in a rule or its fallthrough, that cannot bucket.
WarnUnbucketable(key) ==
    /\ skipped' = skipped \union {key}
    /\ IF key \in unbucketableSeen \/ Cardinality(unbucketableSeen) >= MaxKeys
       THEN UNCHANGED <<unbucketableSeen, logged>>
       ELSE /\ unbucketableSeen' = unbucketableSeen \union {key}
            /\ logged' = Append(logged, key)

-----------------------------------------------------------------------------
(* What is expected of them.                                                *)

\* Every variation gets the buckets of its weight, cut off at the last bucket;
\* what weights that add up to less leave over goes to the last one.
SharesFollowWeights(weights) ==
    LET Served(i) == Cardinality({b \in 0 .. Buckets - 1 : ServeBucket(weights, b) = weights[i].key})
        Upto(i) == IF Cumulative(weights, i) < Buckets THEN Cumulative(weights, i) ELSE Buckets
        n == Len(weights)
    IN  /\ \A i \in 1 .. n - 1 : Served(i) = Upto(i) - Upto(i - 1)
        /\ Served(n) = Buckets - Upto(n - 1)

\* A context served one of the first variations keeps it as long as their
\* weights stay and the first of the others only grows: a rollout that is
\* widened takes nobody back.
WideningKeepsMembers(weights, wider) ==
    \A i \in DOMAIN weights \intersect DOMAIN wider :
        /\ \A j \in 1 .. i - 1 : weights[j] = wider[j]
        /\ weights[i].key = wider[i].key /\ weights[i].weight <= wider[i].weight
        => \A b \in 0 .. Buckets - 1 :
             b < Cumulative(weights, i) => ServeBucket(weights, b) = ServeBucket(wider, b)

\* One number is hashed as one text, whether the context holds it as an integer
\* or as a float, under userId or another name, and two numbers as two; integers
\* of more than 21 digits apart.
OneNumberOneText(x, y) ==
    LET Same(m, n) == m.digits = n.digits
                      /\ (m.digits # <<>> => m.point = n.point /\ m.negative = n.negative)
        Ordinary(v) == v.kind = "float" \/ v.number.point <= 21
        Text(v, attribute) ==
            BucketValue([user |-> [kind |-> "absent"], attributes |-> [a \in {attribute} |-> v]],
                        attribute)
    IN  Ordinary(x) /\ Ordinary(y) =>
            (Text(x, "user_id") = Text(y, "account") <=> Same(x.number, y.number))

\* Every rollout that is skipped is told once, until the set is full.
SkipsAreToldOnce ==
    /\ IsInjective(logged) /\ ToSet(logged) = unbucketableSeen
    /\ Len(logged) <= MaxKeys
    /\ skipped \subseteq unbucketableSeen \/ Len(logged) = MaxKeys

=============================================================================
