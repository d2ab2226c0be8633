------------------------------ MODULE Versions -------------------------------
(***************************************************************************)
(* The order of semantic versions in conditions.go: compareSemverParts and *)
(* what it is built from, and parseSemver.  A character is a number, the   *)
(* digits being 0 to 9 and everything else a number outside, in the order  *)
(* of ASCII.                                                               *)
(***************************************************************************)
EXTENDS Integers, Sequences, SequencesExt

Digit == 0 .. 9
Plus == -3
Hyphen == -2
Dot == -1
CapitalV == 10
SmallV == 40

\* Numbers of any length, as they are written: with leading zeros.
Numeral == {s \in Seq(Digit) : s # <<>>}

\* What parseSemver accepts: a non-empty core, and identifiers that are not empty.
Version ==
    [release : {s \in Seq(Numeral) : s # <<>>},
     prerelease : Seq({s \in Seq(Int) : s # <<>>})]

Sign(x, y) == IF x < y THEN -1 ELSE IF x > y THEN 1 ELSE 0

\* The sign at the first place where it is not zero; beyond is the sign when
\* there is no such place.
FirstDifference(signs, beyond) ==
    IF \A i \in DOMAIN signs : signs[i] = 0 THEN beyond
    ELSE signs[CHOOSE i \in DOMAIN signs :
                   signs[i] # 0 /\ \A j \in 1 .. i - 1 : signs[j] = 0]

Shorter(a, b) == IF Len(a) < Len(b) THEN Len(a) ELSE Len(b)
Longer(a, b) == IF Len(a) < Len(b) THEN Len(b) ELSE Len(a)

\* strings.Compare.
Compare(a, b) ==
    FirstDifference([i \in 1 .. Shorter(a, b) |-> Sign(a[i], b[i])], Sign(Len(a), Len(b)))

IsAllDigits(s) == s # <<>> /\ \A i \in DOMAIN s : s[i] \in Digit

\* strings.TrimLeft(s, "0").
TrimZeros(s) ==
    IF \A i \in DOMAIN s : s[i] = 0 THEN <<>>
    ELSE SubSeq(s, CHOOSE i \in DOMAIN s : s[i] # 0 /\ \A j \in 1 .. i - 1 : s[j] = 0, Len(s))

\* Mutant: leading zeros count.
CompareUntrimmed(a, b) == IF Len(a) # Len(b) THEN Sign(Len(a), Len(b)) ELSE Compare(a, b)

\* Two numbers, without parsing them: no width can overflow.
CompareNumericString(a, b) ==
    LET left == TrimZeros(a)  right == TrimZeros(b)
    IN  IF Len(left) # Len(right) THEN Sign(Len(left), Len(right)) ELSE Compare(left, right)

\* Numbers rank below other identifiers.
ComparePrereleaseID(a, b) ==
    IF IsAllDigits(a) /\ IsAllDigits(b) THEN CompareNumericString(a, b)
    ELSE IF IsAllDigits(a) THEN -1
    ELSE IF IsAllDigits(b) THEN 1
    ELSE Compare(a, b)

\* A release ranks above its prereleases.
ComparePrerelease(a, b) ==
    IF a = <<>> /\ b = <<>> THEN 0
    ELSE IF a = <<>> THEN 1
    ELSE IF b = <<>> THEN -1
    ELSE FirstDifference([i \in 1 .. Shorter(a, b) |-> ComparePrereleaseID(a[i], b[i])],
                         Sign(Len(a), Len(b)))

\* A segment that is not written is a zero.
Segment(release, i) == IF i <= Len(release) THEN release[i] ELSE <<0>>

CompareSegments(a, b) ==
    [i \in 1 .. Longer(a, b) |-> CompareNumericString(Segment(a, i), Segment(b, i))]

CompareSemverParts(a, b) ==
    FirstDifference(CompareSegments(a.release, b.release),
                    ComparePrerelease(a.prerelease, b.prerelease))

-----------------------------------------------------------------------------
(* parseSemver.                                                             *)

\* What comes before the first of a character, and what after it.
Before(s, char) == SelectInSeq(s, LAMBDA c : c = char)
Cut(s, char) == IF Before(s, char) = 0 THEN s ELSE SubSeq(s, 1, Before(s, char) - 1)
Rest(s, char) == SubSeq(s, Before(s, char) + 1, Len(s))

\* strings.Split(s, "."): a dot begins a new part, anything else goes on the last.
Lengthened(parts, char) ==
    IF char = Dot THEN Append(parts, <<>>)
    ELSE [parts EXCEPT ![Len(parts)] = Append(@, char)]

SplitDots(s) ==
    LET split[n \in 0 .. Len(s)] ==
            IF n = 0 THEN <<<<>>>> ELSE Lengthened(split[n - 1], s[n])
    IN  split[Len(s)]

\* The core and, if there is a hyphen, identifiers of which none is empty.
ParseParts(s, none) ==
    LET release == SplitDots(Cut(s, Hyphen))
        prerelease == IF Before(s, Hyphen) = 0 THEN <<>> ELSE SplitDots(Rest(s, Hyphen))
    IN  IF (\A i \in DOMAIN release : IsAllDigits(release[i]))
           /\ (\A i \in DOMAIN prerelease : prerelease[i] # <<>>)
        THEN [release |-> release, prerelease |-> prerelease]
        ELSE none

Unprefixed(s) == IF s # <<>> /\ Head(s) \in {SmallV, CapitalV} THEN Tail(s) ELSE s

\* Mutant: the build metadata is looked for in the core only.
ParseHyphenFirst(s, none) ==
    LET t == Unprefixed(s)
    IN  ParseParts(IF Before(t, Hyphen) # 0 /\ Before(t, Plus) > Before(t, Hyphen)
                   THEN t ELSE Cut(t, Plus), none)

\* A leading v and build metadata do not count.
ParseSemver(s, none) == ParseParts(Cut(Unprefixed(s), Plus), none)

=============================================================================
