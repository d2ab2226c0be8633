----------------------------- MODULE Algorithms ------------------------------
(***************************************************************************)
(* The calculations of the package, side by side: conditions and versions, *)
(* rollouts and their warnings, and the reconnect backoff.  A behaviour is *)
(* one run of the backoff, one of the warnings, or operands to calculate   *)
(* with; nothing connects them but that they are checked together.         *)
(***************************************************************************)
EXTENDS Conditions, Rollout, Backoff

CONSTANTS
    Probes,       \* operands: records whose field about says what they are for
    WarningKeys   \* what a skipped rollout is known by

\* What there is to calculate with is what the package is given.
ASSUME AlgorithmsAssumption ==
    \A p \in Probes :
        /\ p.about = "versions" => {p.x, p.y, p.z} \subseteq Version
        /\ p.about = "text" =>
             /\ p.version \in Version /\ {p.text, p.build} \subseteq Seq(Int)
             /\ \A i \in DOMAIN p.version.prerelease :
                  \A j \in DOMAIN p.version.prerelease[i] :
                    p.version.prerelease[i][j] \notin {Dot, Plus}
        /\ p.about = "moments" => {p.x, p.y, p.target} \subseteq Moment
        /\ p.about = "relation" => p.value \in ValueType /\ p.target \in Texts
        /\ p.about = "condition" => p.condition \in ConditionType
        /\ p.about = "rule" =>
             /\ p.rule \in [segment : {p.rule.segment}, groups : SUBSET GroupType,
                            serve : {p.rule.serve}]
             /\ p.rule.segment \in DOMAIN p.segments \union {None}
             /\ p.segments \in [DOMAIN p.segments -> GroupType \union {None}]
        /\ p.about = "weights" => Weighted(p.weights) /\ Weighted(p.wider)
        /\ p.about = "numbers" => IsHeldNumber(p.x) /\ IsHeldNumber(p.y)

VARIABLE probe

algorithmVars == <<vars, warnVars, probe>>

About(topic) == probe.about = topic

\* The parts that a behaviour is not about stay at a state they begin in.
Resting ==
    /\ reconnectDelay = 2 /\ maxReconnectDelay = 2 /\ failures = 0

InitAlgorithms ==
    /\ InitWarnings
    /\ \/ probe = [about |-> "backoff"] /\ Init
       \/ probe \in Probes \union {[about |-> "warnings"]} /\ Resting

NextAlgorithms ==
    \/ About("backoff") /\ (Fail \/ Recover) /\ UNCHANGED <<warnVars, probe>>
    \/ /\ About("warnings") /\ UNCHANGED <<vars, probe>>
       /\ \E key \in WarningKeys : WarnUnbucketable(key)

AlgorithmsSpec == InitAlgorithms /\ [][NextAlgorithms]_algorithmVars

-----------------------------------------------------------------------------
(* Properties *)

\* compareSemverParts is the total order that semver.org gives, whatever the
\* length of the numbers.
VersionsAreOrdered ==
    About("versions") => VersionsInOrder(probe.x, probe.y, probe.z)

\* parseSemver reads back what is written and passes over the rest.
VersionsAreRead ==
    About("text") => VersionIsRead(probe.version, probe.text, probe.build)

\* A version means the same however it is written, and has one place in the order.
VersionsFit == VersionsAreOrdered /\ VersionsAreRead

\* evaluateCondition: equality, order and "or equal" fit together although
\* they take different paths through the code.
RelationsAreConsistent ==
    About("relation") => RelationsAgree(probe.value, probe.target)

\* parseDateTime: the form of a date changes nothing, and the range is that of
\* the moment and not of what is written.
MomentsAreOne ==
    About("moments") => MomentsAgree(probe.x, probe.y, probe.target)

\* evaluateCondition: an operator and its opposite are opposites, on the numeric
\* path as on the text path, and more values never turn a condition round.
OppositesAreOpposite ==
    About("condition") =>
        \A extra \in probe.extras : OppositesAgree(probe.condition, probe.context, extra)

\* The operators that divide numbers, dates and versions between rules leave no
\* gap and no overlap, on whichever path and in whatever notation.
OperatorsFit == RelationsAreConsistent /\ MomentsAreOne /\ OppositesAreOpposite

\* unevaluable.go and evaluateCondition: names newer than this build never let a
\* context in that they would keep out.
NewNamesNeverOpen ==
    About("rule") =>
        \A operator \in Recognised :
            NewNamesCloseRules(probe.rule, probe.segments, probe.context, operator)

\* resolveServe gives every variation its share of the buckets.
SharesAreExact ==
    About("weights") => SharesFollowWeights(probe.weights)

\* resolveServe: who is in stays in when a rollout is widened.
NobodyIsTakenBack ==
    About("weights") => WideningKeepsMembers(probe.weights, probe.wider)

\* A rollout serves what its weights say, now and after it is widened.
RolloutsAreFair == SharesAreExact /\ NobodyIsTakenBack

\* bucketValue: a number is one text to the hash, and no other number is.
NumbersAreTold ==
    About("numbers") => OneNumberOneText(probe.x, probe.y)

=============================================================================
