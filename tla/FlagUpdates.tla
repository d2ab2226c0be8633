----------------------------- MODULE FlagUpdates -----------------------------
(***************************************************************************)
(* The store's three writes (store.go) with the keys they report, against  *)
(* what evaluation makes of the store before and after.                    *)
(***************************************************************************)
EXTENDS Evaluation, FlagDiff

CONSTANTS
    FlagDefs,  \* the flags a configuration is made of
    MaxMoves   \* bound of the model: flags that differ between two snapshots

ASSUME FlagUpdatesAssumption == IsFiniteSet(Flags) /\ FlagDefs \subseteq FlagType

VARIABLES
    flags, segments,  \* the store
    changed           \* the keys the last write reported

vars == <<flags, segments, changed>>

SegmentStates == {"match", "no match", "missing"}
FlagStates == FlagDefs \union {None}

Init ==
    /\ flags = [f \in Flags |-> None]
    /\ segments = [s \in Segments |-> "missing"]
    /\ changed = {}

\* setAll: a whole snapshot.
SetAll(newFlags, newSegments) ==
    /\ changed' = DiffSnapshot(flags, segments, newFlags, newSegments, None)
    /\ flags' = newFlags
    /\ segments' = newSegments

\* Mutant: a redundant delta is reported as well.
SetFlagAndReport(f, def) ==
    /\ flags' = [flags EXCEPT ![f] = def]
    /\ changed' = AddPrerequisiteDependents(flags', {f}, None)
    /\ UNCHANGED segments

\* setFlag: a redundant delta wakes nobody.
SetFlag(f, def) ==
    /\ flags' = [flags EXCEPT ![f] = def]
    /\ changed' = IF flags[f] = def THEN {} ELSE AddPrerequisiteDependents(flags', {f}, None)
    /\ UNCHANGED segments

\* removeFlag: dependents are found in what remains.
RemoveFlag(f) ==
    /\ flags' = [flags EXCEPT ![f] = None]
    /\ changed' = IF flags[f] = None THEN {} ELSE AddPrerequisiteDependents(flags', {f}, None)
    /\ UNCHANGED segments

Next ==
    \/ \E some \in SUBSET Flags, newSegments \in [Segments -> SegmentStates] :
         /\ Cardinality(some) <= MaxMoves
         /\ \E defs \in [some -> FlagStates] :
              SetAll([f \in Flags |-> IF f \in some THEN defs[f] ELSE flags[f]], newSegments)
    \/ \E f \in Flags, def \in FlagDefs : SetFlag(f, def)
    \/ \E f \in Flags : RemoveFlag(f)

Spec == Init /\ [][Next]_vars

-----------------------------------------------------------------------------
(* Properties *)

Outcome(f) == Evaluate(f, flags, segments)

\* Under-reporting is the bug: a flag whose result moves is among the keys the
\* write reports, through segments, chains of prerequisites, cycles, removals.
EveryMoveIsReported ==
    \A f \in Flags \ changed' : Evaluate(f, flags', segments') = Outcome(f)

\* A poll that brings what is held already wakes nobody, and no key is reported
\* that cannot be reached from an edited flag or segment.
NothingElseIsReported ==
    \A f \in changed' :
        \/ flags'[f] # flags[f]
        \/ /\ flags'[f] # None
           /\ \/ \E r \in flags'[f].rules :
                   r.when \in Segments /\ segments'[r.when] # segments[r.when]
              \/ \E i \in DOMAIN flags'[f].prereqs : flags'[f].prereqs[i].flag \in changed'

\* Every write reports the flags it may have moved, and no others.
ReportsWhatMoves == [][EveryMoveIsReported /\ NothingElseIsReported]_vars

Held == HeldFlags(flags)

\* Whatever was evaluated before with the same memo, a flag gets the result it
\* gets alone, if no chain of prerequisites reaches the depth limit.
SweepAgrees ==
    Shallow(flags) =>
        \A order \in SetToSeqs(Held) :
            LET swept == EvaluateWithSharedMemo(order, flags, segments)
            IN  \A i \in DOMAIN order : swept[Len(order)].results[order[i]] = Outcome(order[i])

\* The memo is no more than a saving: the result is the reference's.  Only a
\* result the depth limit makes an error may differ, when the memo holds what
\* would be too deep to evaluate.
MemoIsTransparent ==
    \A f \in Held :
        LET reference == Reference(flags, segments)[f]
        IN  Shallow(flags) \/ reference.reason # "Error" => Outcome(f) = reference

\* A memo changes no result, within one evaluation as over a sweep of all flags.
MemoChangesNothing == SweepAgrees /\ MemoIsTransparent

=============================================================================
