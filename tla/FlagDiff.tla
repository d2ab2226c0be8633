------------------------------ MODULE FlagDiff ------------------------------
(***************************************************************************)
(* Which flags a change may have moved: diffSnapshot and                   *)
(* addPrerequisiteDependents of updates.go, setFlag and removeFlag of      *)
(* store.go.  A configuration maps every key to what is held under it, or  *)
(* to Absent; what is held is compared as a whole, like reflect.DeepEqual. *)
(***************************************************************************)
EXTENDS Integers, Sequences, FiniteSets

\* The keys held differently before and after.
Moved(before, after) == {k \in DOMAIN after : before[k] # after[k]}

\* The flags whose rules name one of these segments.
Referring(flags, segs, Absent) ==
    {f \in DOMAIN flags : flags[f] # Absent /\ \E r \in flags[f].rules : r.when \in segs}

\* The flags that ask for one of these flags.
Dependents(flags, keys, Absent) ==
    {f \in DOMAIN flags :
        flags[f] # Absent
        /\ \E i \in DOMAIN flags[f].prereqs : flags[f].prereqs[i].flag \in keys}

\* Mutant: direct dependents only.
AddDirectDependents(flags, changed, Absent) ==
    changed \union Dependents(flags, changed, Absent)

\* The work list visits each flag once, so it ends on cycles too.
AddPrerequisiteDependents(flags, changed, Absent) ==
    LET Rounds == Cardinality(DOMAIN flags)
        walked[n \in 0 .. Rounds] ==
            IF n = 0 THEN changed
            ELSE LET sofar == walked[n - 1]
                 IN  sofar \union Dependents(flags, sofar, Absent)
    IN  walked[Rounds]

\* Mutant: the segment scan comes after the walk.
DiffSegmentsLast(flags, segments, newFlags, newSegments, Absent) ==
    AddPrerequisiteDependents(newFlags, Moved(flags, newFlags), Absent)
        \union Referring(newFlags, Moved(segments, newSegments), Absent)

\* Mutant: whatever the snapshot holds is reported.
DiffEverything(flags, segments, newFlags, newSegments, Absent) ==
    {f \in DOMAIN newFlags : newFlags[f] # Absent}

\* Flags that differ, flags whose segments differ, then the walk over both.
DiffSnapshot(flags, segments, newFlags, newSegments, Absent) ==
    AddPrerequisiteDependents(newFlags,
        Moved(flags, newFlags)
            \union Referring(newFlags, Moved(segments, newSegments), Absent),
        Absent)

=============================================================================
