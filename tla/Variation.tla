------------------------------ MODULE Variation ------------------------------
(***************************************************************************)
(* A variation call of featureflip.go from its isClosed check to the last  *)
(* inspector of inspector.go, beside writers of the store and goroutines   *)
(* that close handles of the same core.  evaluateFlag reads the store in   *)
(* three critical sections: the flag, the segments, the other flags.       *)
(***************************************************************************)
EXTENDS FlagUpdates

CONSTANTS
    Readers,     \* goroutines that call a variation method
    Clients,     \* the handles of one core
    Typed,       \* the variations whose value has the type a reader asks for
    Default,     \* the value a reader passes as its default
    Inspectors,  \* how many inspectors are registered
    MaxLanded    \* bound of the model: writes that land during one read

\* What an analytics event says of a read, and what its reader and the inspectors get.
Reports ==
    [variation : VariationKeys \union {None}, reason : Reasons \union {"FlagNotFound"},
     blame : Flags \union {None}, rule : BOOLEAN]

Answers ==
    [variation : VariationKeys \union {None}, reason : Reasons \union {"FlagNotFound"},
     blame : Flags \union {None}, rule : BOOLEAN, value : Variations \union {None, Default}]

ASSUME VariationAssumption ==
    /\ Typed \subseteq Variations
    /\ Default \notin Variations \union {None}
    /\ None \notin Reports \union Answers
    /\ Inspectors \in Nat /\ MaxLanded \in Nat

VARIABLES
    disposed,   \* handles whose disposed is set
    released,   \* handles that have released the core
    shutDown,   \* core.shutDown
    stopped,    \* ep.closed: events are not accepted any more
    pc,         \* where each reader is
    key,        \* the flag it reads
    def, segs,  \* what it has read from the store so far
    answer,     \* what evaluation came to, and what the reader returns
    recorded,   \* history: the analytics event the processor accepted
    noticed,    \* history: what the inspectors called so far were given
    possible,   \* history: the results of the configurations held since the read
    landed      \* history: the writes that landed since then

handles == <<disposed, released, shutDown, stopped>>
locals  == <<pc, key, def, segs, answer, recorded, noticed, possible, landed>>
varVars == <<vars, handles, locals>>

Places == {"idle", "flag", "segments", "flags", "record", "notify", "inspect", "done"}
Accessors == {"typed", "json", "detail"}

NoSegments == [s \in Segments |-> "missing"]

\* A handle that is closed serves the default; nothing else happens.
Refused == [variation |-> None, reason |-> "Error", blame |-> None, rule |-> FALSE, value |-> Default]

\* The reads begin on any configuration a snapshot has brought; who is told of it is not
\* looked at here.
InitVariation ==
    /\ flags \in [Flags -> FlagStates] /\ segments \in [Segments -> SegmentStates]
    /\ changed = {}
    /\ disposed = {} /\ released = {} /\ shutDown = FALSE /\ stopped = FALSE
    /\ pc = [r \in Readers |-> "idle"] /\ key = [r \in Readers |-> None]
    /\ def = [r \in Readers |-> None] /\ segs = [r \in Readers |-> NoSegments]
    /\ answer = [r \in Readers |-> None]
    /\ recorded = [r \in Readers |-> None] /\ noticed = [r \in Readers |-> <<>>]
    /\ possible = [r \in Readers |-> {}] /\ landed = [r \in Readers |-> <<>>]

-----------------------------------------------------------------------------
(* The steps of a read.  Which variation method it is matters only from the *)
(* coercion on.                                                             *)

\* The check of isClosed, and what the handle knows of its core.
Read(r, c, f) ==
    /\ pc[r] \in {"idle", "done"}
    /\ key' = [key EXCEPT ![r] = f]
    /\ IF c \in disposed
       THEN /\ pc' = [pc EXCEPT ![r] = "done"]
            /\ answer' = [answer EXCEPT ![r] = Refused]
       ELSE /\ pc' = [pc EXCEPT ![r] = "flag"]
            /\ answer' = [answer EXCEPT ![r] = None]
    /\ recorded' = [recorded EXCEPT ![r] = None]
    /\ noticed' = [noticed EXCEPT ![r] = <<>>]
    /\ possible' = [possible EXCEPT ![r] = IF c \in disposed THEN {} ELSE {Outcome(f)}]
    /\ landed' = [landed EXCEPT ![r] = <<>>]
    /\ UNCHANGED <<flags, segments, changed, def, segs, handles>>

\* A flag the store does not hold needs no other reads.
GetFlag(r) ==
    /\ pc[r] = "flag"
    /\ def' = [def EXCEPT ![r] = flags[key[r]]]
    /\ pc' = [pc EXCEPT ![r] = IF flags[key[r]] = None THEN "flags" ELSE "segments"]
    /\ UNCHANGED <<flags, segments, changed, handles, key, segs, answer, recorded, noticed,
                   possible, landed>>

AllSegments(r) ==
    /\ pc[r] = "segments"
    /\ segs' = [segs EXCEPT ![r] = segments]
    /\ pc' = [pc EXCEPT ![r] = "flags"]
    /\ UNCHANGED <<flags, segments, changed, handles, key, def, answer, recorded, noticed,
                   possible, landed>>

\* The value that goes with a result: a key that names no variation has none.
Value(result) ==
    IF result.reason = "FlagNotFound" THEN Default
    ELSE IF result.variation \in Variations THEN result.variation ELSE None

\* What evaluateFlag hands to the method; a rule id rides on a rule match.
Served(result) ==
    [variation |-> result.variation, reason |-> result.reason, blame |-> result.blame,
     rule |-> result.reason = "RuleMatch", value |-> Value(result)]

\* Mutant: the default is substituted and the reason kept.
SubstituteQuietly(accessor, detail) ==
    IF accessor = "typed" /\ detail.value \notin Typed \union {Default}
    THEN [detail EXCEPT !.value = Default]
    ELSE detail

\* narrow: a value of another type, or none, is an error and the default; a json
\* or detail read takes what it is given.
Narrow(accessor, detail) ==
    IF accessor = "typed" /\ detail.value \notin Typed \union {Default}
    THEN [detail EXCEPT !.value = Default, !.reason = "Error"]
    ELSE detail

\* Mutant: the segments are those of the last read.
EvaluateOnOldSegments(r, accessor) ==
    /\ pc[r] = "flags"
    /\ answer' = [answer EXCEPT ![r] =
         Narrow(accessor, Served(EvaluateHeld(key[r], def[r], flags, NoSegments)))]
    /\ pc' = [pc EXCEPT ![r] = "record"]
    /\ def' = [def EXCEPT ![r] = None]
    /\ segs' = [segs EXCEPT ![r] = NoSegments]
    /\ UNCHANGED <<flags, segments, changed, handles, key, recorded, noticed, possible, landed>>

\* The other flags are read, then everything up to the coercion is the reader's own.
EvaluateFlag(r, accessor) ==
    /\ pc[r] = "flags"
    /\ answer' = [answer EXCEPT ![r] =
         Narrow(accessor, Served(EvaluateHeld(key[r], def[r], flags, segs[r])))]
    /\ pc' = [pc EXCEPT ![r] = "record"]
    /\ def' = [def EXCEPT ![r] = None]
    /\ segs' = [segs EXCEPT ![r] = NoSegments]
    /\ UNCHANGED <<flags, segments, changed, handles, key, recorded, noticed, possible, landed>>

\* Mutant: the rule id is recorded whatever the reason.
RecordAnyRule(r) ==
    /\ pc[r] = "record"
    /\ recorded' = [recorded EXCEPT ![r] =
         IF stopped THEN None
         ELSE [variation |-> answer[r].variation, reason |-> answer[r].reason,
               blame |-> answer[r].blame, rule |-> answer[r].rule]]
    /\ pc' = [pc EXCEPT ![r] = "notify"]
    /\ possible' = [possible EXCEPT ![r] = {}]
    /\ landed' = [landed EXCEPT ![r] = <<>>]
    /\ UNCHANGED <<flags, segments, changed, handles, key, def, segs, answer, noticed>>

\* The analytics event; a rule id rides on a rule match only.
RecordEvaluation(r) ==
    /\ pc[r] = "record"
    /\ recorded' = [recorded EXCEPT ![r] =
         IF stopped THEN None
         ELSE [variation |-> answer[r].variation, reason |-> answer[r].reason,
               blame |-> answer[r].blame, rule |-> answer[r].rule /\ answer[r].reason = "RuleMatch"]]
    /\ pc' = [pc EXCEPT ![r] = "notify"]
    /\ possible' = [possible EXCEPT ![r] = {}]
    /\ landed' = [landed EXCEPT ![r] = <<>>]
    /\ UNCHANGED <<flags, segments, changed, handles, key, def, segs, answer, noticed>>

\* notifyInspectors looks at the core once, before the loop.
NotifyInspectors(r) ==
    /\ pc[r] = "notify"
    /\ pc' = [pc EXCEPT ![r] = IF Inspectors = 0 \/ shutDown THEN "done" ELSE "inspect"]
    /\ UNCHANGED <<flags, segments, changed, handles, key, def, segs, answer, recorded, noticed,
                   possible, landed>>

\* Mutant: a panic ends the loop.
StopAtPanic(r, panics) ==
    /\ pc[r] = "inspect"
    /\ noticed' = [noticed EXCEPT ![r] = Append(@, answer[r])]
    /\ pc' = [pc EXCEPT ![r] = IF panics \/ Len(noticed'[r]) = Inspectors THEN "done" ELSE @]
    /\ UNCHANGED <<flags, segments, changed, handles, key, def, segs, answer, recorded, possible,
                   landed>>

\* invokeInspector, whose panic is recovered, for the next inspector.
InvokeInspector(r, panics) ==
    /\ pc[r] = "inspect" /\ panics \in BOOLEAN
    /\ noticed' = [noticed EXCEPT ![r] = Append(@, answer[r])]
    /\ pc' = [pc EXCEPT ![r] = IF Len(noticed'[r]) = Inspectors THEN "done" ELSE @]
    /\ UNCHANGED <<flags, segments, changed, handles, key, def, segs, answer, recorded, possible,
                   landed>>

-----------------------------------------------------------------------------
(* Beside it: the store's writers, and handles that are closed.             *)

\* A reader between its check and its evaluation.
Reading(r) == pc[r] \in {"flag", "segments", "flags"}

\* What a write is to the reads under way; it happens at most MaxLanded times
\* in each.  Outside all reads the store need not change: every configuration
\* is one to begin with.
Lands(kind) ==
    /\ \E r \in Readers : Reading(r)
    /\ \A r \in Readers : Reading(r) => Len(landed[r]) < MaxLanded
    /\ landed' = [r \in Readers |-> IF Reading(r) THEN Append(landed[r], kind) ELSE landed[r]]
    /\ possible' = [r \in Readers |->
         IF Reading(r) THEN possible[r] \union {Evaluate(key[r], flags', segments')}
         ELSE possible[r]]
    /\ UNCHANGED <<handles, pc, key, def, segs, answer, recorded, noticed>>

WriteSnapshot ==
    \E f \in Flags, new \in FlagStates, newSegments \in [Segments -> SegmentStates] :
        /\ SetAll([flags EXCEPT ![f] = new], newSegments)
        /\ Lands("snapshot")

WriteDelta ==
    /\ \E f \in Flags : (\E new \in FlagDefs : SetFlag(f, new)) \/ RemoveFlag(f)
    /\ Lands("delta")

\* Close: the handle's compare-and-swap.
Close(c) ==
    /\ c \notin disposed
    /\ disposed' = disposed \union {c}
    /\ UNCHANGED <<vars, released, shutDown, stopped, locals>>

\* release: the last reference marks the core.
Release(c) ==
    /\ c \in disposed \ released
    /\ released' = released \union {c}
    /\ shutDown' = (released' = Clients)
    /\ UNCHANGED <<vars, disposed, stopped, locals>>

\* shutdown gets to ep.stop().
StopEvents ==
    /\ shutDown /\ ~stopped
    /\ stopped' = TRUE
    /\ UNCHANGED <<vars, disposed, released, shutDown, locals>>

NextVariation ==
    \/ \E r \in Readers :
         \/ \E c \in Clients, f \in Flags : Read(r, c, f)
         \/ GetFlag(r) \/ AllSegments(r)
         \/ \E accessor \in Accessors : EvaluateFlag(r, accessor)
         \/ RecordEvaluation(r) \/ NotifyInspectors(r)
         \/ \E panics \in BOOLEAN : InvokeInspector(r, panics)
    \/ WriteSnapshot \/ WriteDelta
    \/ \E c \in Clients : Close(c) \/ Release(c)
    \/ StopEvents

VariationSpec == InitVariation /\ [][NextVariation]_varVars

-----------------------------------------------------------------------------
(* Properties *)

\* A flag that neither asks for a flag nor uses a segment.
SelfContained(d) ==
    d = None \/ (d.prereqs = <<>> /\ \A rule \in d.rules : rule.when \notin Segments)

\* The configuration a read is evaluated on; it may be one nobody ever wrote.
Seen(r) == [flags EXCEPT ![key[r]] = def[r]]

\* Three critical sections or not, a read gives what a configuration held since
\* it began gives: with at most one delta beside it, and whatever was written
\* if the flag depends on nothing.  It is never older than the read.
ReadsAreFresh ==
    [][\A r \in Readers :
         /\ pc[r] = "flags" /\ pc'[r] = "record"
         /\ \/ landed[r] \in {<<>>, <<"delta">>} /\ Shallow(Seen(r))
            \/ SelfContained(def[r])
         => \E result \in possible[r], accessor \in Accessors :
               answer'[r] = Narrow(accessor, Served(result))]_varVars

\* Every read on an open handle is one analytics event and one call of every
\* inspector, whichever of them panics, with what the reader is given; only the
\* end of the core may take reports away, the closing of another handle never.
OneReportPerRead ==
    \A r \in Readers : pc[r] = "done" =>
        \/ answer[r] = Refused /\ recorded[r] = None /\ noticed[r] = <<>>
        \/ /\ answer[r] # Refused
           /\ recorded[r] # None \/ released = Clients
           /\ Len(noticed[r]) = Inspectors \/ (noticed[r] = <<>> /\ released = Clients)
           /\ \A i \in DOMAIN noticed[r] : noticed[r][i] = answer[r]

\* No report of a read looks healthier than the read: a default comes with a reason that
\* says so, the analytics event and every inspector are given that same reason, and a rule
\* is named only with a rule match.  One exception, and no other: what an inspector is told
\* of a default that was substituted still names the rule of the value it replaced, which
\* is against the comment of EvaluationEvent (see ReportsNameTheirCause).
DefaultIsNeverHealthy ==
    \A r \in Readers : answer[r] # None =>
        /\ answer[r].value = Default => answer[r].reason \in {"Error", "FlagNotFound"}
        /\ recorded[r] # None =>
             /\ recorded[r].reason = answer[r].reason
             /\ recorded[r].rule => recorded[r].reason = "RuleMatch"
        /\ \A i \in DOMAIN noticed[r] :
             /\ noticed[r][i].reason = answer[r].reason
             /\ noticed[r][i].rule =>
                  \/ noticed[r][i].reason = "RuleMatch"
                  \/ noticed[r][i].reason = "Error" /\ noticed[r][i].value = Default

\* What the methods' comments say: the default is returned if an error occurs.
ErrorsServeDefault ==
    \A r \in Readers :
        pc[r] = "done" /\ answer[r].reason = "Error" => answer[r].value = Default

\* What the comments of EvaluationEvent say: RuleID is set only on a rule match,
\* PrerequisiteKey only when a prerequisite failed.
ReportsNameTheirCause ==
    \A r \in Readers : \A i \in DOMAIN noticed[r] :
        /\ noticed[r][i].rule => noticed[r][i].reason = "RuleMatch"
        /\ noticed[r][i].blame # None => noticed[r][i].reason = "PrerequisiteFailed"

\* What the comment of notifyInspectors says: no event once the core has shut down.
QuietAfterShutdown ==
    [][\A r \in Readers : shutDown /\ noticed'[r] # <<>> => noticed'[r] = noticed[r]]_varVars

\* setAll replaces flags and segments atomically: a read would give the result
\* of a configuration that was held.
ReadsAreAtomic ==
    [][\A r \in Readers :
         pc[r] = "flags" /\ pc'[r] = "record" =>
            \E result \in possible[r], accessor \in Accessors :
               answer'[r] = Narrow(accessor, Served(result))]_varVars

=============================================================================
