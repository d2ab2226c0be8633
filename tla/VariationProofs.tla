--------------------------- MODULE VariationProofs ---------------------------
(***************************************************************************)
(* Proofs about a variation call: what its reports say, and that its       *)
(* result is never older than the call, for any number of readers,         *)
(* handles, inspectors and writes beside it.                               *)
(***************************************************************************)
EXTENDS Variation, FlagUpdatesProofs

-----------------------------------------------------------------------------
(* What a reader is given.                                                  *)

NotFound == Detail(None, "FlagNotFound", None)
Results == Details \union {NotFound}

\* An answer of an open handle: only a flag that is not found has no variation, the
\* default goes with no healthy reason, and a rule with a rule match or a substitution.
Given(a) ==
    /\ a \in Answers
    /\ a.variation = None => a.reason = "FlagNotFound"
    /\ a.value = Default => a.reason \in {"Error", "FlagNotFound"}
    /\ a.rule => a.reason = "RuleMatch" \/ (a.reason = "Error" /\ a.value = Default)

LEMMA EvaluateHeldType ==
    ASSUME NEW f \in Flags, NEW d \in FlagType \union {None}, NEW fs \in Configurations, NEW ss
    PROVE  EvaluateHeld(f, d, fs, ss) \in Results
<1>1. CASE d = None
  BY <1>1 DEF EvaluateHeld, Results, NotFound
<1>2. CASE d # None
  <2>1. EvaluateFrom(f, d, fs, ss, NoMemo) \in Evaluated
    BY <1>2, NoMemoType, EvaluateFromType
  <2>2. QED
    BY <1>2, <2>1 DEF EvaluateHeld, Results, Evaluated
<1>3. QED
  BY <1>1, <1>2

LEMMA ServedType ==
    ASSUME NEW result \in Results
    PROVE  /\ Given(Served(result))
           /\ Served(result).value = Default <=> result = NotFound
<1>1. CASE result = NotFound
  BY <1>1 DEF NotFound, Detail, Served, Value, Given, Answers
<1>2. CASE result \in Details
  <2>1. /\ result.variation \in VariationKeys /\ result.reason \in Reasons
        /\ result.blame \in Flags \union {None}
    BY <1>2 DEF Details
  <2>2. result.reason # "FlagNotFound" /\ result # NotFound
    BY <2>1 DEF Reasons, NotFound, Detail
  <2>3. Value(result) \in Variations \union {None} /\ Value(result) # Default
        /\ result.variation # None
    BY <2>1, <2>2, VariationAssumption, EvaluationAssumption DEF Value
  <2>4. QED
    BY <2>1, <2>2, <2>3 DEF Served, Given, Answers
<1>3. QED
  BY <1>1, <1>2 DEF Results

LEMMA NarrowType ==
    ASSUME NEW result \in Results, NEW accessor
    PROVE  Given(Narrow(accessor, Served(result)))
<1> DEFINE d == Served(result)
<1>1. Given(d) /\ d \in Answers
  BY ServedType DEF Given
<1>2. CASE accessor = "typed" /\ d.value \notin Typed \union {Default}
  <2>1. Narrow(accessor, d) = [d EXCEPT !.value = Default, !.reason = "Error"]
    BY <1>2 DEF Narrow
  <2>2. result # NotFound
    BY <1>2, ServedType
  <2>3. d.variation # None
    <3>1. result.variation \in VariationKeys
      BY <2>2 DEF Results, Details
    <3>2. QED
      BY <3>1, EvaluationAssumption DEF Served
  <2> HIDE DEF d
  <2>4. d.variation \in VariationKeys \union {None} /\ d.blame \in Flags \union {None}
        /\ d.rule \in BOOLEAN /\ d = [variation |-> d.variation, reason |-> d.reason,
                                     blame |-> d.blame, rule |-> d.rule, value |-> d.value]
    BY <1>1 DEF Answers
  <2>5. Narrow(accessor, d) = [variation |-> d.variation, reason |-> "Error", blame |-> d.blame,
                               rule |-> d.rule, value |-> Default]
    BY <2>1, <2>4
  <2>6. Narrow(accessor, d) \in Answers
    BY <2>4, <2>5 DEF Answers, Reasons
  <2>7. Narrow(accessor, d).variation # None /\ Narrow(accessor, d).reason = "Error"
        /\ Narrow(accessor, d).value = Default
    BY <2>3, <2>5
  <2>8. QED
    BY <2>6, <2>7 DEF Given, d
<1>3. CASE ~(accessor = "typed" /\ d.value \notin Typed \union {Default})
  <2>1. Narrow(accessor, d) = d
    BY <1>3 DEF Narrow
  <2>2. QED
    BY <1>1, <2>1
<1>4. QED
  BY <1>2, <1>3

LEMMA RefusedType == Refused \in Answers /\ ~Given(Refused)
<1>1. Refused \in Answers
  BY DEF Refused, Answers, Reasons
<1>2. Refused.variation = None /\ Refused.reason = "Error"
  BY DEF Refused
<1>3. QED
  BY <1>1, <1>2 DEF Given

-----------------------------------------------------------------------------
(* The types, and the order in which handles and their core end.            *)

HandlesEnd ==
    /\ released \subseteq Clients
    /\ shutDown => released = Clients
    /\ stopped => shutDown

ReadersTyped ==
    /\ pc \in [Readers -> Places] /\ key \in [Readers -> Flags \union {None}]
    /\ def \in [Readers -> FlagStates]
    /\ segs \in [Readers -> [Segments -> SegmentStates]]
    /\ answer \in [Readers -> Answers \union {None}]
    /\ recorded \in [Readers -> Reports \union {None}]
    /\ noticed \in [Readers -> Seq(Answers)]
    /\ possible \in [Readers -> SUBSET Results]
    /\ landed \in [Readers -> Seq({"snapshot", "delta"})]

Keyed == \A r \in Readers : Reading(r) => key[r] \in Flags

Asked == \A r \in Readers : pc[r] \in {"record", "notify", "inspect"} => answer[r] # None

CallTyped == Stored /\ HandlesEnd /\ ReadersTyped /\ Keyed /\ Asked

LEMMA EvaluateType ==
    ASSUME Stored, NEW f \in Flags
    PROVE  Evaluate(f, flags, segments) \in Results
<1>1. flags \in Configurations /\ flags[f] \in FlagType \union {None}
  BY StoredIsConfiguration DEF Configurations
<1>2. QED
  BY <1>1, EvaluateHeldType DEF Evaluate

LEMMA ReportType ==
    ASSUME NEW a \in Answers
    PROVE  [variation |-> a.variation, reason |-> a.reason, blame |-> a.blame,
            rule |-> a.rule /\ a.reason = "RuleMatch"] \in Reports
BY DEF Answers, Reports

\* The steps of one reader.
ReaderStep(r) ==
    \/ \E c \in Clients, f \in Flags : Read(r, c, f)
    \/ GetFlag(r) \/ AllSegments(r)
    \/ \E accessor \in Accessors : EvaluateFlag(r, accessor)
    \/ RecordEvaluation(r) \/ NotifyInspectors(r)
    \/ \E panics \in BOOLEAN : InvokeInspector(r, panics)

LEMMA TypedAtFirst == InitVariation => CallTyped
<1> SUFFICES ASSUME InitVariation PROVE CallTyped
  OBVIOUS
<1>1. Stored /\ HandlesEnd
  BY DEF InitVariation, Stored, HandlesEnd
<1>2. NoSegments \in [Segments -> SegmentStates] /\ None \in FlagStates /\ "idle" \in Places
  BY DEF NoSegments, SegmentStates, FlagStates, Places
<1>3. ReadersTyped
  BY <1>2 DEF InitVariation, ReadersTyped
<1>4. Keyed /\ Asked
  BY DEF InitVariation, Keyed, Asked, Reading
<1>5. QED
  BY <1>1, <1>3, <1>4 DEF CallTyped

LEMMA WriteTyped ==
    ASSUME CallTyped, WriteSnapshot \/ WriteDelta
    PROVE  CallTyped'
<1>1. Stored'
  <2>1. CASE WriteSnapshot
    BY <2>1 DEF WriteSnapshot, SetAll, CallTyped, Stored
  <2>2. CASE WriteDelta
    BY <2>2 DEF WriteDelta, SetFlag, RemoveFlag, CallTyped, Stored, FlagStates
  <2>3. QED
    BY <2>1, <2>2
<1>2. PICK kind \in {"snapshot", "delta"} : Lands(kind)
  BY DEF WriteSnapshot, WriteDelta
<1>3. HandlesEnd'
  BY <1>2 DEF Lands, handles, CallTyped, HandlesEnd
<1>4. ReadersTyped'
  <2>1. ASSUME NEW r \in Readers
        PROVE  /\ (IF Reading(r) THEN Append(landed[r], kind) ELSE landed[r])
                     \in Seq({"snapshot", "delta"})
               /\ (IF Reading(r)
                   THEN possible[r] \union {Evaluate(key[r], flags', segments')}
                   ELSE possible[r]) \in SUBSET Results
    <3>1. landed[r] \in Seq({"snapshot", "delta"}) /\ possible[r] \in SUBSET Results
      BY DEF CallTyped, ReadersTyped
    <3>2. Reading(r) => Evaluate(key[r], flags', segments') \in Results
      <4>1. SUFFICES ASSUME Reading(r) PROVE Evaluate(key[r], flags', segments') \in Results
        OBVIOUS
      <4>2. key[r] \in Flags
        BY <4>1 DEF CallTyped, Keyed
      <4>3. flags' \in Configurations /\ flags'[key[r]] \in FlagType \union {None}
        BY <1>1, <4>2, FlagUpdatesAssumption DEF Stored, FlagStates, Configurations
      <4>4. QED
        BY <4>2, <4>3, EvaluateHeldType DEF Evaluate
    <3>3. QED
      BY <3>1, <3>2
  <2>2. landed' \in [Readers -> Seq({"snapshot", "delta"})]
        /\ possible' \in [Readers -> SUBSET Results]
    BY <1>2, <2>1 DEF Lands
  <2>3. QED
    BY <1>2, <2>2 DEF Lands, CallTyped, ReadersTyped
<1>5. Keyed' /\ Asked'
  BY <1>2 DEF Lands, CallTyped, Keyed, Asked, Reading
<1>6. QED
  BY <1>1, <1>3, <1>4, <1>5 DEF CallTyped

LEMMA EndTyped ==
    ASSUME CallTyped, (\E c \in Clients : Close(c) \/ Release(c)) \/ StopEvents
    PROVE  CallTyped'
<1>1. UNCHANGED <<vars, locals>>
  BY DEF Close, Release, StopEvents
<1>2. Stored' /\ ReadersTyped' /\ Keyed' /\ Asked'
  BY <1>1 DEF vars, locals, CallTyped, Stored, ReadersTyped, Keyed, Asked, Reading
<1>3. HandlesEnd'
  <2>1. ASSUME NEW c \in Clients, Close(c) PROVE HandlesEnd'
    BY <2>1 DEF Close, CallTyped, HandlesEnd
  <2>2. ASSUME NEW c \in Clients, Release(c) PROVE HandlesEnd'
    BY <2>2 DEF Release, CallTyped, HandlesEnd
  <2>3. ASSUME StopEvents PROVE HandlesEnd'
    BY <2>3 DEF StopEvents, CallTyped, HandlesEnd
  <2>4. QED
    BY <2>1, <2>2, <2>3
<1>4. QED
  BY <1>2, <1>3 DEF CallTyped

\* What EvaluateFlag comes to.
LEMMA GivenHere ==
    ASSUME CallTyped, NEW r \in Readers, NEW accessor, EvaluateFlag(r, accessor)
    PROVE  /\ EvaluateHeld(key[r], def[r], flags, segs[r]) \in Results
           /\ Given(Narrow(accessor, Served(EvaluateHeld(key[r], def[r], flags, segs[r]))))
           /\ Narrow(accessor, Served(EvaluateHeld(key[r], def[r], flags, segs[r]))) # None
<1> DEFINE result == EvaluateHeld(key[r], def[r], flags, segs[r])
<1>1. key[r] \in Flags
  BY DEF EvaluateFlag, CallTyped, Keyed, Reading
<1>2. def[r] \in FlagType \union {None} /\ flags \in Configurations
  BY FlagUpdatesAssumption, StoredIsConfiguration DEF FlagStates, CallTyped, ReadersTyped
<1>3. result \in Results
  BY <1>1, <1>2, EvaluateHeldType
<1> HIDE DEF result
<1>4. Given(Narrow(accessor, Served(result)))
  BY <1>3, NarrowType
<1>5. Narrow(accessor, Served(result)) # None
  BY <1>4, VariationAssumption DEF Given
<1>6. QED
  BY <1>3, <1>4, <1>5 DEF result

LEMMA ReaderTyped ==
    ASSUME CallTyped, NEW r \in Readers, ReaderStep(r)
    PROVE  CallTyped'
<1>1. HandlesEnd'
  <2>1. UNCHANGED handles
    BY DEF ReaderStep, Read, GetFlag, AllSegments, EvaluateFlag, RecordEvaluation,
           NotifyInspectors, InvokeInspector
  <2>2. QED
    BY <2>1 DEF handles, CallTyped, HandlesEnd
<1>2. Stored'
  <2>1. UNCHANGED <<flags, segments>>
    BY DEF ReaderStep, Read, GetFlag, AllSegments, EvaluateFlag, RecordEvaluation,
           NotifyInspectors, InvokeInspector
  <2>2. QED
    BY <2>1 DEF CallTyped, Stored
<1>3. ASSUME NEW c \in Clients, NEW f \in Flags, Read(r, c, f) PROVE ReadersTyped'
  <2>1. Outcome(f) \in Results
    BY EvaluateType DEF Outcome, CallTyped
  <2>2. /\ pc' \in [Readers -> Places] /\ answer' \in [Readers -> Answers \union {None}]
    BY <1>3, RefusedType DEF Read, CallTyped, ReadersTyped, Places
  <2>3. possible' \in [Readers -> SUBSET Results]
    BY <1>3, <2>1 DEF Read, CallTyped, ReadersTyped
  <2>4. QED
    BY <1>3, <2>2, <2>3 DEF Read, CallTyped, ReadersTyped
<1>4. ASSUME GetFlag(r) PROVE ReadersTyped'
  <2>1. flags[key[r]] \in FlagStates
    BY <1>4 DEF GetFlag, CallTyped, Stored, Keyed, Reading
  <2>2. pc' \in [Readers -> Places]
    BY <1>4 DEF GetFlag, CallTyped, ReadersTyped, Places
  <2>3. def' \in [Readers -> FlagStates]
    BY <1>4, <2>1 DEF GetFlag, CallTyped, ReadersTyped
  <2>4. UNCHANGED <<key, segs, answer, recorded, noticed, possible, landed>>
    BY <1>4 DEF GetFlag
  <2>5. QED
    BY <2>2, <2>3, <2>4 DEF CallTyped, ReadersTyped
<1>5. ASSUME AllSegments(r) PROVE ReadersTyped'
  <2>1. pc' \in [Readers -> Places]
    BY <1>5 DEF AllSegments, CallTyped, ReadersTyped, Places
  <2>2. segs' \in [Readers -> [Segments -> SegmentStates]]
    BY <1>5 DEF AllSegments, CallTyped, ReadersTyped, Stored
  <2>3. UNCHANGED <<key, def, answer, recorded, noticed, possible, landed>>
    BY <1>5 DEF AllSegments
  <2>4. QED
    BY <2>1, <2>2, <2>3 DEF CallTyped, ReadersTyped
<1>6. ASSUME NEW accessor \in Accessors, EvaluateFlag(r, accessor) PROVE ReadersTyped'
  <2> DEFINE given == Narrow(accessor, Served(EvaluateHeld(key[r], def[r], flags, segs[r])))
  <2>4. given \in Answers
    BY <1>6, GivenHere DEF Given
  <2>5. NoSegments \in [Segments -> SegmentStates] /\ None \in FlagStates
    BY DEF NoSegments, SegmentStates, FlagStates
  <2>6. /\ answer' = [answer EXCEPT ![r] = given] /\ pc' = [pc EXCEPT ![r] = "record"]
        /\ def' = [def EXCEPT ![r] = None] /\ segs' = [segs EXCEPT ![r] = NoSegments]
        /\ UNCHANGED <<key, recorded, noticed, possible, landed>>
    BY <1>6 DEF EvaluateFlag
  <2> HIDE DEF given
  <2>7. QED
    BY <2>4, <2>5, <2>6 DEF CallTyped, ReadersTyped, Places
<1>7. ASSUME RecordEvaluation(r) PROVE ReadersTyped'
  <2>1. answer[r] # None => recorded' \in [Readers -> Reports \union {None}]
    <3>1. SUFFICES ASSUME answer[r] \in Answers
                   PROVE  recorded' \in [Readers -> Reports \union {None}]
      BY DEF CallTyped, ReadersTyped
    <3>2. [variation |-> answer[r].variation, reason |-> answer[r].reason,
           blame |-> answer[r].blame,
           rule |-> answer[r].rule /\ answer[r].reason = "RuleMatch"] \in Reports
      BY <3>1, ReportType
    <3>3. QED
      BY <1>7, <3>2 DEF RecordEvaluation, CallTyped, ReadersTyped
  <2>2. pc' \in [Readers -> Places] /\ possible' \in [Readers -> SUBSET Results]
        /\ landed' \in [Readers -> Seq({"snapshot", "delta"})]
    BY <1>7 DEF RecordEvaluation, CallTyped, ReadersTyped, Places
  <2>3. UNCHANGED <<key, def, segs, answer, noticed>> /\ answer[r] # None
    BY <1>7 DEF RecordEvaluation, CallTyped, Asked
  <2>4. QED
    BY <2>1, <2>2, <2>3 DEF CallTyped, ReadersTyped
<1>8. ASSUME NotifyInspectors(r) PROVE ReadersTyped'
  <2>1. pc' \in [Readers -> Places]
    BY <1>8 DEF NotifyInspectors, CallTyped, ReadersTyped, Places
  <2>2. UNCHANGED <<key, def, segs, answer, recorded, noticed, possible, landed>>
    BY <1>8 DEF NotifyInspectors
  <2>3. QED
    BY <2>1, <2>2 DEF CallTyped, ReadersTyped
<1>9. ASSUME NEW panics \in BOOLEAN, InvokeInspector(r, panics) PROVE ReadersTyped'
  <2>1. pc' \in [Readers -> Places]
    BY <1>9 DEF InvokeInspector, CallTyped, ReadersTyped, Places
  <2>2. answer[r] \in Answers
    BY <1>9 DEF InvokeInspector, CallTyped, ReadersTyped, Asked
  <2>3. noticed' \in [Readers -> Seq(Answers)]
    BY <1>9, <2>2 DEF InvokeInspector, CallTyped, ReadersTyped
  <2>4. UNCHANGED <<key, def, segs, answer, recorded, possible, landed>>
    BY <1>9 DEF InvokeInspector
  <2>5. QED
    BY <2>1, <2>3, <2>4 DEF CallTyped, ReadersTyped
<1>10. Keyed'
  <2>1. ASSUME NEW q \in Readers, Reading(q)' PROVE key'[q] \in Flags
    <3>1. CASE \E c \in Clients, f \in Flags : Read(r, c, f)
      BY <2>1, <3>1 DEF Read, Reading, CallTyped, ReadersTyped, Keyed
    <3>2. CASE GetFlag(r) \/ AllSegments(r)
      BY <2>1, <3>2 DEF GetFlag, AllSegments, Reading, CallTyped, ReadersTyped, Keyed
    <3>3. CASE \E accessor \in Accessors : EvaluateFlag(r, accessor)
      BY <2>1, <3>3 DEF EvaluateFlag, Reading, CallTyped, ReadersTyped, Keyed
    <3>4. CASE RecordEvaluation(r) \/ NotifyInspectors(r)
      BY <2>1, <3>4 DEF RecordEvaluation, NotifyInspectors, Reading, CallTyped, ReadersTyped,
                        Keyed
    <3>5. CASE \E panics \in BOOLEAN : InvokeInspector(r, panics)
      BY <2>1, <3>5 DEF InvokeInspector, Reading, CallTyped, ReadersTyped, Keyed
    <3>6. QED
      BY <3>1, <3>2, <3>3, <3>4, <3>5 DEF ReaderStep
  <2>2. QED
    BY <2>1 DEF Keyed
<1>11. Asked'
  <2>1. ASSUME NEW q \in Readers, pc'[q] \in {"record", "notify", "inspect"}
        PROVE  answer'[q] # None
    <3>1. ASSUME NEW c \in Clients, NEW f \in Flags, Read(r, c, f) PROVE answer'[q] # None
      <4>1. q # r
        BY <2>1, <3>1 DEF Read, CallTyped, ReadersTyped
      <4>2. pc'[q] = pc[q] /\ answer'[q] = answer[q]
        BY <3>1, <4>1 DEF Read, CallTyped, ReadersTyped
      <4>3. QED
        BY <2>1, <4>2 DEF CallTyped, Asked
    <3>2. CASE GetFlag(r) \/ AllSegments(r)
      BY <2>1, <3>2 DEF GetFlag, AllSegments, CallTyped, ReadersTyped, Asked
    <3>3. ASSUME NEW accessor \in Accessors, EvaluateFlag(r, accessor) PROVE answer'[q] # None
      <4> DEFINE given == Narrow(accessor, Served(EvaluateHeld(key[r], def[r], flags, segs[r])))
      <4>1. answer' = [answer EXCEPT ![r] = given] /\ pc' = [pc EXCEPT ![r] = "record"]
        BY <3>3 DEF EvaluateFlag
      <4>2. given # None
        BY <3>3, GivenHere DEF Given
      <4> HIDE DEF given
      <4>3. QED
        BY <2>1, <4>1, <4>2 DEF CallTyped, ReadersTyped, Asked
    <3>4. CASE RecordEvaluation(r) \/ NotifyInspectors(r)
      BY <2>1, <3>4 DEF RecordEvaluation, NotifyInspectors, CallTyped, ReadersTyped, Asked
    <3>5. CASE \E panics \in BOOLEAN : InvokeInspector(r, panics)
      BY <2>1, <3>5 DEF InvokeInspector, CallTyped, ReadersTyped, Asked
    <3>6. QED
      BY <3>1, <3>2, <3>3, <3>4, <3>5 DEF ReaderStep
  <2>2. QED
    BY <2>1 DEF Asked
<1>12. QED
  BY <1>1, <1>2, <1>3, <1>4, <1>5, <1>6, <1>7, <1>8, <1>9, <1>10, <1>11
     DEF ReaderStep, CallTyped

-----------------------------------------------------------------------------
(* Reports.                                                                 *)

\* The analytics event of an answer; only the end of the core takes it away.
Recorded(r) ==
    /\ recorded[r] = None => released = Clients
    /\ recorded[r] # None => /\ recorded[r].reason = answer[r].reason
                             /\ recorded[r].rule => answer[r].reason = "RuleMatch"

Told(r) == \A i \in DOMAIN noticed[r] : noticed[r][i] = answer[r]

\* Where a reader is between the check of its handle and its last report.
Reporting(r) ==
    \/ /\ pc[r] \in {"idle", "flag", "segments", "flags"}
       /\ answer[r] = None /\ recorded[r] = None /\ noticed[r] = <<>>
    \/ pc[r] = "record" /\ Given(answer[r]) /\ recorded[r] = None /\ noticed[r] = <<>>
    \/ pc[r] = "notify" /\ Given(answer[r]) /\ Recorded(r) /\ noticed[r] = <<>>
    \/ pc[r] = "inspect" /\ Given(answer[r]) /\ Recorded(r) /\ Told(r) /\ Len(noticed[r]) < Inspectors
    \/ pc[r] = "done" /\ answer[r] = Refused /\ recorded[r] = None /\ noticed[r] = <<>>
    \/ /\ pc[r] = "done" /\ Given(answer[r]) /\ Recorded(r) /\ Told(r)
       /\ Len(noticed[r]) = Inspectors \/ (noticed[r] = <<>> /\ released = Clients)

ReportsKept == \A r \in Readers : Reporting(r)

\* What a reader's own part in the steps of others comes to.
LEMMA ReportingStays ==
    ASSUME NEW r, Reporting(r), pc'[r] = pc[r], answer'[r] = answer[r],
           recorded'[r] = recorded[r], noticed'[r] = noticed[r],
           released = Clients => released' = Clients
    PROVE  Reporting(r)'
BY DEF Reporting, Recorded, Told

LEMMA OthersKeepReports ==
    ASSUME CallTyped, ReportsKept,
           WriteSnapshot \/ WriteDelta \/ (\E c \in Clients : Close(c) \/ Release(c)) \/ StopEvents
    PROVE  ReportsKept'
<1>1. UNCHANGED <<pc, answer, recorded, noticed>>
  BY DEF WriteSnapshot, WriteDelta, Lands, Close, Release, StopEvents, locals
<1>2. released = Clients => released' = Clients
  BY DEF WriteSnapshot, WriteDelta, Lands, Close, Release, StopEvents, handles
<1>3. QED
  BY <1>1, <1>2, ReportingStays DEF ReportsKept

LEMMA ReaderKeepsReports ==
    ASSUME CallTyped, ReportsKept, NEW r \in Readers, ReaderStep(r)
    PROVE  ReportsKept'
<1>1. ASSUME NEW q \in Readers, q # r PROVE Reporting(q)'
  <2>1. released' = released
    BY DEF ReaderStep, Read, GetFlag, AllSegments, EvaluateFlag, RecordEvaluation,
           NotifyInspectors, InvokeInspector, handles
  <2>2. pc'[q] = pc[q] /\ answer'[q] = answer[q] /\ recorded'[q] = recorded[q]
        /\ noticed'[q] = noticed[q]
    BY <1>1 DEF ReaderStep, Read, GetFlag, AllSegments, EvaluateFlag, RecordEvaluation,
                NotifyInspectors, InvokeInspector, CallTyped, ReadersTyped
  <2>3. QED
    BY <2>1, <2>2, ReportingStays DEF ReportsKept
<1>2. Reporting(r)
  BY DEF ReportsKept
<1>3. ASSUME NEW c \in Clients, NEW f \in Flags, Read(r, c, f) PROVE Reporting(r)'
  <2>1. recorded'[r] = None /\ noticed'[r] = <<>>
    BY <1>3 DEF Read, CallTyped, ReadersTyped
  <2>2. \/ pc'[r] = "done" /\ answer'[r] = Refused
        \/ pc'[r] = "flag" /\ answer'[r] = None
    BY <1>3 DEF Read, CallTyped, ReadersTyped
  <2>3. QED
    BY <2>1, <2>2 DEF Reporting
<1>4. ASSUME GetFlag(r) \/ AllSegments(r) PROVE Reporting(r)'
  <2>1. pc[r] \in {"flag", "segments"} /\ pc'[r] \in {"segments", "flags"}
        /\ UNCHANGED <<answer, recorded, noticed>>
    BY <1>4 DEF GetFlag, AllSegments, CallTyped, ReadersTyped
  <2>2. QED
    BY <1>2, <2>1 DEF Reporting
<1>5. ASSUME NEW accessor \in Accessors, EvaluateFlag(r, accessor) PROVE Reporting(r)'
  <2> DEFINE given == Narrow(accessor, Served(EvaluateHeld(key[r], def[r], flags, segs[r])))
  <2>1. pc[r] = "flags" /\ pc' = [pc EXCEPT ![r] = "record"] /\ answer' = [answer EXCEPT ![r] = given]
        /\ UNCHANGED <<recorded, noticed>>
    BY <1>5 DEF EvaluateFlag
  <2>2. Given(given)
    BY <1>5, GivenHere
  <2> HIDE DEF given
  <2>3. pc'[r] = "record" /\ answer'[r] = given
    BY <2>1 DEF CallTyped, ReadersTyped
  <2>4. QED
    BY <1>2, <2>1, <2>2, <2>3 DEF Reporting
<1>6. ASSUME RecordEvaluation(r) PROVE Reporting(r)'
  <2> DEFINE report == [variation |-> answer[r].variation, reason |-> answer[r].reason,
                        blame |-> answer[r].blame,
                        rule |-> answer[r].rule /\ answer[r].reason = "RuleMatch"]
  <2>1. Given(answer[r]) /\ noticed[r] = <<>>
    BY <1>2, <1>6 DEF Reporting, RecordEvaluation
  <2>2. report \in Reports
    BY <2>1, ReportType DEF Given
  <2>3. pc'[r] = "notify" /\ recorded'[r] = IF stopped THEN None ELSE report
    BY <1>6 DEF RecordEvaluation, CallTyped, ReadersTyped
  <2>4. UNCHANGED <<answer, noticed, released>>
    BY <1>6 DEF RecordEvaluation, handles
  <2>5. Recorded(r)'
    <3>1. CASE stopped
      <4>1. released = Clients
        BY <3>1 DEF CallTyped, HandlesEnd
      <4>2. QED
        BY <2>3, <2>4, <3>1, <4>1 DEF Recorded
    <3>2. CASE ~stopped
      <4>1. report # None
        BY <2>2, VariationAssumption
      <4>2. report.reason = answer[r].reason /\ (report.rule => answer[r].reason = "RuleMatch")
        OBVIOUS
      <4> HIDE DEF report
      <4>3. QED
        BY <2>3, <2>4, <3>2, <4>1, <4>2 DEF Recorded
    <3>3. QED
      BY <3>1, <3>2
  <2>6. QED
    BY <2>1, <2>3, <2>4, <2>5 DEF Reporting
<1>7. ASSUME NotifyInspectors(r) PROVE Reporting(r)'
  <2>1. Given(answer[r]) /\ Recorded(r) /\ noticed[r] = <<>> /\ pc[r] = "notify"
    BY <1>2, <1>7 DEF Reporting, NotifyInspectors
  <2>2. pc'[r] = IF Inspectors = 0 \/ shutDown THEN "done" ELSE "inspect"
    BY <1>7 DEF NotifyInspectors, CallTyped, ReadersTyped
  <2>3. UNCHANGED <<answer, recorded, noticed, released>>
    BY <1>7 DEF NotifyInspectors, handles
  <2>4. Recorded(r)' /\ Told(r)'
    BY <2>1, <2>3 DEF Recorded, Told
  <2>5. Len(noticed[r]) = 0
    BY <2>1
  <2>6. CASE Inspectors = 0 \/ shutDown
    BY <2>1, <2>2, <2>3, <2>4, <2>5, <2>6 DEF Reporting, CallTyped, HandlesEnd
  <2>7. CASE ~(Inspectors = 0 \/ shutDown)
    BY <2>1, <2>2, <2>3, <2>4, <2>5, <2>7, VariationAssumption DEF Reporting
  <2>8. QED
    BY <2>6, <2>7
<1>8. ASSUME NEW panics \in BOOLEAN, InvokeInspector(r, panics) PROVE Reporting(r)'
  <2>1. Given(answer[r]) /\ Recorded(r) /\ Told(r) /\ Len(noticed[r]) < Inspectors
        /\ pc[r] = "inspect"
    BY <1>2, <1>8 DEF Reporting, InvokeInspector
  <2>2. noticed[r] \in Seq(Answers) /\ answer[r] \in Answers
    BY <2>1 DEF Given, CallTyped, ReadersTyped
  <2>3. noticed'[r] = Append(noticed[r], answer[r])
        /\ pc'[r] = IF Len(noticed'[r]) = Inspectors THEN "done" ELSE "inspect"
    BY <1>8, <2>1 DEF InvokeInspector, CallTyped, ReadersTyped
  <2>4. UNCHANGED <<answer, recorded, released>>
    BY <1>8 DEF InvokeInspector, handles
  <2>5. Len(noticed'[r]) = Len(noticed[r]) + 1 /\ Len(noticed[r]) \in Nat
    BY <2>2, <2>3
  <2>6. Recorded(r)' /\ Told(r)'
    BY <2>1, <2>2, <2>3, <2>4 DEF Recorded, Told
  <2>7. CASE Len(noticed'[r]) = Inspectors
    BY <2>1, <2>3, <2>4, <2>6, <2>7 DEF Reporting
  <2>8. CASE Len(noticed'[r]) # Inspectors
    <3>1. Len(noticed'[r]) < Inspectors
      BY <2>1, <2>5, <2>8, VariationAssumption
    <3>2. QED
      BY <2>1, <2>3, <2>4, <2>6, <2>8, <3>1 DEF Reporting
  <2>9. QED
    BY <2>7, <2>8
<1>9. Reporting(r)'
  BY <1>3, <1>4, <1>5, <1>6, <1>7, <1>8 DEF ReaderStep
<1>10. QED
  BY <1>1, <1>9 DEF ReportsKept

\* What one call of a variation method goes through, beside everything else.
Protocol == CallTyped /\ ReportsKept

LEMMA ProtocolHolds == VariationSpec => []Protocol
<1>1. InitVariation => Protocol
  <2>1. InitVariation => ReportsKept
    BY DEF InitVariation, ReportsKept, Reporting
  <2>2. QED
    BY <2>1, TypedAtFirst DEF Protocol
<1>2. Protocol /\ [NextVariation]_varVars => Protocol'
  <2> SUFFICES ASSUME Protocol, [NextVariation]_varVars PROVE Protocol'
    OBVIOUS
  <2>1. CASE UNCHANGED varVars
    <3>1. UNCHANGED <<flags, segments, released, shutDown, stopped>> /\ UNCHANGED locals
      BY <2>1 DEF varVars, vars, handles
    <3>2. CallTyped'
      BY <3>1 DEF locals, Protocol, CallTyped, Stored, HandlesEnd, ReadersTyped, Keyed, Asked,
                  Reading
    <3>3. ReportsKept'
      BY <3>1, ReportingStays DEF locals, Protocol, ReportsKept
    <3>4. QED
      BY <3>2, <3>3 DEF Protocol
  <2>2. ASSUME NEW r \in Readers, ReaderStep(r) PROVE Protocol'
    BY <2>2, ReaderTyped, ReaderKeepsReports DEF Protocol
  <2>3. CASE WriteSnapshot \/ WriteDelta
    BY <2>3, WriteTyped, OthersKeepReports DEF Protocol
  <2>4. CASE (\E c \in Clients : Close(c) \/ Release(c)) \/ StopEvents
    BY <2>4, EndTyped, OthersKeepReports DEF Protocol
  <2>5. QED
    BY <2>1, <2>2, <2>3, <2>4 DEF NextVariation, ReaderStep
<1>3. QED
  BY <1>1, <1>2, PTL DEF VariationSpec

\* Every variation call on an open handle is one analytics event and one call of
\* every inspector, whichever of them panics, with what the caller is given
\* (recordEvaluation, notifyInspectors and invokeInspector); only the end of the
\* core takes reports away.
THEOREM ReadsAreReportedOnce == VariationSpec => []OneReportPerRead
<1>1. Protocol => OneReportPerRead
  <2> SUFFICES ASSUME Protocol, NEW r \in Readers, pc[r] = "done"
               PROVE  \/ answer[r] = Refused /\ recorded[r] = None /\ noticed[r] = <<>>
                      \/ /\ answer[r] # Refused
                         /\ recorded[r] # None \/ released = Clients
                         /\ Len(noticed[r]) = Inspectors \/ (noticed[r] = <<>> /\ released = Clients)
                         /\ \A i \in DOMAIN noticed[r] : noticed[r][i] = answer[r]
    BY DEF OneReportPerRead
  <2>1. Reporting(r)
    BY DEF Protocol, ReportsKept
  <2>2. QED
    BY <2>1, RefusedType DEF Reporting, Recorded, Told
<1>2. QED
  BY <1>1, ProtocolHolds, PTL

\* A default comes with a reason that says so, every report gives the reason its reader
\* was given, and none names a rule that did not match, but for the one an inspector is
\* told of a default that was substituted: narrow (featureflip.go) names the error before
\* anything is reported and leaves the rule.
THEOREM DefaultsAreTold == VariationSpec => []DefaultIsNeverHealthy
<1>1. Protocol => DefaultIsNeverHealthy
  <2> DEFINE OneRead(r) ==
        /\ answer[r].value = Default => answer[r].reason \in {"Error", "FlagNotFound"}
        /\ recorded[r] # None =>
             /\ recorded[r].reason = answer[r].reason
             /\ recorded[r].rule => recorded[r].reason = "RuleMatch"
        /\ \A i \in DOMAIN noticed[r] :
             /\ noticed[r][i].reason = answer[r].reason
             /\ noticed[r][i].rule =>
                  \/ noticed[r][i].reason = "RuleMatch"
                  \/ noticed[r][i].reason = "Error" /\ noticed[r][i].value = Default
  <2> SUFFICES ASSUME Protocol, NEW r \in Readers, answer[r] # None
               PROVE  OneRead(r)
    BY DEF DefaultIsNeverHealthy
  <2>1. Reporting(r)
    BY DEF Protocol, ReportsKept
  <2>2. CASE answer[r] = Refused /\ pc[r] = "done"
    <3>1. Refused.reason = "Error"
      BY DEF Refused
    <3>2. recorded[r] = None /\ noticed[r] = <<>>
      BY <2>1, <2>2, RefusedType DEF Reporting
    <3>3. QED
      BY <2>2, <3>1, <3>2
  <2>3. CASE Given(answer[r])
    <3>1. answer[r].value = Default => answer[r].reason \in {"Error", "FlagNotFound"}
      BY <2>3 DEF Given
    <3>2. recorded[r] # None => Recorded(r)
      BY <2>1, <2>3, RefusedType DEF Reporting
    <3>3. Told(r)
      BY <2>1, <2>3, RefusedType DEF Reporting, Told
    <3>4. answer[r].rule =>
            answer[r].reason = "RuleMatch" \/ (answer[r].reason = "Error" /\ answer[r].value = Default)
      BY <2>3 DEF Given
    <3>5. QED
      BY <3>1, <3>2, <3>3, <3>4 DEF Recorded, Told
  <2>4. QED
    BY <2>1, <2>2, <2>3 DEF Reporting
<1>2. QED
  BY <1>1, ProtocolHolds, PTL

-----------------------------------------------------------------------------
(* Freshness.                                                               *)

\* The flag at the head of a chain asks for the head of a chain that is shorter by one.
LEMMA HeadsAsk ==
    ASSUME NEW fs \in Configurations
    PROVE  /\ Heads(fs)[0] = HeldFlags(fs)
           /\ \A n \in Nat : n < MaxPrerequisiteDepth + 1 =>
                Heads(fs)[n + 1] =
                    {f \in HeldFlags(fs) :
                       \E i \in DOMAIN fs[f].prereqs : fs[f].prereqs[i].flag \in Heads(fs)[n]}
BY HeadsUnfold

\* The head of a long chain is the head of a shorter one.
LEMMA HeadsDecrease ==
    ASSUME NEW fs \in Configurations
    PROVE  \A n \in 0 .. MaxPrerequisiteDepth : Heads(fs)[n + 1] \subseteq Heads(fs)[n]
<1> DEFINE N == MaxPrerequisiteDepth
           head == Heads(fs)
           T == {n \in 0 .. N : head[n + 1] \subseteq head[n]}
<1>1. N \in Nat
  BY EvaluationAssumption
<1>2. head[0] = HeldFlags(fs)
      /\ \A n \in Nat : n < N + 1 =>
           head[n + 1] = {f \in HeldFlags(fs) :
                            \E i \in DOMAIN fs[f].prereqs : fs[f].prereqs[i].flag \in head[n]}
  BY HeadsAsk
<1> HIDE DEF head
<1>3. 0 \in T
  BY <1>1, <1>2
<1>4. ASSUME NEW n \in Nat, n < N, n \in T PROVE n + 1 \in T
  <2>1. n < N + 1 /\ n + 1 < N + 1 /\ n + 1 \in Nat /\ n + 1 \in 0 .. N
    BY <1>1, <1>4
  <2>2. head[n + 1] \subseteq head[n]
    BY <1>4
  <2>3. head[(n + 1) + 1] \subseteq head[n + 1]
    BY <1>2, <2>1, <2>2
  <2>4. QED
    BY <2>1, <2>3
<1>5. 0 .. N \subseteq T
  <2> HIDE DEF T, N
  <2>1. QED
    BY <1>1, <1>3, <1>4, Upwards
<1>6. QED
  BY <1>5 DEF head

\* In a configuration without long chains no flag depends on itself, so that it does
\* not matter what is held under a key while the flag read from it is evaluated.
LEMMA OwnKeyIsNotAsked ==
    ASSUME NEW fs \in Configurations, NEW k \in Flags, NEW d \in FlagType, NEW ss,
           NEW seen, seen = [fs EXCEPT ![k] = d], Shallow(seen)
    PROVE  EvaluateHeld(k, d, fs, ss) = EvaluateHeld(k, d, seen, ss)
<1> DEFINE N == MaxPrerequisiteDepth
           head == Heads(seen)
           T == {n \in 0 .. N + 1 : k \in head[n]}
<1>1. N \in Nat
  BY EvaluationAssumption
<1>2. seen \in Configurations /\ seen[k] = d /\ d # None
  BY NoneIsNoDetail DEF Configurations
<1>3. head[0] = HeldFlags(seen)
      /\ \A n \in Nat : n < N + 1 =>
           head[n + 1] = {f \in HeldFlags(seen) :
                            \E i \in DOMAIN seen[f].prereqs : seen[f].prereqs[i].flag \in head[n]}
  BY <1>2, HeadsAsk
<1>4. \A n \in 0 .. N : head[n + 1] \subseteq head[n]
  BY <1>2, HeadsDecrease
<1>5. head[N + 1] = {}
  BY DEF Shallow
<1> HIDE DEF head
<1>6. k \in HeldFlags(seen)
  BY <1>2 DEF HeldFlags
<1>7. PICK n \in Nat : n < N + 1 /\ k \in head[n] /\ k \notin head[n + 1]
  <2>1. SUFFICES ASSUME \A n \in Nat : n < N + 1 /\ k \in head[n] => k \in head[n + 1]
                 PROVE  FALSE
    OBVIOUS
  <2>2. 0 \in T /\ N + 1 \in Nat /\ N + 1 \in 0 .. N + 1
    BY <1>1, <1>3, <1>6
  <2>3. \A n \in Nat : n < N + 1 /\ n \in T => n + 1 \in T
    BY <1>1, <2>1
  <2>4. 0 .. N + 1 \subseteq T
    <3> HIDE DEF T, N
    <3>1. QED
      BY <2>2, <2>3, Upwards
  <2>5. QED
    BY <1>5, <2>2, <2>4
<1> DEFINE C == Flags \ head[n]
<1>8. head[n + 1] \subseteq head[n]
  BY <1>1, <1>4, <1>7
<1>9. ASSUME NEW f \in Flags, seen[f] # None, f \notin head[n + 1]
      PROVE  RestsOn(seen[f], C, ss, ss)
  <2>1. f \in HeldFlags(seen) /\ seen[f] \in FlagType
    BY <1>2, <1>9 DEF HeldFlags, Configurations
  <2>2. \A i \in DOMAIN seen[f].prereqs :
           seen[f].prereqs[i].flag \in Flags /\ seen[f].prereqs[i].flag \notin head[n]
    BY <1>3, <1>7, <1>9, <2>1, PrereqsAre
  <2>3. QED
    BY <2>2 DEF RestsOn
<1>10. Undisturbed(C, seen, fs, ss, ss)
  <2>1. ASSUME NEW f \in C
        PROVE  seen[f] = fs[f] /\ (seen[f] # None => RestsOn(seen[f], C, ss, ss))
    BY <1>7, <1>8, <1>9 DEF Configurations
  <2>2. QED
    BY <2>1 DEF Undisturbed
<1>11. RestsOn(d, C, ss, ss)
  BY <1>2, <1>7, <1>9
<1> HIDE DEF C
<1>12. EvaluateHeld(k, d, seen, ss) = EvaluateHeld(k, d, fs, ss)
  BY <1>2, <1>10, <1>11, HeldAgrees
<1>13. QED
  BY <1>12

\* What depends on nothing comes to the same in every configuration.
LEMMA SelfContainedAgrees ==
    ASSUME NEW fs \in Configurations, NEW gs \in Configurations, NEW ss, NEW ts,
           NEW k \in Flags, NEW d \in FlagType \union {None}, SelfContained(d)
    PROVE  EvaluateHeld(k, d, fs, ss) = EvaluateHeld(k, d, gs, ts)
<1>1. Undisturbed({}, fs, gs, ss, ts)
  BY DEF Undisturbed
<1>2. d # None => RestsOn(d, {}, ss, ts)
  BY DEF SelfContained, RestsOn
<1>3. QED
  BY <1>1, <1>2, HeldAgrees

\* At most one delta has landed.
OneDelta(r) == landed[r] \in {<<>>, <<"delta">>}

\* While a flag is read: what is held now is a result it may give, and so is what it
\* was read from, as far as the read may depend on it.
Fresh(r) ==
    Reading(r) =>
        /\ Evaluate(key[r], flags, segments) \in possible[r]
        /\ pc[r] # "flag" =>
             /\ landed[r] = <<>> => def[r] = flags[key[r]]
             /\ OneDelta(r) => Evaluate(key[r], Seen(r), segments) \in possible[r]
             /\ SelfContained(def[r]) =>
                  EvaluateHeld(key[r], def[r], flags, segments) \in possible[r]
        /\ pc[r] = "flags" /\ def[r] # None /\ OneDelta(r) => segs[r] = segments

ReadsFresh == \A r \in Readers : Fresh(r)

LEMMA FreshStays ==
    ASSUME NEW r, Fresh(r), UNCHANGED <<flags, segments>>, pc'[r] = pc[r], key'[r] = key[r],
           def'[r] = def[r], segs'[r] = segs[r], possible'[r] = possible[r], landed'[r] = landed[r]
    PROVE  Fresh(r)'
BY DEF Fresh, Reading, OneDelta, Seen

\* A reader's own steps.
LEMMA ReaderStaysFresh ==
    ASSUME CallTyped, ReadsFresh, NEW r \in Readers, ReaderStep(r)
    PROVE  ReadsFresh'
<1>1. UNCHANGED <<flags, segments>>
  BY DEF ReaderStep, Read, GetFlag, AllSegments, EvaluateFlag, RecordEvaluation,
         NotifyInspectors, InvokeInspector
<1>2. ASSUME NEW q \in Readers, q # r PROVE Fresh(q)'
  <2>1. pc'[q] = pc[q] /\ key'[q] = key[q] /\ def'[q] = def[q] /\ segs'[q] = segs[q]
        /\ possible'[q] = possible[q] /\ landed'[q] = landed[q]
    BY <1>2 DEF ReaderStep, Read, GetFlag, AllSegments, EvaluateFlag, RecordEvaluation,
                NotifyInspectors, InvokeInspector, CallTyped, ReadersTyped
  <2>2. QED
    BY <1>1, <2>1, FreshStays DEF ReadsFresh
<1>3. Fresh(r)
  BY DEF ReadsFresh
<1>4. ASSUME NEW c \in Clients, NEW f \in Flags, Read(r, c, f) PROVE Fresh(r)'
  <2>1. key'[r] = f /\ (pc'[r] # "done" => pc'[r] = "flag" /\ possible'[r] = {Outcome(f)})
    BY <1>4 DEF Read, CallTyped, ReadersTyped
  <2>2. QED
    BY <1>1, <2>1 DEF Fresh, Reading, Outcome
<1>5. ASSUME GetFlag(r) PROVE Fresh(r)'
  <2>1. def'[r] = flags[key[r]] /\ (pc'[r] = "flags" => flags[key[r]] = None)
        /\ pc'[r] # "flag" /\ Reading(r)
    BY <1>5 DEF GetFlag, Reading, CallTyped, ReadersTyped
  <2>2. UNCHANGED <<key, possible, landed>>
    BY <1>5 DEF GetFlag
  <2>3. Evaluate(key[r], flags, segments) \in possible[r]
    BY <1>3, <2>1 DEF Fresh
  <2>4. Seen(r)' = flags
    BY <1>1, <2>1, <2>2 DEF Seen, CallTyped, Stored
  <2>5. EvaluateHeld(key[r], flags[key[r]], flags, segments) \in possible[r]
    BY <2>3 DEF Evaluate
  <2>6. QED
    BY <1>1, <2>1, <2>2, <2>3, <2>4, <2>5 DEF Fresh
<1>6. ASSUME AllSegments(r) PROVE Fresh(r)'
  <2>1. segs'[r] = segments /\ pc'[r] = "flags" /\ pc[r] = "segments"
    BY <1>6 DEF AllSegments, CallTyped, ReadersTyped
  <2>2. UNCHANGED <<key, def, possible, landed>>
    BY <1>6 DEF AllSegments
  <2>3. QED
    BY <1>1, <1>3, <2>1, <2>2 DEF Fresh, Reading, OneDelta, Seen
<1>7. ASSUME \/ \E accessor \in Accessors : EvaluateFlag(r, accessor)
             \/ RecordEvaluation(r) \/ NotifyInspectors(r)
             \/ \E panics \in BOOLEAN : InvokeInspector(r, panics)
      PROVE  Fresh(r)'
  <2>1. pc'[r] \in {"record", "notify", "inspect", "done"}
    BY <1>7 DEF EvaluateFlag, RecordEvaluation, NotifyInspectors, InvokeInspector, CallTyped,
                ReadersTyped
  <2>2. QED
    BY <2>1 DEF Fresh, Reading
<1>8. Fresh(r)'
  BY <1>4, <1>5, <1>6, <1>7 DEF ReaderStep
<1>9. QED
  BY <1>2, <1>8 DEF ReadsFresh

\* A write lands beside the reads that are under way.
LEMMA WritesStayFresh ==
    ASSUME CallTyped, CallTyped', ReadsFresh, WriteSnapshot \/ WriteDelta
    PROVE  ReadsFresh'
<1> SUFFICES ASSUME NEW r \in Readers, Reading(r)' PROVE Fresh(r)'
  BY DEF ReadsFresh, Fresh
<1>1. PICK kind \in {"snapshot", "delta"} :
        /\ Lands(kind)
        /\ kind = "delta" => WriteDelta
  BY DEF WriteSnapshot, WriteDelta
<1>2. UNCHANGED <<pc, key, def, segs>>
  BY <1>1 DEF Lands
<1>3. Reading(r) /\ Fresh(r) /\ key[r] \in Flags
  BY <1>2 DEF Reading, ReadsFresh, CallTyped, Keyed
<1>4. possible'[r] = possible[r] \union {Evaluate(key[r], flags', segments')}
      /\ landed'[r] = Append(landed[r], kind)
  BY <1>1, <1>3 DEF Lands
<1>5. flags \in Configurations /\ flags' \in Configurations /\ def[r] \in FlagType \union {None}
  BY StoredIsConfiguration, FlagUpdatesAssumption
     DEF CallTyped, ReadersTyped, Stored, FlagStates, Configurations
<1>6. Evaluate(key[r], flags', segments') \in possible'[r]
  BY <1>4
<1>7. landed'[r] # <<>> /\ (OneDelta(r)' => landed[r] = <<>> /\ kind = "delta")
  <2>1. landed[r] \in Seq({"snapshot", "delta"})
    BY DEF CallTyped, ReadersTyped
  <2>2. Len(landed'[r]) = Len(landed[r]) + 1 /\ landed'[r][Len(landed[r]) + 1] = kind
    BY <1>4, <2>1
  <2>3. landed'[r] = <<"delta">> => Len(landed[r]) = 0 /\ kind = "delta"
    BY <2>1, <2>2
  <2>4. Len(landed[r]) = 0 => landed[r] = <<>>
    BY <2>1
  <2>5. landed'[r] # <<>>
    BY <2>1, <2>2
  <2>6. QED
    BY <2>3, <2>4, <2>5 DEF OneDelta
<1>8. ASSUME pc[r] # "flag", SelfContained(def[r])
      PROVE  EvaluateHeld(key[r], def[r], flags', segments') \in possible'[r]
  <2>1. EvaluateHeld(key[r], def[r], flags', segments') =
          EvaluateHeld(key[r], def[r], flags, segments)
    BY <1>3, <1>5, <1>8, SelfContainedAgrees
  <2>2. EvaluateHeld(key[r], def[r], flags, segments) \in possible[r]
    BY <1>3, <1>8 DEF Fresh
  <2>3. QED
    BY <1>4, <2>1, <2>2
<1>9. ASSUME pc[r] # "flag", OneDelta(r)'
      PROVE  Evaluate(key[r], [flags' EXCEPT ![key[r]] = def[r]], segments') \in possible'[r]
  <2>1. landed[r] = <<>> /\ WriteDelta
    BY <1>1, <1>7, <1>9
  <2>2. def[r] = flags[key[r]] /\ Evaluate(key[r], flags, segments) \in possible[r]
    BY <1>3, <1>9, <2>1 DEF Fresh
  <2>3. segments' = segments
    BY <2>1 DEF WriteDelta, SetFlag, RemoveFlag
  <2>4. PICK f \in Flags, new \in FlagStates : flags' = [flags EXCEPT ![f] = new]
    BY <2>1 DEF WriteDelta, SetFlag, RemoveFlag, FlagStates
  <2>5. CASE f = key[r]
    <3>1. [flags' EXCEPT ![key[r]] = def[r]] = flags
      BY <1>3, <2>2, <2>4, <2>5 DEF CallTyped, Stored
    <3>2. QED
      BY <1>4, <2>2, <2>3, <3>1
  <2>6. CASE f # key[r]
    <3>1. [flags' EXCEPT ![key[r]] = def[r]] = flags'
      BY <1>3, <2>2, <2>4, <2>6 DEF CallTyped, Stored
    <3>2. QED
      BY <1>6, <3>1
  <2>7. QED
    BY <2>5, <2>6
<1>10. ASSUME pc[r] = "flags", def[r] # None, OneDelta(r)'
       PROVE  segs[r] = segments'
  <2>1. landed[r] = <<>> /\ WriteDelta
    BY <1>1, <1>7, <1>10
  <2>2. segments' = segments
    BY <2>1 DEF WriteDelta, SetFlag, RemoveFlag
  <2>3. QED
    BY <1>3, <1>10, <2>1, <2>2 DEF Fresh, OneDelta
<1>11. QED
  BY <1>2, <1>6, <1>7, <1>8, <1>9, <1>10 DEF Fresh, Seen

\* What an evaluation comes to is a result of a configuration held since the read.
LEMMA EvaluationIsFresh ==
    ASSUME CallTyped, NEW r \in Readers, Fresh(r), pc[r] = "flags",
           (OneDelta(r) /\ Shallow(Seen(r))) \/ SelfContained(def[r])
    PROVE  EvaluateHeld(key[r], def[r], flags, segs[r]) \in possible[r]
<1>1. key[r] \in Flags /\ Reading(r)
  BY DEF Reading, CallTyped, Keyed
<1>2. flags \in Configurations /\ def[r] \in FlagType \union {None}
  BY StoredIsConfiguration, FlagUpdatesAssumption DEF CallTyped, ReadersTyped, FlagStates
<1>3. CASE SelfContained(def[r])
  <2>1. EvaluateHeld(key[r], def[r], flags, segs[r]) =
          EvaluateHeld(key[r], def[r], flags, segments)
    BY <1>1, <1>2, <1>3, SelfContainedAgrees
  <2>2. QED
    BY <1>1, <1>3, <2>1 DEF Fresh
<1>4. CASE OneDelta(r) /\ Shallow(Seen(r))
  <2>1. Evaluate(key[r], Seen(r), segments) \in possible[r]
    BY <1>1, <1>4 DEF Fresh
  <2>2. Seen(r)[key[r]] = def[r]
    BY <1>1, <1>2 DEF Seen, Configurations
  <2>3. EvaluateHeld(key[r], def[r], Seen(r), segments) \in possible[r]
    BY <2>1, <2>2 DEF Evaluate
  <2>4. CASE def[r] = None
    BY <1>3, <2>4 DEF SelfContained
  <2>5. CASE def[r] # None
    <3>1. segs[r] = segments
      BY <1>1, <1>4, <2>5 DEF Fresh
    <3>2. EvaluateHeld(key[r], def[r], flags, segments) =
            EvaluateHeld(key[r], def[r], Seen(r), segments)
      BY <1>1, <1>2, <1>4, <2>5, OwnKeyIsNotAsked DEF Seen
    <3>3. QED
      BY <2>3, <3>1, <3>2
  <2>6. QED
    BY <2>4, <2>5
<1>5. QED
  BY <1>3, <1>4

LEMMA FreshHolds == VariationSpec => [](Protocol /\ ReadsFresh)
<1>1. InitVariation => ReadsFresh
  BY DEF InitVariation, ReadsFresh, Fresh, Reading
<1>2. Protocol /\ Protocol' /\ ReadsFresh /\ [NextVariation]_varVars => ReadsFresh'
  <2> SUFFICES ASSUME Protocol, Protocol', ReadsFresh, [NextVariation]_varVars
               PROVE  ReadsFresh'
    OBVIOUS
  <2>1. CASE UNCHANGED varVars
    BY <2>1, FreshStays DEF varVars, vars, locals, ReadsFresh
  <2>2. ASSUME NEW r \in Readers, ReaderStep(r) PROVE ReadsFresh'
    BY <2>2, ReaderStaysFresh DEF Protocol
  <2>3. CASE WriteSnapshot \/ WriteDelta
    BY <2>3, WritesStayFresh DEF Protocol
  <2>4. CASE (\E c \in Clients : Close(c) \/ Release(c)) \/ StopEvents
    BY <2>4, FreshStays DEF Close, Release, StopEvents, vars, locals, ReadsFresh
  <2>5. QED
    BY <2>1, <2>2, <2>3, <2>4 DEF NextVariation, ReaderStep
<1>3. QED
  BY <1>1, <1>2, ProtocolHolds, PTL DEF VariationSpec

\* evaluateFlag takes the store's lock three times; yet what it comes to is what a
\* configuration held since the call began gives, if at most one delta landed beside
\* it and no chain of prerequisites is too long, or if the flag depends on nothing.
THEOREM ReadsAreNeverStale == VariationSpec => ReadsAreFresh
<1> DEFINE Step(r) ==
             /\ pc[r] = "flags" /\ pc'[r] = "record"
             /\ \/ landed[r] \in {<<>>, <<"delta">>} /\ Shallow(Seen(r))
                \/ SelfContained(def[r])
             => \E result \in possible[r], accessor \in Accessors :
                   answer'[r] = Narrow(accessor, Served(result))
<1>1. ASSUME Protocol, ReadsFresh, [NextVariation]_varVars
      PROVE  [\A r \in Readers : Step(r)]_varVars
  <2> SUFFICES ASSUME NextVariation, NEW r \in Readers, pc[r] = "flags", pc'[r] = "record",
                      (OneDelta(r) /\ Shallow(Seen(r))) \/ SelfContained(def[r])
               PROVE  \E result \in possible[r], accessor \in Accessors :
                         answer'[r] = Narrow(accessor, Served(result))
    BY <1>1 DEF OneDelta
  <2>1. PICK accessor \in Accessors : EvaluateFlag(r, accessor)
    <3>1. pc \in [Readers -> Places]
      BY <1>1 DEF Protocol, CallTyped, ReadersTyped
    <3>2. PICK q \in Readers : ReaderStep(q)
      <4>1. ~ UNCHANGED pc
        OBVIOUS
      <4>2. ~((\E c \in Clients : Close(c) \/ Release(c)) \/ StopEvents)
        BY <4>1 DEF Close, Release, StopEvents, locals
      <4>3. ~(WriteSnapshot \/ WriteDelta)
        BY <4>1 DEF WriteSnapshot, WriteDelta, Lands
      <4>4. QED
        BY <4>2, <4>3 DEF NextVariation, ReaderStep
    <3>3. q = r
      BY <3>1, <3>2 DEF ReaderStep, Read, GetFlag, AllSegments, EvaluateFlag, RecordEvaluation,
                        NotifyInspectors, InvokeInspector
    <3>4. QED
      BY <3>1, <3>2, <3>3 DEF ReaderStep, Read, GetFlag, AllSegments, EvaluateFlag,
                              RecordEvaluation, NotifyInspectors, InvokeInspector
  <2> DEFINE result == EvaluateHeld(key[r], def[r], flags, segs[r])
  <2>2. result \in possible[r]
    BY <1>1, EvaluationIsFresh DEF Protocol, ReadsFresh
  <2>3. answer'[r] = Narrow(accessor, Served(result))
    BY <1>1, <2>1 DEF EvaluateFlag, Protocol, CallTyped, ReadersTyped
  <2>4. QED
    BY <2>2, <2>3
<1>2. QED
  BY <1>1, FreshHolds, PTL DEF VariationSpec, ReadsAreFresh

=============================================================================
