# A TLA+ model of featureflip-go

This directory holds a verification development of the featureflip Go SDK: TLA+
modules translated from the Go source, TLC configurations that model-check them
on small instances, and proofs that TLAPS checks for every instance.
`PROJECT.json` lists the components, runs, mutants, the lines each definition
models, findings, hazards and theorems.

## 1. The system

A Go process asks for clients by SDK key. Clients of one key share a *core*,
which keeps a local copy of the flag configuration, evaluates flags on it and
reports what was evaluated.

| component | state | operations | hard behaviour |
|---|---|---|---|
| Client factory, shared core (`featureflip.go`, `shared_core.go`) | map key to core, refcount, `shutDown` | `Get`, `Close`, `ResetForTesting`, `initializeOnce`, `shutdown` | the map has a lock, the refcount is an atomic: everything may happen between a lookup and an acquire |
| Event processor (`events.go`) | buffer, latch of the size trigger, channel of the running drain, backoff gate, `stopped` | `enqueue`, `flush`, `autoFlush`, the interval ticker, `stop` | many callers, one coalesced drain, posts that fail for now or for good, a bound, shutdown in the middle |
| Stream source (`streaming.go`) | connection, failures in a row, fallback poller | `run`, `connect`, `handleEvent`, `stop` | lost events, failed fetches, reconnects, a second writer beside it |
| Poll source (`polling.go`) | its context | `run`, `poll`, `stop` | an answer that is old when it is applied |
| Store (`store.go`) | flags, segments | `setAll`, `setFlag`, `removeFlag`, reads | two writers; the diff must see what the write replaces |
| Flag-change diff (`updates.go`) | none | `diffSnapshot`, `addPrerequisiteDependents` | a flag moves without being edited |
| Subscriptions (`featureflip.go`, `shared_core.go`) | listeners by id, per-client list of unsubscribes | `OnUpdate`, unsubscribe, the fan-out, `Close` | listeners that call the SDK, panic, come and go during a fan-out |
| Variation methods, inspectors (`featureflip.go`, `inspector.go`) | what one call has read so far | `BoolVariation` ... `VariationDetail`, `evaluateFlag`, `recordEvaluation`, `notifyInspectors` | three reads of a store that is written meanwhile, a panic in the loop, a `Close` in the middle |
| Evaluator (`evaluation.go`) | a memo per evaluation | `evaluate`, `evaluateWithSharedMemo`, `resolveServe` | recursion over prerequisites, cycles, the depth limit, weights that do not add up |
| Conditions and versions (`conditions.go`) | none | `evaluateCondition` and the operators, `parseSemver`, `compareSemverParts`, `parseDateTime` | numbers of any length, two paths for one relation, dates at the edge of their range |
| Bucketing, canonical numbers (`bucketing.go`, `canonical_number.go`) | none | `bucketValue`, `canonicalNumber` | one number held in several types |
| Unknown-enum filter (`unevaluable.go`) | none | `dropUnevaluable` | configurations newer than the build |
| Unbucketable warnings (`unbucketable.go`) | a bounded set under a lock | `warnUnbucketable` | many goroutines, a full set |
| Reconnect backoff (`streaming.go`) | none | `backoffDelay`, `withJitter` | overflow |
| Options, HTTP, wire types, `ForTesting` (`config.go`, `httpclient.go`, `models.go`, `testing.go`) | none | I/O and data | |

How they interact: `Get` publishes a core and runs its `doInit`, which loads a
snapshot into the store and starts the event processor and one source. A source
writes the store and, with the keys the write reports, calls the fan-out on its
own goroutine. The last `Close` (or `ResetForTesting`) runs `shutdown`: it takes
the core out of the map, cancels the source without waiting for it, stops the
event processor, which sends what is left, and drops the listeners. A variation
call reads the store in three critical sections, evaluates, enqueues an event and
calls the inspectors.

What makes each part correct: no client of a dead core, one live core per key,
no leak; every accepted event is sent, shed for room, or discarded with the stop,
each once and in order, with one request at a time; one poller at most, none
beside a live stream, none after stop, and a store that catches up; listeners
told of everything that moved; results that do not depend on the memo and are
not older than the call; no report that looks healthier than the read; each
call reported once to the endpoint and to every inspector; versions, numbers and
dates that leave neither gap nor overlap between adjacent rules; rollouts that
serve what their weights say and, once widened, take nothing back; names this
build does not know that open no rule.

## 2. Modules

| module | models | state and actions |
|---|---|---|
| `EventPipeline` | what the event processor promises | which events are accepted, settled, shed, discarded |
| `EventProcessor` | `events.go` | one variable per field; `pc` per goroutine; an action per critical section, the post being the step in between; the endpoint's answer is an input from `Answers` |
| `EventPromises` | `flush()` and `stop()` as their callers see them | `EventProcessor` with history variables: what was asked, what failed meanwhile |
| `CoreRegistry` | what the factory promises | an atomic map from keys to shared cores |
| `ClientFactory` | `Get` ... `ResetForTesting` | a successful CAS and a locked section is an action each; `loaded` and `running` stand for the two halves of `doInit` |
| `Subscriptions` | `OnUpdate` to the end of `shutdown` | callers and sources; a source inside a listener makes calls like any caller |
| `DataSource` | `doInit`, `streaming.go`, `polling.go`, the store's writes | writers (the stream, the pollers) ask, apply and notify; the server, the connection and the wire are external |
| `Evaluation` | `evaluation.go` | operators; the recursion over prerequisites is a function of the depth that is left; a reference without memo |
| `FlagDiff` | `updates.go` | operators |
| `FlagUpdates` | `store.go` with the keys it reports | `SetAll`, `SetFlag`, `RemoveFlag`, against `Evaluation`; each state is also swept with one memo in every order |
| `Variation` | a variation call, `inspector.go` | `FlagUpdates` with readers: the three reads, the event, the inspectors one by one; beside them the writes, and `Close`, `Release` and `StopEvents` of the handles |
| `Versions` | `parseSemver`, `compareSemverParts` | operators over characters and numerals of any length |
| `Conditions` | `conditions.go`, `unevaluable.go` | operators; a text is a record of what each parser makes of it |
| `Rollout` | `resolveServe`, `bucketing.go`, `canonical_number.go`, `unbucketable.go` | operators, and the set of warnings, written by one locked step |
| `Backoff` | `backoffDelay` | all durations of a small integer type |
| `Algorithms` | the last four side by side | a behaviour is a run of the backoff, a run of the warnings, or one set of operands |
| `MC*` | | symmetry and the sets the `.cfg` files give to constants |
| `EventProcessorProofs`, `EventOrderProofs`, `ClientFactoryProofs`, `SubscriptionsProofs`, `DataSourceProofs`, `FlagUpdatesProofs`, `VariationProofs`, `AlgorithmProofs` | theorems | section 5 |

`EventProcessor` implements `EventPipeline` and `ClientFactory` implements
`CoreRegistry`: in both, the refinement mapping is an `INSTANCE ... WITH` and the
abstract specification is a property of the safety run.

Abstractions. Events, cores, subscriptions and edits are numbers, in the order
they were made, which is how order and age can be told. A configuration in
`DataSource` is the number of the last edit of each key; in `FlagUpdates` it is
the flags themselves. What is put into `Evaluation` as the truth of a condition and
the key a serve comes to is what `Conditions` and `Rollout` calculate. In
`Variation` a value is its type and whether it is the default. Time is not
modelled: a timer may fire whenever its goroutine waits for it, the backoff gate
may elapse at any time. A request ends with an answer or a failure; a lost reply is
a failure. A goroutine's locals are reset when the call they belong to ends.

Points where the model follows the code closely, because a property depends on
it: the drain clears `drainDone` in a critical section after the one in which it
saw the buffer empty; `enqueue` sees its threshold and takes the latch in two
steps; `run()` looks at its context before it counts and `startFallbackPolling`
looks again under its lock; a select with two ready cases takes either; the
listeners are copied under the lock and called without it; the diff is computed
in the critical section of the write; `evaluateFlag` copies the segments after it
has the flag and reads other flags after that; `notifyInspectors` looks once
whether the core has shut down; equality of a numeric attribute is decided on the
number, everything else on its text. `Variation` begins on any configuration a snapshot
can bring, because what a read finds does not depend on how it got there.

## 3. Runs

| run | asks |
|---|---|
| `events_safety` | Two callers, the ticker and `stop()`, batch size 2, bound 3, five events, every answer. One drain and an exact latch; the buffer in order, within its bound, empty when stopped; each event in one place; `EventPipeline` implemented. |
| `events_promises` | What callers may count on: a `flush()` that runs the drain settles what it was asked for; the last drain fails once at most; `stop()` and joined flushes return; everything is settled after `stop()`, and without it once the endpoint recovers. |
| `factory_safety` | Three goroutines, one key, three `Get`s, one reset: exact refcounts, no client of a dead core, one published core, nothing leaks, `CoreRegistry` implemented, and every call ends, `Get`'s retry loop included. |
| `subscriptions_safety` | Two clients, one caller and one source whose listeners call the SDK: an unsubscribe removes its own entry only, `Close` its own client's; every change reaches every listener, panics or not; sources end. |
| `data_safety` | A flag and a segment, two pollers, three edits of which one is not evaluable: one poller, none beside a live stream, none after stop, no stale listener. |
| `data_progress` | The stream's goroutine and the pollers end after `stop()`; the store ends up current if snapshots keep coming, whatever else fails; a stream that only fails is made up for by the poller. One poller, four edits: a flag is deleted and created again while a fetch runs ahead of the deletion. |
| `updates_chains` | Three flags that ask for each other in every way, and their segment: each flag whose result moves is reported, and nothing that could not have moved; in every state the memo changes no result, alone or shared over all flags in any order. |
| `variation_reads` | One call of any variation method, any write of the store beside it, two handles that close, two inspectors of which any may panic: a result of a configuration held since the call began, one report of each kind with what the caller got, no default with a healthy reason for the caller, the endpoint or an inspector, no rule in the event without a match. |
| `algorithms` | Backoff, versions, conditions, rollouts, number spelling and warnings over all operands of small sets. |
| `events_lost_wakeup`, `subscriptions_close_race`, `data_initial_load` | What a comment or a test says and the code does not do; section 6. |

A few `.cfg` files belong to none of these runs; section 6 names them.

Properties that are conjunctions of named parts (`DrainsCoalesce`, `BoundsHold`,
`CallsReturn` of the event processor, `OneLiveCore`, `SubscriptionsFollowOwners`,
`PollerFollowsStream`, `MemoChangesNothing`, `ReportsWhatMoves`, `VersionsFit`,
`OperatorsFit`, `RolloutsAreFair`, `WaitsGrowWithinBounds`) state one idea whose
parts fail in different ways.

Bounds. Every bound is a constant called `Max...` (events, cores, gets, resets,
subscriptions, updates, edits, moves, failures, landed writes, keys). They are chosen
so that the events they limit can overtake each other: five events overflow a buffer
of three with a batch of two in flight; three goroutines and six cores let a core die
between another goroutine's lookup, its acquire and its insertion (keys share nothing
but the lock of the map); three subscriptions of two clients let an id be reused if
ids could be; two pollers let an old answer be applied after a newer one, and a
retired poller live beside its successor (a third poller waits for an identity to be
free); in `data_progress` there is one poller identity, so that four edits fit, and a
fallback that starts again waits for the retired poller's end; three flags and a depth
limit of two hold chains that reach the limit, chains past it and cycles. Refinement
and ordering properties compare pairs of such numbers, so a third of a kind adds no
new case that we know of; this is a judgement and not a theorem.

In `variation_reads` one write lands during a call (`MaxLanded`), which is enough
to come between any two of its three reads. More of them, or a snapshot on a flag
with dependencies, may give a result no configuration had, which section 6 lists;
one delta on a flag that depends on itself may do so too, and is excluded.
In `algorithms` integers have six bits, buckets are six instead of 100, and the set
of warnings holds two of three keys; dates range over four seconds, written with
offsets of one to either side; weights go from 0 to 4, so that they fall short
of the buckets, meet them and exceed them; numbers straddle both thresholds at
which a float's spelling changes (six leading zeros, 21 digits).

`CHECK_DEADLOCK FALSE` is set in every run but `updates_chains`: with the bounds
used up, or with everything stopped, the programs have nothing left to do.

Each property of a passing run has a *mutant*: a definition changed as a
plausible bug would change it (a guard dropped, a merge for a replace, a reset
forgotten), with which TLC finds the property violated; a conjunction has one for
each part that has a mutant of its own. The mutant operators stand just before the
definitions they replace.

## 4. Fairness

Weak fairness of a goroutine's steps inside the SDK: Go schedules every runnable
goroutine, and HTTP requests other than the stream end by their timeout, so a
request is answered or fails. Time passes (`GateElapses`). No call, edit, drop or
ping is fair: nobody has to do anything. Listeners return, as the contract of
`FlagUpdateListener` asks. Strong fairness is assumed of one thing only: a select
that finds the context done and a tick ready chooses at random, so it takes the
context at some time (`PollerExits`, `TickerExit`; `SourceExits` in `Subscriptions`,
where a source may still receive changes after it was cancelled). `EndpointRecovers` and
`Reachable`, that the server answers again and again, are hypotheses of
`EveryEventSettles` and `LostStreamIsRepaired` and of nothing else that a run of
section 3 checks. `SnapshotsRepair` has its own hypothesis: snapshots are applied
infinitely often.

## 5. Proofs

Safety is proved for every value of the constants, under the modules' `ASSUME`s. The
argument is always the same: an invariant that is inductive, made of the type
invariant and of facts about who is where, and one case per action, which first
establishes what the action does to the variables the invariant reads.

**`EventProcessorProofs`** (the kinds of goroutine are disjoint, sizes are natural
numbers, a batch holds at least one event). `TypeCorrect`, with every batch in flight
no longer than a batch; `DrainsAreCoalesced`; `BoundsAreKept`. `OneDrainUntilClosed`
alone is not inductive: a goroutine could be in the loop with no channel set. The
strengthening says that, while the processor is open, the goroutine in the loop is
exactly the owner of the channel, so a second caller finds the channel and waits.
`BufferBounded` rests on `TrimOldest` cutting to the bound whatever it is given.
`StoppedHoldsNothing` needs that only the goroutine in `stop()` is past the point
where the flag is set.

**`EventOrderProofs`**. `EventsInOrder` (`BufferOrdered`), `NothingIsLost`
(`NothingVanishes`) and `ProcessorIsAPipeline`: the processor implements
`EventPipeline`. `OrderInv` is made of `Settled` (only a goroutine that posts holds
a batch), `InOrder`, `OlderFirst` (what is in flight is older than what waits),
`Numbered`, `Accounted` (pending events are the buffer and the batches) and `Apart`
(no event in two places). `DrainOwner` of the first module is what makes a requeue at
the front keep the order: there is one batch in flight. The refinement maps
`Enqueue` to `Accept`, replies to `Settle`, `Shed` or `Discard`, everything else to
stutters; the counts that `MayShed` asks for come from the order of the buffer.
`StopAttemptsOnce` and `OwnFlushSettles` are about the history variables of
`EventPromises`: what a flush was asked for is settled, still in the buffer, or in
the batch of the goroutine that drains for it, until something excuses it.

**`ClientFactoryProofs`** (finitely many goroutines). `FactoryTypeCorrect`,
`CountIsExact`, `CoresAreShared`, `NothingIsLeaked`, `DeadCoresNeverStart` (no run
checks that one separately: a dead core that was started would also leak) and
`FactoryIsARegistry`. The invariant: `ZeroIsDead` (a core is shut down exactly
if it has no references), `Keyed`, `DeadInHand` (only dead cores are being unmapped
or stopped), `RefCountExact`, `LiveCoreIsPublished`, `CleanUp` (a dead core that runs
or is mapped is in the hands of a goroutine that will see to it). The refinement maps
the map's entry to `None` once its core has died, which is why a stale entry is
invisible: `Share` is the successful CAS, `Create` the insertion.

**`SubscriptionsProofs`** (finitely many callers and sources).
`SubscriptionsTypeCorrect`, `SubscriptionsAreOwned`, `ChangesAreDelivered`. The
invariant: `Shape`, `RoomLeft`, `CountExact`, `KeptOrCut` (a subscription is in the
map until its own unsubscribe, which rests on ids being given out once),
`Remembered` (what is registered is on its client's list, or about to be, or its
client was closed beside it) and `OnItsWay` (a change is seen, or in the to-do of a
source that is between copy and call).

**`DataSourceProofs`** (flags and segments differ, the stream's goroutine is no
poller, the threshold is positive, edits are numbered from 1). `SourceTypeCorrect`,
which needs the types of what is on the wire; `ListenersNeverStale`, inductive with
the types, because the diff is taken in the critical section of the write and a
writer that applies owes nothing before; `SourcesFilter`: only the initial load
leaves something in the store that this build cannot evaluate;
`PollersFollowStreams`. The strengthening for the last (`PollersControlled`) adds
that retired pollers are running, so that a poller that is started is not a retired
one; that `stop()` cancels before it reaps, so that none is started afterwards; and
that a connection that has delivered has no poller wherever its goroutine is.

**`FlagUpdatesProofs`** (finitely many flags; flags, rules and prerequisites of the
types in `Evaluation`, over any variation keys; rules of different priorities; any depth
limit).
`MemoIsHarmless` and `WritesReportWhatMoves`, from `StoreTyped`.

* The prover cannot instantiate the library's induction theorems, so an induction over
  depths is one over sets: the numbers at which a claim fails, if there are any, have a
  least one (`LeastNumber`), and `Upwards` and `RecursionExists` say that recursive
  functions over an interval exist and follow their rule. The walk of `CheckPrerequisites`
  over a sequence is another such function.
* The memo. A flag is *sure* at a level if no chain as long as the level begins at it,
  or if its result there is no error: the limit has not decided about it, and allowing
  more levels does not change it (`SureAreSure`). At every level, evaluating a sure flag
  with a memo that holds results of the reference gives the reference's result and
  leaves such a memo behind (`EvaluationIsRight`, `LevelsAreRight`); that is what makes
  an entry made at one depth good at another. The sweep over all flags follows
  (`SweepIsRight`), because each evaluation hands on a memo that is right.
* The diff. What the walk over dependents returns contains everything edited, and every
  flag that asks for a flag in it: it is closed, because a walk that has not ended has
  grown, and it cannot grow past the number of flags. Evaluation of a flag outside a
  closed set reads nothing that the write touched (`LevelsAgree`), so its result stays.
  The other half, that nothing unreachable is reported, holds of every round of the walk.

**`VariationProofs`** (any readers, handles and inspectors). `ReadsAreReportedOnce` and
`DefaultsAreTold` rest on `Protocol`: the types of what a call holds (`CallTyped`, with
the store's and the handles'), and for every place in the call what has been reported
so far (`ReportsKept`): the event before the inspectors, the inspectors in order, each
with the answer; reports are missing only once all handles are released. An answer
names a rule with a rule match only, or after `narrow` has put the default in the place
of its value (`Given`), which is as much as `DefaultIsNeverHealthy` can say of
inspectors. The
invariant of `ReadsAreNeverStale` (`Fresh`) is that, wherever the call is, the result it
would give if it went on from the store as it is now is a result it may give: with
the flag it has read put back into the store, as long as at most one delta has
landed, and with the flag alone if that depends on nothing. The second case needs that
such a flag is evaluated the same beside any flags and segments
(`SelfContainedAgrees`); the first, that a flag whose chains end does not ask for its
own key (`OwnKeyIsNotAsked`), so that a copy that was overwritten is not read again
from the store. `ReadsAreFresh` therefore asks, for one delta, that no chain of
prerequisites reaches past the limit: in a cycle the flag's new form would be read
below its old one.

**`AlgorithmProofs`** (operands have the types of `AlgorithmsAssumption`: versions
and numerals of any length, identifiers that hold no dot and no plus, because
`parseSemver` cuts at both; numbers of any digits, of which an integer has its point
behind them; one share for each variation of a rollout).

* `VersionsStayFit`, of which `VersionsAreTotallyOrdered` is one half. The comparison
  at every level is one at the first difference; a first difference with a total order
  on the parts gives a total order, the end of a prerelease is less than any
  identifier, and comparing padded with zeros is comparing with trailing zeros cut. That
  `compareNumericString` is the order of the numbers is an induction over prefixes: a
  numeral that is ahead stays ahead, whatever digits follow on both sides. Splitting
  undoes joining, because a part without a dot is collected whole.
* `OperatorsAlwaysFit`, from the order of versions and a case split over the numeric
  and the text path. `NewNamesStayClosed`: whatever meaning a later build gives to an
  unknown operator or logic, a rule that survives the filter matches only where it
  would match under that meaning.
* `RolloutsStayFair`: the sums of the walk grow with the weights, so that the walk ends
  at exactly one weight for each bucket, and the buckets that end at it are an interval
  whose size is counted. A share that is widened moves no boundary before its own.
* `NumbersStayTold`: each of the four forms of a number has its own place for the
  point and the exponent, from which digits and point can be read back; the form of an
  integer of at most 21 digits is that of the float.
* `WaitsGrow`: doubling a duration once either fits or comes out negative, which the cap
  turns into the ceiling, so that no later doubling starts from a wrapped number.
* `SkipsAreLoggedOnce`, where the size of the set of warnings stands in the invariant
  for its bound.

Every invariant and every action property of a passing run is proved, and both
refinements. Only model-checked is liveness, which TLAPS does not prove here:
`CallsReturn`, `ShutdownSettlesAll`, `EveryEventSettles` and the other properties of
section 3 that say that something ends or is repaired. How a proof holds for data of
any size: functions defined by recursion over an interval, and the least number at
which a claim about them fails, take the place of the induction theorems; no module
declares a RECURSIVE operator.

## 6. Findings

Three places where a run shows the code doing other than a comment or a test says:

* an `enqueue` that completes a batch while the latch of a drain that is about to
  end is still set leaves the batch to the next tick (`events_lost_wakeup`);
* `OnUpdate` beside `Close` leaves a listener on the surviving core
  (`subscriptions_close_race`);
* the initial load keeps flags every other path drops (`data_initial_load`).

Ten more show in the same way, from a property that quotes the comment and a
`.cfg` that gives the counterexample (`tlc -config X.cfg M`):

| configuration, module | property | what happens |
|---|---|---|
| `EventPromises_joined.cfg`, `MCEventPromises` | `JoinedFlushKeepsPromise` | a `flush()` that joins a drain past its last look at the buffer returns with its event unsent |
| `ClientFactory_early.cfg`, `MCClientFactory` | `ClientAfterInitialLoad` | a second `Get` returns before the initial load |
| `Subscriptions_late.cfg`, `MCSubscriptions` | `NothingFiresAfterShutdown` | a fan-out under way calls listeners after the last `Close` has returned |
| `DataSource_missed.cfg`, `MCDataSource` | `MissedDeltaIsRetried` | a failed `getFlag` on a healthy stream is never retried; `SnapshotsRepair` shows that the next snapshot heals it |
| `DataSource_silent.cfg`, `MCDataSource` | `SilentStreamArmsFallback` | a connection that is open and silent never arms the fallback |
| `DataSource_revert.cfg`, `MCDataSource` | `DeltasAreNotReverted` | a retired poller's answer in flight reverts a delta, again until the next snapshot |
| `Variation_default.cfg`, `MCVariation` | `ErrorsServeDefault` | an evaluation that ends in reason Error still serves its value (the off value, or none), not the caller's default (comments of `featureflip.go`, 164-165 and 219-220) |
| `Variation_cause.cfg`, `MCVariation` | `ReportsNameTheirCause` | an inspector is given a rule or a prerequisite key with reason Error, after a value was substituted (`inspector.go`, 38 and 41); `DefaultIsNeverHealthy` shows that the reason is right there too, and that it is the only such case for a rule |
| `Variation_quiet.cfg`, `MCVariation` | `QuietAfterShutdown` | the core shuts down after the one look of `notifyInspectors`, and events still come (`inspector.go`, 106-108) |
| `Variation_torn.cfg`, `MCVariation` | `ReadsAreAtomic` | a snapshot that lands between two of the three reads gives a result of neither configuration (`store.go`, 24) |

Smaller divergences, seen while translating and excluded by a premise or shown by no
run. A `float32` attribute such as 0.1 is not equal to "0.1", because equality looks at
the number and the ordering operators at the text: `RelationsAgree` asks that both be
one number where it relates equality to order, and lets the order be consistent in
itself for every value. The comment at `unevaluable.go`, 14-18, says that an unknown logic is
evaluated as OR; this package evaluates it as AND, and `Conditions` does as the code
does. An integer of more than 21 digits is spelled differently from a float of its
value; `OneNumberOneText` asks for what a float can hold. A negated unknown operator
matches a context without the attribute, as `conditions_test.go`, 992-1010, wants it.

## 7. Not modelled

* How the standard library reads numbers, regular expressions and dates, and with it
  the grammar in front of it (`canonicalizeISO`, `TrimSpace`): a text is what they make
  of it. NaN and infinities do not occur among the numbers.
* MD5: properties hold for every bucket.
* JSON and SSE framing, the HTTP client beyond the outcomes of its calls (an answer, a
  failure, and whether a send is worth another try), logging, options and their
  defaults, wire types, `ForTesting`: I/O or data without decisions of their own.
* `store.getSegment`, which nothing calls.
* `initialized`, read without synchronisation; nothing but `Initialized()` depends on
  it.

Four hazards of `PROJECT.json` have no property, each with its reason: callers that
enqueue for ever (the number of events is bounded), options that are not validated,
a `Get` that returns before the initial load and a silent stream (the code does both;
section 6 has the counterexamples).

## 8. What is left

In the order in which each would add something:

1. A composition of the data source with the subscriptions' fan-out, so that the order
   in which one listener hears of two writers' changes can be stated. Each half is
   modelled: `DataSource` with one view of all listeners, `Subscriptions` with changes
   that are numbers.
2. Two readers and the shared core's life in one model: `Variation` has the handles
   that close, `ClientFactory` the `Get`s beside them.
3. Liveness of the drain under callers that never stop, which needs a model without a
   bound on events.
