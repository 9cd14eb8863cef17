# Formal models of the ETOS Go client (`src/cli-go`)

This directory holds TLA+ models of the Go command-line client of ETOS. They
are model-checked with TLC and proved with TLAPS. The models are translated
from the Go source. The only exception is the event repository, whose
implementation is not in this repository; it is modelled from the spec and
its entries in `PROJECT.json` are marked `spec_modelled`.

## 1. The system

### 1.1 Components

| Component | Source | State | Operations |
|---|---|---|---|
| Event Collector | `pkg/client/v0/events/collector.go` | `c.events` (TERCC, Activity{Triggered, Canceled, Finished}, MainSuites); Collect's locals: the `suites` map and the finished-event loop's position | `NewCollector`, `CollectActivity`, `Collect`; one repository query per step |
| Event repository | interface `EventRepository` (collector.go:30-38), implementation outside `src/` | the events published for a run: append-only and causally ordered | six queries; publishing is the environment |
| Events data model | `events/types.go` (`events/events.go` is an unused duplicate) | record types only | — |
| Result evaluator | `v0/test_results/test_results.go` | none: a pure function of an `Events` | `GetResults`, `hasFailed`, `failMessages` |
| Event validator | `events/validator.go` | none | `ValidateEvent`, `ValidateEvents` (short-circuit over TERCC, activity, suites) |
| Event signer | `events/signer.go` | key pair | `NewSigner`, `SignEvent`, `VerifyEvent` |
| v0 client | `pkg/client/v0/client.go` | HTTP client, base URL | `StartTestRun`, `StopTestRun`, `GetTestRun`, `ListTestRuns`, `GetTestResults` (a new Collector per call, one `Collect`, then `GetResults`) |
| Base REST client | `pkg/client/client.go`, `response.go`, `version.go` | none between calls | `DoRequest`, response parsing, status check |
| CLI | `cmd/*.go`, `main.go` | cobra command tree | `testrun list/get/start/stop/results` |
| Customization engine | `pkg/engine/engine.go`, `pkg/command`, `plugins/` | plugin registry, command map | plugin discovery (directory walk), command registration (first one wins) |
| Config, logging | `pkg/config`, `pkg/logging` | viper settings, log level | `Load`, level filtering |

### 1.2 How they interact

The `results` command first fetches the test run, then calls
`GetTestResults`. That call builds a Collector on the repository and runs one
`Collect`, and `GetResults` turns the aggregate into a verdict (success and
message) or an error.

A library user may instead keep one Collector and poll it. The Collector is
written for that: every query is skipped when its result is already known, and
new main suites are merged into the known ones. The repository keeps receiving
events from the running test while the Collector queries it. So between two
queries of one call the repository can gain a cancellation, a new suite or a
finished event.

### 1.3 What is hard in this code

These behaviours are listed in `PROJECT.json` under "hazards", each at the
line where it occurs:

- The repository publishes between the queries of one call (collector.go:73).
- A transport error midway through the finished-event loop (collector.go:130)
  returns early.
  - Finished is already set on the known suites, through the shared
    `*TestSuite` pointers.
  - The new suites are dropped and MainSuites is not rebuilt.
- `Collect` skips `CollectActivity` for good once Triggered is known
  (collector.go:94).
- MainSuites is rebuilt in Go map iteration order (collector.go:139), which is
  random.
  - The evaluator reports the message of the *last* failed suite
    (test_results.go:85), so the order decides what is reported.
- The precedence of the evaluator's early returns (test_results.go:55-71).
- The evaluator never reads Activity.Finished (test_results.go:75).
- No v0 client method checks the HTTP status (v0/client.go:117).
- Plugin commands are added to RootCmd beside the built-in ones with no check
  of their names against each other (main.go:43); between plugins the first
  walked wins (engine.go:88), and a walk error keeps what was registered
  (engine.go:99).
- `ValidateEvents` names an invalid suite by its index in MainSuites
  (validator.go:55), and that order is the map order of collector.go:139.
- The Activity is allocated only while it is nil (collector.go:56). A fresh
  allocation on any later call would silently drop events already seen.

## 2. Modules

| Module | Models | Notes |
|---|---|---|
| `TestResults` | types.go and test_results.go | the data model and the evaluator as operators |
| `Collector` | collector.go plus the repository | the Collector's state machine, composed with a repository that grows |
| `MC_Collector` | — | model values for two suites |
| `MC_TestResults` | — | every aggregate over two suites, and a reference evaluator written from the spec |
| `CollectorProofs` | — | TLAPS proofs about `Collector` |
| `Client` | cmd/testrun.go, v0/client.go, client.go's `DoRequest`, config.go's `Load` | the five `testrun v0` commands; `results` composes `Collector` (by `EXTENDS`) and `GetResults` |
| `MC_Client` | — | model values for two suites |
| `Engine` | main.go and pkg/engine/engine.go | start-up: plugin discovery, registration, root commands |
| `MC_Engine` | — | two command names, one of them built in |
| `EngineProofs` | — | TLAPS proofs about `Engine` |
| `Validation` | events/validator.go | `ValidateEvents` as an operator over an aggregate and the set of invalid events |
| `MC_Validation` | — | every causally consistent aggregate of two suites, with every set of invalid events |
| `EventAggregate` | spec sections 3, 4.1 and 8 | the abstract specification of the Collector: a growing store of events and a growing, causally closed known part of it |
| `CollectorRefinementProofs` | — | the TLAPS proof that `Collector` refines `EventAggregate`, and that `GraphGrows` holds |
| `ValidationProofs` | — | TLAPS proof of `ValidationLocalizes` for every aggregate |
| `ClientProofs` | — | TLAPS proofs of `Client`'s `ResultsFresh` and `ClientTypeOK` |
| `EvaluatorProofs` | — | TLAPS lemmas about the evaluator's operators (`failMessages`, `FirstUnfinished`, the type of `GetResults`) |
| `TestResultsProofs` | — | TLAPS proof of `EvaluatorMatchesReference` for every aggregate |

### 2.1 `TestResults`

**Abstraction.**
- An Eiffel event is abstracted to its presence: a Boolean, or `NoEvent` for a
  nil `*eiffelevents.Any`.
- A TestSuiteFinished event is abstracted to its conclusion, out of the
  constant set `Conclusions`.
- A main suite is a record `[id, fin]`.
- A failure message `"<name>: <description>"` is abstracted to the id of the
  suite it is made from. The code builds it from that suite's name and
  description. Two suites with the same name and description print the same
  text, and the model tells them apart. So a model message says which suite
  failed, not what text was printed.

**Operators.**
- `GetResults` is an IF/ELSE chain in the order of the code's early returns.
- `hasFailed` and `failMessages` follow the two loops. The loop of
  `failMessages` appends one message per failed suite, in MainSuites order.
  The model states the result directly: `FailedPositions` is the set of
  positions the loop appends for, and the k-th message is that of the
  failed suite with exactly k failed suites at or before it. This is the
  same sequence `SelectSeq(ev.mainSuites, IsFailed)` gives; TLC compared
  the two on every MainSuites slice of up to three suites. The form by rank
  is used because tlapm has no definition of `SelectSeq`.

### 2.2 `Collector`

**Variables.**

| Variable | Code |
|---|---|
| `events` | `c.events` |
| `suites` | Collect's local map (`Absent` is a missing key) |
| `pending` | the keys the `for id, suite := range suites` loop has yet to visit |
| `pc` | the query about to be made |
| `caller` | whether CollectActivity runs on its own or inside Collect |
| `repo` | the repository's contents |
| `failures` | a counter of transport errors, bounded by `MaxFailures` |

**One action per repository query.**

| Action | Code |
|---|---|
| `CollectTERCC` | collector.go:42-57 |
| `CollectTriggered` | 59-69 |
| `CollectCanceled` | 71-78 |
| `CollectActivityFinished` | 80-101 |
| `CollectMainSuitesStarted` | 104-125 (the merge is `MergedSuites`) |
| `CollectTestSuiteFinished` | 127-136, with the conversion to a slice (138-144) taken as part of the last loop iteration |

**Rules that hold across the actions.**
- Guards:
  - A query happens only when its field is still nil, as in the code's
    `if ... == nil` tests.
  - So a query that is skipped cannot fail.
- Errors:
  - Each query can fail (`RequestFails`).
  - A failure ends the call and keeps every field already assigned.
- Map order:
  - The loop's order is free: `\E s \in pending`.
  - The order of the rebuilt slice is any permutation of the keys
    (`SlicesOf`).
- Pointer sharing:
  - Setting Finished on a known suite changes MainSuites at once
    (`AttachFinished`).
  - The map shares the `*TestSuite` pointers of MainSuites, so the change
    survives a later error.

**Callers and repository.**
- `CallCollect` and `CallCollectActivity` start a call. `CallCollect` includes
  the test at collector.go:94.
- The repository's actions publish in causal order:
  - TERCC, then the activity;
  - the activity's cancel, finish and suites;
  - each suite's finished event.
- The activity finishes only after all of its suites have.

### 2.3 `Client`

**Variables.** The Collector's variables (the module extends `Collector`, so
its actions and helpers are used as they are), and:

| Variable | Code |
|---|---|
| `configOK` | whether `cfg.Load()` succeeds (chosen once per behaviour) |
| `cmd`, `step` | the command being run and where its `Run` function is |
| `response` | the outcome of the last REST call: transport error, or an answer of some status |
| `exit`, `output` | the process's exit status and what it printed, abstracted to an error kind or a verdict |
| `snapshot` | a history variable: the repository when `GetTestResults` started |
| `verdict` | a history variable: the verdicts given for the current repository |

Client's own `TypeOK`, `Init`, `Next`, `Fairness` and `Spec` are named
`ClientTypeOK`, `ClientInit`, `ClientNext`, `ClientFairness` and
`ClientSpec`, next to the Collector's.

**Actions.**
- `StartCommand(c)`: the user runs a command; `LoadConfig` ends with exit 1 on
  a configuration error; `ParseDataset` is `start`'s JSON `--dataset` check.
- `ListRun`, `GetRun`, `StartRun`, `StopRun`: one REST call (`DoRequest`), then
  print or fail. No v0 method reads `StatusCode`: an error status fails only
  `ListTestRuns`, because the error body does not decode into a slice.
  An "ok" response whose body does not decode (exit 1 in `get`, `start`,
  `stop` and `results`) is not modelled. The abstract server always sends a
  well-formed body, and this path is a plain exit 1 like the other failures.
- `results`: `GetTestRunForResults`, then `GetTestResults` builds a *fresh*
  Collector (`events` emptied, `pc` at the TERCC query); `CollectForResults`
  is one Collector step, and a Collector error ends the command; `Evaluate`
  is `GetResults` and the exit status.
- The repository keeps publishing at any time (`RepositoryStep`).

### 2.4 `Engine`

**Variables.** `entries` is the plugins directory in `filepath.Walk` order,
chosen in `Init`: each entry a directory or other file, or a `.so` with its
load outcome (`plugin.Open` fails, no `Registry` symbol, wrong type, or ok
with a set of command names); any entry can make the walk report an error.
`registry` is `e.commands` (name to the entry that registered it), `root` the
number of RootCmd subcommands with each name (`testrun` is added by
cmd/testrun.go's `init` before `main`).

**Actions.** `LoadConfig` (main.go:14-18), `StatPluginDir` (a missing directory
is created and so holds nothing, or its creation fails and discovery returns),
`WalkFails`, `SkipEntry`, `RegisterPlugin` (first registration of a name
wins), `WalkDone`, `AddCommands` (main.go's loop over `e.commands`).

### 2.5 `Validation`

**Abstraction.** `validator.DefaultSet().Validate` is a schema check of one
event. Events are immutable, so whether an event is valid is a fact about the
repository. The model takes it as a constant of each state: `bad` is the set
of `Slot`s (a run-level kind, or a suite's started or finished event) whose
event the SDK rejects. `Rejected` is `ValidateEvent` returning an error.

**Operators.**
- `ValidateEvents` is the code's chain of early returns, in its order:
  - TERCC if present;
  - Triggered, Canceled and Finished if the Activity is present;
  - then the suites.
- `ValidateSuites` is the loop. It returns the first suite that fails, with
  its 0-based index (`i - 1`). Started is checked before Finished, and a nil
  Finished is skipped.
- The error is abstracted to the check that failed and the `%d`; the wrapped
  SDK error is left out.

`MC_Validation` has no dynamics. Its initial states are every causally
consistent aggregate of at most two suites (both conclusions), each with
every set of invalid slots. `Next` is a stutter.

### 2.6 `EventAggregate` and the refinement

`EventAggregate` says what the Collector promises, with queries, calls,
errors and the layout of the aggregate left out. It has two variables:
- `store`: the events the repository holds, as a set of `Fact`s (kind, suite,
  conclusion);
- `known`: the events the aggregate holds.

It has two actions:
- `Publish`: `store` grows, stays causally closed (`Closed`), and each suite
  finishes once (`FinishedOnce`).
- `Learn`: `known` grows, stays inside `store`, and stays causally closed.

`Collector` implements it under the mapping (in `Collector.tla`)
`Agg == INSTANCE EventAggregate WITH store <- HeldFacts(repo), known <- KnownFacts(events)`.
- `KnownFacts` reads `events` as the set of events it points to. Canceled,
  Triggered and Finished count only under a non-nil Activity, because they
  are its fields.
- The order of MainSuites, the call in progress and Collect's locals have no
  image.
- Every Collector step, failing ones included, maps to `Learn` or to a
  stutter. A publish maps to `Publish`.

## 3. Runs

### 3.1 Passing runs

**`collector_safety_liveness`** (`MC_Collector.cfg`) uses 2 suites,
conclusions `{SUCCESSFUL, FAILED}` and `MaxFailures = 1`. It has 13,644
distinct states and checks:
- `TypeOK`.
- `CausallyClosed`: the aggregate never holds an event without its causal
  predecessor, whatever the repository published between the queries.
- `NoDuplicateSuites`: no suite id twice in MainSuites, across failed and
  successful calls.
- `GraphGrows`: an action property. No step clears a field, loses a suite or
  changes a suite's Finished once set, failed calls included.
- `SuitesEventuallyCollected`: a polling caller eventually holds every finished
  suite.

**`evaluator_reference`** (`MC_TestResults.cfg`) checks
`EvaluatorMatchesReference` on all 800 aggregates with at most two suites.
- It compares `GetResults` with a reference written from the spec: an ordered
  list of error conditions, and the verdict rule.

**`client_results`** (`MC_Client.cfg`, 538k distinct states, about 1.5
minutes) runs every command against a publishing repository and checks:
- `ClientTypeOK`.
- `ResultsFresh`: the aggregate `results` evaluates holds every event the
  repository held when `GetTestResults` started, and nothing the repository
  does not hold.
- `CanceledEventuallyReported`: once the activity is canceled, a user who
  keeps running `results` is eventually told "activity was canceled".

**`engine_registration`** (`MC_Engine.cfg`, 80,919 distinct states) checks
`FirstRegistrationWins` over every directory of three entries: a name is
registered by the first loading plugin walked that offers it, whatever
plugins failed to load and wherever the walk stopped.

**`validation_reference`** (`MC_Validation.cfg`, 26,368 distinct states)
checks `ValidationLocalizes` on every aggregate and every set of invalid
events:
- the result is nil exactly when no present event is invalid;
- an error names an invalid present event, by its kind and, for a suite, by
  an index of MainSuites that holds that suite.

**`collector_refinement`** (`MC_Collector_Refinement.cfg`, the bounds of
`collector_safety_liveness`) checks `AggregateRefinement == Agg!Spec` as a
temporal property.

### 3.2 Violation runs

These are findings, described in `PROJECT.json`.

**`collector_cancel_liveness`** checks `CanceledEventuallyCollected`, which
TLC violates. Once a Collect has seen Triggered, a reused Collector never
queries the cancellation again.
- The CLI's `GetTestResults` builds a new Collector per call, so it does not
  hit this.
- A library user who polls one Collector does hit it, and is then told the
  suites' verdict instead of "activity was canceled".

**`collector_idempotence`** checks `Idempotence`, which TLC violates. A Collect
that brings nothing new can reorder MainSuites.
- This contradicts the spec's "byte-identical aggregates".
- With two failed suites, the reported message can change between polls.

**`client_verdict_stable`** checks `VerdictStable`, which TLC violates.
`GetResults` never reads Activity.Finished, so `results` can report success
while the activity still runs; a suite that starts later and fails makes the
next `results` report failure. The property is an action property: an
`Evaluate` step taken when a verdict was already printed must print a verdict
of the same kind. The spec calls the verdict the test run's.

**`client_failure_exit`** checks `FailureExitsNonZero`, which TLC violates.
No v0 method checks the HTTP status; on an error status `get`, `start`, `stop`
and `results` decode the error body into a zero TestRun and exit 0.

**`engine_unique_root`** checks `UniqueRootCommands`, which TLC violates. The
engine skips a plugin command only if another *plugin* registered the name;
a plugin command named `testrun` is added to RootCmd beside the built-in one,
and cobra keeps both.

### 3.3 Bounds

- Two suites are the fewest that give:
  - two orders of a map;
  - a suite that starts while another is being collected;
  - a duplicate to avoid.
- Two conclusions give both verdicts.
- One transport error is enough to abort every query once. The error counter
  only bounds the number of failures; a larger bound adds states but no new
  control path.

- Client: the same two suites and one transport error; the error can fall on
  the REST call or on any Collector query of `results`.
- Engine: three entries are the fewest that let two loading plugins offer the
  same name with a third entry before, between or after them that fails to
  load or stops the walk; two names, one built in, give both a clash between
  plugins and a clash with a built-in.

Every action and every disjunct fires in the passing runs: TLC's coverage
report has no zero counts.

### 3.4 Fairness

`WF_vars(CollectorStep)`: a call in progress completes. Each query returns, and
errors are bounded, because Go's `ctx` and the HTTP client make each call
return.

`SF_vars(CallCollect)`: a polling caller keeps calling Collect.
- It is strong fairness, because the caller may also call `CollectActivity`
  between polls. `CallCollect` is then enabled infinitely often but not
  continuously.

`Client`: `WF_vars(CliStep)`: a command runs to its end (every call returns,
as above). `SF_vars(StartCommand("results"))`: the user polls with `results`;
strong, because in between the user may run other commands and the command
is then not continuously enabled.

`Engine`: `WF_vars(Next)`; start-up is one goroutine. Its runs say
`CHECK_DEADLOCK FALSE` because start-up really ends (in `execute` or `exit`).

The repository is not given any fairness.
- `SuitesEventuallyCollected` is conditioned on what the repository holds.

## 4. What is proved

`CollectorProofs` proves, for every finite `Suites`, any `Conclusions`
containing `"SUCCESSFUL"` and any `MaxFailures \in Nat`:

- `TypeCorrect`: `Spec => []TypeOK`.
- `InvariantHolds`: `Spec => []CollectorInv`.
- `CausallyClosedHolds`: `Spec => []CausallyClosed`.
- `NoDuplicateSuitesHolds`: `Spec => []NoDuplicateSuites`.

The inductive invariant is
`CollectorInv == TypeOK /\ CausallyClosed /\ NoDuplicateSuites /\ PcConsistent`.

`CausallyClosed` alone is not inductive. `CollectCanceled` sets Canceled, and
`CollectMainSuitesStarted` adds suites. Neither action tests Triggered in its
guard: the code queries them by the Triggered event's id, which the earlier
steps of the call made sure exists.

`PcConsistent` states this: the pc of a pending canceled, finished or suite
query implies Triggered is known. The same holds for the activity queries and
the Activity.

`NoDuplicateSuites` is preserved by the conversion, because the slice is built
from an injective enumeration of the map's keys (`Orders`). It is preserved by
`AttachFinished`, because that does not change the ids.

Lemmas state the type and effect of `SlicesOf`, `KnownFin`, `RequestFails`,
`ConvertSuites` and `AttachFinished` once. The step lemma has one case per
action.

`EngineProofs` proves, for any `Names`, any `Builtins \subseteq Names` and any
`MaxEntries \in Nat`:

- `EngineTypeCorrect`: `Spec => []TypeOK`.
- `FirstRegistrationWinsHolds`: `Spec => []FirstRegistrationWins`.

`FirstRegistrationWins` is inductive together with `TypeOK`. The argument
(`FirstWinsStep`): `ProvidersStep` says one walk step adds at most the current
entry to a name's providers; every provider lies before `pos`, so a name
already registered keeps the smaller entry, and a name registered now had no
provider before.

`CollectorRefinementProofs` proves `AggregateRefinementHolds`:
`Spec => AggregateRefinement` under the same assumptions. Its layout:
- `Init` maps to `Agg!Init`.
- An invariant `RefinementInv` holds initially and is kept by every step
  (`RefStep`).
- Under `RefinementInv` and `RefinementInv'`, every step is `Agg!Publish`,
  `Agg!Learn` or a stutter of the mapped variables.

`RefinementInv` adds four clauses to `CollectorInv`:
- `RepoClosed`: the repository is causally ordered, so `HeldFacts` is
  `Closed`.
- `EventsHeld`: the aggregate holds only events of the repository, so
  `known \subseteq store`.
- `MapHeld`: so does Collect's map. The conversion to a slice turns the map
  into MainSuites, so `EventsHeld` after it needs this.
- `MapAgrees`: during the loop, the map holds every suite of MainSuites with
  the same Finished, and every suite left to visit has none. Without it the
  conversion could drop a known suite or a known Finished, and `Learn` would
  not grow `known`.

The step lemma also proves `Covers(events, events')`: every step keeps every
event the aggregate held. `KnownFactsMono` turns that into
`KnownFacts(events) \subseteq KnownFacts(events')`.

The lemmas take the aggregate and the repository as parameters (`Within`,
`ClosedEv`, `ClosedRepo`), so they apply to the primed state too:
- `KnownHeld`, `KnownClosed` and `HeldWellFormed` relate the mapping to the
  abstract predicates.
- `SliceEntries` says a slice built from the map has exactly its entries: an
  injective enumeration of a finite set is onto it (`FS_Injection`).
- `ConvertStep` covers the end of Collect.
- `MergedProps` covers the merge.

`CollectorRefinementProofs` also proves `GraphGrowsHolds`:
`Spec => GraphGrows`, the action property that no step clears a run-level
field or loses or changes a known suite. It rests on `RefStep` and on
`RefinementInvHolds` (`Spec => []RefinementInv`). `RefStep` gives
`Covers(events, events')`. `CausallyClosed` turns the Activity-guarded
clauses of `Covers` into the plain fields (Triggered, Canceled and Finished
imply the Activity). `NoDuplicateSuites` in both states lets `KnownFinAt`
read `KnownFin` off the entry `Covers` provides, before and after.

`ValidationProofs` proves `ValidationLocalizesHolds`:
`Spec => []ValidationLocalizes` for every finite `Suites`, so for every
aggregate in `Events` and every set of invalid events. There is no
induction: `ev` never changes, and `LocalizesAll` proves the property of an
arbitrary aggregate, one case per early return of `ValidateEvents`:
- the four run-level checks (`RunLevelError`, `NamedError`);
- the first rejected suite, found by `CHOOSE` (`FirstRejected`);
- the case where every check passes, by contradiction on the kind of an
  invalid present event.

`FirstRejected` needs a least element of a non-empty set of naturals.
`NatSetMin` gets it from `WFMin` and `NatLessThanWellFounded` of
`WellFoundedInduction`, which take no operator parameter. `AllEventsType`
shows that the aggregates `MC_Validation` enumerates are in `Events`.
`NatSetMin` is in `EvaluatorProofs`, which `ValidationProofs` extends.

`ClientProofs` proves `ResultsFreshHolds`: `ClientSpec => []ResultsFresh`.
The module extends `Client` and `CollectorRefinementProofs`, so every
Collector lemma applies to the Client's Collector as it stands. This is why
`Client` extends `Collector` rather than instantiating it: tlapm 1.4.5 does
not import the statements of an instantiated module's theorems.

The inductive invariant is `ClientInv == RefinementInv /\ CollectProgress`.
While the results command collects or evaluates, `CollectProgress` says:
- The snapshot is a causally ordered repository below the current one
  (`Below`).
- `caller` is Collect.
- `pc` is `"idle"` exactly at the evaluation.
- Every run-level event of the snapshot whose query has been answered
  (`Answered`) is in the aggregate.
- In the finished-event loop, every suite of the snapshot is a key of
  Collect's map, and a visited one has its Finished (`MapCovers`).
- Once the call has returned, every suite of the snapshot is in MainSuites
  with its outcome (`SuitesHeld`).

The early returns of `CollectTERCC` and `CollectTriggered` lose nothing,
because a snapshot without that event holds nothing after it
(`EarlyReturn`). There is one lemma per Collector action (`TERCCStep` ...
`TestSuiteFinishedStep`):
- `RefStep` provides `Covers` for the events already answered.
- `ConvertHolds` with `SliceEntries` and `KnownFinAt` provides the suites at
  the end of Collect.

Steps of the other commands change at most the shared transport-error
counter (`CliOnlyStep`). TLC checked `ClientInv` as an invariant of
`MC_Client`'s instance (538,070 states) before it was proved.

**The evaluator and the client's types.**

`EvaluatorProofs` holds the lemmas about the evaluator's operators, for
every aggregate (any number of main suites):
- `PositionMax`: a non-empty set of positions has a greatest element (the
  least upper bound, found with `NatSetMin`, belongs to the set).
- `LastFailMessage`: `failMessages` has one message per failed suite, and
  its last one is that of the failed suite at the greatest position. The
  rank of that position is the number of failed suites; any position of
  that rank is the greatest, because `{j \in F : j <= i}` then has the
  cardinality of `F` and is `F` (`FS_Subset`).
- `FailureVerdict`: with every suite finished and one failed, `GetResults`
  reports that last message, through either of the code's two branches
  (`len(messages) == 1` and `len(messages) > 0`).
- `FirstUnfinishedSuite` and `GetResultsType`: the "not finished" error
  names a suite of MainSuites, and `GetResults` always returns a `Result`.

`TestResultsProofs` proves `EvaluatorMatchesReferenceHolds`:
`Spec => []EvaluatorMatchesReference` of `MC_TestResults`. It rests on
`EvaluatorCorrect`, `ev \in Events => EvaluatorMatchesReference`, which
holds for every aggregate and so for more than the 800 that TLC enumerates.
The proof has one case per early return of `GetResults`. For each error,
`FirstReasonIs` shows the reference's precedence picks the same reason.
For a verdict, the failed positions of the code and of the reference
coincide, because every suite has finished. The two `CHOOSE`s then name the
same greatest position.

`ClientProofs` also proves `ClientTypeCorrect`: `ClientSpec => []ClientTypeOK`.
The Collector's variables are typed by `ClientInv`. The command layer's
variables (`CliTypes`) are typed by `CliTypesStep`, with one step per
action. Its only non-trivial case is `Evaluate`, where `GetResultsType`
shows that what is printed and added to `verdict` is a `Result`.

Only TLC checks these:
- The liveness properties that hold (`SuitesEventuallyCollected`,
  `CanceledEventuallyReported`), because TLAPS does not handle fairness and
  ENABLED.
The properties of the violation runs (section 3.2) do not hold, so there is
nothing to prove about them: TLC's counterexamples are the result.

## 5. Not modelled, and the plan

- **Signer**: cryptography and file I/O.
- **REST client** beyond `DoRequest`: `parseResponse`, the only status check,
  and the base client's `GetTestRun`/`ListTestRuns` are called by nothing;
  version.go is types only. **Config**: only `Load`'s outcome is modelled.
- **events.go**: an unused duplicate of the types.
- **Logging**: a level set once from the configuration; formatting only.
- **Example plugin, pkg/command**: cobra data; the example plugin does not
  compile (`Registry` is a type and a var).

Planned, in this order:
1. A refinement of `Client`'s `results` to an abstract "evaluate a snapshot
   of the repository between the call's start and end" specification; its
   step proof can reuse `ClientInv`.
2. The invariant of `MC_Validation` and `MC_TestResults` stated over
   aggregates the Collector builds: `ValidationLocalizes` and
   `EvaluatorMatchesReference` as invariants of `Client`'s evaluation step,
   from `ClientTypeCorrect` and the lemmas for every aggregate.
