# Verification of fabulexa-forge

TLA+ models of the parts of `fabulexa_forge` that keep state while something else can happen, the TLC configurations that check them on small instances, and proofs, checked by TLAPS, of what matters most in them for every instance. Paths below are relative to the repository's package `src/fabulexa_forge/` unless they begin with `docs/` or `tests/`.

Read this file together with `PROJECT.json`: its `map` names the source lines behind every definition, `hazards` lists what is hard to test in the code and which property looks after it, `mutants` shows for every property a plausible bug it catches.

## 1. The system

fabulexa-forge reads an *emit* (a directory of Parquet tables and a sidecar that a simulator wrote: records, property histories, memberships), and turns it into datasets. An emit never changes while it is open, so most of the program is a pure function of emit and configuration. State, order and failure come in where the result is delivered over time:

- the **live mixer** plays the emit's events into Kafka in scaled real time while an operator turns dials over HTTP;
- the **incremental drip** (`export --next`) hands out the dataset one window per invocation and must survive being killed anywhere;
- the **playback head** answers "the state at T, then the events after it", which splices two independent computations;
- the **derivations** compute, from the tape of the whole run, what the emit was at an earlier instant, each with a rule of its own, and every exporter mixes several of them;
- the **source exporter** plans from the sidecar alone which columns shall be keys, and then writes tables, a numbered log and, window by window, pieces of that log;
- the **corrupters** apply a sequence of damaging operations to one mutable state and keep a ledger of it.

### Inventory

| Component | State | Operations | Interacts with | What is hard | What makes it correct |
|---|---|---|---|---|---|
| Mixer release scheduler, `exporters/streaming/mixer/scheduler.py` | transport, dials per topic, frontier, edges, delivery edges, buffers, `previous` | `seed_mixer_run`, `advance`, `schedule_releases` | dials written by the handler threads, `sink.deliver` awaited, meters read by the handler threads | edits between two statements of a tick, cancellation in an await, pauses, truncation by `int()` | each topic's events leave once, in order, never ahead of frontier - lag; nothing due is held back; a pause is not caught up; a playing run drains |
| Mixer control plane, `mixer/app.py`, `wire.py`, `run_state.py` | none of its own | GET/PUT of transport, topics, consumer; GET meters | runs in worker threads beside the event loop | reads several fields of a state the loop is writing | no meter shows an impossible value |
| Mixer Kafka sink, `mixer/sink.py` | `delivery_errors`, the client's queue | `open`, `deliver`, `aclose` | executor threads, delivery callbacks, broker | produce runs in another thread, reports come late, cancellation leaves a job behind | order within a topic, no gap behind a failure nobody hears of |
| Mixer serving, `mixer/serve.py` | tasks, stored exception, `should_exit` | startup, lifespan, shutdown, exit | all of the above | one failure starts the path on which others fail | clients are closed, a failure ends the run and is its exit code |
| Mixer consumer, `mixer/consumer.py` | rates, watermarks, windows, join counters, carry | `run_consumer` tick, `ingest`, PUT of a rate | `KafkaSource.pull`, `lag` | fractional budgets, stalled topics, order within a tick | windows fire exactly once each, joins count every fact, a throttle is a throttle and not a stop |
| Mixer Kafka source, `mixer/source.py` | assignment, paused partitions | `pull`, `lag`, `aclose` | client library | pause/resume against a late assignment, records polled past the budget | nothing the broker delivered is skipped |
| Incremental drip, `incremental/driver.py`, `cursor.py` | drop directories, staging directory, cursor file or cursor tables, companion files | `export_incremental_next` | writers, companion artifacts, the operator between invocations | death between any two file operations, changed configuration, reset | windows in order, whole, once; what the cursor has passed is there; re-invoking recovers |
| Window arithmetic, `incremental/windows.py`, `anchor.py` | none | `derive_window`, `parse_range` | `zoneinfo` | offset changes, boundaries that do not exist or exist twice | windows tile the run; a range selects what the window did |
| DuckDB warehouse, `writers/duckdb.py`, `exporters/horizon.py`, `exporters/dimensional/windowing.py` | the committed tables and their cursor | `write_duckdb_window` | the window compile | failure mid-transaction, copies of rows, changing keys | after window k the warehouse is the full export at k |
| Stream playback, `playback/stream.py`, `exporters/streaming/engine.py` | the consumer's position | `seek`, `events`, the merge and its numbering | folds of `derivations/` | inclusive and exclusive bounds of two folds meeting | joining at T and playing on gives what playing all of it gives |
| Pacer, `exporters/streaming/pacer.py` | origin, scheduled offset | `pace_events` | clock | slow consumers, idle cap | never early, no drift |
| Export-mode Kafka sink and stream driver, `exporters/streaming/kafka_sink.py`, `driver.py` | open files, counters, delivery errors | `write_kafka_stream`, the line sinks | broker, file system | failure part way, leftovers of earlier runs | what is reported delivered was delivered |
| Tier-1 playback, `playback/head.py`, `selection.py`, `events.py`, `snapshot.py` | none | resolve a selection, events between instants, snapshot, `seek` | derivations | bounds of windows and snapshots, events of one instant | snapshot plus events is the later snapshot; the order of the merge nests memberships in the lives of their owners |
| Derivations, `derivations/` | none | SQL folds over the tape: row-state events, state at T, memberships, truncated tape, versioned intervals, keys, references | DuckDB | each has its own inclusive or exclusive bound | the folds agree with each other at every instant |
| Corrupters, `corrupters/` | mutable tables, tombstones, index marks, defect records | twelve operations (sixteen handlers), base writer, manifest | emit in, emit and manifest out; declares defects in terms of `reader/conformance.py` | later operations meet what earlier ones damaged; a write fails or the process dies between the files | every failing check is declared by some defect; what is on disk is whole |
| Conformance, `reader/conformance.py` | none | the checks C1 to C16 | corrupters, fixtures, `fabulexa check` | sixteen rules over catalogue, rows and sidecar that restate each other's assumptions | an emit passes iff it honours the contract |
| Election, populations, selection spine, `exporters/election.py`, `populations.py`, `selection_spine.py` | none | resolve the `keys` block, decide which key spaces may share a column | all exporters | surfaces differ per sub-type; claims of the sidecar are taken on trust at planning | identity columns are keys, references join |
| Source exporter, `exporters/source/` | none | `plan`, guards over the data, tables, junctions, event log, windowed compile | election, derivations, drip | two sources of one item type; old values; one numbering seen from several horizons | the log and the tables tell the same story; windows append to the whole log |
| Compare, `compare/` | none | coverage rules, multiset difference | two datasets | doubled rows, missing tables | equal iff equal as multisets |
| Dataset fetch, `datasets/` | target directory, temporary archive | check, download, verify, clear, extract | network, file system | each step may fail | before verification nothing is touched |
| Writers and companions, `writers/csv.py`, `exporters/companion/` | files | write | drip | plain writes | never ahead of the data |
| Reader, sidecar, configuration, base and dimensional exporters, CLI, SQL helpers, frontend | none that changes | parse, validate, generate SQL, dispatch | | size rather than order | parsed once, then only read |

Everything in the table is listed in `PROJECT.json` with its status; section 7 says what is not modelled and why.

## 2. The modules

| Module | Models | State and actions against the code |
|---|---|---|
| `TopicStreams` | what the mixer promises a reader of its topics | abstract: one log per topic, extended by that topic's next event |
| `MixerScheduler` | `scheduler.py`, the dial edits and the meters of `app.py` | `frontier`, `edges`, `deliveryEdges` are `FrontierState`; `dials`, `transport` are `ControlState`; one action per turn of each loop of `advance` (`PausedTick`, `FirstTick`, `PlayingTick`, `InitEdge`/`HoldEdge`/`AdvanceEdge`, `PopHead`, `RecordRelease`, `NextTopic`), one per await of `schedule_releases` (`SinkEvent`, `Sleep`), the edits `PutTransport`, `PutTopic`, and a meter read in its three separate loads (`MeterBacklog`, `MeterEdge`, `MeterLag`) |
| `MixerDelivery` | `sink.py`, `serve.py`, the exit code of `cmd_mixer` | the release task (`Deliver`, `Delivered`), executor jobs (`JobProduce`, `JobPoll`), the client's queue and reports, the lifespan's shutdown one await at a time (`CancelRelease` ... `CloseSource`), `Return` |
| `MixerConsumer` | `consumer.py`, `source.py`, the consumer PUT of `app.py` | one tick is `StartTick`, `PauseResume`, polls, `PullReturns`, `ReadLag`, `Ingest`, `Sleep` |
| `Drip` | what a drip promises, whatever the format | abstract: visible windows and settled windows |
| `DripCsv` | `driver.py` with the CSV arm, `cursor.py`, `companion/artifacts.py` | one action per file-system effect: stage, write, clear, rename, truncate and fill of cursor, manifest and README |
| `DripWarehouse` | `duckdb.py`, the DuckDB cursor, the windowed compile | the committed file and the transaction's view of it; one action per spec applied, then the log row, then commit |
| `DripWindows` | `windows.py` and the datetime semantics it relies on | `DeriveWindow`, `ParseRange`, and the drip walking the windows |
| `StreamPlayback` | `playback/stream.py`, the merge of `streaming/engine.py`, `row_state_events.py`, `state_at.py` | the two folds as set definitions; a consumer that pulls `Seek` and `Continue` answers one event at a time |
| `Conformance` | `reader/conformance.py`, the sidecar as far as the checks read it | an emit is a record of catalogue, table entries and sidecar fields; `Failing(e)` is the set of checks it breaks, one definition `C1` ... `C16` each |
| `CorruptionImpact` | `corrupters/state.py`, `selection.py`, `operations/_impact.py` | the working set and the evaluators by which an operation foresees the checks its mutation breaks: the code's own mirror of the conformance module |
| `CorruptionOperations` | `corrupters/operations/*.py` | every handler as the function from working state and drawn units to state, defects and error |
| `Corrupters` | `corrupters/engine.py`, `base_writer.py`, `manifest_build.py` | a run: check and load the source, one action per operation, then `OpenDatabase`, `CloseDatabase`, `WriteSidecar`, `WriteManifest`, with a failed write (`WriteFails`) or the end of the process (`Again`) between any two |
| `Derivations` | `derivations/*.py` | each builder as the set of rows its SELECT returns: `RowStateEvents`, `StateAt`, `MembershipEvents`, `MembershipStateAt`, `Truncated`, `VersionedIntervals`, `RecordIndexAt`, `PresentationKeyAt`, `Translation` |
| `Playback` | `playback/selection.py`, `head.py`, `events.py`, `snapshot.py` | what a selection must satisfy, the events of an atom, the merge key and its numbering, both snapshots |
| `Tape` | the producer as the contract describes it (external) | `Born`, `Write`, `Deactivate`, `Enter`, `Exit`, and `Tick`, which keeps the emit of each instant so that it can be compared with what is derived for that instant later |
| `Election` | `exporters/election.py`, `populations.py`, `selection_spine.py` | key spaces and when two may share a column (`UnionSafe`), the surfaces elected per population |
| `SourcePlan` | `exporters/source/plan.py`, the source section of `config/models.py` | `...Resolve` is the absence of a builder's errors, the operator beside it its result; `SourcePlanOf` is the plan, the guards over the data included in `Accepted` |
| `SourceExport` | `exporters/source/renders.py`, `events.py`, the windowed compile | `StateTable`, `JunctionTable`, `Log`, `CompiledAt`, `WindowDelta` over the tapes of `Tape`, and `Garble`, a corruption that duplicates a surrogate |
| `MixerRelease_proofs` (scheduler and delivery), `MixerConsumer_proofs`, `Drip_proofs` (CSV drip and windows), `DripWarehouse_proofs`, `StreamPlayback_proofs`, `Corrupters_proofs`, `Tape_proofs` (tape, derivations, source exporter) | | theorems, section 6 |
| `Rows_proofs` | | lemmas about kept rows, layouts and sets of numbers that several of them need |
| `MC*` | | the small instances: names, tapes, logs, histories |

How they fit: `MixerScheduler` decides *which* event is released *when* and treats the sink as an await that succeeds, raises or is cancelled; `MixerDelivery` takes the order of releases as given and models everything behind that await. `MixerConsumer` reads what the sink has put into the topics; its `Broker` logs are in per-topic order, which is what `ImplementsStreams` and `InOrder` establish on the other side. `DripCsv` and `DripWarehouse` both implement `Drip` (`INSTANCE ... WITH`), and both see windows as indices; `DripWindows` says what the bounds behind an index are.

The second half of the modules is a stack over one notion of an emit. `Conformance` defines it; `CorruptionImpact`, `CorruptionOperations` and `Corrupters` damage it; `Derivations` reads it, `Playback` reads the derivations; `Tape` writes one, so that "what was there at t" is known independently of every fold; `Election` and `SourcePlan` plan an export from its sidecar and `SourceExport` renders it. What `DripWarehouse` assumes of an exporter (`HistoryAssumption`: an append table's rows are never revised) is for the event log what `WindowsReproduce` checks of `SourceExport`.

### Grain of atomicity

The HTTP handlers of `app.py` are plain functions, which the framework runs in worker threads beside the event loop. CPython switches threads at calls and loop back edges, so `MixerScheduler` makes each turn of each loop of `advance` a step, separates `popleft` from the store of the delivery edge, and reads a meter in three steps. The three dials of one topic are stored without a switch point and are one step. In `DripCsv` one step is one file-system effect; `rmtree` of a drop and `write_text` are two steps each, because a partial tree and a truncated file are states a killed process leaves. In `DripWarehouse` a transaction's writes become visible at commit and not before.

### What is abstracted

- Event and record content, formatting and wording. An event is its topic and time; a row is a key and a value; a value on the tape is named by the instant that wrote it, so that two different values are never confused with each other.
- The fingerprint. A configuration in `DripCsv` stands for everything the digest covers; configurations may share a label (same anchor date), because a real configuration edit usually does.
- DuckDB, Kafka, `asyncio` and `zoneinfo` are external and modelled from how the code uses them: transactions are atomic; an idempotent producer keeps order within a partition and reports each message once; a cancelled await of an executor future leaves a running job running; the offset of a missing or repeated wall time follows its fold.
- `StreamPlayback` reads one kind of record and its tracked properties; constants, sub-types and filters come down to which records a stream selects. Membership content, sub-types and selections are the subject of `Playback` and `Tape`. Tapes are those `contract/base-format.md` allows; in particular nothing is written to a record after its deactivation.
- SQL is what it returns. A builder that composes a SELECT is the set, or the sequence where an order is asked for, of the rows; which statements and temporary tables compute it is left out.
- Cells. Values, ids and surrogates are small integers. Where the rendering of a value matters (a cell is compared with the text in `history`, a reference with the key of its target) a text is an integer too: 2n is the text "n", 2n+1 the text "n.0", so that the two renderings of one number differ as they do in the code and text order is kept.
- Which units an operation of the corrupters draws (amount, predicate, placement, seeded generator) is a choice: any subset may be drawn. A configuration is any list of valid operations. A run that has deleted every row of every table writes nothing (`engine.py:120`, `Erased`), so what is said of the emit a run would write (`Mutating`) is said of the other states.
- A plan's notices, descriptions and column labels, `source/init.py`, and the documentation blocks of the sidecar.
- `Garble` stands for the corrupters as the source export meets them: one surrogate of a population is duplicated.
- Manual deletion of *some* files from a drop directory is not modelled (deletion of the whole directory, the documented reset, is). Together with a crash it can lead to skipped windows, see section 5.

## 3. The runs and what they show

| Run | Module, configuration | Question | Properties |
|---|---|---|---|
| `scheduler_safety` | `MCMixerScheduler`, `MixerScheduler.cfg` | With any two edits landing anywhere, slow ticks, pauses, a failing sink and cancellation: is every event released once, in order, not early, and as soon as it is due? | `SchedulerInv` (`TypeOK`, `NothingStranded`), `NothingEligibleLeft`, `NoStreamLeadsFrontier`, `PositionsNeverRetreat`, `PauseNotBanked`, `ImplementsStreams` |
| `scheduler_fair` | same, `MixerSchedulerFair.cfg` | Is no meter ever negative although it is read in pieces beside the loop? Does a run left playing drain, whatever the lags, at truncating speeds? | `MeterLagNotNegative`, `DrainsWhenPlayed` |
| `delivery` | `MCMixerDelivery`, `MixerDelivery.cfg` | Over every way of opening, failing, interrupting and closing: order, no silent gap, clients closed, the failure of a task is the exit of the run, and it does come to an end | `OrderKept` (`TypeOK`, `InOrder`, `NoSilentGap`), `EndsHonestly` (`ClientsClosed`, `TaskFailureIsExit`), `FailureShutsDown` |
| `consumer` | `MCMixerConsumer`, `MixerConsumer.cfg` | Do windows follow the least watermark, joins count every fact, pulls stay within the credit the rates earned, and does a throttled topic catch up? | `RecordsAccounted` (`TypeOK`, `PullsWithinCredit`, `JoinsCountFacts`), `EventTimeAdvances` (`WatermarksAdvance`, `WindowsFollowGlobal`), `CatchesUp` |
| `drip_csv` | `MCDripCsv`, `DripCsv.cfg` | Interrupted at any file operation, under changing configurations: are settled windows whole and of one configuration, is drained complete, is the drip recovered by re-invoking, does it implement `Drip`? | `SettledDropsWhole`, `DiskFollowsCursor` (`TypeOK`, `DropsContiguous`, `ManifestNotAhead`), `DrainedMeansComplete`, `SettledDropsStand`, `ImplementsDrip`, `Recovers` |
| `drip_windows` | `MCDripWindows`, `DripWindows.cfg` | For each cadence, origin, end and one-hour offset change: do the windows tile the run exactly, and does a range reproduce a window? | `WindowsCoverRun` (`WindowsTile`, `DrainedCoversRun`), `RangeReproducesWindow` |
| `drip_warehouse` | `MCDripWarehouse`, `DripWarehouse.cfg` | Is each table the full export after each window, for each delivery class, with failures and foreign files? Does it implement `Drip`? | `WarehouseInv` (`TypeOK`, `Reconciled`), `ForeignUntouched`, `ImplementsDrip`, `Finishes` |
| `playback` | `MCStreamPlayback`, `StreamPlayback.cfg` | Wherever a consumer joins and however it splits its asks, does it hold what a consumer of the whole play holds, and is the numbering continuous? | `SeekAgrees`, `NumbersContinue` (`TypeOK`, `SeqContinuous`) |
| `tape` | `MCTape`, `Tape.cfg` | Is what the derivations and the playback head compute for an earlier instant what was there at that instant, and do all of them agree? | `TruncationIsPast`, `DerivationsAgree` (`FoldsCommute`, `VersionsAreStates`), `PlaybackAgrees` (`TruncationConforms`, `ReplayAgrees`, `EventsNested`) |
| `corrupt` | `MCCorrupters`, `Corrupters.cfg` | Whatever two operations a run composes: is every failing check declared, is a single defect's declaration exact, are the frame of the data and what lies on disk never damaged? | `FailuresDeclared`, `FirstExact`, `FrameKept` (`StructureKept`, `PhantomsAreNew`), `OutputStands` (`EmitsAreWhole`, `EmitStands`) |
| `source` | `MCSource`, `Source.cfg` | Does what an accepted configuration exports hang together: keys, joins, the log against the tables, windows against the whole? | `IdentityIsKey`, `LogIsSound` (`ItemsAreOne`, `LogDeterministic`), `TablesJoin`, `LogMatchesTables`, `WindowsReproduce` |
| `source_guard` | same, `SourceGuard.cfg` | Is the identity column a key for a kind without sub-types too? It is not (finding) | `IdentityIsKey` |

A property that is a conjunction of named parts is listed with them; each part has its own comment in its module. Properties of different shape about one question (an invariant and an action property) are joined with `[]`. A type invariant is never a property of its own but the first part of one. Every property of a passing run has a mutant, an operator defined next to the one it replaces, under which TLC finds the property violated: the bound-by-one and lost-`max` forms of the edge rule, an await left out of the sink, a carry that is dropped or doubled, `EXCEPT` for `EXCEPT ALL`, a cursor ignored or believed too easily, a cut inclusive for exclusive, a where-clause or a sub-type restriction forgotten, and so on.

### Bounds, and why they are enough

| Bound | Value | Why |
|---|---|---|
| `MaxPuts` (scheduler) | 2 | an anomaly needs an edit and its undoing, or edits of two different dials, around one tick; all values of all dials are tried at every step |
| `Horizon` | 5 | the frontier saturates past the last event plus the largest lag; nothing the module does tells later instants apart |
| `SinkTimes`, `SleepTimes` | {0,1}, {1,2} | a tick on time, a slow sink, an overslept loop; sums give every ratio to the tapes' spacing |
| `Rates` / `RateUnit`, `Speeds` / `SpeedUnit` | 0, half, one, double | below, at and above one, and products that truncate to zero |
| `Tape` | two events and one | interleaved over two topics, with a gap |
| `Feed`, `QueueLimit` | 4 events, 2 slots | both sides of a full queue, an event of another topic between two of one |
| `Broker`, `Earlier`, `Windows` | 3 and 2 records, one of them from an earlier run, sizes 2 and 3 | jumps that close several windows at once and end exactly on a boundary |
| `credit`, `idle`, `carry` | saturated | above the number of records, respectively the client's limit, nothing can tell values apart |
| `MaxPollInterval` | 9 | longer than any tick and reachable by a sequence of them |
| `MaxMishaps` | 6 | an interruption at two different windows with a configuration edited and edited back around each, or as many resets; no property was found to depend on more, and the theorems of section 6 hold for any number |
| `LastWindow` | 2 (CSV), 1 (DuckDB) | first, middle and last window; for the warehouse the window that creates the tables and the one that merges |
| `Configs` | three, two sharing a label | a label that tells configurations apart and one that does not |
| `Histories`, `MaxCopies` | every lawful history of an upsert table over two keys and two values and of an append table whose row may repeat, two histories of a snapshot table that loses rows; two copies | a key that changes its value, appears late or is duplicated; two copies are what separates bag from set difference |
| `MaxFailures` | 1 | a failure at each point of a transaction followed by a clean retry |
| `MaxOps`, `MaxDrawn` (corrupters) | 2, 2 | what one operation declares is decided by its own handler; that an earlier one undoes, moves or multiplies it takes a second one. All sixteen handlers are composed with all |
| `Worlds` | three emits | a tracked series with a pinned record, once beginning with NULL; an actor kind with sub-types that is a member twice; a tracked reference with its index column. Together they have what each check is about |
| `Rewrites`, `Ids`, `NewNames`, `NewTypes` | one foreign value, existing and fresh ids, one name, four types | a value that is and one that is not in a series; a type that does and one that does not round-trip |
| `LastTime`, `MaxChanges` (tape, source) | 2 and 3; 2 and 2 | three instants separate before, at and after; creation, write and deactivation of one record, or a stay that begins and ends with its owner, take three changes, and the first instant already holds records with histories. `source` starts with three records of two kinds and adds two changes to them and one corruption |
| `Configs` (source) | three that are accepted and two that are refused | nothing elected; index and surrogate with labels, renames, filters, renders and two sources of one item type; three sub-types with two disjoint counters and an index. Refused must be two sources whose counters meet under one item type, and two sources that report the same records |
| `ZoneChanges`, `Starts`, `Slices` | each hour of two days, either direction; ten origins; fourteen ends | the day has 4 hours, so every position of a change relative to a boundary occurs |
| `CycleDays`, `MonthStarts` | 8 days; months of three, two and three days | months of unequal length, and one month that begins in the next cycle; the civil calendar repeats after 146097 days, and the theorems hold for any cycle |
| `Tapes`, `LastTime`, `Configs` (playback) | every life and history of one record over four instants, a second record to order it against; four combinations of change scopes | creation, write, and deactivation at one instant, just before and just after the joining position |

`CHECK_DEADLOCK FALSE` appears for `DripWindows`, whose walk ends when it is drained; for `Tape` and `Source`, whose producer has a last instant; and for `Corrupters`, where a configuration may ask for an operation that finds nothing to draw. All other models either keep going or have an explicit terminal stutter (`Ended`, `Exited`, `Stopped`).

## 4. Fairness

| Assumption | Why the code justifies it |
|---|---|
| `WF(LoopStep)` of the scheduler | the event loop resumes a ready task; every await of the loop is bounded |
| `WF(LoopStep)`, `SF(Assign)`, `SF(PollAny)`, `WF(Deliver)` of the consumer | the loop runs; a group join completes while polled although each poll can come back empty, and a broker that has records hands some over infinitely often: hence strong fairness for both |
| `WF` of the release task, of executor jobs, broker, server | threads and event loop run; `message.timeout.ms` bounds a message's stay in the queue, so it is delivered or refused |
| `WF(Invocation)` of both drips | the operator keeps calling `--next`; deaths and edits are bounded by the mishap counter, not fair |

No fairness is assumed of edits, failures, cancellation or the operator's resets. `CatchesUp` excludes in its premise an eviction for not polling, and rates that end at zero. `DrainsWhenPlayed` excludes mutes that stay, and rates and speeds whose product truncates to zero at every tick, for which the stream indeed never moves.

## 5. Findings

One run ends in a violation and `PROJECT.json` quotes the lines.

**`source_guard`** (`exporters/source/plan.py:3477`). The guard that an identity relation is a bijection returns at once when it is handed no sub-types, and the populations of a kind without sub-types are none (`:3518`, `:3580`). So the elected surrogate of a flat kind is never looked at, and a tape whose surrogates were corrupted is exported with an identity column, declared a primary key on request, that is no key. `docs/architecture/key-election.md:166` says that every identity relation the export composes is asserted. `Source.cfg` corrupts a kind with sub-types only, where the guard works; the two configurations differ in `Corruptible` alone.

Seven more statements of the documentation are violated by the models. Each has its property in the module and a configuration beside it, which reproduces the trace with `tlc -config <cfg> <module>`:

| Configuration, property | Module | Code | Statement |
|---|---|---|---|
| `MixerConsumerSkips.cfg`, `NothingSkipped` | `MCMixerConsumer` | `mixer/source.py:137`: a topic that uses up its budget within a pull is paused only at the next one; while another topic still has budget, its records are polled and dropped and the position moves past them | every record delivered is pulled |
| `DripWindowsWall.cfg`, `WidthsArePhysical` | `MCDripWindows` | `incremental/windows.py:46`: subtracting datetimes with the same `ZoneInfo` gives the wall-clock difference, so a calendar window across an offset change is off by the change. The windows still tile and a range still reproduces its window, since the same subtraction is used throughout | windows have physical widths |
| `MixerDeliverySwallow.cfg`, `ExitZeroMeansDelivered` | `MCMixerDelivery` | `mixer/serve.py:225`: a flush failure at shutdown is raised inside the lifespan, where the ASGI server only logs it | exit 0 means delivered |
| `StreamPlaybackScope.cfg`, `SeekEqualsReplay` | `MCStreamPlayback` | `streaming/engine.py:1742`: a published property outside the change scope is current in a seek's snapshot and stale in the play. `SeekAgrees` states what does hold: the same keys always, the same images where the scope covers what is shown | `docs/architecture/stream-playback.md:154-158` |
| `CorruptersContainment.cfg`, `Containment` | `MCCorrupters` | `operations/schema_drift.py:277`: a retyped tracked column no longer round-trips with its series, and C6 fails undeclared | `docs/architecture/corrupters.md:1387`, `:1535` |
| `TapePopulation.cfg`, `PopulationKept` | `MCTape` | `playback/snapshot.py:178`: the snapshot of an atom that names sub-types is not restricted to them | `docs/architecture/playback.md:241` |
| `TapeUnknowableHome.cfg`, `TruncationIsPast` | `MCTape` | `derivations/truncated_tape.py:395`, `:418`: a reference of temporal class `slice_only` is dropped from the truncated table while the index beside it stays, resolved from the value the reference has in the emit. A record that pointed elsewhere at the instant shows the index of where it points now, beside no reference at all | `docs/architecture/derivations.md:803-808`: an index is derived from the reconstructed reference |

Met while modelling and kept as prose, because a run for each would say little more:

- Edits land in the middle of a tick (`app.py:303`), where `docs/architecture/mixer-control-plane.md:177` reads as if they applied between ticks. The safety properties hold regardless, which `scheduler_safety` shows.
- The first playing tick releases muted topics' events at its frontier (`scheduler.py:248` against the docstring at `:60`). `NoStreamLeadsFrontier` excepts exactly this tick.
- After a lag is raised the edge stays above the new ceiling (`scheduler.py:268` against `streaming-mixer.md:165`); it must, or positions would retreat.
- Meters are read field by field beside the loop (`app.py:189` against `mixer-control-plane.md:111`); what survives is `MeterLagNotNegative`.
- A full local queue raises `BufferError`, which is not one of the errors the command line turns into exit 1 (`sink.py:61` against `serve.py:98`): the model's exit code is `traceback`.
- Cancellation while an executor thread is between produce and poll: the event may still be delivered (`serve.py:208` against `mixer-control-plane.md:160`).
- The watermark is the last record's time, not a maximum (`consumer.py:325` against `mixer-consumer.md:77`): a topic that holds two runs makes it jump back. `WatermarksAdvance` is checked on a topic in time order.
- Pausing all topics beyond `max.poll.interval.ms` evicts the client (`source.py:124` against `mixer-consumer.md:68`).
- Before its first record a topic read from `latest` shows its whole end offset as lag (`source.py:174` against `:147`).
- The crash-recovery state is recognised by the label alone, so an edited configuration with the same anchor date is accepted there (`cursor.py:176` against `incremental.md:383-385`). It only replaces the unsettled window, so `SettledDropsWhole` is unaffected.
- A failing `rmtree` leaves staging behind (`driver.py:568` against `incremental.md:388`); it is hidden and overwritten.
- A README left stale by a crash cannot be told from a fresh one (`artifacts.py:130` against `companion-artifacts.md:322`).
- A directory whose visible drops were removed by hand while its hidden cursor file stayed counts as fresh. If the next invocation then dies between the rename of its window 0 and its cursor write, the one after it believes the old cursor and skips windows (`cursor.py:170` against `incremental.md:540`).
- A failing commit surfaces as DuckDB's own error (`duckdb.py:360` against `:315-316`); nothing of the window is kept, which is part of `Reconciled`.

Of the corrupters and the source exporter:

- A dropped or renamed column that the sidecar's partition lists breaks C14 undeclared (`schema_drift.py` against `manifest.py:38-40` and `corrupters.md:705`, `:1350`); an enum column retyped breaks C16. A column retyped to a type that does not round-trip, mutated, and retyped back keeps a C6 failure nobody declared. `FailuresDeclared` leaves `schema_drift` out for these reasons; `StructureKept` includes it.
- Freezing a series whose genesis an earlier shift moved breaks C13 undeclared (`corrupters.md:1352-1373` against `:696`); `FailuresDeclared` excepts that composition by name (`FrozenAfterShift`).
- The operations' mirror of C6 calls every NULL cell a failure, while a cell whose series ends in NULL passes: a defect may declare a C6 that does not fail. `FirstExact` allows exactly that.
- The last event of a series is found by comparing pairs of instant and value: two events of one instant, one of them NULL, have no order and the handler raises a `TypeError`. The model's outcome is `error`.
- A run that dies between `base.json` and `defects.json` leaves an emit without its manifest, which later runs refuse to replace. `OutputStands` says what does hold.
- Two sources of one item type whose `where` clauses are disjoint, over populations that share a counter, are refused although no two records can meet (`plan.py:2906-2937` against `source.md:535-547`): a refusal too many, not a wrong export.

Hazards that were looked at and have no property, because nothing in a model of the code could tell right from wrong: two `--next` at once on one directory share cursor and staging name (`incremental/driver.py:693`, locking is the operator's); the empty-file guarantee leaves the file of an earlier run in place (`streaming/driver.py:349`); a report that fails after the last event of an export is seen only by the flush (`kafka_sink.py:333`); no poll at all while every budget is zero (`mixer/source.py:124`, see above).

## 6. What is proved

Eight modules, checked by TLAPS to the last leaf, for every value of the constants that satisfies the modules' named assumptions. A theorem that needs more than those says so in its own `ASSUME`.

**`MixerRelease_proofs`**, the scheduler, from `TopicsAssumption`, `TapeAssumption`, `DialAssumption`.
`TypeCorrect`; `ReleasedIsConserved` (`NothingStranded`) and both together as `SchedulerIsSound` (`SchedulerInv`); `SchedulerImplementsStreams`. `TypeOK` alone is not inductive: `LoopShape` adds what a program counter implies (in `stamp` an event has been popped, outside the release half the index is in range). The conservation invariant is `Ledger`: the log of a topic is a prefix of its tape; the events in the released list come after it, in order and without repetition; each popped position is in the log, in the list, or in hand. The refinement is a corollary: only `Produce` changes a log, and by `Ledger` the head of the released list is that log's next event.

In its second half, *when* events are released: `StreamsNeverLead`, `TicksReleaseAll`, `MeterLagIsNatural`, `PositionsAreMonotone`, `PausesAreDiscarded`. The invariant `Timing` has five parts: edges lie under the frontier (`EdgesBelowFrontier`), the last popped event under its edge and the delivery edge equal to its time (`DeliveredBelowEdges`), a head is eligible only because this tick moved its edge, which is then under the ceiling of the dial this tick read (`EligibleUnderCeiling`), a meter's half-read edge is not ahead of the frontier it will be compared with (`MeterBehindFrontier`), and the loop's `delta` is the time since the last tick (`ClockInStep`). The third part is why an edit in the middle of a tick does no harm.

**`MixerRelease_proofs`**, the delivery, from the assumptions `MixerDelivery` makes of its constants.
`TopicsKeepOrder` (`OrderKept`): each topic holds the released events in order, without a gap the operator was not told of, through batching in the client, the executor thread between produce and poll, delivery reports that come late, cancellation and the closing flush. `RunsEndHonestly` (`EndsHonestly`): every client opened is closed, and the failure of a task is how the run ends. `OrderKept` speaks of what has reached a topic; whether the next arrival is in order depends on what the client still holds. `OrderInv` therefore adds `JobAtHand` (where the sink stands, given what the executor thread is doing), `EventsAccounted` (every event handed over is in the topic, in the client's queue, or reported failed), and `QueueInOrder`. `EndInv` adds `ClientsInStep`: which clients are open is a function of how far opening and closing have come.

**`MixerConsumer_proofs`**, from `ConsumerAssumption`.
`TypeCorrect` and `RatesAreLimits` (`PullsWithinCredit`, across rate edits that land beside the loop) hold for any logs. `TimeMovesOn` (`EventTimeAdvances`) and `RecordsAreAccounted` (`RecordsAccounted`, with the join counts) are proved under `OneTimeline`: what the instrument reads of a topic is in time order, because the topic holds one run or because `latest` skips the earlier one. The code needs that: a watermark is the last record's time and not the greatest (section 5). `PullInv` says that offsets, pending batches and the log agree (`OffsetsInStep`) and that what was pulled is a stretch of the log (`PulledInOrder`); `TimeInv` ties watermarks, the origin of event time and the windows to it (`WatermarkIsLast`, `OriginInStep`, `WindowsFollowGlobal`). Multiplication of a rate and an elapsed time, rounded down once per tick, is where the credit proof does its arithmetic (`CreditKept`).

**`Drip_proofs`**, the CSV drip, from `WindowAssumption`, `MarkAssumption`.
`TypeCorrect`, `SettledWindowsAreWhole`, `DrainedIsComplete`, `SettledStandStill`, `CsvImplementsDrip`, `DiskIsSound` (`DiskFollowsCursor`). `SettledDropsWhole` is not inductive, since why the cursor may move is known only from where the invocation stands. `IInv` adds `JobFollowsCursor` (before it touches the cursor an invocation repeats or follows it), `JobInPlace` (what is in staging before the rename and on disk before the cursor moves), `CursorNotFresh` (a directory with a cursor never looks fresh, so the drip never restarts over settled windows) and `Running`. What lies beyond the settled windows needs two parts more: `VisibleFollowsCursor` (no visible drop is more than one past the cursor, and while the cursor is torn, past the window whose invocation is rewriting it) and `ManifestFollowsCursor` (a manifest is written only for a cursor that has moved, and is no newer than one being rewritten); without gaps below and with at most one drop above, the directory is contiguous. `MaxMishaps` is universally quantified here: there is no bound on interruptions in the theorems.

**`DripWarehouse_proofs`**, from `SpecsAssumption`, `DeliveryAssumption`, `BoundAssumption`, `HistoryAssumption`.
`TypeCorrect`, `WarehouseReconciled` (`Reconciled`), both together as `WarehouseIsSound` (`WarehouseInv`), `ForeignStands` (`ForeignUntouched`), `WarehouseImplementsDrip`. The heart is two lemmas on multisets: appending `end EXCEPT ALL start` to `start` gives `end` when no row is revised (`AppendOfDifference`), and deleting the keys of the difference before inserting it gives `end` when keys are unique at both horizons and none disappears (`UpsertOfDifference`). So `Reconciled` is not inductive: the merge of this window rests on the keys having been unique at the *last* one, which the code checks only for the end horizon of each window. `UniqueKeys` carries that over, `JobIsNext` says the running invocation applies the next window with the difference compiled for it, `TxHalfway` and `TxComplete` how far the open transaction has got. What an exporter computes is a parameter here: `HistoryAssumption` states what the delivery class of a table promises of it (an empty tape at the start, rows of an `append` table never revised, keys of an `upsert` table never removed), and nothing else is assumed. `MaxFailures` is unrestricted.

**`Drip_proofs`**, the windows, from `HourAssumption`, `CalendarAssumption`, `RunAssumption`.
`WindowsPartitionRun` (`WindowsCoverRun`) and `RangesReproduce` (`RangeReproducesWindow`), for every length of day and week, every calendar of months that repeats after a cycle, every offset change and origin. `derive_window` computes boundary `k` from boundary 0 each time, so the proof is about the recursive function `Boundary`. That the recursion has a solution is shown by chains of finite length (`ChainExists`, `ChainsAgree`, `BoundaryRecursion`); that wall times strictly increase along it by `BoundariesIncrease`, over the arithmetic of days and months (`ComesRound`, `NextStartIsLater`, `LaterDay`). Each is an induction over naturals, carried out as a least counterexample (`LeastNatural`), since the library's induction rules cannot be instantiated here. A tiling alone is not inductive: `WindowsAreDerived` remembers which index each window was derived from. What `_instant_to_ns_offset` subtracts are wall times of one zone, so the offsets cancel (`WindowIsEdges`), which is why the windows tile and, see section 5, why they are not physical durations.

**`StreamPlayback_proofs`**, from `DomainAssumption`, `TapeAssumption`, `ConfigAssumption`.
`SeekIsReplay` (`SeekAgrees`): wherever a consumer joined and however it cut its asks, when an answer ends it holds what folding the whole play up to there gives, images included where the change scope covers what is shown. `NumbersAreContinuous` (`NumbersContinue`): the numbers it sees go up by one, inside an answer, from snapshot to events and from one ask to the next. Neither is inductive, since both say nothing of the middle of an answer. `PlayInv` compares what the consumer holds with the tape, event by event: during the snapshot (`SnapshotInv`) each key holds its row or what it held; during the events (`LiveInv`) what was pulled is an initial stretch of the ask in merge order (`PlayedInOrder`), each key holds the image of its last event pulled or what it held at the start (`LiveFolded`), and the number is the count of events so far (`Numbered`); between asks everything is settled (`IdleInv`). Two facts about the tape join the pieces: the last event of a key before a position decides what the snapshot there shows (`LastDecides`), and nothing changes for a key between two positions without an event of it (`SameThrough`).

**`Corrupters_proofs`**, from `WorldsAssumption`: the source is tables as DuckDB holds them (columns with different names, rows over just these, a category the sidecar's reader admits, the branch in every row and an integer `record_index` in every record). What else an emit must be, `Begin` checks.
`EmitsStandWhole` (`OutputStands`): what `apply_corrupters` leaves on disk, for every source emit (`Worlds`), every number of operations and draws, and wherever a run dies, fails or is repeated on one directory. `EmitsAreWhole` is not inductive: that opening the database overwrites nothing is known only from the check of the directory made before the first operation, and what stands after the next file from how far the run has got. `AtWork` carries both; `PerformWritesNothing` and `OperationWritesNothing` show that none of the sixteen operation steps touches the directory. It needs no assumption.
`FrameStands` (`FrameKept`): structural preservation, for any number of operations in any order on any emit the engine accepts; the run composes two. That the checks C1 to C5, C8 and C15 pass says too little of one state to bring the next one there. The invariant `Framed` speaks of each table of the working set: it is a table with the columns of its layout (`Layout`), every row is of the source's branch, the mark of a records table is at or above every `record_index` there is or was (`Indexed`), and every record of the source is there still or has left a tombstone (`Remembered`). The last two are what makes a phantom new (`InsertRowNew`). Ten of the twelve operations never write a cell of `fork_path`, `record_id` or `record_index` (`FrameColumns`): each of their handlers is shown to give every row it leaves the frame of a row there was (`Carried`) and to lose no record without a tombstone (`Accounted`), and `CarriedFramed` does the rest. `insert_rows` appends one row that takes the next mark (`InsertRowFramed`). `schema_drift` changes columns: it never touches a column of a layout or a reference (`TouchedIsPayload`), those it touches keep their family, and so the pinned prefix, and each reference beside its sibling, survive the columns that go (`FirmPrefix`, `BlockEvolves`, `RecordsEvolves`), while different names stay different (`EvolvedNames`). Under all this lies what it means to keep some rows of a table in order (`AscendingFacts`, `OnlyFacts`).

**`Tape_proofs`**, from `TapeAssumption` and, where the exporter comes in, `SourceAssumption`: the emit before the first instant is a conformant one of one branch, in the terms `docs/architecture/derivations.md` states as relied on (`IsTape`), `claims` name only kinds that have surrogates, a configuration elects one of the three surfaces there are, an identity column has one of the types `contract/base-format.md` gives it, and every record is of a sub-type the sidecar lists. About the past the assumption adds what the same guarantees say of the first emit: its cells are what its history says (`PastTold`), a reference names a kind and has its index beside it (`ReferencesLaid`), and the text of a tracked value reads back as the value (`ValuesReadBack`).
`TapeConforms`: every step of the producer, and `CorruptionConforms`: a duplicated surrogate too, leave an emit that is an `IsTape`. Every step writes one table and appends to `history` (`After`), so one lemma says what that does to each part of `IsTape` (`AfterTape`), and a second what changing cells of one record does (`UpdatedTape`); what is left per step is which cells it writes. Births are where the parts depend on each other: the new record's history begins with it, for each tracked property.
`DerivationsHold` (`DerivationsAgree`): for every tape and every instant of it, each derivation for the instant is the same derivation run to the end of the truncated tape, and the versions of a record tile its life and have the values of its states. It is about one emit, so all the induction it needs is `IsTape`. The argument goes by table: what `truncated_tape.py` keeps of records, history and memberships, cell by cell (`CutRecords`, `CutHistory`, `CutMembers`); a value as of an instant is that of the last row of its series by then, and cutting the series later changes nothing (`AsOfLast`, `CutAsOf`); then one lemma for each fold (`StateCut`, `EventsCut`, `VersionsCut`, `MembersCut`, `MemberEventsCut`, `IndexCut`, `PresentationCut`), in which its inclusive or exclusive bound meets the truncation's. `OneVersion` and `VersionsAgree` are the tiling: the boundaries of a record's versions are its creation and the instants of its series, so exactly one version is over an instant of its life.
`IdentityKept` (`IdentityIsKey`): the identity column of a table an accepted plan exports is never NULL and never twice the same. The invariant is `KeysOf`: no step changes the sidecar's claims, sub-types or columns, and every flat kind has surrogates of its own. For a record id and an index the tape says so; a surrogate of a kind with sub-types is unique because the guard read the data of the very populations the table selects (`SurrogateKey`: filter and spine agree); a surrogate of a flat kind is unique because the producer mints it so. The theorem therefore assumes that only kinds with sub-types are corrupted, and the finding `source_guard` is the counterexample without that.
`ReferencesJoin` (`TablesJoin`): a reference exported anywhere reads as the identity its target has in its own table. The two are computed apart: the identity column joins a relation of one surface, the edge joins the texts of every population under the surface of each (`Translation`), casts them back to one type (`RenderedType`) or skips the join where only record ids are elected. The invariant is `TypesOf`: no step changes a column of a records table, and every record is of a listed sub-type. Then a selected record is of a population the table addresses (`SelectedPopulation`: filter and spine again), its identity is the one elected for that population (`TableIdentity`), and the text of a value of a type an identity has is cast back without loss (`CastBack`, `EdgeReads`). `StateJoins` and `JunctionJoins` find the edge of each column. No hypothesis on what is corrupted: a duplicated surrogate is duplicated at both ends.
`TruncationKeepsPast` (`TruncationIsPast`): for every tape and every earlier instant of it, the truncated tape has in every table the rows, columns and cells the producer would have handed over then, the columns with an unknowable past aside. It is proved under `ReferencesKnown` (every property has a temporal class, and a reference is constant or tracked and is not the discriminator); the tapes of `Tape.cfg` satisfy it, and without it the statement is false, see `TapeUnknowableHome.cfg` in section 5. This one compares two emits, so `IsTape` of the last one is not enough. `PastKept` says of the emit of every past instant that it is a tape, that it has the columns of the present one (`SameForm`), that it tells its own past (`PastTold`: each tracked cell is the text of the last row of its series read back, a record is active until it is deactivated, an index is the one of the record its reference names), and that the emit of now is that emit and what happened since (`Grown`): rows of history later than the instant, records created later, lives and stays that end later, cells of constants as they were. `PastTold` is what makes it inductive: the cell of then was written by a step, the cell of the truncated tape is folded from a history written much later, and only a tape whose cells agree with its history at every instant brings the two together. Each step is shown to tell what it writes (`BornPast`, `WritePast`, `DeactivatePast`, `EnterPast`, `ExitPast`, one for each action of the producer) and to grow the emit by what is of its own instant only, after which growth composes (`GrownTrans`). `TapePast` then compares table by table, with `CutRecords`, `CutHistory` and `CutMembers` as before.

Checked by TLC only:

- liveness (`DrainsWhenPlayed`, `FailureShutsDown`, `CatchesUp`, `Recovers`, `Finishes`): temporal reasoning under fairness and ENABLED are outside what the prover does;
- that the manifest declares what fails (`FailuresDeclared`, `FirstExact`): `Failing` is sixteen rules over the whole emit, and the invariant would have to follow each of them through each of the sixteen handlers;
- that the truncated tape passes the sixteen checks of conformance, and the replay of a playback (`PlaybackAgrees`), which counts occurrences and sorts by merge keys;
- what the log says (`LogIsSound`, `LogMatchesTables`, `WindowsReproduce`): its entries are collected by folds over a `LAMBDA` (`MemberChanges`) and ordered by keys of unequal length, and its claims are about counts of them.

## 7. Not modelled

- **Pacer** (`pacer.py`): its one decision is how long to sleep between two events. The scheduler that paces with state which is edited while it runs is the mixer's. Known there: the idle cap shortens the schedule, not one sleep (`pacer.py:155`).
- **Stream driver, line sinks, export-mode Kafka sink**: one thread, one loop, nothing retried or resumed. Known there: an aborted run leaves prefixes that look finished (`streaming/driver.py:230`), a topic just created is not in the metadata yet (`kafka_sink.py:190`).
- **Stream renderings, routing and configuration, shaped playback's wire formats**: stateless functions whose content is text.
- **Compare**: a multiset difference evaluated by the database; `EXCEPT ALL` itself is modelled, and proved about, in `DripWarehouse`.
- **Dataset fetch**: download, hash, extraction in sequence. Known there: with `--force` the old target goes before the new one is extracted (`fetch.py:116`).
- **Base exporter**: the sibling of the source exporter without a log and without horizons. It uses the same election, guards and translation relations, one query per table.
- **Dimensional exporter**: its delivery classes and keys are the constants of `DripWarehouse`; the SQL of its shapes, its date dimension and its supplements are generated text. `VersionedIntervals`, on which its type-2 tables rest, is in `Derivations`.
- **`source/init.py`, descriptions, notices**: propose or annotate a configuration; the plan that accepts or refuses one is modelled.
- **Reader**: JSON and Parquet parsing, observation of enum domains, documentation blocks.
- **Rebalances** with a second member of the consumer's group: `paused_topics` is stale after one (`mixer/source.py:106`), and a cancelled pull polls on while the consumer is closed (`:260`), both up to the client library.
- **Two processes** on one drip directory, see section 5.
- **One composition of scheduler, sink and consumer** in a single state space. They meet in the order of a topic: `ImplementsStreams` and `OrderKept` establish it, `MixerConsumer` assumes it of `Broker`.
- **SQL helpers, command-line parsing, fingerprint digest, frontend, examples**: no state and no order.
