# civic-ai-relay: a TLA+ verification project

civic-ai-relay is a gateway between client applications and AI providers. It
authenticates a client key, admits the request against concurrency limits, rates
and quotas, reserves tokens and money in a SQLite ledger, forwards the request,
streams the answer back and settles the reservation. This project models the parts
of it whose correctness depends on the order of events, checks them with TLC and
proves the central results with TLAPS. `PROJECT.json` holds the machine-readable
side: components, runs, mutants, the map from definitions to source lines,
findings, hazards and theorems.

Contents: 1 inventory, 2 modules and their correspondence to the code, 3 runs and
bounds, 4 fairness, 5 proofs, 6 findings, 7 what is not modelled, 8 plan.

## 1. Inventory

| Component | State it keeps | Operations | What makes it correct |
|---|---|---|---|
| Gates (`relay/limits.go`) | a counter per `Gate`; a map of reference-counted gates per key | `TryAcquire`, `Release`, `SetLimit` | exact counters, one gate per key, no gate kept for nothing |
| Admission and lease (`relay/service.go`, `active.go`) | active ids, upstream handles, draining flag; per lease a mutex, a frozen outcome, `settled`, `releaseOnce` | `Begin`, `Lease.Close`, `BeginDraining`, `CancelActive` | what is acquired is released once, whatever fails |
| Settlement (`relay/settlement.go`, `reconcile.go`, `store/settlement.go`) | pending leases; ledger rows | `settleWithRetry`, `Reconciler.RunOnce`, `FinishReservation` | one bill per request, as first decided, despite retries and lost commits |
| Recovery (`store/maintenance.go`) | ledger rows | `ReapOrphanReservations`, at start-up for all rows and in maintenance for old ones | only rows without an owner are recovered, and all of those are |
| Ledger and quotas (`store/ledger.go`) | `requests`, `key_reservations` | `ReserveRequest`, `Prune`, the cascade of deletions, `GroupOverview`, `SeedGroupQuotas` | no window exceeds its limit by more than the declared overdraft; refusals end with their window |
| Streaming (`httpapi/stream_session.go`, `public.go`, `responses.go`, `upstream/options.go`, `sse_reader.go`, `terminal.go`) | a channel of one result, contexts, body, timers | `newStreamSession`, `produce`, `Next`, `Close`, `PrepareStream`, `timedBody.Read` | frames in order, honest verdict, nothing leaks, every stream ends |
| Lifecycle (`cmd/civic-relay/main.go`) | maintenance goroutine, tracked handlers | `buildApplication`, `startMaintenance`, `Application.Close`, `drainSettlements` | the Store outlives its users, shutdown terminates |
| Configuration (`config/*.go`, part of `admin.go`, `main.go`) | `relay.env`, the snapshot in memory, group quotas | save, hot application, bootstrap, seeding | a stop between two writes is completed by the next start, what was saved is what the next start reads, what waits for a restart is announced |
| Client keys, groups, models, providers (`store/keys.go`, `models.go`, `providers.go`, `relay/providers.go`, `sync.go`) | their tables, the cache of upstream clients | create, update, rotate, regroup, delete, import, sync, evict | no stale client is kept, no retired token comes back, a running request keeps its rows, only an edit publishes a model |
| Monitor (`relay/monitor.go`, `store/monitor.go`) | probe results | `RunOnce`, pruning | it calls a group unusable exactly when its keys are offered nothing |
| Plugins (`plugin/manager.go`, `store/plugins.go`) | a row and a directory per plugin | install, enable, start, stop, delete | the recorded status matches what ran |
| Pricing (`store/ledger.go`, `relay/service.go`) | none | `priceWithRate`, `ceilPrice`, `reserveAmount`, `applyRate`, `pricePart`, `PriceUsage` | no overflow, the price quoted is the price billed |
| Upstream clients (`upstream/client.go`, `native.go`) | per stream a translated body | `ChatJSON`, `Stream`, `requestNative`, `nativeSSEBody.Read` | an error or an early end of the upstream is reported as one |

**How they interact.** A handler goroutine calls `Begin` (global gate, key gate,
ledger transaction, registry), streams through a producer goroutine that shares a
channel, two contexts and the body with it, and ends in `Lease.Close`. If the
settlement fails, the lease moves from the active to the pending registry; one
maintenance goroutine reconciles pending leases and reaps reserved rows that are in
neither registry. Shutdown cancels streams, waits for handlers, reconciles from
the main goroutine next to maintenance, stops maintenance and closes the Store.
Administrators change channels, models, groups and keys at any moment, each edit a
read and a later write; the admission decision reads them inside the reservation
transaction, the client cache outside of it. Settings are saved to `relay.env` first
and applied to the running process second.

**What is hard.** Leases moving between two registries while the reaper reads them one
after the other; COMMITs that take effect and report an error; retries of what was already
done, by another goroutine; reference-counted gates deleted while a goroutine is between
map and gate; cancellation reaching a stream between connecting and publishing its body;
quota windows on boundaries, on a sliding clock, with rows that settle to something other
than what they reserved; retention and deletions of models taking what a quota is summed
from; a limit lowered while more than that is held; settings that requests took by value
long ago; edits that overlap each other, a cache fill or a rotation; three queries that
must agree on who may use what; files and database written one after the other at
start-up. `PROJECT.json` lists these as hazards, each at its line with the properties
aimed at it.

## 2. Modules

### KeySemaphore, KeyGates, KeyGatesProofs, MCKeyGates
`KeyGates` is `KeyGates.TryAcquire/Release/SetLimit` with the granularity the
mutexes give: `TakeRef` (map lock: find or create the entry, count a reference),
`AskGate` (the gate's own lock), `DropRef` (map lock again after a refusal),
`ReleaseSlot`, `ReleaseRef`. `heap` holds the `keyGate` objects, `gates` the map,
`ptr` the local pointer of a goroutine between the locks. `KeySemaphore` is the
promise: a counting semaphore per key.

### RequestBilling, Settlement, SettlementProofs, MCSettlement
`Settlement` follows each request through `Begin` and `Lease.Close`: `st` is its position,
`by` the owner of the lease's mutex, `frozen` the outcome decided once, `row` its ledger
rows (the `requests` and `key_reservations` rows are written in the same transactions and
form one value; deleting the key, the model or the provider of a request in flight
cascades to its reservation, and the trigger `prevent_active_reservation_delete`,
store/schema.go:204, refuses it). `active` and `pending` are the registries, `gActive`,
`gLimit` and `kActive` the gates, `todo` the snapshot of a `RunOnce` in progress, `reap`
and `seen` a reaper pass, `phase` the main goroutine. Every database call may succeed, be
refused, fail, or take effect and report failure. A crash wipes what is in memory
(`Wipe`); a restart recovers reserved rows. `Begin` sets the global gate to the limit of
the settings it has just read (relay/service.go:315), so every `Arrive` may set any of
`GlobalLimits`, an older one after a newer one included; `peak` is history, the largest
limit since the gate was last empty. Time is abstracted to a row becoming older than the
reaper's cutoff (`Age`, row value `"stale"`); `agers` are the rows the cutoff of the pass
in progress can reach. A row that ages while its request is still unregistered would need
`Begin` to stand still for longer than `MAX_STREAM_DURATION` plus the margin between two
statements; such rows do not age. `RequestBilling` is the promise: a ledger of open
entries, billed once as decided by their owner, or recovered when they have none.

### Quota, QuotaProofs, MCQuota
`Quota` is the decision of `ReserveRequest` as the conjunction of its checks (`Admitted`,
`GroupChecks`), each on a set of ledger rows (`fiveHourRows`, `dailyRows`, `periodRows`,
`weeklyRows`, `KeyRows`) written with the comparison its query makes. `created_at_utc` is
RFC3339Nano text, and some queries compare it as text: `TextLeq` is that order, where
within a second a value without a fraction sorts last. The five-hour query's upper bound
compares a number with a text, which SQLite always finds true, so `fiveHourRows` has no
upper bound. `Transition` is `periodQuotaTransition`: the row with which a custom period
was used up. `FinishReservation`, `Prune`, `UpdateModelGroup` and `SetKeyGroup` change
what the decision reads. So do deletions: `key_reservations` refers to its key and its
model with ON DELETE CASCADE (store/schema.go:70), so `DeleteModels` (a model, or a
provider with its models) and `DeleteClientKey` take rows away unless one of them is in
flight, when the trigger of schema.go:204 refuses. The row of the request stays in
`requests`, which the rate counts; `kept` says that a request still has its row in
`key_reservations`. A deletion therefore gives back what these rows used, in the key's
total and in the windows of the group, just as retention does: the bounds are about the
rows the ledger has, and `forgotten` is history, the use that is gone. Deleting a group
(`DeleteModelGroup`) unbinds its keys, which is `SetKeyGroup` to `None`, and leaves the
rows. `RPM_LIMIT` is a constant here although it is hot applied: `RateBounded` is about
any stretch in which it does not change. Choices: one metric instead of tokens and
amounts, which pass identical checks; scaled time units (a day is a few ticks), with every
boundary a multiple of `Second`; a request starts at an instant with a fraction, and
`reservationMu` lets one request at a time read the clock, so a row is known by its
instant and `rows` is a function of it. `Used`, the SUM of the queries, counts the tokens
of the rows one by one, as pairs of a row and a number: a cardinality, about which the
library has theorems, where a recursive sum has none. `UpdateModelGroup` is one step here:
its read and its write are two statements, and the lost update this allows is a listed
hazard.

### StreamSession, StreamSessionProofs
One request after `Begin`. Streamed: the handler (`PublicHandler.stream`, or
`responsesStream` when `bridge`), the producer goroutine, the upstream body. Not
streamed (`json`): the handler alone in `Service.Chat`, which reads the answer as a
whole, settles and then writes it. `bridge`, `json` and `protocol` are chosen at the
start and never change. `hand` and `prod` are positions, `queue` the channel of capacity
one, `client` the request's context, `closed` the session's, `upctx` the upstream's,
`known` whether `PreparedStream.Cancel` can see the body, `handle` the entry
`CancelActive` uses. Frames are text, a length finish, another chunk, a comment,
`[DONE]` or malformed. Anthropic and Gemini upstreams send events instead, which
`translate` turns into frames the way `nativeSSEBody` does: malformed ones are dropped,
an error event is forwarded and fails the next read (`adapter`), `message_stop` becomes
`[DONE]`, and so does the end of the body. A select with several ready cases is a
disjunction; a write may fail at any time. `idle` and `readErr` keep the cause the way
`timedBody.Read` reports it. Frames the reader has buffered may still be delivered
after the body is closed. `fault` is a history variable: something really went wrong
upstream or the duration limit expired.

### Registry, RegistryProofs, MCRegistry
The tables `providers`, `models`, `groups` (with `group_providers`), `keys` and the
latest monitor `results`, and the cache `clients` of upstream clients under its mutex
`mu`. One SQL statement or transaction is a step, so an edit is two: `ReadRow`, then
`WriteProvider`, `WriteModel`, `WriteGroup` or `WriteKey`, which write back the columns
the code writes; a provider edit that changes address or key then evicts. `op` is the
call each administrator has under way, `job` the goroutine of each request (from
`authenticate` through `ChooseModel` and `ReserveRequest` to the client lookup and its
end), of the model syncer and of the monitor. The lookup is `forProvider` under its lock:
`LookupHit`, or `LookupRead` and `LookupInstall`. `Deletable` is the trigger and the
cascades that lead to it. Ids are rowids, reused by SQLite when the last row is deleted.
`retired` and `raced` are history variables: tokens that must be dead, and providers
whose credentials an overlapping edit put back (see 6).

### Configuration, ConfigurationProofs, MCConfiguration
`file` is `relay.env`, `bootstrap` the file with the first administrator key, `limits` the
groups' daily limit in the database, `settings` what the administrator's handler has.
`live` is what requests use: most settings they read from `config.Source`, which a save
replaces, but `Captured` are given by value to the upstream clients and to the server when
the application is built (main.go:75-80, 110), and a save leaves them. `announced` is
history: what `RestartOnlyChanges` named in the answers to the saves since the build.
Values are text, a plain number or a duration, and there is one setting for each parser of
`settings.go`; a parser returns the set of its results, empty when it refuses. `EnvMap` is
the way back. Start-up is `EnsureExisting` or `EnsureFresh`, `writeBootstrap`,
`buildApplication`, `SeedGroupQuotas`, `RewriteFile`; `Stop` may come between any two. A
save is `configSave`, `Persist`, `Apply`; all three are under one mutex. `known` and `due`
are history: keys that somebody has, and the limit each group should have.

### Pricing
The price of a request twice: the store's, which refuses what does not fit in 64 bits
(`priceWithRate`, `ceilPrice`, `reserveAmount`), and the service's, which computes in big
integers and saturates (`applyRate`, `pricePart`, `PriceUsage`). Operators and theorems,
no state and no run.

## 3. Runs

| Run | Question | Bounds and why they are enough |
|---|---|---|
| `key_gates` | exact counters, one gate per key, no gate left behind, refinement of the semaphore | 4 goroutines, 2 keys, 3 gate objects, limits 0 (clamped to 1) and 2, set to 1 and 3 while slots are held: a gate may be refused, deleted and recreated while two goroutines are between the locks |
| `settlement` | slots, queue, reaper, shutdown order; one bill, as decided; final rows stay; refinement | 3 requests, a global limit that each arrival sets to 1 or 2 (so it is lowered under two leases, and a third is refused or waits behind parked ones), a valid and a rejected outcome, 2 faults, each a database fault or a crash: one Close can lose a commit, be parked and be reconciled through another fault, or through a crash |
| `settlement_live` | slots return, rows end, shutdown ends | 2 requests for one key slot, 3 faults or crashes, under fairness; the limit stays, since nothing waits for it |
| `settlement_poison` | violation, see 6 | one rejected outcome, no fault needed |
| `quota_windows` | rate, five hours, day, period with its hand-over, key total, retention | 3 rows, two in flight, settling above and below what they reserved; two groups, each with a five-hour limit or with daily, weekly and period limits, the period of two days reaching into the next week; limits are lifted, the key is moved between the groups and out of them, models and the key are deleted, at any moment; the clock passes day and week boundaries and leaves the five-hour window; retention equals the period. Each limit is below the cost of one request, so three rows are enough to go beyond any bound |
| `quota_first_second`, `quota_retention` | violations, see 6 | the smallest instance that shows each |
| `stream` | delivery, verdict, billing, no leak; every request ends, at once after a cancellation | 3 frames, three upstream protocols, both client protocols, streamed or not: the channel full, one frame in the producer's hand and one with the handler |
| `stream_native` | violation, see 6 | an Anthropic upstream, 2 frames |
| `registry` | cache, retired tokens, rows of running requests, admission, publication, monitor | 2 administrators, 2 calls, 2 rows per table, 2 upstream models, one request, syncer and monitor; `FewAtOnce`: the calls made and the goroutines under way are at most 3 together, so two overlapping edits meet any one goroutine and one edit meets any two |
| `configuration` | saved settings survive, those not in force are announced, an administrator key is known, limits migrate once | no file, a file with and without an old limit; 3 saves or edits, one for each parser and its special values; a megabyte is 4 bytes, so that 6 bytes are not a whole number of them and 8 are |
| `configuration_body` | violation, see 6 | the same instance |

Every property of a passing run has a mutant in `PROJECT.json`: a plausible bug in
the modelled code, defined next to the operator it replaces, under which TLC finds
the property violated.

`Overdraft` in `Quota` is the bound the code's rule implies: a request is admitted
while anything is left, so the last one may exceed the limit by its whole charge, and
the other requests in flight may settle higher than they reserved.
The edits of this run only lift limits, since lowering one below what was used breaks a bound
at once, and rightly so; what start `UpdateModelGroup` gives a period is left to the proofs,
which allow every edit that the bound at hand survives.
`PruneKeepsWindows` is about a retention that covers the windows: `RETENTION_DAYS`
accepts any positive number, and a shorter one gives quota back early.
`DeliveredInOrder` and `BilledWasWritten` are about Chat streams; the bridge counts
text before it writes it, so a failed last write is billed there.

`CompletedIsWhole` is about the `[DONE]` or `response.completed` a client was given, and
holds; that the relay makes a `[DONE]` of any end of a native body is `AnswerIsWhole`,
which does not. `SavedSurvivesRestart` and `AnnouncedUntilRestart` leave out the body limit,
for which neither holds (`BodyLimitTakesEffect`, see 6), and `CacheCurrent` has its own
exception (`raced`). `AnnouncedUntilRestart` adds up the answers to all saves since the
build: one answer names only what its own save changed. `MonitorAgrees` is about the verdict
before the probes, at one moment; a round reports the rows it read at its start.

Deadlock checking is on in every run: `Settlement` always can crash, restart or
tick, `Configuration` can stop and start, `Registry`'s request, syncer and monitor start
again; `StreamSession` ends in an explicit terminal step.

## 4. Fairness

`Settlement!Fairness`: goroutines that can run do run (weak fairness of each request's
steps after it arrived, of each reconciliation and reaper step, of shutdown). A handler
reaches its `Close` because `MAX_STREAM_DURATION` (default 30 minutes) ends every upstream
call. The maintenance loop selects among tickers whose tick waits in a buffer, so starting
each job is strongly fair. Rows age, because time passes. `Restart` is the supervisor's.
Faults and crashes are bounded, which is what "the database recovers eventually" means
here; changes of the limit, arrivals, faults and crashes are not fair.

`StreamSession!LiveSpec`: weak fairness of what the relay's goroutines do without
waiting for the upstream (`ProducerRuns`, `HandlerStep`, which include a read that a
reported error or a closed body ends, and `Service.Chat` when its context or body has
ended), of the context's
`AfterFunc`, and of `DurationExpires`. The upstream owes nothing. `CancelEnds` does
not lean on the duration limit, since the context has already ended. With
`MAX_STREAM_DURATION=0` the limit does not exist and `StreamEnds` rests on the
header and idle timeouts instead, which the model has but does not make fair.

`Registry` and `Configuration` are checked for safety only: their calls end by themselves.

## 5. Proofs

Every safety property that a passing run checks, invariant or action property, and both
refinements are also proved, for arbitrary constants under the named assumptions of
the modules: `ProcsFinite`, `LimitsNat`, `NoneFresh` (KeyGates); `SettlementAssumption`
(finite requests, positive limits, outcome names distinct from ledger states);
`StreamAssumption` and `NoneAssumption` (no result is not a result);
`RegistryAssumption` (requests, syncer and monitor are distinct, provider rows have
their columns); `ConfigurationAssumption` (files hold values of the three kinds, a file
that exists has an administrator key, nobody puts the old limit back by hand);
`QuotaAssumption` (costs are positive and have a least one, charges and costs have a
greatest one, five hours and days are whole seconds, a week is whole days). TLC evaluates
all of them in the runs.

`KeyGatesProofs`
- `GatesCorrect`: `Spec => [](TypeOK /\ GateIsCurrent /\ CountsExact)`. The
  counters are cardinalities of sets of goroutines, so the argument needs that two
  keys never share an object and that only one goroutine at a time is between the two
  halves of a release (`GatesDisjoint`, `OneInRelease`, `IdleHasNoPointer`).
- `GatesDoNotPileUp`: the last user of a key removes its gate (`LastUserTakesGate`),
  because exact counters tell it that it is the last. A gate that `SetLimit` creates
  stays until somebody has used it.
- `GatesImplementSemaphore`: each step is a step of `KeySemaphore` on its key or a
  stutter.

`SettlementProofs`
- `SettlementSafe`: the safety invariants of the runs. The inductive invariant `Inv` is
  `TypeOK`, `SlotsExact`, `WithinLimit` and `Shape`. The properties alone are not
  inductive: that the queue is bounded although `Begin` lowers the limit under the leases
  needs `WithinLimit` (what the gate counts, and the limit in force, are within `peak`);
  that the reaper spares a live row needs `ReaperExcludes` (whatever it may still reap and
  is owned is in the ids it read, or will be when it reads the pending ids) and
  `Registered` (an owned lease is in a registry at every moment of its move); that a bill
  is as decided needs `OutcomeFrozen` and `RowFollows` (which rows a position allows);
  that slots are released once needs `OneCloser`; that the Store is unused when closed
  needs `PhaseOrder`.
- `FinalRowsStay`: no step rewrites a final row.
- `SettlementImplementsBilling`: every step is one of `RequestBilling` or a stutter, from
  the same invariant.

`Pricing`, for every natural `MaxInt64` and all natural prices, rates and token counts
- `ReservationDoesNotOverflow`: `ceilPrice`'s check implies that its product and its
  rounding fit.
- `PartIsCeil`: `pricePart` equals `ceilPrice` wherever the latter accepts.
- `QuoteIsReserved`: `applyRate` equals `priceWithRate` wherever the latter accepts.
- `SettlesWithinReserve`: with no more tokens than reserved, and cached tokens not dearer
  than others, the bill is at most the reservation plus one microyuan (cached and
  uncached tokens are rounded up apart), and fits in 64 bits. The argument is
  `CeilSplit` and the monotonicity of the products.

`StreamSessionProofs`
- `SessionSafe`: the type and the five safety properties of the run, for any number of
  frames. The inductive invariant has ten parts. `Modes`: what a streamed and a
  non-streamed request never have of each other. `Released`: who still owes the close of
  the body, the context and the handle at each position; `NothingLeaks` is its last
  position. `Sequenced`: the header passes through the channel before any frame. `Stops`:
  the loop ends with an error or the end of the stream, and the producer has then nothing
  more to send. `Causes`: every error on its way, in the producer's hand, in the channel or
  with the handler, has a cause upstream or a client that left; `FailedIsUpstreams` does not
  hold of the handler's state alone. `InOrder`: what was written, what is in the channel and
  what the producer holds are, in this order, what the upstream sent; `Prefixed` is what is
  left of that after the loop. `Ending`: a completed stream was given its end.

`RegistryProofs`
- `RegistrySafe`: cache, tokens, rows of running requests and monitor. `CacheCurrent` needs
  `Fetched`: what the holder of the cache's lock has read and not yet installed is current,
  or is excused by an eviction that must wait for that very lock, and that is why a fill
  that started before an edit does not outlive it. `RetiredTokensDead` needs `Tokens`:
  tokens are used by one key and are older than the counter they are drawn from.
  `ActiveRowsKept` rests on `Deletable`: each deletion either passes the trigger's condition
  for every row it cascades to or changes nothing. `MonitorAgrees` counts: a group has a
  positive number of priced models exactly if the set its keys are offered is not empty,
  for which the tables have to be finite.
- `AdmissionOffered` and `PublishingIsEditing`: the two action properties, one case for each
  step of each goroutine.

`ConfigurationProofs`
- `ConfigurationSafe`: the four properties of the run, through any sequence of starts,
  stops, saves and edits of the file. `Filed` says how far the start is and that only a
  serving process saves. `Migrating`: at every moment the limits that are due are the limits
  in the database, with the gaps filled from the file, so a stop between the two writes
  changes nothing. `Reachable`: the key in the file and the one in a save under way are in
  somebody's hands or in the bootstrap file. `Saved`: the file reads as the settings in
  memory, or as those of the save that has just been written, and what requests use differs
  from the settings only in what was announced (`Current`: a captured setting that a save
  changes is in its answer, one that it does not change was right before or was announced
  earlier). Its heart is the round trip
  `EachReadBack`, `WriteCarries`, `CarriedIsRead`: for each parser of `settings.go`, what
  `EnvMap` writes is read back as the value it was written for, whatever else the file holds.

`QuotaProofs`
- `QuotaSafe`: type and rate, under any edits, deletions and pruning: the rows of `requests`
  that the rate counts outlive the deletion of their key and model. The order of RFC3339Nano
  text is the order of time among instants with a fraction (`TextIsTime`).
- `WindowsBounded`: five hours, day and custom period, in every behaviour whose edits
  lower no limit, impose none and move no custom period (`NoLimitLowered`): lowering one
  below what was used breaks the bound at once, and rightly so. Raising and lifting
  limits, regrouping keys, pruning and deletions are all allowed. A bound on what is used
  is not inductive, because a reservation may settle higher than it reserved. The
  invariant bounds the worst case instead (`Worst`: every reservation in flight at the
  greatest charge), which settling can only lower. A reservation adds to it at most what
  `Overdraft` says, since there are at most `InFlight` others (`HeldBounded`,
  `FewInFlight`, `RoomInFlight`, `Admission`). For the period, `HandOver` shows that once
  it is used up, its rows before the one that did it are below the limit and its rows
  after it are counted by the week.
- `WeekBounded`: what the finding `quota_first_second` leaves of the weekly limit. In a
  group without a custom period, again while no limit is lowered, everything after the
  first second of a week is within the limit and the overdraft (`WeeklyAfterFirstSecond`):
  as text, the start of the week sorts after the other instants of its second and before
  every later one (`TextFromWhole`).
- `KeyTotal`: what the ledger has of a key is within its total and one overdraft, whatever
  groups it is moved between, however these are edited, and whatever is pruned or deleted.
- `KeyLife`: so is what the key used over its whole life, in every behaviour in which neither
  Prune nor a deletion takes use of the key from the ledger (`forgotten' = forgotten`).
  Otherwise it is false (`quota_retention`).
- `PruneKeeps`: `PruneKeepsWindows` under `CoveredByRetention`: the retention is at least a
  week, which is the default, and no shorter than five hours and a second or any custom
  period, and periods start on whole seconds. With equality, as in the run, it holds just
  so: Prune's cutoff compares text and may take up to a second too many, and windows start
  on whole seconds, which makes up for it (`Recent`).

Before they were proved, the inductive invariants were checked with TLC on the instances of the runs. Only
model-checked: the liveness properties (`SlotsReturned`, `EveryRowSettles`,
`ShutdownEnds`, `StreamEnds`, `CancelEnds`), because fairness and `ENABLED` are outside
the prover, and the counterexamples of section 6. The prover knows nothing of the
recursive definitions of the sequence modules, so the definitions used in proofs are
written with quantifiers and indices.

## 6. Findings

- `settlement_poison`: an outcome that `FinishReservation` rejects as invalid (negative
  token counts from an upstream's usage report) parks its lease for the life of the
  process, with its slots and its reservation.
- `quota_first_second`: the weekly query compares text, so rows of the first second of a
  week (and of the second a period ends) are not counted.
- `quota_retention`: a key's total quota is summed from rows that retention deletes, so over
  its life a key uses more than its total (`KeyLifeBounded`). Deleting a model or a provider
  takes such rows as well (store/schema.go:71), whatever the retention.

- `stream_native`: the end of an Anthropic body before `message_stop` is delivered as
  `[DONE]` and settled as completed, although an early EOF is documented as an
  interruption.
- `configuration_body`: once `relay.env` has a `MAX_BODY_BYTES`, a body limit saved in whole
  megabytes never takes effect. `EnvMap` writes it as `MAX_BODY_MB`, `Write` keeps the old
  line (config/store.go:214), `bodyBytes` prefers that at the next start
  (config/settings.go:410), and the running server has its limit from the build. README.md:33
  says that saved settings are hot applied, httpapi/admin.go:32 that a restart does not lose
  them.

Observed while modelling, without a run of its own:

- After a custom period longer than a week is used up, the weekly window starts at the
  hand-over, as README.md says, and so does not rotate on Monday until the period ends.
- Two overlapping edits of a provider: the later write puts back the credentials it has
  read, and if its own patch touches neither it does not evict, so a client built in
  between stays cached (`raced`). The same holds when the UPDATE takes effect and reports
  an error. In general, of two overlapping edits of a row one may be lost.
- `forProvider` reads the row and the key in two statements, so a client may mix old and
  new until the eviction that follows the edit.
- Malformed events of a native upstream are dropped, those of a Chat upstream fail the
  stream. A Gemini `totalTokenCount` below the prompt count gives a negative output, which
  `settlement_poison` shows the consequence of.
- A non-streamed answer is settled before it is written to the client.
- The comment at relay/monitor.go:45 says that one group's error does not affect the
  others; `RunOnce` returns at the first group it cannot save.
- `MaxBodyBytes`, `MemoryLimitMB` and `PluginDir` are captured at start-up (main.go:93, 108,
  110) but are not among the settings reported as needing a restart; README.md:33 counts the
  memory limit among those in force at once.
- Lowering `GLOBAL_CONCURRENCY_LIMIT` takes no lease back: more than the new limit may be
  held or parked until they end (`QueueBounded` is about the largest limit since the gate
  was empty).
- On Windows `replaceFile` removes `relay.env` before it renames the new one.
- Plugins: `Stop` records "enabled" whatever the flag says, and `Start` records its result
  after a `Disable` that came meanwhile.

## 7. Not modelled

The conversion of payloads and catalogues between provider formats, SQLite itself and its
migrations, reports, logs and request metadata, encryption, CORS, the admin page, scripts
and packaging: input/output, formatting or library code without an ordering question.
Token estimation is a choice among costs. Of the configuration, the quoting of the file
and redaction; of quotas, `GroupOverview` and the deletion of groups; of keys, expiry and
public app ids; of the monitor, pruning and latencies. Plugins: no other component reads
what their operations write, and a run of a plugin is bounded by its own timeout.

## 8. Plan

Done: KeyGates, Settlement with RequestBilling, Quota, StreamSession with native
upstreams and non-streamed requests, Registry, Configuration, Pricing; proofs of all
safety properties and of the two refinements. Left, in this order:

1. Composition: `StreamSession` under `Settlement`'s lifecycle, so that shutdown with
   live streams is one model.
2. `Plugins`, if other components come to depend on them.
