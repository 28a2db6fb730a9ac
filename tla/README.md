# Verification of the seat reservation engine

TLA+ models of the reservation engine of TransityTerminal (`src/engine/`, Rust): what it
promises about seats, how its transactions keep that promise, what its HTTP layer adds, and how
its fleet comes into service. TLC checks the models on small instances; TLAPS proves the safety
properties that hold for every instance, and that the transactions implement the ledger and the ledger
its contract.

Line numbers refer to the files under `src/engine/`; `core/` abbreviates
`crates/engine-core/src/`, `server/` abbreviates `crates/engine-server/src/`.

## The system

A fleet of stateless engine processes sits between TransityTerminal (TT) and one PostgreSQL
database. Everything that lasts is in that database; the processes meet only there.

| Component | State | Operations | Correct when |
|---|---|---|---|
| Tables (`migrations/`, SQL in `core/*.rs`) | `seat_inventory` (booked, hold_ref), `seat_holds` (booking_id, created_at, expires_at) | the statements of the operations below, the snapshot query (`core/snapshot.rs`) | no orphaned reference, no row both booked and held, no leg sold twice, the seat map shows each hold whole |
| Reservation operations (`core/hold.rs`, `confirm.rs`, `release.rs`, `cancel.rs`) | none of their own: a transaction and its row locks | hold, confirm, release, cancel-seats | each takes effect at once or not at all; what was checked is still true when written; every request is answered |
| Reaper (`core/reaper.rs`, `server/reaper_task.rs`) | PostgreSQL advisory lock held by a session | try lock, purge audit rows, select a batch, free and delete it, unlock | one at a time in the fleet; only expired active holds; expired holds do end; audit rows outlive their retention |
| Idempotency layer (`server/middleware/idempotency.rs`) | `engine_idempotency_cache` | lookup, store, sweep | a replay is the response to that very request; a live entry never changes; a key runs once |
| HTTP handlers (`server/routes.rs`, `server/error.rs`) | none | map a result to a status | the status decides what is cached |
| Events (`core/events.rs`) | none in the engine; events in flight in Redis pub/sub | publish after commit | every change is announced after it was made, for all its legs; a release's events come in their order |
| HMAC (`server/middleware/hmac.rs`) | none | guards on one request | only fresh, signed requests of known services pass; with the idempotency layer, a request is carried out at most once |
| Boot and configuration (`server/main.rs`, `config.rs`, `migrations/`) | `_sqlx_migrations`, `engine_schema_meta` | read the configuration, migrate under a lock, probe the schema, check the version, spawn reaper and sweep, listen | an engine begins to serve only a schema it knows, and keeps it; the newest release does come up |
| Wire types (`core/types.rs`, `core/error.rs`) | none | serde | |
| Booking flow of TT (`docs/TRANSITY_TERMINAL_INTEGRATION.md`) | TT's own tables | N confirms per booking, compensation | all seats of a booking or none |
| Load test, deployment files | none | | |

How they interact:

- A write request passes HMAC, then the idempotency layer (lookup), the handler (one
  transaction), the idempotency layer again (store), and the handler's event goes to Redis after
  its commit. Lookup, transaction and store are three separate database round trips.
- Handlers of all processes share the two tables. They are kept apart by row locks
  (`SELECT ... FOR UPDATE`, and the locks any `UPDATE` or `DELETE` takes) that are released at
  commit or rollback. A hold takes no lock in `seat_holds`; a cancel never reads it.
- The reaper of every process runs at an interval; `pg_try_advisory_lock` lets one in. It
  shares the tables with the handlers and skips the holds they have locked.
- Nothing is kept in memory between requests, so a restart loses only requests in flight.

What is hard about it: interleavings of lock waits and `READ COMMITTED` rechecks; deadlocks
between statements that lock rows in different orders; `now()` being the start of a
transaction that then waits; expiry racing confirm and release; a cancel that names seats
while holds name references; a client or process that goes away between any two statements; a
session that keeps the advisory lock; duplicates that overlap in the idempotency layer; a request
delivered late, after its retry; instances of two releases that migrate one database.
`PROJECT.json` lists every hazard with its line and the properties that watch it.

## Modules

```
SeatSale          what a caller sees of the seats: the contract
SeatTables        tables, statement effects, snapshot, table invariants
  |-- SeatLedger        one atomic action per operation
  |     |                 Sale == INSTANCE SeatSale, ImplementsSale
  |     `-- SeatLedgerProofs   theorems (TLAPS)
  |-- EngineTxn         the handlers and the reaper as transactions with locks
  |     |                 Ledger == INSTANCE SeatLedger, RefinesLedger
  |     `-- EngineTxnProofs    theorems (TLAPS), on SeatLedgerProofs
  |-- IdempotentApi     the HTTP layer around the ledger's actions
  |     |                 Ledger == INSTANCE SeatLedger
  |     `-- SignedApi          signed requests on an unreliable network
  |           `-- SignedApiProofs    theorems (TLAPS), on SeatLedgerProofs
  `-- Events            publishing after commits, a subscriber's seat map
        |                 Ledger == INSTANCE SeatLedger
        `-- EventsProofs       theorems (TLAPS), on SeatLedgerProofs
Boot              how instances of several releases come into service
  `-- BootProofs          theorems (TLAPS)
MCSeatLedger, MCEngineTxn, MCIdempotentApi, MCSignedApi, MCEvents, MCBoot
                  small instances for TLC
```

**SeatTables.** `inventory` maps the existing `<<seat, leg>>` rows to `[booked, hold_ref]`;
`holds` maps the references in `seat_holds` to their rows; `issued` remembers every
reference ever inserted (references are UUIDs and are not drawn twice); `now` is the database
clock. A seat stands for a `(trip_id, seat_no)` pair: every statement that names a seat names
both. Each statement that writes is one operator (`WriteHold`, `WriteBooking`, `FreeRowsOf`,
`DeleteHolds`, `ClearRows`, `PurgeHolds`), used by all the specifications. `Snapshot` is the
one read query, with its `LEFT JOIN`. The engine's clock is the database clock plus a member of
`Skews`, because `expires_at` of a hold and the purge cutoff are computed in Rust and
compared in SQL. Rows are seeded by TT, never by the engine, so they exist from the start, free;
`Rows` need not contain every seat and leg, which gives the incomplete inventory of `core/hold.rs`.

**SeatSale.** What callers can see and rely on: every row is free, held or booked (`status`), by which
hold (`holder`), and every hold is new, held, sold or gone (`phase`). `Take`, `Sell`, `Drop`, `Clear`
and `Forget` are what hold, confirm, release or expiry, cancel and purge do to that. There is no clock,
no table and no audit row in it. `SeatLedger` implements it under `Holder` and `Phase`, so the
chain is `EngineTxn` → `SeatLedger` → `SeatSale`, and both of its steps are proved.

**SeatLedger.** The tables' view of it. `Hold`, `Confirm`, `Release`, `Cancel`, `Reap`, `Purge`, `Tick`.
Two of its guards are weaker than a first reading suggests, because the implementation is:
a confirm has no test against the current time (its test is against the start of its own
transaction, which can precede the commit by any lock wait), and a hold can be inserted already
expired (its expiry is computed before it gets a connection and its row locks). What remains true
is that a confirm cannot have begun before the hold existed, so a hold that was dead on arrival
is never confirmed.

**EngineTxn.** One process per request handler and one per reaper task; `pc` is the statement a
process is about to run, `rowLock` and `holdLock` own the rows, `txNow` is `now()`.

| Place | Meaning | Actions |
|---|---|---|
| `begin` | a hold drew its reference and expiry and waits for a connection | `BeginHold` |
| `select` | the statement on `seat_holds` | `ConfirmMissing`, `ConfirmConsumed`, `ConfirmSelect`, `ReleaseMissing`, `ReleaseSelect`, `ReapNothing`, `ReapSelect` |
| `lock` | the statement on `seat_inventory`, acquiring its rows one by one | `AcquireRow`, then `HoldIncomplete`, `HoldConflict`, `HoldPasses` or a commit |
| `write` | a hold passed its checks | `HoldCommit` |
| `purge`, `unlock` | first and last statement of a reaper | `Purge`, `Unlock` |

A hold acquires rows in the order of `leg_index` (its `ORDER BY`), everybody else in any order
(an `UPDATE` locks in scan order). `DeadlockVictim` is PostgreSQL's detector. Failures are
`WorkerFails` (client gone, statement error, process dead: the handler is dropped, its
transaction rolled back), `ReaperFails` (a statement of the reaper fails: the error is kept until
after the unlock), `ReaperDies`, `UnlockFails` (the failing unlock is swallowed by
`unwrap_or(false)` and a pooled session keeps the lock) and `SessionEnds`.

Decisions on PostgreSQL and sqlx that the model makes:

- Isolation is `READ COMMITTED`. A statement that waited for a row sees it as the last committer
  left it, so a guard is read when the lock is free. An `UPDATE ... WHERE hold_ref = ...` skips
  a row that lost its reference while it waited; the model does not keep such a row locked.
- Writes become visible at commit and are made by the commit action; the rows they touch
  are locked until then, so no other process could have used them.
- A handler dropped after its commit is the same as one that committed: dropping loses
  the response only, which is `IdempotentApi`'s subject.
- The transaction of a dead session rolls back at once, releasing its row locks. Only the advisory
  lock can outlive its user (`Stale`), and a session that leaked it is not handed to a reaper
  again before it ends (a session can take an advisory lock it already owns).
- Waiting for a pool connection is part of the time a handler takes to begin. No operation
  waits for a second connection while it has one, so the pool itself cannot deadlock.

**IdempotentApi.** The lookup (`Replay`, `Mismatch`, `Miss`), the handler (one step of the ledger,
or a refusal, with its HTTP status) and the store (`Put`) are separate steps of each request; `Sweep`
deletes expired entries; `HandlerFails`, `PutFails`, `Dropped` are the failures. `ScopedKey`
is the hashed key: method and path stand for the endpoint and, where the path has
it, the reference. `ran` records the handlers that finished. Equality of body hashes is equality of
bodies. A handler takes time between its start (`since`) and its commit, because it waits for a connection and
for row locks: the expiry of a hold is computed at any time in between (`core/hold.rs:40`), and the transaction
of a confirm begins at any time in between, which is when the hold's expiry is tested (`core/confirm.rs:24`). So
a 201 can name an `expires_at` that is past already (`until`), and a confirm can commit after the expiry.

**SignedApi.** The same layer behind HMAC, for requests that carry the timestamp they were signed
with (`Signed`, as the load test's `sign` does it). `Deliver` hands any request signed so far to
any instance, whose clock decides whether it is `Verified`: late, repeated and reordered deliveries, and
retries signed anew, are all among its choices. Clients hold the secret and send well-formed
headers, so signature and header checks do not show; a refused request changes nothing. Three things are
assumed and visible: an entry outlives the accepted window with the clocks of all engines
and the time to the lookup in it (`SignedAssumption`: 60 seconds against 24 hours), a request is looked up, or
dropped, within `LookupTime` of the check of its timestamp (`SignedTick`), and
`OneRunPerKey` and `AtMostOnce` speak of keys whose requests did not overlap and whose response was
stored (`disturbed` records the others; findings 2 and 3 are about them). `LookupTime` is an assumption about the
deployment: the engine reads the body after it checked the timestamp (`server/middleware/hmac.rs:66`)
and sets no limit to that. Clients and proxies time out long before 24 hours; a body that took longer than its
entry lives would be carried out a second time.

**Events.** Each operation is a step of the ledger that leaves in `todo` the events its process
goes on to publish: one `inventory.updated` for a hold, a confirm or a cancel, the pair for a release,
one `holds.released` per hold for the reaper. `Publish` sends the next one, `PublishFails` drops it
and goes on (as `core/events.rs:83-91` does), `Dropped` loses all that are left. `channel` is Redis,
which delivers in order and keeps nothing for a subscriber that disconnects. The subscriber is
external: `view` is the seat map of one that re-reads the legs an event names (`holds.released`
names a seat, so all its legs). `lost` is the rows of which an event was lost and none
has arrived since. Lock waits are `EngineTxn`'s subject and left out, so holds are inserted at the time
they are asked for. Without `REDIS_URL` nothing is ever published; that configuration is not modelled.

**Boot.** `pc` is how far the `main` of an instance is: `config`, `migrate` (waiting for sqlx's lock),
`validate`, `apply`, `probe`, `marker`, `checked`, `started`, `serving`. A release is what it carries: its
last migration and the version it requires; the repository is one release (migrations 1 to 4, version
1), and the checks exist for the day there are two. The database is `applied` (`_sqlx_migrations`),
`schema` (each probed table absent, as expected, or other) and `version` (the marker, 0 without a row). `Apply` is
one migration in its transaction, `ApplyFails` one that meets a table without a column it indexes
or comments on. Every failed check is `ExitsAt`: the process ends, its session and lock with it, and
`Start` restarts it. `Crash` ends it anywhere, `Deploy` replaces its image by a newer or an older one.
The three probes are one step, because a table that is as expected stays so. The marker check (`MarkerPasses`), the start
of reaper and sweep (`StartTasks`) and the listener (`Serve`) are steps of their own: other instances can migrate the database
between them, and nothing looks again. sqlx's
part (the lock, refusing a database with unknown migrations, skipping applied ones, one
transaction each) is external and modelled by what it does.

## What is checked

| Run | Instance | Distinct states | Shows |
|---|---|---|---|
| `ledger` | 3 rows (one leg of one seat unseeded), 2 holds, 2 bookings, skew, time to 3 | 51 thousand | with cancels: no orphaned reference, no row booked and held, audit rows kept, a held row changes hands only with its hold; each transaction is a step of `SeatSale` |
| `engine` | 3 handlers, 1 reaper, journeys `{1,2}`, `{2,3}` and `{3}`, no cancels, 1 failure | 204 thousand | row locks prevent double sales; the seat map shows holds whole; a confirm books every leg of its hold; holds do not deadlock among themselves |
| `engine_faults` | 2 handlers, 2 reapers, cancels, an unseeded leg, 1 failure | 146 thousand | what was checked is still true when written; nobody waits for a lock that is never given up; one reaper at a time; the handlers and reapers implement the ledger |
| `engine_live` | 2 handlers, 1 reaper, 1 failure, fairness, no symmetry | 39 thousand | requests are answered; expired holds end once deadlocks cease |
| `signed` | 2 services, 2 overlapping requests with one key, refused bodies, late and repeated deliveries, slow bodies and handlers, 1 failure, entries that expire | 181 thousand | a key runs its handler once per lifetime of an entry, a signed request at most once; replays belong to the request; live entries stay; a stored response is found; what a handler answered stays true |
| `events` | 1 handler, 1 reaper with batches of 2, 2 seats, cancels, 1 failure, fairness | 396 thousand | the subscriber's map is current but for events under way or lost; every change is shown in the end, or its event was lost |
| `boot` | 3 instances (1 misconfigured), 2 releases, 3 initial databases, 2 image changes, 1 crash, fairness | 51 thousand | who serves keeps its tables and version; the marker never falls; nobody passes its checks on a later schema; the newest release serves in the end |
| `confirm_after_cancel` | as `ledger` | stops at the violation | finding 1 |
| `api_two_bodies` | 2 overlapping requests, two bodies | stops at the violation | finding 2 |
| `api_confirm_retry` | 1 request at a time, 1 failure | stops at the violation | finding 3 |
| `events_reaper_order` | as `events`, no failure | stops at the violation | finding 4 |
| `boot_empty_database` | 1 instance, no crash | stops at the violation | finding 5 |

The bounds and why they are enough. Conflicts in the engine are between two holds and a third
party, over rows: two references allow a hold to be replaced by another on the same rows, two rows
allow a partial overlap and two lock orders, three rows (`engine`) allow two journeys to share
exactly the middle one, and two holds of different expiry to live on one seat. A deadlock among holds needs two holds with two common rows or three in
a ring, hence three handlers there. `BatchLimit = 1` with two holds makes the reaper leave one
behind. `MaxTime` 1 (the runs of `EngineTxn`) is long enough for a hold of lifetime 1 to expire while
somebody works on it, and for another with a later expiry to live on the seat; 3 (`ledger`) lets an
audit row pass its retention of 1 under skewed clocks. In the runs of `EngineTxn` no audit row gets that
old: their purge deletes nothing, and what it does to the tables is checked in `ledger`, and proved of the transactions.
`MaxFaults` 1 allows a failure at any step. `MaxRuns` bounds the history of the HTTP layer: 2 handlers in `signed`
are the two runs of one key or one request that must not be, and 3 in the violations leave room for the hold a
confirm needs. In `signed` the accepted skew is 0, so a timestamp is accepted during one tick, on engines
whose clocks agree, and `LookupTime` is 1, so that a request accepted in its tick runs, expired holds and entries
included, a tick later; the theorems speak of any skew, clocks and `LookupTime`. All its requests carry a key; requests without one pass the idempotency
layer untouched, and only the proofs speak of them. `CacheTtl` 2 is the shortest lifetime the assumption allows,
and `MaxTime` 2 lets an entry end and its request come again.
`boot` needs one instance per release to race, a third that never starts, and two image changes to go up and back;
its next release is imagined: one migration more, version 2. `Kinds` drops endpoints from an instance; that is also how the condition "nobody cancels"
is stated. Every run has a property-violating mutant per property (`PROJECT.json`): an operator
marked `Slip:` in the modules is the code with a plausible mistake in it.

`MaxInFlight` lets no operation start while that many events are on their way; publishing itself
is never held up.

Every run but `engine_live`, `events` and `boot` checks safety only. **Fairness** (`FairSpec`): strong fairness of
each handler and each reaper, as PostgreSQL queues lock waiters, so that a lock which becomes
free again and again is granted in the end, tokio polls every task, and the reaper's interval never
stops; weak fairness of the deadlock detector and of the end of idle sessions
(sqlx recycles connections by age and idle time). No request has to arrive. In `Events`, publishing and reading are weakly fair: a handler awaits its
publishes right after the commit, and nothing can disable them. In `Boot`, every
instance goes on and is restarted (weakly fair), and gets the migration lock if it is free again and again (strongly fair: advisory
locks are queued); `NewestServes` assumes tables of the expected columns and that images stop changing. `ExpiredHoldsEnd`
assumes that deadlocks cease: without it TLC finds new requests that deadlock
with the reaper's update for ever, the reaper being the victim each time; its whole batch is then
rolled back and retried, and PostgreSQL gives it no claim to be spared. This is a
real, if unlikely, behaviour; the assumption is part of the property so that it is visible.
The clock stops at `MaxTime`, so liveness is about what happens after the last tick too.

## Findings

1. **A confirm can succeed without seats** (`confirm_after_cancel`). `cancel_booking_seats`
   (`core/cancel.rs:18`) clears `booked` and `hold_ref` of any row and does not read
   `seat_holds`; the hold stays confirmable, and `core/confirm.rs:57` books the rows that still
   carry the reference, here none, and reports success. `README.md:111` says "Confirm valid → booked
   + booking_id". The integration guide (line 373) sends cancels for bookings that are still pending.
2. **One key, two bodies, both carried out** (`api_two_bodies`). Nothing reserves the key
   between lookup and store, so two requests that overlap both miss. `server/middleware/idempotency.rs:4`
   says "Same key + different body → 409 Conflict".
3. **A confirm refused on its own retry** (`api_confirm_retry`). The store is a separate
   best-effort write after the commit; if the request is dropped or the write fails, the retry
   finds its own booking and gets `HOLD_ALREADY_CONSUMED`. The integration guide (line 338) says
   the confirm is idempotent per key for 24 hours.
4. **The reaper announces no `inventory.updated`** (`events_reaper_order`). `core/reaper.rs:52`
   publishes `holds.released` alone. `README.md:125` and the integration guide (lines 440, 445)
   promise `inventory.updated` first for every release, the reaper's included. A subscriber
   that refreshes legs on `inventory.updated` only keeps showing expired holds.

5. **An empty database is not refused** (`boot_empty_database`). The migrations run before the probes
   (`server/main.rs:43`) and `migrations/0001_init.sql:20,35` create the tables that are
   absent, so an engine pointed at an empty database passes every probe and serves without inventory. The
   comment on the probes (`server/main.rs:49-57`) names exactly this mistake and says "Any error →
   exit 1".

One more disagreement is about names and has no behaviour to check: the engine publishes on one channel,
`reservation.events` (`core/events.rs:11`, `README.md:118`), while the guide's table and its
subscriber (lines 436 to 457) use `engine.*` channels and two event types the engine does not have.

## What is proved

`SeatLedgerProofs` proves for every value of the constants that satisfies `TablesAssumption`
(references differ from NULL, bookings differ from NULL, rows are pairs of a seat and a leg,
clocks and lifetimes are integers):

| Theorem | Statement |
|---|---|
| `TypeCorrect` | `Spec => []TypeOK` |
| `NoOrphans` | `Spec => []NoOrphanHoldRef` |
| `NeverBookedAndHeld` | `Spec => []BookedNeverHeld` |
| `AuditTrail` | `Spec => AuditTrailKept` |
| `RowsFollow` | `Spec => RowsFollowTheirHold` |
| `SoldOnce` | where `"cancel" \notin Kinds`: `Spec => []NoDoubleSale` |
| `LedgerImplementsSale` | `Spec => ImplementsSale` |
| `SnapshotWhole` | where `"cancel" \notin Kinds`: `Spec => []SnapshotShowsHolds` |
| `ConfirmsBookAll` | where `"cancel" \notin Kinds`: `Spec => ConfirmBooksSeats` |

The argument has two inductive invariants. `RefInv` is `NoOrphanHoldRef` with `BookedNeverHeld`:
the first alone is not preserved by a confirm of a row that is booked already, and the second alone
not by a hold. It is enough for `NoOrphans`, `NeverBookedAndHeld` and `RowsFollow`; the last
also needs that freeing the rows of a reference frees exactly rows of that hold. `SaleInv` adds
`HoldsOwnTheirRows` and `NoDoubleSale`: two holds cannot overlap because a new hold finds its
rows free, and the rows of every older hold are not, being either referenced by it or booked. A cancel
breaks `HoldsOwnTheirRows`, and with it `NoDoubleSale` as stated (the confirmed hold stays in the table
as an audit row when its seat is sold again), hence the assumption. `ConfirmsBookAll` is
the other side of finding 1: `HoldsOwnTheirRows` after the step says that the rows of a confirmed hold, whose legs no step
alters (`HoldsKeepLegs`), are booked. `StepCases` splits a
step into the ledger's actions with the facts each gives, once, so that the other
proofs have one case per action; `RestrictedHolds` is the lemma on deleting rows from a table.
`LedgerImplementsSale` maps each action to its counterpart (`SaleHold` to `SalePurge`) with `RefInv` at hand:
a row that names no active hold would have a holder in the contract that no `Drop` or `Sell` finds.

`EventsProofs` proves, from `TablesAssumption` and `EventsAssumption` (finitely many references, disjoint
handlers and reapers):

| Theorem | Statement |
|---|---|
| `TypeCorrect` | `Spec => []TypeOK` |
| `ViewFollows` | `Spec => []ViewCurrent` |
| `QuietViewTrue` | without failures, a subscriber that has read all events shows the snapshot |

It first shows that every step of `Events` is a step of the ledger or leaves the tables alone
(`LedgerStep`), which carries `TypeOK` and `NoOrphanHoldRef` over from `SeatLedgerProofs`
(`LedgerInvariants`). `ViewCurrent` is inductive with these two: an operation changes no row
that its events do not name (`OperationAnnounced`, `ReapAnnounced`). That is where `NoOrphanHoldRef`
is needed: a confirm, release or reap changes rows found by reference, while its event names the seat and
legs in the hold, and only the invariant says that the former are among the latter. `QuietViewTrue` adds that only a
failure loses an event. The lemmas on
`NamedIn` say what a queue names after an append, or without its head.

`BootProofs` proves, from `BootAssumption` (migrations are numbered, a later one never sets a lower version):

| Theorem | Statement |
|---|---|
| `TypeCorrect` | `Spec => []TypeOK` |
| `ServesSound` | `Spec => []ServesOnItsTables` |
| `VersionRises` | `Spec => VersionNeverFalls` |
| `ChecksHold` | `Spec => PassesOnItsVersion` |

`BootInv` is inductive: who validates or applies holds the lock, so its list of missing migrations
stays true (`OneMigrates`); therefore the applied migrations have no gap and the marker is the highest
version among them (`Series`), which `ApplyKeeps` shows to survive a migration; and what an instance has
passed stays true (`Passed`). `ChecksHold` needs all of it: the guard compares the marker only, and
`Series` says that no migration of a later version can hide behind it. It speaks of the moment of the check. What a newer
release migrates afterwards, before or after the tasks start, is not excluded, and cannot be: of an instance in service
`ServesSound` says that the marker is not *below* its version.

`EngineTxnProofs` proves, from `TablesAssumption` and `EngineAssumption` (handlers, reapers and the values
for no owner are different; a list of legs is not empty and at least as long as the finite set of
its elements):

| Theorem | Statement |
|---|---|
| `TypeCorrect` | `Spec => []TypeOK` |
| `OneReaper` | `Spec => []SingleReaper` |
| `HoldsDoNotDeadlock` | `Spec => []HoldsNeverDeadlock` |
| `InvariantHolds` | `Spec => []EngineInv` |
| `ChecksHold` | `Spec => []CheckedStillTrue` |
| `EngineImplementsLedger` | `Spec => RefinesLedger` |
| `EngineKeepsContract` | `Spec => L!ImplementsSale` |
| `NoOrphans`, `NeverBookedAndHeld` | `Spec => []NoOrphanHoldRef`, `Spec => []BookedNeverHeld` |
| `AuditTrail`, `RowsFollow` | `Spec => L!AuditTrailKept`, `Spec => L!RowsFollowTheirHold` |
| `SoldOnce` | where `"cancel" \notin Kinds`: `Spec => []NoDoubleSale` |
| `SnapshotWhole` | where `"cancel" \notin Kinds`: `Spec => []SnapshotShowsHolds` |
| `ConfirmsBookAll` | where `"cancel" \notin Kinds`: `Spec => ConfirmsBookSeats` |
| `NobodyStuck` | for finitely many processes: `Spec => []NeverStuck` |

What a handler checked is a fact about rows it has locked, so `CheckedStillTrue` is not inductive: it
does not say who has the locks. `EngineInv` does, in nine parts:

- `PlacesFit`: which requests can be at which statement. Every other part depends on it.
- `AdvisoryHeld`: a reaper at work has the advisory lock. `SingleReaper` follows, because a lock that
  its dead owner left behind is `Stale` and is nobody's.
- `LocksInTxn`, `LegOrder`: row locks exist from the row statement on, and a hold has locked only legs below
  all those it still misses. `HoldsNeverDeadlock` follows: of a set of holds that wait for each other, those
  that wait for a leg above a given one also wait for each other, so no such set is minimal. This needs no
  bound on the number of holds.
- `RefsFit`: the reference of a hold in flight is new and its own.
- `SelectedHeld`: who selected holds has locked them, and they are as selected: active, for a confirm not expired
  at its `now()`, for the reaper expired and no more than a batch.
- `PassedHeld`: a hold that passed its checks has found as many rows as it has legs, all of them locked and free.
- `HoldAsked`: a hold still has legs and an expiry it was asked with.
- `TimesFit`: no transaction starts and no hold is created in the future, and a confirm starts after its
  hold was created. Without it a hold that was dead on arrival could be confirmed.

`EngineSteps` sorts the steps into a few kinds, and one `...Frame` lemma per kind says that a step touches the
control state and the locks of its own process only (`OthersKept`). A part of the invariant is then proved by looking
at one process against the tables, which change only under the locks of the process that writes.
For `EngineImplementsLedger`, `WritesLedger` maps each committing action to the ledger's action. The
hold is the interesting one: `hold.rs` compares the number of rows it found with the length of the
list it was given. `CompleteHold` proves that equality of the two gives the ledger's guard, every leg has its row,
because the list is at least as long as its set. `NoOrphans` to `ConfirmsBookAll`, and `EngineKeepsContract`, carry what `SeatLedgerProofs` (`L`) shows
of the ledger over to the transactions, the contract `SeatSale` included.

`NobodyStuck` is the safety half of `RequestsAnswered`. Take some processes that wait. If each waits for another of
them, a smallest set of this kind is a cycle (`WaitersCycle`; this is where there must be finitely many processes). If one
of them waits for none of them, its blocker has a lock, and so is at its row statement or past it (`LocksInTxn` for
rows, `HoldLocksInTxn` for holds, which is one more inductive invariant); there it waits in turn, has all its rows,
or has a free row to take (`WaitsOrGoesOn`). The last needs that a hold which misses rows misses a lowest
one, that is, that it asked for finitely many legs (`HasNextRow`).

`SignedApiProofs` proves, from `TablesAssumption`, `ApiAssumption` and `SignedAssumption` (an entry's
lifetime exceeds twice the accepted skew, what the engines' clocks differ by and `LookupTime`):

| Theorem | Statement |
|---|---|
| `TypeCorrect` | `SignedSpec => []TypeOK` |
| `ApiKeepsContract` | `SignedSpec => L!ImplementsSale` |
| `LiveEntriesStay` | `SignedSpec => LiveEntryKept` |
| `StoresAreFound` | `SignedSpec => StoredIsFound` |
| `ReplaysOwn` | `SignedSpec => ReplayIsOwnResponse` |
| `InvariantHolds` | `SignedSpec => []SignedInv` |
| `KeyRunsOnce` | `SignedSpec => []OneRunPerKey` |
| `RequestRunsOnce` | `SignedSpec => []AtMostOnce` |
| `AnswersStayTrue` | `SignedSpec => []AnswersStand` |
| `HoldsEndOnce` | `SignedSpec => []EachHoldOnce`: no two handlers report the same hold made, or its end |

`OneRunPerKey` speaks of runs that are over, while the danger is in the calls under way and in the cache.
`SignedInv` connects them:

- `CallsFit`, `EntriesOwn`: shapes; and every entry, and every response on its way to the cache, is a
  run's. `ReplaysOwn` follows.
- `Answered`: a settled run is either about to be stored, or `Stands`: its key has an entry that lasts for the run's
  window, or the window is over.
- `ContendedNoted`, `MissStands`: two calls under one key are on record in `disturbed`; so a call that
  found no entry still finds none when it stores, unless it is on record. This is what makes its own
  `Put` take effect (`Answered`) and what shows that the window of an earlier run is over (`WindowOver`).
- `SignedInTime`: the HMAC layer saw to it that a request is not stamped later than its run, nor much earlier
  than its lookup.
- `NotAgain`: a request that is about to run is none that has a settled run. It holds when the call misses
  the cache (`TooOld`): the window of the earlier run would be over, so more than `CacheTtl` would lie between the
  run and the lookup, and `SignedInTime` allows less for one timestamp. Here `SignedAssumption` is used,
  and `SignedTick`, which bounds the time from verification to lookup by `LookupTime`.

`AnswersStand` relates each answer in the history to the tables now. A step leaves a hold that is over as it is, or
purges its row; and it leaves an active one as it is, unless the step adds the run that ended it or the `expires_at` of
the answer is past (`HoldContinues`). That time is the one the handler computed before its waits, which is why the
statement cannot promise the lifetime from the answer on. A new run is true of the tables it leaves behind (`NewStands`), and an old one stays true
(`StandsOn`). `HoldsEndOnce` follows: what one run made or ended, no later one can make or end. Unlike `AtMostOnce`
it needs no key and no record of what was disturbed, so it protects a caller whose retry overlaps.

TLC runs the safety properties these invariants are built around: `ledger` for the parts of
`RefInv`; `engine` for `NoDoubleSale`, and for `HoldsOwnTheirRows` as part of `SnapshotShowsHolds`;
`engine_faults` for `CheckedStillTrue`, `NeverStuck` and `SingleReaper`; `signed` for `OneRunPerKey`,
`AtMostOnce` and `AnswersStand`. Each has a mutant of the model that violates it.

Model-checked only: liveness (`RequestsAnswered`, `ExpiredHoldsEnd`, `ChangesShown`, `NewestServes`), which
is beyond the prover here, as fairness is. The five violations are about what the code does not
do, so there is nothing to prove of them; `IdempotentApi` under its own `Spec` has only two of these, and its safety
properties are proved of `SignedApi`, whose steps are the same but for the requests that reach it.

## Not modelled

- Serialisation, error envelopes, logging: no state. Requests, refusals and statuses appear in `IdempotentApi`.
- The load test: a tool that seeds seats of its own, drives the engine as a client like any other and
  deletes them. Only its signing is used. (It seeds before its health check, so a run that
  stops there, `loadtest/src/main.rs:136`, leaves its seats behind.)
- Header parsing, the signature and the body limit of HMAC: without state, and passed by every client that holds the secret.
- A process whose database session outlives it for a while: `Crash` and `ReaperDies` free or keep locks, but
  no statement goes on after its process ended.
- TT's booking flow (N confirms per booking, compensation): outside the repository, and the integration guide has
  fragments only. `Requests` and `Deliver` stand for whatever TT sends.
- Size limits and buffering failures of request bodies in the idempotency layer.

## Plan

Done in this order, the seat tables first because everything else writes them: `SeatTables`,
`SeatLedger` and its proofs, `EngineTxn` with its refinement, `IdempotentApi`, `Events` and its proof,
`SeatSale` and the proof that the ledger implements it, `SignedApi`, `Boot` and its proofs, the proofs
of `EngineTxn` (types, locks, deadlocks, the refinement) and those of `SignedApi` (cache, then
one run per key and request), then those of what must not be lost: answers, booked legs, and
that waits end. Every safety property a passing run checks is a theorem. Left is:

1. `IdempotentApi` under its own `Spec`, where requests carry no timestamp: `LiveEntryKept`, `StoredIsFound` and
   `ReplayIsOwnResponse` without the network of `SignedApi`.
