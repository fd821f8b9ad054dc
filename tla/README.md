# Verification of flash-ticketing

TLA+ specifications of the ticketing backend in `src/ticketing` and of the
tools in `scripts` that load it, drill it and judge it, model-checked with TLC
on small instances and, for the parts that decide who owns what, proved with
TLAPS for every instance.

## The system

A FastAPI backend sells assigned seats in short, contended sales. PostgreSQL
is the authority on who owns a seat; Redis admits requests and serves a
projection of availability; Kafka carries post-payment work out of a
transactional outbox.

| Part | Operations | Module |
|---|---|---|
| Reservation ledger (`infrastructure/reservations.py`) | `reserve`, `persist_reservation_command`, `checkout`, `release`, `expire_batch`, `initiate_payment`, `callback` | `Reservations`, implements `SeatOwnership` |
| Row locks of all transactions (`reservations.py`, `workers.py`, `postgres.py`) | lock, wait, NOWAIT, timeout, commit | `RowLocks` |
| Consumer effects (`workers.consume_event`) | one effect per event type | `Reservations`, `SeatProjection` |
| Publisher, Kafka partition, consumer loop, dead letters (`workers.py`, `cli.py`) | claim, send, acknowledge, poll, attempt, dead letter, commit, replay | `Outbox`, implements `EventDelivery` |
| Seat projection (`workers.refresh_batch`, `snapshot`, `infrastructure/cache.py`) | request, claim, snapshot or patch, PUT, complete, delta | `SeatProjection` |
| Reconciliation schedule (`workers.py`) | seed, prune, claim, complete, defer | `Reconciliation` |
| Redis-first intake (`infrastructure/redis_reservations.py`, `workers.persist_reservation_batch`) | enqueue, read, reclaim, persist, mark durable or failed, acknowledge | `RedisFirst` |
| Browse responses (`cache.browse_encoded`) | look up, validate, insert, evict | `BrowseCache` |
| Hold request path (`http.py`, `cache.py`, `postgres.py`, `api.py`) | gate, rate limit, shield, pool, transaction, response | `HoldRequests` |
| Payment simulator (`workers.simulate_one`) | lease, call the webhook, count | `PaymentSimulator` |
| Worker process (`workers.main`) | open clients, iterate, rest, stop, close | `WorkerLoop` |
| Load generator, its coordinator (`http_load_generator.py`, `parallel_cloud_load.py`) | dispatch, retry, count; shard, start, merge, clean up | `LoadGenerator`, `LoadCoordinator` |
| Audit and contention measurement (`verify_cloud_holds.py`, `contention_timing.py`) | queries and verdict; waves of worker processes | `HoldAudit`, `ContentionWave` |
| Probes (`capacity_test.py`, `seatmap_load.py`) | schedule, requests, drain, verdict | `CapacityProbe`, `SeatmapProbe` |
| Drills (`cloud_failure_drill.py`, `recovery_drill.py`) | stop, observe, start, check | `FailureDrill` |
| Capacity stage and suite (`unattended_capacity_stage.py`, `cloud_stability_suite.py`) | remote steps, finalizers, verdict; blocks, stages, fallbacks | `CapacityStage`, `StabilitySuite` |
| WAL probe (`wal_pid_probe.py`) | table, insert, commit, sample, judge, drop | `WalProbe` |
| Observers (`generator_observe.py`, `cloud_pressure_observe.py`) | sample, subtract, sleep | `Observers` |

What makes it hard: holds lapse by the clock and are cleaned up later by
workers; `reserve` takes over lapsed seats without touching the old hold;
provider callbacks are repeated, contradictory, early and late; each worker
can stop between two commits; leases lapse while their owner still runs; Redis
can lose, half-write or reorder what it was told; remote commands go on after
the call that started them was cut off.

How the parts meet: the ledger writes outbox rows, `Outbox` carries them to the
consumer, whose `SeatsChanged` effect raises the refresh requests of
`SeatProjection`. `RedisFirst` composes the intake with the ledger's insert and
with the projection's PUT, because the three write one Redis map. `HoldRequests`
surrounds the ledger's `reserve`; `RowLocks` is what makes a transaction of the
ledger atomic. The tools see the service as the answers it gives.

## How the modules correspond to the code

Variables carry the names of the columns, keys or attributes they model and
actions the names of the functions. Everything that goes wrong (a crash, a lost
answer, a lapsed lease, an interrupt) draws on `MaxFailures`; the proofs hold
for every value of it.

**Reservations.** Each action is one *committed* transaction; its guards are
the function's checks and early returns, and a transaction that raises is no
step. `clock` is `clock_timestamp()`: an action takes the instant it read, up
to `MaxLag` behind the clock at which its writes appear. A hold, its order and
its payment have one identifier. Expiry is two actions, because `FOR UPDATE OF o
SKIP LOCKED` re-reads the orders it locks but not the joined holds: `expire_scan`
takes the snapshot and `expire_batch` acts on it when it may be stale. Outbox
and inbox are counters per type and order; `SeatsChanged` rows are abstracted
to `announced`, the version a seat had when it was last named. Prices and
request hashes are left out. The `CHECK` constraints of `event_seats` are not
guards: the proved invariants imply that no transaction meets them.

**RowLocks.** A transaction is the list of rows it locks, each waiting or NOWAIT,
with `lock_timeout`; a SKIP LOCKED claim takes its rows when it begins. An insert
under a unique key is a lock that waits for the other inserter. Its names are
disjoint from those of `HoldRequests`, so that a module can extend both.

**Outbox.** `publish_batch` is not atomic: the claim, each send, each
`future.get` and the fenced acknowledgement are steps, and the process can stop
between any two. A lapsing lease counts as a failure while its batch still
works on the row. Kafka is external: a record is appended and acknowledged,
appended with the answer lost, given up, or appended late. A failing attempt
may have committed. A consumer that loses its partition goes on until its
commit is refused.

**SeatProjection.** A row version stands for the row. PUT is one action with
all its writes; `InterruptedPut` is Redis stopping it after any of them, and
`LateWrite` a call its worker gave up on. A lease lapses at any moment.

**Reconciliation.** Times are relative to now; the due rows stand in a queue in
the order of `next_due_at`. `Poison` events fail every time.

**RedisFirst.** The Lua scripts are actions. A writer's batch is a sequence of
single Redis and PostgreSQL calls, with a crash between any two; an entry
another writer holds is reclaimed after its idle time. The stream is the entries
not yet deleted, oldest first; a read delivers the oldest that nobody has had.
Map versions follow the code: ENQUEUE adds one, a full PUT recomputes the sum of
row versions.

**HoldRequests.** Each wait, each call and each `finally` clause is a step; the
counters are changed where the code changes them. Shield leases lapse.

**BrowseCache, PaymentSimulator, WorkerLoop.** One action per lock-protected
section, per transaction or call, per call of the loop.

**Tools.** The service is what the tool can see of it: answers, rows and
events that arrive, get lost or come late. Percentiles and report layout are
left out. `CapacityStage` models the two remote shell helpers by what each
command needs and changes; a call that is cut off leaves its command running.
`WalProbe` models the main thread, the inserting threads, the observer thread and
an interrupt at any point of them.

## Runs

Several runs hold more than one component. The initial state picks one (the
variable `system`), the others stay as they started; this is a sum of
independent models, not a composition. Some components appear in several
instances that stress different parts. Deadlock is not checked: the clocks are
bounded, sales end and scripts end, so behaviours do.

| Run | Instance | Shows |
|---|---|---|
| `ledger` | 2 seats, a direct order and a Redis-first command, 2 hold keys, 2 callbacks, 4 instants, lag 1 | held seats can be recovered, captured money is settled once, every change is announced, a key holds once, the ledger implements `SeatOwnership` |
| `pipeline` | 1 publisher, 2 consumers, 2 events, 3 failures; 2 reconcilers on 2 events | no message is passed unhandled, the pipeline implements `EventDelivery`; a reconciler whose lease lapsed changes nothing and pruning spares leased rows |
| `projection` | 1 event, 2 seats, a refresh worker and a reconciler, 2 incarnations of the map, 2 failures; the browse cache with 2 threads, 2 keys and 3 tags | a seat never goes back, a tag names one map, delta clients catch up, a stale seat is still requested; cached answers are of one instant and the cache stays within its limits |
| `intake` | 2 writers without projection; 1 writer with projection and a lost map; 3 commands with a browser | accepted commands stay queued, a seat has one winner, durable means owned, settlements are fenced |
| `holds` | 3 requests on one connection; 3 at a gate of 2; 2 with faults; locks of all transactions, 2 at a time, on 2 orders that share a seat and 2 events; 3 at a time of those that may wait for a key, an order or a payment, with 2 keys | counters are exact, a refusal means no hold, bodies exclude each other, no cycle of waits but for event rows |
| `order_progress` | fair ledger with 1 seat and 2 orders; fair pipeline with 3 failures | held seats resolve, captured money settles, every event is handled |
| `worker_progress` | fair refresh workers, reconcilers, intake, schedule with an event that always fails, worker loop of every role | changes reach the map, maps become current, commands are settled, due events are reconciled, the loop goes on until stopped |
| `load_tools` | simulator with 2 payments and 2 calls; generator with hot and ordinary items; coordinator with 3 workers; audit of 3 requests in both modes; matrix of 4 waves | counts are deliveries; the verdicts of the tools are honest |
| `drills` | the probe's three profiles (hot; spread at a rate where 50 ms are 3 intervals; checkout with and without the wait for the map), 2 browse stages, the WAL probe with 3 inserts on 2 connections, both drills, one stage with 3 failures, a suite of 2 blocks, both observers | the probes measure the system, drills and stages undo what they did, differences are real |
| `intake_failed`, `intake_owner`, `intake_tags` | the projecting and validating instances of `intake` | violations, see Disagreements |

Bounds. Two orders on one seat are what every ownership conflict in the code
needs, a lapsed owner and a new one; two seats make partial sales visible; hold
time 1 and four instants leave room for a hold, its lapse, a takeover and a
late payment. The pipeline has two attempts where the code has five: only
"another follows" and "this was the last" differ; three failures are two failed
attempts and a failed dead letter. Two publishers are in the proofs only. In
the projection one version beyond the first, two incarnations and two failures
give a stale snapshot, a half-written map and its repair. In `RedisFirst` two
commands on one seat and two writers give a conflict, a reclaim and a
compensation that comes late; as its two seats are alike, the first command of the
writing instance wants `s1`. One connection under three requests makes the
pool time out. Three sessions allow a ring of waits of more than two; the
transactions on orders left out there lock with NOWAIT and never wait. Two
events are what a cycle among event rows needs. In the tools one failure more
than a property excludes is allowed; 3 failures in `CapacityStage` let a call,
a finalizer and an interrupt go wrong in one stage. A tick of `CapacityProbe` is
the interval between two journeys; the hot instance has it at a second, and at
higher rates the last start is at most 50 ms late where the check of line 33
leaves a whole second. Symmetry is over
identifiers the code compares only for equality, and is not used with fairness.

Each property has a mutant of the definition that is responsible for it (the
operators marked "Mutant"), under which TLC finds it violated.

### Fairness

The fairness is stated in `MCOrderProgress` and `MCWorkerProgress`.

- `workers.main` loops for ever and catches every exception, `compose.yaml`
  restarts what dies, and every call has a timeout: weak fairness of each step
  of a worker, of the clock and of a lease nobody works under running out.
- Strong fairness is used twice. A reconciler's read of an event, because
  `claim_due_events` takes the oldest deadline first; and an entry nobody has
  in hand being reclaimed, because XAUTOCLAIM walks the pending list and a
  claim makes its entries busy while new ones are read.
- In the ledger a published event is applied in the end. This assumes that no
  outage outlasts the attempts or that the dead letter is replayed; the
  pipeline's own property allows the dead letter.
- Nothing is assumed of buyers, browsers, the payment provider or operators.

## Proofs

Eight modules, for constant sets of any size. Assumptions: `None` and `Nobody`
are no members of the sets they stand beside, commands are orders, times and
limits are naturals, the hold time, batch size and attempts are positive,
requests and seats are finitely many. `Reservations_proofs` and
`Settlement_proofs` are about the ledger, `SeatRequests_proofs` and
`SeatProjection_proofs` about the projection (with the invariants in
`SeatInvariants`), `HoldRequests_proofs` about requests and row locks; the others
are named after their module.

1. `TypeCorrect`: one lemma per action of the ledger.
2. `OwnershipInv` is inductive. The ownership properties alone are not: that a
   release cannot strand a seat needs the rows of one order to agree
   (`RowsAgree`), and that expiry is never early needs what survives of a stale
   scan (`ScansAreOverdue`: deadlines never move). It gives `NoSeatIsStranded`,
   `SalesAreAllOrNothing`, `BookingsAgreeWithSeats`, `LiveHoldsAreExclusive`.
3. `SettledRows` adds `FulfilledOnce` (the inbox row of `OrderPaid` and the
   status FULFILLED are written together) and gives `MoneyIsSettledOnce`,
   `SettlementsArePublishedOnce`, `TicketsAreThoseOfFulfilledOrders`.
   `SeatChangesAreAnnounced` and `OrdersMoveForward` follow the same actions.
   `KeysHoldOnce` needs `KeysNameOrders`: a recorded key names an order that
   exists, so a new order cannot be one of a key's.
4. `LedgerImplementsOwnership`, `SalesAreFinal`, `VersionsFenceRows` and
   `DeadlinesAreRespected` follow from `OwnershipInv` through `SeatSteps`: each
   transaction keeps the seat rows, grants, gives up or sells.
5. `OutboxInv`: what a publisher holds is a row and what was acknowledged is in
   the log (`RecordsAreRows`); the owner's position is at or past the committed
   offset (`GroupPosition`); everything the owner has passed is applied or has
   a letter except what it works on (`PassedIsHandled`; `DoneMessagesAreHandled`
   alone is not inductive, a commit covers all that was passed since the last
   one); a letter about to be deleted is of an applied event. With it
   `PipelineImplementsDelivery` maps each step to a step or a stutter.
6. `SimulatorInv`: an owner of a lease has a delivery left to make, and one
   whose call was answered has a post that is not counted yet. It gives
   `CountedDeliveriesAreReal` and `CallbacksApplyOnce`.
7. `RequestInv`: the phase of a request determines whether it is counted at the
   gate, waiting for or holding a connection, and holding row locks. It gives
   `GaugesAreExact` with the bound of the gate, `NoRequestLeaks`,
   `BodiesAreExclusive`, `RefusedMeansNoHold`, `ReleaseIsFenced`.
8. `OrderedLocks`: rows have a rank (keys, the rows of orders, refunds, the rows
   of events), and what a session may still have to wait for, if it is not the row
   of an event, ranks above all it has locked. This needs the programs themselves to be in order
   (`InOrder`), which holds because every lock of an order, hold, payment or seat
   outside the consumer and the simulator is NOWAIT. A cycle of waits would
   climb for ever: `LocksAreOrdered`, `NoDeadlock`.
9. `ProjectionInv`: maps and everything on its way to Redis carry a row version
   for each seat they name, and the version of a readable map is the sum of
   them. With it `SeatsOnlyMoveForward` holds for complete, interrupted and late
   writes.
   - `SeenInv` adds that the maps readers saw of one incarnation form a chain,
     and that the living map has stamped every seat it changed since above the
     version that was read. Maps of a chain with equal sums are equal, which
     gives `TagsAreUnique`; the stamps give `DeltasAreComplete`. The facts about
     sums are by induction on finite sets, as least counterexamples.
   - `RequestedInv`: what a claimed row asks for is still the request
     (`ClaimsInv`), what was read or written for it is not older than the
     request (`FreshInv`), and a seat that is behind is asked for (`StaleInv`).
     The last is what `StaleSeatsAreRequested` says; it is not inductive alone,
     because an acknowledgement removes a request and must know that the map
     then has the row.
10. `IntakeInvariant`: every pending command is in the stream, which is within
    its backlog (`IntakeInv`); a writer stores a command before it reports it durable
    and settles it before it deletes its entry (`BatchInv`); a durable command
    has a hold, and a seat row names a command that has one (`HoldInv`); rows
    read for the map are whole (`ReadInv`); and as long as no newer row has
    reached a seat of the first map, the map names the live command that wants
    the seat as its owner (`MapInv`), which is what ENQUEUE looks at. It gives
    `AcceptedIsNeverLost`, `DurableIsStored`, `IntakeSellsOnce`, and with the
    guards of the scripts `SettlementNeverUndone`.

Proved and not part of a run: the theorems above that name a property the table
of runs does not. Only model-checked: liveness (out of the prover's reach), the
properties of `BrowseCache` (its limits are on a sum over an LRU list that is cut
by a minimum), `Reconciliation`, `WorkerLoop` and of the tools.

## Disagreements between code and documents

Three have a run that shows a counterexample:

- `intake_failed`: a writer marks a command FAILED and stops before it
  acknowledges the entry; delivered again after the conflicting hold ended, the
  command is persisted. The client polled FAILED, PostgreSQL has its hold.
- `intake_owner`: PUT replaces a seat by row version without looking at the
  hold, so a row read before the previous hold expired displaces the
  provisional owner that took the seat after it.
- `intake_tags`: a full PUT recomputes the map version from row versions, which
  provisional holds do not raise, and ENQUEUE counts on from there: a tag is
  used again for another body and the browser is answered 304.

Others met while modelling, without a run:

- `verify_cloud_holds.py:54` compares counts per run: a 202 whose command
  failed and a durable command whose 202 was lost cancel (line 115 says a 202
  counts only with its durable command). `capacity_test.py:281` and 312-324
  compare counts as well: a payment answered 503 after its COMMIT and an
  accepted one that came too late cancel. `PassMeansDelivered` names the case.
- `capacity_test.py:243` says "no catch-up burst"; the tolerance of line 244
  lets `rate / 20 + 1` journeys start at once from a rate of 20 on, 4 at rate 60.
  `NoQueueNoBurst` has that bound.
- `unattended_capacity_stage.py:535` removes the private directory with the
  saved settings whatever the rollback returned (ADR 0040, lines 79-81, has the
  operator restore them from there). Line 346 sets `observers` after the remote
  call returned, so a start that was cut off is not undone.
- `huawei_capacity_generator.sh:48` runs the load under `timeout`, which (GNU
  coreutils) moves itself and the load into a process group of their own, while
  `stop` signals the supervisor's group (line 86) and writes the status file. A
  load that is stopped goes on until it ends or its limit is over, and `cleanup`
  takes its manifest (ADR 0043, lines 24-25: a process group "that can be stopped
  before private-manifest cleanup"; line 70: "stop terminates the process
  group"). `CapacityStage` models the load that goes on; the stage fails, and no
  property says that the load has ended by then.
- `cloud_stability_suite.py:478` leaves only the loop over keep-alive values
  after a failed stage (ADR 0029, lines 85-87: stop escalation). Line 425
  leaves a block whose configuration failed without `restore_api` (line 90 of
  the ADR), and such blocks do not fail the suite (498). An
  exception in a stage, a timeout of `observer.wait` (323) among them, leaves
  `main` without restore or report; the observer itself is left when the wait
  after `terminate` (327) times out too.

What properties exclude, because the code does:

- An entry that `mark_durable` refuses is left to an operator, and the entries
  claimed behind it in its batch wait with it (`workers.py:83`).
- `maintain_schedule` seeds rows without a tie-break and `refresh_batch`
  acknowledges rows in no order of events; two of them may wait for each other
  until `lock_timeout`. `NoWaitCycle` is about all other rows.
- A `CREATE TABLE` of the WAL probe whose answer is lost leaves a table that
  nobody drops, while `cleanup_pass` is true (`wal_pid_probe.py:149`).
- A worker that outlives its termination makes `contention_timing.py` leave its
  finally clause; a second interrupt does so in `CapacityStage`, and an interrupt
  inside its finally clause in `LoadCoordinator`, where one between `Popen` and
  the append to the list would lose a process (the model takes the two as one
  step); a remote
  deploy may go on after the rollback; `compose stop` may take effect after the
  restart. The kafka case of the drill asks for its hold before its `try`.

## Not modelled

- API routes that authenticate, call one operation and shape its answer;
  parsing, configuration, metrics and logging: no state of their own. The table
  of connections in `http.py` feeds only log fields.
- Migrations and seeding (`cli.py`), fixtures, manifests and preflight checks:
  they run before the system, alone.
- Summaries, exports, the correlation of the WAL probe and result checks:
  functions from files to tables.
- The other observers and probes, older stage runners, `ingress_server.py`:
  single measurements, or predecessors of what is modelled.
- The wait for the holds to expire before the audit
  (`unattended_capacity_stage.py:443`); `HoldAudit` has the deadlines.
- The tables of `migrations/009`: no code in `src/ticketing` uses them.
