# Verification of the Logistics TMS

TLA+ models of the Logistics TMS, its backend first of all, with its optimizer (how a
request is planned, the hybrid search for routes, the search for the layout of a truck's
floor) and one page of its frontend; the TLC runs that check them on small instances, and the theorems TLAPS
proves about the backend and about planning requests for instances of every size. The reference is the source: paths below are relative to
`src/backend/src/` unless they say otherwise, and `PROJECT.json` ("map") names
the lines that each definition translates.

## 1. The system

A NestJS backend over PostgreSQL (Prisma, READ COMMITTED) and Redis (BullMQ), a
Python optimizer behind HTTP, and a React frontend that only calls the backend.
Concurrency is everywhere and of one kind: HTTP requests, queue workers and
timers of any number of processes interleave at every `await`. What keeps
them apart is database transactions, row locks (`FOR UPDATE`), advisory locks,
guarded updates (`updateMany ... where status/version/owner`), constraints of
the schema, and leases with an expiry.

| Component | State | Operations | Interacts with | What is hard | Correct when |
|---|---|---|---|---|---|
| **Optimization jobs** (`trips/optimization-jobs.service.ts`, `optimization.processor.ts`, `optimization-recovery.service.ts`) | `optimization_jobs` (status, lease, owner, attempts, request hash), `optimization_results` | create, cancel, apply; `process()` of a worker; heartbeat; recovery pass each 5 s | outbox, BullMQ, optimizer, trip planning | two stores without a common transaction; crashes; leases; requests that act on an old read | results come from the latest claim; applied at most once; a cancellation is honoured; nothing stays RUNNING unattended; every job settles |
| **Transactional outbox** (`common/services/outbox*.ts`) | `outbox_events` (publishedAt, lock, attempts, nextAttemptAt, deadLetteredAt) | enqueue; poll, claim batch, publish, mark; retry of a dead letter | BullMQ, sockets, mail | lease of 60 s against a batch that takes longer; publish and mark are not atomic | every event is published at least once or is a dead letter; nothing published is lost |
| **Command idempotency** (`common/services/idempotency.service.ts`) | `processed_commands` | checkOrStart, complete, fail | inventory, allocation, checkout | a lease of 5 min; completion outside the business transaction | a command takes effect once per key |
| **Inventory** (`inventory/inventory.service.ts`) | stock balances, reservations, ledger | receive, adjust, reserve, commit, release, settle, move | idempotency, orders, allocation, fulfilment | row locks, absolute writes, splits | on hand is the ledger's sum; reserved is the sum of the active reservations; nothing is oversold |
| **Retail orders** (`sales-orders`, `allocation`, `fulfillment`, `orders`) | orders (status, version), packages, handovers | checkout, allocate, prepare, pack, hand over, cancel, create, update | inventory, trips | status read outside the transaction, stock settled by another component | stock is taken once per order and never for a cancelled one |
| **Trip planning** (`trips/trips.service.ts`) | trips, stops, allocations, load plans, resource reservations | create, updatePlan, publish, optimize, apply | jobs, orders, vehicles, drivers | advisory locks, versions, EXCLUDE constraints | no vehicle, driver or order is planned twice; a published plan is current |
| **Pickup points** (`pickup/pickup.service.ts`) | packages at a point, collection tokens, holding slots | transfer, inbound scan, verify and collect | locations, packages | reads outside the transaction | slots = packages held; one collection per order |
| **Customer feedback** (`feedback/feedback.service.ts`) | cases, messages, version | create, message, update | outbox | unguarded write next to a guarded one | closed cases stay closed unless reopened |
| **Load and route validation** (`trips/trips.validator.ts`, `service-day.ts`) | none (pure) | pickup before delivery, load along the route | trip planning | boundaries | agrees with a reference definition |
| **Optimizer contract** (`trips/optimizer-*.ts`, `optimization-proposal.ts`) | signed snapshot | build, parse, sign, verify | optimizer, trip planning | a proposal outlives the data it was computed from | what is applied is what was computed |
| **Job metrics and progress** (`trips/optimization-job-metrics.service.ts`) | none (queries) | counts, lags | jobs | | |
| **Vehicles, drivers, branches, locations, customers, catalogue** | master data | CRUD | everything | little beyond uniqueness | |
| **Authentication and authorisation** (`auth/`) | users, tokens | login, guards, branch scope | everything | | |
| **Events gateway, files, map service, retail analytics, audit log** | caches, logs | pure I/O | | | |
| **Optimizer: hybrid search** (`src/optimizer/app/hybrid_alns`) | routes, unassigned orders, caches, elite plans of one call | warm starts, consolidation, ruin and recreate, refinement, audit, repair, fallbacks | its own evaluators; the backend calls it | many stages that hand plans on; cached verdicts; deadlines; few audit slots | a plan called valid is; a complete initial plan is not lost |
| **Optimizer: floor layout** (`src/optimizer/app/spatial_validator.py`, `hybrid_alns/packing_checker.py`) | the search of one route: stops, boxes on board, states that failed, budgets | `validate_plan`, `validate_route_stops` | asked by the searches and by the audit | what a stop decides shows stops later; places and states are ruled out on the way; two checkers of one question | a layout that is called valid can be carried out; a certain rejection is right; the quick check lets pass only what fits |
| **Optimizer: planning a request** (`src/optimizer/app`: `multi_start.py`, `routing_solver.py` and what they use; the backend's `optimizer-payload.ts`, `optimizer-contract.ts`) | one request: slots of trucks and days, allocations of orders, the plans found | split orders, `MultiStartFleetOptimizer.solve`, contract, offer, apply | backend, hybrid search, floor layout | many stages with deadlines that hand routes on; split orders; several engines with conventions of their own; worker processes that fail | nothing is lost from sight; every route has a driver; what is applied can be driven; a full plan is refused for no more than missing benchmarks |
| **Frontend: automatic dispatch** (`AutomaticDispatchPage.tsx`) | the job on the page, localStorage per branch, flags | change branch, start, poll, reload by socket, apply, clear, restore | backend | answers in any order, closures of earlier renders, effects that are cleaned up | the page shows the job of its branch, to its end |
| **Frontend: other pages** | views | calls of the backend | backend | | |

## 2. Modules

| Module | What it is |
|---|---|
| `OptimizationJob` | the job's life: rows, queue, workers, recovery, requests |
| `MCOptimizationJob` | its instance for TLC (symmetric sets) |
| `OptimizationJobProofs` | its theorems |
| `Inventory` | balances, reservations, ledger, and PostgreSQL's transactions around them |
| `MCInventory` | its instances for TLC |
| `InventoryProofs` | its theorems |
| `CommandIdempotency` | the requests of one idempotency key and its row |
| `MCCommandIdempotency` | its instance for TLC (symmetric sets) |
| `CommandProofs` | the theorems of `CommandIdempotency` and of `AutomaticDispatch` |
| `Outbox` | the rows of the outbox, its workers, and the retry of dead letters |
| `OutboxProofs` | its theorems |
| `AtLeastOnce` | what the outbox promises: the abstract specification `Outbox` implements |
| `MCOutbox` | the instance of `Outbox` for TLC |
| `TripPlanning` | trips, and those who plan them under advisory locks next to those who take none |
| `FleetSchedule` | what trip planning promises: the abstract specification `TripPlanning` implements |
| `MCTripPlanning` | its instances for TLC |
| `TripPlanningProofs` | its theorems |
| `RetailOrder` | an order of the shop from checkout to its collection at a pickup point |
| `MCRetailOrder` | its instances for TLC (symmetric sets) |
| `RetailOrderProofs` | its theorems |
| `RouteEvaluation` | the verdict on a route and the audit of a plan, as operators |
| `HybridSearch` | `HybridALNSSolver.solve` over them |
| `MCHybridSearch` | its instances for TLC |
| `FloorGeometry` | boxes on the floor of a truck and their ways to the door, as operators |
| `LayoutSearch` | `SpatialPlanValidator.validate_plan` over them |
| `LayoutReference` | the quick check, and which routes can be carried out at all |
| `MCLayoutSearch` | their routes for TLC |
| `LayoutProofs` | the theorems of `LayoutSearch` and of `LayoutReference` |
| `AutomaticDispatch` | the page of automatic dispatch and its calls |
| `MCAutomaticDispatch` | its instance for TLC |
| `FleetRequest` | a planning request: slots, split orders, drivers, cost and search policy, as operators |
| `RouteSearch` | one search by OR-Tools: drafts, validation, recovery, rollback of split orders, consolidation |
| `MultiStart` | the request around it: tiny requests, several searches, ranking, contract, offer, apply |
| `MCMultiStart` | its instance for TLC |
| `OptimizerProofs` | the theorems of `MultiStart` and of `HybridSearch` |

### OptimizationJob

*State.* `row` is the job's row, `results` and `trips` the rows that depend on
it, `event` its outbox event, `entry` the BullMQ entry whose `jobId` is the
job's id, `worker` one `process()` per process, `scanned` what the running
recovery pass has read, `cancel` and `apply` the requests in flight, and
`faults` the faults so far.

*Steps.* One action per statement that reads or writes PostgreSQL or Redis,
because any other actor may run at an `await`:

- `process()`: `Read`, `AckCancel`, `Claim`, `SaveSnapshot`, `Solve`,
  `CheckCancel`, `DropResult`, `Finalize`, `Catch`. `Fail` is an exception in the
  try block, `StatementError` a failing statement outside it or in the catch
  clause; `Return` and `Reject` are what BullMQ does with the outcome.
- the heartbeat: `Heartbeat`; time: `ExpireLease` (five minutes without one).
- `recover()`: `RecoverScan`, `RecoverRelease` (guarded), `RecoverEnqueue`.
- requests: `Create`, `CancelRead`/`CancelWrite`/`CancelRemove`,
  `ApplyRead`/`ApplyLoad`/`ApplyCommit`/`ApplyRefuse`.
- BullMQ (external): `Add` (ignored for a known `jobId`), `Deliver`, `Stall`,
  `Evict` (`removeOnComplete: 100`, `removeOnFail: 500`), `Flush` (Redis loses
  its data). A completion counts only from the entry's lock holder.

*Abstractions.* The lease is `none`, `live` or `expired` instead of a time. The
solver's answer is its status. Candidates are known by the number of the claim
that computed them (`attemptCount` at the claim). A failing SQL statement has no
effect. The limit of 100 rows of a recovery pass, progress messages, metrics and
socket events are left out. A plan that no longer fits its orders, vehicles or
drivers is `ApplyRefuse`, which may happen at any time; what makes it fit
belongs to trip planning.

*Faults.* `MaxFaults` bounds what the environment may do: a crash, a failing
statement, an event loop that hangs long enough for BullMQ's lock or the lease
to run out under a living owner, a Redis restart without data. A lock or lease
whose holder is gone runs out for free.

### Inventory

*State.* `stock` is the row of a SKU at a location, with the sum of its ledger
entries as the field `ledger`; `reservation` the rows of
`inventory_reservations`. Both are written in place. `oldStock` and
`oldReservation` are their committed versions, `lock` and `hold` say which
transaction has the row lock of a balance or a reservation, and `tx` is what each
transaction has in its local variables and where it stands.

*Steps.* A request opens a transaction (`CreateReservation`,
`CommitReservation`, `ReleaseReservation`, `SettleOrderReservations`,
`MoveOrderReservations`, `CreateReceipt`, `CreateAdjustment`), which then goes
through its lines:

- reserving: `LockBalance` (`SELECT ... FOR UPDATE`), `CheckSellable`, `Book`;
- committing and releasing: `HoldReservation`, then `TakeReservation` or
  `FreeReservation`;
- settling: `Snapshot` (the rows that the locking query finds), `LockActive`
  (waits for them and keeps those that still are active), `SettleReservation`;
- moving: `Snapshot`, `LockActive`, one release per reservation, then reserving
  at the destination;
- receiving: `Receive` (an upsert with increments); adjusting: `ReadBalance`,
  without a lock, and `Adjust`, an absolute write.

`Commit` publishes what the transaction wrote and `Rollback` takes it back. A
transaction may be rolled back at any point: that is an exception, a deadlock
that PostgreSQL resolves, Prisma's timeout, or a crash.

*Abstractions.* Statements about a row that the transaction has locked are one
step, as nobody else can see the row in between; where a property is about that
lock they are not. A plain read returns one's own write or the committed version
(`StockSeen`, `ReservationSeen`). The RELEASED row that a partly picked
reservation leaves behind holds nothing and is left out. `safetyBuffer` is one
constant. The command key around each operation belongs to command idempotency
and is left out, so that every request executes: more behaviours, not fewer. The
order in which a transaction goes through its lines is free except for
`reserve`, which sorts them by SKU.

### CommandIdempotency

*State.* `command` is the key's row of `processed_commands`, `request` the HTTP
requests that carry the key, with what they have read and what they answered,
`done` the requests whose business transaction has committed, `overdue` the last
version of the row that is more than five minutes old, and `within` whether the
operation completes the command inside its transaction (`allocation`) or after it
(`inventory`).

*Steps.* `Send`, `Find`, `Insert`, `Refind` and `Resolve` are the statements of
`checkOrStartCommand`; `Execute` is the commit of the business transaction and
`Refuse` its exception; `CompleteCommand` and `FailCommand` update the row by id
alone, as the code does. `StatementError`, `LoseAnswer` (the commit succeeds but
its caller sees an error), `Crash` and an `Expire` under a live request are
faults, bounded by `MaxFaults`.

*Abstractions.* `updatedAt` numbers the versions of the row: two of them in one
millisecond are taken apart. A result is whether there is one. What the business
transaction does belongs to its component.

### Outbox

*State.* `row` is `outbox_events`, with `lockedAt` as a lease that is `none`,
`live` or `over` and `nextAttemptAt` as whether it has come; `worker` has the
copies a worker got from its claim, split into the rest of its batch and the one
it is processing; `delivered` counts how often an event has reached its transport.

*Steps.* `Claim` is the one statement of `claimBatch` (the oldest rows that may be
claimed, up to the limit); `Publish`, `PublishFails` and `PublishLost` (the
transport has the event, but the call throws) are the three ways `publish` ends;
`Mark` and `CountFailure` are the two updates of `processEvent`, guarded by
`lockedBy` and `publishedAt`; `Retry` is `retryDeadLetter`. `StatementError`,
`Crash`, `PublishLost` and `Overrun` (the lease of a batch that is still being
processed runs out) are faults, bounded by `MaxFaults`.

*Abstract specification.* `AtLeastOnce` knows the status of an event, its copies
and its failed attempts: an event is published only after it has been delivered,
becomes a dead letter after exactly `MaxAttempts` failures in a row, comes back
only by a retry, and does not stay pending for ever. `Promise` maps the rows to
it; `Delivers` is its whole specification, fairness included.

*Abstractions.* The rows `SKIP LOCKED` passes over are in the hands of a statement
of another worker, so that the claim is as good as one that came after it. The
order inside a batch is free, because `UPDATE ... RETURNING` promises none.

### TripPlanning

*State.* `trip` has the rows of trips with their stop tasks and planning snapshot,
`assignment` and `reservation` the rows that tie a driver and the resources to
a trip; `order`, `package`, `vehicle` and `driver` are the rows that requests read and
others change; `lock` says who holds an advisory lock; `request` is where a
request stands and what it has read.

*Steps.* `create`, `applyAutomaticOptimization`, `updatePlan` and `publish` each read
outside a transaction (`CreateRead`, `Solve`, `UpdateRead`, `PublishRead`), take the
advisory locks of what they use one by one (`Acquire`, in the order of `Before`),
check again (`Check...`), take the lock of the trip numbers where they make
trips (`Number`) and write (`...Write`). `Abort` is a check that throws. `Cancel`, `Pay`,
`EditRead`/`EditWrite`, `AllocateRead`/`AllocateWrite`, `ChangeVehicle` and `ChangeDriver` are
`cancelOrder`, `writePayment` (a payment or refund), `orders.update`, `allocateSourceForOrder`
and the updates of vehicles and drivers, which take none of these locks; `GiveUp` is an edit or
an allocation that is refused. An allocation tests the version it has read and nothing else, an
edit tests nothing.

*Packages.* `ensurePhysicalPackageMapping` knows packages by keys of their own (`package:<id>`) as
soon as an order has some. The optimizer asks for the same keys, so that `apply` finds them
(`CanPack`); `create` and `updatePlan` place the pieces of the items (`<item>#n`) and throw on the first
that has no package of that key (`ItemsAreUnpacked`). So `create` plans no order that has packages, which
every order of the shop has. `updatePlan` succeeds never: the trip it changes has given its orders packages
(`UpdateRefused`; a finding, and the theorem `NoUpdateIsSaved`).

*Constraints.* The `EXCLUDE` constraints of `resource_reservations` are
`NothingExcluded`, a guard of the writes; the foreign keys that keep an order's stops
while a trip has them are `StopsExist` and `NotOnTrip`.

*Abstract specification.* `FleetSchedule` knows only which vehicle and driver is booked
from when to when, and that bookings never overlap. `KeepsSchedule` is its specification
under the mapping of trips to bookings. It lets a booking move before its dispatch (`Replan`), as a
schedule may; as no update is saved, no step of `TripPlanning` does.

*Abstractions.* A version is a number; the fields a snapshot compares are its
versions. The writes of a transaction are one step. Geometry of the load, routing
and arrival times are left out: a route is a vehicle, a driver, an interval and packages.
The claim of an optimization job by `apply` is in `OptimizationJob`.

### RetailOrder

*State.* `order`, `held` (the order's reservations: the place they are at and how often
they moved), `package`, `token` (the collection token), `available` and `lock` (the slots
of a pickup point and its row lock), and `task`, what each of the staff is doing.
`rescanned` and `recollected` count, for the properties only, two scans of one package
and two collections of one order.

*Steps.* `Checkout`; `AllocateRead`/`AllocateWrite` with the version test;
`CancelRead`/`CancelList`/`CancelWrite`; `EditRead`/`EditWrite` (`orders.update`);
`ScanRead`/`ScanSlot`/`ScanCount`/`ScanEnd`; `VerifyRead` with `CollectWrite` or
`GuessWrite`; `Expire`; and `Abort` at any point.

*Abstractions.* The scan's writes become visible at its end, when it also gives back the
row lock. What a reservation holds is in `Inventory`, the command keys in
`CommandIdempotency`. `packOrder` always finds the packages that checkout has made
and changes nothing; preparation and handover only append events.

### RouteEvaluation and HybridSearch

*State.* The plans that `solve` carries: `start`, `current`, `best`, `fallback`, `elite`,
and `work`, the candidate under repair; `guided`, `iteration` and `stale` steer it; `judge`
says which vehicle's verdicts the cache holds for each profile.

*Steps.* One action per stage and branch of `solve`: `WarmStart`, `Structure`,
`MergeRoutes`, `Relocate`, `DropGuidance`, `Split`, `Settle`; in the loop `Intensify`,
`Merge`, `Ruin`, `Repair`, `Judge`, `EndAlns`; then `Refine`, `AuditElite`, `Pairwise`,
`FallBack`. `RouteEvaluation` has what they call: `Serve` is one stop of
`schedule_and_evaluate_route`, `OnTime` its fold over a route, `RoutePrice` the cost, `Verdict`
the audit and `Audits` the audit after a repair of the order of stops. Time may run out on any route
in either audit and in the repair, so a route that could be packed may be rebuilt too, one that
could not may stay, and a plan that is refused may be a repaired one.

*Abstractions.* A random choice, the cheapest of the sampled moves, and a deadline in
any loop are nondeterminism: any feasible move may be taken, or none. What the code
decides by comparing costs is a guard. Whether a floor can be packed is a constant
predicate, one for the quick check and one for the final validator, which disagree in
the instance. Distances are integers. One vehicle per profile fills the cache, where
the code fills it per route: the model has fewer mixtures of verdicts than the code.

### FloorGeometry and LayoutSearch

*State.* `plan` is the route that is validated and `cycles` its load cycles (the truck
is empty between two of them); `node` is the stop and item the search is at with the
boxes on board, `stack` the calls and generators that are open, `failed` the memory of
states without a way on, `steps` the layouts of the cycles done. The code is a recursion
over generators; making the stack a variable keeps its order of trying and of backtracking.

*Steps.* `EnterKnown`, `EnterRefused` and `EnterStop` are the three ways into
`_search_stops`, `EnterLoad` and `Try` the loop of `_search_load_placements` over an item's
places, `Loaded` a layout of the stop and the step to the next one, `PlacesDone` and
`StopDone` the returns, `CycleDone` and `Rejected` the ends, `GiveUp` a budget of nodes
or time that runs out. `FloorGeometry` has what they are built from: `PathClear` with its
grid of touching coordinates, and `Corners`. `FastAccepts` of `LayoutReference` is
`validate_route_stops`: `FastPlace` and `FastLoad` for a pickup, `FastUnload` for a delivery.

*Reference.* Independently of the search and of the code's grid, a box can leave (`CanLeave`)
if every set of free places that contains the box's place and all that one push by a unit
leads to contains a place at the door; it enters the way it leaves. `AcceptedIsExecutable`
asks this of the layouts found. `Executable` asks whether there are any: it follows all layouts
that the stops can lead to, with items at any place in any order, or (for
`PruningLosesNothing`) at corners and the largest first.

*Abstractions.* Whole coordinates, so that the tolerance of 0.01 cm decides nothing. The
budgets are nondeterministic. Which failure is reported, the paths that are drawn, and
the counters are left out. An item is too tall or is not. What the code computes in rounds
or by recursion is a recursive function here, so that it can be reasoned about.

*Assumptions.* The floor has positive sides (`FloorAssumption`), the payload is positive and
so are the sizes and the weight of an item, as the fields of `models.py` require
(`PayloadAssumption`, `PlansAssumption`). A stop loads or unloads, as `_make_stops` builds
them (`StopsAssumption`); only the quick check needs this.

### AutomaticDispatch

*State.* `page` is the React state (branch, the job shown with its status, `applied`,
`starting`, `applying`), `stored` localStorage, `calls` what the page waits for, poll
timers included, and `status` the jobs at the backend.

*Steps.* What the user does (`ChangeBranch`, `Mount`, `StartOptimization`,
`ApplyOptimization`, `ClearOptimization`), the socket (`Reload`), the backend
(`Settle`, `Answer...`), and what the page does with an answer (`Restored`,
`PollAnswered`, `Reloaded`, `Started`, `Applied`) or an error (`...Fails`). `Render` is a
state change with the effects whose dependencies have changed: it ends polls and
reloads that no longer belong, starts a poll, and sets `starting`.

*Abstractions.* The four statuses that are polled are one, and so are SUCCEEDED and
PARTIAL. An answer that the page would ignore leaves `calls` when that is decided.
The effects run before the next answer, as React flushes them. A start that failed
and is sent again with its key is a new start. Left out: the choice among the
candidates of a job, counts of resources, maps, exports, edit dialogs, and what else is
stored with the job (schedule mode and the like).

### FleetRequest, RouteSearch and MultiStart

*State.* `people` are the drivers available, `allocations`, `slots` and `safe` the request
(orders or parts of them, trucks by service day, the slots that can all have drivers);
`drafts`, `routes`, `assigned`, `queue` what a search has at hand; `runs` the plans found,
`candidates` those returned, `trips` the routes that became trips.

*Steps.* `Prepare` is the backend's snapshot, with oversized orders split over trucks and
days nobody can be served on taken out; `SplitLimit` its failure. `Exhaustive` and
`ExhaustiveFindsNothing` are tiny requests. A search is `Search` (any solution of the OR-Tools
model), `Keep`, `Shorten` and `Reject` of each draft, `EndValidation`, `Recover`,
`DropIncompleteSplits`, `Consolidate`, `Report`; `NoDriver`, `SearchFails` and
`WorkerFails` end it otherwise. `HybridEnds` and `HybridGivesNothing` are the hybrid search
(`HybridSearch` is about its inside), `Choose` is `select_ranked_candidates`. The backend's
side is `Refuse` (the contract), `Offer` and `Apply`.

*Abstractions.* Sizes, distances and times are what they decide: `Holds`, `InShift`,
`Routable` (OR-Tools' model takes the load) and `Runnable` (an order of stops exists that is in
time and can be laid out); `Servable` adds that every allocation fits the truck, as the
validator checks weight, floor and height of what is on board whatever its search does. Every stage has a deadline, so where a route can be served the
search may still miss it; it never accepts one that cannot. The cheapest of the moves looked at
in time is any of them. Plans with the same routes are one plan, whatever the order
of their stops. A plan with routes has its benchmarks unless its comparison fails, which is
caught (`compared`). Drivers are paid alike. The workers share nothing, so they run one after the other.

## 3. What the runs check

| Run | Question | Answer |
|---|---|---|
| `job_safety` | One job, two processes, one cancellation, two applications and two faults in any order | all of `TypeOK`, `StoredByLatestClaim`, `AppliedOnce`, `LeaseIsAttended`, `NoResurrection`, `CancelIsHonoured` hold |
| `job_liveness` | Does a job always come to an end? | yes, under `FairSpec`, unless it stays an orphan of the queue: `EveryJobSettles` |
| `inventory_safety` | Any three operations at once, each rolled back anywhere | all of `TypeOK`, `ReservedIsHeld`, `UsedOnce`, `BooksDriftByAdjustment`, `BufferIsKept` hold |
| `command_safety` | Four requests with one key, in any order, with two faults | all of `TypeOK`, `OncePerFault`, `OnePayload`, `AnswersAreTrue` hold |
| `outbox_promise` | Two workers, three events, one of them without transport, one fault, one retry | `DuplicatesAreFaults` and the refinement `Delivers` hold |
| `trip_safety` | Two requests on trips at a time, three in all, next to one change by somebody without locks | all of `TypeOK`, `RowsAgree`, `PackageOnOneTrip`, `PlanIsCurrent`, `SomeoneProceeds`, `DispatchesWhatItChecked`, and the refinement `KeepsSchedule` hold |
| `trip_twice` | An order is on at most one active trip | **violated** |
| `retail_safety` | Six requests, two at a time, on two orders at a pickup point with two slots | all of `TypeOK`, `TokenWhenComplete`, `SlotsAreAccounted`, `CancelledStays` hold |
| `hybrid_safety` | Every run of the search over two orders and two vehicles | `ValidMeansServed`, `CompleteStartIsKept` hold |
| `layout_safety` | Over five hundred routes with up to four items, each with every outcome of its search | all of `AcceptedIsExecutable`, `PruningLosesNothing`, `FastIsConservative` hold |
| `page_promise` | Four actions of a user over two branches and three jobs, answers in any order | `ReadsShowOwnBranch`, `ShowsTheEnd` hold |
| `multi_safety` | Planning requests of one or two orders by any of four sets of drivers, with any solution, deadline and failure | all of `AllocationsAreAccounted`, `RoutesCanBeStaffed`, `AppliedIsSound`, `FullServiceLacksOnlyBenchmarks` hold |

`Outbox`, `HybridSearch` (as `HybridTypeOK`), `LayoutSearch`, `AutomaticDispatch` and `MultiStart` state their
types as `TypeOK` too (`PageTypeOK` in `AutomaticDispatch`), for the reader; their runs ask only
for what says more. Those of `Outbox`, `AutomaticDispatch` and `LayoutSearch` are proved.

Eight more configurations are kept beside the modules: `OptimizationJob_orphan`, `OptimizationJob_final`,
`OptimizationJob_replay`, `CommandIdempotency_executor`, `Inventory_phantom`,
`HybridSearch_partition`, `RetailOrder_cancel` and `LayoutSearch_order` each ask for one
property that a comment, a test or a message of the repository promises and TLC refutes
(`OrphanIsRunAgain`, `FinishedIsFinal`, `ReplayReturnsJob`, `OneExecutor`, `LastUnitsOnce`,
`PlansArePartitions`, `CancelledHoldsNothing`, `InputOrderIsTried`). They are described with the others below;
the findings in `PROJECT.json` quote what they contradict.

*Bounds.* Every property is about one job, and jobs share only the workers and
the recovery pass, so one job is enough. Two processes are what fencing needs
(the one that lost its lease and the one that took over); two attempts and one
stall make every exit of the queue reachable, the final ones included; two
faults allow a hang followed by a crash. Two applications are what it takes to
apply twice. `job_liveness` has one fault, because its state graph is explored
with its fairness.

`inventory_safety` has three transactions: two that conflict and one that
prepares for them or comes in between. Two SKUs at two locations let a
transaction lock two balances in both orders and move goods between locations;
one of the four balances has no row at the start. One reservation of two is active
at the start, so that its commit, release, settlement and move can overlap
without spending a transaction on creating it. Quantities up to two give a
settlement that picks nothing, a part, and all of a reservation.
`Inventory_phantom.cfg` starts without any balance.

Rows of different keys share nothing, so one key is enough. `command_safety` has
four requests: with two faults a command can take effect three times, and the
fourth request would be one too many. Both payloads occur in every mixture.

`outbox_promise` has three events against a batch of two, so that the limit and
the rest of a batch matter, and one event of a type that no transport takes. Two
attempts make dead letters. There are fewer faults than workers, so that one
worker lives (`SomeoneLives`).

`trip_safety` has two orders, two vehicles and two drivers, so that requests can clash in
one of them and agree in the others, and take the locks of two kinds in both orders; one
order is of the shop, whose packages exist before it is planned, so that only the optimizer
can plan it. Three requests allow a plan, its publication and another plan or an attempt to update,
with any two of them at once; one change by others is enough to fall between a read and a write.

`retail_safety` has an order of two packages, for the race of the last two scans, and
one of one package, at a point with two slots for three packages. Two wrong codes revoke a
token. Requests are bounded, so the system comes to rest.

`hybrid_safety` has two orders that can share a route or not, two trucks of one profile of
which one may not carry the second order (the cached verdict is wrong for it), and a floor
on which the quick check and the final one disagree. Patience and audit slots are
small enough to run out. The search ends.

`layout_safety` has a floor of 3 by 2 and three items of every shape that fits: enough for
boxes that bar each other's way, for turns past a corner, for mirror images and for
items that stay longer. The routes load together or apart, unload before, between and
after, with the input in either order; an item that only fits when it is turned, four
items whose layouts exceed the 32 that are followed up (`MaxLayouts`, the number of the
code), and routes with an error in each of the things that are tested are added. The
search of a route ends, hence no deadlock check.

`page_promise` has two branches and a branch with two jobs, so that a late answer can be of
another branch or of an older job of the same one; four actions are enough to
start, change the branch, come back and start again.

`multi_safety` has three trucks over two days and orders of one and of two packages; two of
them need two trucks each, so that a route carries parts of both, and the rollback of one can
lose the other's. The four sets of drivers give a truck that only a merge could use and nobody
may drive, different slots to OR-Tools and to the hybrid search, fewer trucks than the
branch has, and no usable one. `TinyOrders`, `TinyTrucks` and `MaxCandidates` (3, 2 and 3 in the
code) are chosen so that both kinds of request, and more plans than are returned, happen;
`MaxRuns` cuts the three searches of such requests to two (with three the run passes as
well, in minutes). The second hybrid search needs eight allocations and stays out.

*Fairness of the page.* Jobs settle, and polls are sent and answered (the number of calls
that fail is bounded); nothing is assumed of the user, the socket or any other call.

*Fairness of the outbox.* A worker polls every two seconds and goes through its
batch (`WF` on `Work`); delays and the leases of workers that left run out. Which
way a publication ends is open: an event whose transport always fails ends as a
dead letter.

*Fairness of the jobs* (`FairSpec`). Worker processes run (`WF` on `WorkerStep`); BullMQ
hands out what waits (`SF` on delivery, because other jobs may keep the workers
busy in between); the recovery timer fires every five seconds
(`optimization-recovery.service.ts:27-39`); locks and leases nobody renews run
out. Nothing is assumed of users, of faults, of the outbox, or of traffic that would push old
entries out of Redis (`Evict`). So `EveryJobSettles` has one exception, and names it: a row that
waits while Redis still knows a finished entry of its job (`Orphan`) may do so for ever.
`OrphanIsRunAgain` shows how it gets there, against what the runbook says. Everything else that
may go wrong, a crash, a hang, a lost Redis, a cancellation in between, ends in a settled job.

*What the violated runs show.*

- `OrphanIsRunAgain`: a worker crashes; BullMQ redelivers the stalled entry after 30 s;
  the claim is refused because the lease of the dead worker lives for five
  minutes; `process()` returns and the entry is *completed*. When the lease has
  run out the recovery pass moves the row to RETRYING and calls `queue.add`,
  which Redis ignores because it still knows the `jobId`. The job waits until a
  hundred newer ones have completed.
- `FinishedIsFinal`: `cancel()` reads RUNNING, the worker stores SUCCEEDED, `cancel()`
  writes CANCEL_REQUESTED by id alone; the recovery pass then has a worker turn a
  finished (or even applied) job into CANCELLED.
- `ReplayReturnsJob`: the worker overwrites `requestHash` with the hash of the
  solver's input, so a repeated `create` with the same key is a conflict.
- `LastUnitsOnce`: `SELECT ... FOR UPDATE` of a balance that has no row yet
  locks nothing. If the first receipt of the SKU commits between that statement
  and the read that follows it, two reservations see the same sellable units, and
  only the constraint `reserved <= onHand` stops them: the safety buffer is sold.
- `OneExecutor`: a request outlives its five minutes, a second one takes the
  row over, the first fails and its `failCommand` puts the row to FAILED under
  the second, and a third is granted execution next to it.

- `trip_twice`: the only thing that keeps an order off a second trip is its status. A dispatcher
  plans an order, which gets its packages; an edit that read CONFIRMED before writes CONFIRMED
  after; a proposal of the optimizer then plans it again by the keys of these packages, which are still
  READY. `assertPackagesNotOnActiveTrip` does not see them, as a dispatcher's stop tasks name none.
- `CancelledHoldsNothing`: the cancellation lists the order's reservations, an allocation moves
  them, the cancellation then releases those it has listed, which are released already.
  The order is CANCELLED and its new reservations hold stock for ever.
- `PlansArePartitions`: merging the routes of the best plan goes on with the unassigned
  list of the plan the search had moved to, so that an order is on a route and
  unassigned. `ValidMeansServed` holds all the same: the audit refuses such a plan.
- `InputOrderIsTried`: the items of a stop are put on board in one order only (those that
  stay longest, then the largest, then by id), so that an item may bar the way of the next
  one. The route is rejected as having no layout, although it fits in the order of the
  input, and the quick check accepts it.

Three formulas of `MultiStart` state what a comment or a message promises and TLC refutes,
as runs of their own with the constants of `multi_safety` show:

- `OfferedCanBeApplied`: the hybrid search names drivers by their id of the day, which no
  application finds.
- `FallbackServesMost`: a search that found nothing lists no order as left out, so that its
  empty plan is the best of those that do not serve all.
- `DiagnosticsArrive`: a plan without benchmarks has null for them, and the backend refuses
  the batch instead of showing why nothing could be planned.

`AllocationsAreAccounted` excepts plans in which a route was lost when an order was taken out:
they may keep a part of another order. `AppliedIsSound` holds nevertheless, because the
application asks for whole orders.

`PruningLosesNothing` therefore compares with the layouts that the search could find if it
ruled out nothing on the way: places at corners, in the one order. Places away from
the corners of all boxes can be missed as well: a floor of 3 by 3 with four items has
routes that only such a layout serves.

`OncePerFault` says what the key is worth: not "once", which a crash between the
commit and `completeCommand` refutes by design, but at most one effect more for
each fault, whatever the requests do.

`BooksDriftByAdjustment` says how far the books can be trusted: the sum of the
ledger and the quantity on hand part only by an adjustment that overwrites a change
committed after it read the balance. That lost update is in the code
(`createAdjustment` reads without a lock and writes an absolute value); no
document denies it, so it is stated as a bound on the damage.

`SlotsAreAccounted` says how far the slots can be trusted: two scans of one package that
both read it as not arrived take two slots, and two collections give them back twice;
no other order of scans, collections and failures is off by one. `CancelledStays` allows
an edit and a collection to overwrite CANCELLED, as they test nothing, and shows that
an allocation cannot. `PlanIsCurrent` and `PackageOnOneTrip` likewise except the orders
that a stale edit gave back (`reopened`), `PackageOnOneTrip` by leaving them out and `PlanIsCurrent` by
what it says of them: the two trips of such an order were planned with different versions of
it, so that at no time both pass for current. A plan may well be stale: a payment or the choice of a
source raises the version of an order on a trip, and publication then refuses the trip
(`DispatchesWhatItChecked`), for good, as no update is saved. That is a finding.

What a run cannot show of the page: clearing a running job leaves `starting` set, so that
nothing can be started, the answer of a restore overwrites a job that was started
meanwhile, and a start that outlives its branch puts a job of the other branch onto the
page, which hides it. Findings say so where a message of the page denies it.

## 4. What is proved

`OptimizationJobProofs` proves, for any sets of jobs, processes and requests
and any bounds, from the named assumptions on the constants only:

| Theorem | Property |
|---|---|
| `TypeCorrect` | `[]TypeOK` |
| `NothingResurrects` | `NoResurrection` |
| `LeaseAttended` | `LeaseIsAttended` |
| `LatestClaimStored` | `[]StoredByLatestClaim` |
| `TripsOnce` | `[]AppliedOnce` |
| `CancellationHonoured` | `CancelIsHonoured` |

The inductive invariant is built in layers, each inductive relative to the ones
below. (1) `Typed`: types, and that a process in the middle of `process()` has a
job and a request past its first read names one. (2) What a step may do to a
row (`RowStep`): from a waiting row only a claim leads to RUNNING, only a
leased update leads to a final status, and only a late cancellation leaves one.
(3) Claims: a process that still holds the lease computes for the row's latest
attempt. That is why `Finalize`, which tests owner and status and not the
attempt, is enough: an owner that was superseded by a later claim of *another*
process fails the owner test, and the same process cannot claim twice within
one `process()`. (4) Results: a stored result is of the latest claim and the row
is past waiting, so nobody claims it again. (5) Trips: trips exist only of a row
that is no longer applicable, and an application that is still to commit read
the claim that is stored. `NoResurrection` and `CancelIsHonoured` follow from
(2) and the guards.

`InventoryProofs` proves, for any SKUs, locations, reservations, quantities and
number of transactions:

| Theorem | Property |
|---|---|
| `TypeCorrect` | `[]TypeOK`: no balance below zero, uncommitted ones included |
| `ReservedIsHeldAlways` | `[]ReservedIsHeld` |
| `HeldIsOnHandAlways` | `[]HeldIsOnHand` |
| `UsedOnceAlways` | `UsedOnce` |
| `BooksDriftByAdjustmentAlways` | `BooksDriftByAdjustment` |
| `BufferIsKeptAlways` | `BufferIsKept` |

Its invariant has three layers. (1) `Typed`: types, and what a transaction has at
hand at each point of its control. (2) `Protected`: a reservation with an
uncommitted change is locked, together with its balance, by the transaction that
changed it, and was unused before; `AtHand`: a transaction that is about to use a
reservation has locked it and found it active. (3) `Balanced`: the committed
balances *and* the uncommitted ones are the sums of their reservations. Layer 2 is
what carries layer 3 over `Commit` and `Rollback`: for each balance either all of
its changed reservations go with it or none does (`ChangesOfBalance`). The
sum itself is the cardinality of the set of reserved units, so that adding and
dropping a reservation are facts about finite sets (`HeldAdd`, `HeldDrop`).
The two action properties rest on these layers. A write that is neither an adjustment nor
an undoing moves quantity and ledger alike, which each action shows for the balance that it
writes. `BufferIsKept` needs one layer more, `RInv`: a balance that had a row at the start
keeps it (`Known`), and a transaction that has read such a balance as sellable
still holds its row lock when it books (`Checked`). It stops at balances without a row, where
`SELECT ... FOR UPDATE` locks nothing; `LastUnitsOnce` is about those, and false.

`CommandProofs` proves of `CommandIdempotency`, for any number of requests, payloads and
faults:

| Theorem | Property |
|---|---|
| `TypeCorrect` | `[]TypeOK` |
| `RightsConserved` | `[]RightsAreConserved` |
| `EffectsAreCounted` | `[]OncePerFault` |
| `PayloadsAgree` | `[]OnePayload` |
| `AnswersHold` | `[]AnswersAreTrue` |

`OncePerFault` is not inductive: it does not see the requests that are about to
take effect. `RightsAreConserved` counts, besides the effects, the requests that
execute, the requests that will hand the row back through `failCommand`, and the
row itself when its next reader may claim it. A claim moves the row's right to
the request, because its update tests the version it has read; a business
transaction turns it into an effect; only a fault adds one (`Balanced`, proved
for each action by `MoveBalance` or `EffectBalance`).

`OutboxProofs` proves, for any events, workers, batch sizes, attempts, retries and faults:

| Theorem | Property |
|---|---|
| `TypeCorrect` | `[]TypeOK` |
| `DuplicatesBounded` | `[]DuplicatesAreFaults` |
| `PromiseKept` | the safety part of `Delivers`: every step of `Outbox` is a step of `AtLeastOnce` or a stutter |

`SInv` says how rows and workers agree: a dead row is locked by nobody, a worker has one copy
of an event at most, a copy has the attempts of its row as long as its worker has the lock, and what
is about to be marked has been delivered. `PromiseKept` follows from it action by action.
`DuplicatesAreFaults` needs more, as it sees neither who is about to deliver nor what may be claimed
again. `Balanced` counts those rights too: one for each worker that has the event in its batch or is
about to count its failure, and one for a row that is not published, unless the worker that locked it
is at work on it. A claim hands the row's right over, which is why it must not take a row with a live
lease; a delivery uses a right up; a failed statement, a crash, a lost answer or an overrun lease
makes one more, and each of these is a fault (`PaidFor`, proved for each action). That every event is
settled in the end is model-checked only.

`TripPlanningProofs` proves, for any vehicles, drivers, orders, packages, routes, requests
and number of trips:

| Theorem | Property |
|---|---|
| `TypeCorrect` | `[]TypeOK` |
| `RowsAlwaysAgree` | `[]RowsAgree` |
| `ScheduleIsKept` | `KeepsSchedule`: `TripPlanning` implements `FleetSchedule` |
| `DispatchIsChecked` | `DispatchesWhatItChecked` |
| `PackageIsOnOneTrip` | `[]PackageOnOneTrip` |
| `PlanStaysCurrent` | `[]PlanIsCurrent` |
| `NoUpdateIsSaved` | `[]UpdatesAreRefused`: an update that has come to its writes finds packages |
| `NoCircularWait` | `[]SomeoneProceeds` |

(1) Types, and that a request has read what its place in the control says it has. (2) `RowsInv`:
the numbers of trips are used without a gap, and a trip, its assignment and its two
reservations tell the same story. (3) The refinement needs nothing more than (2) and the
guard `NothingExcluded`: no advisory lock is used in its proof, so that the schedule
is safe even where a lock is forgotten. (4) `CopyInv`: what a request has read of a trip is
the trip, or an older version of it, which the version test of its write refuses, and past its checks it
has seen the versions that the trip was planned with; `PackInv`: the orders of a trip have
packages. (5) `BookInv` adds that
a request past its checks holds the locks of its orders (`Locked`), that its orders
still are what it has checked but for changes by those who take no lock (`AllChecked`), and
which orders are taken by which trips (`Taken`); `PackageOnOneTrip` and `PlanIsCurrent` are
inductive with these. (6) `OrderInv`: a request holds only locks that come before those it
still asks for, and only finitely many requests are at work. Of the requests in a set that
wait, take the one whose next lock comes last: whoever holds that lock waits for an even
later one, or waits for nothing. A set with an idle request needs no argument, as that one does not wait.

Liveness and its fairness are model-checked only: TLAPS has no rules for
`ENABLED` here. The violated properties need no proof.

`RetailOrderProofs` proves, for any orders, packages, places, staff and number of requests:

| Theorem | Property |
|---|---|
| `TypeCorrect` | `[]TypeOK`: the slots stay between none and all of them |
| `TokenTheorem` | `[]TokenWhenComplete` |
| `SlotsTheorem` | `[]SlotsAreAccounted` |
| `CancelledTheorem` | `CancelledStays` |

What a request has read is old when it writes, so the invariant says for each member of the
staff what of it still holds (`TaskInv`). (1) `AllocateInv`: an allocation whose version is
still current read the order after its cancellation, if any; that gives `CancelledStays`.
(2) `ScanInv`: a scan that has counted holds the row lock of the point, so that no other scan
has ended since, and its count still is right; that gives `TokenWhenComplete`, for
whichever scan ends last sees all the others. (3) `CollectInv`: a collection has read every
package that is not released, so that nothing it leaves out occupies a slot. The sum of
slots then moves with `Occupants`, a finite set that each step changes by one package or by
those of one order. `OrderSteady`, `TokenSteady` and `PackageSteady` collect what the steps of others never undo, so that each
action is proved for its own request and once for all others.

`OptimizerProofs` proves of `MultiStart`, for any trucks, drivers, orders, packages, days, prices and bounds:

| Theorem | Property |
|---|---|
| `RoutesCarryWhatIsAssigned` | at every point of a search `assigned` is what its routes carry |
| `PlansAreAccounted` | `[]AllocationsAreAccounted` |
| `DriversForAllRoutes` | `[]RoutesCanBeStaffed` |
| `FullServiceNeedsOnlyBenchmarks` | `[]FullServiceLacksOnlyBenchmarks` |
| `AppliedPlansAreSound` | `[]AppliedIsSound` |

The invariant says of a running search that its routes have slots and loads of their own,
that drafts are apart from them and from each other (`DraftsAreApart`), that the queue holds
only what is not assigned (`QueueIsLeft`), and, from the moment incomplete orders are out,
that parts of an order stay together unless a route was lost (`PartsStayTogether`). The step
that matters is `DropIncompleteSplits`: what it takes out are whole groups, so what is left of
the others is whole unless a route is lost.

The other three are layers on top.

- *Drivers.* `RequestInv` says of the request that its rosters are finite, that a slot is one
  truck on one day, and that the safe slots can have drivers all at once. The code finds them
  by augmenting paths; the model's `Matched` chooses the outcome, and the lemmas show that there is
  one (`FoldExists`) and that it gives each slot it keeps a driver of its own
  (`MatchedIsStaffable`). `StaffInv` carries this through a search: until recovery is over
  routes use safe slots only, and each merge is taken only where drivers remain.
- *The batch.* `BatchInv` says that what is returned while a plan serves everything is refused
  only if one of its plans has no benchmarks: it holds only plans that serve everything,
  in the order of their scores. The order exists because ranks are an injection of a
  finite set (`Ranks`), and scores are compared as the code compares them.
- *Loads.* `LoadInv`: each route's truck may take, and can carry, what is on it, whichever
  stage put it there. `PlansInv` says of each plan that either drivers and loads are sound, or
  its driver ids are no drivers' ids, as those of the hybrid search (a finding), and it cannot
  be applied. That an order is whole is not known of the plan: it is what `Applicable` tests.

Besides the number of days and the sequence of trucks, the proofs assume that a roster is
finite, that the number of candidates asked for is natural, and that the id
`<driver>::day:<n>` of a driver on a day is no driver's id: an id of the database is a UUID.

It proves of `HybridSearch`, for any finite sets of orders and vehicles and whatever the
windows, distances, profiles, packing verdicts and bounds:

| Theorem | Property |
|---|---|
| `ValidIsServed` | `[]ValidMeansServed` |
| `StartIsKept` | `[]CompleteStartIsKept` |

Both come from one invariant, `ResultInv`, which says nothing of the plans the search works on: a
merge can make them list an order twice (a finding), and a cached verdict can belong to another
vehicle. What it says is where a plan that is returned comes from. It is the initial
one, which `solve_greedy` built route by route with its own evaluation (`StartServes`), or it has
passed an audit. The lemma the rest stands on is `AuditedIsServed`: a plan without
unassigned orders that the audit lets pass has each order on exactly one vehicle, once for
pickup and once for delivery, each route is on time for its own vehicle, and its floor can
be packed, the routes that the audit rebuilt one order at a time (`OneByOneShape`)
included. Counting is what makes it long: the audit counts stops and compares sets of
served ids, and the property counts vehicles. `PairwiseStep` and `FallBackStep` then show that each way to
the end keeps a complete start: the last fallback is the initial plan itself.
That orders and vehicles are finite is the one assumption (`FiniteAssumption`).

`CommandProofs` proves of `AutomaticDispatch`, for any branches, jobs and numbers of actions, reloads and failures:

| Theorem | Property |
|---|---|
| `PageTypeCorrect` | `[]PageTypeOK`: what is stored for a branch is a job of that branch |
| `ReadsShowOwn` | `ReadsShowOwnBranch` |

The invariant is `Awaited`, about the calls that are still listened to: each has a job of the
branch it was sent for, a poll and a reload are of what the page shows, and a restore is of the
branch of the page. `Render` keeps it because an effect is cleaned up in the same commit in which
its dependencies change; a start is the one call that nothing voids, which is why the
property excepts it.

`HeldIsOnHand` follows from `TypeOK` and `ReservedIsHeld`, and `RightsAreConserved` is the
strengthening behind `OncePerFault`; they are proved, and no run repeats them.

`LayoutProofs` proves, for any floor, payload and limit of layouts, and any routes of items with
positive sizes:

| Theorem | Property |
|---|---|
| `ValidIsExecutable` | `[]AcceptedIsExecutable` |
| `LayoutTypeCorrect` | `[]TypeOK`: what is on board stands inside the floor, side by side, at every moment of the search |
| `QuickCheckIsConservative` | `[]FastIsConservative` |

- *Geometry.* `ClearPathLeaves`: if the code finds a way for a box, straight or over its
  grid, then the box can be pushed out by units. A set that is closed under pushes contains
  with the start the end of each grid segment that is swept clear (`SegmentWay`), and by
  induction over the rounds of the breadth first search what it reaches (`ReachedIsPushed`).
- *Orders.* `UnloadOrderLeaves`: the order of `_find_unload_sequence`, if there is one, lists each
  item of the stop once, and each box has a way out when those before it are gone.
  `LoadOrderIsAll` and `CandidatesAreCorners` say that the sorted lists of items and of places
  hold what they sort; the keys differ, so that the order exists (`SortedIsInOrder`).
- *Cycles.* `CyclesAreParts`: the load cycles, one after another, are the route, and each
  starts with an empty truck (`CycleStartsEmpty`), so that the ids on board at the end of a
  cycle are those of the whole route.
- *The stack.* `LayoutInv`: for every stop below the one the search is at there is a frame, and from
  the boxes of each to those of the next there is a good step: its unload order can be carried
  out, the items it loads came in one after another (`OneMoreEnters`), and the weight is
  within the payload. A frame of an item holds a part of such a step. Each action pushes,
  pops or replaces the top, and `Way` reads off the good steps when the last stop is loaded.
  This is why an unload order that is kept in a frame may be used although the search has gone on
  and come back since.
- *The floor while going back.* `LayoutTypeCorrect` needs one conjunct more (`GoesOn`): on a return
  the code leaves the node as it was, with boxes that are no longer those of the top frame,
  and they still stand side by side.
- *The quick check.* `QuickIsExecutable` follows its one layout through the stops and shows at each that
  it is among those that `Executable` follows: an item goes straight in (`PlacedIsLoaded`), and
  what is unloaded leaves in the order of its distance from the door (`UnloadedLeaves`), the
  straight way of each being free of what is still on board. The proof made the reference
  weaker in one place: `Executable` asked of any route that an item leaves after the stop that
  loads it, counting its first delivery. The quick check lets an item be delivered, loaded
  again and delivered again, and such a route can be carried out, so the condition is now asked
  only in the comparison with the search, which has it.

Induction goes through `Numbers`, `Least` and `Recursion` (`Iteration` for functions of numbers), which
state for a set or a function what the library states with operators as parameters.

`PruningLosesNothing` stays with TLC, and it is shown for the routes and the floor of the run
only. The exchange argument that one would expect does not go through: of two interchangeable items
the later may stand at a corner that the earlier has made, and when they are exchanged that
corner is not there yet, so that a mirror image which is dropped need not have a twin among
the places that are tried. No route of the run depends on it. Liveness (`EveryJobSettles`,
`ShowsTheEnd`, the fairness of `Delivers`) is model-checked only too, as said above. `HybridSearch`
and `MultiStart` leave the geometry out: for them whether a floor can be packed is a constant.

## 5. Plan

1. `OptimizationJob`, `Inventory`, `CommandIdempotency`, `Outbox` with `AtLeastOnce`,
   `TripPlanning` with `FleetSchedule`, and `RetailOrder`, each with its proofs: done.
2. `FleetRequest`, `RouteSearch` and `MultiStart`, with the proofs of what a search accounts for: done.
3. `HybridSearch`, `LayoutSearch` with `LayoutReference`, and `AutomaticDispatch`, each with its
   proofs: done.
4. Worth proving next: that the search of `LayoutSearch` ends without its budgets, which needs a
   measure of the layouts that are left to try.
5. Worth modelling next: the choice among candidates on the dispatch page; customer feedback,
   whose `addMessage` writes a status decided on an earlier read; the load checks of
   `trips.validator.ts` as operators.

## 6. Not modelled

Authentication, master data, analytics, audit log, files, map and socket clients keep no
state of their own that interleavings could damage, or are input and output only. The
frontend's other pages call the backend once per click and keep nothing. Of the
optimizer, the construction of the OR-Tools model, distances and times as floating-point
numbers, and the other heuristics are out of TLC's reach; what they return goes through the
validation, the audit and the floor layout that are modelled.

Most of the repository's lines are of these kinds: JSX and visualisation in the frontend,
database seeds, DTOs and query builders. The models cover the code that changes
shared state, which is a small part of the lines; they cannot cover most of the rest, since
nothing in it depends on an order of steps.

Within modelled components: `packOrder` after the packages of checkout, `createTransferShipment`
(one insert under a unique index), the number of a transport order (its unique index refuses
the second of two), and the creation of orders are left out as single statements.
