# Schurfer: a verification development of the execution service

Schurfer watches crypto markets, decides on trades and places them on exchanges.
The part in which an unlucky order of events costs money is the *execution
service* (`apps/execution`, Python, asyncio). It sends entry orders, protects
them with stops, keeps a journal in Postgres and coordination keys in Redis, and
must stay safe when an exchange does not answer, a database write is lost, or the
process dies between two steps. This directory models that core in TLA+, checks
it with TLC on small instances and proves its main safety properties with TLAPS
for every instance.

File names below are relative to `apps/execution/schurfer_execution/`.

## 1. The system

### Parts, their state and their operations

| Part | State | Operations | What makes it hard |
| --- | --- | --- | --- |
| Worker readiness gate (`supervisor.py` 110-175) | ready workers, operational flag, safety blockers, open flag, generation | set and clear a blocker, mark ready, close, force close | entries read it twice, with seconds of network calls in between |
| Worker supervisor (`supervisor.py`) | task, tick tracker, restart history and state per worker | monitor pass, cancel, restart with back-off, give up, stop | one clock reading per pass, an await inside the pass, stop() during that await |
| Order lock (`order_lock.py`) | a Redis key per instrument with a token and a TTL | acquire, renew, release, by Lua scripts | expiry during slow work, requests that take effect late or whose answer is lost |
| Live entry (`orders.py`, `order_attempts.py`, `entry_recovery.py`, `protective_stop.py`) | one durable attempt row per entry, the order, the position, the trade | admit, lock, check, reserve, send, recover, stop, journal, flatten | timeouts, late fills, lost status writes, restarts, two exchanges at a time |
| Reconciliation (`reconciliation_worker.py`, `reconciliation.py`, `exchange_orders.py`) | snapshots of exchange and tables, incidents, blockers | scan: fetch, resolve attempts, classify, upsert and resolve incidents, set or clear blockers | its sources are read at different times, and the result is applied later still |
| Late fill recovery (`late_fill.py`) | none of its own | lock, re-read, look up, settle, create a flatten task | shares attempts with the entry path |
| Daily PnL lease (`tracker.py`, `risk.py`, `journal.py`, `incidents.py`, `cost_worker.py`) | accounting generation, trades, close legs, incidents, pending-close markers, lease key | tracker tick, close, retry of a close, settle costs, admission check | the lease is published after what it was computed from has changed |
| Emergency close (`emergency_close.py`, `emergency_accounting.py`, and `protective_stop.py`, `probe_close.py` that write the tasks) | task row with its claim, close rows, the close orders and the stop on the exchange | create, recover, claim, link, follow, check, intent, send, account | several executors, a claim that expires under a stalled one, closes with unknown answers, one close without a database |
| Position close and monitor (`orders.py`, `monitor.py`) | close attempts, exit keys | exit rules, close, recovery of recorded closes each tick | a second exit order, or an exit beside an emergency task |
| Live probe (`live_probe.py`, `probe_*.py`) | authorisations, reservations | reserve, begin sending, revoke | budget under concurrent use |

Around it are the trader (signals and decisions that end in `place_order`), paper
and shadow trading, and other applications: the collector, the market hot set
service, the notifier, the API gateway (which forwards orders, closes, stop and
resume to the execution service), analytics and the web interface.

### How the parts interact

An entry is admitted by the gate, takes the order lock of its instrument, passes
the risk checks, including the PnL lease, reserves a slot by writing its attempt
row, checks lease, trading switch and gate once more, and sends. The supervisor
and the reconciliation worker drive the gate. Reconciliation and late fill
recovery resolve what the entry path could not. A fill whose stop cannot be placed
becomes an emergency close task, first run by the path that wrote it, then by a
worker; the monitor's exits close the same position under the same order lock.
Closes and cost settlements move the accounting generation, which invalidates the
lease. Everything in the execution process is atomic between two awaits, and every
await is a place where the other tasks run. Redis, Postgres and the exchanges may
fail at any of them.

### Correctness, part by part

- **Gate**: an order goes out only if the gate never closed between its two reads.
- **Supervisor**: an open gate means that the critical workers run and have not
  been silent for long; shutdown is final; restarts stay in budget; a dead worker
  is dealt with; health is followed by an open gate.
- **Order lock**: nobody entered during the body of an operation that ended
  normally; nobody disturbs a successor; a key without a live heartbeat is freed;
  with timely renewals it is mutual exclusion.
- **Live entry**: all exposure is counted, the cap on positions is kept, what is
  known to be unresolved blocks entries, a clean scan has proved ownership, and
  what is lost sight of is found again.
- **PnL lease**: an entry is admitted only on the journal's own loss figure; a
  pending close keeps the lease out; readiness returns; pending closes resolve.
- **Emergency close**: as long as the task knows of all its closes, they work one
  after the other, none is sent
  or fills after `confirmed_flat`, together they never fill more than is owned, a
  round trip is accounted only if it is whole, and every task ends.
- **Exits**: a pass does not send beside a recorded exit that may still fill.

## 2. The modules

| Module | Models | State |
| --- | --- | --- |
| `ReadinessGate` | the gate as operators on a record | none; used by three modules |
| `GateToken` | the gate's methods against the two reads of `place_order` | `gate`, `generation`, `phase`, `token`; `closedSince` is history |
| `Supervisor` | tick tracker, monitor loop, policies, stop | per worker: task, state, beat, failures, restarts; the monitor's position in a pass |
| `OrderLock` | one instrument's lease | `owner`, `ttl`; per operation: phase, heartbeat, timer; `shared` and `late` are history |
| `Reconciliation` | `attempt_state_from_order` and `classify_position_state` as operators | none |
| `LiveEntry` | entry path, reconciliation scan and late fill recovery, composed | per entry: `pc`, attempt, order, position, trade, task; lock, gate, incidents, the scan's snapshot; `known` is history |
| `PnlLease` | tracker, journal writers and admission, composed | `gen`, `row`, `incident`, `held`, `marker`, `lease`; positions of tick, writers and entries; `parked` and `late` are history |
| `FlattenOnce` | what an emergency close task promises, as an abstract specification | `working`, `verdict` |
| `EmergencyClose` | the task, its executors, its accountant and the exits beside it; implements `FlattenOnce` | `task`, `row`, `linked`; `order`, `stop`, `pos` on the exchange; `lock`; per executor `pc` and `my`; per exit `exit`; `lost` is history |
| `GateTokenProofs`, `SupervisorProofs`, `OrderLockProofs`, `LiveEntryProofs`, `PnlLeaseProofs`, `EmergencyCloseProofs`, `EmergencyCloseFills`, `EmergencyCloseLocks` | the theorems | |
| `MC*` | instances for TLC | |

Each action is the code between two awaits, or one transaction, or one effect at
the exchange or at Redis. The comment above it says which, and the `map` of
`PROJECT.json` lists every definition with the lines it stands for.

**Supervisor.** Time is discrete: `Tick` ages every heartbeat, restart and
back-off. Ages are capped (`BeatCap`, `RestartCap`) just above the largest value
the code compares them with. The deque of restart times is the set of their ages:
no two restarts of a worker have the same age, because a back-off lasts at least a
tick (`EveryRestartCounts`, proved). `MaxPass` bounds how long a pass may wait for a
cancelled worker in the property on silence; the code itself has no such bound.

**OrderLock.** A request and its effect are separate steps, so a renewal or a
release can take effect after the key has expired or passed on, and either may be
lost before or after its effect. `outcome` tells a release that was answered
(`normal`) from one that failed in transport (`unconfirmed`). The code returns
normally from both, and its docstring promises that after a lost lease "callers
cannot treat the outcome as a normal success"; the comment in `_release` accepts
the second case. `NormalMeansExclusive` is therefore about the first, and about
those who enter after the operation: its predecessor may be stalled and at work
still, and a successor beside it may end normally. The predecessor does not.
`Acquire` takes the SET, its answer and `__aenter__` (93-116) in one step. The
heartbeat of the code starts later than the TTL by the time the answer takes, at
most the socket timeout of 5 s (`main.py` 72, 113); TTL and interval are 20 s apart
(`order_lock.py` 17-18), so the first renewal is still in time. `late` remembers
that time passed while a renewal was due, or that a renewal failed. Nothing in the
code prevents either, so mutual exclusion is stated as long as it is false.

**LiveEntry.** A status write (`Mark`) may be lost, as every writer in
`order_attempts.py` swallows its errors. `ExchangeStep` lets an accepted or unseen
order rest, fill, or end without a fill at any later time. `Restart` ends every
call and the scan where they stand and starts again from the start-up blockers.
Amounts are abstracted to whether the fill is known. The one-position-per-base
rule appears as one position per instrument, so instruments of the model stand
for different bases. The lock is a plain mutual exclusion here, as the proved
case of `OrderLock` with timely renewals provides; lease loss is studied there and
in `EmergencyClose`. An entry may
find the lock busy at any time, since closes, probes and emergency tasks take it too.
Three things are coarser than the code. `Unpriced` writes the incident and completes
the attempt in one step (`orders.py` 73-127, 804-806). `RecoverOpen` always links the
attempt, where `_LINK_COMPLETED_TRADE` (`order_attempts.py` 146-159) may match no
row. `ResolveLateFill` creates a task without saying which closes it adopts
(`late_fill.py` 188-208): that is `LateFill` of `EmergencyClose`.

**PnlLease.** Amounts are losses per trade: an `Estimate` when a close commits and
`Net` once its costs are settled, so settlement can break a limit that the estimate
kept. Every journal transaction includes what the triggers of migration
`0062_live_trade_costs` do to the generation. A commit may take effect with its
answer lost.

**EmergencyClose.** One position of `Owned` units on one instrument, its protective
stop and one task. `trade` tells a probe's position, which has a journalled trade,
from a fresh entry, which has none. Quantities are counted, since the property is
about sums. The exchange takes, refuses, fills in parts and ends orders at any
time, and may list an order late (`FollowMisses`) or without its amount
(`FollowNoAmount`). A pass is one action per await that others can see: claim,
order lock, `link_late_closes`, follow-up, stops, position, cancel, intent, the
check of the claim, send, answer, and the write of the task. `PassFails` is an
exception or the death of the process at any of these places; a claim may be taken
from an executor that is still at work, and a live holder may lose the order lock;
`lost` remembers which of the two has happened, and whether there is a close that
the task does not know of.
The task is written by the path that found the position unprotected, which may die
(`CreatorDies`), by the outage recovery (`Recover`) or by late fill recovery
(`LateFill`), and these two adopt the close that went out without a database if the
exchange lists it. An order whose client id is taken is rejected (`Submit`,
`Known`). A remainder may round to zero (`RoundsToZero`), which ends with an operator.
`Follow` looks up and marks all closes in one step (`emergency_close.py` 916-941);
in the code a stalled pass can write an older status over a newer one. That reopens
a row and never settles one, and happens only to a pass that lost its claim.
An operator may trade the position by hand once (`HandTrade`), before the task is
declared flat: somebody who opens a new position later is not the task's business.
The statuses requested, sending and unknown are one (`runnable`), as the executor
treats them alike. Not in the model: opposite positions, several stops of one
entry, prices of the legs, alerts.

`AccountsTheWhole` has a condition: nobody at work lost a lock or a claim, or no
row of the task is open. Without it the property is false, in an instance larger
than that of the run: an executor whose claim was taken gets its answer late and
marks its close `submission_unknown` (`emergency_close.py` 1030) although another
one has found it completed and the task flat, and the accountant then counts the
other closes only. It needs a lost lock, a stolen claim, a stop that filled and a
hand trade that make the smaller sum look whole. The hypothesis came out of the
proof: `FlatIsFinal` below needs it.

**A close the task does not know of.** While the database is down one close,
`<entry>c1`, goes out without a row (`protective_stop.py` 392). A task can exist
without knowing of it in two ways: late fill recovery wrote the task while the
exchange did not list the close, or the commit that wrote the task succeeded with
its answer lost, which `_flatten_through_task` (372) takes for a task that was not
written. Both are in the model, in the run and in the theorems, and from there on
`"close" \in lost`. `PassInv`, `ClosesWithinOwned` and `KeepsPromise` are claimed
until then (`Aware`), and `AccountsTheWhole` of tasks to which it did not happen;
`NoSendBesideAnExit` and `TaskEnds` are claimed in any case. What happens after it is
the subject of `blind_close_doc` (section 6).

## 3. The runs

| Run | Instance | Shows |
| --- | --- | --- |
| `gate_token` | 2 critical workers, 1 other, 2 blockers, 2 entries, generation up to 6 | `SentOnlyThroughAnOpenGate`, `TokenInv`, `ClosedGateHasReason` |
| `supervisor` | a critical worker with one restart per window, another with none | `OpenGateMeansCriticalRunning`, `SilenceIsBounded`, `ClosedForGood`, `RestartBudgetKept`, `NoSpawnAfterStop`, `EndedWorkerIsHandled`, `HealthyGateReopens` |
| `order_lock` | 2 operations, TTL 3, interval 2 | `NormalMeansExclusive`, `OwnerUndisturbed`, `OnlyTheOwnerTouchesTheKey`, `AtMostOneInBody`, `BodyOwnsTheKey`, `LeaseIsFreedEventually` |
| `live_entry` | 2 entries, each on an instrument and exchange of its own, 1 slot | `ExposureIsReserved`, `CapacityKept`, `KnownUnresolvedBlocks`, `CleanScanOwnsPositions` |
| `live_entry_live` | 1 entry, 1 critical worker | `UnresolvedIsNoticed`, `LateFillIsSettled` |
| `pnl_lease` | 1 trade, 2 writers, 1 entry | `LeaseTellsTheJournal`, `AdmittedOnTheJournal` |
| `pnl_lease_live` | 1 trade, 1 writer | `PendingCloseKeepsLeaseOut`, `ReadinessReturns`, `PendingCloseIsResolved` |
| `emergency_close` | the path that writes the task and a worker, 1 exit, 2 units owned and 1 an operator may add, 2 rejections, 2 close orders, 2 faults | `KeepsPromise` (refinement of `FlattenOnce`), `PassInv`, `ClosesWithinOwned`, `AccountsTheWhole`, `NoSendBesideAnExit`, `TaskEnds` |
| `live_entry_doc`, `late_fill_doc`, `pnl_lease_doc`, `blind_close_doc` | as above; `blind_close_doc` has neither exits nor faults | a sentence of the repository that the code does not keep; section 6 |

**Why the bounds are enough.** The races are between an actor and one competitor.
Two entries suffice to overrun one slot and to race the gate. Two operations are
an owner whose requests arrive late and its successor. A TTL of 3 with interval 2
is the tightest that `order_lock.py` accepts. Six generations cover several close and reopen cycles
between two reads. Two writers of one trade let a close meet its own retry, an
incident or a settlement; figures of different trades only add up. `AdmittedOnTheJournal`
compares the figure used with the journal's exactly, so a stale figure violates it
even where the limit is kept. Most safety properties do not rest on these bounds:
they are proved (section 5). The invariants of these proofs were checked with TLC
first, those of the emergency close on larger instances than that of the run.

In `emergency_close` two executors are one that stalls and one that takes its claim,
two units allow a partial fill, a partial close followed by another and a hand trade
of either sign, and two close orders are the first one and its successor. When both
are used up and a remainder is left, the model has no id for a third
(`OutOfIds`). Each exit may die once besides. `MCInit` shares out what else may go
wrong at once, because all of it together is out of reach: without an exit two
troubles out of an operator's trade, a stop (resting, or with its placement
unanswered) and faults; with an exit, beside a probe's position, none (254,420
states). An exit beside any stop and beside either kind of position, without faults
or a hand trade, was checked for the safety properties apart from the run (1,191,905
states), and they are proved for all of it (section 5).

`CleanScanOwnsPositions` is claimed only for entries on different instruments, as in
its run. With two slots and both entries on one instrument TLC finds a scan that
takes the position of one entry for the trade of the other, because classification
goes by instrument and the sources are read at different times; the next scan reads
them again. The theorem has this as its hypothesis (`EntriesApart`); the theorems
about exposure and the cap allow shared instruments.

Symmetry is used in safety runs only, for interchangeable operations, writers and
entries. In `live_entry` an instrument and its exchange carry the name of their
entry, so that a permutation of the entries leaves `Inst` and `Exch` as they are.
Deadlock is checked where the system never stops; it is not for the supervisor (the
process ends), the order lock (every operation ends) and the emergency close (the
task is accounted or with an operator).

## 4. Fairness

- **Supervisor**: the monitor task and the clock go on (asyncio schedules both),
  and a cancelled worker ends at its next await. A worker that swallows its
  cancellation would hold the monitor for ever (`supervisor.py` 355).
- **OrderLock**: time passes, and an operation that reached its exit finishes it
  (the Redis client has timeouts). Nothing is assumed of bodies, which may hang or
  crash. A body that hangs with a live heartbeat keeps the key for ever, in the code
  as in the model, so `LeaseIsFreedEventually` is about an owner whose body ended,
  who died, or whose renewal failed.
- **LiveEntry**: the scan loop takes its steps (`ScanStep`); the database is not
  unavailable at every single scan (`FetchDb`), and the exchange answers a lookup
  some time if it is asked for ever (`ResolveLateFill`). Nothing is assumed of
  entries, restarts, or when the exchange fills.
- **PnlLease**: `TickingSpec` is a tracker whose Redis, database and exchanges do
  not fail at every tick. `RetryFairness`, a monitor that retries each marker
  (`monitor.py` 868-917) and a journal that does not refuse each time, is the
  hypothesis of `PendingCloseIsResolved` only: with it in the specification, no
  close would stay pending and `PendingCloseKeepsLeaseOut` would say nothing.
- **EmergencyClose**: an executor's pass goes on, and the worker comes back every
  two seconds (weak fairness per executor). The path that writes the task
  proceeds. The exchange decides every market order and ends a triggered stop, an
  exit that began ends, the lock of a dead holder expires, and the accountant looks
  at flat tasks (`Progress`). Strong fairness is needed once: the deadline of
  an unknown close passes although passes look it up again and again (`Overdue`).
  Faults are bounded by `MaxFaults`, so `TaskEnds` says that a task ends once the
  faults stop. Nothing is assumed of operators, of exits that did not begin, or of
  the order in which fills arrive. Fairness is a hypothesis of `TaskEnds` alone;
  the safety properties are of `Spec` without it.

## 5. What is proved

All theorems hold for every value of the constants, under the named assumptions
of the modules: a positive renewal interval shorter than the TTL (`acquire`
insists on it), finite sets of entries, instruments and exits, natural amounts,
positive timeouts, a list of workers that names nobody twice, and executors,
exits, "nobody" and a dead holder told apart. A further hypothesis of a theorem is
named with it.

- **`GateTokenProofs`** (`TypeCorrect`, `TokenSafe`, `TokenTracksTheGate`,
  `ClosedGateExplained`). That
  an order is sent only through a gate that stayed open is not inductive: the
  recheck compares numbers. The invariant adds that the open flag is what
  `_evaluate_state` computes from the rest of the gate (`GateConsistent`), and
  `TokenInv`: a token is at most the generation, and strictly below it once the
  gate has closed. Closing always moves the generation, so the recheck fails.
- **`SupervisorProofs`** (`TypeCorrect`, `OpenMeansRunning`, `SilenceBound`,
  `GateStaysClosed`, `StopsSpawning`, `RestartBudget`, `EveryRestartCounts`). None
  of the middle four is inductive, because readiness is marked worker
  by worker over several passes while the gate is still closed. The invariant
  therefore speaks of the marks, not of the open gate: a marked worker is running,
  has completed a tick and was heard within a bound that depends on where the
  monitor is in its pass (`Marked`, `Fresh`). It adds that a worker being cancelled
  has lost its mark (`AwaitsUnmarked`), that after stop() a worker that failed is
  not examined again in the pass under way (`StaysStopped`), and that a pass has
  each worker once in its queue (`Once`), without which "examined in this pass"
  would mean nothing. The budget is counted when a worker fails and used when its
  back-off is over, so `RestartInv` says that a worker waiting for its restart has
  room for one more, and that this restart will be younger than every recorded one.
- **`OrderLockProofs`** (`TypeCorrect`, `NormalIsExclusive`, `OwnerIsUndisturbed`,
  `KeyIsSafe`, `KeyOutlivesTheBody`, `TimelyIsExclusive`). `NormalMeansExclusive`
  is about finished operations; what
  carries it is `OwnerUndisturbed`: as long as the key still holds an operation's
  token, nobody has shared its lease, so an answered release that found the token
  proves that nobody entered while the body ran. The timely case rests on
  `BodyOwnsTheKey`: the remaining TTL exceeds the remaining sleep.
- **`LiveEntryProofs`** (`TypeCorrect`, `NoHiddenExposure`, `CapacityIsKept`,
  `KnownBlocks`, `CleanScanProves`). The cap is not
  inductive, as an entry that has reserved is not yet exposed. The invariant
  `Inv` counts it as committed and adds `RowsFollowOrder`: no row says less than
  the exchange may do. Every action but `Reserve` leaves the committed set no
  larger (the `...Keeps` lemmas, one per group of actions), and `Reserve` counts
  against a set that contains every committed instrument (`ExposureIsOccupied`).
  That an attempt known to be unresolved blocks entries is about a scan that
  judges an older reading. `KnownInv` says why the reading is good enough: an entry
  under way holds the lock of its instrument, so a known attempt becomes unresolved
  again only by the scan itself, and whatever is known and unresolved was so in the
  snapshot of the scan under way. For a clean scan, `CleanInv` follows the reading
  through its stages: a trade that was read is open and linked as long as its
  position is held, without an active instrument every position that was read has a
  trade, and every active instrument is an incident that is counted.
- **`PnlLeaseProofs`** (`TypeCorrect`, `LeaseIsTrue`, `AdmissionIsSound`). The invariant extends
  "a figure of the current generation is the journal's" from the lease and what
  entries hold to the tracker's unpublished reading. Every journal action either
  moves the generation or leaves figure and blockers alone (`JournalMoves`).
- **`EmergencyCloseProofs`** (`TypeCorrect`, `PassInvHolds`, `TaskKeepsPromise`).
  The last two speak of a task that is `Aware` of its closes; nothing else is assumed,
  and the invariant is `Aware => InOrder`. `KeepsPromise` speaks of orders on the exchange,
  but an executor decides on rows it read some steps ago. `InOrder` closes the gap:
  a close that may fill, or that somebody is about to send, is `Risky`; at most one
  is, and its row is unresolved (`OneRisky`, `RiskyIsUnresolved`). An executor that
  found all rows resolved therefore knows that nothing is risky, and this remains
  true while it holds the claim (`HolderIsRight`), since nobody reaches a send
  without holding the claim after the row was written (`Sending`). The order lock
  is not part of the argument, so the theorem covers lost locks as well. The
  refinement maps `working` to the closes that may fill and `verdict` to the
  status; every step but `Send`, the exchange's, `SetTask` and the accountant's is
  a stutter.
- **`EmergencyCloseFills`** (`NeverOversold`), for a task that is `Aware`.
  `ClosesWithinOwned` is a bound on a sum that grows with every fill, long after the
  amount was decided. `AmountInv` keeps the room for it: the fills so far and the
  rest of the working close, or the remainder of an executor that is about to send,
  fit into what is owned. An executor gets its remainder from the rows, so `RowInv`
  ties these to the exchange: a settled row belongs to an order that has ended, and
  a settled row that counts no fill to an order without one. For the closes this
  needs `Aware`, for the exits it does not (`Sure`), and `Attached` says that nobody
  is in a pass before there is a task. Sums over a set
  of orders are unfolded by an induction over the subsets of a finite set
  (`SubsetInduction`), which takes the good subsets as a set. A stolen
  claim is covered: `AmountInv` speaks of whoever has the claim or passed the last
  check of it before the send. The order lock is not used.
- **`EmergencyCloseLocks`** (`SendsAlone`, also for a task that misses a close;
  `AccountIsRight`, for one that is `Aware`).
  These do need the lock and the claim, and say so (`lost`). As long as no live
  holder lost the lock, one executor or exit is at work at a time (`OneHolder`),
  and what a pass found out stays true while it goes on: the exits it took over
  have ended, the closes are settled, and any other recorded exit filled nothing
  (`ReadIsTrue`). As long as no claim was taken from a live pass either, there is
  one pass at a time, so the closes of a flat task stay settled (`FlatIsFinal`) and
  the accountant's sum over rows is the sum over the orders.

Only model-checked: all liveness, since the prover has neither fairness nor ENABLED
(`EndedWorkerIsHandled`, `HealthyGateReopens`, `LeaseIsFreedEventually`,
`UnresolvedIsNoticed`, `LateFillIsSettled`, `PendingCloseKeepsLeaseOut`,
`ReadinessReturns`, `PendingCloseIsResolved`, `TaskEnds`); and the documented claims
of section 6, which are false. Every invariant and action property that a passing
run checks is also a theorem.

## 6. Where the code and its documentation differ

Each has a run that ends in a counterexample, and an entry in `findings`.

1. `live_entry_doc`: `late_fill.py` 10 says that an attempt not found "keeps
   blocking entries". A scan that read the tables before the attempt was reserved
   finishes after the entry path has set the blocker and clears it
   (`reconciliation_worker.py` 636). The gate is open until the next scan, which
   closes it again (`UnresolvedIsNoticed`). The slot stays reserved throughout.
2. `late_fill_doc`: `late_fill.py` 24-26 says that attempts completed without a
   trade "are never candidates". The scan rewrites one from its order, and a
   working order makes it `accepted` again (`reconciliation_worker.py` 447-449).
3. `pnl_lease_doc`: `tracker.py` 70 says that "entries are safe regardless", by
   the generation. A close whose commit failed moves no generation, so an entry
   can be admitted on a lease published just after that close revoked it.
4. `blind_close_doc`: `emergency_close.py` 4-5 says that each pass "follows the
   previous close order before it may send another", 541 that "a task is never
   runnable without the closes it owns", and the design document
   (`docs/engineering/live-entry-failure-paths-design-v1.md` 407) that "the task
   adopts the close". Late fill recovery adopts what the exchange lists when the task
   is written (`late_fill.py` 192). A close that is still on its way is missed. The
   first send of the task has the same id and is rejected, its row is marked failed,
   and the next pass sends `<entry>c2` while `<entry>c1` can still fill. With one
   fault and the two scans taken out, TLC finds the same after a lost commit answer.
   Both orders are reduce-only, so without another position in the instrument they do
   not turn it around.

A further one has no run. `monitor.py` 56-57 says that a close whose outcome cannot
be audited "must block duplicate exit submission for that instrument". When the
recovery of recorded closes raises, the tick goes on with no blocked pair, and when
the table cannot be read the recovery finds nothing to block (`order_attempts.py`
364-366). A second reduce-only close is then submitted while the first is unknown.
The model has this (`ExitStartUnread`), and no property claims otherwise.

## 7. Not modelled, and the plan

Not modelled, with the reason for each part in `components`: pure I/O and
interfaces, offline analytics and numeric packages, paper and shadow trading,
one-off repairs. Left out of the modelled parts: a process without a database, the
Redis exit keys as a source of the scan, the expiry of pending-close markers after
three days, UTC midnight, and prices of open positions. In particular a native
stop that fills before the journal hears of it is in neither part of the daily
figure; that needs the monitor's model.

The mapped code is the part of the execution service that decides about orders and
money. Most of the repository's lines are elsewhere: analytics and research reports,
the collector, the web interface, views of the gateway, paper trading. They transform
or show recorded data, and a state machine of them would say nothing that their unit
tests do not.

What would come next, in the order of what can go most wrong:

1. `IncidentWorker`: retry and escalation of unresolved fills, open and close.
2. `LiveEntry` with `EmergencyClose` in place of `TaskAccounted`, by way of
   `FlattenOnce`; with `GateToken` as a refinement; and `PnlLease` with the exits,
   so that markers come from real closes. Each product alone is beyond what TLC
   finishes in minutes, so these are for the prover.
3. `CostSettlement`: an execution is attributed to one trade at most.
4. `LiveProbe`: reservations within an authorisation, and its loss reserve.
5. Entries that share an instrument: a run for `CleanScanOwnsPositions`, or the
   weaker statement that holds there, against "exact ownership"
   (`reconciliation_worker.py` 149).
6. The trader's decisions and episodes; then the notifier's stream consumer and
   the collector's hot set.
