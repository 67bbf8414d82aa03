----------------------------- MODULE LiveEntry -----------------------------
(***************************************************************************)
(* A live entry from admission to its journal row (orders.place_order),    *)
(* the durable attempts it reserves (order_attempts.py), and the           *)
(* reconciliation scan that runs beside it (reconciliation_worker.py,      *)
(* late_fill.py), around one readiness gate.                               *)
(*                                                                         *)
(* Every await of the code ends a step.  The order lock is taken to be     *)
(* exclusive (OrderLock says when it is); `fresh' holds the entries whose  *)
(* gate token is still the gate's generation (GateToken).  An entry fills  *)
(* for one contract or not at all, and is admitted at most once.  Every    *)
(* best-effort status write of the entry path may fail to land.            *)
(***************************************************************************)
EXTENDS ReadinessGate, Reconciliation

CONSTANTS Entries,       \* calls of place_order
          Instruments,   \* the (exchange, base) pairs
          Inst,          \* Inst[e]: the instrument of an entry
          Exch,          \* Exch[i]: the exchange of an instrument
          MaxPositions,  \* max_positions
          NoOne          \* nobody holds the order lock

ASSUME LiveEntryAssumption ==
  /\ IsFiniteSet(Entries) /\ IsFiniteSet(Instruments)
  /\ Inst \in [Entries -> Instruments]
  /\ MaxPositions \in Nat
  /\ NoOne \notin Entries
  /\ {"startup", "source", "incident", "submission_unknown"} \subseteq Blockers

VARIABLES
  gate,       \* the readiness gate
  fresh,      \* entries whose gate token is current
  pc,         \* where each call of place_order is
  lock,       \* lock[i]: holder of the instrument's order lock
  seen,       \* seen[e]: instruments of the positions e fetched
  attempt,    \* status of e's row in live_order_attempts; "unpriced" is
              \* completed with no filled amount
  trade,      \* e's row in trades: none, open, closed
  linked,     \* entries whose attempt names its trade
  repairs,    \* entries with a fill price incident for the open
  tasks,      \* entries with an emergency close task not yet accounted
  pending,    \* entries with an emergency_close_pending incident
  order,      \* e's order on the exchange: none, inflight, gone, live,
              \* filled, empty
  held,       \* entries whose fill is still an open position
  scan,       \* the reconciliation scan
  incidents,  \* instruments with an open incident row
  known       \* history: attempts finished scans found and left unresolved

entryVars == <<pc, lock, seen>>
tables == <<attempt, trade, linked, repairs, tasks, pending>>
exchange == <<order, held>>
vars == <<gate, fresh, entryVars, tables, exchange, scan, incidents, known>>

Status == {"none", "pending", "accepted", "completed", "unpriced", "failed",
           "no_fill", "submission_unknown", "manual_required"}
Candidate == {"pending", "accepted", "submission_unknown"}
Unresolved(e) == attempt[e] \in UnresolvedStatus

(* The attempts _COUNT_DURABLE_ONLY_ENTRY_SLOTS and _ATTEMPTS_SQL select. *)
Slot(e) ==
  \/ Unresolved(e)
  \/ attempt[e] \in {"completed", "unpriced"} /\ (e \notin linked \/ trade[e] = "open")
Slots == {Inst[e] : e \in {f \in Entries : Slot(f)}}

(* Whatever may be, or become, a position on the exchange. *)
Exposed(e) == order[e] \in {"inflight", "live"} \/ e \in held

Unreserved == {"idle", "admitted", "checking", "preflight"}
Filled == {"protected", "recorded", "task"}

(* The calls, their rows and the exchange. *)
TablesOK ==
  /\ pc \in [Entries -> Unreserved \cup Filled \cup
               {"reserved", "sent", "unknown", "lookup", "settling", "accepted",
                "unpriced", "flatten", "flattening", "done"}]
  /\ seen \in [Entries -> SUBSET Instruments]
  /\ attempt \in [Entries -> Status]
  /\ trade \in [Entries -> {"none", "open", "closed"}]
  /\ order \in [Entries -> {"none", "inflight", "gone", "live", "filled", "empty"}]
  /\ held \subseteq Entries

TypeOK ==
  /\ TablesOK
  /\ gate \in GateType
  /\ lock \in [Instruments -> Entries \cup {NoOne}]
  /\ UNION {fresh, linked, repairs, tasks, pending, known} \subseteq Entries
  /\ incidents \subseteq Instruments
  /\ scan.pc \in {"idle", "exchange", "resolve", "classified", "counted"}
  /\ scan.attempt \in [Entries -> Status]
  /\ UNION {scan.held, scan.trades, scan.loose, scan.todo} \subseteq Entries
  /\ scan.active \subseteq Instruments /\ scan.count \in Nat

NoSnapshot == [e \in Entries |-> "none"]
IdleScan == [pc |-> "idle", held |-> {}, attempt |-> NoSnapshot, trades |-> {},
             loose |-> {}, todo |-> {}, active |-> {}, count |-> 0]
(* main.py blocks entries at startup, before the first scan. *)
StartGate == SetSafetyBlocker(InitGate, "startup")

Init ==
  /\ gate = StartGate /\ fresh = {}
  /\ pc = [e \in Entries |-> "idle"]
  /\ lock = [i \in Instruments |-> NoOne]
  /\ seen = [e \in Entries |-> {}]
  /\ attempt = NoSnapshot
  /\ trade = [e \in Entries |-> "none"]
  /\ linked = {} /\ repairs = {} /\ tasks = {} /\ pending = {}
  /\ order = [e \in Entries |-> "none"]
  /\ held = {}
  /\ scan = IdleScan
  /\ incidents = {} /\ known = {}

(* A gate method ran: a flip of the gate makes every token stale. *)
GateBecomes(g) ==
  /\ gate' = g
  /\ fresh' = IF g.open = gate.open THEN fresh ELSE {}

At(e, from, to) == pc[e] = from /\ pc' = [pc EXCEPT ![e] = to]
Unlock(e) == lock' = [lock EXCEPT ![Inst[e]] = NoOne]

(* A best-effort status write. *)
Mark(e, status) == attempt' \in {attempt, [attempt EXCEPT ![e] = status]}
-----------------------------------------------------------------------------
(* place_order up to the exchange call. *)
Admit(e) ==
  /\ At(e, "idle", "admitted")
  /\ gate.open
  /\ fresh' = fresh \cup {e}
  /\ UNCHANGED <<gate, lock, seen, tables, exchange, scan, incidents, known>>

Lock(e) ==
  /\ At(e, "admitted", "checking")
  /\ lock[Inst[e]] = NoOne
  /\ lock' = [lock EXCEPT ![Inst[e]] = e]
  /\ UNCHANGED <<gate, fresh, seen, tables, exchange, scan, incidents, known>>

(* Another entry, or a close that is not modelled here, holds the lock. *)
LockBusy(e) ==
  /\ At(e, "admitted", "idle")
  /\ fresh' = fresh \ {e}
  /\ UNCHANGED <<gate, lock, seen, tables, exchange, scan, incidents, known>>

(* The call returns before it has an attempt: a check refused it. *)
Refuse(e) ==
  /\ pc' = [pc EXCEPT ![e] = "idle"]
  /\ Unlock(e)
  /\ seen' = [seen EXCEPT ![e] = {}]
  /\ fresh' = fresh \ {e}
  /\ UNCHANGED <<gate, tables, exchange, scan, incidents, known>>

Positions == {Inst[e] : e \in held}

(* fetch_positions and run_all_checks: positions of another exchange that  *)
(* cannot be read are simply missing from the snapshot.                    *)
CheckRisk(e) ==
  /\ At(e, "checking", "preflight")
  /\ \E down \in SUBSET {Exch[i] : i \in Instruments} :
       /\ Exch[Inst[e]] \notin down
       /\ LET positions == {i \in Positions : Exch[i] \notin down}
          IN  /\ Cardinality(positions) < MaxPositions
              /\ Inst[e] \notin positions
              /\ seen' = [seen EXCEPT ![e] = positions]
  /\ UNCHANGED <<gate, fresh, lock, tables, exchange, scan, incidents, known>>

(* A risk check, the market, the amount or the leverage says no. *)
RefusePreflight(e) ==
  /\ pc[e] \in {"checking", "preflight"}
  /\ Refuse(e)

(* Mutant of Occupied: only the positions that were fetched. *)
OccupiedAsSeen(e) == seen[e]

(* Slots in use when e reserves: its snapshot of the positions, and every  *)
(* durable attempt on an instrument that is not in it.                     *)
Occupied(e) == seen[e] \cup Slots

(* create_attempt, under the portfolio advisory lock. *)
Reserve(e) ==
  /\ At(e, "preflight", "reserved")
  /\ Cardinality(Occupied(e)) < MaxPositions
  /\ attempt' = [attempt EXCEPT ![e] = "pending"]
  /\ seen' = [seen EXCEPT ![e] = {}]
  /\ UNCHANGED <<gate, fresh, lock, trade, linked, repairs, tasks, pending, exchange, scan, incidents, known>>

(* PortfolioCapacityReached, or the row cannot be written. *)
ReserveDenied(e) ==
  /\ pc[e] = "preflight"
  /\ Refuse(e)

(* The entry path ends with status as its last word on the attempt. *)
Finish(e, from, status) ==
  /\ At(e, from, "done")
  /\ Unlock(e)
  /\ Mark(e, status)
  /\ UNCHANGED <<seen, trade, linked, repairs, tasks, pending>>

(* The PnL lease, the trading switch or the gate changed in pre-flight. *)
RecheckFails(e) ==
  /\ Finish(e, "reserved", "failed")
  /\ fresh' = fresh \ {e}
  /\ UNCHANGED <<gate, exchange, scan, incidents, known>>

(* The last check, the gate and its token, and the order with no await     *)
(* between them.                                                           *)
Send(e) ==
  /\ At(e, "reserved", "sent")
  /\ gate.open /\ e \in fresh
  /\ order' = [order EXCEPT ![e] = "inflight"]
  /\ fresh' = fresh \ {e}
  /\ UNCHANGED <<gate, lock, seen, tables, held, scan, incidents, known>>
-----------------------------------------------------------------------------
(* The exchange: a request arrives or is lost; an order fills or ends      *)
(* without a fill (also because it was cancelled).                         *)
ExchangeStep(e) ==
  /\ \/ order[e] = "inflight" /\ order' = [order EXCEPT ![e] = "live"] /\ UNCHANGED held
     \/ order[e] = "inflight" /\ order' = [order EXCEPT ![e] = "gone"] /\ UNCHANGED held
     \/ order[e] = "live" /\ order' = [order EXCEPT ![e] = "empty"] /\ UNCHANGED held
     \/ order[e] = "live" /\ order' = [order EXCEPT ![e] = "filled"] /\ held' = held \cup {e}
  /\ UNCHANGED <<gate, fresh, entryVars, tables, scan, incidents, known>>

(* A stop, an exit, an emergency close or an operator ends the position. *)
PositionCloses(e) ==
  /\ e \in held
  /\ held' = held \ {e}
  /\ UNCHANGED <<gate, fresh, entryVars, tables, order, scan, incidents, known>>

(* The close is journalled. *)
TradeCloses(e) ==
  /\ trade[e] = "open" /\ e \notin held
  /\ trade' = [trade EXCEPT ![e] = "closed"]
  /\ UNCHANGED <<gate, fresh, entryVars, attempt, linked, repairs, tasks, pending, exchange, scan, incidents, known>>

(* EmergencyCloseAccountant publishes the round trip of a flat position in *)
(* one transaction; the incident stays for the operator.                   *)
TaskAccounted(e) ==
  /\ e \in tasks /\ e \notin held
  /\ tasks' = tasks \ {e}
  /\ trade' = [trade EXCEPT ![e] = "closed"]
  /\ linked' = linked \cup {e}
  /\ attempt' = [attempt EXCEPT ![e] = "completed"]
  /\ UNCHANGED <<gate, fresh, entryVars, repairs, pending, exchange, scan, incidents, known>>

OperatorClears(e) ==
  /\ e \in pending \ tasks
  /\ pending' = pending \ {e}
  /\ UNCHANGED <<gate, fresh, entryVars, attempt, trade, linked, repairs, tasks, exchange, scan, incidents, known>>
-----------------------------------------------------------------------------
(* place_order after the exchange call. *)
Rejected(e) ==
  /\ order[e] \in {"inflight", "gone"}
  /\ order' = [order EXCEPT ![e] = "gone"]
  /\ Finish(e, "sent", "failed")
  /\ UNCHANGED <<gate, fresh, held, scan, incidents, known>>

Accepted(e) ==
  /\ At(e, "sent", "accepted")
  /\ order[e] \in {"live", "filled", "empty"}
  /\ Mark(e, "accepted")
  /\ UNCHANGED <<gate, fresh, lock, seen, trade, linked, repairs, tasks, pending, exchange, scan, incidents, known>>

(* _recover_unknown_entry: durable first, then the block, then the lookup. *)
MarkUnknown(e) ==
  /\ At(e, "sent", "unknown")
  /\ Mark(e, "submission_unknown")
  /\ UNCHANGED <<gate, fresh, lock, seen, trade, linked, repairs, tasks, pending, exchange, scan, incidents, known>>

BlockEntries(e) ==
  /\ At(e, "unknown", "lookup")
  /\ GateBecomes(SetSafetyBlocker(gate, "submission_unknown"))
  /\ UNCHANGED <<lock, seen, tables, exchange, scan, incidents, known>>

(* Mutant of NotFound: a lookup that finds nothing is taken for a failure. *)
NotFoundFails(e) ==
  /\ Finish(e, "lookup", "failed")
  /\ UNCHANGED <<gate, fresh, exchange, scan, incidents, known>>

(* A lookup that finds nothing proves nothing. *)
NotFound(e) ==
  /\ At(e, "lookup", "done")
  /\ Unlock(e)
  /\ UNCHANGED <<gate, fresh, seen, tables, exchange, scan, incidents, known>>

Found(e) ==
  /\ \/ order[e] \in {"filled", "empty"} /\ At(e, "lookup", "accepted") /\ Mark(e, "accepted")
     \/ order[e] = "live" /\ At(e, "lookup", "settling") /\ UNCHANGED attempt
  /\ UNCHANGED <<gate, fresh, lock, seen, trade, linked, repairs, tasks, pending, exchange, scan, incidents, known>>

(* settle_active_entry confirmed the cancel: what filled is flattened. *)
Settled(e) ==
  /\ \/ order[e] = "filled" /\ At(e, "settling", "flatten")
     \/ order[e] = "empty" /\ At(e, "settling", "accepted")
  /\ Mark(e, "accepted")
  /\ UNCHANGED <<gate, fresh, lock, seen, trade, linked, repairs, tasks, pending, exchange, scan, incidents, known>>

NotSettled(e) ==
  /\ Finish(e, "settling", "accepted")
  /\ UNCHANGED <<gate, fresh, exchange, scan, incidents, known>>

NoFill(e) ==
  /\ order[e] = "empty"
  /\ Finish(e, "accepted", "failed")
  /\ UNCHANGED <<gate, fresh, exchange, scan, incidents, known>>

(* The stop rests, or it cannot be placed and the entry is flattened.  A   *)
(* fill whose price or end is not known is protected as well.              *)
PlaceStop(e) ==
  /\ \/ order[e] = "filled" /\ At(e, "accepted", "protected")
     \/ order[e] \in {"live", "filled"} /\ At(e, "accepted", "unpriced")
     \/ order[e] \in {"live", "filled"} /\ At(e, "accepted", "flatten")
  /\ UNCHANGED <<gate, fresh, lock, seen, tables, exchange, scan, incidents, known>>

(* _handle_unresolved_open: the incident worker takes over. *)
Unpriced(e) ==
  /\ At(e, "unpriced", "done")
  /\ Unlock(e)
  /\ repairs' \in {repairs, repairs \cup {e}}
  /\ Mark(e, "unpriced")
  /\ UNCHANGED <<gate, fresh, seen, trade, linked, tasks, pending, exchange, scan, incidents, known>>

(* journal.complete_open writes the trade, or fails. *)
CompleteOpen(e) ==
  /\ At(e, "protected", "recorded")
  /\ trade' \in {trade, [trade EXCEPT ![e] = "open"]}
  /\ UNCHANGED <<gate, fresh, lock, seen, attempt, linked, repairs, tasks, pending, exchange, scan, incidents, known>>

(* mark_completed links the trade if there is one; without one an incident *)
(* is written for the incident worker.                                     *)
MarkCompleted(e) ==
  /\ At(e, "recorded", "done")
  /\ Unlock(e)
  /\ \/ UNCHANGED <<attempt, linked>>
     \/ /\ attempt' = [attempt EXCEPT ![e] = "completed"]
        /\ linked' = IF trade[e] = "none" THEN linked ELSE linked \cup {e}
  /\ repairs' \in {repairs} \cup (IF trade[e] = "none" THEN {repairs \cup {e}} ELSE {})
  /\ UNCHANGED <<gate, fresh, seen, trade, tasks, pending, exchange, scan, incidents, known>>

(* flatten_after_stop_failure: the block, the fill, the task. *)
FlattenBlocks(e) ==
  /\ At(e, "flatten", "flattening")
  /\ GateBecomes(SetSafetyBlocker(gate, "incident"))
  /\ UNCHANGED <<lock, seen, tables, exchange, scan, incidents, known>>

FlattenOwned(e) ==
  /\ \/ order[e] = "filled" /\ At(e, "flattening", "task") /\ Mark(e, "completed")
        /\ UNCHANGED lock
     \/ At(e, "flattening", "done") /\ Unlock(e) /\ UNCHANGED attempt
  /\ UNCHANGED <<gate, fresh, seen, trade, linked, repairs, tasks, pending, exchange, scan, incidents, known>>

(* The task is written, or the database is down. *)
FlattenTask(e) ==
  /\ At(e, "task", "done")
  /\ Unlock(e)
  /\ \/ tasks' = tasks \cup {e} /\ pending' = pending \cup {e}
     \/ UNCHANGED <<tasks, pending>>
  /\ UNCHANGED <<gate, fresh, seen, attempt, trade, linked, repairs, exchange, scan, incidents, known>>

(* incident_worker: the price is known, the open is journalled and linked. *)
RecoverOpen(e) ==
  /\ e \in repairs /\ order[e] = "filled"
  /\ repairs' = repairs \ {e}
  /\ trade' = [trade EXCEPT ![e] = "open"]
  /\ linked' = linked \cup {e}
  /\ attempt' = [attempt EXCEPT ![e] = "completed"]
  /\ UNCHANGED <<gate, fresh, entryVars, tasks, pending, exchange, scan, incidents, known>>
-----------------------------------------------------------------------------
(* ReconciliationWorker._run_scan. *)
ScanAt(from) == scan.pc = from
ScanOnly == UNCHANGED <<gate, fresh, entryVars, tables, exchange, incidents, known>>

FetchExchange ==
  /\ ScanAt("idle")
  /\ scan' = [IdleScan EXCEPT !.pc = "exchange", !.held = held]
  /\ ScanOnly

(* Mutant of FetchDb: the query leaves out submission_unknown. *)
FetchDbWithoutUnknown ==
  /\ ScanAt("exchange")
  /\ scan' = [scan EXCEPT
       !.pc = "resolve",
       !.attempt = [e \in Entries |->
         IF Slot(e) /\ attempt[e] # "submission_unknown" THEN attempt[e] ELSE "none"],
       !.trades = {e \in Entries : trade[e] = "open" /\ e \in linked},
       !.loose = {e \in Entries : trade[e] = "open" /\ e \notin linked},
       !.todo = {}]
  /\ ScanOnly

(* The attempts and open trades; an open trade that no attempt names has   *)
(* no complete identity.                                                   *)
FetchDb ==
  /\ ScanAt("exchange")
  /\ scan' = [scan EXCEPT
       !.pc = "resolve",
       !.attempt = [e \in Entries |-> IF Slot(e) THEN attempt[e] ELSE "none"],
       !.trades = {e \in Entries : trade[e] = "open" /\ e \in linked},
       !.loose = {e \in Entries : trade[e] = "open" /\ e \notin linked},
       !.todo = {e \in Entries : Unresolved(e) \/ attempt[e] = "unpriced"}]
  /\ ScanOnly

(* The attempt is left as the scan read it: the lock is busy, the order is *)
(* not found, the attempt was resolved meanwhile, or a call failed.        *)
LeaveAttempt(e) ==
  /\ ScanAt("resolve") /\ e \in scan.todo
  /\ scan' = [scan EXCEPT !.todo = @ \ {e}]
  /\ ScanOnly

Recorded(e, status) ==
  /\ attempt' = [attempt EXCEPT ![e] = status]
  /\ scan' = [scan EXCEPT !.todo = @ \ {e}, !.attempt[e] = status]

(* What the order shows; an exchange may leave out the filled amount. *)
OrderStates(e) ==
  {AttemptStateFromOrder(o) : o \in
     CASE order[e] = "live" -> {[terminal |-> FALSE, filled |-> 0]}
       [] order[e] = "filled" -> {[terminal |-> TRUE, filled |-> 1],
                                  [terminal |-> TRUE, filled |-> Unknown]}
       [] order[e] = "empty" -> {[terminal |-> TRUE, filled |-> 0],
                                 [terminal |-> TRUE, filled |-> Unknown]}
       [] OTHER -> {}}

(* An attempt that is no candidate is resolved without the order lock. *)
ResolveExact(e) ==
  /\ ScanAt("resolve") /\ e \in scan.todo
  /\ scan.attempt[e] \in {"manual_required", "unpriced"}
  /\ \E status \in OrderStates(e) : Recorded(e, status)
  /\ UNCHANGED <<gate, fresh, entryVars, trade, linked, repairs, tasks, pending, exchange, incidents, known>>

(* Someone else may own the instrument. *)
Competitor(e) ==
  \E f \in Entries :
    /\ Inst[f] = Inst[e]
    /\ \/ trade[f] = "open"
       \/ f # e /\ (Unresolved(f) \/ f \in tasks)

(* LateFillRecovery.resolve, under the order lock, on the attempt as it is *)
(* now: a terminal fill becomes an emergency close task.                   *)
ResolveLateFill(e) ==
  /\ ScanAt("resolve") /\ e \in scan.todo
  /\ scan.attempt[e] \in Candidate /\ lock[Inst[e]] = NoOne
  /\ attempt[e] \in Candidate /\ e \notin linked
  /\ \E status \in OrderStates(e) :
       /\ Recorded(e, status)
       /\ IF status = "completed" /\ ~Competitor(e)
          THEN tasks' = tasks \cup {e} /\ pending' = pending \cup {e}
          ELSE UNCHANGED <<tasks, pending>>
  /\ UNCHANGED <<gate, fresh, entryVars, trade, linked, repairs, exchange, incidents, known>>

Scanned(i) == {e \in Entries : Inst[e] = i /\ scan.attempt[e] # "none"}

Discrepancy(i) ==
  LET positions == {e \in scan.held : Inst[e] = i}
      owned == {e \in scan.trades : Inst[e] = i}
      attempts == [e \in Scanned(i) |->
        IF scan.attempt[e] = "unpriced" THEN [status |-> "completed", filled |-> Unknown]
        ELSE [status |-> scan.attempt[e], filled |-> 1]]
  IN  IF positions = {} /\ owned = {} /\ Scanned(i) = {} THEN "healthy"
      ELSE ClassifyPositionState(
             TRUE,
             IF positions = {} THEN None ELSE Cardinality(positions),
             IF owned = {} THEN None ELSE 1,
             attempts,
             owned # {})

(* Every instrument is classified; the block comes before the row. *)
ClassifyAll ==
  /\ ScanAt("resolve") /\ scan.todo = {}
  /\ LET active == {i \in Instruments : Discrepancy(i) # "healthy"}
                     \cup {Inst[e] : e \in scan.loose}
     IN  /\ scan' = [scan EXCEPT !.pc = "classified", !.active = active]
         /\ incidents' = incidents \cup active
         /\ IF active = {} THEN UNCHANGED <<gate, fresh>>
            ELSE GateBecomes(SetSafetyBlocker(gate, "incident"))
  /\ UNCHANGED <<entryVars, tables, exchange, known>>

(* Rows of instruments that are healthy again are resolved, the rest is    *)
(* counted, the incidents of the tasks included.                           *)
ResolveAbsent ==
  /\ ScanAt("classified")
  /\ incidents' = incidents \cap scan.active
  /\ scan' = [scan EXCEPT !.pc = "counted",
                          !.count = Cardinality(incidents \cap scan.active)
                                      + Cardinality(pending)]
  /\ UNCHANGED <<gate, fresh, entryVars, tables, exchange, known>>

SnapshotUnresolved == \E e \in Entries : scan.attempt[e] \in UnresolvedStatus

BlockerIf(g, b, condition) ==
  IF condition THEN SetSafetyBlocker(g, b) ELSE ClearSafetyBlocker(g, b)

(* The scan's verdict, in one run without an await. *)
ScanVerdict ==
  LET g1 == ClearSafetyBlocker(gate, "source")
      g2 == ClearSafetyBlocker(g1, "startup")
      g3 == BlockerIf(g2, "submission_unknown", SnapshotUnresolved)
  IN  BlockerIf(g3, "incident", scan.count > 0)

ScanDone ==
  /\ ScanAt("counted")
  /\ GateBecomes(ScanVerdict)
  /\ scan' = IdleScan
  /\ known' = {e \in Entries : \/ scan.attempt[e] \in UnresolvedStatus
                               \/ e \in known /\ Unresolved(e)}
  /\ UNCHANGED <<entryVars, tables, exchange, incidents>>

ScanFails ==
  /\ scan.pc # "idle"
  /\ GateBecomes(SetSafetyBlocker(gate, "source"))
  /\ scan' = IdleScan
  /\ UNCHANGED <<entryVars, tables, exchange, incidents, known>>

(* The process dies and starts again: tables and exchange stay, the leases *)
(* of the dead process expire.                                             *)
Restart ==
  /\ gate' = StartGate /\ fresh' = {}
  /\ pc' = [e \in Entries |-> IF attempt[e] = "none" THEN "idle" ELSE "done"]
  /\ lock' = [i \in Instruments |-> NoOne]
  /\ seen' = [e \in Entries |-> {}]
  /\ scan' = IdleScan
  /\ UNCHANGED <<tables, exchange, incidents, known>>

(* A critical worker fails or recovers (Supervisor). *)
WorkerStep ==
  /\ \E w \in Critical, r \in Reasons :
       GateBecomes(MarkReady(gate, w)) \/ GateBecomes(Close(gate, r))
  /\ UNCHANGED <<entryVars, tables, exchange, scan, incidents, known>>

EntryStep(e) ==
  \/ Admit(e) \/ Lock(e) \/ LockBusy(e) \/ CheckRisk(e) \/ RefusePreflight(e)
  \/ Reserve(e) \/ ReserveDenied(e) \/ RecheckFails(e) \/ Send(e)
  \/ Rejected(e) \/ Accepted(e) \/ MarkUnknown(e) \/ BlockEntries(e)
  \/ NotFound(e) \/ Found(e) \/ Settled(e) \/ NotSettled(e) \/ NoFill(e)
  \/ PlaceStop(e) \/ Unpriced(e) \/ CompleteOpen(e) \/ MarkCompleted(e)
  \/ FlattenBlocks(e) \/ FlattenOwned(e) \/ FlattenTask(e)

WorldStep(e) ==
  \/ ExchangeStep(e) \/ PositionCloses(e) \/ TradeCloses(e)
  \/ TaskAccounted(e) \/ OperatorClears(e) \/ RecoverOpen(e)

ScanStep ==
  \/ FetchExchange \/ FetchDb \/ ClassifyAll \/ ResolveAbsent \/ ScanDone
  \/ \E e \in Entries : LeaveAttempt(e) \/ ResolveExact(e) \/ ResolveLateFill(e)

Next ==
  \/ \E e \in Entries : EntryStep(e) \/ WorldStep(e)
  \/ ScanStep \/ ScanFails \/ Restart \/ WorkerStep

(* The worker scans again and again, and neither the database nor the      *)
(* exchange stays out of reach for ever.                                   *)
Fairness ==
  /\ WF_vars(ScanStep) /\ SF_vars(FetchDb)
  /\ \A e \in Entries : SF_vars(ResolveLateFill(e))

Spec == Init /\ [][Next]_vars
FairSpec == Spec /\ Fairness
-----------------------------------------------------------------------------
(* Every order that may still fill and every open position is counted by   *)
(* the portfolio reservation, through lost status writes, restarts and     *)
(* late fills: no exposure is hidden from the slot count.                  *)
ExposureIsReserved == \A e \in Entries : Exposed(e) => Slot(e)

(* However stale the positions an entry was checked against, and however   *)
(* the entries interleave, never more than max_positions instruments are   *)
(* exposed at once.                                                        *)
CapacityKept ==
  Cardinality({Inst[e] : e \in {f \in Entries : Exposed(f)}}) <= MaxPositions

(* An entry that has reserved and may send counts before it is exposed. *)
Committed(e) == pc[e] = "reserved" \/ Exposed(e)
Exposure == {Inst[e] : e \in {f \in Entries : Committed(f)}}

(* One entry's rows against its order.  No row says less than the exchange *)
(* may do: the attempt is written before the order, a trade or a task only *)
(* for a fill, and a trade is closed only when the position is.            *)
RowsFollowOrder(e) ==
  /\ pc[e] \in Unreserved => attempt[e] = "none"
  /\ pc[e] = "reserved" => attempt[e] = "pending" /\ order[e] = "none"
  /\ attempt[e] = "none" => order[e] = "none"
  /\ (pc[e] \in Filled \/ trade[e] # "none" \/ e \in tasks \/ e \in held) => order[e] = "filled"
  /\ e \in linked => trade[e] # "none"
  /\ trade[e] = "closed" => e \notin held
  /\ Exposed(e) => Slot(e)

(* The inductive form of CapacityKept: also the entries about to send are  *)
(* within the cap, and every entry's rows follow its order.                *)
Inv ==
  /\ TablesOK
  /\ \A e \in Entries : RowsFollowOrder(e)
  /\ Cardinality(Exposure) <= MaxPositions

(* What a finished scan left unresolved is never behind an open gate,      *)
(* whatever the entry path, later scans and restarts do in the meantime.   *)
KnownUnresolvedBlocks ==
  gate.open => \A e \in known : ~Unresolved(e)

(* A scan that lifts every block has proved the ownership of what is open: *)
(* a position that existed when it began and still does is journalled,     *)
(* though its sources are read at different times. Stated for entries on   *)
(* different instruments: positions are matched by instrument.             *)
CleanScanOwnsPositions ==
  [][(scan.pc = "counted" /\ scan'.pc = "idle" /\ gate'.blockers = {}) =>
       \A e \in scan.held \cap held : trade[e] = "open" /\ e \in linked]_vars

(* A call that returned with its attempt unresolved cannot leave entries   *)
(* open for good: the gate closes or the attempt is resolved.              *)
UnresolvedIsNoticed ==
  \A e \in Entries :
    pc[e] = "done" /\ Unresolved(e) ~> ~gate.open \/ ~Unresolved(e)

(* A fill that the entry path lost sight of is eventually acted on: its    *)
(* attempt leaves the candidates of late fill recovery.                    *)
LateFillIsSettled ==
  \A e \in Entries :
    pc[e] = "done" /\ order[e] = "filled" /\ attempt[e] \in Candidate
      ~> attempt[e] \notin Candidate

(* The documented claim: an attempt whose submission is unknown and not    *)
(* found keeps blocking entries after its call returned.                   *)
UnknownBlocksEntries ==
  \A e \in Entries :
    attempt[e] = "submission_unknown" /\ pc[e] = "done" => ~gate.open

(* The documented claim: an attempt completed without a trade is never a   *)
(* candidate for late fill recovery.                                       *)
CompletedIsNeverCandidate ==
  [][\A e \in Entries : attempt[e] = "unpriced" => attempt'[e] \notin Candidate]_vars
=============================================================================
