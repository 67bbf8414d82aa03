------------------------------- MODULE PnlLease -------------------------------
(****************************************************************************)
(* The daily-PnL readiness lease.  One tracker task recomputes the daily    *)
(* PnL from the journal and publishes it in Redis as a lease that carries   *)
(* the journal's accounting generation (tracker.py); tasks that close       *)
(* trades, open incidents and settle costs write the journal and revoke the *)
(* lease (journal.py, incidents.py, cost_worker.py); an entry is admitted   *)
(* twice on a lease it read from Redis and a generation it then read from   *)
(* Postgres (orders.py, risk.py).  Every await is a step of its own, so all *)
(* of these interleave.                                                     *)
(*                                                                          *)
(* A journal transaction is one step: the triggers of migration 0062 move   *)
(* the generation in the transaction that changes an input.  The lease may  *)
(* expire at any moment, which stands for its 120 s TTL.  A figure is kept  *)
(* per trade, as a loss: nothing while it is open, an estimate once it is   *)
(* closed, the net figure once its costs are settled.                       *)
(****************************************************************************)
EXTENDS Integers, FiniteSets, Functions

CONSTANTS
  Trades,     \* live trades, open in the journal at the start
  Writers,    \* tasks that write closes, incidents and costs
  Entries,    \* entries being placed
  Estimate,   \* loss of a closed trade before its costs are settled
  Net,        \* its loss after
  Limit       \* daily loss limit

ASSUME LossAssumption == Estimate \in Nat /\ Net \in Nat /\ Limit \in Nat

VARIABLES
  gen,        \* app.pnl_generation.value
  row,        \* app.trades and trade_close_fills: how far a trade is
  incident,   \* fill_resolution_incidents of the trade's close
  held,       \* trades whose position the exchange still holds
  marker,     \* trades with a journal:pending_close key in Redis
  parked,     \* history: those whose writer went on to revoke the lease
  lease,      \* the value of PNL_READY_KEY
  tick,       \* the tracker's tick: where it is and what it has read
  writer,     \* where each writer is and the trade it works on
  entry       \* where each entry is and the lease it read

journal == <<gen, row, incident>>
pending == <<marker, parked>>
vars == <<gen, row, incident, held, marker, parked, lease, tick, writer, entry>>

Open == {"open", "partial"}
Unsettled == {"pending", "incomplete"}

NoLease == [gen |-> -1, realized |-> [t \in Trades |-> 0], unrealized |-> {}]

(* _REALIZED_PNL_TODAY, per trade. *)
Realized ==
  [t \in Trades |-> IF row[t] \in Open THEN 0 ELSE IF row[t] = "settled" THEN Net ELSE Estimate]

(* The snapshot's blockers: a close leg of an open trade, an open incident, *)
(* a closed trade whose costs are not settled.                              *)
Blocked ==
  \E t \in Trades : row[t] = "partial" \/ row[t] \in Unsettled \/ incident[t] \in {"pending", "resolving"}

(* check_daily_loss: every open position is taken to lose an estimate. *)
WithinLimit(realized, unrealized) ==
  FoldFunction(LAMBDA loss, sum : loss + sum, Estimate * Cardinality(unrealized), realized) < Limit

(* Mutant of PnlLeaseFlag: a lease that is there admits. *)
PnlLeasePresent(read, current) == read # NoLease

(* pnl_lease_flag, with a database. *)
PnlLeaseFlag(read, current) == read # NoLease /\ read.gen = current

Admits(read) == PnlLeaseFlag(read, gen) /\ WithinLimit(read.realized, read.unrealized)

NoTick == [pc |-> "idle", read |-> NoLease, blocked |-> FALSE]
Revoking == [pc |-> "revoke", read |-> NoLease, blocked |-> FALSE]
NoEntry == [pc |-> "idle", read |-> NoLease, late |-> FALSE]

Init ==
  /\ gen = 0
  /\ row = [t \in Trades |-> "open"]
  /\ incident = [t \in Trades |-> "none"]
  /\ held = Trades
  /\ marker = {} /\ parked = {}
  /\ lease = NoLease
  /\ tick = NoTick
  /\ writer = [w \in Writers |-> [pc |-> "idle", trades |-> {}]]
  /\ entry = [e \in Entries |-> NoEntry]

-----------------------------------------------------------------------------
(* The tracker's tick *)

(* Mutant of FetchPositions: no positions at all is taken for a failure. *)
FetchPositionsNonEmpty ==
  /\ tick.pc = "idle" /\ held # {}
  /\ tick' = [NoTick EXCEPT !.pc = "positions", !.read.unrealized = held]
  /\ UNCHANGED <<journal, held, pending, lease, writer, entry>>

FetchPositions ==
  /\ tick.pc = "idle"
  /\ tick' = [NoTick EXCEPT !.pc = "positions", !.read.unrealized = held]
  /\ UNCHANGED <<journal, held, pending, lease, writer, entry>>

(* An exchange did not answer, the journal could not be read. *)
TickUnavailable ==
  /\ tick.pc \in {"idle", "positions"}
  /\ tick' = Revoking
  /\ UNCHANGED <<journal, held, pending, lease, writer, entry>>

(* pnl_snapshot: one repeatable-read transaction. *)
Snapshot ==
  /\ tick.pc = "positions"
  /\ tick' = [pc |-> "snapshot",
              read |-> [gen |-> gen, realized |-> Realized, unrealized |-> tick.read.unrealized],
              blocked |-> Blocked]
  /\ UNCHANGED <<journal, held, pending, lease, writer, entry>>

(* Mutant of CheckPending: only the journal's blockers count. *)
CheckPendingForgotten ==
  /\ tick.pc = "snapshot"
  /\ tick' = IF tick.blocked THEN Revoking ELSE [tick EXCEPT !.pc = "publish"]
  /\ UNCHANGED <<journal, held, pending, lease, writer, entry>>

(* any_pending_closes, then the snapshot's own blocker. *)
CheckPending ==
  /\ tick.pc = "snapshot"
  /\ tick' = IF marker # {} \/ tick.blocked THEN Revoking ELSE [tick EXCEPT !.pc = "publish"]
  /\ UNCHANGED <<journal, held, pending, lease, writer, entry>>

(* Mutant of Publish: the generation is read again when it is published. *)
PublishReadsGeneration ==
  /\ tick.pc = "publish"
  /\ lease' = [tick.read EXCEPT !.gen = gen]
  /\ tick' = [tick EXCEPT !.pc = "published"]
  /\ UNCHANGED <<journal, held, pending, writer, entry>>

Publish ==
  /\ tick.pc = "publish"
  /\ lease' = tick.read
  /\ tick' = [tick EXCEPT !.pc = "published"]
  /\ UNCHANGED <<journal, held, pending, writer, entry>>

RecheckPending ==
  /\ tick.pc = "published"
  /\ tick' = IF marker # {} THEN Revoking ELSE [tick EXCEPT !.pc = "rechecked"]
  /\ UNCHANGED <<journal, held, pending, lease, writer, entry>>

RecheckGeneration ==
  /\ tick.pc = "rechecked"
  /\ \E read \in {gen, NoLease.gen} :      \* pnl_generation may return None
       tick' = IF read = tick.read.gen THEN NoTick ELSE Revoking
  /\ UNCHANGED <<journal, held, pending, lease, writer, entry>>

TickRevokes ==
  /\ tick.pc = "revoke"
  /\ lease' = NoLease
  /\ tick' = NoTick
  /\ UNCHANGED <<journal, held, pending, writer, entry>>

(* A Redis call raises, or the process restarts: the next tick starts over. *)
TickFails ==
  /\ tick.pc # "idle"
  /\ tick' = NoTick
  /\ UNCHANGED <<journal, held, pending, lease, writer, entry>>

LeaseExpires ==
  /\ lease # NoLease
  /\ lease' = NoLease
  /\ UNCHANGED <<journal, held, pending, tick, writer, entry>>

-----------------------------------------------------------------------------
(* The writers *)

(* Writer w goes to pc with trade t in hand; a writer at rest has none. *)
Goes(w, pc, t) ==
  writer' = [writer EXCEPT ![w] = [pc |-> pc, trades |-> IF pc = "idle" THEN {} ELSE {t}]]

Works(w, pc, t) == writer[w] = [pc |-> pc, trades |-> {t}]

Idle(w) == writer[w].pc = "idle"

PositionCloses(t) ==
  /\ t \in held
  /\ held' = held \ {t}
  /\ UNCHANGED <<journal, pending, lease, tick, writer, entry>>

(* try_commit_close, up to its revoke: of a close just confirmed or of one  *)
(* that a marker holds for retry.                                           *)
BeginClose(w, t) ==
  /\ Idle(w)
  /\ t \notin held
  /\ row[t] \in Open \/ t \in marker
  /\ lease' = NoLease
  /\ Goes(w, "close", t)
  /\ UNCHANGED <<journal, held, pending, tick, entry>>

(* close_trade's transaction; a trade already closed is left as it is. *)
CloseTrade(t) ==
  /\ row' = [row EXCEPT ![t] = IF @ \in Open THEN "pending" ELSE @]
  /\ gen' = IF row[t] \in Open THEN gen + 1 ELSE gen
  /\ UNCHANGED incident

(* Mutant of CommitClose: a retry finds the trade closed and gives up. *)
CommitCloseOnce(w, t) ==
  /\ Works(w, "close", t)
  /\ CloseTrade(t)
  /\ Goes(w, IF row[t] \in Open THEN "committed" ELSE "uncommitted", t)
  /\ UNCHANGED <<held, pending, lease, tick, entry>>

CommitClose(w, t) ==
  /\ Works(w, "close", t)
  /\ CloseTrade(t)
  /\ Goes(w, "committed", t)
  /\ UNCHANGED <<held, pending, lease, tick, entry>>

(* close_trade raises: before the commit, or after it and only the answer   *)
(* is lost.                                                                 *)
CommitFails(w, t) ==
  /\ Works(w, "close", t)
  /\ CloseTrade(t) \/ UNCHANGED journal
  /\ Goes(w, "uncommitted", t)
  /\ UNCHANGED <<held, pending, lease, tick, entry>>

ClearMarker(w, t) ==
  /\ Works(w, "committed", t)
  /\ marker' = marker \ {t}
  /\ parked' = parked \ {t}
  /\ Goes(w, "idle", t)
  /\ UNCHANGED <<journal, held, lease, tick, entry>>

(* write_pending_close, up to its revoke. *)
WriteMarker(w, t) ==
  /\ Works(w, "uncommitted", t)
  /\ marker' = marker \cup {t}
  /\ Goes(w, "revoke", t)
  /\ UNCHANGED <<journal, held, parked, lease, tick, entry>>

Revoke(w, t) ==
  /\ Works(w, "revoke", t)
  /\ lease' = NoLease
  /\ parked' = parked \cup (marker \cap {t})
  /\ Goes(w, "idle", t)
  /\ UNCHANGED <<journal, held, marker, tick, entry>>

(* record_close_fill of one leg; the caller then revokes. *)
RecordLeg(w, t) ==
  /\ Idle(w)
  /\ row[t] = "open"
  /\ row' = [row EXCEPT ![t] = "partial"]
  /\ gen' = gen + 1
  /\ Goes(w, "revoke", t)
  /\ UNCHANGED <<incident, held, pending, lease, tick, entry>>

(* _handle_unresolved_close: revoke, then insert the incident. *)
BeginIncident(w, t) ==
  /\ Idle(w)
  /\ t \notin held /\ row[t] \in Open /\ incident[t] = "none"
  /\ lease' = NoLease
  /\ Goes(w, "incident", t)
  /\ UNCHANGED <<journal, held, pending, tick, entry>>

InsertIncident(w, t) ==
  /\ Works(w, "incident", t)
  /\ incident' = [incident EXCEPT ![t] = IF @ = "none" THEN "pending" ELSE @]
  /\ gen' = IF incident[t] = "none" THEN gen + 1 ELSE gen
  /\ Goes(w, "idle", t)
  /\ UNCHANGED <<row, held, pending, lease, tick, entry>>

(* mark_attempt and mark_resolved: retried, resolved or left to a person. *)
IncidentMoves(t) ==
  /\ \/ incident[t] = "pending" /\ incident' = [incident EXCEPT ![t] = "resolving"]
     \/ incident[t] \in {"pending", "resolving"} /\ incident' = [incident EXCEPT ![t] = "done"]
  /\ gen' = gen + 1
  /\ UNCHANGED <<row, held, pending, lease, tick, writer, entry>>

(* The cost worker writes the net figure, then revokes. *)
SettleCosts(w, t) ==
  /\ Idle(w)
  /\ row[t] = "pending"
  /\ row' = [row EXCEPT ![t] = "settled"]
  /\ gen' = gen + 1
  /\ Goes(w, "revoke", t)
  /\ UNCHANGED <<incident, held, pending, lease, tick, entry>>

(* Mutant of MarkIncomplete: a status none of the readers asks for. *)
MarkManual(t) ==
  /\ row[t] = "pending"
  /\ row' = [row EXCEPT ![t] = "manual_required"]
  /\ gen' = gen + 1
  /\ UNCHANGED <<incident, held, pending, lease, tick, writer, entry>>

MarkIncomplete(t) ==
  /\ row[t] = "pending"
  /\ row' = [row EXCEPT ![t] = "incomplete"]
  /\ gen' = gen + 1
  /\ UNCHANGED <<incident, held, pending, lease, tick, writer, entry>>

OperatorSettles(t) ==
  /\ row[t] \in Unsettled
  /\ row' = [row EXCEPT ![t] = "settled"]
  /\ gen' = gen + 1
  /\ UNCHANGED <<incident, held, pending, lease, tick, writer, entry>>

(* A call of the writer raises, or the process restarts. *)
WriterStops(w) ==
  /\ ~Idle(w)
  /\ writer' = [writer EXCEPT ![w] = [pc |-> "idle", trades |-> {}]]
  /\ UNCHANGED <<journal, held, pending, lease, tick, entry>>

-----------------------------------------------------------------------------
(* An entry: lease and generation before the slow pre-flight, and again     *)
(* before the order is sent.                                                *)

ReadLease(e) ==
  /\ entry[e].pc \in {"idle", "preflight"}
  /\ entry' = [entry EXCEPT ![e] =
       [pc |-> IF @.pc = "idle" THEN "first" ELSE "last", read |-> lease, late |-> parked # {}]]
  /\ UNCHANGED <<journal, held, pending, lease, tick, writer>>

CheckFirst(e) ==
  /\ entry[e].pc = "first"
  /\ entry' = [entry EXCEPT ![e] =
       [NoEntry EXCEPT !.pc = IF Admits(entry[e].read) THEN "preflight" ELSE "idle"]]
  /\ UNCHANGED <<journal, held, pending, lease, tick, writer>>

CheckLast(e) ==
  /\ entry[e].pc = "last"
  /\ entry' = [entry EXCEPT ![e] =
       IF Admits(entry[e].read) THEN [NoEntry EXCEPT !.pc = "admitted", !.late = entry[e].late] ELSE NoEntry]
  /\ UNCHANGED <<journal, held, pending, lease, tick, writer>>

(* The generation is unreadable, another check refuses, the order is sent.  *)
EntryEnds(e) ==
  /\ entry[e].pc # "idle"
  /\ entry' = [entry EXCEPT ![e] = NoEntry]
  /\ UNCHANGED <<journal, held, pending, lease, tick, writer>>

-----------------------------------------------------------------------------

TickStep ==
  \/ FetchPositions \/ TickUnavailable \/ Snapshot \/ CheckPending \/ Publish
  \/ RecheckPending \/ RecheckGeneration \/ TickRevokes

CloseStep(w, t) ==
  \/ BeginClose(w, t) \/ CommitClose(w, t) \/ CommitFails(w, t) \/ ClearMarker(w, t)
  \/ WriteMarker(w, t) \/ Revoke(w, t)

WriterStep(w, t) ==
  \/ CloseStep(w, t) \/ RecordLeg(w, t) \/ BeginIncident(w, t) \/ InsertIncident(w, t)
  \/ SettleCosts(w, t)

TradeStep(t) == PositionCloses(t) \/ IncidentMoves(t) \/ MarkIncomplete(t) \/ OperatorSettles(t)

EntryStep(e) == ReadLease(e) \/ CheckFirst(e) \/ CheckLast(e) \/ EntryEnds(e)

Next ==
  \/ TickStep \/ TickFails \/ LeaseExpires
  \/ \E w \in Writers, t \in Trades : WriterStep(w, t)
  \/ \E w \in Writers : WriterStops(w)
  \/ \E t \in Trades : TradeStep(t)
  \/ \E e \in Entries : EntryStep(e)

Spec == Init /\ [][Next]_vars

(* The supervisor keeps the tracker ticking, and a call its ticks make again *)
(* and again does not fail every time.                                      *)
TickFairness ==
  /\ WF_vars(TickStep)
  /\ SF_vars(FetchPositions) /\ SF_vars(Snapshot) /\ SF_vars(CheckPending)
  /\ SF_vars(Publish) /\ SF_vars(TickRevokes)

(* The monitor retries every marker it finds, and the journal does not      *)
(* refuse it every time.                                                    *)
RetryFairness ==
  \A t \in Trades :
    /\ SF_vars(\E w \in Writers : BeginClose(w, t) /\ t \in marker)
    /\ SF_vars(\E w \in Writers : CommitClose(w, t))
    /\ SF_vars(\E w \in Writers : ClearMarker(w, t))
    /\ WF_vars(\E w \in Writers : WriteMarker(w, t) \/ Revoke(w, t) \/ InsertIncident(w, t))

TickingSpec == Spec /\ TickFairness

-----------------------------------------------------------------------------

Leases == [gen : Int, realized : [Trades -> Nat], unrealized : SUBSET Trades]

(* Every variable keeps its shape: the tables, the Redis keys, and where the *)
(* tracker, the writers and the entries are.                                *)
TypeOK ==
  /\ gen \in Nat
  /\ row \in [Trades -> Open \cup Unsettled \cup {"settled"}]
  /\ incident \in [Trades -> {"none", "pending", "resolving", "done"}]
  /\ held \subseteq Trades /\ marker \subseteq Trades /\ parked \subseteq marker
  /\ lease \in Leases
  /\ tick \in [pc : {"idle", "positions", "snapshot", "publish", "published", "rechecked", "revoke"},
               read : Leases, blocked : BOOLEAN]
  /\ writer \in [Writers -> [pc : {"idle", "close", "committed", "uncommitted", "revoke", "incident"},
                             trades : SUBSET Trades]]
  /\ entry \in [Entries -> [pc : {"idle", "first", "preflight", "last", "admitted"},
                            read : Leases, late : BOOLEAN]]

(* A figure read at a generation is the journal's as long as the generation *)
(* is: no transaction that moves the figure or a blocker leaves it alone.   *)
Tells(read, blocked) ==
  /\ read.gen <= gen
  /\ read.gen = gen => read.realized = Realized /\ blocked = Blocked

(* tracker.py 61-72: whatever closes, incidents and settlements run between *)
(* the tracker's snapshot and its publication, a lease in Redis or in an    *)
(* entry's hands that still has the journal's generation has the journal's  *)
(* figure, and nothing blocks that figure.                                  *)
LeaseTellsTheJournal ==
  /\ Tells(lease, FALSE)
  /\ \A e \in Entries : Tells(entry[e].read, FALSE)

(* orders.py 302-312, 520-537: when the last check admits an entry, the     *)
(* journal's own realized loss at that moment is within the daily limit,    *)
(* nothing unsettled blocks it, and the figure used is the journal's.       *)
AdmittedOnTheJournal ==
  [][\A e \in Entries : entry[e].pc = "last" /\ entry'[e].pc = "admitted"
       => /\ entry[e].read.realized = Realized /\ ~Blocked
          /\ WithinLimit(Realized, entry[e].read.unrealized)]_vars

(* journal.py 1856-1863, tracker.py 41-47, 73-76: while a confirmed close   *)
(* stays out of the journal, the lease does not stay: from some moment on   *)
(* there is none, although the tracker goes on ticking.                     *)
PendingCloseKeepsLeaseOut == <>[](marker # {}) => <>[](lease = NoLease)

(* monitor.py 868-918, journal.py 1319-1343: a close recorded as pending is *)
(* committed and its marker removed, a lost answer to an earlier commit     *)
(* included, if the monitor goes on and the journal takes a retry at last.    *)
PendingCloseIsResolved ==
  RetryFairness => \A t \in Trades : t \in marker ~> t \notin marker

(* tracker.py 18-88: once nothing blocks the figure any more, the lease of  *)
(* the journal's generation is published again and again: no race leaves    *)
(* entries shut out.                                                        *)
ReadinessReturns == <>[](~Blocked /\ marker = {}) => []<>(lease # NoLease /\ lease.gen = gen)

(* tracker.py 68-72, "Entries are safe regardless": no entry whose last     *)
(* lease read came after a pending close had been recorded and the lease    *)
(* revoked is admitted.                                                     *)
PendingCloseNeverAdmits == \A e \in Entries : entry[e].pc = "admitted" => ~entry[e].late

(* The inductive invariant: the tracker's own reading tells the journal     *)
(* too, and is unblocked from the moment it may be published.               *)
Inv ==
  /\ TypeOK
  /\ LeaseTellsTheJournal
  /\ tick.pc = "snapshot" => Tells(tick.read, tick.blocked)
  /\ tick.pc = "publish" => Tells(tick.read, FALSE)
==============================================================================
