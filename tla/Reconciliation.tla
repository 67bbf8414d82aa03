--------------------------- MODULE Reconciliation ---------------------------
(***************************************************************************)
(* The pure decisions of live reconciliation: reconciliation.py and the    *)
(* reading of an exchange order in exchange_orders.py.                     *)
(*                                                                         *)
(* A source that has no entry for the instrument is None; an amount a      *)
(* source leaves out is Unknown.  Amounts are contracts, and the attempts  *)
(* of the instrument are a function from their ids to [status, filled].    *)
(***************************************************************************)
EXTENDS Integers, FiniteSetsExt

Unknown == -1
None == -2

UnresolvedStatus == {"pending", "accepted", "submission_unknown", "manual_required"}
NoPositionStatus == {"no_fill", "failed"}
SomeUnresolved(attempts) == \E k \in DOMAIN attempts : attempts[k].status \in UnresolvedStatus

(* Mutant of AttemptStateFromOrder: a state no table column knows. *)
AttemptStatePartial(order) ==
  CASE order.terminal /\ order.filled > 0 -> "completed"
    [] order.terminal /\ order.filled = 0 -> "no_fill"
    [] order.terminal /\ order.filled = Unknown -> "manual_required"
    [] OTHER -> "partial_active"

(* What an exchange order proves about its attempt. *)
AttemptStateFromOrder(order) ==
  CASE order.terminal /\ order.filled > 0 -> "completed"
    [] order.terminal /\ order.filled = 0 -> "no_fill"
    [] order.terminal /\ order.filled = Unknown -> "manual_required"
    [] OTHER -> "accepted"

SameContracts(a, b) == a # Unknown /\ b # Unknown /\ a = b

(* Total fill of the attempts that can hold a position. *)
AttemptsFilled(attempts) ==
  LET holding == {k \in DOMAIN attempts : attempts[k].status \notin NoPositionStatus}
      filled(k) == attempts[k].filled
  IN  IF \E k \in holding : filled(k) = Unknown THEN Unknown
      ELSE MapThenSumSet(filled, holding)

(* Mutant of ClassifyPositionState: an exact attempt without a trade row   *)
(* passes for an owned position.                                           *)
ClassifyByAttempt(complete, position, trade, attempts, redis) ==
  IF SomeUnresolved(attempts) \/ ~SameContracts(position, AttemptsFilled(attempts))
  THEN "unknown_mismatch" ELSE "healthy"

(* classify_position_state for one instrument: position and trade are      *)
(* contracts or None, redis says whether the monitoring keys are complete. *)
ClassifyPositionState(complete, position, trade, attempts, redis) ==
  CASE ~complete -> "incomplete_identity"
    [] complete /\ SomeUnresolved(attempts) -> "unresolved_order_attempt"
    [] OTHER ->
         IF position = None
         THEN IF trade # None THEN "db_only_orphan"
              ELSE IF redis THEN "redis_only_stale"
              ELSE IF /\ DOMAIN attempts # {}
                      /\ \A k \in DOMAIN attempts : attempts[k].status \in NoPositionStatus
                   THEN "healthy" ELSE "unknown_mismatch"
         ELSE IF trade # None
         THEN IF ~redis THEN "missing_redis"
              ELSE IF SameContracts(position, trade) THEN "healthy"
                   ELSE "position_size_mismatch"
         ELSE IF DOMAIN attempts = {} THEN "exchange_only_orphan"
         ELSE IF SameContracts(position, AttemptsFilled(attempts))
              THEN "missing_trade_exact_attempt" ELSE "position_size_mismatch"
=============================================================================
