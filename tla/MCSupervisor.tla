---------------------------- MODULE MCSupervisor ----------------------------
(* Supervisor for TLC: a critical worker that may be restarted once per    *)
(* window, and one that is not critical and is given up at once.           *)
EXTENDS Supervisor, TLC
CONSTANTS crit, side

MCOrder == <<side, crit>>
MCEnabled == {side, crit}
MCCritical == {crit}
BoundedPolicy == (crit :> "bounded_fatal") @@ (side :> "bounded_degraded")
MCBudget == (crit :> 1) @@ (side :> 0)
=============================================================================
