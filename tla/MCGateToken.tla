---------------------------- MODULE MCGateToken ----------------------------
(* GateToken for TLC: two critical workers and one that is not, two        *)
(* blockers, one reason, two entries.                                      *)
EXTENDS GateToken
CONSTANTS w1, w2, w3, b1, b2, e1, e2

MCCritical == {w1, w2}
MCWorkers == {w1, w2, w3}
MCBlockers == {b1, b2}
MCEntries == {e1, e2}
=============================================================================
