------------------------------ MODULE MCPnlLease ------------------------------
(* Instances of PnlLease for TLC.  Writers only differ by what they do, so   *)
(* the runs of invariants and action properties may swap them.              *)
EXTENDS PnlLease, TLC

SwapWriters == Permutations(Writers)
==============================================================================
