---------------------------- MODULE MCOrderLock ----------------------------
(* OrderLock for TLC: interchangeable operations on one instrument. *)
EXTENDS OrderLock, TLC
Symmetry == Permutations(Ops)
=============================================================================
