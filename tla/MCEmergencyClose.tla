-------------------------- MODULE MCEmergencyClose --------------------------
(* EmergencyClose for TLC. *)
EXTENDS EmergencyClose, TLC

One(b) == IF b THEN 1 ELSE 0

(* Bound: what can go wrong at once. *)
MCInit ==
  /\ Init
  /\ LET trouble == One(~hand) + One(stop.st # "none") + MaxFaults - faults
     IN  trouble = IF \E x \in Exits : exit[x] = "idle" THEN 0 ELSE 2
  /\ ~trade => faults \in {0, MaxFaults} /\ \A x \in Exits : exit[x] = "done"
MCSpec == MCInit /\ [][Next]_vars
=============================================================================
