----------------------------- MODULE GateToken -----------------------------
(***************************************************************************)
(* The generation token of the entry gate.  place_order (orders.py) reads  *)
(* is_open() on entry, works through several awaits, and reads it again    *)
(* right before it sends the order: it sends only if the gate is open and  *)
(* the generation is the one it read first.  Between the two reads the     *)
(* supervisor, the reconciler and the recovery code call every method of   *)
(* the gate in any order.                                                  *)
(***************************************************************************)
EXTENDS ReadinessGate

CONSTANTS Workers,        \* every worker name, critical or not
          Entries,        \* place_order calls in flight
          MaxGeneration   \* bound on the generation counter

ASSUME MaxGenerationAssumption == MaxGeneration \in Nat

VARIABLES gate,
          generation,
          phase,          \* phase[e]: idle, admitted, sent or refused
          token,          \* token[e]: the generation read on admission
          closedSince     \* history: the gate was closed after e's admission

vars == <<gate, generation, phase, token, closedSince>>

TypeOK ==
  /\ gate \in GateType
  /\ generation \in Nat
  /\ phase \in [Entries -> {"idle", "admitted", "sent", "refused"}]
  /\ token \in [Entries -> Nat]
  /\ closedSince \in [Entries -> BOOLEAN]

Init ==
  /\ gate = InitGate
  /\ generation = 0
  /\ phase = [e \in Entries |-> "idle"]
  /\ token = [e \in Entries |-> 0]
  /\ closedSince = [e \in Entries |-> FALSE]

(* A gate method that turns the gate into h. *)
Method(h) ==
  /\ generation < MaxGeneration
  /\ gate' = h
  /\ generation' = Generation(generation, gate, h)
  /\ closedSince' = [e \in Entries |-> closedSince[e] \/ ~h.open]
  /\ UNCHANGED <<phase, token>>

(* place_order, first read: a closed gate refuses the entry at once. *)
Admit(e) ==
  /\ phase[e] = "idle"
  /\ phase' = [phase EXCEPT ![e] = IF gate.open THEN "admitted" ELSE "refused"]
  /\ token' = [token EXCEPT ![e] = generation]
  /\ closedSince' = [closedSince EXCEPT ![e] = ~gate.open]
  /\ UNCHANGED <<gate, generation>>

(* Any other check of the pre-flight refuses the entry. *)
Refuse(e) ==
  /\ phase[e] = "admitted"
  /\ phase' = [phase EXCEPT ![e] = "refused"]
  /\ UNCHANGED <<gate, generation, token, closedSince>>

(* Mutant of Recheck: the generation is not compared. *)
RecheckOpenOnly(e) ==
  /\ phase[e] = "admitted"
  /\ phase' = [phase EXCEPT ![e] = IF gate.open THEN "sent" ELSE "refused"]
  /\ UNCHANGED <<gate, generation, token, closedSince>>

(* place_order, second read, with no await before the order is sent. *)
Recheck(e) ==
  /\ phase[e] = "admitted"
  /\ phase' = [phase EXCEPT ![e] =
                 IF gate.open /\ generation = token[e] THEN "sent" ELSE "refused"]
  /\ UNCHANGED <<gate, generation, token, closedSince>>

(* The caller asks again. *)
Retry(e) ==
  /\ phase[e] \in {"sent", "refused"}
  /\ phase' = [phase EXCEPT ![e] = "idle"]
  /\ UNCHANGED <<gate, generation, token, closedSince>>

Next ==
  \/ \E b \in Blockers : Method(SetSafetyBlocker(gate, b))
  \/ \E b \in Blockers : Method(ClearSafetyBlocker(gate, b))
  \/ \E w \in Workers : Method(MarkReady(gate, w))
  \/ \E r \in Reasons : Method(Close(gate, r))
  \/ \E e \in Entries : Admit(e) \/ Refuse(e) \/ Recheck(e) \/ Retry(e)

Spec == Init /\ [][Next]_vars
-----------------------------------------------------------------------------
(* An order is sent only if the gate stayed open, without a gap, from the  *)
(* admission of the entry to the send: two flips in between (closed and    *)
(* reopened) are noticed although the gate looks open at both reads.       *)
SentOnlyThroughAnOpenGate ==
  [][\A e \in Entries :
       phase[e] = "admitted" /\ phase'[e] = "sent" => ~closedSince[e]]_vars

(* Why the token works: a token is never ahead of the generation, and once *)
(* the gate closed after an admission the generation has left the token    *)
(* behind for good.                                                        *)
TokenInv ==
  \A e \in Entries :
    phase[e] = "admitted" =>
      /\ token[e] <= generation
      /\ closedSince[e] => token[e] < generation
      /\ ~closedSince[e] => gate.open

(* A closed gate always names a reason (get_reasons is never empty while   *)
(* entries are refused): the ready set, the operational flag and the       *)
(* blockers cannot drift into a closed gate nobody can explain.            *)
ClosedGateHasReason == gate.open \/ GetReasons(gate) # {}
=============================================================================
