-------------------------- MODULE GateTokenProofs --------------------------
(***************************************************************************)
(* Proofs about the entry gate and its token, for any set of workers,      *)
(* blockers and entries.                                                   *)
(***************************************************************************)
EXTENDS GateToken, TLAPS

(* The gate's own consistency: it is open exactly when no close, missing   *)
(* worker or blocker stands against it, and a lifted operational close     *)
(* means that every critical worker is ready.                              *)
GateConsistent(g) ==
  /\ g \in GateType
  /\ g.open = ShouldBeOpen(g)
  /\ ~g.closed => g.ready = Critical

(* The gate starts consistent: WorkerReadinessGate.__init__. *)
LEMMA InitGateConsistent == GateConsistent(InitGate)
BY ZenonT(30) DEF GateConsistent, InitGate, GateType, ShouldBeOpen

(* Every method of the gate leaves it consistent. *)
LEMMA MethodsConsistent ==
  ASSUME NEW g, GateConsistent(g)
  PROVE  /\ \A b \in Blockers : GateConsistent(SetSafetyBlocker(g, b))
         /\ \A b \in Blockers : GateConsistent(ClearSafetyBlocker(g, b))
         /\ \A w \in Workers : GateConsistent(MarkReady(g, w))
         /\ \A r \in Reasons : GateConsistent(Close(g, r))
<1>1. ASSUME NEW b \in Blockers PROVE GateConsistent(SetSafetyBlocker(g, b))
  BY ZenonT(30) DEF GateConsistent, SetSafetyBlocker, EvaluateState, GateType, ShouldBeOpen
<1>2. ASSUME NEW b \in Blockers PROVE GateConsistent(ClearSafetyBlocker(g, b))
  BY ZenonT(30) DEF GateConsistent, ClearSafetyBlocker, EvaluateState, GateType, ShouldBeOpen
<1>3. ASSUME NEW w \in Workers PROVE GateConsistent(MarkReady(g, w))
  BY ZenonT(30) DEF GateConsistent, MarkReady, EvaluateState, GateType, ShouldBeOpen
<1>4. ASSUME NEW r \in Reasons PROVE GateConsistent(Close(g, r))
  BY ZenonT(30) DEF GateConsistent, Close, EvaluateState, GateType, ShouldBeOpen
<1> QED BY <1>1, <1>2, <1>3, <1>4

(* The inductive invariant: typing, the consistent gate and the token.     *)
IInv == TypeOK /\ GateConsistent(gate) /\ TokenInv

(* A method of the gate keeps the invariant: the token of an admitted      *)
(* entry falls behind as soon as the gate closes.                          *)
LEMMA MethodKeepsIInv ==
  ASSUME NEW h, IInv, GateConsistent(h), Method(h)
  PROVE  IInv'
<1>1. TypeOK'
  BY DEF IInv, TypeOK, Method, Generation, GateConsistent
<1>2. GateConsistent(gate)'
  BY DEF Method, GateConsistent, ShouldBeOpen, GateType
<1>3. ASSUME NEW e \in Entries, phase'[e] = "admitted"
      PROVE  /\ token'[e] <= generation'
             /\ closedSince'[e] => token'[e] < generation'
             /\ ~closedSince'[e] => gate'.open
  BY <1>3 DEF IInv, TypeOK, Method, Generation, TokenInv, GateConsistent, GateType
<1> QED BY <1>1, <1>2, <1>3 DEF IInv, TokenInv

(* The steps of the entries keep it too. *)
LEMMA EntryKeepsIInv ==
  ASSUME NEW e \in Entries, IInv, Admit(e) \/ Refuse(e) \/ Recheck(e) \/ Retry(e)
  PROVE  IInv'
<1>1. gate' = gate /\ generation' = generation
  BY DEF Admit, Refuse, Recheck, Retry
<1>2. GateConsistent(gate)'
  BY <1>1 DEF IInv, GateConsistent, ShouldBeOpen, GateType
<1>3. gate.open \in BOOLEAN /\ generation \in Nat
  BY DEF IInv, TypeOK, GateType
<1>4. CASE Admit(e)
  <2>1. TypeOK'
    BY <1>1, <1>3, <1>4 DEF IInv, TypeOK, Admit
  <2>2. ASSUME NEW f \in Entries, phase'[f] = "admitted"
        PROVE  /\ token'[f] <= generation'
               /\ closedSince'[f] => token'[f] < generation'
               /\ ~closedSince'[f] => gate'.open
    <3>1. CASE f = e
      <4>1. gate.open
        BY <1>4, <2>2, <3>1 DEF IInv, TypeOK, Admit
      <4>2. token'[e] = generation /\ ~closedSince'[e]
        BY <1>3, <1>4, <4>1, ZenonT(30) DEF IInv, TypeOK, Admit
      <4> QED BY <1>1, <1>3, <3>1, <4>1, <4>2
    <3>2. CASE f # e
      <4>1. /\ phase[f] = "admitted"
            /\ token'[f] = token[f]
            /\ closedSince'[f] = closedSince[f]
        BY <1>4, <2>2, <3>2 DEF IInv, TypeOK, Admit
      <4> QED BY <1>1, <4>1 DEF IInv, TokenInv
    <3> QED BY <3>1, <3>2
  <2> QED BY <1>2, <2>1, <2>2 DEF IInv, TokenInv
<1>5. CASE Refuse(e) \/ Recheck(e) \/ Retry(e)
  <2>1. TypeOK'
    BY <1>1, <1>5 DEF IInv, TypeOK, Refuse, Recheck, Retry
  <2>2. ASSUME NEW f \in Entries, phase'[f] = "admitted"
        PROVE  phase[f] = "admitted" /\ token'[f] = token[f]
                 /\ closedSince'[f] = closedSince[f]
    BY <1>5, <2>2 DEF IInv, TypeOK, Refuse, Recheck, Retry
  <2> QED BY <1>1, <1>2, <2>1, <2>2 DEF IInv, TokenInv
<1> QED BY <1>4, <1>5

(* IInv holds of every reachable state of the gate and its entries. *)
THEOREM Inductive == Spec => []IInv
<1>1. Init => IInv
  BY InitGateConsistent
     DEF Init, IInv, TypeOK, TokenInv, GateConsistent
<1>2. IInv /\ [Next]_vars => IInv'
  <2> SUFFICES ASSUME IInv, [Next]_vars PROVE IInv'
    OBVIOUS
  <2>1. GateConsistent(gate)
    BY DEF IInv
  <2>2. CASE Next
    <3>1. CASE \E b \in Blockers : Method(SetSafetyBlocker(gate, b))
      BY <3>1, <2>1, MethodsConsistent, MethodKeepsIInv
    <3>2. CASE \E b \in Blockers : Method(ClearSafetyBlocker(gate, b))
      BY <3>2, <2>1, MethodsConsistent, MethodKeepsIInv
    <3>3. CASE \E w \in Workers : Method(MarkReady(gate, w))
      BY <3>3, <2>1, MethodsConsistent, MethodKeepsIInv
    <3>4. CASE \E r \in Reasons : Method(Close(gate, r))
      BY <3>4, <2>1, MethodsConsistent, MethodKeepsIInv
    <3>5. CASE \E e \in Entries : Admit(e) \/ Refuse(e) \/ Recheck(e) \/ Retry(e)
      BY <3>5, EntryKeepsIInv
    <3> QED BY <2>2, <3>1, <3>2, <3>3, <3>4, <3>5 DEF Next
  <2>3. CASE UNCHANGED vars
    BY <2>3 DEF vars, IInv, TypeOK, TokenInv, GateConsistent, ShouldBeOpen, GateType
  <2> QED BY <2>2, <2>3
<1> QED BY <1>1, <1>2, PTL DEF Spec

(* The state of the gate and of every entry keeps its type. *)
THEOREM TypeCorrect == Spec => []TypeOK
BY Inductive, PTL DEF IInv

(* A token falls behind as soon as the gate closes after the admission. *)
THEOREM TokenTracksTheGate == Spec => []TokenInv
BY Inductive, PTL DEF IInv

(* place_order sends only if the gate stayed open since the admission. *)
THEOREM TokenSafe == Spec => SentOnlyThroughAnOpenGate
<1> DEFINE SendStep ==
      \A e \in Entries :
        phase[e] = "admitted" /\ phase'[e] = "sent" => ~closedSince[e]
<1>1. IInv /\ [Next]_vars => [SendStep]_vars
  <2> SUFFICES ASSUME IInv, Next, NEW e \in Entries,
                      phase[e] = "admitted", phase'[e] = "sent"
               PROVE  ~closedSince[e]
    BY DEF SendStep
  <2>1. Recheck(e) /\ gate.open /\ generation = token[e]
    BY DEF Next, Method, Admit, Refuse, Recheck, Retry, IInv, TypeOK
  <2> QED BY <2>1 DEF IInv, TypeOK, TokenInv
<1> QED BY <1>1, Inductive, PTL DEF Spec, SentOnlyThroughAnOpenGate

(* A closed gate always reports why it is closed. *)
THEOREM ClosedGateExplained == Spec => []ClosedGateHasReason
<1>1. IInv => ClosedGateHasReason
  BY DEF IInv, GateConsistent, ShouldBeOpen, ClosedGateHasReason, GetReasons, GateType
<1> QED BY <1>1, Inductive, PTL
=============================================================================
