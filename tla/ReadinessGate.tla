--------------------------- MODULE ReadinessGate ---------------------------
(***************************************************************************)
(* The entry gate of the execution service, WorkerReadinessGate in         *)
(* apps/execution/schurfer_execution/supervisor.py, as operators on a      *)
(* record.  The gate lives in one asyncio process and none of its methods  *)
(* awaits, so every method is one atomic operation.                        *)
(*                                                                         *)
(*   ready     critical workers marked ready since the last close          *)
(*   blockers  safety blockers set by the recovery code                    *)
(*   reasons   operational reasons of the closes since the last reopening  *)
(*   closed    _operationally_closed                                       *)
(*   open      _is_open                                                    *)
(*                                                                         *)
(* The generation counter is kept next to the record (see Generation): it  *)
(* grows by one exactly when a method flips `open'.                        *)
(***************************************************************************)
EXTENDS Naturals

CONSTANTS Critical,   \* names of the enabled critical workers
          Blockers,   \* safety blocker names
          Reasons     \* operational close reasons

GateType == [ready: SUBSET Critical, blockers: SUBSET Blockers,
             reasons: SUBSET Reasons, closed: BOOLEAN, open: BOOLEAN]

InitGate == [ready |-> {}, blockers |-> {}, reasons |-> {},
             closed |-> Critical # {}, open |-> Critical = {}]

ShouldBeOpen(g) == ~g.closed /\ g.ready = Critical /\ g.blockers = {}

EvaluateState(g) == [g EXCEPT !.open = ShouldBeOpen(g)]

SetSafetyBlocker(g, b) ==
  IF b \in g.blockers THEN g
  ELSE EvaluateState([g EXCEPT !.blockers = @ \cup {b}])

ClearSafetyBlocker(g, b) ==
  IF b \in g.blockers THEN EvaluateState([g EXCEPT !.blockers = @ \ {b}])
  ELSE g

(* Mutants of MarkReady: the membership test dropped; the operational flag *)
(* lifted by any ready worker, or by none.                                 *)
MarkReadyAnyWorker(g, w) ==
  LET ready == g.ready \cup {w}
      all   == ready = Critical
  IN  EvaluateState([g EXCEPT !.ready   = ready,
                              !.closed  = @ /\ ~all,
                              !.reasons = IF all THEN {} ELSE @])

MarkReadyLiftsEarly(g, w) ==
  IF w \notin Critical THEN g
  ELSE EvaluateState([g EXCEPT !.ready = @ \cup {w}, !.closed = FALSE, !.reasons = {}])

MarkReadyNeverLifts(g, w) ==
  IF w \notin Critical THEN g
  ELSE EvaluateState([g EXCEPT !.ready = @ \cup {w}])

MarkReady(g, w) ==
  LET ready == g.ready \cup {w}
      all   == ready = Critical
  IN  IF w \notin Critical THEN g
      ELSE EvaluateState([g EXCEPT !.ready   = ready,
                                   !.closed  = @ /\ ~all,
                                   !.reasons = IF all THEN {} ELSE @])

Close(g, r) ==
  EvaluateState([g EXCEPT !.closed = TRUE, !.reasons = @ \cup {r}, !.ready = {}])

(* Mutant of Generation: a close does not count. *)
GenerationOnOpenOnly(n, g, h) == IF h.open /\ ~g.open THEN n + 1 ELSE n

(* The generation after a method took the gate from g to h. *)
Generation(n, g, h) == IF h.open # g.open THEN n + 1 ELSE n

(* get_reasons: what the status endpoint reports about a closed gate. *)
GetReasons(g) ==
  g.blockers \cup g.reasons
    \cup (IF g.closed /\ g.reasons = {} THEN {"startup_pending"} ELSE {})
=============================================================================
