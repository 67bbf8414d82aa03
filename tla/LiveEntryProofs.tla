-------------------------- MODULE LiveEntryProofs --------------------------
(***************************************************************************)
(* The portfolio cap, for every number of entries, instruments and slots:  *)
(* no interleaving of entries, lost status writes, late fills, scans and   *)
(* restarts exposes more than MaxPositions instruments; an attempt that a  *)
(* scan left unresolved keeps entries blocked (KnownInv), and a clean scan *)
(* proved who owns every position it read (CleanInv).                      *)
(*                                                                         *)
(* Only Reserve makes an entry count (Committed), and it does so against   *)
(* Occupied, which holds every committed instrument because an entry's     *)
(* rows follow its order (RowsFollowOrder).                                *)
(***************************************************************************)
EXTENDS LiveEntry, FiniteSetTheorems, TLAPS

(* What every step but Reserve does: the rows still follow the orders and  *)
(* no entry becomes committed.                                             *)
Keeps ==
  /\ TablesOK'
  /\ \A f \in Entries : RowsFollowOrder(f)' /\ (Committed(f)' => Committed(f))

Rows == TablesOK /\ \A e \in Entries : RowsFollowOrder(e)

(* The committed instruments are finitely many, and all are among the      *)
(* slots that Reserve counts.                                              *)
LEMMA ExposureIsOccupied ==
  ASSUME Rows, NEW e \in Entries
  PROVE  /\ Exposure \subseteq Occupied(e)
         /\ IsFiniteSet(Occupied(e)) /\ IsFiniteSet(Exposure)
<1>1. \A f \in Entries : Committed(f) => Slot(f)
  BY Zenon DEF Rows, RowsFollowOrder, Committed, Slot, Unresolved, UnresolvedStatus
<1>2. Exposure \subseteq Slots
  BY <1>1, Zenon DEF Exposure, Slots
<1>3. Occupied(e) \subseteq Instruments
  BY LiveEntryAssumption DEF Occupied, Slots, Rows, TablesOK
<1>4. Exposure \subseteq Instruments
  BY LiveEntryAssumption, Zenon DEF Exposure
<1> QED
  BY <1>2, <1>3, <1>4, FS_Subset, LiveEntryAssumption, Zenon DEF Occupied

(* A step of one call: it moves, and its rows and order stay. *)
LEMMA MoveKeeps ==
  ASSUME Rows, NEW e \in Entries, NEW to, At(e, pc[e], to), TablesOK',
         UNCHANGED <<attempt, trade, linked, tasks, order, held>>,
         to \in Unreserved => attempt[e] = "none",
         to # "reserved",
         to \in Filled => order[e] = "filled"
  PROVE  Keeps
BY DEF Rows, Keeps, TablesOK, RowsFollowOrder, Committed, Exposed, Slot, Unresolved, At

(* Calls before they reserve, and those that are turned away. *)
LEMMA AdmissionKeeps ==
  ASSUME Rows, NEW e \in Entries,
         \/ Admit(e) \/ Lock(e) \/ LockBusy(e) \/ CheckRisk(e)
         \/ RefusePreflight(e) \/ ReserveDenied(e)
  PROVE  Keeps
<1> DEFINE Same == UNCHANGED <<attempt, trade, linked, tasks, order, held>>
<1> USE DEF At, tables, exchange, entryVars, Unreserved, Filled
<1>1. CASE Admit(e) \/ Lock(e) \/ LockBusy(e)
  <2>1. PICK to \in {"idle", "admitted", "checking"} : At(e, pc[e], to)
    BY <1>1, Zenon DEF Admit, Lock, LockBusy
  <2>2. Same /\ UNCHANGED seen /\ pc[e] \in Unreserved
    BY <1>1, Zenon DEF Admit, Lock, LockBusy
  <2>3. TablesOK'
    BY <2>1, <2>2, Zenon DEF Rows, TablesOK
  <2> QED
    BY <2>1, <2>2, <2>3, MoveKeeps, ZenonT(30) DEF Rows, RowsFollowOrder
<1>2. CASE CheckRisk(e)
  <2>3. Positions \subseteq Instruments
    BY LiveEntryAssumption DEF Positions, Rows, TablesOK
  <2>4. PICK positions \in SUBSET Instruments : seen' = [seen EXCEPT ![e] = positions]
    BY <1>2, <2>3, ZenonT(30) DEF CheckRisk
  <2>5. seen' \in [Entries -> SUBSET Instruments]
    BY <2>4, Zenon DEF Rows, TablesOK
  <2>1. TablesOK'
    BY <1>2, <2>5, Zenon DEF CheckRisk, Rows, TablesOK
  <2>2. Same /\ At(e, pc[e], "preflight") /\ attempt[e] = "none"
    BY <1>2, Zenon DEF CheckRisk, Rows, RowsFollowOrder
  <2> QED
    BY <2>1, <2>2, MoveKeeps, ZenonT(30)
<1>3. CASE RefusePreflight(e) \/ ReserveDenied(e)
  <2>1. Same /\ At(e, pc[e], "idle") /\ attempt[e] = "none"
    BY <1>3, Zenon DEF RefusePreflight, ReserveDenied, Refuse, Rows, RowsFollowOrder
  <2>2. TablesOK'
    BY <1>3, <2>1, Zenon DEF RefusePreflight, ReserveDenied, Refuse, Rows, TablesOK
  <2> QED
    BY <2>1, <2>2, MoveKeeps, ZenonT(30)
<1> QED
  BY <1>1, <1>2, <1>3, Zenon

(* A step that rewrites one entry's rows or order: it is enough that this  *)
(* entry's rows follow its order and that it does not become committed.    *)
LEMMA WriteKeeps ==
  ASSUME Rows, NEW e \in Entries, TablesOK',
         \A f \in Entries \ {e} :
           /\ pc'[f] = pc[f] /\ attempt'[f] = attempt[f] /\ trade'[f] = trade[f]
           /\ order'[f] = order[f]
           /\ (f \in linked' <=> f \in linked) /\ (f \in tasks' <=> f \in tasks)
           /\ (f \in held' <=> f \in held),
         RowsFollowOrder(e)', Committed(e)' => Committed(e)
  PROVE  Keeps
<1> SUFFICES ASSUME NEW f \in Entries, f # e
             PROVE  RowsFollowOrder(f)' /\ (Committed(f)' => Committed(f))
  BY Zenon DEF Keeps
<1>1. RowsFollowOrder(f)
  BY Zenon DEF Rows
<1> QED
  BY <1>1 DEF RowsFollowOrder, Committed, Exposed, Slot, Unresolved

(* The entry's request goes out, fails or is answered. *)
LEMMA SubmissionKeeps ==
  ASSUME Rows, NEW e \in Entries,
         \/ RecheckFails(e) \/ Send(e) \/ Rejected(e) \/ Accepted(e) \/ MarkUnknown(e)
         \/ BlockEntries(e) \/ NotFound(e)
  PROVE  Keeps
<1> USE DEF At, tables, exchange, entryVars, Unreserved, Filled, Status
<1> DEFINE Same == UNCHANGED <<attempt, trade, linked, tasks, order, held>>
<1>0. TablesOK /\ RowsFollowOrder(e)
  BY Zenon DEF Rows
<1>1. CASE RecheckFails(e)
  <2>1. TablesOK'
    BY <1>0, <1>1, Zenon DEF RecheckFails, Finish, Mark, TablesOK
  <2> QED
    BY <1>0, <1>1, <2>1, WriteKeeps
       DEF RecheckFails, Finish, Mark, TablesOK, RowsFollowOrder, Committed, Exposed, Slot
<1>2. CASE Send(e)
  <2>1. TablesOK'
    BY <1>0, <1>2, Zenon DEF Send, TablesOK
  <2> QED
    BY <1>0, <1>2, <2>1, WriteKeeps, SMTT(30)
       DEF Send, TablesOK, RowsFollowOrder, Committed, Exposed, Slot, Unresolved, UnresolvedStatus
<1>3. CASE Rejected(e)
  <2>1. TablesOK'
    BY <1>0, <1>3, Zenon DEF Rejected, Finish, Mark, TablesOK
  <2> QED
    BY <1>0, <1>3, <2>1, WriteKeeps, SMTT(30)
       DEF Rejected, Finish, Mark, TablesOK, RowsFollowOrder, Committed, Exposed, Slot
<1>4. CASE Accepted(e) \/ MarkUnknown(e)
  <2>1. TablesOK'
    BY <1>0, <1>4, Zenon DEF Accepted, MarkUnknown, Mark, TablesOK
  <2> QED
    BY <1>0, <1>4, <2>1, WriteKeeps, SMTT(30)
       DEF Accepted, MarkUnknown, Mark, TablesOK, RowsFollowOrder, Committed, Exposed, Slot,
           Unresolved, UnresolvedStatus
<1>5. CASE BlockEntries(e) \/ NotFound(e)
  <2>1. PICK to \in {"lookup", "done"} : At(e, pc[e], to)
    BY <1>5, Zenon DEF BlockEntries, NotFound
  <2>2. Same /\ UNCHANGED seen
    BY <1>5, Zenon DEF BlockEntries, NotFound
  <2>3. TablesOK'
    BY <1>0, <2>1, <2>2, Zenon DEF TablesOK
  <2> QED
    BY <2>1, <2>2, <2>3, MoveKeeps, ZenonT(30)
<1> QED
  BY <1>1, <1>2, <1>3, <1>4, <1>5, Zenon

(* The lookup of an unknown order, and what its settling finds. *)
LEMMA RecoveryKeeps ==
  ASSUME Rows, NEW e \in Entries,
         \/ Found(e) \/ Settled(e) \/ NotSettled(e) \/ NoFill(e)
  PROVE  Keeps
<1> USE DEF At, tables, exchange, entryVars, Unreserved, Filled, Status
<1>0. TablesOK /\ RowsFollowOrder(e)
  BY Zenon DEF Rows
<1>1. CASE Found(e)
  <2>1. TablesOK'
    BY <1>0, <1>1, Zenon DEF Found, Mark, TablesOK
  <2> QED
    BY <1>0, <1>1, <2>1, WriteKeeps, SMTT(30)
       DEF Found, Mark, TablesOK, RowsFollowOrder, Committed, Exposed, Slot,
           Unresolved, UnresolvedStatus
<1>2. CASE Settled(e)
  <2>1. TablesOK'
    BY <1>0, <1>2, Zenon DEF Settled, Mark, TablesOK
  <2> QED
    BY <1>0, <1>2, <2>1, WriteKeeps, SMTT(30)
       DEF Settled, Mark, TablesOK, RowsFollowOrder, Committed, Exposed, Slot,
           Unresolved, UnresolvedStatus
<1>3. CASE NotSettled(e)
  <2>1. TablesOK'
    BY <1>0, <1>3, Zenon DEF NotSettled, Finish, Mark, TablesOK
  <2> QED
    BY <1>0, <1>3, <2>1, WriteKeeps, SMTT(30)
       DEF NotSettled, Finish, Mark, TablesOK, RowsFollowOrder, Committed, Exposed, Slot,
           Unresolved, UnresolvedStatus
<1>4. CASE NoFill(e)
  <2>1. TablesOK'
    BY <1>0, <1>4, Zenon DEF NoFill, Finish, Mark, TablesOK
  <2> QED
    BY <1>0, <1>4, <2>1, WriteKeeps, SMTT(30)
       DEF NoFill, Finish, Mark, TablesOK, RowsFollowOrder, Committed, Exposed, Slot,
           Unresolved, UnresolvedStatus
<1> QED
  BY <1>1, <1>2, <1>3, <1>4, Zenon

(* The stop, the journal row, or the flattening of the entry. *)
LEMMA ProtectionKeeps ==
  ASSUME Rows, NEW e \in Entries,
         \/ PlaceStop(e) \/ Unpriced(e) \/ CompleteOpen(e) \/ MarkCompleted(e) \/ FlattenBlocks(e)
         \/ FlattenOwned(e) \/ FlattenTask(e)
  PROVE  Keeps
<1> USE DEF At, tables, exchange, entryVars, Unreserved, Filled, Status
<1>0. TablesOK /\ RowsFollowOrder(e)
  BY Zenon DEF Rows
<1>1. CASE PlaceStop(e)
  <2>1. TablesOK'
    BY <1>0, <1>1, Zenon DEF PlaceStop, TablesOK
  <2> QED
    BY <1>0, <1>1, <2>1, WriteKeeps, SMTT(30)
       DEF PlaceStop, TablesOK, RowsFollowOrder, Committed, Exposed, Slot,
           Unresolved, UnresolvedStatus
<1>2. CASE Unpriced(e)
  <2>1. TablesOK'
    BY <1>0, <1>2, Zenon DEF Unpriced, Mark, TablesOK
  <2>2. RowsFollowOrder(e)' /\ (Committed(e)' => Committed(e))
    BY <1>0, <1>2, Zenon
       DEF Unpriced, Mark, TablesOK, RowsFollowOrder, Committed, Exposed, Slot,
           Unresolved, UnresolvedStatus
  <2> QED
    BY <1>0, <1>2, <2>1, <2>2, WriteKeeps, SMTT(30) DEF Unpriced, Mark, TablesOK
<1>3. CASE CompleteOpen(e)
  <2>1. TablesOK'
    BY <1>0, <1>3, Zenon DEF CompleteOpen, TablesOK
  <2>2. RowsFollowOrder(e)' /\ (Committed(e)' => Committed(e))
    BY <1>0, <1>3, Zenon
       DEF CompleteOpen, TablesOK, RowsFollowOrder, Committed, Exposed, Slot,
           Unresolved, UnresolvedStatus
  <2> QED
    BY <1>0, <1>3, <2>1, <2>2, WriteKeeps DEF CompleteOpen, TablesOK
<1>4. CASE MarkCompleted(e)
  <2>1. TablesOK'
    BY <1>0, <1>4, Zenon DEF MarkCompleted, TablesOK
  <2>2. RowsFollowOrder(e)' /\ (Committed(e)' => Committed(e))
    BY <1>0, <1>4, Zenon
       DEF MarkCompleted, TablesOK, RowsFollowOrder, Committed, Exposed, Slot,
           Unresolved, UnresolvedStatus
  <2> QED
    BY <1>0, <1>4, <2>1, <2>2, WriteKeeps, SMTT(30) DEF MarkCompleted, TablesOK
<1>5. CASE FlattenBlocks(e)
  <2>1. TablesOK'
    BY <1>0, <1>5, Zenon DEF FlattenBlocks, TablesOK
  <2>2. RowsFollowOrder(e)' /\ (Committed(e)' => Committed(e))
    BY <1>0, <1>5, Zenon
       DEF FlattenBlocks, TablesOK, RowsFollowOrder, Committed, Exposed, Slot,
           Unresolved, UnresolvedStatus
  <2> QED
    BY <1>0, <1>5, <2>1, <2>2, WriteKeeps, Zenon DEF FlattenBlocks, TablesOK
<1>6. CASE FlattenOwned(e)
  <2>1. TablesOK'
    BY <1>0, <1>6, Zenon DEF FlattenOwned, Mark, TablesOK
  <2>2. RowsFollowOrder(e)' /\ (Committed(e)' => Committed(e))
    BY <1>0, <1>6, Zenon
       DEF FlattenOwned, Mark, TablesOK, RowsFollowOrder, Committed, Exposed, Slot,
           Unresolved, UnresolvedStatus
  <2> QED
    BY <1>0, <1>6, <2>1, <2>2, WriteKeeps, SMTT(30) DEF FlattenOwned, Mark, TablesOK
<1>7. CASE FlattenTask(e)
  <2>1. TablesOK'
    BY <1>0, <1>7, Zenon DEF FlattenTask, TablesOK
  <2>2. RowsFollowOrder(e)' /\ (Committed(e)' => Committed(e))
    BY <1>0, <1>7, Zenon
       DEF FlattenTask, TablesOK, RowsFollowOrder, Committed, Exposed, Slot,
           Unresolved, UnresolvedStatus
  <2> QED
    BY <1>0, <1>7, <2>1, <2>2, WriteKeeps, Zenon DEF FlattenTask, TablesOK
<1> QED
  BY <1>1, <1>2, <1>3, <1>4, <1>5, <1>6, <1>7, Zenon

(* The exchange, the closes, the accountant, the operator and the incident *)
(* worker.                                                                 *)
LEMMA WorldKeeps ==
  ASSUME Rows, NEW e \in Entries,
         \/ ExchangeStep(e) \/ PositionCloses(e) \/ TradeCloses(e) \/ TaskAccounted(e) \/ OperatorClears(e)
         \/ RecoverOpen(e)
  PROVE  Keeps
<1> USE DEF At, tables, exchange, entryVars, Unreserved, Filled, Status
<1>0. TablesOK /\ RowsFollowOrder(e)
  BY Zenon DEF Rows
<1>1. CASE ExchangeStep(e)
  <2>1. TablesOK'
    BY <1>0, <1>1, Zenon DEF ExchangeStep, TablesOK
  <2> QED
    BY <1>0, <1>1, <2>1, WriteKeeps, SMTT(30)
       DEF ExchangeStep, TablesOK, RowsFollowOrder, Committed, Exposed, Slot,
           Unresolved, UnresolvedStatus
<1>2. CASE PositionCloses(e)
  <2>1. TablesOK'
    BY <1>0, <1>2, Zenon DEF PositionCloses, TablesOK
  <2> QED
    BY <1>0, <1>2, <2>1, WriteKeeps, Zenon
       DEF PositionCloses, TablesOK, RowsFollowOrder, Committed, Exposed, Slot,
           Unresolved, UnresolvedStatus
<1>3. CASE TradeCloses(e)
  <2>1. TablesOK'
    BY <1>0, <1>3, Zenon DEF TradeCloses, TablesOK
  <2> QED
    BY <1>0, <1>3, <2>1, WriteKeeps, SMTT(30)
       DEF TradeCloses, TablesOK, RowsFollowOrder, Committed, Exposed, Slot,
           Unresolved, UnresolvedStatus
<1>4. CASE TaskAccounted(e)
  <2>1. TablesOK'
    BY <1>0, <1>4, Zenon DEF TaskAccounted, TablesOK
  <2> QED
    BY <1>0, <1>4, <2>1, WriteKeeps, SMTT(30)
       DEF TaskAccounted, TablesOK, RowsFollowOrder, Committed, Exposed, Slot,
           Unresolved, UnresolvedStatus
<1>5. CASE OperatorClears(e)
  <2>1. TablesOK'
    BY <1>0, <1>5, Zenon DEF OperatorClears, TablesOK
  <2> QED
    BY <1>0, <1>5, <2>1, WriteKeeps, Zenon
       DEF OperatorClears, TablesOK, RowsFollowOrder, Committed, Exposed, Slot,
           Unresolved, UnresolvedStatus
<1>6. CASE RecoverOpen(e)
  <2>1. TablesOK'
    BY <1>0, <1>6, Zenon DEF RecoverOpen, TablesOK
  <2> QED
    BY <1>0, <1>6, <2>1, WriteKeeps, SMTT(30)
       DEF RecoverOpen, TablesOK, RowsFollowOrder, Committed, Exposed, Slot,
           Unresolved, UnresolvedStatus
<1> QED
  BY <1>1, <1>2, <1>3, <1>4, <1>5, <1>6, Zenon

(* What a scan records comes from the order: it forgets no exposure. *)
LEMMA OrderStatesSound ==
  ASSUME Rows, NEW e \in Entries, NEW status \in OrderStates(e)
  PROVE  /\ status \in Status \ {"none"}
         /\ order[e] \in {"live", "filled", "empty"}
         /\ status = "completed" => order[e] = "filled"
         /\ status \in UnresolvedStatus \cup {"completed"} \/ order[e] = "empty"
<1>1. order[e] \in {"live", "filled", "empty"}
  BY Zenon DEF OrderStates, Rows, TablesOK
<1>2. PICK o \in {[terminal |-> FALSE, filled |-> 0], [terminal |-> TRUE, filled |-> 0],
                  [terminal |-> TRUE, filled |-> 1], [terminal |-> TRUE, filled |-> Unknown]} :
        /\ status = AttemptStateFromOrder(o)
        /\ (o.terminal /\ o.filled = 1) => order[e] = "filled"
        /\ (o.terminal /\ o.filled = 0) => order[e] = "empty"
  <2>1. CASE order[e] = "live"
    BY <2>1, Zenon DEF OrderStates
  <2>2. CASE order[e] = "filled"
    BY <2>2 DEF OrderStates, Unknown
  <2>3. CASE order[e] = "empty"
    BY <2>3 DEF OrderStates, Unknown
  <2> QED
    BY <1>1, <2>1, <2>2, <2>3, Zenon
<1> QED
  BY <1>1, <1>2 DEF AttemptStateFromOrder, Unknown, Status, UnresolvedStatus

(* The scan, the restart and the critical workers. *)
LEMMA ScanKeeps ==
  ASSUME Rows, ScanStep \/ ScanFails \/ Restart \/ WorkerStep
  PROVE  Keeps
<1> DEFINE Same == UNCHANGED <<seen, attempt, trade, linked, tasks, order, held>>
<1>1. CASE Same /\ UNCHANGED pc
  BY <1>1, Zenon DEF Rows, Keeps, TablesOK, RowsFollowOrder, Committed, Exposed, Slot, Unresolved
<1>2. CASE \/ FetchExchange \/ FetchDb \/ ClassifyAll \/ ResolveAbsent \/ ScanDone
           \/ ScanFails \/ WorkerStep \/ \E e \in Entries : LeaveAttempt(e)
  <2>1. Same /\ UNCHANGED pc
    BY <1>2, Zenon DEF FetchExchange, FetchDb, ClassifyAll, ResolveAbsent, ScanDone, ScanFails,
                WorkerStep, LeaveAttempt, ScanOnly, entryVars, tables, exchange
  <2> QED
    BY <1>1, <2>1, Zenon
<1>3. CASE \E e \in Entries : ResolveExact(e) \/ ResolveLateFill(e)
  <2>1. PICK e \in Entries : ResolveExact(e) \/ ResolveLateFill(e)
    BY <1>3, Zenon
  <2>2. PICK status \in OrderStates(e) :
          /\ attempt' = [attempt EXCEPT ![e] = status]
          /\ tasks' = tasks \/ (tasks' = tasks \cup {e} /\ status = "completed")
    BY <2>1, ZenonT(30) DEF ResolveExact, ResolveLateFill, Recorded
  <2>3. UNCHANGED <<pc, seen, trade, linked, order, held>>
    BY <2>1, Zenon DEF ResolveExact, ResolveLateFill, entryVars, exchange
  <2>4. TablesOK /\ RowsFollowOrder(e)
    BY Zenon DEF Rows
  <2>5. TablesOK'
    BY <2>2, <2>3, <2>4, OrderStatesSound, Zenon DEF TablesOK, Status
  <2>6. RowsFollowOrder(e)' /\ (Committed(e)' => Committed(e))
    BY <2>2, <2>3, <2>4, OrderStatesSound, Zenon
       DEF TablesOK, RowsFollowOrder, Committed, Exposed, Slot, Unresolved, UnresolvedStatus,
           Unreserved, Status
  <2> QED
    BY <2>2, <2>3, <2>4, <2>5, <2>6, WriteKeeps, Zenon DEF TablesOK
<1>4. CASE Restart
  <2>1. TablesOK'
    BY <1>4, Zenon DEF Restart, tables, exchange, Rows, TablesOK, Unreserved
  <2> SUFFICES ASSUME NEW f \in Entries
               PROVE  RowsFollowOrder(f)' /\ (Committed(f)' => Committed(f))
    BY <2>1, Zenon DEF Keeps
  <2>2. /\ pc'[f] = IF attempt[f] = "none" THEN "idle" ELSE "done"
        /\ UNCHANGED <<attempt, trade, linked, tasks, order, held>>
    BY <1>4, Zenon DEF Restart, tables, exchange
  <2>3. RowsFollowOrder(f)
    BY Zenon DEF Rows
  <2> QED
    BY <2>2, <2>3, Zenon
       DEF RowsFollowOrder, Committed, Exposed, Slot, Unresolved, Unreserved, Filled
<1> QED
  BY <1>2, <1>3, <1>4, Zenon DEF ScanStep

(* Reserve commits one entry, within the cap. *)
LEMMA ReserveKeepsInv ==
  ASSUME Inv, NEW e \in Entries, Reserve(e)
  PROVE  Inv'
<1>0. Rows /\ TablesOK /\ RowsFollowOrder(e)
  BY Zenon DEF Inv, Rows
<1>1. TablesOK'
  BY <1>0, Zenon DEF Reserve, At, TablesOK, Status, exchange
<1>2. /\ \A f \in Entries \ {e} : pc'[f] = pc[f] /\ attempt'[f] = attempt[f]
      /\ pc'[e] = "reserved" /\ attempt'[e] = "pending"
      /\ pc[e] = "preflight"
      /\ UNCHANGED <<trade, linked, tasks, order, held>>
  BY <1>0, Zenon DEF Reserve, At, TablesOK, exchange
<1>3. \A f \in Entries : RowsFollowOrder(f)'
  <2> SUFFICES ASSUME NEW f \in Entries
               PROVE  RowsFollowOrder(f)'
    BY Zenon
  <2>1. RowsFollowOrder(f)
    BY Zenon DEF Inv
  <2> QED
    BY <1>2, <2>1, Zenon
       DEF RowsFollowOrder, Exposed, Slot, Unresolved, UnresolvedStatus, Unreserved, Filled
<1>4. Exposure' \subseteq Exposure \cup {Inst[e]}
  BY <1>2, Zenon DEF Exposure, Committed, Exposed
<1>5. /\ Exposure \subseteq Occupied(e) /\ IsFiniteSet(Occupied(e)) /\ IsFiniteSet(Exposure)
  BY <1>0, ExposureIsOccupied, Zenon
<1>6. Cardinality(Occupied(e)) < MaxPositions
  BY Zenon DEF Reserve
<1>7. Cardinality(Exposure \cup {Inst[e]}) <= MaxPositions
  <2>1. Cardinality(Exposure) <= Cardinality(Occupied(e))
    BY <1>5, FS_Subset, Zenon
  <2>2. Cardinality(Exposure) \in Nat /\ Cardinality(Occupied(e)) \in Nat
    BY <1>5, FS_CardinalityType, Zenon
  <2>3. Cardinality(Exposure \cup {Inst[e]}) <= Cardinality(Exposure) + 1
    <3>1. Cardinality(Exposure \cup {Inst[e]}) =
            IF Inst[e] \in Exposure THEN Cardinality(Exposure) ELSE Cardinality(Exposure) + 1
      BY <1>5, FS_AddElement, Zenon
    <3> QED
      BY <2>2, <3>1
  <2>4. Cardinality(Exposure \cup {Inst[e]}) \in Nat
    BY <1>5, FS_AddElement, FS_CardinalityType, ZenonT(30)
  <2> QED
    BY <1>6, <2>1, <2>2, <2>3, <2>4, LiveEntryAssumption
<1>8. IsFiniteSet(Exposure \cup {Inst[e]})
  BY <1>5, FS_AddElement, Zenon
<1>9. Cardinality(Exposure') <= MaxPositions
  <2>1. Cardinality(Exposure') <= Cardinality(Exposure \cup {Inst[e]}) /\ IsFiniteSet(Exposure')
    BY <1>4, <1>8, FS_Subset, Zenon
  <2>2. Cardinality(Exposure') \in Nat /\ Cardinality(Exposure \cup {Inst[e]}) \in Nat
    BY <1>8, <2>1, FS_CardinalityType, Zenon
  <2> QED
    BY <1>7, <2>1, <2>2, LiveEntryAssumption
<1> QED
  BY <1>1, <1>3, <1>9, Zenon DEF Inv

(* Every other step leaves the committed instruments among those there     *)
(* were.                                                                   *)
LEMMA KeepsKeepsInv ==
  ASSUME Inv, Keeps
  PROVE  Inv'
<1>1. Exposure' \subseteq Exposure /\ Exposure \subseteq Instruments
  BY LiveEntryAssumption, Zenon DEF Keeps, Exposure
<1>2. IsFiniteSet(Exposure)
  BY <1>1, FS_Subset, LiveEntryAssumption, Zenon
<1>3. /\ Cardinality(Exposure') <= Cardinality(Exposure)
      /\ Cardinality(Exposure') \in Nat /\ Cardinality(Exposure) \in Nat
  BY <1>1, <1>2, FS_Subset, FS_CardinalityType, Zenon
<1>4. Cardinality(Exposure') <= MaxPositions
  BY <1>3, LiveEntryAssumption DEF Inv
<1> QED
  BY <1>4, Zenon DEF Keeps, Inv

(* Inv is inductive: it holds at startup and every step of the entry path, *)
(* of the exchange and of the scan preserves it.                           *)
THEOREM Inductive == Spec => []Inv
<1>1. Init => Inv
  <2> SUFFICES ASSUME Init
               PROVE  Inv
    BY Zenon
  <2> USE DEF Init, NoSnapshot
  <2>1. TablesOK
    BY Zenon DEF TablesOK, Unreserved, Status
  <2>2. \A e \in Entries : RowsFollowOrder(e)
    BY Zenon DEF RowsFollowOrder, Exposed, Unreserved, Filled
  <2>3. Exposure = {}
    BY Zenon DEF Exposure, Committed, Exposed
  <2> QED
    BY <2>1, <2>2, <2>3, FS_EmptySet, LiveEntryAssumption DEF Inv
<1>2. Inv /\ [Next]_vars => Inv'
  <2> SUFFICES ASSUME Inv, [Next]_vars
               PROVE  Inv'
    BY Zenon
  <2>0. Rows
    BY Zenon DEF Inv, Rows
  <2>1. CASE \E e \in Entries : Reserve(e)
    BY <2>1, ReserveKeepsInv, Zenon
  <2>2. CASE \E e \in Entries : EntryStep(e) /\ ~Reserve(e)
    <3>1. Keeps
      BY <2>0, <2>2, AdmissionKeeps, SubmissionKeeps, RecoveryKeeps, ProtectionKeeps, Zenon
         DEF EntryStep
    <3> QED
      BY <3>1, KeepsKeepsInv, Zenon
  <2>3. CASE \E e \in Entries : WorldStep(e)
    BY <2>0, <2>3, WorldKeeps, KeepsKeepsInv, Zenon DEF WorldStep
  <2>4. CASE ScanStep \/ ScanFails \/ Restart \/ WorkerStep
    BY <2>0, <2>4, ScanKeeps, KeepsKeepsInv, Zenon
  <2>5. CASE UNCHANGED vars
    <3>1. Keeps
      BY <2>0, <2>5, Zenon DEF vars, entryVars, tables, exchange, Rows, Keeps, TablesOK,
           RowsFollowOrder, Committed, Exposed, Slot, Unresolved
    <3> QED
      BY <3>1, KeepsKeepsInv, Zenon
  <2> QED
    BY <2>1, <2>2, <2>3, <2>4, <2>5, Zenon DEF Next
<1> QED
  BY <1>1, <1>2, PTL DEF Spec

(* ExposureIsReserved: whatever may be or become a position is counted by  *)
(* the reservation query of order_attempts.create_attempt, always.         *)
THEOREM NoHiddenExposure == Spec => []ExposureIsReserved
<1>1. Inv => ExposureIsReserved
  BY Zenon DEF Inv, RowsFollowOrder, ExposureIsReserved
<1> QED
  BY <1>1, Inductive, PTL

(* CapacityKept: max_positions is never exceeded on the exchange, although *)
(* every entry decides on positions it fetched some steps ago.             *)
THEOREM CapacityIsKept == Spec => []CapacityKept
<1>1. Inv => CapacityKept
  <2> SUFFICES ASSUME Inv
               PROVE  CapacityKept
    BY Zenon
  <2> DEFINE E == {Inst[e] : e \in {f \in Entries : Exposed(f)}}
  <2>1. E \subseteq Exposure /\ Exposure \subseteq Instruments
    BY LiveEntryAssumption, Zenon DEF Exposure, Committed
  <2>2. IsFiniteSet(Exposure)
    BY <2>1, FS_Subset, LiveEntryAssumption, Zenon
  <2>3. /\ Cardinality(E) <= Cardinality(Exposure)
        /\ Cardinality(E) \in Nat /\ Cardinality(Exposure) \in Nat
    BY <2>1, <2>2, FS_Subset, FS_CardinalityType, Zenon
  <2>4. Cardinality(E) <= MaxPositions
    BY <2>3, LiveEntryAssumption DEF Inv
  <2> QED
    BY <2>4, Zenon DEF CapacityKept
<1> QED
  BY <1>1, Inductive, PTL

-----------------------------------------------------------------------------
(* The gate.  It is open only without blockers, and its methods change the *)
(* blockers they are about and no other.                                   *)
GateOK(g) == g \in GateType /\ (g.open => g.blockers = {})

LEMMA EvaluateKeeps ==
  ASSUME NEW g \in GateType
  PROVE  GateOK(EvaluateState(g)) /\ EvaluateState(g).blockers = g.blockers
<1> DEFINE opens == ShouldBeOpen(g)
<1>1. opens \in BOOLEAN /\ (opens => g.blockers = {})
  BY Zenon DEF ShouldBeOpen
<1> HIDE DEF opens
<1>2. /\ [g EXCEPT !.open = opens] \in GateType
      /\ [g EXCEPT !.open = opens].open = opens
      /\ [g EXCEPT !.open = opens].blockers = g.blockers
  BY <1>1, Zenon DEF GateType
<1> QED
  BY <1>1, <1>2, Zenon DEF EvaluateState, GateOK, opens

(* A blocker is set. *)
LEMMA SetBlocks ==
  ASSUME NEW g, GateOK(g), NEW b \in Blockers
  PROVE  /\ GateOK(SetSafetyBlocker(g, b))
         /\ SetSafetyBlocker(g, b).blockers = g.blockers \cup {b}
<1> DEFINE h == [g EXCEPT !.blockers = @ \cup {b}]
<1>1. h \in GateType /\ h.blockers = g.blockers \cup {b}
  BY Zenon DEF GateOK, GateType
<1> HIDE DEF h
<1>2. GateOK(EvaluateState(h)) /\ EvaluateState(h).blockers = g.blockers \cup {b}
  BY <1>1, EvaluateKeeps, Zenon
<1>3. SetSafetyBlocker(g, b) = IF b \in g.blockers THEN g ELSE EvaluateState(h)
  BY Zenon DEF SetSafetyBlocker, h
<1>4. b \in g.blockers => g.blockers \cup {b} = g.blockers
  BY Zenon
<1> QED
  BY <1>2, <1>3, <1>4, Zenon

(* A blocker is lifted. *)
LEMMA ClearLifts ==
  ASSUME NEW g, GateOK(g), NEW b
  PROVE  /\ GateOK(ClearSafetyBlocker(g, b))
         /\ ClearSafetyBlocker(g, b).blockers = g.blockers \ {b}
<1> DEFINE h == [g EXCEPT !.blockers = @ \ {b}]
<1>1. h \in GateType /\ h.blockers = g.blockers \ {b}
  BY Zenon DEF GateOK, GateType
<1> HIDE DEF h
<1>2. GateOK(EvaluateState(h)) /\ EvaluateState(h).blockers = g.blockers \ {b}
  BY <1>1, EvaluateKeeps, Zenon
<1>3. ClearSafetyBlocker(g, b) = IF b \in g.blockers THEN EvaluateState(h) ELSE g
  BY Zenon DEF ClearSafetyBlocker, h
<1>4. b \notin g.blockers => g.blockers \ {b} = g.blockers
  BY Zenon
<1> QED
  BY <1>2, <1>3, <1>4, Zenon

(* The workers' marks and closes leave the blockers alone. *)
LEMMA WorkersKeepBlockers ==
  ASSUME NEW g, GateOK(g), NEW w \in Critical, NEW r \in Reasons
  PROVE  /\ GateOK(MarkReady(g, w)) /\ MarkReady(g, w).blockers = g.blockers
         /\ GateOK(Close(g, r)) /\ Close(g, r).blockers = g.blockers
<1> DEFINE ready == g.ready \cup {w}
           closed == g.closed /\ ~(ready = Critical)
           rest == IF ready = Critical THEN {} ELSE g.reasons
           m1 == [g EXCEPT !.ready = ready]
           m2 == [m1 EXCEPT !.closed = closed]
           m3 == [m2 EXCEPT !.reasons = rest]
           more == g.reasons \cup {r}
           c1 == [g EXCEPT !.closed = TRUE]
           c2 == [c1 EXCEPT !.reasons = more]
           c3 == [c2 EXCEPT !.ready = {}]
<1>0. g \in GateType
  BY Zenon DEF GateOK
<1>1. /\ ready \in SUBSET Critical /\ rest \in SUBSET Reasons /\ closed \in BOOLEAN
      /\ more \in SUBSET Reasons
  BY <1>0, Zenon DEF GateType
<1>2. MarkReady(g, w) = EvaluateState(m3)
  BY ZenonT(30) DEF MarkReady
<1>3. Close(g, r) = EvaluateState(c3)
  BY ZenonT(30) DEF Close
<1> HIDE DEF ready, closed, rest, more
<1>4. m1 \in GateType /\ m1.blockers = g.blockers
  BY <1>0, <1>1, Zenon DEF GateType
<1>5. c1 \in GateType /\ c1.blockers = g.blockers
  BY <1>0, ZenonT(30) DEF GateType
<1> HIDE DEF m1, c1
<1>6. m2 \in GateType /\ m2.blockers = g.blockers
  BY <1>1, <1>4, Zenon DEF GateType
<1>7. c2 \in GateType /\ c2.blockers = g.blockers
  BY <1>1, <1>5, Zenon DEF GateType
<1> HIDE DEF m2, c2
<1>8. m3 \in GateType /\ m3.blockers = g.blockers
  BY <1>1, <1>6, Zenon DEF GateType
<1>9. c3 \in GateType /\ c3.blockers = g.blockers
  BY <1>7, ZenonT(30) DEF GateType
<1> HIDE DEF m3, c3
<1> QED
  BY <1>2, <1>3, <1>8, <1>9, EvaluateKeeps, Zenon

-----------------------------------------------------------------------------
(* What a step of a call may touch besides its own rows.  A call gives its *)
(* lock back only when it returns, and it only ever sets blockers.         *)
EntryFrame(e) ==
  /\ UNCHANGED <<scan, incidents, known>>
  /\ \E to : pc' = [pc EXCEPT ![e] = to]
  /\ attempt' = attempt \/ \E status : attempt' = [attempt EXCEPT ![e] = status]
  /\ \/ lock' = lock
     \/ pc[e] = "admitted" /\ lock[Inst[e]] = NoOne /\ lock' = [lock EXCEPT ![Inst[e]] = e]
     \/ pc[e] \notin {"idle", "admitted", "done"} /\ lock' = [lock EXCEPT ![Inst[e]] = NoOne]
  /\ fresh' \subseteq fresh \cup {e}
  /\ linked' \subseteq linked \cup {e} /\ repairs' \subseteq repairs \cup {e}
  /\ tasks' \subseteq tasks \cup {e} /\ pending' \subseteq pending \cup {e}
  /\ gate' = gate \/ \E b \in Blockers : gate' = SetSafetyBlocker(gate, b)

(* Every step of a call keeps to this frame. *)
LEMMA EntryFramed ==
  ASSUME NEW e \in Entries, EntryStep(e)
  PROVE  EntryFrame(e)
<1> USE DEF EntryStep, Admit, Lock, LockBusy, CheckRisk, RefusePreflight, Reserve,
            ReserveDenied, RecheckFails, Send, Rejected, Accepted, MarkUnknown, BlockEntries,
            NotFound, Found, Settled, NotSettled, NoFill, PlaceStop, Unpriced, CompleteOpen,
            MarkCompleted, FlattenBlocks, FlattenOwned, FlattenTask, Refuse, Finish
<1>1. UNCHANGED <<scan, incidents, known>>
  BY ZenonT(30)
<1>2. \E to : pc' = [pc EXCEPT ![e] = to]
  BY ZenonT(30) DEF At
<1>3. attempt' = attempt \/ \E status : attempt' = [attempt EXCEPT ![e] = status]
  BY ZenonT(60) DEF Mark, tables
<1>4. \/ lock' = lock
      \/ pc[e] = "admitted" /\ lock[Inst[e]] = NoOne /\ lock' = [lock EXCEPT ![Inst[e]] = e]
      \/ pc[e] \notin {"idle", "admitted", "done"} /\ lock' = [lock EXCEPT ![Inst[e]] = NoOne]
  BY ZenonT(60) DEF At, Unlock
<1>5. fresh' \in {fresh, {}, fresh \cup {e}, fresh \ {e}}
  BY ZenonT(60) DEF GateBecomes
<1>6. linked' \in {linked, linked \cup {e}} /\ repairs' \in {repairs, repairs \cup {e}}
  BY ZenonT(60) DEF tables
<1>7. tasks' \in {tasks, tasks \cup {e}} /\ pending' \in {pending, pending \cup {e}}
  BY ZenonT(60) DEF tables
<1>8. gate' = gate \/ \E b \in Blockers : gate' = SetSafetyBlocker(gate, b)
  <2>1. \/ gate' = gate \/ gate' = SetSafetyBlocker(gate, "submission_unknown")
        \/ gate' = SetSafetyBlocker(gate, "incident")
    BY ZenonT(30) DEF GateBecomes
  <2>2. {"submission_unknown", "incident"} \subseteq Blockers
    BY LiveEntryAssumption, ZenonT(30)
  <2> QED
    BY <2>1, <2>2, ZenonT(30)
<1>9. /\ fresh' \subseteq fresh \cup {e}
      /\ linked' \subseteq linked \cup {e} /\ repairs' \subseteq repairs \cup {e}
      /\ tasks' \subseteq tasks \cup {e} /\ pending' \subseteq pending \cup {e}
  <2> HIDE DEF EntryStep
  <2> QED
    BY <1>5, <1>6, <1>7, Zenon
<1> QED
  BY <1>1, <1>2, <1>3, <1>4, <1>8, <1>9, Zenon DEF EntryFrame

(* The path of a call through its states: before it reserves, until it     *)
(* knows what became of its order, and after that.  Only in the middle     *)
(* does it write an unresolved status, over one that was unresolved.       *)
Undecided == {"reserved", "sent", "unknown", "lookup", "settling"}
Decided == Filled \cup {"accepted", "unpriced", "flatten", "flattening", "done"}

EarlyMove(e) ==
  /\ pc[e] \in Unreserved /\ attempt' = attempt /\ tasks' = tasks /\ repairs' = repairs
  /\ \/ \E to \in {"idle", "admitted"} : pc' = [pc EXCEPT ![e] = to]
     \/ pc' = [pc EXCEPT ![e] = "checking"] /\ lock' = [lock EXCEPT ![Inst[e]] = e]
     \/ pc[e] = "checking" /\ pc' = [pc EXCEPT ![e] = "preflight"] /\ lock' = lock

ReservingMove(e) ==
  /\ pc[e] = "preflight" /\ pc' = [pc EXCEPT ![e] = "reserved"]
  /\ attempt' = [attempt EXCEPT ![e] = "pending"]
  /\ lock' = lock /\ tasks' = tasks /\ repairs' = repairs

UndecidedMove(e) ==
  /\ pc[e] \in Undecided /\ \E to \in Undecided : pc' = [pc EXCEPT ![e] = to]
  /\ attempt' = attempt \/ attempt' = [attempt EXCEPT ![e] = "submission_unknown"]
  /\ lock' = lock /\ tasks' = tasks /\ repairs' = repairs

DecidedMove(e) ==
  /\ pc[e] \notin Unreserved /\ pc[e] # "done"
  /\ \E to \in Decided :
       /\ pc' = [pc EXCEPT ![e] = to]
       /\ to = "done" \/ (lock' = lock /\ tasks' = tasks /\ repairs' = repairs)
  /\ \/ attempt' = attempt
     \/ pc[e] \in Undecided /\ attempt' = [attempt EXCEPT ![e] = "accepted"]
     \/ \E status \in {"failed", "unpriced", "completed"} :
          attempt' = [attempt EXCEPT ![e] = status]

(* Every step of a call is one of the four. *)
LEMMA CallMoves ==
  ASSUME NEW e \in Entries, EntryStep(e)
  PROVE  EarlyMove(e) \/ ReservingMove(e) \/ UndecidedMove(e) \/ DecidedMove(e)
<1> USE DEF At, Unlock, tables, Unreserved, Undecided, Decided, Filled
<1>1. CASE \/ Admit(e) \/ Lock(e) \/ LockBusy(e) \/ CheckRisk(e) \/ RefusePreflight(e)
           \/ ReserveDenied(e)
  <2>1. EarlyMove(e)
    BY <1>1, ZenonT(30) DEF Admit, Lock, LockBusy, CheckRisk, RefusePreflight, ReserveDenied,
                            Refuse, EarlyMove
  <2> QED
    BY <2>1, Zenon
<1>2. CASE Reserve(e)
  <2>1. ReservingMove(e)
    BY <1>2, ZenonT(30) DEF Reserve, ReservingMove
  <2> QED
    BY <2>1, Zenon
<1>3. CASE \/ Send(e) \/ MarkUnknown(e) \/ BlockEntries(e)
           \/ Found(e) /\ pc' = [pc EXCEPT ![e] = "settling"] /\ attempt' = attempt
  <2>1. UndecidedMove(e)
    BY <1>3, ZenonT(30) DEF Send, MarkUnknown, BlockEntries, Found, Mark, UndecidedMove
  <2> QED
    BY <2>1, Zenon
<1>4. CASE \/ RecheckFails(e) \/ Rejected(e) \/ Accepted(e) \/ NotFound(e)
           \/ Found(e) /\ pc' = [pc EXCEPT ![e] = "accepted"] /\ Mark(e, "accepted")
  <2>1. DecidedMove(e)
    BY <1>4, ZenonT(60) DEF RecheckFails, Rejected, Accepted, NotFound, Found,
                            Finish, Mark, DecidedMove
  <2> QED
    BY <2>1, Zenon
<1>5. CASE Settled(e) \/ NotSettled(e) \/ NoFill(e) \/ PlaceStop(e) \/ Unpriced(e)
  <2>1. DecidedMove(e)
    BY <1>5, ZenonT(60) DEF Settled, NotSettled, NoFill, PlaceStop, Unpriced,
                            Finish, Mark, DecidedMove
  <2> QED
    BY <2>1, Zenon
<1>6. CASE \/ CompleteOpen(e) \/ MarkCompleted(e) \/ FlattenBlocks(e) \/ FlattenOwned(e)
           \/ FlattenTask(e)
  <2>1. DecidedMove(e)
    BY <1>6, ZenonT(60) DEF CompleteOpen, MarkCompleted, FlattenBlocks, FlattenOwned,
                            FlattenTask, Mark, DecidedMove
  <2> QED
    BY <2>1, Zenon
<1>7. Found(e) => \/ pc' = [pc EXCEPT ![e] = "settling"] /\ attempt' = attempt
                  \/ pc' = [pc EXCEPT ![e] = "accepted"] /\ Mark(e, "accepted")
  BY Zenon DEF Found
<1> QED
  BY <1>1, <1>2, <1>3, <1>4, <1>5, <1>6, <1>7, ZenonT(30) DEF EntryStep

(* The world outside the calls writes an attempt only when it settles a    *)
(* task or an incident of a call that has returned.                        *)
WorldFrame(e) ==
  /\ UNCHANGED <<gate, fresh, pc, lock, seen, scan, incidents, known>>
  /\ \/ attempt' = attempt
     \/ e \in tasks \cup repairs /\ attempt' = [attempt EXCEPT ![e] = "completed"]
  /\ linked' \subseteq linked \cup {e} /\ repairs' \subseteq repairs
  /\ tasks' \subseteq tasks /\ pending' \subseteq pending

(* Every step of the exchange, the accountant, the operator and the        *)
(* incident worker keeps to this frame.                                    *)
LEMMA WorldFramed ==
  ASSUME NEW e \in Entries, WorldStep(e)
  PROVE  WorldFrame(e)
<1> USE DEF WorldStep, ExchangeStep, PositionCloses, TradeCloses, TaskAccounted,
            OperatorClears, RecoverOpen
<1>1. UNCHANGED <<gate, fresh, pc, lock, seen, scan, incidents, known>>
  BY ZenonT(30) DEF entryVars
<1>2. \/ attempt' = attempt
      \/ e \in tasks \cup repairs /\ attempt' = [attempt EXCEPT ![e] = "completed"]
  BY ZenonT(30) DEF tables
<1>3. linked' \in {linked, linked \cup {e}} /\ repairs' \in {repairs, repairs \ {e}}
  BY ZenonT(30) DEF tables
<1>4. tasks' \in {tasks, tasks \ {e}} /\ pending' \in {pending, pending \ {e}}
  BY ZenonT(30) DEF tables
<1>5. /\ linked' \subseteq linked \cup {e} /\ repairs' \subseteq repairs
      /\ tasks' \subseteq tasks /\ pending' \subseteq pending
  <2> HIDE DEF WorldStep
  <2> QED
    BY <1>3, <1>4, Zenon
<1> QED
  BY <1>1, <1>2, <1>5, Zenon DEF WorldFrame

ScanType == [pc : {"idle", "exchange", "resolve", "classified", "counted"},
             held : SUBSET Entries, attempt : [Entries -> Status],
             trades : SUBSET Entries, loose : SUBSET Entries, todo : SUBSET Entries,
             active : SUBSET Instruments, count : Nat]

(* What TypeOK says beyond TablesOK, with the fields of the scan. *)
Types ==
  /\ GateOK(gate) /\ scan \in ScanType
  /\ lock \in [Instruments -> Entries \cup {NoOne}]
  /\ fresh \in SUBSET Entries /\ linked \in SUBSET Entries /\ repairs \in SUBSET Entries
  /\ tasks \in SUBSET Entries /\ pending \in SUBSET Entries /\ known \in SUBSET Entries
  /\ incidents \in SUBSET Instruments

(* The idle scan and the gate at startup. *)
LEMMA StartTyped ==
  /\ IdleScan \in ScanType
  /\ GateOK(StartGate) /\ "startup" \in StartGate.blockers
<1>1. IdleScan \in ScanType
  BY Zenon DEF IdleScan, NoSnapshot, ScanType, Status
<1>2. InitGate \in GateType /\ InitGate.blockers = {}
  BY Zenon DEF InitGate, GateType
<1>3. "startup" \in Blockers
  BY LiveEntryAssumption, Zenon
<1>4. GateOK(InitGate)
  BY <1>2, Zenon DEF GateOK
<1>5. GateOK(StartGate) /\ StartGate.blockers = {} \cup {"startup"}
  BY <1>2, <1>3, <1>4, SetBlocks, Zenon DEF StartGate
<1> QED
  BY <1>1, <1>5, Zenon

(* Initially everything has its type. *)
LEMMA InitTypes == Init => Types
  BY StartTyped, LiveEntryAssumption DEF Init, Types

(* Steps of calls and of the world keep the types. *)
LEMMA EntryTypes ==
  ASSUME Types, NEW e \in Entries, EntryStep(e) \/ WorldStep(e)
  PROVE  Types'
<1> USE LiveEntryAssumption
<1>1. CASE EntryFrame(e)
  <2>1. lock' \in [Instruments -> Entries \cup {NoOne}]
    BY <1>1, Zenon DEF EntryFrame, Types
  <2>2. GateOK(gate)'
    <3>1. CASE gate' = gate
      BY <3>1, Zenon DEF Types
    <3>2. CASE \E b \in Blockers : gate' = SetSafetyBlocker(gate, b)
      BY <3>2, SetBlocks DEF Types
    <3> QED
      BY <1>1, <3>1, <3>2, Zenon DEF EntryFrame
  <2>3. UNCHANGED <<scan, known, incidents>>
    BY <1>1, Zenon DEF EntryFrame
  <2>4. /\ fresh' \in SUBSET Entries /\ linked' \in SUBSET Entries /\ repairs' \in SUBSET Entries
        /\ tasks' \in SUBSET Entries /\ pending' \in SUBSET Entries
    BY <1>1, Zenon DEF EntryFrame, Types
  <2> QED
    BY <2>1, <2>2, <2>3, <2>4, Zenon DEF Types
<1>2. CASE WorldFrame(e)
  <2>1. UNCHANGED <<gate, fresh, lock, scan, known, incidents>>
    BY <1>2, Zenon DEF WorldFrame
  <2>2. /\ linked' \in SUBSET Entries /\ repairs' \in SUBSET Entries
        /\ tasks' \in SUBSET Entries /\ pending' \in SUBSET Entries
    BY <1>2, Zenon DEF WorldFrame, Types
  <2> QED
    BY <2>1, <2>2, Zenon DEF Types
<1> QED
  BY <1>1, <1>2, EntryFramed, WorldFramed, Zenon

(* The scan's own steps, field by field: it reads the exchange, *)
LEMMA ReadsExchange ==
  ASSUME TablesOK, Types, FetchExchange
  PROVE  /\ scan' \in ScanType /\ scan'.pc = "exchange" /\ scan'.attempt = NoSnapshot
         /\ scan'.trades = {}
<1>1. scan' = [IdleScan EXCEPT !.pc = "exchange", !.held = held] /\ held \in SUBSET Entries
  BY Zenon DEF FetchExchange, TablesOK
<1> QED
  BY <1>1, ZenonT(30) DEF IdleScan, NoSnapshot, ScanType, Status

(* the tables, *)
LEMMA ReadsTables ==
  ASSUME TablesOK, Types, FetchDb
  PROVE  /\ scan' \in ScanType /\ scan'.pc = "resolve"
         /\ scan'.attempt = [e \in Entries |-> IF Slot(e) THEN attempt[e] ELSE "none"]
         /\ scan'.trades = {e \in Entries : trade[e] = "open" /\ e \in linked}
<1> DEFINE snap == [e \in Entries |-> IF Slot(e) THEN attempt[e] ELSE "none"]
           owned == {e \in Entries : trade[e] = "open" /\ e \in linked}
           loose == {e \in Entries : trade[e] = "open" /\ e \notin linked}
           todo == {e \in Entries : Unresolved(e) \/ attempt[e] = "unpriced"}
<1>1. scan' = [scan EXCEPT !.pc = "resolve", !.attempt = snap, !.trades = owned,
                           !.loose = loose, !.todo = todo]
  BY Zenon DEF FetchDb
<1>2. /\ snap \in [Entries -> Status] /\ owned \in SUBSET Entries
      /\ loose \in SUBSET Entries /\ todo \in SUBSET Entries /\ scan \in ScanType
  BY Zenon DEF TablesOK, Status, Types
<1> HIDE DEF snap, owned, loose, todo
<1>3. /\ scan' \in ScanType /\ scan'.pc = "resolve" /\ scan'.attempt = snap
      /\ scan'.trades = owned
  BY <1>1, <1>2, ZenonT(30) DEF ScanType
<1> QED
  BY <1>3, Zenon DEF snap, owned

(* leaves an attempt as it read it, *)
LEMMA Leaves ==
  ASSUME Types, NEW e, LeaveAttempt(e)
  PROVE  /\ scan' \in ScanType /\ scan.pc = "resolve" /\ scan'.pc = "resolve"
         /\ scan'.held = scan.held /\ scan'.attempt = scan.attempt /\ scan'.trades = scan.trades
<1> DEFINE todo == scan.todo \ {e}
<1>1. /\ scan \in ScanType /\ todo \in SUBSET Entries /\ scan.pc = "resolve"
      /\ scan' = [scan EXCEPT !.todo = todo]
  BY Zenon DEF Types, ScanType, LeaveAttempt, ScanAt
<1> HIDE DEF todo
<1> QED
  BY <1>1, ZenonT(30) DEF ScanType

(* or records what the order shows, *)
LEMMA Records ==
  ASSUME Types, scan.pc = "resolve", NEW e \in Entries, NEW status \in Status,
         Recorded(e, status)
  PROVE  /\ scan' \in ScanType /\ scan'.pc = "resolve" /\ scan'.held = scan.held
         /\ scan'.attempt = [scan.attempt EXCEPT ![e] = status] /\ scan'.trades = scan.trades
<1> DEFINE todo == scan.todo \ {e}
           snap == [scan.attempt EXCEPT ![e] = status]
<1>1. scan' = [scan EXCEPT !.todo = todo, !.attempt = snap]
  BY Zenon DEF Recorded
<1>2. scan \in ScanType /\ todo \in SUBSET Entries /\ snap \in [Entries -> Status]
  BY Zenon DEF Types, ScanType
<1> HIDE DEF todo, snap
<1>3. /\ scan' \in ScanType /\ scan'.pc = "resolve" /\ scan'.held = scan.held
      /\ scan'.attempt = snap /\ scan'.trades = scan.trades
  BY <1>1, <1>2, ZenonT(30) DEF ScanType
<1> QED
  BY <1>3, Zenon DEF snap

(* classifies every instrument, *)
LEMMA Classifies ==
  ASSUME Types, ClassifyAll
  PROVE  /\ scan' \in ScanType /\ scan.pc = "resolve" /\ scan'.pc = "classified"
         /\ scan'.held = scan.held /\ scan'.attempt = scan.attempt /\ scan'.trades = scan.trades
         /\ \A i \in Instruments : Discrepancy(i) # "healthy" => i \in scan'.active
         /\ incidents' = incidents \cup scan'.active
         /\ GateOK(gate') /\ gate.blockers \subseteq gate'.blockers
         /\ fresh' \subseteq fresh
<1> DEFINE sick == {i \in Instruments : Discrepancy(i) # "healthy"}
           active == sick \cup {Inst[e] : e \in scan.loose}
<1>1. /\ scan.pc = "resolve" /\ scan' = [scan EXCEPT !.pc = "classified", !.active = active]
      /\ incidents' = incidents \cup active
      /\ \/ UNCHANGED <<gate, fresh>>
         \/ GateBecomes(SetSafetyBlocker(gate, "incident"))
  BY Zenon DEF ClassifyAll, ScanAt
<1>2. scan \in ScanType /\ active \in SUBSET Instruments
  BY LiveEntryAssumption, SMTT(30) DEF Types, ScanType
<1>3. \A i \in Instruments : Discrepancy(i) # "healthy" => i \in active
  BY Zenon
<1>4. GateOK(gate') /\ gate.blockers \subseteq gate'.blockers
  <2>1. "incident" \in Blockers /\ GateOK(gate)
    BY LiveEntryAssumption, Zenon DEF Types
  <2> QED
    BY <1>1, <2>1, SetBlocks DEF GateBecomes
<1>5. fresh' \subseteq fresh
  BY <1>1, Zenon DEF GateBecomes
<1> HIDE DEF active
<1>6. /\ scan' \in ScanType /\ scan'.pc = "classified" /\ scan'.active = active
      /\ scan'.held = scan.held /\ scan'.attempt = scan.attempt /\ scan'.trades = scan.trades
  BY <1>1, <1>2, ZenonT(30) DEF ScanType
<1> QED
  BY <1>1, <1>3, <1>4, <1>5, <1>6, Zenon

(* and counts what is left. *)
LEMMA Counts ==
  ASSUME Types, ResolveAbsent
  PROVE  /\ scan' \in ScanType /\ scan.pc = "classified" /\ scan'.pc = "counted"
         /\ scan'.held = scan.held /\ scan'.attempt = scan.attempt
         /\ scan'.trades = scan.trades /\ scan'.active = scan.active
         /\ incidents' = incidents \cap scan.active
         /\ scan'.count = Cardinality(incidents \cap scan.active) + Cardinality(pending)
         /\ Cardinality(incidents \cap scan.active) \in Nat /\ Cardinality(pending) \in Nat
         /\ IsFiniteSet(incidents \cap scan.active)
<1> DEFINE rows == Cardinality(incidents \cap scan.active)
           total == rows + Cardinality(pending)
<1>1. /\ IsFiniteSet(incidents \cap scan.active) /\ IsFiniteSet(pending)
  <2>1. incidents \cap scan.active \subseteq Instruments /\ pending \subseteq Entries
    BY Zenon DEF Types
  <2> QED
    BY <2>1, FS_Subset, LiveEntryAssumption, Zenon
<1>2. rows \in Nat /\ Cardinality(pending) \in Nat
  BY <1>1, FS_CardinalityType, Zenon
<1>3. total \in Nat
  BY <1>2
<1>4. /\ scan.pc = "classified" /\ incidents' = incidents \cap scan.active
      /\ scan' = [scan EXCEPT !.pc = "counted", !.count = total]
  BY Zenon DEF ResolveAbsent, ScanAt
<1>5. scan \in ScanType
  BY Zenon DEF Types
<1> HIDE DEF total
<1>6. /\ scan' \in ScanType /\ scan'.pc = "counted" /\ scan'.count = total
      /\ scan'.held = scan.held /\ scan'.attempt = scan.attempt
      /\ scan'.trades = scan.trades /\ scan'.active = scan.active
  BY <1>3, <1>4, <1>5, ZenonT(30) DEF ScanType
<1> QED
  BY <1>1, <1>2, <1>4, <1>6, Zenon DEF total

(* The verdict blocks whatever the scan found unresolved or out of place. *)
LEMMA VerdictBlocks ==
  ASSUME Types
  PROVE  /\ GateOK(ScanVerdict)
         /\ SnapshotUnresolved => "submission_unknown" \in ScanVerdict.blockers
         /\ scan.count > 0 => "incident" \in ScanVerdict.blockers
<1> DEFINE g1 == ClearSafetyBlocker(gate, "source")
           g2 == ClearSafetyBlocker(g1, "startup")
           g3 == BlockerIf(g2, "submission_unknown", SnapshotUnresolved)
           g4 == BlockerIf(g3, "incident", scan.count > 0)
<1>0. {"submission_unknown", "incident"} \subseteq Blockers /\ GateOK(gate)
  BY LiveEntryAssumption, Zenon DEF Types
<1>1. ScanVerdict = g4
  BY Zenon DEF ScanVerdict
<1>2. GateOK(g1)
  BY <1>0, ClearLifts, Zenon
<1> HIDE DEF g1
<1>3. GateOK(g2)
  BY <1>2, ClearLifts, Zenon
<1> HIDE DEF g2
<1>4. GateOK(g3) /\ (SnapshotUnresolved => "submission_unknown" \in g3.blockers)
  BY <1>0, <1>3, SetBlocks, ClearLifts, SMTT(30) DEF BlockerIf
<1> HIDE DEF g3
<1>5. /\ GateOK(g4) /\ (scan.count > 0 => "incident" \in g4.blockers)
      /\ "submission_unknown" \in g3.blockers => "submission_unknown" \in g4.blockers
  BY <1>0, <1>4, SetBlocks, ClearLifts DEF BlockerIf
<1> QED
  BY <1>1, <1>4, <1>5, Zenon

(* What becomes of the gate outside the calls: only the verdict lifts a    *)
(* blocker, and a restart begins with one.                                 *)
LEMMA OthersKeepBlockers ==
  ASSUME Types
  PROVE  /\ ScanDone => GateOK(gate') /\ gate' = ScanVerdict
         /\ ScanFails => GateOK(gate') /\ "source" \in gate'.blockers
         /\ Restart => GateOK(gate') /\ "startup" \in gate'.blockers
         /\ WorkerStep => GateOK(gate') /\ gate'.blockers = gate.blockers
         /\ ScanDone \/ ScanFails \/ Restart \/ WorkerStep => fresh' \subseteq fresh
<1>0. GateOK(gate) /\ "source" \in Blockers
  BY LiveEntryAssumption, Zenon DEF Types
<1>1. ScanDone => GateOK(gate') /\ gate' = ScanVerdict
  BY VerdictBlocks, Zenon DEF ScanDone, GateBecomes
<1>2. ScanFails => GateOK(gate') /\ "source" \in gate'.blockers
  <2>1. ScanFails => gate' = SetSafetyBlocker(gate, "source")
    BY Zenon DEF ScanFails, GateBecomes
  <2> QED
    BY <1>0, <2>1, SetBlocks
<1>3. Restart => GateOK(gate') /\ "startup" \in gate'.blockers
  BY StartTyped, Zenon DEF Restart
<1>4. WorkerStep => GateOK(gate') /\ gate'.blockers = gate.blockers
  <2>1. ASSUME WorkerStep
        PROVE  \E w \in Critical, r \in Reasons : gate' = MarkReady(gate, w) \/ gate' = Close(gate, r)
    BY <2>1, Zenon DEF WorkerStep, GateBecomes
  <2> QED
    BY <1>0, <2>1, WorkersKeepBlockers, Zenon
<1>5. ScanDone \/ ScanFails \/ Restart \/ WorkerStep => fresh' \subseteq fresh
  <2>1. ScanDone \/ ScanFails \/ Restart \/ WorkerStep => fresh' \in {fresh, {}}
    BY Zenon DEF ScanDone, ScanFails, Restart, WorkerStep, GateBecomes
  <2> QED
    BY <2>1, Zenon
<1> QED
  BY <1>1, <1>2, <1>3, <1>4, <1>5, Zenon

(* The scan, a restart and the workers keep the types. *)
LEMMA ScanTypes ==
  ASSUME Rows, Types, ScanStep \/ ScanFails \/ Restart \/ WorkerStep
  PROVE  Types'
<1> USE LiveEntryAssumption
<1> DEFINE Sets == UNCHANGED <<lock, linked, repairs, tasks, pending, known>>
           Still == UNCHANGED <<gate, fresh, incidents>>
<1>0. TablesOK
  BY Zenon DEF Rows
<1>1. CASE FetchExchange \/ FetchDb \/ \E e \in Entries : LeaveAttempt(e)
  <2>1. Sets /\ Still
    BY <1>1, Zenon DEF FetchExchange, FetchDb, LeaveAttempt, ScanOnly, entryVars, tables
  <2>2. scan' \in ScanType
    BY <1>0, <1>1, ReadsExchange, ReadsTables, Leaves, Zenon
  <2> QED
    BY <2>1, <2>2, Zenon DEF Types
<1>2. CASE \E e \in Entries : ResolveExact(e) \/ ResolveLateFill(e)
  <2>1. PICK e \in Entries : ResolveExact(e) \/ ResolveLateFill(e)
    BY <1>2, Zenon
  <2>2. UNCHANGED <<lock, linked, repairs, known>> /\ Still
    BY <2>1, Zenon DEF ResolveExact, ResolveLateFill, entryVars
  <2>3. PICK status \in OrderStates(e) : Recorded(e, status)
    BY <2>1, Zenon DEF ResolveExact, ResolveLateFill
  <2>4. scan.pc = "resolve"
    BY <2>1, Zenon DEF ResolveExact, ResolveLateFill, ScanAt
  <2>5. scan' \in ScanType
    BY <2>3, <2>4, OrderStatesSound, Records, ZenonT(30)
  <2>6. tasks' \in {tasks, tasks \cup {e}} /\ pending' \in {pending, pending \cup {e}}
    BY <2>1, Zenon DEF ResolveExact, ResolveLateFill
  <2>7. tasks' \in SUBSET Entries /\ pending' \in SUBSET Entries
    BY <2>6, Zenon DEF Types
  <2> QED
    BY <2>2, <2>5, <2>7, Zenon DEF Types
<1>3. CASE ClassifyAll \/ ResolveAbsent
  <2>1. Sets
    BY <1>3, Zenon DEF ClassifyAll, ResolveAbsent, entryVars, tables
  <2>2. scan' \in ScanType /\ incidents' \in SUBSET Instruments /\ fresh' \in SUBSET Entries
    <3>1. CASE ClassifyAll
      <4>1. scan'.active \in SUBSET Instruments
        BY <3>1, Classifies, Zenon DEF ScanType
      <4> QED
        BY <3>1, <4>1, Classifies, Zenon DEF Types
    <3>2. CASE ResolveAbsent
      <4>1. fresh' = fresh
        BY <3>2, Zenon DEF ResolveAbsent
      <4> QED
        BY <3>2, <4>1, Counts, Zenon DEF Types
    <3> QED
      BY <1>3, <3>1, <3>2, Zenon
  <2>3. GateOK(gate')
    BY <1>3, Classifies, Zenon DEF ResolveAbsent, Types
  <2> QED
    BY <2>1, <2>2, <2>3, Zenon DEF Types
<1>4. CASE ScanDone \/ ScanFails \/ Restart \/ WorkerStep
  <2>1. UNCHANGED <<linked, repairs, tasks, pending, incidents>>
    BY <1>4, Zenon DEF ScanDone, ScanFails, Restart, WorkerStep, tables
  <2>2. scan' \in {scan, IdleScan}
    BY <1>4, Zenon DEF ScanDone, ScanFails, Restart, WorkerStep
  <2>3. lock' \in {lock, [i \in Instruments |-> NoOne]}
    BY <1>4, Zenon DEF ScanDone, ScanFails, Restart, WorkerStep, entryVars
  <2>4. known' \in SUBSET Entries
    BY <1>4, ZenonT(30) DEF ScanDone, ScanFails, Restart, WorkerStep, Types
  <2>5. GateOK(gate') /\ fresh' \in SUBSET Entries
    BY <1>4, OthersKeepBlockers, Zenon DEF Types
  <2>6. scan' \in ScanType /\ lock' \in [Instruments -> Entries \cup {NoOne}]
    BY <2>2, <2>3, StartTyped, Zenon DEF Types
  <2> QED
    BY <2>1, <2>4, <2>5, <2>6, Zenon DEF Types
<1> QED
  BY <1>1, <1>2, <1>3, <1>4, Zenon DEF ScanStep

(* Types holds of every reachable state. *)
THEOREM TypesHold == Spec => []Types
<1>1. Inv /\ Types /\ [Next]_vars => Types'
  <2> SUFFICES ASSUME Inv, Types, [Next]_vars PROVE Types'
    BY Zenon
  <2>1. Rows
    BY Zenon DEF Inv, Rows
  <2>2. CASE UNCHANGED vars
    BY <2>2, Zenon DEF vars, entryVars, tables, exchange, Types
  <2> QED
    BY <2>1, <2>2, EntryTypes, ScanTypes, Zenon DEF Next
<1> QED
  BY <1>1, InitTypes, Inductive, PTL DEF Spec

(* Type correctness: every variable keeps its type, the gate, the scan and *)
(* the locks through restarts included.                                    *)
THEOREM TypeCorrect == Spec => []TypeOK
<1>1. Inv /\ Types => TypeOK
  <2> SUFFICES ASSUME Inv, Types PROVE TypeOK
    BY Zenon
  <2>1. /\ scan.pc \in {"idle", "exchange", "resolve", "classified", "counted"}
        /\ scan.attempt \in [Entries -> Status]
        /\ scan.active \subseteq Instruments /\ scan.count \in Nat
    BY Zenon DEF Types, ScanType
  <2>2. UNION {scan.held, scan.trades, scan.loose, scan.todo} \subseteq Entries
    BY Zenon DEF Types, ScanType
  <2>3. UNION {fresh, linked, repairs, tasks, pending, known} \subseteq Entries
    BY Zenon DEF Types
  <2>4. TablesOK
    BY Zenon DEF Inv
  <2> QED
    BY <2>1, <2>2, <2>3, <2>4, Zenon DEF Types, TypeOK, GateOK
<1> QED
  BY <1>1, TypesHold, Inductive, PTL

-----------------------------------------------------------------------------
(* What finished scans left unresolved.  A call works under its lock until *)
(* it returns, tasks and incidents belong to calls that have returned, and *)
(* so an attempt a scan knows of becomes unresolved again only by the scan *)
(* itself; while it is unresolved, the snapshot of a scan under way shows  *)
(* it, and the verdict blocks again.                                       *)
Read == scan.pc \in {"resolve", "classified", "counted"}

CallOK(e) ==
  /\ pc[e] \notin {"idle", "admitted", "done"} => lock[Inst[e]] = e
  /\ pc[e] \notin Unreserved => attempt[e] # "none"
  /\ attempt[e] = "none" => scan.attempt[e] = "none"
  /\ pc[e] \in Undecided =>
       attempt[e] \in Candidate /\ scan.attempt[e] \in Candidate \cup {"none"}
  /\ e \in tasks \cup repairs => pc[e] = "done"
  /\ e \in known => attempt[e] # "none"
  /\ Read /\ e \in known /\ Unresolved(e) => scan.attempt[e] \in UnresolvedStatus

KnownInv ==
  /\ \A e \in Entries : CallOK(e)
  /\ known # {} => gate.blockers # {}

(* A step of a call keeps it for the others: it takes a free lock or gives *)
(* back its own.                                                           *)
LEMMA OtherCalls ==
  ASSUME Rows, Types, NEW e \in Entries, CallOK(e), EntryFrame(e),
         NEW f \in Entries, f # e, CallOK(f)
  PROVE  CallOK(f)'
<1> USE LiveEntryAssumption
<1>1. /\ pc \in [Entries -> Unreserved \cup Undecided \cup Decided]
      /\ attempt \in [Entries -> Status]
      /\ lock \in [Instruments -> Entries \cup {NoOne}] /\ Inst[e] \in Instruments
      /\ Inst[f] \in Instruments
  BY Zenon DEF Rows, TablesOK, Types, Unreserved, Undecided, Decided, Filled
<1>2. pc'[f] = pc[f]
  BY <1>1, Zenon DEF EntryFrame
<1>3. attempt'[f] = attempt[f]
  BY <1>1, Zenon DEF EntryFrame
<1>4. lock[Inst[f]] = f => lock'[Inst[f]] = f
  BY <1>1, ZenonT(30) DEF EntryFrame, CallOK
<1>5. f \in tasks' \cup repairs' => f \in tasks \cup repairs
  BY Zenon DEF EntryFrame
<1>6. scan' = scan /\ known' = known
  BY Zenon DEF EntryFrame
<1> QED
  BY <1>2, <1>3, <1>4, <1>5, <1>6, Zenon DEF CallOK, Read, Unresolved

(* and for itself. *)
LEMMA OwnCall ==
  ASSUME Rows, Types, NEW e \in Entries, CallOK(e), EntryStep(e)
  PROVE  CallOK(e)'
<1> USE LiveEntryAssumption DEF Candidate, UnresolvedStatus
<1>1. /\ e \in DOMAIN pc /\ e \in DOMAIN attempt /\ Inst[e] \in DOMAIN lock
      /\ lock \in [Instruments -> Entries \cup {NoOne}]
      /\ pc \in [Entries -> Unreserved \cup Undecided \cup Decided]
      /\ attempt \in [Entries -> Status] /\ Inst[e] \in Instruments
  BY Zenon DEF Rows, TablesOK, Types, Unreserved, Undecided, Decided, Filled
<1>2. scan' = scan /\ known' = known
  BY EntryFramed, Zenon DEF EntryFrame
<1>3. RowsFollowOrder(e)
  BY Zenon DEF Rows
<1>4. CASE EarlyMove(e)
  BY <1>1, <1>2, <1>3, <1>4, Zenon
       DEF EarlyMove, CallOK, RowsFollowOrder, Unreserved, Undecided, Decided, Filled, Read,
           Unresolved
<1>5. CASE ReservingMove(e)
  BY <1>1, <1>2, <1>3, <1>5, Zenon
       DEF ReservingMove, CallOK, RowsFollowOrder, Unreserved, Undecided, Decided, Filled, Read,
           Unresolved
<1>6. CASE UndecidedMove(e)
  BY <1>1, <1>2, <1>3, <1>6, Zenon
     DEF UndecidedMove, CallOK, Unreserved, Undecided, Decided, Filled, Read,
           Unresolved
<1>7. CASE DecidedMove(e)
  BY <1>1, <1>2, <1>3, <1>7, Zenon
     DEF DecidedMove, CallOK, Unreserved, Undecided, Decided, Filled, Read,
           Unresolved
<1> QED
  BY <1>4, <1>5, <1>6, <1>7, CallMoves, Zenon

(* Steps of calls and of the world. *)
LEMMA EntryKnown ==
  ASSUME Rows, Types, KnownInv, NEW e \in Entries, EntryStep(e) \/ WorldStep(e)
  PROVE  KnownInv'
<1>1. CASE EntryStep(e)
  <2>1. EntryFrame(e)
    BY <1>1, EntryFramed, Zenon
  <2>2. \A f \in Entries : CallOK(f)'
    BY <1>1, <2>1, OwnCall, OtherCalls, Zenon DEF KnownInv
  <2>3. known' = known /\ (gate.blockers # {} => gate'.blockers # {})
    BY <2>1, SetBlocks, SMTT(30) DEF EntryFrame, Types
  <2> QED
    BY <2>2, <2>3, Zenon DEF KnownInv
<1>2. CASE WorldStep(e)
  <2>1. WorldFrame(e)
    BY <1>2, WorldFramed, Zenon
  <2>2. ASSUME NEW f \in Entries PROVE CallOK(f)'
    <3>1. CallOK(f) /\ CallOK(e) /\ attempt \in [Entries -> Status]
      BY Zenon DEF KnownInv, Rows, TablesOK
    <3>2. UNCHANGED <<pc, lock, scan, known>>
      BY <2>1, Zenon DEF WorldFrame
    <3>3. \/ attempt'[f] = attempt[f]
          \/ f \in tasks \cup repairs /\ attempt'[f] = "completed"
      BY <2>1, <3>1, Zenon DEF WorldFrame
    <3>4. f \in tasks' \cup repairs' => f \in tasks \cup repairs
      BY <2>1, Zenon DEF WorldFrame
    <3> QED
      BY <3>1, <3>2, <3>3, <3>4, ZenonT(30)
         DEF CallOK, Read, Unresolved, UnresolvedStatus, Undecided
  <2>3. UNCHANGED <<gate, known>>
    BY <2>1, Zenon DEF WorldFrame
  <2> QED
    BY <2>2, <2>3, Zenon DEF KnownInv
<1> QED
  BY <1>1, <1>2, Zenon

(* The scan reads and resolves: what is unresolved now is in the snapshot, *)
(* and what it records it also notes there.                                *)
LEMMA ReadKnown ==
  ASSUME Rows, Types, KnownInv,
         \/ FetchExchange \/ FetchDb
         \/ \E e \in Entries : LeaveAttempt(e) \/ ResolveExact(e) \/ ResolveLateFill(e)
  PROVE  KnownInv'
<1>0. TablesOK /\ attempt \in [Entries -> Status] /\ scan.attempt \in [Entries -> Status]
  BY Zenon DEF Rows, TablesOK, Types, ScanType
<1>1. CASE FetchExchange \/ FetchDb \/ \E e \in Entries : LeaveAttempt(e)
  <2>1. UNCHANGED <<gate, pc, lock, attempt, tasks, repairs, known>>
    BY <1>1, Zenon DEF FetchExchange, FetchDb, LeaveAttempt, ScanOnly, entryVars, tables
  <2>2. ASSUME NEW f \in Entries PROVE CallOK(f)'
    <3>1. CallOK(f)
      BY Zenon DEF KnownInv
    <3>2. CASE FetchExchange
      <4>1. scan'.pc = "exchange" /\ scan'.attempt[f] = "none"
        BY <1>0, <3>2, ReadsExchange, Zenon DEF NoSnapshot
      <4> QED
        BY <2>1, <3>1, <4>1, Zenon DEF CallOK, Read
    <3>3. CASE FetchDb
      <4>1. scan'.attempt[f] = IF Slot(f) THEN attempt[f] ELSE "none"
        BY <1>0, <3>3, ReadsTables, Zenon
      <4> QED
        BY <2>1, <3>1, <4>1, Zenon DEF CallOK, Slot, Unresolved
    <3>4. CASE \E e \in Entries : LeaveAttempt(e)
      <4>1. scan'.attempt = scan.attempt /\ (Read' => Read)
        BY <3>4, Leaves, Zenon DEF Read
      <4> QED
        BY <2>1, <3>1, <4>1, Zenon DEF CallOK, Unresolved
    <3> QED
      BY <1>1, <3>2, <3>3, <3>4, Zenon
  <2> QED
    BY <2>1, <2>2, Zenon DEF KnownInv
<1>2. CASE \E e \in Entries : ResolveExact(e) \/ ResolveLateFill(e)
  <2>1. PICK e \in Entries : ResolveExact(e) \/ ResolveLateFill(e)
    BY <1>2, Zenon
  <2>2. UNCHANGED <<gate, pc, lock, repairs, known>>
    BY <2>1, Zenon DEF ResolveExact, ResolveLateFill, entryVars
  <2>3. PICK status \in OrderStates(e) : Recorded(e, status)
    BY <2>1, Zenon DEF ResolveExact, ResolveLateFill
  <2>4. scan.pc = "resolve"
    BY <2>1, Zenon DEF ResolveExact, ResolveLateFill, ScanAt
  <2>5. status \in Status \ {"none"} /\ order[e] \in {"live", "filled", "empty"}
    BY <2>3, OrderStatesSound, Zenon
  <2>6. /\ scan'.attempt = [scan.attempt EXCEPT ![e] = status] /\ scan'.pc = "resolve"
        /\ attempt' = [attempt EXCEPT ![e] = status]
    BY <2>3, <2>4, <2>5, Records, ZenonT(30) DEF Recorded
  <2>7. tasks' \in {tasks, tasks \cup {e}}
    BY <2>1, Zenon DEF ResolveExact, ResolveLateFill
  <2>8. ASSUME NEW f \in Entries, f # e PROVE CallOK(f)'
    <3>1. CallOK(f) /\ attempt'[f] = attempt[f] /\ scan'.attempt[f] = scan.attempt[f]
      BY <1>0, <2>6, <2>8, Zenon DEF KnownInv
    <3>2. f \in tasks' \cup repairs' => f \in tasks \cup repairs
      BY <2>2, <2>7, <2>8, Zenon
    <3> QED
      BY <2>2, <2>4, <3>1, <3>2, ZenonT(30) DEF CallOK, Read, Unresolved
  <2>9. CallOK(e)'
    <3>1. CallOK(e) /\ attempt'[e] = status /\ scan'.attempt[e] = status /\ RowsFollowOrder(e)
      BY <1>0, <2>6, ZenonT(30) DEF KnownInv, Rows
    <3>2. pc[e] \notin Undecided
      BY <2>1, <3>1, LiveEntryAssumption, ZenonT(30)
         DEF ResolveExact, ResolveLateFill, CallOK, Undecided, Candidate
    <3>3. e \in tasks' \cup repairs' => pc[e] = "done"
      <4>1. CASE ResolveExact(e)
        <5>1. tasks' = tasks
          BY <4>1, ZenonT(30) DEF ResolveExact
        <5> QED
          BY <2>2, <3>1, <5>1, ZenonT(30) DEF CallOK
      <4>2. CASE ResolveLateFill(e)
        <5>1. attempt[e] # "none" /\ lock[Inst[e]] # e
          BY <4>2, LiveEntryAssumption, Zenon DEF ResolveLateFill, Candidate
        <5> QED
          BY <3>1, <5>1, ZenonT(30) DEF CallOK, RowsFollowOrder, Unreserved
      <4> QED
        BY <2>1, <4>1, <4>2, Zenon
    <3> QED
      BY <2>2, <2>5, <3>1, <3>2, <3>3, ZenonT(30) DEF CallOK, Unresolved
  <2> QED
    BY <2>2, <2>8, <2>9, Zenon DEF KnownInv
<1> QED
  BY <1>1, <1>2, Zenon

(* The scan judges, or it is cut short; the verdict blocks for everything  *)
(* that is known and unresolved.                                           *)
LEMMA JudgeKnown ==
  ASSUME Rows, Types, KnownInv,
         ClassifyAll \/ ResolveAbsent \/ ScanDone \/ ScanFails \/ Restart \/ WorkerStep
  PROVE  KnownInv'
<1>0. TablesOK /\ attempt \in [Entries -> Status] /\ scan.attempt \in [Entries -> Status]
  BY Zenon DEF Rows, TablesOK, Types, ScanType
<1>1. CASE ClassifyAll \/ ResolveAbsent \/ WorkerStep
  <2>1. UNCHANGED <<pc, lock, attempt, tasks, repairs, known>>
    BY <1>1, Zenon DEF ClassifyAll, ResolveAbsent, WorkerStep, entryVars, tables
  <2>2. scan'.attempt = scan.attempt /\ (Read' => Read)
    BY <1>1, Classifies, Counts, Zenon DEF WorkerStep, Read
  <2>3. gate.blockers \subseteq gate'.blockers
    BY <1>1, Classifies, OthersKeepBlockers, Zenon DEF ResolveAbsent
  <2> QED
    BY <2>1, <2>2, <2>3, Zenon DEF KnownInv, CallOK, Unresolved
<1>2. CASE ScanDone
  <2>1. UNCHANGED <<pc, lock, attempt, tasks, repairs>> /\ scan' = IdleScan /\ scan.pc = "counted"
    BY <1>2, Zenon DEF ScanDone, ScanAt, entryVars, tables
  <2>2. known' = {e \in Entries : \/ scan.attempt[e] \in UnresolvedStatus
                                  \/ e \in known /\ Unresolved(e)}
    BY <1>2, Zenon DEF ScanDone
  <2>3. \A f \in known' : f \in Entries /\ scan.attempt[f] \in UnresolvedStatus
    BY <2>1, <2>2, Zenon DEF KnownInv, CallOK, Read
  <2>4. known' # {} => gate'.blockers # {}
    BY <1>2, <2>3, OthersKeepBlockers, VerdictBlocks, Zenon DEF SnapshotUnresolved
  <2>5. ASSUME NEW f \in Entries PROVE CallOK(f)'
    <3>1. CallOK(f) /\ IdleScan.attempt[f] = "none" /\ IdleScan.pc = "idle"
      BY Zenon DEF KnownInv, IdleScan, NoSnapshot
    <3> QED
      BY <2>1, <2>3, <3>1, Zenon DEF CallOK, Read, UnresolvedStatus
  <2> QED
    BY <2>4, <2>5, Zenon DEF KnownInv
<1>3. CASE ScanFails
  <2>1. UNCHANGED <<pc, lock, attempt, tasks, repairs, known>> /\ scan' = IdleScan
    BY <1>3, Zenon DEF ScanFails, entryVars, tables
  <2>2. ASSUME NEW f \in Entries PROVE CallOK(f)'
    <3>1. CallOK(f) /\ IdleScan.attempt[f] = "none" /\ IdleScan.pc = "idle"
      BY Zenon DEF KnownInv, IdleScan, NoSnapshot
    <3> QED
      BY <2>1, <3>1, Zenon DEF CallOK, Read
  <2> QED
    BY <1>3, <2>2, OthersKeepBlockers, Zenon DEF KnownInv
<1>4. CASE Restart
  <2>1. UNCHANGED <<attempt, tasks, repairs, known>> /\ scan' = IdleScan
    BY <1>4, Zenon DEF Restart, tables
  <2>2. ASSUME NEW f \in Entries PROVE CallOK(f)'
    <3>1. CallOK(f) /\ IdleScan.attempt[f] = "none" /\ IdleScan.pc = "idle"
      BY Zenon DEF KnownInv, IdleScan, NoSnapshot
    <3>2. pc'[f] = IF attempt[f] = "none" THEN "idle" ELSE "done"
      BY <1>4, Zenon DEF Restart
    <3> QED
      BY <2>1, <3>1, <3>2, ZenonT(30) DEF CallOK, Read, Unreserved, Undecided
  <2> QED
    BY <1>4, <2>2, OthersKeepBlockers, Zenon DEF KnownInv
<1> QED
  BY <1>1, <1>2, <1>3, <1>4, ZenonT(30)

(* KnownInv holds of every reachable state. *)
THEOREM KnownInductive == Spec => []KnownInv
<1>1. Init => KnownInv
  <2> SUFFICES ASSUME Init PROVE KnownInv
    BY Zenon
  <2>1. known = {} /\ tasks = {} /\ repairs = {} /\ scan.attempt = NoSnapshot
    BY Zenon DEF Init, IdleScan
  <2>2. \A e \in Entries : pc[e] = "idle" /\ scan.attempt[e] = "none"
    BY <2>1, Zenon DEF Init, NoSnapshot
  <2>3. \A e \in Entries : CallOK(e)
    BY <2>1, <2>2, Zenon DEF CallOK, Unreserved, Undecided
  <2> QED
    BY <2>1, <2>3, Zenon DEF KnownInv
<1>2. Inv /\ Types /\ KnownInv /\ [Next]_vars => KnownInv'
  <2> SUFFICES ASSUME Inv, Types, KnownInv, [Next]_vars PROVE KnownInv'
    BY Zenon
  <2>1. Rows
    BY Zenon DEF Inv, Rows
  <2>2. CASE UNCHANGED vars
    <3>1. UNCHANGED <<gate, pc, lock, attempt, tasks, repairs, scan, known>>
      BY <2>2, Zenon DEF vars, entryVars, tables
    <3> QED
      BY <3>1, ZenonT(30) DEF KnownInv, CallOK, Read, Unresolved
  <2> QED
    BY <2>1, <2>2, EntryKnown, ReadKnown, JudgeKnown, Zenon DEF Next, ScanStep
<1> QED
  BY <1>1, <1>2, Inductive, TypesHold, PTL DEF Spec

(* KnownUnresolvedBlocks: an attempt that a finished scan left unresolved  *)
(* keeps entries blocked until it is resolved.                             *)
THEOREM KnownBlocks == Spec => []KnownUnresolvedBlocks
<1>1. Types /\ KnownInv => KnownUnresolvedBlocks
  BY Zenon DEF Types, GateOK, KnownInv, KnownUnresolvedBlocks
<1> QED
  BY <1>1, KnownInductive, TypesHold, PTL

-----------------------------------------------------------------------------
(* A clean scan.  What the scan read as a journalled position stays one    *)
(* for as long as it is held, since a trade is closed only after the       *)
(* position; with no active instrument every position the scan read is     *)
(* journalled; and with no row counted no instrument is active.            *)
EntriesApart == \A e, f \in Entries : Inst[e] = Inst[f] => e = f

CleanInv ==
  /\ \A e \in scan.trades :
       order[e] = "filled" /\ (e \in held => trade[e] = "open" /\ e \in linked)
  /\ EntriesApart /\ scan.pc \in {"classified", "counted"} /\ scan.active = {} =>
       scan.held \subseteq scan.trades
  /\ scan.pc = "classified" => scan.active \subseteq incidents
  /\ scan.pc = "counted" /\ scan.count = 0 => scan.active = {}

(* classify_position_state calls a position healthy only with a trade. *)
LEMMA HealthyIsOwned ==
  ASSUME Types, NEW e \in scan.held, Discrepancy(Inst[e]) = "healthy"
  PROVE  \E f \in scan.trades : Inst[f] = Inst[e]
<1> DEFINE i == Inst[e]
           positions == {f \in scan.held : Inst[f] = i}
           owned == {f \in scan.trades : Inst[f] = i}
           attempts == [f \in Scanned(i) |->
             IF scan.attempt[f] = "unpriced" THEN [status |-> "completed", filled |-> Unknown]
             ELSE [status |-> scan.attempt[f], filled |-> 1]]
           position == IF positions = {} THEN None ELSE Cardinality(positions)
           trades == IF owned = {} THEN None ELSE 1
           redis == owned # {}
<1>1. positions # {} /\ IsFiniteSet(positions)
  <2>1. positions \subseteq Entries
    BY Zenon DEF Types, ScanType
  <2> QED
    BY <2>1, FS_Subset, LiveEntryAssumption, Zenon
<1>2. position # None
  <2>1. Cardinality(positions) \in Nat
    BY <1>1, FS_CardinalityType, Zenon
  <2> QED
    BY <1>1, <2>1, SMTT(30) DEF None
<1>3. Discrepancy(i) = ClassifyPositionState(TRUE, position, trades, attempts, redis)
  BY <1>1, Zenon DEF Discrepancy
<1> HIDE DEF position, trades, attempts, redis
<1>4. ClassifyPositionState(TRUE, position, trades, attempts, redis) = "healthy"
        => trades # None
  BY <1>2, Zenon DEF ClassifyPositionState
<1>5. owned # {}
  BY <1>3, <1>4, ZenonT(30) DEF trades
<1> QED
  BY <1>5, Zenon

(* Steps that leave the scan and the incidents alone. *)
LEMMA TradesStay ==
  ASSUME Rows, CleanInv, UNCHANGED <<scan, incidents>>,
         \A e \in Entries :
           order[e] = "filled" =>
             /\ order'[e] = "filled"
             /\ e \in held' => e \in held
             /\ e \in held /\ e \in held' /\ trade[e] = "open" => trade'[e] = "open"
             /\ e \in linked => e \in linked',
         scan.trades \subseteq Entries
  PROVE  CleanInv'
  BY Zenon DEF CleanInv

(* Steps of calls and of the world. *)
LEMMA EntryClean ==
  ASSUME Rows, Types, CleanInv, NEW e \in Entries, EntryStep(e) \/ WorldStep(e)
  PROVE  CleanInv'
<1>0. /\ order \in [Entries -> {"none", "inflight", "gone", "live", "filled", "empty"}]
      /\ trade \in [Entries -> {"none", "open", "closed"}] /\ scan.trades \subseteq Entries
  BY Zenon DEF Rows, TablesOK, Types, ScanType
<1>1. UNCHANGED <<scan, incidents>>
  BY EntryFramed, WorldFramed, Zenon DEF EntryFrame, WorldFrame
<1>2. CASE EntryStep(e)
  <2>1. /\ held' = held /\ linked' \in {linked, linked \cup {e}}
        /\ \/ order' = order
           \/ order' = [order EXCEPT ![e] = "inflight"] /\ pc[e] = "reserved"
           \/ order' = [order EXCEPT ![e] = "gone"] /\ order[e] \in {"inflight", "gone"}
        /\ trade' = trade \/ trade' = [trade EXCEPT ![e] = "open"]
    BY <1>2, ZenonT(60)
       DEF EntryStep, Admit, Lock, LockBusy, CheckRisk, RefusePreflight, Reserve,
           ReserveDenied, RecheckFails, Send, Rejected, Accepted, MarkUnknown, BlockEntries,
           NotFound, Found, Settled, NotSettled, NoFill, PlaceStop, Unpriced, CompleteOpen,
           MarkCompleted, FlattenBlocks, FlattenOwned, FlattenTask, Refuse, Finish, At,
           exchange, tables
  <2>2. pc[e] = "reserved" => order[e] = "none"
    BY Zenon DEF Rows, RowsFollowOrder
  <2> QED
    BY <1>0, <1>1, <2>1, <2>2, TradesStay, ZenonT(30)
<1>3. CASE WorldStep(e)
  <2>1. /\ linked' \in {linked, linked \cup {e}}
        /\ \/ order' = order
           \/ \E to : order' = [order EXCEPT ![e] = to] /\ order[e] \in {"inflight", "live"}
        /\ \/ held' = held \/ held' = held \ {e}
           \/ held' = held \cup {e} /\ order[e] = "live"
        /\ \/ trade' = trade \/ trade' = [trade EXCEPT ![e] = "open"]
           \/ trade' = [trade EXCEPT ![e] = "closed"] /\ e \notin held
    BY <1>3, ZenonT(60)
       DEF WorldStep, ExchangeStep, PositionCloses, TradeCloses, TaskAccounted,
           OperatorClears, RecoverOpen, exchange, tables
  <2> QED
    BY <1>0, <1>1, <2>1, TradesStay, ZenonT(30)
<1> QED
  BY <1>2, <1>3, Zenon

(* The scan, a restart and the workers. *)
LEMMA ScanClean ==
  ASSUME Rows, Types, CleanInv, ScanStep \/ ScanFails \/ Restart \/ WorkerStep
  PROVE  CleanInv'
<1>0. TablesOK /\ scan \in ScanType
  BY Zenon DEF Rows, Types
<1>1. UNCHANGED <<trade, linked, order, held>>
  BY Zenon DEF ScanStep, FetchExchange, FetchDb, ClassifyAll, ResolveAbsent, ScanDone, ScanFails,
     LeaveAttempt, ResolveExact, ResolveLateFill, Restart, WorkerStep, ScanOnly, exchange, tables
<1>2. CASE FetchExchange
  BY <1>0, <1>2, ReadsExchange, Zenon DEF CleanInv
<1>3. CASE FetchDb
  <2>1. ASSUME NEW e \in Entries, trade[e] = "open" PROVE order[e] = "filled"
    BY <2>1, Zenon DEF Rows, RowsFollowOrder
  <2> QED
    BY <1>0, <1>1, <1>3, <2>1, ReadsTables, Zenon DEF CleanInv
<1>4. CASE \E e \in Entries : LeaveAttempt(e) \/ ResolveExact(e) \/ ResolveLateFill(e)
  <2>1. PICK e \in Entries : LeaveAttempt(e) \/ ResolveExact(e) \/ ResolveLateFill(e)
    BY <1>4, Zenon
  <2>2. scan'.trades = scan.trades /\ scan'.pc = "resolve"
    <3>1. CASE LeaveAttempt(e)
      BY <3>1, Leaves, Zenon
    <3>2. CASE ResolveExact(e) \/ ResolveLateFill(e)
      <4>1. PICK status \in OrderStates(e) : Recorded(e, status)
        BY <3>2, Zenon DEF ResolveExact, ResolveLateFill
      <4>2. scan.pc = "resolve"
        BY <3>2, Zenon DEF ResolveExact, ResolveLateFill, ScanAt
      <4> QED
        BY <4>1, <4>2, OrderStatesSound, Records, ZenonT(30)
    <3> QED
      BY <2>1, <3>1, <3>2, Zenon
  <2> QED
    BY <1>1, <2>2, Zenon DEF CleanInv
<1>5. CASE ClassifyAll
  <2>1. /\ scan'.pc = "classified" /\ scan'.held = scan.held /\ scan'.trades = scan.trades
        /\ \A i \in Instruments : Discrepancy(i) # "healthy" => i \in scan'.active
        /\ scan'.active \subseteq incidents'
    BY <1>5, Classifies, Zenon
  <2>2. ASSUME EntriesApart, scan'.active = {}, NEW e \in scan.held
        PROVE  e \in scan.trades
    <3>1. e \in Entries /\ Inst[e] \in Instruments /\ scan.trades \subseteq Entries
      BY <1>0, LiveEntryAssumption, Zenon DEF ScanType
    <3>2. Discrepancy(Inst[e]) = "healthy"
      BY <2>1, <2>2, <3>1, Zenon
    <3>3. PICK f \in scan.trades : Inst[f] = Inst[e]
      BY <3>2, HealthyIsOwned, Zenon
    <3> QED
      BY <2>2, <3>1, <3>3, ZenonT(30) DEF EntriesApart
  <2> QED
    BY <1>1, <2>1, <2>2, Zenon DEF CleanInv
<1>6. CASE ResolveAbsent
  <2>1. /\ scan.pc = "classified" /\ scan'.pc = "counted"
        /\ scan'.held = scan.held /\ scan'.trades = scan.trades /\ scan'.active = scan.active
        /\ scan'.count = Cardinality(incidents \cap scan.active) + Cardinality(pending)
        /\ Cardinality(incidents \cap scan.active) \in Nat /\ Cardinality(pending) \in Nat
        /\ IsFiniteSet(incidents \cap scan.active)
    BY <1>6, Counts, ZenonT(30)
  <2>2. scan'.count = 0 => Cardinality(incidents \cap scan.active) = 0
    BY <2>1, SMTT(30)
  <2>3. scan'.count = 0 => incidents \cap scan.active = {}
    BY <2>1, <2>2, FS_EmptySet, ZenonT(30)
  <2>4. scan.active \subseteq incidents
    BY <2>1, Zenon DEF CleanInv
  <2> QED
    BY <1>1, <2>1, <2>3, <2>4, Zenon DEF CleanInv
<1>7. CASE ScanDone \/ ScanFails \/ Restart
  <2>1. scan' = IdleScan
    BY <1>7, Zenon DEF ScanDone, ScanFails, Restart
  <2>2. IdleScan.trades = {} /\ IdleScan.pc = "idle"
    BY Zenon DEF IdleScan
  <2> QED
    BY <2>1, <2>2, Zenon DEF CleanInv
<1>8. CASE WorkerStep
  <2>1. UNCHANGED <<scan, incidents>>
    BY <1>8, ZenonT(30) DEF WorkerStep
  <2> QED
    BY <1>1, <2>1, Zenon DEF CleanInv
<1> QED
  BY <1>2, <1>3, <1>4, <1>5, <1>6, <1>7, <1>8, Zenon DEF ScanStep

(* CleanInv holds of every reachable state. *)
THEOREM CleanInductive == Spec => []CleanInv
<1>1. Init => CleanInv
  BY DEF Init, CleanInv, IdleScan
<1>2. Inv /\ Types /\ CleanInv /\ [Next]_vars => CleanInv'
  <2> SUFFICES ASSUME Inv, Types, CleanInv, [Next]_vars PROVE CleanInv'
    BY Zenon
  <2>1. Rows
    BY Zenon DEF Inv, Rows
  <2>2. CASE UNCHANGED vars
    <3>1. UNCHANGED <<scan, order, held, trade, linked, incidents>>
      BY <2>2, Zenon DEF vars, tables, exchange
    <3> QED
      BY <3>1, Zenon DEF CleanInv
  <2> QED
    BY <2>1, <2>2, EntryClean, ScanClean, Zenon DEF Next
<1> QED
  BY <1>1, <1>2, Inductive, TypesHold, PTL DEF Spec

(* CleanScanOwnsPositions: for entries on instruments of their own, a scan *)
(* that lifts every block proves the ownership of every position that it   *)
(* read and that is still open.                                            *)
THEOREM CleanScanProves ==
  ASSUME EntriesApart
  PROVE  Spec => CleanScanOwnsPositions
<1> DEFINE Proved == (scan.pc = "counted" /\ scan'.pc = "idle" /\ gate'.blockers = {}) =>
                       \A e \in scan.held \cap held : trade[e] = "open" /\ e \in linked
<1>1. Inv /\ Types /\ CleanInv /\ [Next]_vars => [Proved]_vars
  <2> SUFFICES ASSUME Inv, Types, CleanInv, Next,
                      scan.pc = "counted", scan'.pc = "idle", gate'.blockers = {}
               PROVE  \A e \in scan.held \cap held : trade[e] = "open" /\ e \in linked
    BY Zenon
  <2>1. ScanDone \/ ScanFails \/ Restart
    <3>1. ASSUME NEW e \in Entries, EntryStep(e) \/ WorldStep(e) PROVE FALSE
      BY <3>1, EntryFramed, WorldFramed, ZenonT(30) DEF EntryFrame, WorldFrame
    <3>2. ~WorkerStep
      BY Zenon DEF WorkerStep
    <3>3. ScanStep => ScanDone
      BY Zenon DEF ScanStep, FetchExchange, FetchDb, ClassifyAll, ResolveAbsent, LeaveAttempt,
             ResolveExact, ResolveLateFill, ScanAt
    <3> QED
      BY <3>1, <3>2, <3>3, ZenonT(30) DEF Next
  <2>2. ~ScanFails /\ ~Restart
    BY OthersKeepBlockers, Zenon
  <2>3. ~(scan.count > 0) /\ scan.count \in Nat
    BY <2>1, <2>2, OthersKeepBlockers, VerdictBlocks, ZenonT(30) DEF Types, ScanType
  <2>4. scan.active = {}
    BY <2>3 DEF CleanInv
  <2> QED
    BY <2>4, Zenon DEF CleanInv
<1> QED
  BY <1>1, CleanInductive, Inductive, TypesHold, PTL DEF Spec, CleanScanOwnsPositions
=============================================================================
