---------------------------- MODULE PnlLeaseProofs ----------------------------
(****************************************************************************)
(* What PnlLease promises for any number of trades, writers and entries.    *)
(* The argument: whatever a step does to the journal moves the generation   *)
(* (JournalMoves), so a figure read at a generation stays right as long as  *)
(* the generation does (FigureStays); leases and readings only travel from  *)
(* the tracker's snapshot to Redis and from there to entries (ReadsMove).   *)
(****************************************************************************)
EXTENDS PnlLease, TLAPS

USE LossAssumption

(* A transaction that changes anything of the journal moves the generation. *)
JournalStep == UNCHANGED journal \/ gen' = gen + 1

(* The missing lease is a lease value, and admits at no generation. *)
LEMMA NoLeaseType ==
  /\ NoLease \in Leases /\ NoLease.gen = -1
  /\ NoTick.read = NoLease /\ NoEntry.read = NoLease
BY DEF NoLease, Leases, NoTick, NoEntry

(* The realized figures of the journal are one loss per trade. *)
LEMMA RealizedType == Realized \in [Trades -> Nat]
BY DEF Realized

(* A figure that tells the journal goes on telling it over a journal step:  *)
(* unchanged tables keep it right, a moved generation makes it stale.       *)
LEMMA FigureStays ==
  ASSUME gen \in Nat, JournalStep, NEW read \in Leases, NEW b \in BOOLEAN, Tells(read, b)
  PROVE  read.gen <= gen' /\ (read.gen = gen' => read.realized = Realized' /\ b = Blocked')
<1>0. read.gen \in Int
  BY DEF Leases
<1>1. CASE UNCHANGED journal
  BY <1>1, ZenonT(30) DEF journal, Tells, Realized, Blocked
<1>2. CASE gen' = gen + 1
  BY <1>0, <1>2 DEF Tells
<1> QED
  BY <1>1, <1>2 DEF JournalStep

(* Every action is a journal step. *)
LEMMA JournalMoves ==
  ASSUME TypeOK, [Next]_vars
  PROVE  JournalStep
<1>1. CASE UNCHANGED vars
  BY <1>1 DEF vars, journal, JournalStep
<1>2. CASE TickStep \/ TickFails \/ LeaseExpires \/ (\E w \in Writers : WriterStops(w))
            \/ (\E e \in Entries : EntryStep(e))
  BY <1>2, ZenonT(30)
     DEF JournalStep, TickStep, FetchPositions, TickUnavailable, Snapshot, CheckPending, Publish,
    RecheckPending, RecheckGeneration, TickRevokes, TickFails, LeaseExpires, WriterStops, EntryStep,
    ReadLease, CheckFirst, CheckLast, EntryEnds
<1>3. ASSUME NEW w \in Writers, NEW t \in Trades, WriterStep(w, t)
      PROVE  JournalStep
  <2>1. CASE BeginClose(w, t) \/ ClearMarker(w, t) \/ WriteMarker(w, t) \/ Revoke(w, t) \/ BeginIncident(w, t)
    BY <2>1 DEF JournalStep, BeginClose, ClearMarker, WriteMarker, Revoke, BeginIncident
  <2>2. CASE CommitClose(w, t) \/ CommitFails(w, t)
    BY <2>2 DEF JournalStep, CommitClose, CommitFails, CloseTrade, journal, TypeOK
  <2>3. CASE RecordLeg(w, t) \/ SettleCosts(w, t)
    BY <2>3 DEF JournalStep, RecordLeg, SettleCosts
  <2>4. CASE InsertIncident(w, t)
    BY <2>4 DEF JournalStep, InsertIncident, journal, TypeOK
  <2> QED
    BY <1>3, <2>1, <2>2, <2>3, <2>4 DEF WriterStep, CloseStep
<1>4. ASSUME NEW t \in Trades, TradeStep(t)
      PROVE  JournalStep
  BY <1>4 DEF JournalStep, TradeStep, PositionCloses, IncidentMoves, MarkIncomplete, OperatorSettles
<1> QED
  BY <1>1, <1>2, <1>3, <1>4 DEF Next

-----------------------------------------------------------------------------

(* The writers and the world leave what the tracker and the entries read.   *)
LEMMA WritersMove ==
  ASSUME TypeOK,
         \/ \E w \in Writers, t \in Trades : WriterStep(w, t)
         \/ \E w \in Writers : WriterStops(w)
         \/ \E t \in Trades : TradeStep(t)
  PROVE  TypeOK' /\ lease' \in {lease, NoLease} /\ tick' = tick /\ entry' = entry
<1> USE NoLeaseType
<1>1. ASSUME NEW w \in Writers, NEW t \in Trades, WriterStep(w, t)
      PROVE  TypeOK' /\ lease' \in {lease, NoLease} /\ tick' = tick /\ entry' = entry
  <2> USE DEF TypeOK, Goes, Works, Idle, journal, pending, Open, Unsettled
  <2>1. CASE BeginClose(w, t)
    BY <2>1 DEF BeginClose
  <2>2. CASE CommitClose(w, t)
    BY <2>2 DEF CommitClose, CloseTrade
  <2>3. CASE CommitFails(w, t)
    BY <2>3 DEF CommitFails, CloseTrade
  <2>4. CASE ClearMarker(w, t)
    BY <2>4 DEF ClearMarker
  <2>5. CASE WriteMarker(w, t)
    BY <2>5 DEF WriteMarker
  <2>6. CASE Revoke(w, t)
    BY <2>6 DEF Revoke
  <2>7. CASE RecordLeg(w, t)
    BY <2>7 DEF RecordLeg
  <2>8. CASE BeginIncident(w, t)
    BY <2>8 DEF BeginIncident
  <2>9. CASE InsertIncident(w, t)
    BY <2>9 DEF InsertIncident
  <2>10. CASE SettleCosts(w, t)
    BY <2>10 DEF SettleCosts
  <2> QED
    BY <1>1, <2>1, <2>2, <2>3, <2>4, <2>5, <2>6, <2>7, <2>8, <2>9, <2>10 DEF WriterStep, CloseStep
<1>2. ASSUME NEW w \in Writers, WriterStops(w)
      PROVE  TypeOK' /\ lease' \in {lease, NoLease} /\ tick' = tick /\ entry' = entry
  BY <1>2, SMTT(30) DEF TypeOK, WriterStops, journal, pending
<1>3. ASSUME NEW t \in Trades, TradeStep(t)
      PROVE  TypeOK' /\ lease' \in {lease, NoLease} /\ tick' = tick /\ entry' = entry
  <2> USE DEF TypeOK, journal, pending, Open, Unsettled
  <2>1. CASE PositionCloses(t)
    BY <2>1 DEF PositionCloses
  <2>2. CASE IncidentMoves(t)
    BY <2>2, SMTT(30) DEF IncidentMoves
  <2>3. CASE MarkIncomplete(t)
    BY <2>3 DEF MarkIncomplete
  <2>4. CASE OperatorSettles(t)
    BY <2>4, SMTT(30) DEF OperatorSettles
  <2> QED
    BY <1>3, <2>1, <2>2, <2>3, <2>4, SMTT(30) DEF TradeStep
<1> QED
  BY <1>1, <1>2, <1>3, SMTT(30)

(* The tracker publishes what its snapshot read, once it is unblocked. *)
LEMMA TickMoves ==
  ASSUME TypeOK, TickStep \/ TickFails \/ LeaseExpires
  PROVE  /\ TypeOK' /\ entry' = entry /\ UNCHANGED journal
         /\ lease' \in {lease, NoLease} \/ (tick.pc = "publish" /\ lease' = tick.read)
         /\ tick'.pc = "snapshot" =>
              \/ tick' = tick
              \/ tick'.read.gen = gen /\ tick'.read.realized = Realized /\ tick'.blocked = Blocked
         /\ tick'.pc = "publish" =>
              tick' = tick \/ (tick.pc = "snapshot" /\ ~tick.blocked /\ tick'.read = tick.read)
<1> USE NoLeaseType, RealizedType DEF TypeOK, journal, pending, Leases
<1>0. NoTick \in [pc : {"idle"}, read : Leases, blocked : BOOLEAN]
  BY DEF NoTick
<1>r. Revoking = [pc |-> "revoke", read |-> NoLease, blocked |-> FALSE]
  BY DEF Revoking
<1>b. Blocked \in BOOLEAN
  BY DEF Blocked
<1>1. CASE FetchPositions
  BY <1>0, <1>1, ZenonT(30) DEF FetchPositions, NoTick
<1>2. CASE TickUnavailable
  BY <1>r, <1>2 DEF TickUnavailable
<1>3. CASE Snapshot
  BY <1>b, <1>3 DEF Snapshot
<1>4. CASE CheckPending
  BY <1>r, <1>4, SMTT(30) DEF CheckPending
<1>5. CASE Publish
  BY <1>5, ZenonT(30) DEF Publish
<1>6. CASE RecheckPending
  BY <1>r, <1>6, SMTT(30) DEF RecheckPending
<1>7. CASE RecheckGeneration
  <2>1. UNCHANGED <<gen, row, incident, held, marker, parked, lease, writer, entry>>
    BY <1>7 DEF RecheckGeneration
  <2>2. tick' = NoTick \/ tick' = Revoking
    BY <1>7 DEF RecheckGeneration
  <2>3. CASE tick' = NoTick
    BY <1>0, <2>1, <2>3
  <2>4. CASE tick' = Revoking
    BY <1>r, <2>1, <2>4
  <2> QED
    BY <2>2, <2>3, <2>4, SMTT(30)
<1>8. CASE TickRevokes
  BY <1>0, <1>8 DEF TickRevokes
<1>9. CASE TickFails
  BY <1>0, <1>9 DEF TickFails
<1>10. CASE LeaseExpires
  BY <1>10, SMTT(30) DEF LeaseExpires
<1> QED
  BY <1>1, <1>2, <1>3, <1>4, <1>5, <1>6, <1>7, <1>8, <1>9, <1>10, ZenonT(30) DEF TickStep

(* An entry only ever holds the lease it read, or none. *)
LEMMA EntriesMove ==
  ASSUME TypeOK, \E e \in Entries : EntryStep(e)
  PROVE  /\ TypeOK' /\ UNCHANGED journal /\ lease' = lease /\ tick' = tick
         /\ \A e \in Entries : entry'[e].read \in {entry[e].read, NoLease, lease}
<1> PICK e \in Entries : EntryStep(e)
  OBVIOUS
<1> USE NoLeaseType DEF TypeOK, journal, pending
<1>0. NoEntry \in [pc : {"idle"}, read : Leases, late : BOOLEAN]
  BY DEF NoEntry
<1>1. CASE ReadLease(e)
  BY <1>1 DEF ReadLease
<1>2. CASE CheckFirst(e)
  BY <1>0, <1>2 DEF CheckFirst
<1>3. CASE CheckLast(e)
  BY <1>0, <1>3, ZenonT(30) DEF CheckLast
<1>4. CASE EntryEnds(e)
  BY <1>0, <1>4 DEF EntryEnds
<1> QED
  BY <1>1, <1>2, <1>3, <1>4 DEF EntryStep

-----------------------------------------------------------------------------

(* Every step preserves the invariant: a reading that tells the journal     *)
(* moves between the tracker, Redis and the entries, or is dropped.         *)
LEMMA InvStep ==
  ASSUME Inv, [Next]_vars
  PROVE  Inv'
<1> DEFINE Right(read, b) == read.gen <= gen' /\ (read.gen = gen' => read.realized = Realized' /\ b = Blocked')
<1>1. TypeOK /\ JournalStep
  BY JournalMoves DEF Inv
<1>2. gen \in Nat /\ gen' \in Nat
  BY <1>1 DEF TypeOK, JournalStep, journal
<1>3. Right(lease, FALSE) /\ Right(NoLease, FALSE)
  <2>1. Tells(lease, FALSE) /\ lease \in Leases
    BY ZenonT(30) DEF Inv, LeaseTellsTheJournal, TypeOK
  <2>2. Right(lease, FALSE)
    BY <1>1, <1>2, <2>1, FigureStays, ZenonT(30)
  <2> QED
    BY <1>2, <2>2, NoLeaseType
<1>4. \A e \in Entries : Right(entry[e].read, FALSE)
  <2> TAKE e \in Entries
  <2>1. Tells(entry[e].read, FALSE) /\ entry[e].read \in Leases
    BY ZenonT(30) DEF Inv, LeaseTellsTheJournal, TypeOK
  <2> QED
    BY <1>1, <1>2, <2>1, FigureStays, ZenonT(30)
<1>5. tick.read \in Leases /\ tick.blocked \in BOOLEAN
  BY DEF Inv, TypeOK
<1>6. tick.pc = "snapshot" => Right(tick.read, tick.blocked)
  BY <1>1, <1>2, <1>5, FigureStays DEF Inv
<1>7. tick.pc = "publish" => Right(tick.read, FALSE)
  BY <1>1, <1>2, <1>5, FigureStays, ZenonT(30) DEF Inv
<1>8. SUFFICES /\ TypeOK' /\ Right(lease', FALSE)
               /\ \A e \in Entries : Right(entry'[e].read, FALSE)
               /\ tick'.pc = "snapshot" => Right(tick'.read, tick'.blocked)
               /\ tick'.pc = "publish" => Right(tick'.read, FALSE)
  BY DEF Inv, LeaseTellsTheJournal, Tells
<1>9. CASE UNCHANGED vars
  <2>1. TypeOK' /\ lease' = lease /\ tick' = tick /\ entry' = entry
    BY <1>1, <1>9, SMTT(30) DEF vars, TypeOK
  <2> QED
    BY <1>3, <1>4, <1>6, <1>7, <2>1
<1>10. CASE \/ \E w \in Writers, t \in Trades : WriterStep(w, t)
            \/ \E w \in Writers : WriterStops(w)
            \/ \E t \in Trades : TradeStep(t)
  <2>1. TypeOK' /\ lease' \in {lease, NoLease} /\ tick' = tick /\ entry' = entry
    BY <1>1, <1>10, WritersMove
  <2> QED
    BY <1>3, <1>4, <1>6, <1>7, <2>1
<1>11. CASE TickStep \/ TickFails \/ LeaseExpires
  <2>1. /\ TypeOK' /\ entry' = entry /\ UNCHANGED journal
        /\ lease' \in {lease, NoLease} \/ (tick.pc = "publish" /\ lease' = tick.read)
        /\ tick'.pc = "snapshot" =>
             \/ tick' = tick
             \/ tick'.read.gen = gen /\ tick'.read.realized = Realized /\ tick'.blocked = Blocked
        /\ tick'.pc = "publish" =>
             tick' = tick \/ (tick.pc = "snapshot" /\ ~tick.blocked /\ tick'.read = tick.read)
    BY <1>1, <1>11, TickMoves
  <2>2. gen' = gen /\ Realized' = Realized /\ Blocked' = Blocked
    BY <2>1 DEF journal, Realized, Blocked
  <2>3. TypeOK' /\ Right(lease', FALSE) /\ \A e \in Entries : Right(entry'[e].read, FALSE)
    BY <1>3, <1>4, <1>7, <2>1
  <2>4. tick'.pc = "snapshot" => Right(tick'.read, tick'.blocked)
    BY <1>2, <1>6, <2>1, <2>2
  <2>5. tick'.pc = "publish" => Right(tick'.read, FALSE)
    BY <1>5, <1>6, <1>7, <2>1
  <2> QED
    BY <2>3, <2>4, <2>5
<1>12. CASE \E e \in Entries : EntryStep(e)
  <2>1. /\ TypeOK' /\ lease' = lease /\ tick' = tick
        /\ \A e \in Entries : entry'[e].read \in {entry[e].read, NoLease, lease}
    BY <1>1, <1>12, EntriesMove
  <2> QED
    BY <1>3, <1>4, <1>6, <1>7, <2>1
<1> QED
  BY <1>9, <1>10, <1>11, <1>12, ZenonT(30) DEF Next

(* The inductive invariant holds of every reachable state. *)
THEOREM Inductive == Spec => []Inv
<1>1. Init => Inv
  <2> SUFFICES ASSUME Init PROVE Inv
    BY SMTT(30)
  <2> USE NoLeaseType DEF Init, NoTick, NoEntry
  <2>1. TypeOK
    BY DEF TypeOK, Open, Unsettled
  <2>2. LeaseTellsTheJournal
    BY DEF LeaseTellsTheJournal, Tells
  <2> QED
    BY <2>1, <2>2 DEF Inv
<1>2. Inv /\ [Next]_vars => Inv'
  BY InvStep
<1> QED
  BY <1>1, <1>2, PTL DEF Spec

(* Every step of the tracker, the writers and the entries (pnl_state.py,    *)
(* tracker.py, orders.py) keeps the variables in the sets TypeOK names.     *)
THEOREM TypeCorrect == Spec => []TypeOK
<1>1. Inv => TypeOK
  BY DEF Inv
<1> QED
  BY <1>1, Inductive, PTL

(* tracker.py 61-72: a lease of the journal's generation, in Redis or in an *)
(* entry's hands, carries the journal's figure with nothing blocking it.    *)
THEOREM LeaseIsTrue == Spec => []LeaseTellsTheJournal
<1>1. Inv => LeaseTellsTheJournal
  BY DEF Inv
<1> QED
  BY <1>1, Inductive, PTL

(* orders.py 520-537: an entry's last check admits it only on the journal's *)
(* own figure at that moment, unblocked and within the daily limit.         *)
THEOREM AdmissionIsSound == Spec => AdmittedOnTheJournal
<1> DEFINE Sound == \A e \in Entries : entry[e].pc = "last" /\ entry'[e].pc = "admitted"
             => /\ entry[e].read.realized = Realized /\ ~Blocked
                /\ WithinLimit(Realized, entry[e].read.unrealized)
<1>1. Inv /\ [Next]_vars => [Sound]_vars
  <2> SUFFICES ASSUME Inv, Next, NEW e \in Entries, entry[e].pc = "last", entry'[e].pc = "admitted"
               PROVE  /\ entry[e].read.realized = Realized /\ ~Blocked
                      /\ WithinLimit(Realized, entry[e].read.unrealized)
    OBVIOUS
  <2>1. entry' # entry
    BY SMTT(30)
  <2>2. PICK f \in Entries : EntryStep(f)
    BY <2>1, WritersMove, TickMoves DEF Next, Inv
  <2>3. f = e
    BY <2>1, <2>2 DEF EntryStep, ReadLease, CheckFirst, CheckLast, EntryEnds, Inv, TypeOK
  <2>4. ~ReadLease(e) /\ ~CheckFirst(e)
    BY SMTT(30) DEF ReadLease, CheckFirst
  <2>5. ~EntryEnds(e)
    BY SMTT(30) DEF EntryEnds, NoEntry, Inv, TypeOK
  <2>6. CheckLast(e)
    BY <2>2, <2>3, <2>4, <2>5 DEF EntryStep
  <2>7. Admits(entry[e].read)
    BY <2>6, SMTT(30) DEF CheckLast, NoEntry, Inv, TypeOK
  <2>8. Tells(entry[e].read, FALSE) /\ entry[e].read \in Leases
    BY ZenonT(30) DEF Inv, LeaseTellsTheJournal, TypeOK
  <2> QED
    BY <2>7, <2>8 DEF Admits, PnlLeaseFlag, Tells
<1>2. AdmittedOnTheJournal <=> [][Sound]_vars
  BY PTL DEF AdmittedOnTheJournal
<1> QED
  BY <1>1, <1>2, Inductive, PTL DEF Spec
==============================================================================
