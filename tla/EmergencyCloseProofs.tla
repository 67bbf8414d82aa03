------------------------ MODULE EmergencyCloseProofs ------------------------
(***************************************************************************)
(* Why the closes of an emergency close task work one after the other: its *)
(* types, the invariant PassInv, and that the task keeps the promise of    *)
(* FlattenOnce, for any executors, exits, quantities and bounds, the last  *)
(* two as long as the task is Aware of its closes.                         *)
(***************************************************************************)
EXTENDS EmergencyClose, FiniteSetTheorems, TLAPS

(* The types of the variables, one at a time. *)
OrderType ==
  order \in [Orders -> [st : {"none", "sent", "open", "done", "void"},
                        amt : 0..Owned + Foreign, fill : 0..Owned + Foreign]]
StopType == stop \in [st : {"none", "sent", "open", "done"}, fill : 0..Owned]
TaskType ==
  task \in [status : {"none", "runnable", "manual", "flat", "accounted"},
            claim : Executors \cup {NoOne}, rejected : Nat]
PcType ==
  pc \in [Executors -> {"start", "create", "blind", "wait", "idle", "lock", "link",
            "follow", "stops", "position", "cancel", "intent", "sending", "send",
            "answer", "set", "done"}]
MyType ==
  my \in [Executors -> [n : Nat, left : 0..Owned, stops : {"none", "sent", "open", "done"},
            goal : {"runnable", "manual", "flat"}, rej : {0, 1}]]
RowType == row \in [Orders -> Rows]
PosType == pos \in 0..Owned + Foreign

(* What the proof needs of TypeOK. *)
Types ==
  OrderType /\ StopType /\ TaskType /\ PcType /\ MyType /\ RowType /\ PosType
  /\ linked \subseteq Exits

(* Initially every variable has its type. *)
LEMMA InitTypes == Init => Types
<1> SUFFICES ASSUME Init PROVE Types
  BY Zenon
<1> USE EmergencyCloseAssumption
<1>1. PcType
  BY Zenon DEF Init, PcType
<1>2. RowType
  BY Zenon DEF Init, Rows, RowType
<1>3. OrderType /\ PosType /\ StopType
  BY DEF Init, OrderType, PosType, StopType
<1>4. MyType
  BY DEF Init, Nothing, Note, MyType
<1>5. TaskType /\ linked \subseteq Exits
  BY Zenon DEF Init, TaskType
<1> QED
  BY <1>1, <1>2, <1>3, <1>4, <1>5, Zenon DEF Types

(* The exchange's steps keep the types. *)
LEMMA ExchangeTypes == Types /\ Exchange => Types'
<1> SUFFICES ASSUME Types, Exchange PROVE Types'
  BY Zenon
<1> USE EmergencyCloseAssumption
<1>1. UNCHANGED <<pc, row, my, task, linked>>
  BY Zenon DEF Exchange, Arrive, Refuse, Fill, EndOrder, StopArrives, StopFills, StopEnds,
         HandTrade, exchangeOnly, db
<1>2. OrderType' /\ PosType' /\ StopType'
  <2>1. CASE StopArrives
    BY <2>1 DEF StopArrives, Types, OrderType, PosType, StopType
  <2>2. CASE StopFills
    BY <2>2 DEF StopFills, Types, OrderType, PosType, StopType, Min2
  <2>3. CASE StopEnds
    BY <2>3, Zenon DEF StopEnds, Types, OrderType, PosType, StopType
  <2>4. CASE HandTrade
    BY <2>4, Zenon DEF HandTrade, Types, OrderType, PosType, StopType
  <2>5. ASSUME NEW o \in Orders, Arrive(o) \/ Refuse(o) \/ EndOrder(o)
        PROVE OrderType' /\ PosType' /\ StopType'
    BY <2>5 DEF Arrive, Refuse, EndOrder, Types, OrderType, PosType, StopType
  <2>6. ASSUME NEW o \in Orders, Fill(o)
        PROVE OrderType' /\ PosType' /\ StopType'
    <3> DEFINE Most == Owned + Foreign
    <3>1. PICK k \in 1..Min2(order[o].amt - order[o].fill, pos) :
            /\ pos' = pos - k
            /\ order' = [order EXCEPT ![o].fill = @ + k,
                  ![o].st = IF order[o].fill + k = order[o].amt THEN "done" ELSE @]
      BY <2>6, ZenonT(30) DEF Fill
    <3>2. /\ order[o].fill \in 0..Most /\ order[o].amt \in 0..Most /\ pos \in 0..Most
          /\ Most \in Nat
      BY DEF Types, OrderType, PosType
    <3>3. k \in Nat /\ k <= pos /\ order[o].fill + k <= order[o].amt
      BY <3>1, <3>2 DEF Min2
    <3>4. order[o].fill + k \in 0..Most /\ pos - k \in 0..Most
      BY <3>2, <3>3
    <3>5. OrderType'
      <4> HIDE DEF Most
      <4>1. order[o] \in [st : {"none", "sent", "open", "done", "void"},
                          amt : 0..Most, fill : 0..Most]
        BY Zenon DEF Types, OrderType, Most
      <4>2. order'[o] \in [st : {"none", "sent", "open", "done", "void"},
                           amt : 0..Most, fill : 0..Most]
        BY <3>1, <3>4, <4>1, ZenonT(30) DEF Types, OrderType
      <4> QED
        BY <3>1, <4>2, Zenon DEF Types, OrderType, Most
    <3> QED
      BY <2>6, <3>1, <3>4, <3>5, Zenon DEF Fill, Types, PosType, StopType
  <2> QED
    BY <2>1, <2>2, <2>3, <2>4, <2>5, <2>6, Zenon DEF Exchange
<1> QED
  BY <1>1, <1>2, Zenon DEF Types, PcType, RowType, MyType, TaskType

(* What recover and a late fill write: the task, with the close that the   *)
(* exchange lists, or without one.                                         *)
LEMMA Building ==
  ASSUME Recover \/ LateFill
  PROVE  /\ task.status = "none" /\ task' = [task EXCEPT !.status = "runnable"]
         /\ early' = Recorded
         /\ UNCHANGED <<trade, pos, hand, stop, order, linked, orphan, lock, pc, my, passes,
                        exit, faults>>
         /\ \/ /\ Listed(1) /\ lost' = lost
               /\ \E s \in Adopted(1) : row' = [row EXCEPT ![1] = s]
            \/ row' = row /\ lost' = IF Known(1) THEN lost \cup {"close"} ELSE lost
  BY ZenonT(30) DEF Recover, LateFill, BuildTask, world

(* A close that is adopted may fill only if its row says so. *)
LEMMA AdoptedRow ==
  ASSUME Listed(1), NEW s \in Adopted(1)
  PROVE  /\ s \in Rows /\ s # "none" /\ (Live(1) => s = "accepted")
         /\ s \in {"accepted", "no_fill", "manual_required"} \cup Filled
  BY ZenonT(30) DEF Adopted, StateOf, Listed, Live, Rows, Unresolved, Filled

(* Writing the task keeps the types. *)
LEMMA CreationTypes == Types /\ Creation => Types'
<1> SUFFICES ASSUME Types, Creation PROVE Types'
  BY Zenon
<1> USE EmergencyCloseAssumption
<1>1. CASE Recover \/ LateFill
  <2>1. RowType'
    BY <1>1, Building, AdoptedRow, ZenonT(30) DEF Types, RowType
  <2>2. TaskType'
    BY <1>1, Building, Zenon DEF Types, TaskType
  <2> QED
    BY <1>1, <2>1, <2>2, Building, Zenon DEF Types, OrderType, StopType, PcType, MyType, PosType
<1>2. CASE Creator \/ CreatorDies
  <2>1. UNCHANGED <<my, pos, stop, row>>
    BY <1>2, ZenonT(30) DEF Creator, CreatorDies, Start, CreateTask, CreateFails, BlindClose,
                            BlindDone, WriteTask, world, db
  <2>2. PcType'
    BY <1>2, ZenonT(30) DEF Creator, CreatorDies, Start, CreateTask, CreateFails, BlindClose,
                            BlindDone, Moves, Types, PcType
  <2>3. OrderType'
    <3>1. CASE BlindClose
      BY <3>1 DEF BlindClose, Submit, Types, OrderType, Orders, Closes
    <3>2. CASE ~BlindClose
      BY <1>2, <3>2, Zenon DEF Creator, CreatorDies, Start, CreateTask, CreateFails, BlindDone,
                               world, Types, OrderType
    <3> QED
      BY <3>1, <3>2, Zenon
  <2>4. TaskType' /\ (linked \subseteq Exits)'
    <3>1. CASE WriteTask
      BY <3>1, Zenon DEF WriteTask, Linkable, Recorded, db, Types, TaskType
    <3>2. CASE UNCHANGED <<task, linked>>
      BY <3>2, Zenon DEF Types, TaskType
    <3> QED
      BY <1>2, <3>1, <3>2, Zenon DEF Creator, CreatorDies, Start, CreateTask, CreateFails,
                                     BlindClose, BlindDone, db
  <2> QED
    BY <2>1, <2>2, <2>3, <2>4, Zenon DEF Types, RowType, MyType, PosType, StopType
<1> QED
  BY <1>1, <1>2, Zenon DEF Creation

(* The number of closes a task owns is a number. *)
LEMMA OwnsIsFinite == Types => Cardinality(Owns) \in Nat
<1> SUFFICES ASSUME Types PROVE Cardinality(Owns) \in Nat
  BY Zenon
<1>1. IsFiniteSet(Closes)
  BY EmergencyCloseAssumption, FS_Interval DEF Closes
<1>2. IsFiniteSet(Closes \cup Exits)
  BY <1>1, EmergencyCloseAssumption, FS_Union, ZenonT(30)
<1>3. Owns \subseteq Closes \cup Exits
  BY Zenon DEF Owns, Types
<1> QED
  BY <1>2, <1>3, FS_Subset, FS_CardinalityType, Zenon

(* A step of an executor. *)
ExecutorStep(e) ==
  \/ PassStep(e) \/ Overdue(e) \/ FollowNoAmount(e) \/ FollowMisses(e) \/ PassFails(e)

(* A pass keeps the types: it sends, writes rows and the task. *)
LEMMA PassTypes ==
  ASSUME NEW e \in Executors, Types, ExecutorStep(e)
  PROVE  Types'
<1> USE EmergencyCloseAssumption
<1>1. OrderType'
  <2>1. CASE Send(e)
    <3>1. my[e].left \in 0..Owned + Foreign
      BY DEF Types, MyType
    <3>2. [st |-> "sent", amt |-> my[e].left, fill |-> 0]
            \in [st : {"none", "sent", "open", "done", "void"},
                 amt : 0..Owned + Foreign, fill : 0..Owned + Foreign]
      BY <3>1
    <3>3. \/ order' = order
          \/ order' = [order EXCEPT ![my[e].n] =
                         [st |-> "sent", amt |-> my[e].left, fill |-> 0]]
      BY <2>1, Zenon DEF Send, Submit
    <3> QED
      BY <3>2, <3>3 DEF Types, OrderType
  <2>2. CASE UNCHANGED order
    BY <2>2, Zenon DEF Types, OrderType
  <2> QED
    BY <2>1, <2>2, ZenonT(30)
       DEF Claim, TakeLock, LockBusy, Link, Follow, ReadStops, ReadPosition, CancelStop,
           Intent, RoundsToZero, SetSending, Answer, SetTask, PassRaises, Overdue, FollowNoAmount,
           FollowMisses, PassFails, world, PassStep, ExecutorStep
<1>2. StopType' /\ PosType'
  <2>1. CASE CancelStop(e)
    BY <2>1, Zenon DEF CancelStop, Types, StopType, PosType
  <2>2. CASE UNCHANGED <<stop, pos>>
    BY <2>2, Zenon DEF Types, StopType, PosType
  <2> QED
    BY <2>1, <2>2, ZenonT(30)
       DEF Claim, TakeLock, LockBusy, Link, Follow, ReadStops, ReadPosition, Send,
           Intent, RoundsToZero, SetSending, Answer, SetTask, PassRaises, Overdue, FollowNoAmount,
           FollowMisses, PassFails, world, PassStep, ExecutorStep
<1>3. PcType'
  <2>1. ASSUME NEW p \in {"link", "lock", "stops", "follow", "position", "cancel",
                          "intent", "sending", "send", "answer", "set", "idle", "done"},
               Moves(e, p)
        PROVE  PcType'
    BY <2>1, Zenon DEF Moves, Types, PcType
  <2> QED
    BY <2>1, ZenonT(30)
       DEF Claim, TakeLock, LockBusy, Link, Follow, ReadStops, ReadPosition, CancelStop,
           Intent, RoundsToZero, SetSending, Send, Answer, SetTask, PassRaises, Overdue,
           FollowNoAmount, FollowMisses, PassFails, Ends, Leaves, Raises, PassStep, ExecutorStep
<1>4. RowType'
  <2>1. CASE Follow(e) \/ Overdue(e)
    BY <2>1, Zenon DEF Follow, Overdue, Followed, StateOf, Types, RowType, Rows, Unresolved,
           Filled
  <2>2. CASE Answer(e) \/ Intent(e) \/ FollowNoAmount(e)
    BY <2>2, Zenon DEF Answer, Intent, FollowNoAmount, Types, RowType, Rows, Unresolved, Unknown,
                Filled
  <2>3. CASE UNCHANGED row
    BY <2>3, Zenon DEF Types, RowType
  <2> QED
    BY <2>1, <2>2, <2>3, ZenonT(30)
       DEF Claim, TakeLock, LockBusy, Link, ReadStops, ReadPosition, CancelStop, RoundsToZero,
           SetSending, Send, SetTask, PassRaises, FollowMisses, PassFails, db, PassStep,
           ExecutorStep
<1>5. TaskType'
  <2>1. CASE SetTask(e)
    <3>1. my[e].goal \in {"runnable", "manual", "flat"} /\ my[e].rej \in Nat
      BY DEF Types, MyType
    <3>2. task.rejected \in Nat
      BY Zenon DEF Types, TaskType
    <3> QED
      BY <2>1, <3>1, <3>2 DEF SetTask, TaskType
  <2>2. CASE Claim(e)
    BY <2>2, Zenon DEF Claim, Types, TaskType
  <2>3. CASE UNCHANGED task
    BY <2>3, Zenon DEF Types, TaskType
  <2> QED
    BY <2>1, <2>2, <2>3, ZenonT(30)
       DEF TakeLock, LockBusy, Link, Follow, ReadStops, ReadPosition, CancelStop,
           Intent, RoundsToZero, SetSending, Send, Answer, PassRaises, Overdue, FollowNoAmount,
           FollowMisses, PassFails, db, PassStep, ExecutorStep
<1>6. MyType'
  <2>1. ASSUME NEW goal \in {"runnable", "manual", "flat"}, Ends(e, goal)
        PROVE  MyType'
    BY <2>1 DEF Ends, Note, Types, MyType
  <2>2. CASE Leaves(e) \/ Raises(e)
    BY <2>2 DEF Leaves, Raises, Nothing, Note, Types, MyType
  <2>3. CASE Follow(e)
    <3>1. Cardinality(Owns) + 1 \in Nat
      BY OwnsIsFinite
    <3>2. CASE Deciding(row') # {}
      BY <2>1, <2>3, <3>2, Zenon DEF Follow
    <3>3. CASE Deciding(row') = {}
      <4>1. PICK left \in 0..Owned :
              my' = [my EXCEPT ![e] = Note(Cardinality(Owns) + 1, left, "runnable", 0)]
        BY <2>3, <3>3, Zenon DEF Follow
      <4> QED
        BY <3>1, <4>1, Zenon DEF Note, Types, MyType
    <3> QED
      BY <3>2, <3>3, Zenon
  <2>4. CASE ReadStops(e)
    <3>1. my[e].left \in 0..Owned /\ stop.fill \in 0..Owned
          /\ stop.st \in {"none", "sent", "open", "done"}
      BY Zenon DEF Types, MyType, StopType
    <3>2. AfterStop(my[e].left) \in 0..Owned
      BY <3>1 DEF AfterStop
    <3> QED
      BY <2>1, <2>4, <3>1, <3>2 DEF ReadStops, Types, MyType
  <2>5. CASE Send(e)
    BY <2>5 DEF Send, Types, MyType
  <2>6. CASE Answer(e)
    <3>1. \/ Ends(e, "runnable")
          \/ \E goal \in {"manual", "runnable"} :
               my' = [my EXCEPT ![e] = Note(0, 0, goal, 1)]
      BY <2>6, Zenon DEF Answer
    <3> QED
      BY <2>1, <3>1, SMTT(30) DEF Note, Types, MyType
  <2>7. CASE UNCHANGED my
    BY <2>7, Zenon DEF Types, MyType
  <2>8. CASE ReadPosition(e)
    BY <2>1, <2>7, <2>8, Zenon DEF ReadPosition
  <2> QED
    BY <2>1, <2>2, <2>3, <2>4, <2>5, <2>6, <2>7, <2>8, ZenonT(30)
       DEF Claim, TakeLock, LockBusy, Link, CancelStop, Intent, RoundsToZero, SetSending, SetTask,
           PassRaises, Overdue, FollowNoAmount, FollowMisses, PassFails, PassStep,
           ExecutorStep
<1>7. (linked \subseteq Exits)'
  BY ZenonT(30) DEF Claim, TakeLock, LockBusy, Link, Linkable, Recorded, Follow, ReadStops,
         ReadPosition, CancelStop, Intent, RoundsToZero, SetSending, Send, Answer, SetTask,
         PassRaises, Overdue, FollowNoAmount, FollowMisses, PassFails, db, Types, PassStep,
         ExecutorStep
<1> QED
  BY <1>1, <1>2, <1>3, <1>4, <1>5, <1>6, <1>7, Zenon DEF Types

(* A step of an exit. *)
MonitorStep(x) ==
  ExitStart(x) \/ ExitStartUnread(x) \/ ExitStep(x) \/ ExitFails(x) \/ ExitRecover(x)

(* The exits leave the task, the passes and the closes of the task alone. *)
LEMMA MonitorFrame ==
  ASSUME NEW x \in Exits, MonitorStep(x)
  PROVE  UNCHANGED <<task, linked, early, pc, my, passes, pos>>
  BY ZenonT(30) DEF MonitorStep, ExitStart, ExitStartUnread, ExitStep, ExitCheck, ExitRow,
         ExitSend, ExitAnswer, ExitFails, ExitRecover, passOnly, world

(* The exits keep the types. *)
LEMMA MonitorTypes ==
  ASSUME NEW x \in Exits, Types, MonitorStep(x)
  PROVE  Types'
<1> USE EmergencyCloseAssumption
<1>1. UNCHANGED <<task, linked, pc, my, pos>>
  BY MonitorFrame, Zenon
<1>2. OrderType'
  <2>1. CASE ExitSend(x)
    <3>1. order[x].amt \in 0..Owned + Foreign
      BY Zenon DEF Types, OrderType, Orders
    <3>2. [st |-> "sent", amt |-> order[x].amt, fill |-> 0]
            \in [st : {"none", "sent", "open", "done", "void"},
                 amt : 0..Owned + Foreign, fill : 0..Owned + Foreign]
      BY <3>1
    <3>3. \/ order' = order
          \/ order' = [order EXCEPT ![x] =
                         [st |-> "sent", amt |-> order[x].amt, fill |-> 0]]
      BY <2>1, Zenon DEF ExitSend, Submit
    <3> QED
      BY <3>2, <3>3 DEF Types, OrderType
  <2>2. CASE ExitCheck(x)
    BY <2>2 DEF ExitCheck, Types, OrderType, PosType
  <2>3. CASE UNCHANGED order
    BY <2>3, Zenon DEF Types, OrderType
  <2> QED
    BY <2>1, <2>2, <2>3, ZenonT(30) DEF MonitorStep, ExitStart, ExitStartUnread, ExitStep,
                            ExitRow, ExitAnswer, ExitFails, ExitRecover, world
<1>3. RowType' /\ StopType'
  <2>1. ASSUME NEW status \in Rows, NEW whole, ExitMarks(x, status, whole)
        PROVE  RowType' /\ StopType'
    BY <2>1 DEF ExitMarks, Types, RowType, StopType
  <2>2. ASSUME NEW known, NEW whole
        PROVE  ExitResult(x, known, whole) \in Rows
    BY Zenon DEF ExitResult, Rows, Unresolved, Filled
  <2>3. {"failed", "submission_unknown"} \subseteq Rows
    BY Zenon DEF Rows, Unresolved, Unknown
  <2>4. CASE ExitAnswer(x)
    BY <2>1, <2>2, <2>3, <2>4, ZenonT(30) DEF ExitAnswer
  <2>5. CASE ExitRecover(x)
    BY <2>1, <2>2, <2>5, Zenon DEF ExitRecover
  <2>6. CASE ExitRow(x)
    BY <2>6, Zenon DEF ExitRow, world, Types, RowType, StopType, Rows, Unresolved, Unknown
  <2>7. CASE UNCHANGED <<row, stop>>
    BY <2>7, Zenon DEF Types, RowType, StopType
  <2> QED
    BY <2>4, <2>5, <2>6, <2>7, Zenon DEF MonitorStep, ExitStart, ExitStartUnread, ExitStep,
                                  ExitCheck, ExitSend, ExitFails, world
<1> QED
  BY <1>1, <1>2, <1>3, Zenon DEF Types, TaskType, PcType, MyType, PosType

(* Every step keeps the types. *)
LEMMA NextTypes == Types /\ [Next]_vars => Types'
<1> SUFFICES ASSUME Types, [Next]_vars PROVE Types'
  BY Zenon
<1> USE EmergencyCloseAssumption
<1>1. CASE Exchange
  BY <1>1, ExchangeTypes, Zenon
<1>2. CASE Creation
  BY <1>2, CreationTypes, Zenon
<1>3. CASE InlineEnds
  BY <1>3, Zenon DEF InlineEnds, Moves, world, db, Types, OrderType, StopType, TaskType, PcType,
              MyType, RowType, PosType
<1>4. CASE LockExpires \/ LockLost \/ UNCHANGED vars
  BY <1>4, Zenon DEF LockExpires, LockLost, vars, world, db, Types, OrderType, StopType,
              TaskType, PcType, MyType, RowType, PosType
<1>5. CASE Account \/ AccountGivesUp
  BY <1>5, ZenonT(30) DEF Account, AccountGivesUp, world, Types, OrderType, StopType, TaskType,
              PcType, MyType, RowType, PosType
<1>6. ASSUME NEW e \in Executors, ExecutorStep(e)
      PROVE  Types'
  BY <1>6, PassTypes, Zenon
<1>7. ASSUME NEW x \in Exits, MonitorStep(x)
      PROVE  Types'
  BY <1>7, MonitorTypes, Zenon
<1> QED
  BY <1>1, <1>2, <1>3, <1>4, <1>5, <1>6, <1>7, Zenon DEF Next, ExecutorStep, MonitorStep
(* The other variables. *)
Rest ==
  /\ trade \in BOOLEAN /\ hand \in BOOLEAN /\ lost \subseteq {"lock", "claim", "close"}
  /\ early \subseteq Exits /\ orphan \subseteq Exits
  /\ lock \in Executors \cup Exits \cup {NoOne, "dead"}
  /\ passes \in 0..2 /\ faults \in 0..MaxFaults
  /\ exit \in [Exits -> {"idle", "check", "row", "send", "answer", "done"}]

(* The bounds are kept by a step that leaves or counts them. *)
LEMMA BoundsKept ==
  ASSUME Rest, faults' = faults \/ Fault,
         passes' = passes \/ (passes < 2 /\ passes' = passes + 1)
  PROVE  faults' \in 0..MaxFaults /\ passes' \in 0..2
  BY EmergencyCloseAssumption DEF Rest, Fault

(* A pass keeps their types. *)
LEMMA PassRest ==
  ASSUME Rest, NEW e \in Executors, ExecutorStep(e)
  PROVE  Rest'
<1> USE EmergencyCloseAssumption
<1>1. UNCHANGED <<trade, hand, early, orphan, exit>>
  BY Zenon DEF ExecutorStep, PassStep, Claim, TakeLock, LockBusy, Link, Follow, ReadStops,
         ReadPosition, CancelStop, Intent, RoundsToZero, SetSending, Send, Answer, SetTask,
         PassRaises, Overdue, FollowNoAmount, FollowMisses, PassFails, world, db
<1>2. faults' = faults \/ Fault
  BY Zenon DEF ExecutorStep, PassStep, Claim, CanClaim, TakeLock, LockBusy, Link, Follow,
         ReadStops, ReadPosition, CancelStop, Intent, RoundsToZero, SetSending, Send, Answer,
         SetTask, PassRaises, Overdue, FollowNoAmount, FollowMisses, PassFails
<1>3. passes' = passes \/ (passes < 2 /\ passes' = passes + 1)
  BY Zenon DEF ExecutorStep, PassStep, Claim, TakeLock, LockBusy, Link, Follow,
         ReadStops, ReadPosition, CancelStop, Intent, RoundsToZero, SetSending, Send, Answer,
         SetTask, PassRaises, Overdue, FollowNoAmount, FollowMisses, PassFails
<1>4. lock' \in {lock, e, NoOne, "dead"}
  BY Zenon DEF ExecutorStep, PassStep, Claim, TakeLock, LockBusy, Link, Follow, ReadStops,
         ReadPosition, CancelStop, Intent, RoundsToZero, SetSending, Send, Answer, SetTask,
         PassRaises, Overdue, FollowNoAmount, FollowMisses, PassFails, Leaves, Unlock
<1>5. lost' \in {lost, lost \cup {"claim"}}
  BY Zenon DEF ExecutorStep, PassStep, Claim, CanClaim, TakeLock, LockBusy, Link, Follow,
         ReadStops, ReadPosition, CancelStop, Intent, RoundsToZero, SetSending, Send, Answer,
         SetTask, PassRaises, Overdue, FollowNoAmount, FollowMisses, PassFails
<1>6. faults' \in 0..MaxFaults /\ passes' \in 0..2
  BY <1>2, <1>3, BoundsKept, Zenon
<1> QED
  BY <1>1, <1>4, <1>5, <1>6, Zenon DEF Rest

(* So does an exit. *)
LEMMA MonitorRest ==
  ASSUME Rest, NEW x \in Exits, MonitorStep(x)
  PROVE  Rest'
<1> USE EmergencyCloseAssumption
<1>1. UNCHANGED <<trade, hand, lost, early, passes>>
  BY ZenonT(30) DEF MonitorStep, ExitStart, ExitStartUnread, ExitStep, ExitCheck, ExitRow,
         ExitSend, ExitAnswer, ExitFails, ExitRecover, world, passOnly
<1>2. faults' = faults \/ Fault
  BY ZenonT(30) DEF MonitorStep, ExitStart, ExitStartUnread, ExitStep, ExitCheck, ExitRow,
         ExitSend, ExitAnswer, ExitFails, ExitRecover
<1>3. lock' \in {lock, x, NoOne, "dead"}
  BY ZenonT(30) DEF MonitorStep, ExitStart, ExitStartUnread, ExitStep, ExitCheck, ExitRow,
         ExitSend, ExitAnswer, ExitFails, ExitRecover, Unlock
<1>4. orphan' \subseteq Exits
  BY ZenonT(30) DEF Rest, MonitorStep, ExitStart, ExitStartUnread, ExitStep, ExitCheck, ExitRow,
         ExitSend, ExitAnswer, ExitFails, ExitRecover
<1>5. exit' \in [Exits -> {"idle", "check", "row", "send", "answer", "done"}]
  BY ZenonT(30) DEF Rest, MonitorStep, ExitStart, ExitStartUnread, ExitStep, ExitCheck, ExitRow,
         ExitSend, ExitAnswer, ExitFails, ExitRecover, ExitMoves
<1>6. faults' \in 0..MaxFaults
  BY <1>1, <1>2, BoundsKept, Zenon
<1> QED
  BY <1>1, <1>3, <1>4, <1>5, <1>6, Zenon DEF Rest

(* And every other step. *)
LEMMA NextRest == Rest /\ [Next]_vars => Rest'
<1> SUFFICES ASSUME Rest, [Next]_vars PROVE Rest'
  BY Zenon
<1> USE EmergencyCloseAssumption
<1>1. CASE Exchange
  BY <1>1, ZenonT(30)
     DEF Exchange, Arrive, Refuse, Fill, EndOrder, StopArrives, StopFills, StopEnds,
         HandTrade, exchangeOnly, db, Rest
<1>2. CASE Creation
  <2>1. CASE Recover \/ LateFill
    BY <2>1, Building, ZenonT(30) DEF Rest, Recorded
  <2>2. CASE Creator \/ CreatorDies
    <3>1. UNCHANGED <<trade, hand, orphan, passes, exit>>
      BY <2>2, ZenonT(30) DEF Creator, CreatorDies, Start, CreateTask, CreateFails, BlindClose,
                              BlindDone, WriteTask, world, db
    <3>2. early' \in {early, Recorded}
      BY <2>2, ZenonT(30) DEF Creator, CreatorDies, Start, CreateTask, CreateFails, BlindClose,
                              BlindDone, WriteTask, db
    <3>3. lock' \in {lock, Inline, NoOne, "dead"}
      BY <2>2, ZenonT(30) DEF Creator, CreatorDies, Start, CreateTask, CreateFails, BlindClose,
                              BlindDone, Unlock
    <3>4. lost' \in {lost, lost \cup {"close"}}
      BY <2>2, ZenonT(30) DEF Creator, CreatorDies, Start, CreateTask, CreateFails, BlindClose,
                              BlindDone
    <3>5. faults' = faults \/ Fault
      BY <2>2, ZenonT(30) DEF Creator, CreatorDies, Start, CreateTask, CreateFails, BlindClose,
                              BlindDone
    <3>6. faults' \in 0..MaxFaults
      BY <3>1, <3>5, BoundsKept, Zenon
    <3> QED
      BY <3>1, <3>2, <3>3, <3>4, <3>6, Zenon DEF Rest, Recorded
  <2> QED
    BY <1>2, <2>1, <2>2, Zenon DEF Creation
<1>3. CASE InlineEnds \/ LockExpires \/ LockLost \/ Account \/ AccountGivesUp
  <2>1. UNCHANGED <<trade, hand, early, orphan, passes, exit>>
    BY <1>3, Zenon DEF InlineEnds, LockExpires, LockLost, Account, AccountGivesUp, world, db
  <2>2. lock' \in {lock, NoOne} /\ lost' \in {lost, lost \cup {"lock"}}
    BY <1>3, Zenon DEF InlineEnds, LockExpires, LockLost, Account, AccountGivesUp, Unlock
  <2>3. faults' = faults \/ Fault
    BY <1>3, Zenon DEF InlineEnds, LockExpires, LockLost, Account, AccountGivesUp
  <2>4. faults' \in 0..MaxFaults
    BY <2>1, <2>3, BoundsKept, Zenon
  <2> QED
    BY <2>1, <2>2, <2>4, Zenon DEF Rest
<1>4. ASSUME NEW e \in Executors, ExecutorStep(e)
      PROVE  Rest'
  BY <1>4, PassRest, Zenon
<1>5. ASSUME NEW x \in Exits, MonitorStep(x)
      PROVE  Rest'
  BY <1>5, MonitorRest, Zenon
<1>6. CASE UNCHANGED vars
  BY <1>6, Zenon DEF vars, world, db, Rest
<1> QED
  BY <1>1, <1>2, <1>3, <1>4, <1>5, <1>6, Zenon DEF Next, ExecutorStep, MonitorStep

(* The rest of the state starts typed. *)
LEMMA InitRest == Init => Rest
<1> SUFFICES ASSUME Init PROVE Rest
  BY Zenon
<1>1. trade \in BOOLEAN /\ hand \in BOOLEAN /\ lost \subseteq {"lock", "claim", "close"}
  BY Zenon DEF Init
<1>2. lock \in {NoOne, Inline}
  BY Zenon DEF Init
<1>3. exit \in [Exits -> {"idle", "check", "row", "send", "answer", "done"}]
  BY Zenon DEF Init
<1>4. faults \in 0..MaxFaults /\ passes = 0 /\ early = {} /\ orphan = {}
  BY Zenon DEF Init
<1> QED
  BY <1>1, <1>2, <1>3, <1>4, EmergencyCloseAssumption DEF Rest

(* emergency_close.py, orders.py, monitor.py: no step writes a status, an   *)
(* amount or a counter outside the sets of TypeOK; in particular no         *)
(* remainder becomes negative or exceeds what the position can hold.        *)
THEOREM TypeCorrect == Spec => []TypeOK
<1>1. Init => Types /\ Rest
  BY InitTypes, InitRest, Zenon
<1>2. (Types /\ Rest) /\ [Next]_vars => (Types /\ Rest)'
  BY NextTypes, NextRest, Zenon
<1>3. Types /\ Rest => TypeOK
  BY Zenon DEF Types, Rest, TypeOK, OrderType, StopType, TaskType, PcType, MyType, RowType,
         PosType
<1> QED
  BY <1>1, <1>2, <1>3, PTL DEF Spec
-----------------------------------------------------------------------------
(* One close at a time. *)
Free(o) == o.st \notin {"sent", "open", "done"}
Same(c) == row'[c] = row[c] /\ (Free(order[c]) => Free(order'[c]))

(* A step that touches neither the task nor the passes, and makes no close *)
(* of the task live, keeps the invariant.                                  *)
LEMMA CalmStep ==
  ASSUME InOrder, UNCHANGED <<task, pc, my>>,
         \A c \in Closes : Same(c) /\ (Live(c)' => Live(c)),
         1 \in Closes
  PROVE  InOrder'
<1>1. \A c \in Closes : Risky(c)' => Risky(c)
  BY Zenon DEF Risky, MaySend
<1>2. OneRisky' /\ RiskyIsUnresolved' /\ FlatIsSafe'
  BY <1>1, Zenon DEF InOrder, OneRisky, RiskyIsUnresolved, FlatIsSafe, Same
<1>3. HolderIsRight'
  BY <1>1, Zenon DEF InOrder, HolderIsRight, Decided
<1>4. BeforeTheTask'
  BY Zenon DEF InOrder, BeforeTheTask, InPass, Same, Free, Known
<1>5. Sending'
  BY DEF InOrder, Sending, Same, Free, Known
<1> QED
  BY <1>2, <1>3, <1>4, <1>5, Zenon DEF InOrder

(* Steps of the inline path outside its passes. *)
LEMMA InlineMove ==
  ASSUME Types, InOrder, UNCHANGED <<task, my, row, order>>,
         NEW there \in {"start", "create", "blind", "wait", "idle", "done"},
         Moves(Inline, there), ~InPass(Inline),
         there \in {"start", "create", "blind"} => pc[Inline] \in {"start", "create", "blind"}
  PROVE  InOrder'
<1> USE EmergencyCloseAssumption
<1>1. \A e \in Executors : pc'[e] = IF e = Inline THEN there ELSE pc[e]
  BY Zenon DEF Moves, Types, PcType
<1>2. \A c \in Closes : Risky(c)' => Risky(c)
  BY <1>1, Zenon DEF Risky, MaySend, Live
<1>3. OneRisky' /\ RiskyIsUnresolved' /\ FlatIsSafe'
  BY <1>2, Zenon DEF InOrder, OneRisky, RiskyIsUnresolved, FlatIsSafe
<1>4. HolderIsRight'
  BY <1>1, <1>2, Zenon DEF InOrder, HolderIsRight, Decided
<1>5. BeforeTheTask'
  BY <1>1, Zenon DEF InOrder, BeforeTheTask, InPass, Free, Known
<1>6. Sending'
  BY <1>1, Zenon DEF InOrder, Sending, Free, Known
<1> QED
  BY <1>3, <1>4, <1>5, <1>6, Zenon DEF InOrder

(* An executor that is not sending leaves those that are alone. *)
LEMMA SendingKept ==
  ASSUME NEW e \in Executors, Sending, UNCHANGED <<row, order>>,
         task.status # "none",
         \A f \in Executors \ {e} : pc'[f] = pc[f] /\ my'[f] = my[f],
         pc'[e] \notin {"sending", "send", "answer"}
  PROVE  Sending'
<1>1. \A c \in Closes : row'[c] = "none" /\ task'.status # "none" => Free(order'[c])
  BY Zenon DEF Sending, Free, Known
<1>2. ASSUME NEW f \in Executors
      PROVE  /\ pc'[f] \in {"sending", "send", "answer"} =>
                  my'[f].n \in Closes /\ row'[my'[f].n] # "none"
             /\ pc'[f] \in {"sending", "send"} =>
                  Free(order'[my'[f].n]) /\ row'[my'[f].n] = "pending"
             /\ pc'[f] = "answer" => my'[f].rej = 0
  <2>1. CASE f = e
    BY <2>1, Zenon
  <2>2. CASE f # e
    <3>1. pc'[f] = pc[f] /\ my'[f] = my[f]
      BY <2>2, Zenon
    <3> QED
      BY <3>1, SMTT(30) DEF Sending, Free, Known
  <2> QED
    BY <2>1, <2>2, Zenon
<1>3. ASSUME NEW f \in Executors, NEW g \in Executors, f # g,
             pc'[f] \in {"sending", "send", "answer"},
             pc'[g] \in {"sending", "send", "answer"}
      PROVE  my'[f].n # my'[g].n
  <2>1. f # e /\ g # e
    BY <1>3, Zenon
  <2> QED
    BY <1>3, <2>1, SMTT(30) DEF Sending, Free, Known
<1> QED
  BY <1>1, <1>2, <1>3, Zenon DEF Sending, Free, Known

(* Within a pass: rows follow their orders, nothing is sent. *)
LEMMA PassMove ==
  ASSUME NEW e \in Executors, InOrder, UNCHANGED <<order, task>>,
         task.status # "none",
         \A f \in Executors \ {e} : pc'[f] = pc[f] /\ my'[f] = my[f],
         pc'[e] \notin {"start", "create", "blind", "sending", "send", "answer"},
         \A c \in Closes :
           \/ row'[c] = row[c]
           \/ /\ row[c] # "none" /\ row'[c] # "none" /\ ~Free(order[c])
              /\ Live(c) => row'[c] \in Unresolved
           \/ /\ row[c] # "none" /\ row'[c] # "none"
              /\ \A f \in Executors \ {e} : pc[f] \in {"sending", "send"} => my[f].n # c
              /\ Live(c) => row'[c] \in Unresolved,
         task.claim = e /\ Decided(e)' => Decided(e) \/ \A c \in Closes : ~Risky(c)
  PROVE  InOrder'
<1> USE EmergencyCloseAssumption
<1>1. \A c \in Closes : Risky(c)' => Risky(c)
  BY Zenon DEF Risky, MaySend, Live
<1>2. OneRisky' /\ FlatIsSafe'
  BY <1>1, Zenon DEF InOrder, OneRisky, FlatIsSafe
<1>3. RiskyIsUnresolved'
  <2> SUFFICES ASSUME NEW c \in Closes, Risky(c)' PROVE row'[c] \in Unresolved
    BY Zenon DEF RiskyIsUnresolved
  <2>1. Risky(c) /\ row[c] \in Unresolved
    BY <1>1, Zenon DEF InOrder, RiskyIsUnresolved
  <2>2. ~Free(order[c]) => Live(c)
    BY <2>1, SMTT(30) DEF InOrder, Risky, MaySend, Sending, Free, Known
  <2>3. Live(c) \/ \E f \in Executors \ {e} : pc[f] \in {"sending", "send"} /\ my[f].n = c
    BY Zenon DEF Risky, MaySend, Live
  <2> QED
    BY <2>1, <2>2, <2>3, Zenon
<1>4. HolderIsRight'
  BY <1>1, Zenon DEF InOrder, HolderIsRight, Decided
<1>5. BeforeTheTask'
  BY Zenon DEF InOrder, BeforeTheTask, Free, Known
<1>6. Sending'
  <2>1. \A c \in Closes : row'[c] = "none" => row[c] = "none"
    BY ZenonT(30)
  <2>2. \A f \in Executors : pc'[f] \in {"sending", "send", "answer"} =>
          f # e /\ pc'[f] = pc[f] /\ my'[f] = my[f]
    BY ZenonT(30)
  <2>3. Sending
    BY Zenon DEF InOrder
  <2>4. \A c \in Closes : row'[c] = "none" /\ task'.status # "none" => Free(order'[c])
    BY <2>1, <2>3, ZenonT(30) DEF Sending, Free, Known
  <2>5. ASSUME NEW f \in Executors
        PROVE  /\ pc'[f] \in {"sending", "send", "answer"} =>
                    my'[f].n \in Closes /\ row'[my'[f].n] # "none"
               /\ pc'[f] \in {"sending", "send"} =>
                    Free(order'[my'[f].n]) /\ row'[my'[f].n] = "pending"
               /\ pc'[f] = "answer" => my'[f].rej = 0
    BY <2>1, <2>2, <2>3, SMTT(30) DEF Sending, Free, Known
  <2>6. \A d, f \in Executors :
          /\ d # f /\ pc'[d] \in {"sending", "send", "answer"}
          /\ pc'[f] \in {"sending", "send", "answer"}
          => my'[d].n # my'[f].n
    BY <2>2, <2>3, SMTT(30) DEF Sending, Free, Known
  <2> QED
    BY <2>4, <2>5, <2>6, ZenonT(30) DEF Sending, Free, Known
<1> QED
  BY <1>2, <1>3, <1>4, <1>5, <1>6, Zenon DEF InOrder

(* Writing the task, or not being told that it was written. *)
LEMMA WriteInv ==
  ASSUME Types, InOrder, WriteTask, UNCHANGED <<order, my>>, pc[Inline] = "create",
         NEW there \in {"start", "blind", "idle", "done"}, Moves(Inline, there)
  PROVE  InOrder'
<1> USE EmergencyCloseAssumption
<1>0. 1 \in Closes
  BY DEF Closes
<1>1. CASE task.status # "none"
  BY <1>1, InlineMove, Zenon DEF WriteTask, db, InPass
<1>2. CASE task.status = "none"
  <2>1. /\ task.claim = NoOne
        /\ \A c \in Closes : Free(order[c]) /\ row[c] = "none"
        /\ \A e \in Executors : ~InPass(e)
    BY <1>0, <1>2, ZenonT(30) DEF InOrder, BeforeTheTask, HolderIsRight, Free, Known
  <2>2. UNCHANGED row /\ task'.status \in {"runnable", "manual"} /\ task'.claim = NoOne
    BY <1>2, <2>1, Zenon DEF WriteTask, Types, TaskType
  <2>3. \A e \in Executors : ~InPass(e)'
    BY <2>1, Zenon DEF Moves, InPass, Types, PcType
  <2>4. \A c \in Closes : ~Risky(c)'
    BY <2>1, <2>3, Zenon DEF Risky, MaySend, Live, InPass, Free
  <2>5. Sending'
    BY <2>1, <2>2, <2>3, ZenonT(30) DEF Sending, InPass, Free, Known
  <2> QED
    BY <2>2, <2>4, <2>5, Zenon DEF InOrder, OneRisky, RiskyIsUnresolved, HolderIsRight,
                                   FlatIsSafe, BeforeTheTask
<1> QED
  BY <1>1, <1>2, Zenon

(* The close without the database: of a task that is not there yet, or an  *)
(* id that the exchange refuses.                                           *)
LEMMA BlindInv ==
  ASSUME Types, InOrder, Aware', BlindClose
  PROVE  InOrder'
<1> USE EmergencyCloseAssumption
<1>0. 1 \in Closes
  BY DEF Closes
<1>1. CASE Known(1)
  <2>1. UNCHANGED <<task, my, row, order>> /\ pc[Inline] = "blind" /\ Moves(Inline, "wait")
    BY <1>1, Zenon DEF BlindClose, Submit, db
  <2> QED
    BY <2>1, InlineMove, Zenon DEF InPass
<1>2. CASE ~Known(1)
  <2>1. /\ pc[Inline] = "blind" /\ task.status = "none"
        /\ \A c \in Closes : Free(order[c]) /\ row[c] = "none"
        /\ \A e \in Executors : ~InPass(e)
    BY <1>0, <1>2, ZenonT(30) DEF BlindClose, Aware, InOrder, BeforeTheTask, Free, Known
  <2>2. /\ UNCHANGED <<task, my, row>>
        /\ order'[1].st = "sent" /\ \A c \in Closes : c # 1 => order'[c] = order[c]
    BY <1>0, <1>2, Zenon DEF BlindClose, Submit, db, Types, OrderType, Orders
  <2>3. \A e \in Executors : pc'[e] = IF e = Inline THEN "wait" ELSE pc[e]
    BY Zenon DEF BlindClose, Moves, Types, PcType
  <2>4. \A e \in Executors : ~InPass(e)'
    BY <2>1, <2>3, Zenon DEF InPass
  <2>5. \A c \in Closes : Risky(c)' => c = 1
    BY <2>1, <2>2, <2>4, ZenonT(30) DEF Risky, MaySend, Live, InPass, Free
  <2>6. OneRisky' /\ RiskyIsUnresolved' /\ FlatIsSafe'
    BY <2>1, <2>2, <2>5, Zenon DEF OneRisky, RiskyIsUnresolved, FlatIsSafe
  <2>7. HolderIsRight'
    BY <2>1, <2>2, Zenon DEF InOrder, HolderIsRight
  <2>8. BeforeTheTask'
    BY <2>1, <2>2, <2>3, <2>4, ZenonT(30) DEF BeforeTheTask, Free, Known
  <2>9. Sending'
    BY <2>1, <2>2, <2>4, ZenonT(30) DEF Sending, InPass
  <2> QED
    BY <2>6, <2>7, <2>8, <2>9, Zenon DEF InOrder
<1> QED
  BY <1>1, <1>2, Zenon

(* A task built after the fact owns the close that is out. *)
LEMMA BuildInv ==
  ASSUME Types, InOrder, Aware', Recover \/ LateFill
  PROVE  InOrder'
<1> USE EmergencyCloseAssumption
<1>0. 1 \in Closes
  BY DEF Closes
<1>1. /\ task.claim = NoOne
      /\ \A c \in Closes : row[c] = "none" /\ (c # 1 => Free(order[c]))
      /\ \A e \in Executors : ~InPass(e)
  BY Building, ZenonT(30) DEF InOrder, BeforeTheTask, HolderIsRight, Free, Known
<1>2. /\ UNCHANGED <<order, my, pc>>
      /\ task'.status = "runnable" /\ task'.claim = NoOne
  BY <1>1, Building, Zenon DEF Types, TaskType
<1>3. /\ \A c \in Closes : c # 1 => row'[c] = row[c]
      /\ row'[1] = "none" => Free(order[1])
      /\ Live(1) => row'[1] \in Unresolved
  <2>1. CASE Listed(1) /\ \E s \in Adopted(1) : row' = [row EXCEPT ![1] = s]
    BY <1>0, <2>1, AdoptedRow, ZenonT(30) DEF Unresolved, Types, RowType, Orders
  <2>2. CASE row' = row /\ lost' = IF Known(1) THEN lost \cup {"close"} ELSE lost
    BY <2>2, Zenon DEF Aware, Known, Free, Live
  <2> QED
    BY <2>1, <2>2, Building, Zenon
<1>4. \A c \in Closes : Risky(c)' => c = 1 /\ Live(1)
  BY <1>1, <1>2, ZenonT(30) DEF Risky, MaySend, Live, InPass, Free
<1>5. OneRisky' /\ RiskyIsUnresolved' /\ FlatIsSafe' /\ HolderIsRight'
  BY <1>2, <1>3, <1>4, Zenon DEF OneRisky, RiskyIsUnresolved, FlatIsSafe, HolderIsRight
<1>6. BeforeTheTask'
  BY <1>2, Zenon DEF BeforeTheTask
<1>7. Sending'
  BY <1>1, <1>2, <1>3, ZenonT(30) DEF Sending, InPass, Free, Known
<1> QED
  BY <1>5, <1>6, <1>7, Zenon DEF InOrder

(* Writing the task keeps the invariant. *)
LEMMA CreationInv ==
  ASSUME Types, InOrder, Aware', Creation
  PROVE  InOrder'
<1>1. CASE Start \/ BlindDone \/ CreatorDies
  BY <1>1, InlineMove, ZenonT(30) DEF Start, BlindDone, CreatorDies, world, db, InPass
<1>2. CASE CreateTask \/ CreateFails
  <2>1. UNCHANGED <<order, my>> /\ pc[Inline] = "create"
    BY <1>2, Zenon DEF CreateTask, CreateFails, world
  <2>2. PICK there \in {"start", "blind", "idle", "done"} : Moves(Inline, there)
    BY <1>2, ZenonT(30) DEF CreateTask, CreateFails
  <2>3. CASE WriteTask
    BY <2>1, <2>2, <2>3, WriteInv, Zenon
  <2>4. CASE UNCHANGED db
    BY <2>1, <2>2, <2>4, InlineMove, Zenon DEF db, InPass
  <2> QED
    BY <1>2, <2>3, <2>4, Zenon DEF CreateTask, CreateFails
<1> QED
  BY <1>1, <1>2, BlindInv, BuildInv, Zenon DEF Creation, Creator

(* The other executors do not move. *)
LEMMA OthersStay ==
  ASSUME NEW e \in Executors, Types, ExecutorStep(e)
  PROVE  \A f \in Executors \ {e} : pc'[f] = pc[f] /\ my'[f] = my[f]
<1>1. \A f \in Executors \ {e} : pc'[f] = pc[f]
  <2>1. \E there : Moves(e, there)
    BY ZenonT(30) DEF ExecutorStep, PassStep, Claim, TakeLock, LockBusy, Link, Follow, ReadStops,
           ReadPosition, CancelStop, Intent, RoundsToZero, SetSending, Send, Answer, SetTask,
           PassRaises, Overdue, FollowNoAmount, FollowMisses, PassFails, Ends, Leaves, Raises
  <2> QED
    BY <2>1, Zenon DEF Moves, Types, PcType
<1>2. \A f \in Executors \ {e} : my'[f] = my[f]
  <2>1. my' = my \/ \E new : my' = [my EXCEPT ![e] = new]
    BY ZenonT(30) DEF ExecutorStep, PassStep, Claim, TakeLock, LockBusy, Link, Follow, ReadStops,
           ReadPosition, CancelStop, Intent, RoundsToZero, SetSending, Send, Answer, SetTask,
           PassRaises, Overdue, FollowNoAmount, FollowMisses, PassFails, Ends, Leaves, Raises
  <2> QED
    BY <2>1, Zenon DEF Types, MyType
<1> QED
  BY <1>1, <1>2, Zenon

(* Steps of a pass that neither look at the closes nor send. *)
LEMMA PlainPassInv ==
  ASSUME NEW e \in Executors, Types, InOrder, ExecutorStep(e),
         \/ TakeLock(e) \/ LockBusy(e) \/ Link(e) \/ ReadStops(e) \/ ReadPosition(e)
         \/ CancelStop(e) \/ RoundsToZero(e) \/ PassRaises(e) \/ PassFails(e) \/ FollowMisses(e)
  PROVE  InOrder'
<1>0. \A f \in Executors \ {e} : pc'[f] = pc[f] /\ my'[f] = my[f]
  BY OthersStay, ZenonT(30)
<1>1. UNCHANGED <<order, task, row>>
  BY Zenon DEF TakeLock, LockBusy, Link, ReadStops, ReadPosition, CancelStop, RoundsToZero,
         PassRaises, PassFails, FollowMisses, world, db
<1>2. InPass(e)
  BY Zenon DEF TakeLock, LockBusy, Link, ReadStops, ReadPosition, CancelStop, RoundsToZero,
         PassRaises, PassFails, FollowMisses, InPass
<1>3. task.status # "none"
  BY <1>2, ZenonT(30) DEF InOrder, BeforeTheTask, Free, Known
<1>4. pc'[e] \notin {"start", "create", "blind", "sending", "send", "answer"}
  BY Zenon DEF TakeLock, LockBusy, Link, ReadStops, ReadPosition, CancelStop, RoundsToZero,
         PassRaises, PassFails, FollowMisses, Moves, Ends, Raises, Types, PcType
<1>5. Decided(e)' => Decided(e)
  <2>1. CASE ReadStops(e) \/ ReadPosition(e)
    BY <2>1, ZenonT(30) DEF ReadStops, ReadPosition, Decided
  <2>2. CASE TakeLock(e) \/ LockBusy(e) \/ Link(e) \/ CancelStop(e) \/ RoundsToZero(e)
              \/ FollowMisses(e)
    BY <2>2, SMTT(30) DEF TakeLock, LockBusy, Link, CancelStop, RoundsToZero, FollowMisses,
                Ends, Note, Moves, Decided, Types, PcType, MyType
  <2>3. CASE PassRaises(e) \/ PassFails(e)
    BY <2>3, Zenon DEF PassRaises, PassFails, Raises, Moves, Decided, Types, PcType
  <2> QED
    BY <2>1, <2>2, <2>3, Zenon
<1> QED
  BY <1>0, <1>1, <1>3, <1>4, <1>5, PassMove, Zenon

(* Rows that were followed are resolved only when their order is dead. *)
LEMMA FollowedRows ==
  ASSUME Types, InOrder, task.status # "none", NEW c \in Closes,
         row' = Followed({o \in Owns : Listed(o)})
  PROVE  /\ \/ row'[c] = row[c]
            \/ /\ row[c] # "none" /\ row'[c] # "none" /\ ~Free(order[c])
               /\ Live(c) => row'[c] \in Unresolved
         /\ row'[c] \notin Unresolved => ~Risky(c)
<1>1. c \in Orders
  BY Zenon DEF Orders
<1>2. row'[c] = row[c] \/ (Listed(c) /\ row[c] \in Unresolved /\ row'[c] = StateOf(c))
  BY <1>1, Zenon DEF Followed, Types, RowType
<1>3. \/ row'[c] = row[c]
      \/ /\ row[c] # "none" /\ row'[c] # "none" /\ ~Free(order[c])
         /\ Live(c) => row'[c] \in Unresolved
  BY <1>2, Zenon DEF StateOf, Listed, Live, Unresolved, Unknown, Free
<1>4. Risky(c) => row[c] \in Unresolved /\ (~Free(order[c]) => Live(c))
  BY Zenon DEF InOrder, RiskyIsUnresolved, Risky, MaySend, Sending, Free, Known
<1> QED
  BY <1>3, <1>4, Zenon

(* A pass that looks at its closes; one that goes on knows that none is    *)
(* risky.                                                                  *)
LEMMA FollowInv ==
  ASSUME NEW e \in Executors, Types, InOrder, ExecutorStep(e), Follow(e) \/ Overdue(e)
  PROVE  InOrder'
<1>0. \A f \in Executors \ {e} : pc'[f] = pc[f] /\ my'[f] = my[f]
  BY OthersStay, Zenon
<1>1. task.status # "none"
  BY Zenon DEF Follow, Overdue, InOrder, BeforeTheTask, InPass, Free, Known
<1>2. /\ UNCHANGED <<order, task>> /\ row' = Followed({o \in Owns : Listed(o)})
      /\ pc'[e] \in {"set", "stops"}
  BY Zenon DEF Follow, Overdue, world, Ends, Moves, Types, PcType
<1>3. pc'[e] = "set" => my'[e].goal # "flat"
  BY DEF Follow, Overdue, Ends, Note, Moves, Types, PcType, MyType
<1>4. ASSUME pc'[e] = "stops", NEW c \in Closes
      PROVE  ~Risky(c)
  <2>1. Deciding(row') = {}
    BY <1>4, Zenon DEF Follow, Overdue, Ends, Moves, Types, PcType
  <2>2. row'[c] \in Unresolved => c \in Deciding(row')
    BY <1>1, <1>2, FollowedRows, Zenon DEF Deciding, Owns, Unresolved, Unknown
  <2> QED
    BY <1>1, <1>2, <2>1, <2>2, FollowedRows, Zenon
<1>5. Decided(e)' => \A c \in Closes : ~Risky(c)
  BY <1>2, <1>3, <1>4, Zenon DEF Decided
<1> QED
  BY <1>0, <1>1, <1>2, <1>5, FollowedRows, PassMove, Zenon

(* A terminal order without its amount: an operator is asked for. *)
LEMMA NoAmountInv ==
  ASSUME NEW e \in Executors, Types, InOrder, ExecutorStep(e), FollowNoAmount(e)
  PROVE  InOrder'
<1>0. \A f \in Executors \ {e} : pc'[f] = pc[f] /\ my'[f] = my[f]
  BY OthersStay, Zenon
<1>1. task.status # "none"
  BY Zenon DEF FollowNoAmount, InOrder, BeforeTheTask, InPass, Free, Known
<1>2. UNCHANGED <<order, task>> /\ pc'[e] = "set" /\ my'[e].goal = "manual"
  BY Zenon DEF FollowNoAmount, world, Ends, Note, Moves, Types, PcType, MyType
<1>3. \A c \in Closes :
        \/ row'[c] = row[c]
        \/ /\ row[c] # "none" /\ row'[c] # "none" /\ ~Free(order[c]) /\ ~Live(c)
  <2>1. PICK o \in Owns : /\ row[o] \in Unresolved /\ order[o].st = "done"
                          /\ row' = [row EXCEPT ![o] = "manual_required"]
    BY ZenonT(30) DEF FollowNoAmount
  <2>2. row[o] # "none" /\ ~Free(order[o]) /\ ~Live(o)
    BY <2>1, Zenon DEF Unresolved, Unknown, Live, Free
  <2> QED
    BY <2>1, <2>2, Zenon DEF Types, RowType, Orders
<1> QED
  BY <1>0, <1>1, <1>2, <1>3, PassMove, Zenon DEF Decided

(* The answer to a send: the row of the close is unresolved, or its order  *)
(* cannot fill any more.                                                   *)
LEMMA AnswerInv ==
  ASSUME NEW e \in Executors, Types, InOrder, ExecutorStep(e), Answer(e)
  PROVE  InOrder'
<1>0. \A f \in Executors \ {e} : pc'[f] = pc[f] /\ my'[f] = my[f]
  BY OthersStay, Zenon
<1>1. task.status # "none"
  BY ZenonT(30) DEF Answer, InOrder, BeforeTheTask, InPass, Free, Known
<1>2. /\ UNCHANGED <<order, task>> /\ pc'[e] = "set"
      /\ my'[e].goal # "flat"
  <2>1. \E goal \in {"runnable", "manual"}, rej \in {0, 1} :
          my' = [my EXCEPT ![e] = Note(0, 0, goal, rej)]
    BY ZenonT(30) DEF Answer, Ends
  <2>2. my'[e].goal # "flat"
    BY <2>1, SMTT(30) DEF Note, Types, MyType
  <2>3. pc'[e] = "set"
    BY ZenonT(30) DEF Answer, Ends, Moves, Types, PcType
  <2> QED
    BY <2>2, <2>3, ZenonT(30) DEF Answer, world
<1>3. my[e].n \in Closes /\ row[my[e].n] # "none" /\ my[e].rej = 0
  BY Zenon DEF Answer, InOrder, Sending, Free, Known
<1>4. \A f \in Executors \ {e} : pc[f] \in {"sending", "send"} => my[f].n # my[e].n
  BY ZenonT(30) DEF Answer, InOrder, Sending, Free, Known
<1>5. \A c \in Closes : c # my[e].n => row'[c] = row[c]
  BY Zenon DEF Answer, Types, RowType, Orders
<1>6. /\ row'[my[e].n] # "none"
      /\ Live(my[e].n) => row'[my[e].n] \in Unresolved
  <2>1. PICK a \in Rows \ {"none"} :
          /\ row' = [row EXCEPT ![my[e].n] = a]
          /\ \/ a \in Unresolved
             \/ order[my[e].n].st \in {"done", "void"}
    BY <1>3, SMTT(20), Zenon DEF Answer, Accepted, Rows, Filled, Unresolved, Unknown
  <2>2. row'[my[e].n] = a
    BY <1>3, <2>1, Zenon DEF Types, RowType, Orders
  <2> QED
    BY <2>1, <2>2, Zenon DEF Live
<1>7. ~Decided(e)'
  BY <1>2, Zenon DEF Decided
<1>8. \A c \in Closes :
        \/ row'[c] = row[c]
        \/ /\ row[c] # "none" /\ row'[c] # "none"
           /\ \A f \in Executors \ {e} : pc[f] \in {"sending", "send"} => my[f].n # c
           /\ Live(c) => row'[c] \in Unresolved
  BY <1>3, <1>4, <1>5, <1>6, Zenon
<1> QED
  BY <1>0, <1>1, <1>2, <1>7, <1>8, PassMove, ZenonT(30)

(* Taking the claim disarms whoever was about to check it. *)
LEMMA ClaimInv ==
  ASSUME NEW e \in Executors, Types, InOrder, ExecutorStep(e), Claim(e)
  PROVE  InOrder'
<1> USE EmergencyCloseAssumption
<1>0. \A f \in Executors \ {e} : pc'[f] = pc[f] /\ my'[f] = my[f]
  BY OthersStay, Zenon
<1>1. /\ UNCHANGED <<order, row, my>> /\ pc'[e] \in {"link", "lock"}
      /\ task.status = "runnable"
  BY Zenon DEF Claim, world, Moves, Types, PcType
<1>2. task'.status = task.status /\ task'.claim = e
  BY Zenon DEF Claim, Types, TaskType
<1>3. \A c \in Closes : Risky(c)' => Risky(c)
  BY <1>0, <1>1, <1>2, Zenon DEF Risky, MaySend, Live
<1>4. OneRisky' /\ RiskyIsUnresolved' /\ FlatIsSafe'
  BY <1>1, <1>2, <1>3, Zenon DEF InOrder, OneRisky, RiskyIsUnresolved, FlatIsSafe
<1>5. HolderIsRight'
  BY <1>1, <1>2, Zenon DEF HolderIsRight, Decided
<1>6. BeforeTheTask'
  BY <1>0, <1>1, <1>2, Zenon DEF InOrder, BeforeTheTask, Free, Known
<1>7. Sending'
  BY <1>0, <1>1, <1>2, SendingKept, Zenon DEF InOrder
<1> QED
  BY <1>4, <1>5, <1>6, <1>7, Zenon DEF InOrder

(* The row of a close is written before the claim is checked. *)
LEMMA IntentInv ==
  ASSUME NEW e \in Executors, Types, InOrder, ExecutorStep(e), Intent(e)
  PROVE  InOrder'
<1> USE EmergencyCloseAssumption
<1> DEFINE n == my[e].n
<1>0. \A f \in Executors \ {e} : pc'[f] = pc[f] /\ my'[f] = my[f]
  BY OthersStay, Zenon
<1>1. /\ UNCHANGED <<order, task, my>> /\ pc[e] = "intent" /\ pc'[e] = "sending"
      /\ n \in Closes /\ row[n] = "none"
  BY Zenon DEF Intent, world, Moves, Types, PcType
<1>2. task.status # "none" /\ Free(order[n])
  BY <1>1, Zenon DEF InOrder, BeforeTheTask, InPass, Sending, Free, Known
<1>3. \A c \in Closes : row'[c] = IF c = n THEN "pending" ELSE row[c]
  BY <1>1, ZenonT(30) DEF Intent, Types, RowType, Orders
<1>4. \A c \in Closes : Risky(c)' => Risky(c) \/ (c = n /\ task.claim = e)
  BY <1>0, <1>1, ZenonT(30) DEF Risky, MaySend, Live
<1>5. task.claim = e => task.status = "runnable" /\ \A c \in Closes : ~Risky(c)
  BY <1>1, Zenon DEF InOrder, HolderIsRight, Decided
<1>6. OneRisky' /\ FlatIsSafe'
  BY <1>1, <1>4, <1>5, Zenon DEF InOrder, OneRisky, FlatIsSafe
<1>7. RiskyIsUnresolved'
  BY <1>1, <1>3, <1>4, Zenon DEF InOrder, RiskyIsUnresolved, Unresolved, Unknown
<1>8. HolderIsRight'
  BY <1>0, <1>1, <1>4, Zenon DEF InOrder, HolderIsRight, Decided
<1>9. BeforeTheTask'
  BY <1>0, <1>1, <1>2, Zenon DEF InOrder, BeforeTheTask, Free, Known
<1>10. Sending'
  <2>1. \A f \in Executors \ {e} :
          pc[f] \in {"sending", "send", "answer"} => my[f].n # n
    BY <1>1, ZenonT(30) DEF InOrder, Sending, Free, Known
  <2> QED
    <3>1. \A c \in Closes : row'[c] = "none" => row[c] = "none"
      BY <1>3, Zenon
    <3>2. \A c \in Closes : row'[c] = "none" /\ task'.status # "none" => Free(order'[c])
      BY <1>1, <3>1, Zenon DEF InOrder, Sending, Free, Known
    <3>3. ASSUME NEW f \in Executors
          PROVE  /\ pc'[f] \in {"sending", "send", "answer"} =>
                      my'[f].n \in Closes /\ row'[my'[f].n] # "none"
                 /\ pc'[f] \in {"sending", "send"} =>
                      Free(order'[my'[f].n]) /\ row'[my'[f].n] = "pending"
                 /\ pc'[f] = "answer" => my'[f].rej = 0
      <4>1. CASE f = e
        BY <4>1, <1>1, <1>2, <1>3, ZenonT(30)
      <4>2. CASE f # e
        <5>1. pc'[f] = pc[f] /\ my'[f] = my[f] /\ order' = order
          BY <4>2, <1>0, <1>1, Zenon
        <5> QED
          BY <5>1, <1>3, SMTT(30) DEF InOrder, Sending, Free, Known
      <4> QED
        BY <4>1, <4>2, Zenon
    <3>4. ASSUME NEW f \in Executors, NEW g \in Executors, f # g,
                 pc'[f] \in {"sending", "send", "answer"},
                 pc'[g] \in {"sending", "send", "answer"}
          PROVE  my'[f].n # my'[g].n
      <4>1. f # e /\ g # e => my[f].n # my[g].n
        BY <1>0, <3>4, Zenon DEF InOrder, Sending, Free, Known
      <4> QED
        BY <1>0, <1>1, <2>1, <3>4, <4>1, Zenon
    <3> QED
      BY <3>2, <3>3, <3>4, Zenon DEF Sending, Free, Known
<1> QED
  BY <1>6, <1>7, <1>8, <1>9, <1>10, Zenon DEF InOrder

(* The claim is checked and the close goes out. *)
LEMMA SendInv ==
  ASSUME NEW e \in Executors, Types, InOrder, ExecutorStep(e), SetSending(e) \/ Send(e)
  PROVE  InOrder'
<1> USE EmergencyCloseAssumption
<1> DEFINE n == my[e].n
<1>0. \A f \in Executors \ {e} : pc'[f] = pc[f] /\ my'[f] = my[f]
  BY OthersStay, Zenon
<1>1. /\ UNCHANGED <<row, task>> /\ MaySend(e, n)
      /\ pc[e] \in {"sending", "send"} /\ pc'[e] \in {"send", "answer"}
  BY Zenon DEF SetSending, Send, MaySend, db, Moves, Types, PcType
<1>2. /\ task.status # "none" /\ n \in Closes /\ row[n] = "pending"
      /\ Free(order[n])
  BY <1>1, Zenon DEF InOrder, BeforeTheTask, InPass, Sending, Free, Known
<1>3. /\ my'[e].n = n
      /\ pc'[e] = "send" => pc[e] = "sending" /\ order' = order
      /\ pc'[e] = "answer" => my'[e].rej = 0
  BY <1>2, SMTT(30) DEF SetSending, Send, world, Moves, Types, PcType, MyType, Free, Known
<1>4. \A c \in Closes : c # n => order'[c] = order[c]
  BY Zenon DEF SetSending, Send, Submit, world, Types, OrderType, Orders
<1>5. \A f \in Executors \ {e} :
        pc[f] \in {"sending", "send", "answer"} => my[f].n # n
  BY <1>1, ZenonT(30) DEF InOrder, Sending, Free, Known
<1>6. \A c \in Closes : Risky(c)' => Risky(c)
  BY <1>0, <1>1, <1>2, <1>3, <1>4, SMTT(30) DEF Risky, MaySend, Live
<1>7. OneRisky' /\ RiskyIsUnresolved' /\ FlatIsSafe'
  BY <1>1, <1>6, Zenon DEF InOrder, OneRisky, RiskyIsUnresolved, FlatIsSafe
<1>8. HolderIsRight'
  BY <1>0, <1>1, <1>6, Zenon DEF InOrder, HolderIsRight, Decided
<1>9. BeforeTheTask'
  BY <1>0, <1>1, <1>2, Zenon DEF InOrder, BeforeTheTask, Free, Known
<1>10. Sending'
  <2>2. \A c \in Closes : row'[c] = "none" /\ task'.status # "none" => Free(order'[c])
    BY <1>1, <1>2, <1>4, Zenon DEF InOrder, Sending, Free, Known
  <2>3. ASSUME NEW f \in Executors
        PROVE  /\ pc'[f] \in {"sending", "send", "answer"} =>
                    my'[f].n \in Closes /\ row'[my'[f].n] # "none"
               /\ pc'[f] \in {"sending", "send"} =>
                    Free(order'[my'[f].n]) /\ row'[my'[f].n] = "pending"
               /\ pc'[f] = "answer" => my'[f].rej = 0
    <3>1. CASE f = e
      BY <3>1, <1>1, <1>2, <1>3, ZenonT(30)
    <3>2. CASE f # e
      <4>1. /\ pc[f] \in {"sending", "send", "answer"} =>
                 my[f].n \in Closes /\ row[my[f].n] # "none" /\ my[f].n # n
            /\ pc[f] \in {"sending", "send"} =>
                 Free(order[my[f].n]) /\ row[my[f].n] = "pending"
            /\ pc[f] = "answer" => my[f].rej = 0
        BY <3>2, <1>5, Zenon DEF InOrder, Sending, Free, Known
      <4> QED
        BY <1>0, <1>1, <1>4, <3>2, <4>1, Zenon
    <3> QED
      BY <3>1, <3>2, ZenonT(30)
  <2>4. ASSUME NEW f \in Executors, NEW g \in Executors, f # g,
               pc'[f] \in {"sending", "send", "answer"},
               pc'[g] \in {"sending", "send", "answer"}
        PROVE  my'[f].n # my'[g].n
    <3>1. f # e /\ g # e => my[f].n # my[g].n
      BY <1>0, <2>4, ZenonT(30) DEF InOrder, Sending, Free, Known
    <3> QED
      BY <1>0, <1>3, <1>5, <2>4, <3>1, Zenon
  <2> QED
    BY <2>2, <2>3, <2>4, Zenon DEF Sending, Free, Known
<1> QED
  BY <1>7, <1>8, <1>9, <1>10, Zenon DEF InOrder

(* The pass ends: only the holder of the claim can call the task flat. *)
LEMMA SetTaskInv ==
  ASSUME NEW e \in Executors, Types, InOrder, ExecutorStep(e), SetTask(e)
  PROVE  InOrder'
<1> USE EmergencyCloseAssumption
<1>0. \A f \in Executors \ {e} : pc'[f] = pc[f] /\ my'[f] = my[f]
  BY OthersStay, Zenon
<1>1. /\ UNCHANGED <<row, order>> /\ pc[e] = "set" /\ pc'[e] = "idle" /\ task.claim = e
      /\ task'.status = my[e].goal /\ task'.claim = NoOne
  BY Zenon DEF SetTask, Leaves, world, Moves, Types, PcType
<1>2. task.status = "runnable" /\ task'.status \in {"runnable", "manual", "flat"}
  BY <1>1, Zenon DEF InOrder, HolderIsRight, Types, MyType
<1>3. \A c \in Closes : Risky(c)' => Risky(c)
  <2>1. \A f \in Executors, c \in Closes : MaySend(f, c)' => MaySend(f, c)
    BY <1>0, <1>1, Zenon DEF MaySend
  <2> QED
    BY <1>1, <2>1, Zenon DEF Risky, Live
<1>4. OneRisky' /\ RiskyIsUnresolved'
  BY <1>1, <1>2, <1>3, Zenon DEF InOrder, OneRisky, RiskyIsUnresolved
<1>5. FlatIsSafe' /\ HolderIsRight'
  BY <1>1, <1>2, <1>3, Zenon DEF InOrder, FlatIsSafe, HolderIsRight, Decided
<1>6. BeforeTheTask'
  BY <1>0, <1>1, <1>2, Zenon DEF InOrder, BeforeTheTask, Free, Known
<1>7. Sending'
  BY <1>0, <1>1, <1>2, SendingKept, Zenon DEF InOrder
<1> QED
  BY <1>4, <1>5, <1>6, <1>7, Zenon DEF InOrder

(* Every step of an executor keeps the invariant. *)
LEMMA ExecutorInv ==
  ASSUME NEW e \in Executors, Types, InOrder, ExecutorStep(e)
  PROVE  InOrder'
  BY PlainPassInv, FollowInv, NoAmountInv, AnswerInv, ClaimInv, IntentInv, SendInv,
     SetTaskInv, ZenonT(30) DEF ExecutorStep, PassStep

(* No close is out and nobody is in a pass. *)
LEMMA InitInv == Init => InOrder
<1> SUFFICES ASSUME Init PROVE InOrder
  BY Zenon
<1> USE EmergencyCloseAssumption
<1>1. /\ task.status = "none" /\ task.claim = NoOne
      /\ \A o \in Orders : Free(order[o]) /\ row[o] = "none"
      /\ \A e \in Executors : pc[e] \in {"idle", "start", "create"}
  BY ZenonT(30) DEF Init, Free
<1>2. 1 \in Closes /\ Closes \subseteq Orders
  BY DEF Closes, Orders
<1>3. \A c \in Closes : ~Risky(c)
  BY <1>1, <1>2, Zenon DEF Risky, MaySend, Live, Free
<1>4. OneRisky /\ RiskyIsUnresolved /\ HolderIsRight /\ FlatIsSafe
  BY <1>1, <1>3, Zenon DEF OneRisky, RiskyIsUnresolved, HolderIsRight, FlatIsSafe
<1>5. BeforeTheTask /\ Sending
  BY <1>1, <1>2, Zenon DEF BeforeTheTask, Sending, InPass, Free, Known
<1> QED
  BY <1>4, <1>5, Zenon DEF InOrder

(* What the exchange does to the closes of the task: an order that was not *)
(* sent stays unsent, and none comes to life.                              *)
LEMMA ExchangeOrders ==
  ASSUME Types, Exchange, NEW c \in Closes
  PROVE  (Free(order[c]) => Free(order'[c])) /\ (Live(c)' => Live(c))
<1>1. c \in Orders
  BY Zenon DEF Orders
<1>2. ASSUME NEW o \in Orders, Arrive(o) \/ Refuse(o) \/ EndOrder(o)
      PROVE  (Free(order[c]) => Free(order'[c])) /\ (Live(c)' => Live(c))
  BY <1>1, <1>2, ZenonT(30) DEF Arrive, Refuse, EndOrder, Live, Types, OrderType, Free
<1>3. ASSUME NEW o \in Orders, Fill(o)
      PROVE  (Free(order[c]) => Free(order'[c])) /\ (Live(c)' => Live(c))
  <2>1. order[o].st = "open" /\ (c # o => order'[c] = order[c])
    BY <1>1, <1>3, Zenon DEF Fill, Types, OrderType
  <2>2. ~Free(order[o]) /\ (c = o => Live(c))
    BY <2>1, Zenon DEF Live, Free
  <2> QED
    BY <2>1, <2>2, Zenon DEF Live
<1>4. CASE UNCHANGED order
  BY <1>4, Zenon DEF Live
<1> QED
  BY <1>2, <1>3, <1>4, Zenon DEF Exchange, StopArrives, StopFills, StopEnds, HandTrade

(* An exit touches its own order and row only. *)
LEMMA MonitorOrders ==
  ASSUME Types, NEW x \in Exits, MonitorStep(x), NEW c \in Closes
  PROVE  order'[c] = order[c] /\ row'[c] = row[c]
<1>1. c \in Orders /\ x \in Orders /\ c # x
  BY EmergencyCloseAssumption, Zenon DEF Orders
<1>2. order'[c] = order[c]
  BY <1>1, ZenonT(30) DEF MonitorStep, ExitStart, ExitStartUnread, ExitStep, ExitCheck, ExitRow,
         ExitSend, Submit, ExitAnswer, ExitFails, ExitRecover, world, Types, OrderType
<1>3. ASSUME NEW status, NEW whole, ExitMarks(x, status, whole)
      PROVE  row'[c] = row[c]
  BY <1>1, <1>3, Zenon DEF ExitMarks, Types, RowType
<1>4. row'[c] = row[c]
  BY <1>1, <1>3, ZenonT(30)
     DEF MonitorStep, ExitStart, ExitStartUnread, ExitStep, ExitCheck, ExitRow,
         ExitSend, ExitAnswer, ExitFails, ExitRecover, world, Types, RowType
<1> QED
  BY <1>2, <1>4, Zenon

(* Accounting changes the verdict of a flat task only. *)
LEMMA AccountInv ==
  ASSUME Types, InOrder, Account \/ AccountGivesUp
  PROVE  InOrder'
<1> USE EmergencyCloseAssumption
<1>1. /\ UNCHANGED <<order, row, my, pc>> /\ task.status = "flat"
  BY Zenon DEF Account, AccountGivesUp, world
<1>2. task'.status \in {"accounted", "manual"} /\ task'.claim = task.claim
  BY Zenon DEF Account, AccountGivesUp, Types, TaskType
<1>3. task.claim = NoOne
  BY <1>1, Zenon DEF InOrder, HolderIsRight
<1>4. \A c \in Closes : ~Risky(c)'
  BY <1>1, <1>2, Zenon DEF InOrder, FlatIsSafe, Risky, MaySend, Live
<1>5. OneRisky' /\ RiskyIsUnresolved' /\ FlatIsSafe' /\ HolderIsRight'
  BY <1>2, <1>3, <1>4, ZenonT(30) DEF OneRisky, RiskyIsUnresolved, FlatIsSafe, HolderIsRight
<1>6. BeforeTheTask' /\ Sending'
  BY <1>1, <1>2, Zenon DEF InOrder, BeforeTheTask, Sending, Free, Known
<1> QED
  BY <1>5, <1>6, Zenon DEF InOrder

(* Every step keeps the invariant, if no close is out of the task's sight. *)
LEMMA NextInv ==
  ASSUME Types, InOrder, Aware', [Next]_vars
  PROVE  InOrder'
<1> USE EmergencyCloseAssumption
<1>0. 1 \in Closes
  BY SMTT(30) DEF Closes
<1>1. CASE Exchange
  <2>1. UNCHANGED <<task, pc, my, row>>
    BY <1>1, Zenon DEF Exchange, Arrive, Refuse, Fill, EndOrder, StopArrives, StopFills, StopEnds,
                HandTrade, exchangeOnly, db
  <2> QED
    BY <1>0, <1>1, <2>1, ExchangeOrders, CalmStep, Zenon DEF Same
<1>2. CASE Creation
  BY <1>2, CreationInv, Zenon
<1>3. CASE InlineEnds
  BY <1>3, InlineMove, Zenon DEF InlineEnds, world, db, InPass
<1>4. CASE LockExpires \/ LockLost \/ UNCHANGED vars
  <2>1. UNCHANGED <<task, pc, my, row, order>>
    BY <1>4, Zenon DEF LockExpires, LockLost, vars, world, db
  <2> QED
    BY <1>0, <2>1, CalmStep, Zenon DEF Same, Live
<1>5. CASE Account \/ AccountGivesUp
  BY <1>5, AccountInv, Zenon
<1>6. ASSUME NEW e \in Executors, ExecutorStep(e)
      PROVE  InOrder'
  BY <1>6, ExecutorInv, Zenon
<1>7. ASSUME NEW x \in Exits, MonitorStep(x)
      PROVE  InOrder'
  <2>1. UNCHANGED <<task, pc, my>>
    BY <1>7, MonitorFrame, Zenon
  <2> QED
    BY <1>0, <1>7, <2>1, MonitorOrders, CalmStep, Zenon DEF Same, Live
<1> QED
  BY <1>1, <1>2, <1>3, <1>4, <1>5, <1>6, <1>7, Zenon DEF Next, ExecutorStep, MonitorStep

(* What was lost stays lost. *)
LEMMA LostStays == [Next]_vars => lost \subseteq lost'
<1> SUFFICES ASSUME [Next]_vars PROVE lost \subseteq lost'
  BY Zenon
<1>1. CASE Exchange
  BY <1>1, ZenonT(30) DEF Exchange, Arrive, Refuse, Fill, EndOrder, StopArrives, StopFills,
         StopEnds, HandTrade, exchangeOnly
<1>2. CASE Creator \/ CreatorDies
  BY <1>2, ZenonT(30) DEF Creator, CreatorDies, Start, CreateTask, CreateFails, BlindClose,
         BlindDone
<1>3. CASE Recover \/ LateFill
  BY <1>3, Building, Zenon
<1>4. CASE InlineEnds \/ LockExpires \/ LockLost \/ Account \/ AccountGivesUp \/ UNCHANGED vars
  BY <1>4, ZenonT(30) DEF InlineEnds, LockExpires, LockLost, Account, AccountGivesUp, vars
<1>5. ASSUME NEW e \in Executors, ExecutorStep(e)
      PROVE  lost \subseteq lost'
  BY <1>5, ZenonT(30)
     DEF ExecutorStep, PassStep, Claim, CanClaim, TakeLock, LockBusy, Link, Follow, ReadStops,
         ReadPosition, CancelStop, Intent, RoundsToZero, SetSending, Send, Answer, SetTask,
         PassRaises, Overdue, FollowNoAmount, FollowMisses, PassFails
<1>6. ASSUME NEW x \in Exits, MonitorStep(x)
      PROVE  lost \subseteq lost'
  BY <1>6, ZenonT(30) DEF MonitorStep, ExitStart, ExitStartUnread, ExitStep, ExitCheck, ExitRow,
         ExitSend, ExitAnswer, ExitFails, ExitRecover
<1> QED
  BY <1>1, <1>2, <1>3, <1>4, <1>5, <1>6, Zenon DEF Next, Creation, ExecutorStep, MonitorStep

(* So a task that knows of its closes always knew of them. *)
LEMMA AwareBefore == [Next]_vars /\ Aware' => Aware
  BY LostStays, Zenon DEF Aware

(* Every step keeps PassInv. *)
LEMMA NextPass == Types /\ PassInv /\ [Next]_vars => PassInv'
  BY NextInv, AwareBefore, Zenon DEF PassInv

(* emergency_close.py, run_pass: as long as no close is out that the task  *)
(* was not told of, at most one close of the task may fill, its row is     *)
(* unresolved, and the holder of the claim that found every close terminal *)
(* is right.                                                               *)
THEOREM PassInvHolds == Spec => []PassInv
<1>1. Init => Types /\ PassInv
  BY InitTypes, InitInv, Zenon DEF PassInv
<1>2. Types /\ PassInv /\ [Next]_vars => Types' /\ PassInv'
  BY NextTypes, NextPass, Zenon
<1> QED
  BY <1>1, <1>2, PTL DEF Spec
-----------------------------------------------------------------------------
(* The refinement. *)
Working == {c \in Closes : Live(c)}
Abstract == [Promise!Next]_(Promise!vars)

(* A step that changes neither the closes nor the verdict is a stutter. *)
LEMMA Stutters ==
  ASSUME \A c \in Closes : Live(c)' <=> Live(c), task'.status = task.status
  PROVE  Abstract
  BY Zenon DEF Abstract, Promise!vars, Verdict

(* A step of the exchange leaves the working close alone or ends it. *)
LEMMA ExchangeRefines ==
  ASSUME Types, InOrder, Exchange
  PROVE  Abstract
<1>1. UNCHANGED task
  BY Zenon DEF Exchange, Arrive, Refuse, Fill, EndOrder, StopArrives, StopFills, StopEnds,
         HandTrade, exchangeOnly, db
<1>2. \A c \in Closes : Live(c)' => Live(c)
  BY ExchangeOrders, Zenon
<1>3. \A c, d \in Closes : Live(c) /\ Live(d) => c = d
  BY Zenon DEF InOrder, OneRisky, Risky
<1>4. CASE \A c \in Closes : Live(c)' <=> Live(c)
  BY <1>1, <1>4, Stutters, Zenon
<1>5. CASE \E c \in Closes : Live(c) /\ ~Live(c)'
  <2>1. Working # {} /\ Working' = {}
    BY <1>2, <1>3, <1>5, Zenon DEF Working
  <2> QED
    BY <1>1, <2>1, Zenon DEF Abstract, Promise!Next, Promise!End, Working, Verdict
<1> QED
  BY <1>2, <1>4, <1>5, Zenon

(* A close is sent only when none works, and never after flat. *)
LEMMA SendRefines ==
  ASSUME Types, InOrder, NEW e \in Executors, Send(e)
  PROVE  Abstract
<1> DEFINE n == my[e].n
<1>1. n \in Closes /\ Free(order[n]) /\ Risky(n)
  BY Zenon DEF Send, InOrder, Sending, Risky, MaySend, Free, Known
<1>2. \A c \in Closes : ~Live(c)
  BY <1>1, Zenon DEF InOrder, OneRisky, Risky, Live, Free
<1>3. UNCHANGED task /\ \A c \in Closes : Live(c)' <=> c = n
  BY <1>1, <1>2, Zenon DEF Send, Submit, db, Live, Types, OrderType, Orders, Free, Known
<1>4. task.status \notin {"flat", "accounted"}
  BY <1>1, Zenon DEF InOrder, FlatIsSafe
<1>5. Working = {} /\ Working' = {n}
  BY <1>1, <1>2, <1>3, Zenon DEF Working
<1>6. Verdict \in {"open", "operator"} /\ UNCHANGED Verdict
  BY <1>3, <1>4, Zenon DEF Verdict, Types, TaskType
<1> QED
  BY <1>1, <1>5, <1>6, Zenon DEF Abstract, Promise!Next, Promise!Send, Working

(* The owner of the claim ends the pass: flat only if no close works. *)
LEMMA SetTaskRefines ==
  ASSUME Types, InOrder, NEW e \in Executors, SetTask(e)
  PROVE  Abstract
<1>1. /\ UNCHANGED order /\ task.status = "runnable"
      /\ task'.status = my[e].goal /\ my[e].goal \in {"runnable", "manual", "flat"}
  BY EmergencyCloseAssumption, Zenon DEF SetTask, world, InOrder, HolderIsRight, Types, MyType
<1>2. UNCHANGED Working /\ \A c \in Closes : Live(c)' <=> Live(c)
  BY <1>1, Zenon DEF Working, Live
<1>3. my[e].goal = "flat" => Working = {}
  BY Zenon DEF SetTask, InOrder, HolderIsRight, Decided, Risky, Working
<1>4. Verdict = "open"
  BY <1>1, Zenon DEF Verdict
<1>5. CASE my[e].goal = "runnable"
  BY <1>1, <1>2, <1>5, Stutters, Zenon
<1>6. CASE my[e].goal = "manual"
  BY <1>1, <1>2, <1>4, <1>6, Zenon DEF Abstract, Promise!Next, Promise!GiveUp, Working, Verdict
<1>7. CASE my[e].goal = "flat"
  BY <1>1, <1>2, <1>3, <1>4, <1>7, Zenon
     DEF Abstract, Promise!Next, Promise!Flat, Working, Verdict
<1> QED
  BY <1>1, <1>5, <1>6, <1>7, Zenon

(* Writing the task, and the one close without a database. *)
LEMMA CreationRefines ==
  ASSUME Types, InOrder, Aware', Creation
  PROVE  Abstract
<1> USE EmergencyCloseAssumption
<1>0. 1 \in Closes /\ 1 \in Orders
  BY SMTT(30) DEF Closes, Orders
<1>1. CASE Start \/ BlindDone \/ CreatorDies
  BY <1>1, Stutters, Zenon DEF Start, BlindDone, CreatorDies, world, db, Live
<1>2. CASE CreateTask \/ CreateFails \/ Recover \/ LateFill
  <2>1. UNCHANGED order
    BY <1>2, Building, Zenon DEF CreateTask, CreateFails, world
  <2>2. \/ task' = task
        \/ task.status = "none" /\ task'.status \in {"runnable", "manual"}
    BY <1>2, Building, ZenonT(30) DEF CreateTask, CreateFails, WriteTask, db, Types, TaskType
  <2>3. UNCHANGED Working
    BY <2>1, Zenon DEF Working, Live
  <2> QED
    BY <2>2, <2>3, Zenon
       DEF Abstract, Promise!Next, Promise!GiveUp, Promise!vars, Working, Verdict
<1>3. CASE BlindClose /\ Known(1)
  BY <1>3, Stutters, Zenon DEF BlindClose, Submit, db, Live
<1>4. CASE BlindClose /\ ~Known(1)
  <2>1. /\ UNCHANGED task /\ task.status = "none"
        /\ \A c \in Closes : Free(order[c])
    BY <1>0, <1>4, ZenonT(30) DEF BlindClose, Aware, db, InOrder, BeforeTheTask, Free, Known
  <2>2. \A c \in Closes : Live(c)' <=> c = 1
    BY <1>0, <1>4, <2>1, ZenonT(30) DEF BlindClose, Submit, Live, Types, OrderType, Orders, Free
  <2>3. Working = {} /\ Working' = {1}
    BY <1>0, <2>1, <2>2, Zenon DEF Working, Live, Free
  <2> QED
    BY <1>0, <2>1, <2>3, Zenon DEF Abstract, Promise!Next, Promise!Send, Working, Verdict
<1> QED
  BY <1>1, <1>2, <1>3, <1>4, Zenon DEF Creation, Creator

(* Accounting follows a flat verdict. *)
LEMMA AccountRefines ==
  ASSUME Types, Account \/ AccountGivesUp
  PROVE  Abstract
<1>1. /\ UNCHANGED order /\ task.status = "flat"
      /\ task'.status \in {"accounted", "manual"}
  BY Zenon DEF Account, AccountGivesUp, world, Types, TaskType
<1>2. UNCHANGED Working
  BY <1>1, Zenon DEF Working, Live
<1> QED
  BY <1>1, <1>2, Zenon
     DEF Abstract, Promise!Next, Promise!GiveUp, Promise!Account, Working, Verdict

(* Every step is a step of FlattenOnce or a stutter. *)
LEMMA NextRefines ==
  ASSUME Types, InOrder, Aware', [Next]_vars
  PROVE  Abstract
<1>1. CASE Exchange \/ Creation \/ Account \/ AccountGivesUp
  BY <1>1, ExchangeRefines, CreationRefines, AccountRefines, Zenon
<1>2. CASE InlineEnds \/ LockExpires \/ LockLost \/ UNCHANGED vars
  BY <1>2, Stutters, Zenon DEF InlineEnds, LockExpires, LockLost, vars, world, db, Live
<1>3. ASSUME NEW e \in Executors, ExecutorStep(e), ~Send(e), ~SetTask(e)
      PROVE  Abstract
  <2>1. UNCHANGED order
    BY <1>3, ZenonT(30)
       DEF ExecutorStep, PassStep, Claim, TakeLock, LockBusy, Link, Follow, ReadStops,
           ReadPosition, CancelStop, Intent, RoundsToZero, SetSending, Answer, PassRaises,
           Overdue, FollowNoAmount, FollowMisses, PassFails, world
  <2>2. task'.status = task.status
    <3>1. CASE Claim(e)
      BY <3>1, Zenon DEF Claim, Types, TaskType
    <3>2. CASE UNCHANGED task
      BY <3>2, Zenon
    <3> QED
      BY <1>3, <3>1, <3>2, Zenon
         DEF ExecutorStep, PassStep, TakeLock, LockBusy, Link, Follow, ReadStops,
             ReadPosition, CancelStop, Intent, RoundsToZero, SetSending, Answer, PassRaises,
             Overdue, FollowNoAmount, FollowMisses, PassFails, db
  <2> QED
    BY <2>1, <2>2, Stutters, Zenon DEF Live
<1>4. ASSUME NEW e \in Executors, Send(e) \/ SetTask(e)
      PROVE  Abstract
  BY <1>4, SendRefines, SetTaskRefines, Zenon
<1>5. ASSUME NEW x \in Exits, MonitorStep(x)
      PROVE  Abstract
  BY <1>5, MonitorFrame, MonitorOrders, Stutters, Zenon DEF Live
<1> QED
  BY <1>1, <1>2, <1>3, <1>4, <1>5, Zenon DEF Next, ExecutorStep, MonitorStep

(* emergency_close.py: as long as no close is out that the task was not    *)
(* told of, the task implements FlattenOnce: its closes work one after the *)
(* other, and after confirmed_flat none is sent and none can fill, whatever*)
(* crashes, stolen claims, lost locks, late listings and operators do.     *)
THEOREM TaskKeepsPromise == Spec => KeepsPromise
<1>1. Init => Types /\ PassInv
  BY InitTypes, InitInv, Zenon DEF PassInv
<1>2. Types /\ PassInv /\ [Next]_vars => Types' /\ PassInv'
  BY NextTypes, NextPass, Zenon
<1>3. Init => Promise!Init
  <2> SUFFICES ASSUME Init PROVE Promise!Init
    BY Zenon
  <2>1. \A c \in Closes : ~Live(c)
    BY Zenon DEF Init, Live, Orders
  <2> QED
    BY <2>1, Zenon DEF Init, Promise!Init, Verdict
<1>4. Types /\ PassInv /\ [Next]_vars => [Aware' => Promise!Next]_(Promise!vars)
  BY NextRefines, AwareBefore, Zenon DEF Abstract, PassInv
<1> QED
  BY <1>1, <1>2, <1>3, <1>4, PTL DEF Spec, KeepsPromise
=============================================================================
