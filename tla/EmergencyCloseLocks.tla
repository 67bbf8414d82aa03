------------------------ MODULE EmergencyCloseLocks -------------------------
(***************************************************************************)
(* What the order lock and the claim of an emergency close task are for: a *)
(* pass sends beside no exit that may still fill, and an accounted task is *)
(* whole, for any executors, exits, quantities and bounds, when no live    *)
(* holder lost the lock or the claim and, for the second, the task is      *)
(* Aware of its closes.                                                    *)
(*                                                                         *)
(* One executor or exit at a time is at work (OneHolder), so what a pass   *)
(* read of the rows stays true while it goes on (ReadIsTrue), and after it *)
(* found the position flat (FlatIsFinal).                                  *)
(***************************************************************************)
EXTENDS EmergencyCloseFills

(* The order lock.  An executor at work, one about to write a flat task,   *)
(* one that found every close settled, and whoever holds the lock unless   *)
(* it was lost: the entry path keeps it between its passes.                *)
AtWork(e) ==
  pc[e] \in {"link", "follow", "stops", "position", "cancel", "intent",
             "sending", "send", "answer"}
CallsFlat(e) == pc[e] = "set" /\ my[e].goal = "flat"
Looked(e) == pc[e] \in {"stops", "position", "cancel", "intent"} \/ CallsFlat(e)
Holds(e) ==
  \/ AtWork(e) \/ CallsFlat(e)
  \/ e = Inline /\ pc[e] \in {"create", "blind", "wait", "idle", "set"}

OwnsIsFinal == \A o \in Owns : row[o] \in Settled

(* While nobody lost the lock, one at a time is at work: an executor or an *)
(* exit.                                                                   *)
OneHolder ==
  /\ pc[Inline] # "lock"
  /\ "lock" \notin lost =>
       /\ \A x \in Exits : exit[x] \notin {"idle", "done"} => lock = x
       /\ \A e \in Executors : Holds(e) => lock = e

(* So an exit that was taken over has ended, and what a pass has read of   *)
(* the closes and of the exits beside them stays true.                     *)
ReadIsTrue ==
  "lock" \notin lost =>
    /\ \A x \in linked : exit[x] = "done"
    /\ \A e \in Executors :
         /\ Looked(e) => OwnsIsFinal
         /\ Looked(e) \/ pc[e] = "follow" =>
              \A x \in Recorded \ (linked \cup early) : row[x] \in {"failed", "no_fill"}

(* How an executor comes to hold the lock, and gives it up. *)
LEMMA ExecutorLock ==
  ASSUME Types, OneHolder, NEW e \in Executors, ExecutorStep(e)
  PROVE  /\ \/ UNCHANGED lock \/ lock = e
            \/ lock = NoOne /\ lock' = e
         /\ Holds(e)' => \/ Holds(e) /\ UNCHANGED lock
                         \/ lock = NoOne /\ lock' = e
         /\ pc'[Inline] # "lock" /\ lost \subseteq lost'
<1> USE EmergencyCloseAssumption
<1>0. e \in DOMAIN pc /\ e \in DOMAIN my
  BY Zenon DEF Types, PcType, MyType
<1>1. CASE Claim(e)
  <2>1. /\ UNCHANGED <<lock, my>> /\ pc[e] = "idle"
        /\ pc'[e] = IF e = Inline THEN "link" ELSE "lock"
    BY <1>0, <1>1, Zenon DEF Claim, Moves
  <2>2. lost \subseteq lost'
    BY <1>1, Zenon DEF Claim, CanClaim
  <2>3. pc'[Inline] # "lock"
    BY <1>1, <2>1, OthersStay, Zenon DEF OneHolder
  <2> QED
    BY <2>1, <2>2, <2>3, Zenon DEF Holds, AtWork, CallsFlat
<1>2. CASE TakeLock(e)
  <2>1. lock = NoOne /\ lock' = e /\ UNCHANGED lost /\ pc'[e] = "link"
    BY <1>0, <1>2, Zenon DEF TakeLock, Moves
  <2> QED
    BY <2>1, OthersStay, Zenon DEF OneHolder
<1>3. CASE LockBusy(e)
  <2>1. /\ UNCHANGED <<lock, lost>> /\ pc[e] = "lock" /\ pc'[e] = "set"
        /\ my'[e].goal = "runnable"
    BY <1>0, <1>3, Zenon DEF LockBusy, Ends, Moves, Note
  <2>2. e # Inline
    BY <2>1, Zenon DEF OneHolder
  <2> QED
    BY <2>1, <2>2, OthersStay, Zenon DEF OneHolder, Holds, AtWork, CallsFlat
<1>4. CASE SetTask(e)
  <2>1. /\ UNCHANGED lost /\ pc[e] = "set" /\ pc'[e] = "idle"
        /\ IF e = Inline THEN UNCHANGED lock ELSE Unlock(e)
    BY <1>0, <1>4, Zenon DEF SetTask, Leaves, Moves
  <2> QED
    BY <2>1, OthersStay, Zenon DEF OneHolder, Holds, AtWork, CallsFlat, Unlock
<1>5. CASE PassRaises(e) \/ PassFails(e)
  <2>1. /\ UNCHANGED lost /\ pc'[e] = IF e = Inline THEN "done" ELSE "idle"
        /\ Unlock(e) \/ (lock = e /\ lock' = "dead")
    BY <1>0, <1>5, Zenon DEF PassRaises, PassFails, Raises, Moves
  <2> QED
    BY <2>1, OthersStay, Zenon DEF OneHolder, Holds, AtWork, CallsFlat, Unlock
<1>6. CASE ~(\/ Claim(e) \/ TakeLock(e) \/ LockBusy(e) \/ SetTask(e) \/ PassRaises(e)
             \/ PassFails(e))
  <2>1. UNCHANGED <<lock, lost>> /\ AtWork(e)
    BY <1>6, ZenonT(30)
       DEF ExecutorStep, PassStep, Link, Follow, ReadStops, ReadPosition, CancelStop,
           Intent, RoundsToZero, SetSending, Send, Answer, Overdue, FollowNoAmount,
           FollowMisses, AtWork
  <2>2. \E p \in {"follow", "set", "stops", "position", "cancel", "intent", "sending",
                  "send", "answer"} : Moves(e, p)
    BY <1>6, ZenonT(30)
       DEF ExecutorStep, PassStep, Link, Follow, ReadStops, ReadPosition, CancelStop,
           Intent, RoundsToZero, SetSending, Send, Answer, Overdue, FollowNoAmount,
           FollowMisses, Ends
  <2>3. pc'[e] # "lock"
    BY <1>0, <2>2, Zenon DEF Moves
  <2> QED
    BY <2>1, <2>3, OthersStay, Zenon DEF OneHolder, Holds
<1> QED
  BY <1>1, <1>2, <1>3, <1>4, <1>5, <1>6, ZenonT(30)

(* An exit takes the lock when it is free. *)
LEMMA MonitorLock ==
  ASSUME Types, Rest, NEW x \in Exits, MonitorStep(x)
  PROVE  /\ UNCHANGED lost
         /\ \/ lock' = lock /\ (exit[x] \notin {"idle", "done"} \/ exit'[x] = "done")
            \/ lock = NoOne /\ lock' = x
            \/ lock = x /\ exit'[x] = "done"
<1>0. x \in DOMAIN exit
  BY Zenon DEF Rest
<1>1. UNCHANGED lost
  BY ZenonT(30) DEF MonitorStep, ExitStart, ExitStartUnread, ExitStep, ExitCheck, ExitRow,
         ExitSend, ExitAnswer, ExitFails, ExitRecover
<1>2. CASE ExitStart(x) \/ ExitStartUnread(x)
  BY <1>1, <1>2, Zenon DEF ExitStart, ExitStartUnread
<1>3. CASE ExitCheck(x) \/ ExitRow(x) \/ ExitSend(x) \/ ExitAnswer(x)
  BY <1>0, <1>1, <1>3, ZenonT(30) DEF ExitCheck, ExitRow, ExitSend, ExitAnswer, ExitMoves, Unlock
<1>4. CASE ExitFails(x)
  BY <1>0, <1>1, <1>4, Zenon DEF ExitFails, ExitMoves
<1>5. CASE ExitRecover(x)
  BY <1>1, <1>5, Zenon DEF ExitRecover
<1> QED
  BY <1>2, <1>3, <1>4, <1>5, SMTT(30) DEF MonitorStep, ExitStep

(* The entry path writes the task while it holds the lock, and leaves the  *)
(* lock behind if it dies; the scans leave it alone.                       *)
LEMMA CreationLock ==
  ASSUME Types, Creation
  PROVE  /\ UNCHANGED <<exit, my>> /\ lost' \in {lost, lost \cup {"close"}}
         /\ \A e \in Executors \ {Inline} : pc'[e] = pc[e]
         /\ \/ UNCHANGED <<lock, pc>>
            \/ /\ pc[Inline] \in {"create", "blind"} /\ UNCHANGED lock
               /\ pc'[Inline] \in {"idle", "blind", "wait"}
            \/ /\ \E free \in {NoOne, "dead"} : lock' = IF lock = Inline THEN free ELSE lock
               /\ pc'[Inline] \in {"start", "done"}
            \/ lock = NoOne /\ lock' = Inline /\ pc'[Inline] = "create"
<1> USE EmergencyCloseAssumption
<1>0. Inline \in DOMAIN pc
  BY Zenon DEF Types, PcType
<1>1. UNCHANGED <<exit, my>> /\ lost' \in {lost, lost \cup {"close"}}
  BY Building, ZenonT(30) DEF Creation, Creator, CreatorDies, Start, CreateTask, CreateFails,
         BlindClose, BlindDone
<1>2. CASE Recover \/ LateFill
  BY <1>1, <1>2, Building, Zenon
<1>3. CASE Start
  BY <1>0, <1>1, <1>3, SMTT(30) DEF Start, Moves
<1>4. ASSUME NEW p \in {"start", "done"}, NEW free \in {NoOne, "dead"}, Moves(Inline, p),
             lock' = IF lock = Inline THEN free ELSE lock
      PROVE  /\ \E f \in {NoOne, "dead"} : lock' = IF lock = Inline THEN f ELSE lock
             /\ pc'[Inline] \in {"start", "done"}
             /\ \A e \in Executors \ {Inline} : pc'[e] = pc[e]
  BY <1>0, <1>4, Zenon DEF Moves, Types, PcType
<1>5. ASSUME NEW p \in {"idle", "blind", "wait"}, Moves(Inline, p),
             pc[Inline] \in {"create", "blind"}, UNCHANGED lock
      PROVE  /\ pc'[Inline] \in {"idle", "blind", "wait"}
             /\ \A e \in Executors \ {Inline} : pc'[e] = pc[e]
  BY <1>0, <1>5, Zenon DEF Moves, Types, PcType
<1>6. CASE CreateTask \/ CreateFails
  <2>1. /\ pc[Inline] = "create"
        /\ \/ (Moves(Inline, "done") \/ Moves(Inline, "start")) /\ Unlock(Inline)
           \/ (Moves(Inline, "idle") \/ Moves(Inline, "blind")) /\ UNCHANGED lock
    BY <1>6, ZenonT(30) DEF CreateTask, CreateFails
  <2> QED
    BY <1>1, <1>4, <1>5, <2>1, ZenonT(30) DEF Unlock
<1>7. CASE BlindClose
  <2>1. pc[Inline] = "blind" /\ Moves(Inline, "wait") /\ UNCHANGED lock
    BY <1>7, Zenon DEF BlindClose
  <2> QED
    BY <1>1, <1>5, <2>1, Zenon
<1>8. CASE BlindDone \/ CreatorDies
  <2>1. /\ Moves(Inline, "done")
        /\ \E f \in {NoOne, "dead"} : lock' = IF lock = Inline THEN f ELSE lock
    BY <1>8, ZenonT(30) DEF BlindDone, CreatorDies, Unlock
  <2> QED
    BY <1>1, <1>4, <2>1, Zenon
<1> QED
  BY <1>2, <1>3, <1>6, <1>7, <1>8, ZenonT(30) DEF Creation, Creator

(* Every step keeps the holder alone. *)
LEMMA NextHolder ==
  ASSUME Types, Rest, OneHolder, [Next]_vars
  PROVE  OneHolder'
<1> USE EmergencyCloseAssumption
<1>1. CASE Exchange
  BY <1>1, Zenon DEF Exchange, Arrive, Refuse, Fill, EndOrder, StopArrives, StopFills, StopEnds,
              HandTrade, exchangeOnly, OneHolder, Holds, AtWork, CallsFlat
<1>2. CASE Creation
  <2>0. /\ UNCHANGED <<exit, my>> /\ \A e \in Executors \ {Inline} : pc'[e] = pc[e]
        /\ lost \subseteq lost'
    BY <1>2, CreationLock, Zenon
  <2>1. \A e \in Executors \ {Inline} : Holds(e)' => Holds(e)
    BY <2>0, Zenon DEF Holds, AtWork, CallsFlat
  <2>2. CASE UNCHANGED <<lock, pc>>
    BY <2>0, <2>2, Zenon DEF OneHolder, Holds, AtWork, CallsFlat
  <2>3. CASE /\ pc[Inline] \in {"create", "blind"} /\ UNCHANGED lock
             /\ pc'[Inline] \in {"idle", "blind", "wait"}
    <3>1. Holds(Inline)
      BY <2>3, Zenon DEF Holds
    <3> QED
      BY <2>0, <2>1, <2>3, <3>1, Zenon DEF OneHolder
  <2>4. CASE /\ \E free \in {NoOne, "dead"} : lock' = IF lock = Inline THEN free ELSE lock
             /\ pc'[Inline] \in {"start", "done"}
    <3>1. ~Holds(Inline)' /\ (lock # Inline => lock' = lock)
      BY <2>4, Zenon DEF Holds, AtWork, CallsFlat
    <3>2. \A a \in (Executors \ {Inline}) \cup Exits : lock = a => lock' = a
      BY <3>1, Zenon
    <3> QED
      BY <2>0, <2>1, <2>4, <3>1, <3>2, ZenonT(30) DEF OneHolder
  <2>5. CASE lock = NoOne /\ lock' = Inline /\ pc'[Inline] = "create"
    BY <2>0, <2>1, <2>5, Zenon DEF OneHolder
  <2> QED
    BY <1>2, <2>2, <2>3, <2>4, <2>5, CreationLock, ZenonT(30)
<1>3. CASE OtherStep
  <2>1. UNCHANGED <<exit, my>>
    BY <1>3, OtherFrame, Zenon
  <2>2. CASE InlineEnds
    <3>1. /\ pc'[Inline] = "done" /\ \A e \in Executors \ {Inline} : pc'[e] = pc[e]
          /\ lock' = IF lock = Inline THEN NoOne ELSE lock
          /\ UNCHANGED lost
      BY <2>2, Zenon DEF InlineEnds, Moves, Unlock, Types, PcType
    <3>2. \A e \in Executors : Holds(e)' => e # Inline /\ Holds(e)
      BY <2>1, <3>1, Zenon DEF Holds, AtWork, CallsFlat
    <3> QED
      BY <2>1, <3>1, <3>2, Zenon DEF OneHolder
  <2>3. CASE LockLost
    BY <2>3, Zenon DEF LockLost, OneHolder
  <2>4. CASE LockExpires
    BY <2>1, <2>4, Zenon DEF LockExpires, OneHolder, Holds, AtWork, CallsFlat
  <2>5. CASE Account \/ AccountGivesUp \/ UNCHANGED vars
    BY <2>5, Zenon DEF Account, AccountGivesUp, vars, OneHolder, Holds, AtWork, CallsFlat
  <2> QED
    BY <1>3, <2>2, <2>3, <2>4, <2>5, Zenon DEF OtherStep
<1>4. ASSUME NEW e \in Executors, ExecutorStep(e)
      PROVE  OneHolder'
  <2>1. UNCHANGED exit
    BY <1>4, ExecutorFrame, Zenon
  <2>2. \A f \in Executors \ {e} : Holds(f)' => Holds(f)
    BY <1>4, OthersStay, Zenon DEF Holds, AtWork, CallsFlat
  <2>3. \A f \in Executors \ {e} : lock = f => lock' = f
    BY <1>4, ExecutorLock, Zenon
  <2>4. \A x \in Exits : lock = x => lock' = x
    BY <1>4, ExecutorLock, Zenon
  <2>5. lost \subseteq lost' /\ pc'[Inline] # "lock"
    BY <1>4, ExecutorLock, Zenon
  <2>6. Holds(e)' => lock' = e \/ (Holds(e) /\ UNCHANGED lock)
    BY <1>4, ExecutorLock, Zenon
  <2> QED
    BY <2>1, <2>2, <2>3, <2>4, <2>5, <2>6, SMTT(30) DEF OneHolder
<1>5. ASSUME NEW x \in Exits, MonitorStep(x)
      PROVE  OneHolder'
  <2>1. UNCHANGED <<pc, my>> /\ \A y \in Exits \ {x} : exit'[y] = exit[y]
    BY <1>5, MonitorFrame, MonitorMoves, Zenon
  <2>2. \A e \in Executors : Holds(e)' => Holds(e)
    BY <2>1, Zenon DEF Holds, AtWork, CallsFlat
  <2>3. /\ UNCHANGED lost
        /\ \/ lock' = lock /\ (exit[x] \notin {"idle", "done"} \/ exit'[x] = "done")
           \/ lock = NoOne /\ lock' = x
           \/ lock = x /\ exit'[x] = "done"
    BY <1>5, MonitorLock, Zenon
  <2> QED
    BY <2>1, <2>2, <2>3, Zenon DEF OneHolder
<1> QED
  BY <1>1, <1>2, <1>3, <1>4, <1>5, Steps, ZenonT(30)

(* Only an executor at work writes rows or links exits. *)
LEMMA IdleWritesNothing ==
  ASSUME NEW e \in Executors, ExecutorStep(e), ~AtWork(e)
  PROVE  UNCHANGED <<row, linked>>
  BY ZenonT(30)
     DEF ExecutorStep, PassStep, Claim, TakeLock, LockBusy, Link, Follow, ReadStops,
         ReadPosition, CancelStop, Intent, RoundsToZero, SetSending, Send, Answer, SetTask,
         PassRaises, Overdue, FollowNoAmount, FollowMisses, PassFails, db, AtWork

(* How a pass comes to look at the closes, and beyond. *)
LEMMA SelfLooks ==
  ASSUME Types, NEW e \in Executors, ExecutorStep(e)
  PROVE  /\ Looked(e)' => \/ Looked(e) /\ UNCHANGED <<row, linked>>
                          \/ Follow(e) /\ Deciding(row') = {}
         /\ pc'[e] = "follow" => Link(e) /\ Bypassing(linked', early) = {}
<1>0. e \in DOMAIN pc /\ e \in DOMAIN my
  BY Zenon DEF Types, PcType, MyType
<1>1. CASE ReadStops(e) \/ ReadPosition(e)
  <2>1. UNCHANGED <<row, linked>> /\ Looked(e)
    BY <1>1, Zenon DEF ReadStops, ReadPosition, db, Looked
  <2>2. pc'[e] # "follow"
    BY <1>0, <1>1, Zenon DEF ReadStops, ReadPosition, Ends, Moves
  <2> QED
    BY <2>1, <2>2, Zenon
<1>2. CASE Link(e)
  <2>1. CASE Bypassing(linked', early) # {}
    <3>1. Ends(e, "manual")
      BY <1>2, <2>1, Zenon DEF Link
    <3>2. pc'[e] = "set" /\ my'[e].goal = "manual"
      BY <1>0, <3>1, Zenon DEF Ends, Moves, Note
    <3> QED
      BY <3>2, Zenon DEF Looked, CallsFlat
  <2>2. CASE Bypassing(linked', early) = {}
    <3>1. Moves(e, "follow")
      BY <1>2, <2>2, Zenon DEF Link
    <3>2. pc'[e] = "follow"
      BY <1>0, <3>1, Zenon DEF Moves
    <3> QED
      BY <1>2, <2>2, <3>2, Zenon DEF Looked, CallsFlat
  <2> QED
    BY <2>1, <2>2, Zenon
<1>3. CASE Follow(e)
  <2>1. IF Deciding(row') # {}
        THEN pc'[e] = "set" /\ my'[e].goal \in {"manual", "runnable"} ELSE pc'[e] = "stops"
    BY <1>0, <1>3, SMTT(30) DEF Follow, Ends, Moves, Note
  <2> QED
    BY <1>3, <2>1, Zenon DEF Looked, CallsFlat
<1>4. CASE SetTask(e) \/ PassRaises(e) \/ PassFails(e) \/ Claim(e) \/ TakeLock(e)
  <2>1. \E p \in {"idle", "done", "link", "lock"} : Moves(e, p)
    BY <1>4, ZenonT(30)
       DEF SetTask, PassRaises, PassFails, Claim, TakeLock, Leaves, Raises
  <2> QED
    BY <1>0, <2>1, Zenon DEF Moves, Looked, CallsFlat
<1>5. CASE Intent(e) \/ SetSending(e) \/ Send(e)
  <2>1. \E p \in {"sending", "send", "answer"} : Moves(e, p)
    BY <1>5, Zenon DEF Intent, SetSending, Send
  <2> QED
    BY <1>0, <2>1, Zenon DEF Moves, Looked, CallsFlat
<1>6. CASE \/ LockBusy(e) \/ CancelStop(e) \/ RoundsToZero(e) \/ Overdue(e)
           \/ FollowNoAmount(e) \/ FollowMisses(e)
  <2>1. \E goal \in {"runnable", "manual"} : Ends(e, goal)
    BY <1>6, Zenon DEF LockBusy, CancelStop, RoundsToZero, Overdue, FollowNoAmount, FollowMisses
  <2> QED
    BY <1>0, <2>1, SMTT(30) DEF Ends, Moves, Note, Looked, CallsFlat
<1>7. CASE Answer(e)
  <2>1. pc'[e] = "set" /\ my'[e].goal \in {"runnable", "manual"}
    BY <1>0, <1>7 DEF Answer, Ends, Moves, Note
  <2> QED
    BY <2>1, Zenon DEF Looked, CallsFlat
<1> QED
  BY <1>1, <1>2, <1>3, <1>4, <1>5, <1>6, <1>7, ZenonT(30) DEF ExecutorStep, PassStep

(* A pass of one executor leaves what another one has read alone: there is *)
(* only one of them at work.                                               *)
LEMMA ExecutorReads ==
  ASSUME Types, Types', RowInv, RowInv', OneHolder, ReadIsTrue,
         NEW e \in Executors, ExecutorStep(e)
  PROVE  ReadIsTrue'
<1> USE EmergencyCloseAssumption
<1> SUFFICES ASSUME "lock" \notin lost' PROVE ReadIsTrue'
  BY Zenon DEF ReadIsTrue
<1>0. "lock" \notin lost /\ UNCHANGED <<exit, early>>
  BY ExecutorLock, ExecutorFrame, Zenon
<1>1. \A x \in linked' : exit'[x] = "done"
  <2>1. CASE UNCHANGED linked
    BY <1>0, <2>1, Zenon DEF ReadIsTrue
  <2>2. CASE Link(e) /\ linked' = linked \cup Linkable
    <3>1. lock = e
      BY <1>0, <2>2, Zenon DEF Link, Holds, AtWork, OneHolder
    <3>2. \A x \in Exits : exit[x] \in {"idle", "done"}
      BY <1>0, <3>1, Zenon DEF OneHolder
    <3>3. \A x \in Linkable : x \in Exits /\ row[x] # "none"
      BY Zenon DEF Linkable, Recorded
    <3>4. \A x \in Linkable : exit[x] = "done"
      BY <3>2, <3>3, Zenon DEF RowInv, ExitOK
    <3> QED
      BY <1>0, <2>2, <3>4, Zenon DEF ReadIsTrue
  <2> QED
    BY <2>1, <2>2, ExecutorFrame, Zenon
<1>2. ASSUME NEW f \in Executors \ {e}, (Looked(f) \/ pc[f] = "follow")'
      PROVE  /\ UNCHANGED <<row, linked>>
             /\ Looked(f)' => Looked(f)
             /\ Looked(f) \/ pc[f] = "follow"
  <2>1. (Looked(f)' => Looked(f)) /\ (Looked(f) \/ pc[f] = "follow")
    BY <1>2, OthersStay, Zenon DEF Looked, CallsFlat
  <2>2. Holds(f)
    BY <2>1, Zenon DEF Looked, Holds, AtWork
  <2>3. ~AtWork(e)
    BY <1>0, <2>2, Zenon DEF OneHolder, Holds
  <2> QED
    BY <2>1, <2>3, IdleWritesNothing, Zenon
<1>3. ASSUME NEW f \in Executors, Looked(f)'
      PROVE  OwnsIsFinal'
  <2>1. CASE Looked(f) /\ UNCHANGED <<row, linked>>
    BY <1>0, <2>1, Zenon DEF ReadIsTrue, OwnsIsFinal, Owns
  <2>2. CASE Follow(e) /\ Deciding(row') = {}
    <3>1. UNCHANGED linked /\ row' = Followed({o \in Owns : Listed(o)})
      BY <2>2, Zenon DEF Follow
    <3>2. Owns \subseteq Orders /\ linked \subseteq Recorded
      BY Zenon DEF Owns, Orders, Types, RowInv
    <3>3. Owns' \subseteq Owns
      BY <3>1, <3>2, ZenonT(30) DEF Owns, Followed, Orders, Unresolved, Unknown
    <3>4. \A o \in Owns' : row'[o] \in Rows /\ row'[o] # "none"
      BY <3>2, <3>3, Zenon DEF Types, RowType, Owns, RowInv, Recorded
    <3>5. \A o \in Owns' : row'[o] \notin Unresolved \cup {"manual_required"}
      BY <2>2, <3>3, Zenon DEF Deciding
    <3> QED
      BY <3>4, <3>5, Zenon DEF OwnsIsFinal, Settled, Rows
  <2> QED
    BY <1>2, <1>3, <2>1, <2>2, SelfLooks, Zenon
<1>4. ASSUME NEW f \in Executors, (Looked(f) \/ pc[f] = "follow")',
             NEW x \in Recorded' \ (linked' \cup early')
      PROVE  row'[x] \in {"failed", "no_fill"}
  <2>0. x \in Exits
    BY Zenon DEF Recorded
  <2>1. CASE (Looked(f) \/ pc[f] = "follow") /\ UNCHANGED <<row, linked>>
    BY <1>0, <2>1, Zenon DEF ReadIsTrue, Recorded
  <2>2. CASE f = e /\ Follow(e)
    <3>1. UNCHANGED linked /\ pc[e] = "follow" /\ x \in Orders
          /\ row' = Followed({o \in Owns : Listed(o)})
      BY <2>0, <2>2, Zenon DEF Follow, Orders
    <3>2. x \notin Owns
      BY <1>0, <2>0, <3>1, Zenon DEF Owns
    <3>3. row'[x] = row[x]
      BY <3>1, <3>2, Zenon DEF Followed
    <3> QED
      BY <1>0, <2>0, <3>1, <3>3, Zenon DEF ReadIsTrue, Recorded
  <2>3. CASE f = e /\ Link(e) /\ Bypassing(linked', early) = {}
    <3>1. UNCHANGED row
      BY <2>3, Zenon DEF Link
    <3> QED
      BY <1>0, <2>3, <3>1, Zenon DEF Bypassing, Recorded
  <2> QED
    BY <1>2, <1>4, <2>1, <2>2, <2>3, SelfLooks, Zenon
<1> QED
  BY <1>1, <1>3, <1>4, Zenon DEF ReadIsTrue

(* Nobody is in a pass when the task is written, and no exit at work. *)
LEMMA CreationReads ==
  ASSUME Types, Attached, RowInv, OneHolder, ReadIsTrue, Creation
  PROVE  ReadIsTrue'
<1> USE EmergencyCloseAssumption
<1> SUFFICES ASSUME "lock" \notin lost' PROVE ReadIsTrue'
  BY Zenon DEF ReadIsTrue
<1>0. "lock" \notin lost /\ UNCHANGED <<exit, my>>
  BY CreationLock, Zenon
<1>1. \A e \in Executors : pc'[e] \in {pc[e], "create", "idle", "done", "start",
                                       "blind", "wait"}
  BY CreationLock, Zenon
<1>2. CASE UNCHANGED <<row, linked, early>>
  <2>1. \A e \in Executors : /\ Looked(e)' => Looked(e)
                             /\ pc'[e] = "follow" => pc[e] = "follow"
    BY <1>0, <1>1, Zenon DEF Looked, CallsFlat
  <2> QED
    BY <1>0, <1>2, <2>1, Zenon DEF ReadIsTrue, OwnsIsFinal, Owns, Recorded
<1>3. CASE ~UNCHANGED <<row, linked, early>>
  <2>1. /\ task.status = "none"
        /\ UNCHANGED linked \/ (pc[Inline] = "create" /\ linked' = Linkable)
    <3>1. CASE Recover \/ LateFill
      BY <3>1, Building, Zenon
    <3>2. CASE CreateTask \/ CreateFails
      BY <1>3, <3>2, ZenonT(30) DEF CreateTask, CreateFails, WriteTask, db
    <3> QED
      BY <1>3, <3>1, <3>2, ZenonT(30) DEF Creation, Creator, CreatorDies, Start, BlindClose,
             BlindDone, db
  <2>2. \A e \in Executors : ~InPass(e)
    BY <2>1, Zenon DEF Attached
  <2>3. \A e \in Executors : ~Looked(e)' /\ pc'[e] # "follow"
    BY <1>1, <2>2, Zenon DEF InPass, Looked, CallsFlat
  <2>4. ASSUME pc[Inline] = "create", NEW x \in Linkable
        PROVE  exit[x] = "done"
    <3>1. x \in Exits /\ row[x] # "none"
      BY <2>4, Zenon DEF Linkable, Recorded
    <3>2. lock = Inline
      BY <1>0, <2>4, Zenon DEF Holds, OneHolder
    <3>3. exit[x] \in {"idle", "done"}
      BY <1>0, <3>1, <3>2, Zenon DEF OneHolder
    <3> QED
      BY <3>1, <3>3, Zenon DEF RowInv, ExitOK
  <2> QED
    BY <1>0, <2>1, <2>3, <2>4, ZenonT(30) DEF ReadIsTrue
<1> QED
  BY <1>2, <1>3, Zenon

(* An exit at work excludes a pass, and a later tick leaves the closes of  *)
(* the task alone.                                                         *)
LEMMA MonitorReads ==
  ASSUME Types, Rest, RowInv, OneHolder, ReadIsTrue, NEW x \in Exits, MonitorStep(x)
  PROVE  ReadIsTrue'
<1> USE EmergencyCloseAssumption
<1> SUFFICES ASSUME "lock" \notin lost' PROVE ReadIsTrue'
  BY Zenon DEF ReadIsTrue
<1>0. /\ "lock" \notin lost /\ UNCHANGED <<linked, early, pc, my>>
      /\ x \in Orders /\ x \notin Closes
  BY MonitorLock, MonitorFrame, Zenon DEF Orders
<1>1. \A y \in linked' : exit'[y] = "done"
  <2>1. \A y \in linked : y \in Exits /\ exit[y] = "done"
    BY <1>0, Zenon DEF ReadIsTrue, Types
  <2> QED
    BY <1>0, <2>1, MonitorMoves, Zenon DEF ExitCheck, ExitRow, ExitSend
<1>2. \A e \in Executors : /\ Looked(e)' => Looked(e)
                           /\ pc'[e] = "follow" => pc[e] = "follow"
  BY <1>0, Zenon DEF Looked, CallsFlat
<1>3. CASE exit[x] \notin {"idle", "done"}
  <2>1. lock = x
    BY <1>0, <1>3, Zenon DEF OneHolder
  <2>2. \A e \in Executors : ~Holds(e)
    BY <1>0, <2>1, Zenon DEF OneHolder
  <2>3. \A e \in Executors : ~Looked(e) /\ pc[e] # "follow"
    BY <2>2, Zenon DEF Looked, Holds, AtWork
  <2> QED
    BY <1>1, <1>2, <2>3, Zenon DEF ReadIsTrue
<1>4. CASE exit[x] = "idle"
  <2>1. UNCHANGED row
    BY <1>4, Zenon DEF MonitorStep, ExitStart, ExitStartUnread, ExitStep, ExitCheck, ExitRow,
                ExitSend, ExitAnswer, ExitFails, ExitRecover
  <2> QED
    BY <1>0, <1>1, <1>2, <2>1, ZenonT(30) DEF ReadIsTrue, OwnsIsFinal, Owns, Recorded
<1>5. CASE exit[x] = "done"
  <2>1. ExitRecover(x)
    BY <1>5, Zenon DEF MonitorStep, ExitStart, ExitStartUnread, ExitStep, ExitCheck, ExitRow,
                ExitSend, ExitAnswer, ExitFails
  <2>2. x \notin linked /\ row[x] \in Unresolved
    BY <2>1, Zenon DEF ExitRecover
  <2>3. \A o \in Orders \ {x} : row'[o] = row[o]
    BY <1>5, MonitorTold, Zenon DEF ExitRow
  <2>4. ASSUME OwnsIsFinal PROVE OwnsIsFinal'
    <3>1. Owns' \subseteq Owns /\ Owns' \subseteq Orders \ {x}
      BY <1>0, <2>2, <2>3, Zenon DEF Owns, Orders, Types
    <3> QED
      BY <2>3, <2>4, <3>1, Zenon DEF OwnsIsFinal
  <2>5. ASSUME NEW e \in Executors, Looked(e) \/ pc[e] = "follow",
               NEW y \in Recorded' \ (linked' \cup early')
        PROVE  row'[y] \in {"failed", "no_fill"}
    <3>1. y \in Exits /\ y \in Orders
      BY <2>5, Zenon DEF Recorded, Orders
    <3>2. CASE y = x
      <4>1. x \in Recorded \ (linked \cup early)
        BY <1>0, <2>2, <2>5, <3>2, Zenon DEF Recorded, Unresolved, Unknown
      <4>2. row[x] \in {"failed", "no_fill"}
        BY <1>0, <2>5, <4>1, Zenon DEF ReadIsTrue
      <4> QED
        BY <2>2, <4>2, Zenon DEF Unresolved, Unknown
    <3>3. CASE y # x
      BY <1>0, <2>3, <2>5, <3>1, <3>3, Zenon DEF ReadIsTrue, Recorded
    <3> QED
      BY <3>2, <3>3, Zenon
  <2> QED
    BY <1>0, <1>1, <1>2, <2>4, <2>5, SMTT(30) DEF ReadIsTrue
<1> QED
  BY <1>3, <1>4, <1>5, Zenon

(* Every step keeps what was read true. *)
LEMMA NextReads ==
  ASSUME Types, Types', Rest, Attached, RowInv, RowInv', OneHolder, ReadIsTrue, [Next]_vars
  PROVE  ReadIsTrue'
<1>1. CASE Exchange
  <2>1. UNCHANGED <<row, linked, early, exit, pc, my, lost>>
    BY <1>1, Zenon DEF Exchange, Arrive, Refuse, Fill, EndOrder, StopArrives, StopFills, StopEnds,
                HandTrade, exchangeOnly, db
  <2> QED
    BY <2>1, Zenon DEF ReadIsTrue, OwnsIsFinal, Owns, Recorded, Looked, CallsFlat
<1>2. CASE OtherStep
  <2>1. UNCHANGED <<row, linked, early, exit, my>>
    BY <1>2, OtherFrame, Zenon
  <2>2. lost \subseteq lost' /\ \A e \in Executors : pc'[e] \in {pc[e], "done"}
    BY <1>2, Zenon DEF OtherStep, InlineEnds, LockExpires, LockLost, Account, AccountGivesUp,
                vars, Moves, Types, PcType
  <2>3. \A e \in Executors : /\ Looked(e)' => Looked(e)
                             /\ pc'[e] = "follow" => pc[e] = "follow"
    BY <2>1, <2>2, Zenon DEF Looked, CallsFlat
  <2> QED
    BY <2>1, <2>2, <2>3, Zenon DEF ReadIsTrue, OwnsIsFinal, Owns, Recorded
<1> QED
  BY <1>1, <1>2, Steps, CreationReads, ExecutorReads, MonitorReads, Zenon

-----------------------------------------------------------------------------
(* The claim.  While no live pass lost it, there is one pass at a time, so *)
(* the closes of a task that was found flat stay as they were read.        *)
FlatIsFinal ==
  /\ "claim" \notin lost => \A e \in Executors : InPass(e) => task.claim = e
  /\ lost = {} /\ task.status = "flat" => OwnsIsFinal

(* A step of an executor is one of its pass, or the claim. *)
LEMMA ExecutorInPass ==
  ASSUME NEW e \in Executors, ExecutorStep(e)
  PROVE  InPass(e) \/ Claim(e)
  BY ZenonT(30)
     DEF ExecutorStep, PassStep, TakeLock, LockBusy, Link, Follow, ReadStops, ReadPosition,
         CancelStop, Intent, RoundsToZero, SetSending, Send, Answer, SetTask, PassRaises, Overdue,
         FollowNoAmount, FollowMisses, PassFails, InPass

(* A step of an executor other than these leaves the task alone. *)
LEMMA TaskStays ==
  ASSUME NEW e \in Executors, ExecutorStep(e), ~Claim(e), ~SetTask(e)
  PROVE  UNCHANGED <<task, lost>>
  BY ZenonT(30)
     DEF ExecutorStep, PassStep, TakeLock, LockBusy, Link, Follow, ReadStops, ReadPosition,
         CancelStop, Intent, RoundsToZero, SetSending, Send, Answer, PassRaises, Overdue,
         FollowNoAmount, FollowMisses, PassFails, db

(* One pass at a time, and flat only after a look at every close. *)
LEMMA ExecutorFlat ==
  ASSUME Types, PassInv, ReadIsTrue, FlatIsFinal, NEW e \in Executors, ExecutorStep(e)
  PROVE  FlatIsFinal'
<1> USE EmergencyCloseAssumption
<1>0. \A f \in Executors \ {e} : InPass(f)' => InPass(f)
  BY OthersStay, Zenon DEF InPass
<1>1. CASE Claim(e)
  <2>1. /\ task'.claim = e /\ task'.status = "runnable"
        /\ IF task.claim \in Executors \ {e} /\ InPass(task.claim)
           THEN "claim" \in lost' ELSE lost' = lost
    BY <1>1, Zenon DEF Claim, CanClaim, Types, TaskType
  <2>2. ASSUME "claim" \notin lost', NEW f \in Executors \ {e}
        PROVE  ~InPass(f)
    BY <2>1, <2>2, Zenon DEF FlatIsFinal
  <2> QED
    BY <1>0, <2>1, <2>2, Zenon DEF FlatIsFinal
<1>2. CASE SetTask(e)
  <2>1. /\ UNCHANGED <<row, linked, lost>> /\ task.claim = e /\ pc[e] = "set"
        /\ task'.status = my[e].goal /\ pc'[e] = "idle"
    BY <1>2, Zenon DEF SetTask, Leaves, Moves, Types, PcType
  <2>2. ASSUME "claim" \notin lost, NEW f \in Executors
        PROVE  ~InPass(f)'
    <3>1. CASE f = e
      BY <2>1, <3>1, Zenon DEF InPass
    <3>2. CASE f # e
      BY <1>0, <2>1, <2>2, <3>2, Zenon DEF FlatIsFinal
    <3> QED
      BY <3>1, <3>2, Zenon
  <2>3. ASSUME lost = {}, task'.status = "flat"
        PROVE  OwnsIsFinal'
    <3>1. Looked(e)
      BY <2>1, <2>3, Zenon DEF Looked, CallsFlat
    <3>2. OwnsIsFinal
      BY <2>3, <3>1, Zenon DEF ReadIsTrue
    <3> QED
      BY <2>1, <3>2, Zenon DEF OwnsIsFinal, Owns
  <2> QED
    BY <2>1, <2>2, <2>3, Zenon DEF FlatIsFinal
<1>3. CASE ~Claim(e) /\ ~SetTask(e)
  <2>1. UNCHANGED <<task, lost>> /\ InPass(e)
    BY <1>3, TaskStays, ExecutorInPass, Zenon
  <2>2. "claim" \notin lost => task.claim = e
    BY <2>1, Zenon DEF FlatIsFinal
  <2>3. lost = {} /\ task.claim = e => task.status = "runnable"
    BY Zenon DEF PassInv, Aware, InOrder, HolderIsRight
  <2> QED
    BY <1>0, <2>1, <2>2, <2>3, Zenon DEF FlatIsFinal
<1> QED
  BY <1>1, <1>2, <1>3, Zenon

(* Nobody else reopens a close of a flat task. *)
LEMMA NextFlat ==
  ASSUME Types, Rest, PassInv, RowInv, ReadIsTrue, FlatIsFinal, [Next]_vars
  PROVE  FlatIsFinal'
<1> USE EmergencyCloseAssumption
<1>1. CASE Exchange
  <2>1. UNCHANGED <<row, linked, task, pc, lost>>
    BY <1>1, Zenon DEF Exchange, Arrive, Refuse, Fill, EndOrder, StopArrives, StopFills, StopEnds,
                HandTrade, exchangeOnly, db
  <2> QED
    BY <2>1, Zenon DEF FlatIsFinal, OwnsIsFinal, Owns, InPass
<1>2. CASE Creation
  <2>1. lost \subseteq lost' /\ \A e \in Executors : InPass(e)' => InPass(e)
    BY <1>2, CreationLock, Zenon DEF InPass
  <2>2. \/ UNCHANGED <<task, row, linked>>
        \/ task'.claim = task.claim /\ task'.status \in {"runnable", "manual"}
    <3>1. CASE Recover \/ LateFill
      BY <3>1, Building, Zenon DEF Types, TaskType
    <3>2. CASE WriteTask
      <4>1. \/ UNCHANGED <<task, row, linked>>
            \/ \E s \in {"manual", "runnable"} : task' = [task EXCEPT !.status = s]
        BY <3>2, Zenon DEF WriteTask, db
      <4> QED
        BY <4>1, Zenon DEF Types, TaskType
    <3> QED
      BY <1>2, <3>1, <3>2, ZenonT(30) DEF Creation, Creator, CreatorDies, Start, CreateTask,
             CreateFails, BlindClose, BlindDone, db
  <2> QED
    BY <2>1, <2>2, ZenonT(30) DEF FlatIsFinal, OwnsIsFinal, Owns
<1>3. CASE OtherStep
  <2>1. UNCHANGED <<row, linked>>
    BY <1>3, OtherFrame, Zenon
  <2>2. /\ lost \subseteq lost' /\ task'.claim = task.claim
        /\ task'.status = "flat" => task.status = "flat"
        /\ \A e \in Executors : pc'[e] \in {pc[e], "done"}
    BY <1>3, Zenon DEF OtherStep, InlineEnds, LockExpires, LockLost, Account, AccountGivesUp,
                vars, db, Moves, Types, TaskType, PcType
  <2>3. \A e \in Executors : InPass(e)' => InPass(e)
    BY <2>2, Zenon DEF InPass
  <2> QED
    BY <2>1, <2>2, <2>3, Zenon DEF FlatIsFinal, OwnsIsFinal, Owns
<1>4. ASSUME NEW x \in Exits, MonitorStep(x)
      PROVE  FlatIsFinal'
  <2>1. UNCHANGED <<task, linked, pc, lost>>
    BY <1>4, MonitorFrame, MonitorLock, Zenon
  <2>2. ASSUME lost = {}, OwnsIsFinal
        PROVE  OwnsIsFinal'
    <3>1. \A o \in Orders \ {x} : row'[o] = row[o]
      <4>1. CASE ExitRow(x)
        BY <4>1, Zenon DEF ExitRow, Types, RowType
      <4>2. CASE ~ExitRow(x)
        BY <1>4, <4>2, MonitorTold, Zenon
      <4> QED
        BY <4>1, <4>2, Zenon
    <3>2. CASE x \in linked
      <4>1. exit[x] = "done"
        BY <2>2, <3>2, Zenon DEF ReadIsTrue
      <4>2. FALSE
        BY <1>4, <3>2, <4>1, ZenonT(30) DEF MonitorStep, ExitStart, ExitStartUnread, ExitStep,
             ExitCheck, ExitRow, ExitSend, ExitAnswer, ExitFails, ExitRecover
      <4> QED
        BY <4>2, Zenon
    <3>3. CASE x \notin linked
      <4>1. Owns' \subseteq Owns /\ Owns' \subseteq Orders \ {x}
        BY <2>1, <3>1, <3>3, Zenon DEF Owns, Orders, Types
      <4> QED
        BY <2>2, <3>1, <4>1, Zenon DEF OwnsIsFinal
    <3> QED
      BY <3>2, <3>3, Zenon
  <2> QED
    BY <2>1, <2>2, Zenon DEF FlatIsFinal, InPass
<1> QED
  BY <1>1, <1>2, <1>3, <1>4, Steps, ExecutorFlat, ZenonT(30)

(* Nobody holds anything at the start but the entry path. *)
LEMMA InitHolder == Init => OneHolder /\ ReadIsTrue /\ FlatIsFinal
<1> SUFFICES ASSUME Init PROVE OneHolder /\ ReadIsTrue /\ FlatIsFinal
  BY Zenon
<1> USE EmergencyCloseAssumption
<1>1. /\ \A e \in Executors : pc[e] \in {"idle", "start", "create"}
      /\ \A e \in Executors : e # Inline => pc[e] = "idle"
      /\ pc[Inline] = "create" => lock = Inline
      /\ pc[Inline] # "idle"
  BY Zenon DEF Init
<1>2. \A e \in Executors : /\ ~Looked(e) /\ pc[e] # "follow" /\ ~InPass(e)
                           /\ Holds(e) => lock = e
  BY <1>1, Zenon DEF Looked, CallsFlat, InPass, Holds, AtWork
<1>3. \A x \in Exits : exit[x] \in {"idle", "done"}
  BY Zenon DEF Init
<1>4. linked = {} /\ task.status = "none"
  BY Zenon DEF Init
<1> QED
  BY <1>1, <1>2, <1>3, <1>4, Zenon DEF OneHolder, ReadIsTrue, FlatIsFinal

(* All of it together: what the order lock and the claim add to the rows.  *)
Held ==
  /\ Types /\ Rest /\ PassInv /\ Attached /\ RowInv
  /\ OneHolder /\ ReadIsTrue /\ FlatIsFinal

(* In every reachable state one executor or exit is at work under the      *)
(* order lock, what it has read is true, and a flat task stays settled,    *)
(* unless a live holder lost its lock or claim.                            *)
THEOREM HolderInductive == Spec => []Held
<1>1. Init => Held
  BY InitTypes, InitRest, InitInv, InitAttached, InitRows, InitHolder, ZenonT(30)
     DEF Held, PassInv
<1>2. Held /\ [Next]_vars => Held'
  <2> SUFFICES ASSUME Held, [Next]_vars PROVE Held'
    BY Zenon
  <2> USE DEF Held
  <2>1. Types' /\ Rest' /\ PassInv' /\ Attached'
    BY NextTypes, NextRest, NextPass, NextAttached, Zenon
  <2>2. RowInv'
    BY NextRows, Zenon
  <2>3. OneHolder'
    BY NextHolder, Zenon
  <2>4. ReadIsTrue'
    BY <2>1, <2>2, NextReads, Zenon
  <2>5. FlatIsFinal'
    BY NextFlat, Zenon
  <2> QED
    BY <2>1, <2>2, <2>3, <2>4, <2>5, ZenonT(30)
<1> QED
  BY <1>1, <1>2, PTL DEF Spec

(* A close is recorded by an intent, under the lock. *)
LEMMA IntentWrites ==
  ASSUME Held, [Next]_vars, NEW c \in Closes, row[c] = "none", row'[c] = "pending"
  PROVE  \E e \in Executors : pc[e] = "intent"
<1> USE EmergencyCloseAssumption
<1>0. c \in Orders /\ c \notin Exits /\ 1 \in Orders /\ Types
  BY DEF Orders, Closes, Held
<1>1. CASE Exchange
  <2>1. UNCHANGED row
    BY <1>1, Zenon DEF Exchange, Arrive, Refuse, Fill, EndOrder, StopArrives, StopFills, StopEnds,
                HandTrade, exchangeOnly, db
  <2> QED
    BY <2>1, Zenon
<1>2. CASE Creation
  <2>1. CASE Recover \/ LateFill
    <3>1. row' = row \/ (Listed(1) /\ \E s \in Adopted(1) : row' = [row EXCEPT ![1] = s])
      BY <2>1, Building, Zenon
    <3>2. Listed(1) => \A s \in Adopted(1) : s # "pending"
      BY <1>0, AdoptedRow, Zenon DEF Filled
    <3> QED
      BY <1>0, <3>1, <3>2, Zenon DEF Types, RowType
  <2>2. CASE UNCHANGED row
    BY <2>2, Zenon
  <2> QED
    BY <1>2, <2>1, <2>2, ZenonT(30) DEF Creation, Creator, CreatorDies, Start, CreateTask,
           CreateFails, BlindClose, BlindDone, WriteTask, db
<1>3. CASE OtherStep
  BY <1>3, OtherFrame, ZenonT(30)
<1>4. ASSUME NEW e \in Executors, ExecutorStep(e)
      PROVE  pc[e] = "intent"
  <2>1. CASE Intent(e)
    BY <2>1, Zenon DEF Intent
  <2>2. CASE Follow(e) \/ Overdue(e)
    <3>1. row' = Followed({o \in Owns : Listed(o)})
      BY <2>2, Zenon DEF Follow, Overdue
    <3>2. row'[c] = row[c]
      BY <1>0, <3>1, Zenon DEF Followed, Unresolved, Unknown
    <3> QED
      BY <3>2, Zenon
  <2>3. CASE FollowNoAmount(e)
    BY <1>0, <2>3, Zenon DEF FollowNoAmount, Types, RowType
  <2>4. CASE Answer(e)
    BY <1>0, <2>4, Zenon DEF Answer, Types, RowType
  <2>5. CASE UNCHANGED row
    BY <2>5, Zenon
  <2> QED
    BY <1>4, <2>1, <2>2, <2>3, <2>4, <2>5, ZenonT(30)
       DEF ExecutorStep, PassStep, Claim, TakeLock, LockBusy, Link, ReadStops, ReadPosition,
           CancelStop, RoundsToZero, SetSending, Send, SetTask, PassRaises, FollowMisses,
           PassFails, db
<1>5. ASSUME NEW x \in Exits, MonitorStep(x)
      PROVE  FALSE
  BY <1>0, <1>5, MonitorOrders, Zenon
<1> QED
  BY <1>1, <1>2, <1>3, <1>4, <1>5, Steps, ZenonT(30)

(* A pass never sends a close beside an exit of the monitor that may still *)
(* fill, if the exit was recorded after the task was written and nobody    *)
(* lost the order lock (link_late_closes, then _follow_closes, under one   *)
(* hold of position_order_lock): with any number of executors and exits.   *)
THEOREM SendsAlone == Spec => NoSendBesideAnExit
<1>1. ASSUME Held, [Next]_vars, NEW c \in Closes, row[c] = "none", row'[c] = "pending",
             "lock" \notin lost, NEW x \in Recorded \ (early \ linked)
      PROVE  ~Live(x)
  <2>1. PICK e \in Executors : pc[e] = "intent"
    BY <1>1, IntentWrites, Zenon
  <2>2. /\ OwnsIsFinal
        /\ \A y \in Recorded \ (linked \cup early) : row[y] \in {"failed", "no_fill"}
    BY <1>1, <2>1, Zenon DEF Held, ReadIsTrue, Looked
  <2>3. row[x] \in Settled
    BY <2>2, Zenon DEF OwnsIsFinal, Owns, Settled
  <2>4. x \in Orders /\ Sure(x)
    BY Zenon DEF Recorded, Orders, Sure
  <2> QED
    BY <1>1, <2>3, <2>4, Zenon DEF Held, RowInv, RowOK, Live
<1>2. Held /\ [Next]_vars =>
        [\A c \in Closes :
           row[c] = "none" /\ row'[c] = "pending" /\ "lock" \notin lost =>
             \A x \in Recorded \ (early \ linked) : ~Live(x)]_vars
  BY <1>1, Zenon
<1> QED
  BY <1>2, HolderInductive, PTL DEF NoSendBesideAnExit, Spec

(* Only the accountant ends a flat task as accounted. *)
LEMMA AccountWrites ==
  ASSUME Types, [Next]_vars, task.status = "flat", task'.status = "accounted"
  PROVE  Whole
<1> USE EmergencyCloseAssumption
<1>1. CASE Exchange
  <2>1. UNCHANGED task
    BY <1>1, Zenon DEF Exchange, Arrive, Refuse, Fill, EndOrder, StopArrives, StopFills, StopEnds,
                HandTrade, exchangeOnly, db
  <2> QED
    BY <2>1, Zenon
<1>2. CASE Creation
  <2>1. UNCHANGED task \/ task.status = "none"
    BY <1>2, Building, ZenonT(30) DEF Creation, Creator, CreatorDies, Start, CreateTask,
           CreateFails, BlindClose, BlindDone, WriteTask, db
  <2> QED
    BY <2>1, Zenon
<1>3. CASE OtherStep
  <2>1. CASE Account
    BY <2>1, Zenon DEF Account, Types, TaskType
  <2>2. CASE AccountGivesUp
    BY <2>2, Zenon DEF AccountGivesUp, Types, TaskType
  <2>3. CASE InlineEnds \/ LockExpires \/ LockLost \/ UNCHANGED vars
    BY <2>3, Zenon DEF InlineEnds, LockExpires, LockLost, vars, db
  <2> QED
    BY <1>3, <2>1, <2>2, <2>3, Zenon DEF OtherStep
<1>4. ASSUME NEW e \in Executors, ExecutorStep(e)
      PROVE  FALSE
  <2>1. CASE Claim(e)
    BY <2>1, Zenon DEF Claim
  <2>2. CASE SetTask(e)
    BY <2>2, Zenon DEF SetTask, Types, MyType
  <2> QED
    BY <1>4, <2>1, <2>2, TaskStays, SMTT(30)
<1>5. ASSUME NEW x \in Exits, MonitorStep(x)
      PROVE  FALSE
  BY <1>5, MonitorFrame, Zenon
<1> QED
  BY <1>1, <1>2, <1>3, <1>4, <1>5, Steps, ZenonT(30)

(* The counted fills are all there are when every close is settled. *)
LEMMA SettledIsWhole ==
  ASSUME Types, InOrder, Aware, RowInv, task.status # "none", OwnsIsFinal
  PROVE  /\ Counted(row) = Filling(order, Closes \cup linked)
         /\ \A o \in Closes \cup linked : ~Live(o)
<1> DEFINE O == Closes \cup linked
           F == {o \in Owns : row[o] \in Filled}
<1>1. O \in SUBSET Orders /\ F \subseteq O
  BY Zenon DEF Orders, Types, Owns
<1>2. ASSUME NEW o \in O
      PROVE  ~Live(o) /\ (o \notin F => order[o].fill = 0)
  <2>0. RowOK(o)
    BY <1>1, Zenon DEF RowInv, Sure
  <2>1. CASE o \in Owns
    <3>1. row[o] \in Settled
      BY <2>1, Zenon DEF OwnsIsFinal
    <3> QED
      BY <2>0, <2>1, <3>1, Zenon DEF RowOK, Live
  <2>2. CASE o \notin Owns
    <3>1. o \in Closes /\ row[o] = "none"
      BY <2>2, Zenon DEF Owns
    <3>2. Free(order[o])
      BY <3>1, Zenon DEF InOrder, Sending, Free, Known
    <3> QED
      BY <1>1, <2>0, <3>2, FreeIsEmpty, Zenon
  <2> QED
    BY <2>1, <2>2, Zenon
<1>3. IsFiniteSet(O) /\ Counts(order, O)
  BY <1>1, Numbers, Zenon
<1>4. Filling(order, F) = Filling(order, O)
  BY <1>1, <1>2, <1>3, FillingPart, SMTT(30)
<1> QED
  BY <1>2, <1>4, Zenon DEF Counted, Filling

(* A task is accounted only when its closes, the exits it took over and    *)
(* the stop really filled what it owned and none of these orders can fill  *)
(* any more (the accountant's check against the sum of its rows is one     *)
(* against the exchange): with any number of executors, exits and closes,  *)
(* unless a live holder lost its lock or claim and left a row open, or     *)
(* there is a close that the task does not know of.                        *)
THEOREM AccountIsRight == Spec => AccountsTheWhole
<1>1. ASSUME Held, [Next]_vars, task.status = "flat", task'.status = "accounted",
             lost = {} \/ (Aware /\ Deciding(row) = {})
      PROVE  /\ stop.fill + Filling(order, Closes \cup linked) = Owned
             /\ \A o \in Closes \cup linked : ~Live(o)
  <2>0. Types /\ Aware /\ InOrder /\ RowInv /\ FlatIsFinal
    BY <1>1, Zenon DEF Held, PassInv, Aware
  <2>1. Counted(row) + stop.fill = Owned
    BY <1>1, <2>0, AccountWrites, Zenon DEF Whole
  <2>2. OwnsIsFinal
    <3>1. CASE lost = {}
      BY <1>1, <2>0, <3>1, Zenon DEF FlatIsFinal
    <3>2. CASE Deciding(row) = {}
      <4>1. ASSUME NEW o \in Owns PROVE row[o] \in Rows /\ row[o] # "none"
        BY <2>0, Zenon DEF Owns, Types, RowType, Orders, RowInv, Recorded
      <4>2. \A o \in Owns : row[o] \notin Unresolved \cup {"manual_required"}
        BY <3>2, Zenon DEF Deciding
      <4> QED
        BY <4>1, <4>2, Zenon DEF OwnsIsFinal, Settled, Rows
    <3> QED
      BY <1>1, <3>1, <3>2, Zenon
  <2>3. /\ Counted(row) = Filling(order, Closes \cup linked)
        /\ \A o \in Closes \cup linked : ~Live(o)
    BY <1>1, <2>0, <2>2, SettledIsWhole, ZenonT(30)
  <2>4. Filling(order, Closes \cup linked) \in Nat /\ stop.fill \in Nat
    <3>1. Closes \cup linked \in SUBSET Orders
      BY <2>0, Zenon DEF Orders, Types
    <3> QED
      BY <2>0, <3>1, Numbers, EmergencyCloseAssumption, SMTT(30) DEF Types, StopType
  <2> QED
    BY <2>1, <2>3, <2>4
<1>2. Held /\ [Next]_vars =>
        [task.status = "flat" /\ task'.status = "accounted"
         /\ (lost = {} \/ (Aware /\ Deciding(row) = {})) =>
           LET orders == Closes \cup linked
           IN  /\ stop.fill + MapThenSumSet(LAMBDA o : order[o].fill, orders) = Owned
               /\ \A o \in orders : ~Live(o)]_vars
  BY <1>1, Zenon DEF Filling
<1> QED
  BY <1>2, HolderInductive, PTL DEF AccountsTheWhole, Spec
=============================================================================
