--------------------------- MODULE EmergencyClose ---------------------------
(***************************************************************************)
(* Closing one position of the execution service when its protection       *)
(* failed or a probe has to be flattened: the emergency close task and its *)
(* executors (emergency_close.py), the path that writes the task and       *)
(* closes once without it when the database is down (protective_stop.py,   *)
(* probe_close.py), the scans that write it later (emergency_close.py,     *)
(* late_fill.py), the accountant of a flat task (emergency_accounting.py)  *)
(* and the exits of the position monitor, which close the same position    *)
(* under the same order lock (orders.py, monitor.py).                      *)
(*                                                                         *)
(* The exchange fills, rejects, loses and delays orders and lists them     *)
(* late.  An action is the code between two awaits that others can see;    *)
(* reads whose answer can only become more final are one step with the     *)
(* write they lead to.                                                     *)
(***************************************************************************)
EXTENDS Integers, FiniteSetsExt

CONSTANTS
  Executors,     \* who runs passes: the path that writes the task, the workers
  Inline,        \* the executor of the path that writes the task
  Exits,         \* calls of close_position by the position monitor
  NoOne,
  Owned,         \* owned_quantity
  Foreign,       \* what an operator may add to the position by hand
  MaxRejected,   \* max_rejected_sends
  MaxCloses,     \* bound: close orders of the task
  MaxFaults      \* bound: failed passes, lost locks and stolen claims

Closes == 1..MaxCloses      \* the derived ids <entry>c1, <entry>c2, ...
Orders == Closes \cup Exits

ASSUME EmergencyCloseAssumption ==
  /\ Inline \in Executors /\ Executors \cap Exits = {}
  /\ {NoOne, "dead"} \cap (Executors \cup Exits) = {} /\ NoOne # "dead"
  /\ {Owned, MaxRejected, MaxCloses} \subseteq Nat \ {0}
  /\ {Foreign, MaxFaults} \subseteq Nat
  /\ IsFiniteSet(Exits) /\ Exits \cap Closes = {}

Unknown == {"pending", "submission_unknown"}
Unresolved == Unknown \cup {"accepted"}
Filled == {"completed", "partial"}
Rows == Unresolved \cup Filled \cup {"none", "failed", "no_fill", "manual_required"}

VARIABLES
  trade,    \* the position has a journalled trade (a probe's task)
  pos,      \* the exchange's position
  hand,     \* no operator trades it by hand (any more)
  stop,     \* the protective stop [st, fill]: none, sent, open or done
  order,    \* close orders on the exchange [st, amt, fill]:
            \* none, sent (on its way), open, done, void (rejected or lost)
  row,      \* live_order_attempts.status of each close order
  task,     \* live_emergency_closes [status, claim, rejected]; requested,
            \* sending and unknown are one to the executor: runnable
  linked,   \* exits whose task_id is the task
  early,    \* exits recorded before the task was written
  orphan,   \* exits recorded without the trade they belong to
  lock,     \* the instrument's order lock: its holder, no one, or a dead one
  pc, my,   \* the executors' passes: where they are, what they have read
  passes,   \* inline passes so far
  exit,     \* the exits: where they are
  faults,   \* faults so far, or none to come
  lost      \* history: what was lost: the lock or the claim of a live
            \* holder, a close that is out but not in the task

db == <<row, task, linked, early, orphan>>
world == <<trade, pos, hand, stop, order>>
vars == <<world, db, lock, pc, my, passes, exit, faults, lost>>

Note(n, left, goal, rej) ==
  [n |-> n, left |-> left, stops |-> "none", goal |-> goal, rej |-> rej]
Nothing == Note(0, 0, "runnable", 0)

TypeOK ==
  /\ trade \in BOOLEAN /\ hand \in BOOLEAN /\ lost \subseteq {"lock", "claim", "close"}
  /\ pos \in 0..Owned + Foreign
  /\ stop \in [st : {"none", "sent", "open", "done"}, fill : 0..Owned]
  /\ order \in [Orders -> [st : {"none", "sent", "open", "done", "void"},
                           amt : 0..Owned + Foreign, fill : 0..Owned + Foreign]]
  /\ row \in [Orders -> Rows]
  /\ task \in [status : {"none", "runnable", "manual", "flat", "accounted"},
               claim : Executors \cup {NoOne}, rejected : Nat]
  /\ linked \subseteq Exits /\ early \subseteq Exits /\ orphan \subseteq Exits
  /\ lock \in Executors \cup Exits \cup {NoOne, "dead"}
  /\ pc \in [Executors -> {"start", "create", "blind", "wait", "idle", "lock", "link",
               "follow", "stops", "position", "cancel", "intent", "sending", "send",
               "answer", "set", "done"}]
  /\ my \in [Executors -> [n : Nat, left : 0..Owned,
               stops : {"none", "sent", "open", "done"},
               goal : {"runnable", "manual", "flat"}, rej : {0, 1}]]
  /\ passes \in 0..2 /\ faults \in 0..MaxFaults
  /\ exit \in [Exits -> {"idle", "check", "row", "send", "answer", "done"}]

(* A filled entry without a stop, with a stop whose placement was not      *)
(* answered, or with a resting one.  Without a trade the entry path still  *)
(* holds the order lock.  An operator and the exits may act or not.        *)
Init ==
  /\ trade \in BOOLEAN
  /\ pos = Owned /\ hand \in BOOLEAN
  /\ stop \in [st : {"none", "sent", "open"}, fill : {0}]
  /\ order = [o \in Orders |-> [st |-> "none", amt |-> 0, fill |-> 0]]
  /\ row = [o \in Orders |-> "none"]
  /\ task = [status |-> "none", claim |-> NoOne, rejected |-> 0]
  /\ linked = {} /\ early = {} /\ orphan = {}
  /\ lock = IF trade THEN NoOne ELSE Inline
  /\ pc = [e \in Executors |-> IF e # Inline THEN "idle"
                               ELSE IF trade THEN "start" ELSE "create"]
  /\ my = [e \in Executors |-> Nothing]
  /\ passes = 0
  /\ exit \in [Exits -> {"idle", "done"}]
  /\ faults \in 0..MaxFaults /\ lost = {}
-----------------------------------------------------------------------------
(* The exchange. *)
Live(o) == order[o].st \in {"sent", "open"}
Listed(o) == order[o].st \in {"open", "done"}
Known(o) == order[o].st \in {"sent", "open", "done"}
Min2(a, b) == IF a < b THEN a ELSE b

exchangeOnly == <<trade, hand, db, lock, pc, my, passes, exit, faults, lost>>

(* A reduce-only order arrives: it is taken if there is a position. *)
Arrive(o) ==
  /\ order[o].st = "sent"
  /\ order' = [order EXCEPT ![o].st = IF pos > 0 THEN "open" ELSE "void"]
  /\ UNCHANGED <<pos, stop, exchangeOnly>>

(* It is rejected, or the request never arrives. *)
Refuse(o) ==
  /\ order[o].st = "sent"
  /\ order' = [order EXCEPT ![o].st = "void"]
  /\ UNCHANGED <<pos, stop, exchangeOnly>>

Fill(o) ==
  /\ order[o].st = "open"
  /\ \E k \in 1..Min2(order[o].amt - order[o].fill, pos) :
       /\ pos' = pos - k
       /\ order' = [order EXCEPT ![o].fill = @ + k,
                      ![o].st = IF order[o].fill + k = order[o].amt THEN "done" ELSE @]
  /\ UNCHANGED <<stop, exchangeOnly>>

(* The rest of a market order is cancelled. *)
EndOrder(o) ==
  /\ order[o].st = "open"
  /\ order' = [order EXCEPT ![o].st = "done"]
  /\ UNCHANGED <<pos, stop, exchangeOnly>>

StopArrives ==
  /\ stop.st = "sent"
  /\ stop' \in [st : {"open", "none"}, fill : {0}]
  /\ UNCHANGED <<pos, order, exchangeOnly>>

StopFills ==
  /\ stop.st = "open"
  /\ \E k \in 1..Min2(Owned - stop.fill, pos) :
       pos' = pos - k /\ stop' = [stop EXCEPT !.fill = @ + k]
  /\ UNCHANGED <<order, exchangeOnly>>

(* A triggered stop ends. *)
StopEnds ==
  /\ stop.st = "open" /\ stop.fill > 0
  /\ stop' = [stop EXCEPT !.st = "done"]
  /\ UNCHANGED <<pos, order, exchangeOnly>>

(* An operator trades the position by hand, once. *)
HandTrade ==
  /\ ~hand /\ hand' = TRUE
  /\ task.status \notin {"flat", "accounted"}
  /\ pos' \in 0..Owned + Foreign /\ pos' \in {pos - 1, pos + Foreign} \ {pos}
  /\ UNCHANGED <<trade, stop, order, db, lock, pc, my, passes, exit, faults, lost>>

Exchange ==
  \/ StopArrives \/ StopFills \/ StopEnds \/ HandTrade
  \/ \E o \in Orders : Arrive(o) \/ Refuse(o) \/ Fill(o) \/ EndOrder(o)
-----------------------------------------------------------------------------
(* Writing the task. *)
Recorded == {x \in Exits : row[x] # "none"}
Moves(e, there) == pc' = [pc EXCEPT ![e] = there]
Unlock(e) == lock' = IF lock = e THEN NoOne ELSE lock

(* A fault is counted, so that there are finitely many. *)
Fault == faults < MaxFaults /\ faults' = faults + 1

(* probe_close takes the order lock before it writes the task. *)
Start ==
  /\ pc[Inline] = "start" /\ lock = NoOne
  /\ lock' = Inline /\ Moves(Inline, "create")
  /\ UNCHANGED <<world, db, my, passes, exit, faults, lost>>

(* Closes of the trade that a task takes over. *)
Linkable == IF trade THEN Recorded \ orphan ELSE {}

(* Exits, but for the old ones, that are linked to no task and may hold a  *)
(* fill of the position.                                                   *)
BypassingIsIgnored(links, old) == {} \* mutant: the check is dropped
Bypassing(links, old) ==
  {x \in Recorded \ (links \cup old) : row[x] \notin {"failed", "no_fill"}}

(* create_task and create_task_in: one transaction.  A probe's task takes  *)
(* the exits recorded for its trade; another one stops it.                 *)
WriteTask ==
  IF task.status = "none"
  THEN /\ linked' = Linkable
       /\ task' = [task EXCEPT !.status = IF trade /\ Bypassing(linked', {}) # {}
                                          THEN "manual" ELSE "runnable"]
       /\ early' = Recorded
       /\ UNCHANGED <<row, orphan>>
  ELSE UNCHANGED db

(* The task is written: the entry path runs a pass itself, a probe leaves  *)
(* the task to the worker.                                                 *)
CreateTask ==
  /\ pc[Inline] = "create"
  /\ WriteTask
  /\ IF trade THEN Moves(Inline, "done") /\ Unlock(Inline)
              ELSE Moves(Inline, "idle") /\ UNCHANGED lock
  /\ UNCHANGED <<world, my, passes, exit, faults, lost>>

(* It is not, as far as the caller can tell (the answer of a commit can    *)
(* get lost): a probe tries again, the entry path closes once without the  *)
(* database.  The latter, without a task, is not counted as a fault.       *)
CreateFails ==
  /\ pc[Inline] = "create"
  /\ \/ WriteTask /\ Fault
     \/ UNCHANGED db /\ IF trade THEN Fault ELSE UNCHANGED faults
  /\ IF trade THEN Moves(Inline, "start") /\ Unlock(Inline)
              ELSE Moves(Inline, "blind") /\ UNCHANGED lock
  /\ UNCHANGED <<world, my, passes, exit, lost>>

(* The order o goes out; the exchange refuses an id it has seen. *)
Submit(o, amount) ==
  order' = IF Known(o) THEN order
           ELSE [order EXCEPT ![o] = [st |-> "sent", amt |-> amount, fill |-> 0]]

(* _close_once_without_database: <entry>c1, without a row; a task that is  *)
(* there all the same does not know of it.                                 *)
BlindClose ==
  /\ pc[Inline] = "blind"
  /\ Submit(1, Owned)
  /\ lost' = IF task.status = "none" \/ Known(1) THEN lost ELSE lost \cup {"close"}
  /\ Moves(Inline, "wait")
  /\ UNCHANGED <<trade, pos, hand, stop, db, lock, my, passes, exit, faults>>

(* The answer, or none, is only reported; the lock is released. *)
BlindDone ==
  /\ pc[Inline] = "wait"
  /\ Moves(Inline, "done") /\ Unlock(Inline)
  /\ UNCHANGED <<world, db, my, passes, exit, faults, lost>>

(* attempt_state_from_order. *)
StateOf(o) ==
  CASE order[o].st = "open" -> "accepted"
    [] order[o].st = "done" /\ order[o].fill > 0 -> "completed"
    [] OTHER -> "no_fill"

(* The process dies before the inline passes; the lock stays behind. *)
CreatorDies ==
  /\ pc[Inline] \in {"create", "blind", "wait", "idle"} /\ Fault
  /\ Moves(Inline, "done")
  /\ lock' = IF lock = Inline THEN "dead" ELSE lock
  /\ UNCHANGED <<world, db, my, passes, exit, lost>>

(* adopted_close: what the task takes a listed order for; one that is      *)
(* terminal without its filled amount is for an operator.                  *)
Adopted(o) ==
  {StateOf(o)} \cup (IF order[o].st = "done" THEN {"manual_required"} ELSE {})

(* create_task for an entry without a trade, with the closes in `rows'. *)
BuildTask(rows) ==
  /\ task.status = "none" /\ ~trade
  /\ task' = [task EXCEPT !.status = "runnable"]
  /\ row' = rows /\ early' = Recorded
  /\ UNCHANGED <<world, linked, orphan, lock, pc, my, passes, exit, faults>>

(* recover: after an outage a worker finds a close of the entry on the     *)
(* exchange and builds the task with it.  It takes no order lock.          *)
Recover ==
  /\ Listed(1)
  /\ \E s \in Adopted(1) : BuildTask([row EXCEPT ![1] = s])
  /\ UNCHANGED lost

(* _resolve_locked: a reconciliation scan finds the filled entry still     *)
(* unresolved and, with nothing else unresolved on the instrument, builds  *)
(* the task with the close the exchange lists at that moment.  One that is *)
(* on its way, or not listed yet, is missed.                               *)
LateFill ==
  /\ lock = NoOne
  /\ \A x \in Exits : row[x] \notin Unresolved \cup {"manual_required"}
  /\ \/ /\ Listed(1) /\ UNCHANGED lost
        /\ \E s \in Adopted(1) : BuildTask([row EXCEPT ![1] = s])
     \/ /\ lost' = IF Known(1) THEN lost \cup {"close"} ELSE lost
        /\ BuildTask(row)

Creator == Start \/ CreateTask \/ CreateFails \/ BlindClose \/ BlindDone
Creation == Creator \/ CreatorDies \/ Recover \/ LateFill
-----------------------------------------------------------------------------
(* A pass. *)
InPass(e) == pc[e] \in {"lock", "link", "follow", "stops", "position", "cancel",
                        "intent", "sending", "send", "answer", "set"}

(* claim: a runnable task that nobody else holds.  The claim of another    *)
(* executor can be taken when it has expired, which is a fault if the      *)
(* other one is still at work.                                             *)
CanClaimForever(e) == \* mutant: no expiry
  task.claim \in {NoOne, e} /\ UNCHANGED <<faults, lost>>
CanClaim(e) ==
  IF task.claim \in Executors \ {e} /\ InPass(task.claim)
  THEN Fault /\ lost' = lost \cup {"claim"} ELSE UNCHANGED <<faults, lost>>

Claim(e) ==
  /\ pc[e] = "idle" /\ task.status = "runnable" /\ CanClaim(e)
  /\ task' = [task EXCEPT !.claim = e]
  /\ IF e = Inline
     THEN passes < 2 /\ passes' = passes + 1 /\ Moves(e, "link")
     ELSE UNCHANGED passes /\ Moves(e, "lock")
  /\ UNCHANGED <<world, row, linked, early, orphan, lock, my, exit>>

(* The inline path ends: its passes are used up, or the task is not its to *)
(* run.                                                                    *)
InlineEnds ==
  /\ pc[Inline] = "idle" /\ (passes > 0 \/ task.claim # NoOne \/ task.status # "runnable")
  /\ Moves(Inline, "done") /\ Unlock(Inline)
  /\ UNCHANGED <<world, db, my, passes, exit, faults, lost>>

TakeLock(e) ==
  /\ pc[e] = "lock" /\ lock = NoOne
  /\ lock' = e /\ Moves(e, "link")
  /\ UNCHANGED <<world, db, my, passes, exit, faults, lost>>

(* The pass ends with a write of the task. *)
Ends(e, goal) ==
  /\ my' = [my EXCEPT ![e] = Note(0, 0, goal, 0)]
  /\ Moves(e, "set")

(* lock_busy: the status is written back and the claim released. *)
LockBusy(e) ==
  /\ pc[e] = "lock" /\ lock # NoOne
  /\ Ends(e, "runnable")
  /\ UNCHANGED <<world, db, lock, passes, exit, faults, lost>>

(* link_late_closes: exits of the trade become closes of the task; another *)
(* one stops it.                                                           *)
Link(e) ==
  /\ pc[e] = "link"
  /\ linked' = linked \cup Linkable
  /\ IF Bypassing(linked', early) # {}
     THEN Ends(e, "manual")
     ELSE Moves(e, "follow") /\ UNCHANGED my
  /\ UNCHANGED <<world, row, task, early, orphan, lock, passes, exit, faults, lost>>

(* The closes the task owns. *)
Owns == {c \in Closes : row[c] # "none"} \cup linked

(* Rows after the orders in `seen' were found on the exchange. *)
Followed(seen) ==
  [o \in Orders |-> IF o \in seen /\ row[o] \in Unresolved THEN StateOf(o) ELSE row[o]]

Counted(rows) == MapThenSumSet(LAMBDA o : order[o].fill, {o \in Owns : rows[o] \in Filled})

(* What the task still owns. *)
LeftForgetsFills(rows) == Owned \* mutant: the remainder is not reduced
Left(rows) == IF Counted(rows) < Owned THEN Owned - Counted(rows) ELSE 0

(* Closes that decide the pass: unknown, on the book, or for an operator. *)
Deciding(rows) == {o \in Owns : rows[o] \in Unresolved \cup {"manual_required"}}

(* _follow_closes: every unresolved close of the task is looked up.  One   *)
(* that is unknown or still on the book ends the pass without a send.      *)
Follow(e) ==
  /\ pc[e] = "follow"
  /\ row' = Followed({o \in Owns : Listed(o)})
  /\ IF Deciding(row') # {}
     THEN Ends(e, IF \E o \in Owns : row'[o] = "manual_required"
                  THEN "manual" ELSE "runnable")
     ELSE /\ Moves(e, "stops")
          /\ \E left \in 0..Owned :
               /\ left = Left(row')
               /\ my' = [my EXCEPT ![e] =
                           Note(Cardinality(Owns) + 1, left, "runnable", 0)]
  /\ UNCHANGED <<world, task, linked, early, orphan, lock, passes, exit, faults, lost>>

(* The exchange does not list an order that it has, yet. *)
FollowMisses(e) ==
  /\ pc[e] = "follow"
  /\ Fault
  /\ \E o \in Owns : Listed(o) /\ row[o] \in Unresolved
  /\ row' = row /\ Ends(e, "runnable")
  /\ UNCHANGED <<world, task, linked, early, orphan, lock, passes, exit, lost>>

(* A close that stays unknown beyond the deadline needs an operator. *)
Overdue(e) ==
  /\ pc[e] = "follow"
  /\ \E o \in Owns : row[o] \in Unknown /\ ~Listed(o)
  /\ row' = Followed({o \in Owns : Listed(o)})
  /\ Ends(e, "manual")
  /\ UNCHANGED <<world, task, linked, early, orphan, lock, passes, exit, faults, lost>>

(* So does one that is reported terminal without its filled amount. *)
FollowNoAmount(e) ==
  /\ pc[e] = "follow"
  /\ \E o \in Owns : /\ row[o] \in Unresolved /\ order[o].st = "done"
                     /\ row' = [row EXCEPT ![o] = "manual_required"]
  /\ Ends(e, "manual")
  /\ UNCHANGED <<world, task, linked, early, orphan, lock, passes, exit, faults, lost>>

(* A final fill of the stop reduces the remainder, to no less than zero. *)
AfterStopNoFloor(left) == IF stop.st = "done" THEN left - stop.fill ELSE left \* mutant
AfterStop(left) ==
  IF stop.st # "done" THEN left ELSE IF stop.fill < left THEN left - stop.fill ELSE 0

(* The stops of the entry; one that is still filling ends the pass. *)
ReadStops(e) ==
  /\ pc[e] = "stops"
  /\ IF stop.st = "open" /\ stop.fill > 0
     THEN Ends(e, "runnable")
     ELSE /\ Moves(e, "position")
          /\ my' = [my EXCEPT ![e].stops = stop.st,
                      ![e].left = AfterStop(@)]
  /\ UNCHANGED <<world, db, lock, passes, exit, faults, lost>>

(* The position decides: flat, in need of an operator, or closed by        *)
(* exactly what the task still owns.                                       *)
ReadPosition(e) ==
  /\ pc[e] = "position"
  /\ \/ pos = 0 /\ my[e].stops = "open" /\ Moves(e, "cancel") /\ UNCHANGED my
     \/ pos = 0 /\ my[e].stops # "open" /\ Ends(e, "flat")
     \/ pos > 0 /\ pos # my[e].left /\ Ends(e, "manual")
     \/ pos > 0 /\ pos = my[e].left /\ Moves(e, "intent") /\ UNCHANGED my
  /\ UNCHANGED <<world, db, lock, passes, exit, faults, lost>>

(* The stop is cancelled; a later pass confirms flat. *)
CancelStop(e) ==
  /\ pc[e] = "cancel" /\ stop.st = "open"
  /\ stop' = [stop EXCEPT !.st = "done"]
  /\ Ends(e, "runnable")
  /\ UNCHANGED <<trade, pos, hand, order, db, lock, passes, exit, faults, lost>>

(* record_close_intent; the id is unique.  (Quantities are counted in      *)
(* steps of the market's precision, so cutting to it changes nothing ...   *)
Intent(e) ==
  /\ pc[e] = "intent" /\ my[e].n \in Closes /\ row[my[e].n] = "none"
  /\ row' = [row EXCEPT ![my[e].n] = "pending"]
  /\ Moves(e, "sending")
  /\ UNCHANGED <<world, task, linked, early, orphan, lock, my, passes, exit, faults, lost>>

(* ... unless the remainder is less than a step: then for an operator.)    *)
RoundsToZero(e) ==
  /\ pc[e] = "intent"
  /\ Ends(e, "manual")
  /\ UNCHANGED <<world, db, lock, passes, exit, faults, lost>>

SetSendingUnchecked(e) == \* mutant: the claim is not checked
  /\ pc[e] = "sending"
  /\ Moves(e, "send")
  /\ UNCHANGED <<world, db, lock, my, passes, exit, faults, lost>>

(* The claim is checked once more before the exchange is called. *)
SetSending(e) ==
  /\ pc[e] = "sending" /\ task.claim = e
  /\ Moves(e, "send")
  /\ UNCHANGED <<world, db, lock, my, passes, exit, faults, lost>>

Send(e) ==
  /\ pc[e] = "send"
  /\ Submit(my[e].n, my[e].left)
  /\ my' = [my EXCEPT ![e].rej = IF Known(my[e].n) THEN 1 ELSE 0]
  /\ Moves(e, "answer")
  /\ UNCHANGED <<trade, pos, hand, stop, db, lock, passes, exit, faults, lost>>

(* The answer of create_market_order: an order, which may be older than    *)
(* its state on the exchange; an explicit rejection, also of an id that is *)
(* known already; or nothing certain.                                      *)
Accepted(o, answer) ==
  \/ Listed(o) /\ answer = "accepted"
  \/ order[o].st = "done" /\ order[o].fill > 0 /\ answer = "completed"

Answer(e) ==
  LET c == my[e].n IN
  /\ pc[e] = "answer"
  /\ \/ \E a \in {"accepted", "completed"} :
          Accepted(c, a) /\ row' = [row EXCEPT ![c] = a] /\ Ends(e, "runnable")
     \/ row' = [row EXCEPT ![c] = "submission_unknown"] /\ Ends(e, "runnable")
     \/ /\ order[c].st = "void" \/ (my[e].rej = 1 /\ Listed(c))
        /\ row' = [row EXCEPT ![c] = "failed"]
        /\ my' = [my EXCEPT ![e] = Note(0, 0,
                     IF task.rejected + 1 >= MaxRejected THEN "manual" ELSE "runnable", 1)]
        /\ Moves(e, "set")
  /\ UNCHANGED <<world, task, linked, early, orphan, lock, passes, exit, faults, lost>>

(* The pass leaves with the lock, unless it is an inline one. *)
Leaves(e) ==
  /\ my' = [my EXCEPT ![e] = Nothing]
  /\ Moves(e, "idle")
  /\ IF e = Inline THEN UNCHANGED lock ELSE Unlock(e)

SetTaskUnowned(e) == \* mutant: the claim is not checked
  /\ pc[e] = "set"
  /\ task' = [status |-> my[e].goal, claim |-> NoOne,
              rejected |-> task.rejected + my[e].rej]
  /\ Leaves(e)
  /\ UNCHANGED <<world, row, linked, early, orphan, passes, exit, faults, lost>>

(* update_task by the owner of the claim, which it releases. *)
SetTask(e) ==
  /\ pc[e] = "set" /\ task.claim = e
  /\ task' = [status |-> my[e].goal, claim |-> NoOne,
              rejected |-> task.rejected + my[e].rej]
  /\ Leaves(e)
  /\ UNCHANGED <<world, row, linked, early, orphan, passes, exit, faults, lost>>

(* An exception: the pass is over, and so is an inline path. *)
Raises(e) ==
  /\ my' = [my EXCEPT ![e] = Nothing]
  /\ Moves(e, IF e = Inline THEN "done" ELSE "idle")

(* The claim was lost, the id is taken, or the stop is gone. *)
PassRaises(e) ==
  /\ \/ pc[e] \in {"sending", "set"} /\ task.claim # e
     \/ pc[e] = "intent" /\ my[e].n \in Closes /\ row[my[e].n] # "none"
     \/ pc[e] = "cancel" /\ stop.st # "open"
  /\ Raises(e) /\ Unlock(e)
  /\ UNCHANGED <<world, db, passes, exit, faults, lost>>

(* A request fails, or the process dies and the lock stays behind. *)
PassFails(e) ==
  /\ InPass(e) /\ Fault
  /\ Raises(e)
  /\ Unlock(e) \/ (lock = e /\ lock' = "dead")
  /\ UNCHANGED <<world, db, passes, exit, lost>>

(* The order lock runs out: of a dead holder, or of a live one whose       *)
(* heartbeat is late (OrderLock).                                          *)
LockExpires ==
  /\ lock = "dead" /\ lock' = NoOne
  /\ UNCHANGED <<world, db, pc, my, passes, exit, faults, lost>>

LockLost ==
  /\ lock \in Executors \cup Exits /\ Fault
  /\ lock' = NoOne /\ lost' = lost \cup {"lock"}
  /\ UNCHANGED <<world, db, pc, my, passes, exit>>

PassStep(e) ==
  \/ Claim(e) \/ TakeLock(e) \/ LockBusy(e) \/ Link(e) \/ Follow(e)
  \/ ReadStops(e) \/ ReadPosition(e) \/ CancelStop(e) \/ Intent(e) \/ RoundsToZero(e)
  \/ SetSending(e) \/ Send(e) \/ Answer(e) \/ SetTask(e) \/ PassRaises(e)
-----------------------------------------------------------------------------
(* The closes and stops filled exactly what the task owned. *)
WholeIfFlat == pos = 0 \* mutant: a flat position is taken for a whole round trip
Whole == Counted(row) + stop.fill = Owned

(* The accountant publishes the round trip of a flat task if it is whole.  *)
Account ==
  /\ task.status = "flat"
  /\ ~(stop.st = "open" /\ stop.fill > 0)
  /\ task' = [task EXCEPT !.status =
                IF Whole THEN "accounted" ELSE "manual"]
  /\ UNCHANGED <<world, row, linked, early, orphan, lock, pc, my, passes, exit, faults, lost>>

(* Its deadline passes before the exchange lists every order. *)
AccountGivesUp ==
  /\ task.status = "flat"
  /\ task' = [task EXCEPT !.status = "manual"]
  /\ UNCHANGED <<world, row, linked, early, orphan, lock, pc, my, passes, exit, faults, lost>>
-----------------------------------------------------------------------------
(* The exits of the position monitor. *)
ExitMoves(x, there) == exit' = [exit EXCEPT ![x] = there]
passOnly == <<task, linked, early, pc, my, passes>>

(* A tick finds a position past its exit.  An instrument with a recorded   *)
(* close whose outcome is open is left alone ...                           *)
ExitStart(x) ==
  /\ exit[x] = "idle" /\ pos > 0 /\ lock = NoOne
  /\ \A y \in Exits \ linked : row[y] \notin Unresolved
  /\ lock' = x /\ ExitMoves(x, "check")
  /\ UNCHANGED <<world, row, passOnly, orphan, faults, lost>>

(* ... unless the recorded closes cannot be read. *)
ExitStartUnread(x) ==
  /\ exit[x] = "idle" /\ pos > 0 /\ lock = NoOne
  /\ lock' = x /\ ExitMoves(x, "check")
  /\ UNCHANGED <<world, row, passOnly, orphan, faults, lost>>

(* close_position leaves the position to an active task, if the database   *)
(* can tell, and closes what the exchange shows.                           *)
ExitCheck(x) ==
  /\ exit[x] = "check"
  /\ \/ /\ pos = 0 \/ task.status \in {"runnable", "manual"}
        /\ ExitMoves(x, "done") /\ Unlock(x) /\ UNCHANGED order
     \/ /\ pos > 0
        /\ order' = [order EXCEPT ![x].amt = pos]
        /\ ExitMoves(x, "row") /\ UNCHANGED lock
  /\ UNCHANGED <<trade, pos, hand, stop, row, passOnly, orphan, faults, lost>>

(* create_close_attempt; without a database the exit goes ahead, and the   *)
(* row lacks the trade when it could not be found.                         *)
ExitRow(x) ==
  /\ exit[x] = "row"
  /\ \/ UNCHANGED <<row, orphan>>
     \/ /\ row' = [row EXCEPT ![x] = "pending"]
        /\ orphan' = orphan \/ (trade /\ orphan' = orphan \cup {x})
  /\ ExitMoves(x, "send")
  /\ UNCHANGED <<world, passOnly, lock, faults, lost>>

ExitSend(x) ==
  /\ exit[x] = "send"
  /\ Submit(x, order[x].amt)
  /\ ExitMoves(x, "answer")
  /\ UNCHANGED <<trade, pos, hand, stop, row, passOnly, orphan, lock, faults, lost>>

FilledUp(x) == order[x].st = "done" /\ order[x].fill = order[x].amt

(* What the exit, or a later tick, makes of the order; the fills need the  *)
(* trade they belong to.                                                   *)
ExitResult(x, known, whole) ==
  CASE order[x].st = "done" /\ order[x].fill = 0 -> "failed"
    [] order[x].st = "done" /\ order[x].fill > 0 /\ known ->
         IF whole THEN "completed" ELSE "partial"
    [] OTHER -> "accepted"

(* A best-effort mark, and after a whole close the stop is cancelled. *)
ExitMarks(x, status, whole) ==
  /\ row' \in {row, IF row[x] = "none" THEN row ELSE [row EXCEPT ![x] = status]}
  /\ IF whole /\ stop.st = "open"
     THEN stop' \in {stop, [stop EXCEPT !.st = "done"]}
     ELSE UNCHANGED stop

ExitAnswer(x) ==
  /\ exit[x] = "answer"
  /\ \/ /\ Listed(x)
        /\ ExitMarks(x, ExitResult(x, trade /\ x \notin orphan, FilledUp(x)), FilledUp(x))
     \/ order[x].st = "void" /\ ExitMarks(x, "failed", FALSE)
     \/ ExitMarks(x, "submission_unknown", FALSE)
  /\ ExitMoves(x, "done") /\ Unlock(x)
  /\ UNCHANGED <<trade, pos, hand, order, passOnly, orphan, faults, lost>>

(* The process dies in the middle of it. *)
ExitFails(x) ==
  /\ exit[x] \notin {"idle", "done"}
  /\ ExitMoves(x, "done")
  /\ lock' = IF lock = x THEN "dead" ELSE lock
  /\ UNCHANGED <<world, row, passOnly, orphan, faults, lost>>

(* _recover_close_attempts: a later tick finds the order terminal, and the *)
(* trade.  It takes the close for whole only if the position is gone.      *)
ExitRecover(x) ==
  /\ exit[x] = "done" /\ x \notin linked /\ row[x] \in Unresolved
  /\ order[x].st = "done"
  /\ LET whole == trade /\ FilledUp(x) /\ pos = 0
     IN  ExitMarks(x, ExitResult(x, trade, whole), whole)
  /\ orphan' = IF row'[x] \in Filled THEN orphan \ {x} ELSE orphan
  /\ UNCHANGED <<trade, pos, hand, order, passOnly, lock, exit, faults, lost>>

ExitStep(x) == ExitCheck(x) \/ ExitRow(x) \/ ExitSend(x) \/ ExitAnswer(x)
-----------------------------------------------------------------------------
Next ==
  \/ Exchange \/ Creation \/ InlineEnds \/ LockExpires \/ LockLost
  \/ Account \/ AccountGivesUp
  \/ \E e \in Executors : PassStep(e) \/ Overdue(e) \/ FollowNoAmount(e)
                            \/ FollowMisses(e) \/ PassFails(e)
  \/ \E x \in Exits : ExitStart(x) \/ ExitStartUnread(x) \/ ExitStep(x)
                        \/ ExitFails(x) \/ ExitRecover(x)

Spec == Init /\ [][Next]_vars

(* Steps of which there are finitely many: the exchange decides every      *)
(* order and ends a market order and a triggered stop; an exit that began  *)
(* ends; the lock of a dead holder expires; the accountant looks at a flat *)
(* task.                                                                   *)
Progress ==
  \/ \E o \in Orders : Arrive(o) \/ Refuse(o) \/ Fill(o) \/ EndOrder(o)
  \/ \E x \in Exits : ExitStep(x)
  \/ StopEnds \/ LockExpires \/ Account

(* The service runs: the path that writes the task and an executor whose   *)
(* pass was started go on, the worker comes back every two seconds, and    *)
(* the deadline of an unknown close passes.                                *)
Fairness ==
  /\ WF_vars(Creator \/ PassStep(Inline) \/ InlineEnds)
  /\ \A e \in Executors \ {Inline} : WF_vars(PassStep(e)) /\ SF_vars(Overdue(e))
  /\ WF_vars(Progress)
-----------------------------------------------------------------------------
Verdict == CASE task.status \in {"none", "runnable"} -> "open"
             [] task.status = "manual" -> "operator"
             [] OTHER -> task.status

Promise == INSTANCE FlattenOnce
             WITH working <- {c \in Closes : Live(c)}, verdict <- Verdict

(* The closes of the task are all known to it. *)
Aware == "close" \notin lost

(* The task implements FlattenOnce as long as it knows of the close that   *)
(* was sent without it: whatever the executors, crashes, lost locks and    *)
(* stolen claims do, a close of the task is sent only when every earlier   *)
(* one is terminal, and after confirmed_flat none is sent or fills.        *)
KeepsPromise == Promise!Init /\ [][Aware' => Promise!Next]_(Promise!vars)

(* An executor that sends c unless it fails, and a close that may fill now *)
(* or after such a send.                                                   *)
MaySend(e, c) ==
  my[e].n = c /\ (pc[e] = "send" \/ (pc[e] = "sending" /\ task.claim = e))
Risky(c) == Live(c) \/ \E e \in Executors : MaySend(e, c)

(* Executors that found every close of the task terminal. *)
Decided(e) ==
  \/ pc[e] \in {"stops", "position", "cancel", "intent"}
  \/ pc[e] = "set" /\ my[e].goal = "flat"

OneRisky == \A c, d \in Closes : Risky(c) /\ Risky(d) => c = d

RiskyIsUnresolved ==
  \A c \in Closes : Risky(c) /\ task.status # "none" => row[c] \in Unresolved

HolderIsRight ==
  /\ \A e \in Executors : task.claim = e /\ Decided(e) => \A c \in Closes : ~Risky(c)
  /\ task.claim # NoOne => task.status = "runnable"

FlatIsSafe == task.status \in {"flat", "accounted"} => \A c \in Closes : ~Risky(c)

BeforeTheTask ==
  /\ task.status = "none" =>
       /\ \A e \in Executors : ~InPass(e)
       /\ \A c \in Closes : row[c] = "none" /\ (c # 1 => ~Known(c))
  /\ pc[Inline] \in {"start", "create", "blind"} /\ task.status = "none" => ~Known(1)

Sending ==
  /\ \A c \in Closes : row[c] = "none" /\ task.status # "none" => ~Known(c)
  /\ \A e \in Executors :
       /\ pc[e] \in {"sending", "send", "answer"} =>
            my[e].n \in Closes /\ row[my[e].n] # "none"
       /\ pc[e] \in {"sending", "send"} => ~Known(my[e].n) /\ row[my[e].n] = "pending"
       /\ pc[e] = "answer" => my[e].rej = 0
  /\ \A e, f \in Executors :
       /\ e # f /\ pc[e] \in {"sending", "send", "answer"}
       /\ pc[f] \in {"sending", "send", "answer"}
       => my[e].n # my[f].n

InOrder ==
  /\ OneRisky /\ RiskyIsUnresolved /\ HolderIsRight /\ FlatIsSafe
  /\ BeforeTheTask /\ Sending

(* Why KeepsPromise holds.  The row of a close is unresolved as long as it *)
(* may fill; an executor that finds all rows resolved knows that no close  *)
(* may fill, and this stays true while it holds the claim, since whoever   *)
(* else reaches a send must hold the claim after its row was written.      *)
PassInv == Aware => InOrder

(* The closes of a task that knows of all of them never fill more than the *)
(* task owns, also when somebody adds to the position while it is being    *)
(* closed.                                                                 *)
ClosesWithinOwned ==
  Aware => MapThenSumSet(LAMBDA c : order[c].fill, Closes) <= Owned

(* A task that knows of all its closes is accounted only when these, the   *)
(* exits it took over and the stop really filled what it owned, whatever   *)
(* their rows say, and none of these orders can fill any more.  (A stop    *)
(* whose placement was never answered can land after the last pass looked  *)
(* for it.)  When a live holder lost its lock or its claim, it may have    *)
(* reopened a row or linked an exit since: then this is so if every row of *)
(* the task is final.                                                      *)
AccountsTheWhole ==
  [][task.status = "flat" /\ task'.status = "accounted"
     /\ (lost = {} \/ (Aware /\ Deciding(row) = {})) =>
       LET orders == Closes \cup linked
       IN  /\ stop.fill + MapThenSumSet(LAMBDA o : order[o].fill, orders) = Owned
           /\ \A o \in orders : ~Live(o)]_vars

(* A pass never sends a close beside an exit of the monitor that may still *)
(* fill, if the exit was recorded after the task was written and nobody    *)
(* lost the order lock.                                                    *)
NoSendBesideAnExit ==
  [][\A c \in Closes :
       row[c] = "none" /\ row'[c] = "pending" /\ "lock" \notin lost =>
         \A x \in Recorded \ (early \ linked) : ~Live(x)]_vars

(* The bound on the close orders is reached. *)
OutOfIds == \E e \in Executors : pc[e] = "intent" /\ my[e].n \notin Closes

(* A task does not hang on a dead or stalled executor, a lost answer, a    *)
(* held lock or an exit: it ends accounted or with an operator, unless     *)
(* MaxCloses close orders in a row left a remainder.                       *)
TaskEnds ==
  Fairness => (task.status = "runnable" ~>
                 task.status \in {"accounted", "manual"} \/ OutOfIds)

(* An executor follows the previous close order before it may send another *)
(* (emergency_close.py, _pass): no two closes of the task can fill at once.*)
OneCloseAtATime == \A c, d \in Closes : Live(c) /\ Live(d) => c = d
=============================================================================
