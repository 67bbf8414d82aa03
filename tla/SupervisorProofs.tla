-------------------------- MODULE SupervisorProofs --------------------------
(***************************************************************************)
(* The entry gate and the workers behind it, for any number of workers and *)
(* any timeouts: an open gate means running and recently heard critical    *)
(* workers, a stopped supervisor keeps it shut and spawns nobody, and a    *)
(* worker is restarted at most as often in a window as the policy allows.  *)
(*                                                                         *)
(* The argument is about gate.ready rather than gate.open: the marks are   *)
(* set one by one over several passes, and each pass checks every marked   *)
(* worker again before it sleeps (Marked, Fresh).  That the ages of the    *)
(* last restarts are a set loses none of them: no two restarts of a worker *)
(* have the same age (EveryRestartCounts).                                 *)
(***************************************************************************)
EXTENDS Supervisor, FiniteSetTheorems, FunctionTheorems, TLAPS

MonType == [pc : {"sleep", "scan", "await", "returned"}, queue : Seq(Workers),
            age : 0..MaxPass, slept : BOOLEAN]

(* What the proof needs of TypeOK; the gate opens only when every critical *)
(* worker is marked, and a worker that is not enabled stays stopped.       *)
Types ==
  /\ gate \in GateType /\ (gate.open => gate.ready = Critical)
  /\ state \in [Workers -> {"running", "failed", "stopped", "exhausted"}]
  /\ \A w \in Workers \ Enabled : state[w] = "stopped"
  /\ task \in [Workers -> {"none", "alive", "cancelling", "done"}]
  /\ succeeded \in [Workers -> BOOLEAN]
  /\ beat \in [Workers -> Nat] /\ failures \in [Workers -> Nat]
  /\ mon \in MonType

Waiting(w) == \E i \in 1..Len(mon.queue) : mon.queue[i] = w

Nap == IF mon.slept THEN 1 ELSE 0

(* How long a marked worker may have been silent, by where the pass is. *)
Fresh(w) ==
  /\ mon.pc = "sleep" => beat[w] <= StaleTimeout + MaxPass + Nap
  /\ mon.pc \in {"scan", "await"} =>
       /\ beat[w] <= StaleTimeout + 1 + MaxPass + mon.age
       /\ ~Waiting(w) => beat[w] <= StaleTimeout + mon.age

Marked == \A w \in gate.ready : state[w] = "running" /\ succeeded[w] /\ Fresh(w)

(* A worker that is being cancelled has lost its mark. *)
AwaitsUnmarked ==
  mon.pc = "await" => mon.queue # <<>> /\ Current \in Enabled \ gate.ready

Shut == ~gate.open /\ gate.ready = {}

(* After stop() nobody runs, and who failed since is not looked at again. *)
StaysStopped ==
  stopping => /\ Shut
              /\ \A w \in Workers : /\ state[w] # "running"
                                    /\ state[w] = "failed" /\ mon.pc \in {"scan", "await"}
                                         => ~Waiting(w)

Once(q) == \A i, j \in 1..Len(q) : q[i] = q[j] => i = j

IInv ==
  /\ Types /\ Marked /\ AwaitsUnmarked /\ StaysStopped
  /\ mon.pc = "returned" => Shut
  /\ Once(mon.queue)

(* Closing the gate clears the marks. *)
LEMMA CloseShuts ==
  ASSUME NEW g \in GateType
  PROVE  LET h == Close(g, "operational")
         IN  h \in GateType /\ ~h.open /\ h.ready = {}
  BY SupervisorAssumption, ZenonT(30) DEF Close, EvaluateState, ShouldBeOpen, GateType

(* A mark adds the marked worker, and opens the gate only with every mark. *)
LEMMA MarkAdds ==
  ASSUME NEW g \in GateType, NEW w \in Critical
  PROVE  LET h == MarkReady(g, w)
         IN  /\ h \in GateType /\ (h.open => h.ready = Critical)
             /\ h.ready = g.ready \cup {w}
<1> DEFINE ready  == g.ready \cup {w}
           closed == g.closed /\ ready # Critical
           rest   == IF ready = Critical THEN {} ELSE g.reasons
           h1     == [g EXCEPT !.ready = ready, !.closed = closed, !.reasons = rest]
           opens  == ~h1.closed /\ h1.ready = Critical /\ h1.blockers = {}
<1>1. /\ ready \in SUBSET Critical /\ rest \in SUBSET Reasons
      /\ closed \in BOOLEAN /\ opens \in BOOLEAN
  BY Zenon DEF GateType
<1>2. MarkReady(g, w) = [h1 EXCEPT !.open = opens]
  BY Zenon DEF MarkReady, EvaluateState, ShouldBeOpen
<1>3. h1 \in GateType /\ h1.ready = ready
  <2> HIDE DEF ready, closed, rest
  <2> DEFINE r1 == [g EXCEPT !.ready = ready]
             r2 == [r1 EXCEPT !.closed = closed]
             r3 == [r2 EXCEPT !.reasons = rest]
  <2>1. r1 \in GateType /\ r1.ready = ready
    BY <1>1, Zenon DEF GateType
  <2> HIDE DEF r1
  <2>2. r2 \in GateType /\ r2.ready = ready
    BY <1>1, <2>1, Zenon DEF GateType
  <2> HIDE DEF r2
  <2>3. r3 \in GateType /\ r3.ready = ready
    BY <1>1, <2>2, Zenon DEF GateType
  <2>4. h1 = r3
    BY Zenon DEF r1, r2
  <2> QED
    BY <2>3, <2>4, Zenon
<1>4. opens => h1.ready = Critical
  BY Zenon
<1> HIDE DEF h1, opens
<1>5. /\ [h1 EXCEPT !.open = opens] \in GateType
      /\ [h1 EXCEPT !.open = opens].open = opens
      /\ [h1 EXCEPT !.open = opens].ready = h1.ready
  BY <1>1, <1>3, Zenon DEF GateType
<1> QED
  BY <1>2, <1>3, <1>4, <1>5, Zenon

(* A health check adds at most the mark of the worker it looks at, and     *)
(* takes all marks when this worker is stale, ended or erring.             *)
LEMMA CheckedMarks ==
  ASSUME Types, NEW w \in Workers
  PROVE  LET h == CheckedGate(w)
         IN  /\ h \in GateType /\ (h.open => h.ready = Critical)
             /\ h.ready \subseteq gate.ready \cup {w}
             /\ w \in h.ready =>
                  ~Stale(w) /\ task[w] # "done" /\ ~(failures[w] > 0)
             /\ w \in h.ready => w \in gate.ready \/ succeeded[w]
<1> DEFINE m == IF /\ w \in Critical /\ succeeded[w] /\ failures[w] = 0
                   /\ AsOfPass(beat[w]) <= StaleTimeout
                THEN MarkReady(gate, w) ELSE gate
<1>1. /\ m \in GateType /\ (m.open => m.ready = Critical)
      /\ m.ready \subseteq gate.ready \cup {w}
      /\ w \in m.ready => w \in gate.ready \/ succeeded[w]
  <2>1. gate \in GateType /\ (gate.open => gate.ready = Critical)
    BY Zenon DEF Types
  <2>2. CASE m = gate
    BY <2>1, <2>2, Zenon
  <2>3. CASE m = MarkReady(gate, w) /\ w \in Critical /\ succeeded[w]
    <3> HIDE DEF m
    <3> QED
      BY <2>1, <2>3, MarkAdds, Zenon
  <2> QED
    BY <2>2, <2>3, Zenon
<1>2. Close(m, "operational") \in GateType /\ ~Close(m, "operational").open
      /\ Close(m, "operational").ready = {}
  BY <1>1, CloseShuts, Zenon
<1>3. CheckedGate(w) = IF w \in Critical /\ (Stale(w) \/ task[w] = "done" \/ failures[w] > 0)
                       THEN Close(m, "operational") ELSE m
  BY Zenon DEF CheckedGate
<1>4. \A v \in m.ready : v \in Critical
  BY <1>1, Zenon DEF GateType
<1> HIDE DEF m
<1> QED
  BY <1>1, <1>2, <1>3, <1>4, Zenon

(* The pass goes on to the next worker and does not come back. *)
LEMMA AdvanceMoves ==
  ASSUME mon \in MonType, Once(mon.queue), mon.queue # <<>>, mon' = Advance
  PROVE  /\ mon' \in MonType /\ mon'.pc = "scan" /\ mon'.age = mon.age
         /\ Once(mon'.queue)
         /\ \A v : Waiting(v)' <=> Waiting(v) /\ v # Current
         /\ Current \in Workers
<1> DEFINE q == mon.queue
<1>1. q \in Seq(Workers) /\ q # <<>>
  BY Zenon DEF MonType
<1>2. /\ Len(q) \in Nat \ {0} /\ Len(Tail(q)) = Len(q) - 1 /\ Head(q) = q[1]
      /\ \A i \in 1..Len(q) - 1 : Tail(q)[i] = q[i + 1]
      /\ Tail(q) \in Seq(Workers) /\ Head(q) \in Workers
  BY <1>1
<1>3. /\ mon'.pc = "scan" /\ mon'.queue = Tail(q) /\ mon'.age = mon.age
      /\ mon' \in MonType
  BY <1>2, ZenonT(30) DEF Advance, MonType
<1> HIDE DEF q
<1>4. Once(Tail(q))
  <2> SUFFICES ASSUME NEW i \in 1..Len(Tail(q)), NEW j \in 1..Len(Tail(q)),
                      Tail(q)[i] = Tail(q)[j]
               PROVE  i = j
    BY Zenon DEF Once
  <2>1. q[i + 1] = q[j + 1] /\ i + 1 \in 1..Len(q) /\ j + 1 \in 1..Len(q)
    BY <1>2
  <2>2. i + 1 = j + 1
    BY <2>1, Zenon DEF Once, q
  <2> QED
    BY <2>2
<1>5. ASSUME NEW v
      PROVE  Waiting(v)' <=> \E i \in 2..Len(q) : q[i] = v
  <2>1. ASSUME NEW i \in 1..Len(Tail(q)), Tail(q)[i] = v
        PROVE  \E k \in 2..Len(q) : q[k] = v
    <3>1. i + 1 \in 2..Len(q) /\ q[i + 1] = v
      BY <1>2, <2>1
    <3> QED
      BY <3>1, Zenon
  <2>2. ASSUME NEW k \in 2..Len(q), q[k] = v
        PROVE  \E i \in 1..Len(Tail(q)) : Tail(q)[i] = v
    <3>1. k - 1 \in 1..Len(q) - 1 /\ Tail(q)[k - 1] = q[(k - 1) + 1] /\ (k - 1) + 1 = k
      BY <1>2
    <3> QED
      BY <1>2, <2>2, <3>1, Zenon
  <2> QED
    BY <1>3, <2>1, <2>2, Zenon DEF Waiting
<1>6. \A v : v # Head(q) => ((\E i \in 2..Len(q) : q[i] = v) <=> \E i \in 1..Len(q) : q[i] = v)
  BY <1>2
<1>7. ~\E i \in 2..Len(q) : q[i] = Head(q)
  BY <1>2 DEF Once, q
<1>8. \A v : Waiting(v) <=> \E i \in 1..Len(q) : q[i] = v
  BY Zenon DEF Waiting, q
<1>9. \A v : Waiting(v)' <=> Waiting(v) /\ v # Head(q)
  BY <1>5, <1>6, <1>7, <1>8, Zenon
<1> QED
  BY <1>2, <1>3, <1>4, <1>9, Zenon DEF Current, q

(* Initially nobody is marked, and the first pass looks at everybody. *)
LEMMA InitIInv == Init => IInv
<1> SUFFICES ASSUME Init PROVE IInv
  BY Zenon
<1> USE SupervisorAssumption
<1>1. gate \in GateType /\ (gate.open => gate.ready = Critical) /\ gate.ready = {}
  BY ZenonT(30) DEF Init, InitGate, GateType
<1>2. /\ mon \in MonType /\ mon.pc = "scan" /\ mon.queue = Order
  BY DEF Init, MonType
<1>3. Types
  BY <1>1, <1>2, Zenon DEF Init, Types
<1>4. Once(mon.queue)
  BY <1>2, SMTT(30) DEF Once
<1>5. ~stopping
  BY Zenon DEF Init
<1> QED
  BY <1>1, <1>2, <1>3, <1>4, <1>5, Zenon DEF IInv, Marked, AwaitsUnmarked, StaysStopped

(* The workers' own steps and time leave the gate and the states alone;    *)
(* only time makes a marked worker older, by one tick.                     *)
LEMMA WorkerInv ==
  ASSUME IInv, NEW w \in Workers,
         TickStarted(w) \/ TickSucceeded(w) \/ TickFailed(w) \/ TaskEnds(w)
  PROVE  IInv'
<1> USE SupervisorAssumption DEF IInv
<1>1. UNCHANGED <<gate, state, mon, stopping>>
  BY Zenon DEF TickStarted, TickSucceeded, TickFailed, TaskEnds
<1>2. /\ task' \in [Workers -> {"none", "alive", "cancelling", "done"}]
      /\ beat' \in [Workers -> Nat] /\ failures' \in [Workers -> Nat]
  <2>1. task' \in [Workers -> {"none", "alive", "cancelling", "done"}]
    <3>1. task' = task \/ task' = [task EXCEPT ![w] = "done"]
      BY Zenon DEF TickStarted, TickSucceeded, TickFailed, TaskEnds
    <3> QED
      BY <3>1, ZenonT(30) DEF Types
  <2>2. beat' \in [Workers -> Nat]
    BY SMTT(30) DEF TickStarted, TickSucceeded, TickFailed, TaskEnds, Types
  <2>3. OneMoreFailure(w) => failures' \in [Workers -> Nat]
    BY SMTT(30) DEF OneMoreFailure, Types
  <2>4. failures' \in [Workers -> Nat]
    BY <2>3, SMTT(30) DEF TickStarted, TickSucceeded, TickFailed, TaskEnds, Types
  <2> QED
    BY <2>1, <2>2, <2>4, Zenon
<1>3. \A v \in Workers : beat'[v] \in {beat[v], 0}
  BY Zenon DEF TickStarted, TickSucceeded, TickFailed, TaskEnds, Types
<1>4. /\ succeeded' \in [Workers -> BOOLEAN]
      /\ \A v \in Workers : succeeded[v] => succeeded'[v]
  BY Zenon DEF TickStarted, TickSucceeded, TickFailed, TaskEnds, Types
<1>5. Types'
  BY <1>1, <1>2, <1>4, Zenon DEF Types
<1>6. \A v \in Workers : Fresh(v) => Fresh(v)'
  <2>1. Nap \in {0, 1} /\ mon.age \in Nat /\ UNCHANGED Nap
    BY <1>1 DEF Nap, Types, MonType
  <2>2. \A v : Waiting(v)' <=> Waiting(v)
    BY <1>1, Zenon DEF Waiting
  <2>3. StaleTimeout \in Nat /\ MaxPass \in Nat
    BY Zenon
  <2>4. mon' = mon
    BY <1>1, Zenon
  <2> SUFFICES ASSUME NEW v \in Workers, Fresh(v) PROVE Fresh(v)'
    BY Zenon
  <2>5. CASE beat'[v] = beat[v]
    BY <2>1, <2>2, <2>4, <2>5, Zenon DEF Fresh
  <2>6. CASE beat'[v] = 0
    BY <2>1, <2>3, <2>4, <2>6, SMTT(30) DEF Fresh
  <2> QED
    BY <1>3, <2>5, <2>6, Zenon
<1>7. Marked'
  BY <1>1, <1>4, <1>6, Zenon DEF Marked, Types, GateType
<1> QED
  BY <1>1, <1>5, <1>7, Zenon DEF AwaitsUnmarked, StaysStopped, Shut, Waiting, Current

(* The step before, as a fact to cite. *)
LEMMA OneLess ==
  ASSUME NEW a \in Nat, NEW n \in Nat, a + 1 <= n
  PROVE  a <= n /\ (a + 1) - 1 = a
  OBVIOUS

(* An age and its bound grow together. *)
LEMMA OneMore ==
  \A s, a, b, c \in Nat : b <= s + a /\ c <= b + 1 => c <= s + (a + 1)
OBVIOUS

(* A tick: one per sleep, at most MaxPass per pass. *)
LEMMA TickInv ==
  ASSUME IInv, Tick
  PROVE  IInv'
<1> USE SupervisorAssumption DEF IInv
<1>1. UNCHANGED <<gate, state, task, succeeded, failures, stopping>>
  BY Zenon DEF Tick
<1>2. /\ mon' = [mon EXCEPT !.age = IF mon.pc = "await" THEN @ + 1 ELSE @,
                            !.slept = mon.pc = "sleep"]
      /\ mon.pc = "await" => mon.age < MaxPass
      /\ mon.pc # "scan" /\ (mon.pc = "sleep" => ~mon.slept)
  BY Zenon DEF Tick, LoopFree
<1>3. /\ mon'.pc = mon.pc /\ mon'.queue = mon.queue
      /\ mon'.age = IF mon.pc = "await" THEN mon.age + 1 ELSE mon.age
      /\ mon'.slept = (mon.pc = "sleep")
  BY <1>2, Zenon DEF Types, MonType
<1>4. mon' \in MonType
  <2>1. mon.age \in 0..MaxPass /\ mon'.age \in 0..MaxPass
    BY <1>2, <1>3, SMTT(30) DEF Types, MonType
  <2>2. (mon.pc = "sleep") \in BOOLEAN
    BY Zenon
  <2> QED
    BY <1>2, <1>3, <2>1, <2>2, ZenonT(30) DEF Types, MonType
<1>5. \A v \in Workers : beat'[v] \in Nat /\ beat'[v] <= beat[v] + 1 /\ beat[v] \in Nat
  <2>1. beat' = [v \in Workers |-> Older(beat[v], BeatCap)]
    BY Zenon DEF Tick
  <2>2. \A a \in Nat : Older(a, BeatCap) \in Nat /\ Older(a, BeatCap) <= a + 1
    BY DEF Older
  <2> QED
    BY <2>1, <2>2, Zenon DEF Types
<1>6. beat' \in [Workers -> Nat]
  BY <1>5, Zenon DEF Tick
<1>7. Types'
  BY <1>1, <1>4, <1>6, Zenon DEF Types
<1>8. \A v : Waiting(v)' <=> Waiting(v)
  BY <1>3, Zenon DEF Waiting
<1>9. ASSUME NEW v \in Workers, Fresh(v)
      PROVE  Fresh(v)'
  <2>1. /\ StaleTimeout \in Nat /\ MaxPass \in Nat /\ mon.age \in Nat
        /\ Nap \in {0, 1} /\ Nap' \in {0, 1}
    BY DEF Types, MonType, Nap
  <2>2. mon.pc = "sleep" => Nap = 0 /\ Nap' = 1
    BY <1>2, <1>3, ZenonT(30) DEF Nap
  <2>3. CASE mon.pc = "sleep"
    BY <1>3, <1>5, <1>9, <2>1, <2>2, <2>3, SMTT(30) DEF Fresh
  <2>4. CASE mon.pc = "await"
    <3>1. mon'.age = mon.age + 1 /\ mon'.pc = "await"
      BY <1>3, <2>4, Zenon
    <3>2. beat[v] \in Nat /\ beat'[v] \in Nat /\ beat'[v] <= beat[v] + 1
      BY <1>5, Zenon
    <3>0. /\ beat[v] <= StaleTimeout + 1 + MaxPass + mon.age
          /\ ~Waiting(v) => beat[v] <= StaleTimeout + mon.age
      BY <1>9, <2>4, Zenon DEF Fresh
    <3>3. beat'[v] <= StaleTimeout + 1 + MaxPass + mon'.age
      <4>1. StaleTimeout + 1 + MaxPass \in Nat
        BY <2>1
      <4> QED
        BY <2>1, <3>0, <3>1, <3>2, <4>1, OneMore, ZenonT(30)
    <3>4. ~Waiting(v)' => beat'[v] <= StaleTimeout + mon'.age
      BY <1>8, <2>1, <3>0, <3>1, <3>2, OneMore, Zenon
    <3> QED
      BY <3>1, <3>3, <3>4, Zenon DEF Fresh
  <2>5. CASE mon.pc = "returned"
    BY <1>3, <2>5, Zenon DEF Fresh
  <2> QED
    BY <1>2, <2>3, <2>4, <2>5, Zenon DEF Types, MonType
<1>10. Marked'
  BY <1>1, <1>9, Zenon DEF Marked, Types, GateType
<1> QED
  BY <1>1, <1>3, <1>7, <1>8, <1>10, Zenon DEF AwaitsUnmarked, StaysStopped, Shut, Current

(* Closing the gate for good: the supervisor is stopped or crashes. *)
LEMMA EndInv ==
  ASSUME IInv, Stop \/ MonitorCrash
  PROVE  IInv'
<1> USE SupervisorAssumption DEF IInv
<1>1. /\ UNCHANGED <<succeeded, beat, failures>>
      /\ gate' = Close(gate, "operational")
  BY Zenon DEF Stop, MonitorCrash, workerVars
<1>2. gate' \in GateType /\ Shut'
  BY <1>1, CloseShuts, Zenon DEF Types, Shut
<1>3. /\ task' \in [Workers -> {"none", "alive", "cancelling", "done"}]
      /\ state' \in [Workers -> {"running", "failed", "stopped", "exhausted"}]
      /\ \A w \in Workers \ Enabled : state'[w] = "stopped"
  BY SMTT(30) DEF Stop, MonitorCrash, workerVars, Types
<1>4. /\ mon' \in MonType /\ mon'.queue = mon.queue
      /\ Stop => mon' = mon
      /\ MonitorCrash => mon'.pc = "returned"
  BY ZenonT(30) DEF Stop, MonitorCrash, Types, MonType
<1>5. Types'
  BY <1>1, <1>2, <1>3, <1>4, Zenon DEF Types, Shut
<1>6. Marked' /\ Once(mon'.queue)
  BY <1>2, <1>4, Zenon DEF Marked, Shut
<1>7. AwaitsUnmarked'
  BY <1>2, <1>4, Zenon DEF AwaitsUnmarked, Shut, Current
<1>8. StaysStopped'
  <2>1. CASE Stop
    <3>1. \A w \in Workers : state'[w] \notin {"running", "failed"}
      BY <2>1, Zenon DEF Stop, Types
    <3> QED
      BY <1>2, <3>1, Zenon DEF StaysStopped
  <2>2. CASE MonitorCrash
    BY <1>2, <1>4, <2>2, Zenon DEF MonitorCrash, workerVars, StaysStopped
  <2> QED
    BY <2>1, <2>2, Zenon
<1> QED
  BY <1>2, <1>5, <1>6, <1>7, <1>8, Zenon

(* A pass ends and the next one begins, with everybody to look at. *)
LEMMA PassInv ==
  ASSUME IInv, WakeUp \/ PassDone
  PROVE  IInv'
<1> USE SupervisorAssumption DEF IInv
<1>1. UNCHANGED <<gate, state, task, succeeded, beat, failures, stopping>>
  BY Zenon DEF WakeUp, PassDone, workerVars
<1>2. CASE PassDone
  <2>1. /\ mon' \in MonType /\ mon'.pc = "sleep" /\ mon'.queue = mon.queue
        /\ mon.pc = "scan" /\ mon.queue = <<>>
    <3>1. /\ mon.pc = "scan" /\ mon.queue = <<>>
          /\ mon' = [mon EXCEPT !.pc = "sleep", !.age = 0, !.slept = FALSE]
      BY <1>2, Zenon DEF PassDone
    <3>2. 0 \in 0..MaxPass
      OBVIOUS
    <3> QED
      BY <3>1, <3>2, ZenonT(30) DEF Types, MonType
  <2>2. \A v \in Workers : Fresh(v) => Fresh(v)'
    <3>1. \A v : ~Waiting(v)
      BY <2>1 DEF Waiting
    <3>2. /\ mon.age \in 0..MaxPass /\ beat \in [Workers -> Nat] /\ Nap' \in {0, 1}
          /\ StaleTimeout \in Nat /\ MaxPass \in Nat
      BY Zenon DEF Types, MonType, Nap
    <3> QED
      BY <1>1, <2>1, <3>1, <3>2, SMTT(30) DEF Fresh
  <2>3. Types'
    BY <1>1, <2>1, Zenon DEF Types
  <2>4. Marked'
    BY <1>1, <2>2, Zenon DEF Types, Marked, GateType
  <2>5. Once(mon'.queue)
    BY <2>1, Zenon
  <2> QED
    BY <1>1, <2>1, <2>3, <2>4, <2>5, Zenon DEF AwaitsUnmarked, StaysStopped, Shut
<1>3. CASE WakeUp /\ stopping
  <2>1. mon' \in MonType /\ mon'.pc = "returned" /\ mon'.queue = mon.queue
    BY <1>3, ZenonT(30) DEF WakeUp, Types, MonType
  <2>2. Shut /\ Shut'
    BY <1>1, <1>3, Zenon DEF StaysStopped, Shut
  <2> QED
    BY <1>1, <2>1, <2>2, Zenon DEF Types, Marked, AwaitsUnmarked, StaysStopped, Shut
<1>4. CASE WakeUp /\ ~stopping
  <2>1. /\ mon' \in MonType /\ mon'.pc = "scan" /\ mon'.queue = Order /\ mon'.age = 0
        /\ mon.pc = "sleep" /\ mon.slept
    BY <1>4 DEF WakeUp, MonType
  <2>2. \A v \in Workers : Waiting(v)'
    <3>1. ASSUME NEW v \in Workers
          PROVE  \E i \in 1..Len(Order) : Order[i] = v
      BY DEF Workers
    <3> QED
      BY <2>1, <3>1, ZenonT(30) DEF Waiting
  <2>3. \A v \in Workers : Fresh(v) => Fresh(v)'
    <3>1. /\ beat \in [Workers -> Nat] /\ Nap = 1
          /\ StaleTimeout \in Nat /\ MaxPass \in Nat
      BY <2>1, Zenon DEF Types, Nap
    <3> QED
      BY <1>1, <2>1, <2>2, <3>1 DEF Fresh
  <2>4. Types'
    BY <1>1, <2>1, Zenon DEF Types
  <2>5. Marked'
    BY <1>1, <2>3, Zenon DEF Types, Marked, GateType
  <2>6. Once(mon'.queue)
    BY <2>1, SMTT(30) DEF Once
  <2> QED
    BY <1>1, <1>4, <2>1, <2>4, <2>5, <2>6, Zenon DEF AwaitsUnmarked, StaysStopped
<1> QED
  BY <1>2, <1>3, <1>4, Zenon

(* The pass is done with w: the other workers and their marks are as they  *)
(* were, and w has no mark or was just found fresh.                        *)
LEMMA LookedAt ==
  ASSUME IInv, NEW w \in Workers, mon.pc \in {"scan", "await"}, mon.queue # <<>>,
         w = Current, mon' = Advance, Types', UNCHANGED stopping,
         \A v \in gate'.ready \ {w} :
           /\ v \in gate.ready /\ state'[v] = state[v] /\ succeeded'[v] = succeeded[v]
           /\ beat'[v] = beat[v],
         w \in gate'.ready =>
           state'[w] = "running" /\ succeeded'[w] /\ ~(beat'[w] > StaleTimeout + mon.age),
         stopping => /\ Shut' /\ state'[w] # "running"
                     /\ \A v \in Workers \ {w} : state'[v] = state[v]
  PROVE  IInv'
<1> USE SupervisorAssumption
<1>1. mon \in MonType /\ Once(mon.queue)
  BY Zenon DEF IInv, Types
<1>2. /\ mon'.pc = "scan" /\ mon'.age = mon.age /\ Once(mon'.queue)
      /\ \A v : Waiting(v)' <=> Waiting(v) /\ v # w
  BY <1>1, AdvanceMoves, Zenon
<1>3. /\ StaleTimeout \in Nat /\ MaxPass \in Nat /\ mon.age \in Nat
      /\ gate'.ready \subseteq Workers
  BY <1>1 DEF MonType, Types, GateType
<1>4. ASSUME NEW v \in gate'.ready \ {w}
      PROVE  state'[v] = "running" /\ succeeded'[v] /\ Fresh(v)'
  <2>1. v \in gate.ready /\ beat'[v] = beat[v] /\ state[v] = "running" /\ succeeded[v]
        /\ Fresh(v)
    BY <1>4, Zenon DEF IInv, Marked
  <2>2. /\ beat[v] <= StaleTimeout + 1 + MaxPass + mon.age
        /\ ~Waiting(v) => beat[v] <= StaleTimeout + mon.age
    BY <2>1, Zenon DEF Fresh
  <2>3. ~Waiting(v)' => ~Waiting(v)
    BY <1>2, <1>4, Zenon
  <2>4. Fresh(v)'
    BY <1>2, <2>1, <2>2, <2>3, Zenon DEF Fresh
  <2> QED
    BY <1>4, <2>1, <2>4, Zenon
<1>5. ASSUME w \in gate'.ready
      PROVE  state'[w] = "running" /\ succeeded'[w] /\ Fresh(w)'
  <2>1. beat'[w] \in Nat /\ ~(beat'[w] > StaleTimeout + mon.age)
    BY <1>5, Zenon DEF Types
  <2>2. /\ beat'[w] <= StaleTimeout + 1 + MaxPass + mon.age
        /\ beat'[w] <= StaleTimeout + mon.age
    BY <1>3, <2>1, SMTT(30)
  <2>3. Fresh(w)'
    BY <1>2, <2>2, Zenon DEF Fresh
  <2> QED
    BY <1>5, <2>3, Zenon
<1>6. Marked'
  BY <1>4, <1>5, Zenon DEF Marked
<1>7. StaysStopped'
  BY <1>2, Zenon DEF IInv, StaysStopped
<1> QED
  BY <1>2, <1>6, <1>7, Zenon DEF IInv, AwaitsUnmarked

(* The worker the pass looks at is still waiting. *)
LEMMA CurrentWaits ==
  ASSUME IInv, mon.queue # <<>>
  PROVE  Waiting(Current)
<1>1. mon.queue \in Seq(Workers)
  BY Zenon DEF IInv, Types, MonType
<1>2. 1 \in 1..Len(mon.queue) /\ mon.queue[1] = Head(mon.queue)
  BY <1>1
<1> QED
  BY <1>2, Zenon DEF Waiting, Current

(* Only running workers are marked. *)
LEMMA UnmarkedUnlessRunning ==
  ASSUME IInv, NEW w, state[w] # "running"
  PROVE  w \notin gate.ready
  BY Zenon DEF IInv, Marked

(* A worker that is left alone or spawned again has no mark. *)
LEMMA SkipInv ==
  ASSUME IInv, NEW w \in Workers, Skip(w) \/ Respawn(w)
  PROVE  IInv'
<1>1. /\ mon.pc = "scan" /\ mon.queue # <<>> /\ w = Current /\ mon' = Advance
      /\ UNCHANGED <<gate, stopping>> /\ state[w] # "running"
  BY Zenon DEF Skip, Respawn, Scanning
<1>2. w \notin gate.ready
  BY <1>1, UnmarkedUnlessRunning, Zenon
<1>3. mon' \in MonType
  BY <1>1, AdvanceMoves, Zenon DEF IInv, Types
<1>4. /\ \A v \in Workers \ {w} : state'[v] = state[v] /\ succeeded'[v] = succeeded[v]
                                  /\ beat'[v] = beat[v]
      /\ gate.ready \subseteq Workers
  BY SupervisorAssumption, SMTT(30) DEF Skip, Respawn, workerVars, IInv, Types, GateType
<1>5. /\ state' \in [Workers -> {"running", "failed", "stopped", "exhausted"}]
      /\ \A v \in Workers \ Enabled : state'[v] = "stopped"
      /\ task' \in [Workers -> {"none", "alive", "cancelling", "done"}]
  BY Zenon DEF Skip, Respawn, workerVars, IInv, Types
<1>6. beat' \in [Workers -> Nat] /\ failures' \in [Workers -> Nat]
  <2>1. beat' = beat \/ beat' = [beat EXCEPT ![w] = 0]
    BY Zenon DEF Skip, Respawn, workerVars
  <2>2. failures' = failures \/ failures' = [failures EXCEPT ![w] = 0]
    BY Zenon DEF Skip, Respawn, workerVars
  <2>3. beat \in [Workers -> Nat] /\ failures \in [Workers -> Nat]
    BY Zenon DEF IInv, Types
  <2>4. beat' \in [Workers -> Nat]
    BY <2>1, <2>3
  <2>5. failures' \in [Workers -> Nat]
    BY <2>2, <2>3
  <2> QED
    BY <2>4, <2>5, Zenon
<1>7. succeeded' \in [Workers -> BOOLEAN]
  BY ZenonT(30) DEF Skip, Respawn, workerVars, IInv, Types
<1>8. Types'
  BY <1>1, <1>3, <1>5, <1>6, <1>7, Zenon DEF IInv, Types
<1>9. stopping => Skip(w)
  BY <1>1, CurrentWaits, Zenon DEF Respawn, IInv, StaysStopped
<1>10. stopping => /\ Shut' /\ state'[w] # "running"
                   /\ \A v \in Workers \ {w} : state'[v] = state[v]
  BY <1>1, <1>4, <1>9, Zenon DEF Skip, workerVars, IInv, StaysStopped, Shut
<1> QED
  BY <1>1, <1>2, <1>4, <1>8, <1>10, LookedAt, Zenon

(* A running worker that needs no cancellation is judged, and the pass     *)
(* goes on.                                                                *)
LEMMA HealthyInv ==
  ASSUME IInv, NEW w \in Workers, CheckHealthy(w)
  PROVE  IInv'
<1> USE SupervisorAssumption
<1>1. /\ mon.pc = "scan" /\ mon.queue # <<>> /\ w = Current /\ mon' = Advance
      /\ UNCHANGED <<state, task, succeeded, beat, failures, stopping>>
      /\ state[w] = "running" /\ gate' = CheckedGate(w)
  BY Zenon DEF CheckHealthy, Scanning, workerVars
<1>2. /\ gate' \in GateType /\ (gate'.open => gate'.ready = Critical)
      /\ gate'.ready \subseteq gate.ready \cup {w}
      /\ w \in gate'.ready => ~Stale(w) /\ (w \in gate.ready \/ succeeded[w])
  BY <1>1, CheckedMarks, Zenon DEF IInv
<1>3. mon' \in MonType
  BY <1>1, AdvanceMoves, Zenon DEF IInv, Types
<1>4. Types'
  BY <1>1, <1>2, <1>3, Zenon DEF IInv, Types
<1>5. ~stopping
  BY <1>1, Zenon DEF IInv, StaysStopped
<1>6. ~Stale(w) => ~(beat[w] > StaleTimeout + mon.age)
  <2>1. beat[w] \in Nat /\ mon.age \in Nat /\ StaleTimeout \in Nat
    BY SMTT(30) DEF IInv, Types, MonType
  <2> QED
    BY <2>1, SMTT(30) DEF Stale, AsOfPass
<1>7. w \in gate'.ready => state'[w] = "running" /\ succeeded'[w]
                           /\ ~(beat'[w] > StaleTimeout + mon.age)
  BY <1>1, <1>2, <1>6, Zenon DEF IInv, Marked
<1> QED
  BY <1>1, <1>2, <1>4, <1>5, <1>7, LookedAt, Zenon

(* A worker that is cancelled loses its mark at once. *)
LEMMA CancelInv ==
  ASSUME IInv, NEW w \in Workers, CheckCancel(w)
  PROVE  IInv'
<1> USE SupervisorAssumption
<1>1. /\ mon.pc = "scan" /\ mon.queue # <<>> /\ w = Current
      /\ mon' = [mon EXCEPT !.pc = "await"]
      /\ UNCHANGED <<state, succeeded, beat, failures, stopping>>
      /\ state[w] = "running" /\ gate' = CheckedGate(w) /\ MustCancel(w)
  BY Zenon DEF CheckCancel, Scanning
<1>2. /\ gate' \in GateType /\ (gate'.open => gate'.ready = Critical)
      /\ gate'.ready \subseteq gate.ready \cup {w}
      /\ w \in gate'.ready => ~Stale(w) /\ ~(failures[w] > 0)
  BY <1>1, CheckedMarks, Zenon DEF IInv
<1>3. w \notin gate'.ready
  <2>1. failures[w] >= MaxFailures => failures[w] > 0
    <3>1. failures[w] \in Nat /\ MaxFailures \in Nat \ {0}
      BY Zenon DEF IInv, Types
    <3> QED
      BY <3>1
  <2> QED
    BY <1>1, <1>2, <2>1, Zenon DEF MustCancel
<1>4. /\ mon' \in MonType /\ mon'.pc = "await" /\ mon'.queue = mon.queue
      /\ mon'.age = mon.age
  BY <1>1, ZenonT(30) DEF IInv, Types, MonType
<1>5. task' \in [Workers -> {"none", "alive", "cancelling", "done"}]
  BY Zenon DEF CheckCancel, IInv, Types
<1>6. Types'
  BY <1>1, <1>2, <1>4, <1>5, Zenon DEF IInv, Types
<1>7. ~stopping
  BY <1>1, Zenon DEF IInv, StaysStopped
<1>8. \A v : Waiting(v)' <=> Waiting(v)
  BY <1>4, Zenon DEF Waiting
<1>9. \A v : Fresh(v) => Fresh(v)'
  BY <1>1, <1>4, <1>8, Zenon DEF Fresh
<1>10. Marked'
  BY <1>1, <1>2, <1>3, <1>9, Zenon DEF IInv, Marked
<1>11. w \in Enabled
  BY <1>1, Zenon DEF IInv, Types
<1> QED
  BY <1>1, <1>3, <1>4, <1>6, <1>7, <1>10, <1>11, Zenon
     DEF IInv, AwaitsUnmarked, StaysStopped, Current

(* The restart policy: the worker is given up, and with it perhaps the     *)
(* process, or waits for its restart; its mark is gone already.            *)
LEMMA PolicyInv ==
  ASSUME IInv, NEW w \in Workers, mon.pc \in {"scan", "await"}, mon.queue # <<>>,
         w = Current, NEW g \in GateType, g.open => g.ready = Critical,
         g.ready \subseteq gate.ready, w \notin g.ready, stopping => g = gate,
         ApplyPolicy(w, g), w \in Enabled
  PROVE  IInv'
<1> USE SupervisorAssumption
<1>1. UNCHANGED <<task, succeeded, beat, failures, stopping>>
  BY Zenon DEF ApplyPolicy
<1>2. \E there \in {"exhausted", "failed"} : state' = [state EXCEPT ![w] = there]
  BY Zenon DEF ApplyPolicy
<1>3. gate' = g \/ gate' = Close(g, "operational")
  BY Zenon DEF ApplyPolicy
<1>4. mon' = Advance \/ (mon' = [mon EXCEPT !.pc = "returned"] /\ gate' = Close(g, "operational"))
  BY Zenon DEF ApplyPolicy
<1>5. LET h == Close(g, "operational") IN h \in GateType /\ ~h.open /\ h.ready = {}
  BY CloseShuts, Zenon
<1>6. /\ gate' \in GateType /\ (gate'.open => gate'.ready = Critical)
      /\ gate'.ready \subseteq gate.ready /\ w \notin gate'.ready
  BY <1>3, <1>5, Zenon
<1>7. /\ state' \in [Workers -> {"running", "failed", "stopped", "exhausted"}]
      /\ \A v \in Workers \ Enabled : state'[v] = "stopped"
      /\ \A v \in Workers \ {w} : state'[v] = state[v]
      /\ state'[w] # "running"
  BY <1>2, SMTT(30) DEF IInv, Types
<1>8. gate'.ready \subseteq Workers
  BY <1>6, Zenon DEF GateType
<1>9. stopping => Shut'
  BY <1>3, <1>5, Zenon DEF IInv, StaysStopped, Shut
<1>10. CASE mon' = Advance
  <2>1. mon' \in MonType
    BY <1>10, AdvanceMoves, ZenonT(30) DEF IInv, Types
  <2>2. Types'
    BY <1>1, <1>6, <1>7, <2>1, Zenon DEF IInv, Types
  <2> QED
    BY <1>1, <1>6, <1>7, <1>8, <1>9, <1>10, <2>2, LookedAt, Zenon
<1>11. CASE mon' = [mon EXCEPT !.pc = "returned"] /\ gate' = Close(g, "operational")
  <2>1. mon' \in MonType /\ mon'.pc = "returned" /\ mon'.queue = mon.queue
    BY <1>11, ZenonT(30) DEF IInv, Types, MonType
  <2>2. Types'
    BY <1>1, <1>6, <1>7, <2>1, Zenon DEF IInv, Types
  <2>3. Shut'
    BY <1>5, <1>11, Zenon DEF Shut
  <2>4. Marked' /\ AwaitsUnmarked' /\ Once(mon'.queue)
    BY <2>1, <2>3, ZenonT(30) DEF Marked, AwaitsUnmarked, Shut, IInv
  <2>5. StaysStopped'
    BY <1>1, <1>7, <2>1, <2>3, Zenon DEF IInv, StaysStopped
  <2> QED
    BY <2>2, <2>3, <2>4, <2>5, Zenon DEF IInv
<1> QED
  BY <1>4, <1>10, <1>11, Zenon

(* A worker that ended, by itself or cancelled, meets the policy. *)
LEMMA FailedInv ==
  ASSUME IInv, NEW w \in Workers, CheckFailed(w) \/ Cancelled(w)
  PROVE  IInv'
<1>1. CASE CheckFailed(w)
  <2>1. /\ mon.pc = "scan" /\ mon.queue # <<>> /\ w = Current
        /\ state[w] = "running" /\ task[w] = "done" /\ ApplyPolicy(w, CheckedGate(w))
    BY <1>1, Zenon DEF CheckFailed, Scanning
  <2>2. /\ CheckedGate(w) \in GateType
        /\ CheckedGate(w).open => CheckedGate(w).ready = Critical
        /\ CheckedGate(w).ready \subseteq gate.ready /\ w \notin CheckedGate(w).ready
    BY <2>1, CheckedMarks, Zenon DEF IInv
  <2>3. ~stopping /\ w \in Enabled
    BY <2>1, Zenon DEF IInv, StaysStopped, Types
  <2> QED
    BY <2>1, <2>2, <2>3, PolicyInv, Zenon
<1>2. CASE Cancelled(w)
  <2>1. mon.pc = "await" /\ w = Current /\ ApplyPolicy(w, gate)
    BY <1>2, Zenon DEF Cancelled
  <2>2. mon.queue # <<>> /\ w \notin gate.ready /\ w \in Enabled
    BY <2>1, Zenon DEF IInv, AwaitsUnmarked
  <2>3. gate \in GateType /\ (gate.open => gate.ready = Critical)
    BY Zenon DEF IInv, Types
  <2> QED
    BY <2>1, <2>2, <2>3, PolicyInv, Zenon
<1> QED
  BY <1>1, <1>2, Zenon

(* IInv holds of every reachable state. *)
THEOREM Inductive == Spec => []IInv
<1>1. IInv /\ [Next]_vars => IInv'
  <2> SUFFICES ASSUME IInv, [Next]_vars PROVE IInv'
    BY Zenon
  <2>1. CASE UNCHANGED vars
    <3>1. UNCHANGED <<gate, state, task, succeeded, beat, failures, mon, stopping>>
      BY <2>1, Zenon DEF vars, workerVars
    <3> QED
      BY <3>1, ZenonT(30)
         DEF IInv, Types, Marked, Fresh, Nap, Waiting, AwaitsUnmarked, StaysStopped,
                  Shut, Current
  <2>2. CASE Monitor
    BY <2>2, PassInv, SkipInv, HealthyInv, CancelInv, FailedInv, Zenon DEF Monitor
  <2> QED
    BY <2>1, <2>2, EndInv, TickInv, WorkerInv, Zenon DEF Next
<1> QED
  BY <1>1, InitIInv, PTL DEF Spec

(* While entries are admitted every critical worker runs and has completed *)
(* a tick since it was spawned.                                            *)
THEOREM OpenMeansRunning == Spec => []OpenGateMeansCriticalRunning
<1>1. IInv => OpenGateMeansCriticalRunning
  BY Zenon DEF IInv, Types, Marked, OpenGateMeansCriticalRunning
<1> QED
  BY <1>1, Inductive, PTL

(* While entries are admitted no critical worker has been silent for       *)
(* longer than its timeout, one interval and the awaits of two passes.     *)
THEOREM SilenceBound == Spec => []SilenceIsBounded
<1>1. IInv => SilenceIsBounded
  <2> SUFFICES ASSUME IInv, gate.open, NEW w \in Critical
               PROVE  beat[w] <= StaleTimeout + 2 * MaxPass + 1
    BY ZenonT(30) DEF SilenceIsBounded
  <2>1. w \in gate.ready /\ Fresh(w) /\ mon.pc # "returned"
    BY Zenon DEF IInv, Types, Marked, Shut
  <2>2. /\ beat[w] \in Nat /\ mon.age \in 0..MaxPass /\ Nap \in {0, 1}
        /\ StaleTimeout \in Nat /\ MaxPass \in Nat
    BY SupervisorAssumption, Zenon DEF IInv, Types, MonType, Nap
  <2>3. \/ beat[w] <= StaleTimeout + MaxPass + Nap
        \/ beat[w] <= StaleTimeout + 1 + MaxPass + mon.age
    BY <2>1, Zenon DEF Fresh, IInv, Types, MonType
  <2> HIDE DEF IInv
  <2> QED
    BY <2>2, <2>3
<1> QED
  BY <1>1, Inductive, PTL

(* After stop(), or when the monitor ended, the gate stays closed. *)
THEOREM GateStaysClosed == Spec => []ClosedForGood
<1>1. IInv => ClosedForGood
  BY Zenon DEF IInv, StaysStopped, Shut, ClosedForGood
<1> QED
  BY <1>1, Inductive, PTL

(* After stop() no worker is spawned, although a pass may be under way. *)
THEOREM StopsSpawning == Spec => NoSpawnAfterStop
<1> DEFINE Step == stopping => \A w \in Workers : task'[w] = "alive" => task[w] = "alive"
<1>1. IInv /\ [Next]_vars => [Step]_vars
  <2> SUFFICES ASSUME IInv, Next, stopping, NEW w \in Workers, task'[w] = "alive"
               PROVE  task[w] = "alive"
    BY Zenon DEF Step
  <2>1. ASSUME NEW v \in Workers PROVE ~Respawn(v)
    BY CurrentWaits, ZenonT(30) DEF Respawn, Scanning, IInv, StaysStopped
  <2> QED
    BY <2>1, ZenonT(30) DEF Next, Monitor, MonitorCrash, Stop, Tick, TickStarted, TickSucceeded,
           TickFailed, TaskEnds, WakeUp, PassDone, Skip, CheckHealthy, CheckCancel,
           CheckFailed, Cancelled, ApplyPolicy, workerVars, IInv, Types
<1> QED
  BY <1>1, Inductive, PTL DEF Spec, NoSpawnAfterStop

-----------------------------------------------------------------------------
(* The restarts.  A worker that waits for its restart has room for it in   *)
(* its budget, and the restart will be younger than all recorded ones.     *)
Bounded(w) == Policy[w] \in {"bounded_fatal", "bounded_degraded"}
Recent(w) == {a \in restarts[w] : a <= Window}

RestartInv ==
  /\ restarts \in [Workers -> SUBSET (0..RestartCap)]
  /\ due \in [Workers -> -MaxPass..None]
  /\ \A w \in Workers :
       /\ \A a \in restarts[w] : a >= mon.age
       /\ state[w] = "failed" => \A a \in restarts[w] : a + due[w] >= 1
       /\ Bounded(w) => /\ Cardinality(Recent(w)) <= Budget[w]
                        /\ state[w] = "failed" => Cardinality(Recent(w)) < Budget[w]

(* A power of two is the number of subsets of an interval. *)
LEMMA PowerOfTwo == \A n \in Nat : 2^n \in Nat \ {0}
<1> SUFFICES ASSUME NEW n \in Nat PROVE 2^n \in Nat \ {0}
  BY Zenon
<1>1. IsFiniteSet(1..n) /\ Cardinality(1..n) = n
  BY FS_Interval
<1>2. IsFiniteSet(SUBSET (1..n)) /\ Cardinality(SUBSET (1..n)) = 2^n
  BY <1>1, FS_SUBSET, ZenonT(30)
<1>3. SUBSET (1..n) # {}
  BY ZenonT(30)
<1> QED
  BY <1>2, <1>3, FS_CardinalityType, FS_EmptySet, Zenon

(* _restart_backoff: at least one tick, at most restart_backoff_max. *)
LEMMA BackoffIsBounded == \A n \in Nat : RestartBackoff(n) \in 1..BackoffMax
<1> SUFFICES ASSUME NEW n \in Nat PROVE RestartBackoff(n) \in 1..BackoffMax
  BY Zenon
<1>1. 2^n \in Nat \ {0}
  BY PowerOfTwo, Zenon
<1> DEFINE p == 2^n
<1> HIDE DEF p
<1>2. p \in Nat \ {0} /\ BackoffBase \in Nat \ {0} /\ BackoffMax \in Nat \ {0}
  BY <1>1, SupervisorAssumption, Zenon DEF p
<1>3. BackoffBase * p \in Nat \ {0}
  BY <1>2
<1>4. RestartBackoff(n) = IF BackoffBase * p < BackoffMax THEN BackoffBase * p ELSE BackoffMax
  BY Zenon DEF RestartBackoff, p
<1> QED
  BY <1>2, <1>3, <1>4

(* The ages of a worker's restarts are finitely many. *)
LEMMA RestartsFinite ==
  ASSUME restarts \in [Workers -> SUBSET (0..RestartCap)], NEW w \in Workers,
         NEW S \in SUBSET restarts[w]
  PROVE  IsFiniteSet(S) /\ Cardinality(S) \in Nat
<1>1. RestartCap \in Nat /\ S \in SUBSET (0..RestartCap)
  BY SupervisorAssumption, SMTT(30) DEF RestartCap
<1>2. IsFiniteSet(0..RestartCap)
  BY <1>1, FS_Interval
<1> QED
  BY <1>1, <1>2, FS_Subset, FS_CardinalityType, ZenonT(30)

(* Steps that record and plan no restart. *)
LEMMA RestartsRest ==
  ASSUME RestartInv, UNCHANGED <<restarts, due>>,
         mon.age \in Nat, mon'.age \in Nat, mon'.age <= mon.age,
         \A w \in Workers : state'[w] = "failed" => state[w] = "failed"
  PROVE  RestartInv'
<1>1. \A w : Recent(w)' = Recent(w)
  BY Zenon DEF Recent
<1>2. \A w \in Workers : \A a \in restarts[w] : a >= mon'.age
  <2> SUFFICES ASSUME NEW w \in Workers, NEW a \in restarts[w]
               PROVE  a >= mon'.age
    BY Zenon
  <2>1. a \in Int /\ a >= mon.age
    BY SMTT(30) DEF RestartInv
  <2> QED
    BY <2>1
<1> QED
  BY <1>1, <1>2, Zenon DEF RestartInv, Bounded

(* Time: a recent restart was recent a tick ago. *)
LEMMA RestartsAge ==
  ASSUME Types, RestartInv, Tick
  PROVE  RestartInv'
<1> USE SupervisorAssumption
<1>1. /\ restarts' = [w \in Workers |-> {Older(a, RestartCap) : a \in restarts[w]}]
      /\ due' = [w \in Workers |->
                   IF due[w] = None \/ due[w] = -MaxPass THEN due[w] ELSE due[w] - 1]
      /\ UNCHANGED state
  BY Zenon DEF Tick
<1>2. /\ RestartCap \in Nat /\ RestartCap = Window + MaxPass + 1 /\ Window \in Nat
      /\ MaxPass \in Nat /\ None \in Nat
  BY DEF RestartCap, None
<1>3. /\ mon.age \in 0..MaxPass
      /\ mon'.age = mon.age \/ (mon'.age = mon.age + 1 /\ mon.age < MaxPass)
  BY Zenon DEF Tick, Types, MonType
<1>4. \A a \in 0..RestartCap : /\ Older(a, RestartCap) \in 0..RestartCap
                               /\ Older(a, RestartCap) = a + 1 \/ Older(a, RestartCap) = RestartCap
  BY <1>2 DEF Older
<1>5. ASSUME NEW w \in Workers, NEW b \in restarts'[w]
      PROVE  /\ b \in 0..RestartCap
             /\ \E a \in restarts[w] : a \in 0..RestartCap /\ (b = a + 1 \/ b = RestartCap)
  BY <1>1, <1>4, Zenon DEF RestartInv
<1>6. restarts' \in [Workers -> SUBSET (0..RestartCap)]
  BY <1>1, <1>5, Zenon
<1>7. due' \in [Workers -> -MaxPass..None]
  <2>1. \A w \in Workers : due[w] \in -MaxPass..None
    BY Zenon DEF RestartInv
  <2> QED
    BY <1>1, <1>2, <2>1, SMTT(30)
<1>8. ASSUME NEW w \in Workers
      PROVE  /\ \A b \in restarts'[w] : b >= mon'.age
             /\ state[w] = "failed" => \A b \in restarts'[w] : b + due'[w] >= 1
  <2> SUFFICES ASSUME NEW b \in restarts'[w]
               PROVE  b >= mon'.age /\ (state[w] = "failed" => b + due'[w] >= 1)
    BY Zenon
  <2>1. PICK a \in restarts[w] : a \in 0..RestartCap /\ (b = a + 1 \/ b = RestartCap)
    BY <1>5, Zenon
  <2>2. a >= mon.age /\ (state[w] = "failed" => a + due[w] >= 1)
    BY Zenon DEF RestartInv
  <2>3. /\ due[w] \in -MaxPass..None
        /\ due'[w] = due[w] \/ due'[w] = due[w] - 1
        /\ due'[w] >= -MaxPass /\ due'[w] \in Int
    BY <1>1, <1>2, <1>7 DEF RestartInv
  <2>4. b >= mon'.age
    BY <1>2, <1>3, <2>1, <2>2, SMTT(30)
  <2>5. ASSUME state[w] = "failed" PROVE b + due'[w] >= 1
    <3> DEFINE d == due[w]
               e == due'[w]
    <3>1. /\ a \in Nat /\ d \in Int /\ e \in Int /\ a + d >= 1
          /\ e = d \/ e = d - 1
      BY <1>2, <2>1, <2>2, <2>3, <2>5, SMTT(30)
    <3>2. e >= -MaxPass
      BY <2>3, Zenon
    <3> HIDE DEF d, e
    <3>3. CASE b = a + 1
      BY <3>1, <3>3, SMTT(30) DEF e
    <3>4. CASE b = RestartCap
      BY <1>2, <3>1, <3>2, <3>4, SMTT(30) DEF e
    <3> QED
      BY <2>1, <3>3, <3>4, Zenon
  <2> QED
    BY <2>4, <2>5, Zenon
<1>9. ASSUME NEW w \in Workers
      PROVE  /\ Cardinality(Recent(w)') <= Cardinality(Recent(w))
             /\ Cardinality(Recent(w)') \in Nat /\ Cardinality(Recent(w)) \in Nat
  <2> DEFINE f == [b \in Recent(w)' |-> b - 1]
  <2>1. \A b \in Recent(w)' : b \in Int /\ b - 1 \in Recent(w)
    <3> SUFFICES ASSUME NEW b \in Recent(w)' PROVE b \in Int /\ b - 1 \in Recent(w)
      BY Zenon
    <3>1. b \in restarts'[w] /\ b <= Window
      BY Zenon DEF Recent
    <3>2. PICK a \in restarts[w] : a \in 0..RestartCap /\ (b = a + 1 \/ b = RestartCap)
      BY <1>5, <3>1, Zenon
    <3>3. b = a + 1 /\ a <= Window /\ b - 1 = a
      <4>1. a \in Nat /\ Window \in Nat /\ ~(RestartCap <= Window)
        BY <1>2, <3>2, SMTT(30)
      <4>2. b # RestartCap
        BY <3>1, <4>1, Zenon
      <4>3. b = a + 1
        BY <3>2, <4>2, Zenon
      <4>4. a + 1 <= Window
        BY <3>1, <4>3, Zenon
      <4> QED
        BY <4>1, <4>3, <4>4, OneLess, Zenon
    <3> QED
      BY <1>5, <3>1, <3>2, <3>3 DEF Recent
  <2>2. f \in [Recent(w)' -> Recent(w)]
    BY <2>1, Zenon
  <2>3. \A b, c \in Recent(w)' : f[b] = f[c] => b = c
    BY <2>1, SMTT(30)
  <2>4. f \in Injection(Recent(w)', Recent(w))
    BY <2>2, <2>3, Fun_IsInj, Zenon
  <2>5. IsFiniteSet(Recent(w)) /\ Cardinality(Recent(w)) \in Nat
    BY RestartsFinite, Zenon DEF Recent, RestartInv
  <2>6. IsFiniteSet(Recent(w)') /\ Cardinality(Recent(w)') <= Cardinality(Recent(w))
    BY <2>4, <2>5, FS_Injection, Zenon
  <2> QED
    BY <2>5, <2>6, FS_CardinalityType, Zenon
<1>10. ASSUME NEW w \in Workers, Bounded(w)
       PROVE  /\ Cardinality(Recent(w)') <= Budget[w]
              /\ state[w] = "failed" => Cardinality(Recent(w)') < Budget[w]
  <2>1. /\ Cardinality(Recent(w)) <= Budget[w] /\ Budget[w] \in Nat
        /\ state[w] = "failed" => Cardinality(Recent(w)) < Budget[w]
    BY <1>10, Zenon DEF RestartInv
  <2> QED
    BY <1>9, <2>1, SMTT(30)
<1> QED
  BY <1>1, <1>6, <1>7, <1>8, <1>10, Zenon DEF RestartInv, Bounded

(* A restart is recorded: there was room for it. *)
LEMMA RestartsGrow ==
  ASSUME Types, RestartInv, mon'.age = mon.age, NEW w \in Workers, Respawn(w)
  PROVE  RestartInv' /\ mon.age \notin restarts[w]
<1> USE SupervisorAssumption
<1>1. /\ restarts' = [restarts EXCEPT ![w] = @ \cup {mon.age}]
      /\ due' = [due EXCEPT ![w] = None]
      /\ state[w] = "failed" /\ state' = [state EXCEPT ![w] = "running"]
      /\ due[w] <= -mon.age
  BY Zenon DEF Respawn
<1>2. /\ mon.age \in 0..MaxPass /\ RestartCap \in Nat /\ mon.age \in 0..RestartCap
      /\ None \in -MaxPass..None
  BY SMTT(30) DEF Types, MonType, RestartCap, None
<1>3. ASSUME NEW a \in restarts[w] PROVE a > mon.age
  <2>1. a \in Int /\ due[w] \in Int /\ a + due[w] >= 1 /\ mon.age \in Int
    BY <1>1, <1>2, SMTT(30) DEF RestartInv, None
  <2> QED
    BY <1>1, <2>1, SMTT(30)
<1>4. mon.age \notin restarts[w]
  BY <1>2, <1>3, SMTT(30)
<1>5. /\ restarts' \in [Workers -> SUBSET (0..RestartCap)] /\ due' \in [Workers -> -MaxPass..None]
      /\ state'[w] = "running"
      /\ \A v \in Workers \ {w} :
           restarts'[v] = restarts[v] /\ due'[v] = due[v] /\ state'[v] = state[v]
      /\ restarts'[w] = restarts[w] \cup {mon.age}
  BY <1>1, <1>2, ZenonT(30) DEF RestartInv, Types
<1>6. Bounded(w) => Cardinality(Recent(w)') <= Budget[w]
  <2>1. Recent(w)' \subseteq Recent(w) \cup {mon.age}
    BY <1>5, Zenon DEF Recent
  <2>2. IsFiniteSet(Recent(w)) /\ Cardinality(Recent(w)) \in Nat
    BY RestartsFinite, Zenon DEF Recent, RestartInv
  <2>3. /\ IsFiniteSet(Recent(w) \cup {mon.age})
        /\ Cardinality(Recent(w) \cup {mon.age}) =
             IF mon.age \in Recent(w) THEN Cardinality(Recent(w)) ELSE Cardinality(Recent(w)) + 1
    BY <2>2, FS_AddElement, Zenon
  <2>4. /\ Cardinality(Recent(w)') <= Cardinality(Recent(w) \cup {mon.age})
        /\ Cardinality(Recent(w)') \in Nat
    BY <2>1, <2>3, FS_Subset, FS_CardinalityType, Zenon
  <2>5. Bounded(w) => Cardinality(Recent(w)) < Budget[w]
    BY <1>1, Zenon DEF RestartInv
  <2>6. Budget[w] \in Nat
    BY Zenon
  <2> QED
    BY <2>2, <2>3, <2>4, <2>5, <2>6, SMTT(30)
<1>7. ASSUME NEW v \in Workers \ {w} PROVE Recent(v)' = Recent(v)
  BY <1>5, <1>7, Zenon DEF Recent
<1>8. \A a \in restarts'[w] : a >= mon.age
  BY <1>2, <1>5, SMTT(30) DEF RestartInv
<1>9. RestartInv'
  BY <1>5, <1>6, <1>7, <1>8, ZenonT(30) DEF RestartInv, Bounded
<1> QED
  BY <1>4, <1>9, Zenon

(* The policy forgets the restarts before the window, and plans another    *)
(* only within the budget.                                                 *)
LEMMA RestartsPlanned ==
  ASSUME Types, RestartInv, mon'.age = mon.age, NEW w \in Workers, NEW g, ApplyPolicy(w, g)
  PROVE  RestartInv'
<1> USE SupervisorAssumption
<1> DEFINE n == Cardinality(KeptRestarts(w))
<1>1. /\ restarts' = [restarts EXCEPT ![w] = KeptRestarts(w)]
      /\ \/ state' = [state EXCEPT ![w] = "exhausted"] /\ due' = due
         \/ /\ ~GivesUp(w) /\ state' = [state EXCEPT ![w] = "failed"]
            /\ due' = [due EXCEPT ![w] = RestartBackoff(n) - mon.age]
  BY Zenon DEF ApplyPolicy
<1>2. KeptRestarts(w) \in SUBSET restarts[w] /\ n \in Nat /\ IsFiniteSet(KeptRestarts(w))
  BY RestartsFinite, ZenonT(30) DEF KeptRestarts, RestartInv
<1>3. RestartBackoff(n) \in 1..BackoffMax /\ mon.age \in 0..MaxPass
  BY <1>2, BackoffIsBounded, Zenon DEF Types, MonType
<1>4. RestartBackoff(n) - mon.age \in -MaxPass..None
  BY <1>3, SMTT(30) DEF None
<1> HIDE DEF n
<1>5. /\ restarts' \in [Workers -> SUBSET (0..RestartCap)] /\ due' \in [Workers -> -MaxPass..None]
      /\ \A v \in Workers \ {w} :
           restarts'[v] = restarts[v] /\ due'[v] = due[v] /\ state'[v] = state[v]
      /\ restarts'[w] = KeptRestarts(w)
      /\ state'[w] = "failed" => ~GivesUp(w) /\ due'[w] = RestartBackoff(n) - mon.age
  <2> DEFINE d == RestartBackoff(n) - mon.age
  <2>1. /\ restarts \in [Workers -> SUBSET (0..RestartCap)] /\ due \in [Workers -> -MaxPass..None]
        /\ state \in [Workers -> {"running", "failed", "stopped", "exhausted"}]
        /\ d \in -MaxPass..None
    BY <1>4, Zenon DEF RestartInv, Types
  <2>2. \/ state' = [state EXCEPT ![w] = "exhausted"] /\ due' = due
        \/ ~GivesUp(w) /\ state' = [state EXCEPT ![w] = "failed"] /\ due' = [due EXCEPT ![w] = d]
    BY <1>1, Zenon
  <2>3. KeptRestarts(w) \in SUBSET (0..RestartCap)
    BY <1>2, <2>1, Zenon
  <2> DEFINE D == -MaxPass..None
             k == KeptRestarts(w)
  <2> HIDE DEF d, D, k
  <2>4. /\ restarts' \in [Workers -> SUBSET (0..RestartCap)]
        /\ \A v \in Workers \ {w} : restarts'[v] = restarts[v]
        /\ restarts'[w] = k
    BY <1>1, <2>1, <2>3, Zenon DEF k
  <2>5. due \in [Workers -> D] /\ d \in D
    BY <2>1, Zenon DEF D
  <2>6. /\ due' \in [Workers -> D]
        /\ \A v \in Workers \ {w} : due'[v] = due[v] /\ state'[v] = state[v]
        /\ state'[w] = "failed" => ~GivesUp(w) /\ due'[w] = d
    <3>1. CASE state' = [state EXCEPT ![w] = "exhausted"] /\ due' = due
      BY <2>1, <2>5, <3>1, Zenon
    <3>2. CASE /\ ~GivesUp(w) /\ state' = [state EXCEPT ![w] = "failed"]
               /\ due' = [due EXCEPT ![w] = d]
      BY <2>1, <2>5, <3>2, ZenonT(30)
    <3> QED
      BY <2>2, <3>1, <3>2, Zenon
  <2> QED
    BY <2>4, <2>6, Zenon DEF d, D, k
<1>6. ASSUME NEW a \in restarts'[w]
      PROVE  a >= mon.age /\ (state'[w] = "failed" => a + due'[w] >= 1)
  <2>1. a \in Int /\ a >= mon.age
    BY <1>2, <1>5, SMTT(30) DEF RestartInv
  <2> QED
    BY <1>3, <1>5, <2>1, SMTT(30)
<1>7. /\ Cardinality(Recent(w)') <= Cardinality(Recent(w))
      /\ Cardinality(Recent(w)') <= n
      /\ Cardinality(Recent(w)') \in Nat /\ Cardinality(Recent(w)) \in Nat
  <2>1. Recent(w)' \in SUBSET Recent(w) /\ Recent(w)' \in SUBSET KeptRestarts(w)
    BY <1>2, <1>5, Zenon DEF Recent
  <2>2. IsFiniteSet(Recent(w)) /\ Cardinality(Recent(w)) \in Nat
    BY RestartsFinite, Zenon DEF Recent, RestartInv
  <2> QED
    BY <1>2, <2>1, <2>2, FS_Subset, FS_CardinalityType, ZenonT(30) DEF n
<1>8. Bounded(w) => /\ Cardinality(Recent(w)') <= Budget[w]
                    /\ state'[w] = "failed" => Cardinality(Recent(w)') < Budget[w]
  <2>1. Budget[w] \in Nat /\ (Bounded(w) => Cardinality(Recent(w)) <= Budget[w])
    BY Zenon DEF RestartInv
  <2>2. Bounded(w) /\ ~GivesUp(w) => ~(n >= Budget[w])
    BY Zenon DEF Bounded, GivesUp, n
  <2> QED
    BY <1>2, <1>5, <1>7, <2>1, <2>2, SMTT(30)
<1>9. ASSUME NEW v \in Workers \ {w} PROVE Recent(v)' = Recent(v)
  BY <1>5, <1>9, Zenon DEF Recent
<1> QED
  BY <1>5, <1>6, <1>8, <1>9, ZenonT(30) DEF RestartInv, Bounded

(* Every step keeps RestartInv, and one that respawns a worker records a   *)
(* restart of an age no earlier one has.                                   *)
LEMMA RestartsStep ==
  ASSUME IInv, RestartInv, Next
  PROVE  /\ RestartInv'
         /\ \A w \in Workers :
              state[w] = "failed" /\ state'[w] = "running" => mon.age \notin restarts[w]
<1> DEFINE Quiet == \A w \in Workers : ~(state[w] = "failed" /\ state'[w] = "running")
<1>1. /\ Types /\ mon \in MonType /\ mon.age \in 0..MaxPass
      /\ 0 \in 0..MaxPass /\ MaxPass \in Nat
  BY SupervisorAssumption, SMTT(30) DEF IInv, Types, MonType
<1>2. ASSUME Tick PROVE RestartInv' /\ Quiet
  <2>1. UNCHANGED state
    BY <1>2, Zenon DEF Tick
  <2> QED
    BY <1>1, <1>2, <2>1, RestartsAge, Zenon
<1>3. ASSUME NEW w \in Workers,
             TickStarted(w) \/ TickSucceeded(w) \/ TickFailed(w) \/ TaskEnds(w)
      PROVE  RestartInv' /\ Quiet
  <2>1. UNCHANGED <<restarts, due, mon, state>>
    BY <1>3, Zenon DEF TickStarted, TickSucceeded, TickFailed, TaskEnds
  <2> QED
    BY <1>1, <2>1, RestartsRest, SMTT(30)
<1>4. ASSUME MonitorCrash \/ Stop \/ WakeUp \/ PassDone PROVE RestartInv' /\ Quiet
  <2>1. UNCHANGED <<restarts, due>>
    BY <1>4, Zenon DEF MonitorCrash, Stop, WakeUp, PassDone, workerVars
  <2>2. mon'.age \in {0, mon.age}
    <3>1. \/ mon' = mon \/ mon' = [mon EXCEPT !.pc = "returned"]
          \/ mon' = [pc |-> "scan", queue |-> Order, age |-> 0, slept |-> FALSE]
          \/ mon' = [mon EXCEPT !.pc = "sleep", !.age = 0, !.slept = FALSE]
      BY <1>4, Zenon DEF MonitorCrash, Stop, WakeUp, PassDone
    <3>2. CASE mon' = mon \/ mon' = [mon EXCEPT !.pc = "returned"]
      BY <1>1, <3>2, Zenon DEF MonType
    <3>3. CASE mon' = [pc |-> "scan", queue |-> Order, age |-> 0, slept |-> FALSE]
      BY <3>3, Zenon
    <3>4. CASE mon' = [mon EXCEPT !.pc = "sleep", !.age = 0, !.slept = FALSE]
      BY <1>1, <3>4, ZenonT(30) DEF MonType
    <3> QED
      BY <3>1, <3>2, <3>3, <3>4, ZenonT(30)
  <2>3. \A w \in Workers : state'[w] \in {state[w], "stopped"}
    BY <1>1, <1>4, Zenon DEF MonitorCrash, Stop, WakeUp, PassDone, workerVars, Types
  <2> QED
    BY <1>1, <2>1, <2>2, <2>3, RestartsRest, SMTT(30)
<1>5. ASSUME NEW w \in Workers, Skip(w) \/ CheckHealthy(w) \/ CheckCancel(w)
      PROVE  RestartInv' /\ Quiet
  <2>1. UNCHANGED <<restarts, due, state>>
    BY <1>5, Zenon DEF Skip, CheckHealthy, CheckCancel, workerVars
  <2>2. mon'.age = mon.age
    BY <1>1, <1>5, ZenonT(30) DEF Skip, CheckHealthy, CheckCancel, Advance, MonType
  <2> QED
    BY <1>1, <2>1, <2>2, RestartsRest, SMTT(30)
<1>6. ASSUME NEW w \in Workers, Respawn(w)
      PROVE  /\ RestartInv' /\ mon.age \notin restarts[w]
             /\ \A v \in Workers \ {w} : state'[v] = state[v]
  <2>1. mon'.age = mon.age
    BY <1>1, <1>6, Zenon DEF Respawn, Advance, MonType
  <2>2. \A v \in Workers \ {w} : state'[v] = state[v]
    BY <1>1, <1>6, Zenon DEF Respawn, Types
  <2> QED
    BY <1>1, <1>6, <2>1, <2>2, RestartsGrow, ZenonT(30)
<1>7. ASSUME NEW w \in Workers, CheckFailed(w) \/ Cancelled(w)
      PROVE  RestartInv' /\ Quiet
  <2>1. PICK g : ApplyPolicy(w, g)
    BY <1>7, Zenon DEF CheckFailed, Cancelled
  <2>2. mon'.age = mon.age
    BY <1>1, <2>1, ZenonT(30) DEF ApplyPolicy, Advance, MonType
  <2>3. Quiet
    BY <1>1, <2>1, Zenon DEF ApplyPolicy, Types
  <2> QED
    BY <1>1, <2>1, <2>2, <2>3, RestartsPlanned, Zenon
<1> QED
  BY <1>2, <1>3, <1>4, <1>5, <1>6, <1>7, ZenonT(30) DEF Next, Monitor

(* RestartInv holds of every reachable state. *)
THEOREM RestartsInductive == Spec => []RestartInv
<1>1. Init => RestartInv
  <2> SUFFICES ASSUME Init PROVE RestartInv
    BY Zenon
  <2> USE SupervisorAssumption
  <2>1. /\ restarts = [w \in Workers |-> {}] /\ due = [w \in Workers |-> None]
        /\ \A w \in Workers : state[w] # "failed"
    BY Zenon DEF Init
  <2>2. None \in -MaxPass..None
    BY SMTT(30) DEF None
  <2>3. \A w \in Workers : Cardinality(Recent(w)) = 0
    BY <2>1, FS_EmptySet, Zenon DEF Recent
  <2>4. \A w \in Workers : Budget[w] \in Nat
    BY Zenon
  <2> QED
    BY <2>1, <2>2, <2>3, <2>4, SMTT(30) DEF RestartInv
<1>2. IInv /\ RestartInv /\ [Next]_vars => RestartInv'
  <2>1. ASSUME RestartInv, UNCHANGED vars PROVE RestartInv'
    <3>1. UNCHANGED <<restarts, due, mon, state>>
      BY <2>1, Zenon DEF vars, workerVars
    <3> QED
      BY <2>1, <3>1, Zenon DEF RestartInv, Bounded, Recent
  <2> QED
    BY <2>1, RestartsStep, Zenon
<1> QED
  BY <1>1, <1>2, Inductive, PTL DEF Spec

(* A worker with a bounded policy is restarted at most restart_budget      *)
(* times in any restart_window.                                            *)
THEOREM RestartBudget == Spec => []RestartBudgetKept
<1>1. RestartInv => RestartBudgetKept
  BY Zenon DEF RestartInv, RestartBudgetKept, Bounded, Recent
<1> QED
  BY <1>1, RestartsInductive, PTL

(* No restart is lost in the set of ages: the age a restart is recorded    *)
(* with is not in the set yet, since the backoff is at least one tick.     *)
THEOREM EveryRestartCounts ==
  Spec => [][\A w \in Workers :
               state[w] = "failed" /\ state'[w] = "running" => mon.age \notin restarts[w]]_vars
<1>1. IInv /\ RestartInv /\ [Next]_vars =>
        [\A w \in Workers :
           state[w] = "failed" /\ state'[w] = "running" => mon.age \notin restarts[w]]_vars
  BY RestartsStep, Zenon
<1> QED
  BY <1>1, Inductive, RestartsInductive, PTL DEF Spec

-----------------------------------------------------------------------------
(* The counters and ages that the other invariants leave open. *)
Capped ==
  /\ beat \in [Workers -> 0..BeatCap] /\ failures \in [Workers -> 0..MaxFailures]
  /\ stopping \in BOOLEAN /\ terminated \in BOOLEAN

(* Type correctness: every variable keeps its type, the counters and ages  *)
(* their caps.                                                             *)
THEOREM TypeCorrect == Spec => []TypeOK
<1> USE SupervisorAssumption
<1>0. /\ BeatCap \in Nat /\ MaxFailures \in Nat
      /\ 0 \in 0..BeatCap /\ 0 \in 0..MaxFailures
  BY SMTT(30) DEF BeatCap
<1>1. Init => Capped
  <2>1. Init => stopping \in BOOLEAN /\ terminated \in BOOLEAN
    BY Zenon DEF Init
  <2>2. Init => /\ beat \in [Workers -> 0..BeatCap]
                /\ failures \in [Workers -> 0..MaxFailures]
    BY <1>0 DEF Init
  <2> QED
    BY <2>1, <2>2, Zenon DEF Capped
<1>2. ASSUME Capped, Next PROVE Capped'
  <2>1. beat' \in [Workers -> 0..BeatCap]
    <3>1. CASE Tick
      <4>1. \A a \in 0..BeatCap : Older(a, BeatCap) \in 0..BeatCap
        BY <1>0 DEF Older
      <4> QED
        BY <1>2, <3>1, <4>1, Zenon DEF Tick, Capped
    <3>2. CASE beat' = beat \/ \E w \in Workers : beat' = [beat EXCEPT ![w] = 0]
      BY <1>0, <1>2, <3>2, ZenonT(30) DEF Capped
    <3>3. Tick \/ beat' = beat \/ \E w \in Workers : beat' = [beat EXCEPT ![w] = 0]
      BY <1>2, Zenon DEF Next, Monitor, MonitorCrash, Stop, TickStarted, TickSucceeded,
         TickFailed, TaskEnds, WakeUp, PassDone, Skip, Respawn, CheckHealthy, CheckCancel,
         CheckFailed, Cancelled, ApplyPolicy, workerVars
    <3> QED
      BY <3>1, <3>2, <3>3, Zenon
  <2>2. failures' \in [Workers -> 0..MaxFailures]
    <3>1. CASE \E w \in Workers : OneMoreFailure(w)
      <4>1. PICK w \in Workers : OneMoreFailure(w)
        BY <3>1, Zenon
      <4>2. (IF failures[w] < MaxFailures THEN failures[w] + 1 ELSE failures[w]) \in 0..MaxFailures
        BY <1>0, <1>2, SMTT(30) DEF Capped
      <4> QED
        BY <1>2, <4>1, <4>2, Zenon DEF OneMoreFailure, Capped
    <3>2. CASE failures' = failures \/ \E w \in Workers : failures' = [failures EXCEPT ![w] = 0]
      BY <1>0, <1>2, <3>2, ZenonT(30) DEF Capped
    <3>3. \/ \E w \in Workers : OneMoreFailure(w)
          \/ failures' = failures \/ \E w \in Workers : failures' = [failures EXCEPT ![w] = 0]
      BY <1>2, ZenonT(30) DEF Next, Monitor, MonitorCrash, Stop, Tick, TickStarted, TickSucceeded,
         TickFailed, TaskEnds, WakeUp, PassDone, Skip, Respawn, CheckHealthy, CheckCancel,
         CheckFailed, Cancelled, ApplyPolicy, workerVars
    <3> QED
      BY <3>1, <3>2, <3>3, Zenon
  <2>3. stopping' \in BOOLEAN /\ terminated' \in BOOLEAN
    BY <1>2, ZenonT(30) DEF Next, Monitor, MonitorCrash, Stop, Tick, TickStarted, TickSucceeded,
       TickFailed, TaskEnds, WakeUp, PassDone, Skip, Respawn, CheckHealthy, CheckCancel,
       CheckFailed, Cancelled, ApplyPolicy, Capped
  <2> QED
    BY <2>1, <2>2, <2>3, Zenon DEF Capped
<1>3. ASSUME Capped, UNCHANGED vars PROVE Capped'
  <2>1. UNCHANGED <<beat, failures, stopping, terminated>>
    BY <1>3, Zenon DEF vars, workerVars
  <2> QED
    BY <1>3, <2>1, Zenon DEF Capped
<1>4. IInv /\ RestartInv /\ Capped => TypeOK
  <2> SUFFICES ASSUME IInv, RestartInv, Capped PROVE TypeOK
    BY Zenon
  <2>1. /\ mon.pc \in {"sleep", "scan", "await", "returned"}
        /\ mon.age \in 0..MaxPass /\ mon.slept \in BOOLEAN
    BY Zenon DEF IInv, Types, MonType
  <2> QED
    BY <2>1, Zenon DEF IInv, Types, RestartInv, Capped, TypeOK
<1>5. Capped /\ [Next]_vars => Capped'
  BY <1>2, <1>3, Zenon
<1> QED
  BY <1>1, <1>4, <1>5, Inductive, RestartsInductive, PTL DEF Spec
=============================================================================
