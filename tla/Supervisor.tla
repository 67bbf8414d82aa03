----------------------------- MODULE Supervisor -----------------------------
(***************************************************************************)
(* WorkerSupervisor (supervisor.py): it spawns the background workers of   *)
(* the execution service, watches their heartbeats once per interval,      *)
(* opens and closes the entry gate, cancels and restarts workers, and ends *)
(* the process when a critical worker cannot be kept alive.                *)
(*                                                                         *)
(* Everything runs in one asyncio loop.  The monitor gives way to others   *)
(* only in its sleep and in `await w.task' after it cancelled a worker, so *)
(* while `mon.pc = "scan"' nothing else moves.  Time is discrete; every    *)
(* clock value is kept as an age (how long ago) so that behaviours need no *)
(* horizon.  The monitor reads the clock once per pass: mon.age is how     *)
(* long ago, and ages are compared as of that reading, as in the code.     *)
(***************************************************************************)
EXTENDS ReadinessGate, Integers, Sequences, FiniteSets

CONSTANTS Order,          \* the workers, in the order of the spec list
          Enabled,        \* the enabled ones
          Policy,         \* Policy[w]: never, bounded_fatal, bounded_degraded, always
          Budget,         \* Budget[w]: restart_budget
          MaxFailures,    \* max_consecutive_failures
          StaleTimeout,   \* stale_timeout_seconds, in ticks
          Window,         \* restart_window_seconds, in ticks
          BackoffBase,    \* restart_backoff_base_seconds
          BackoffMax,     \* restart_backoff_max_seconds
          MaxPass         \* bound on the time one pass spends in awaits

Workers == {Order[i] : i \in DOMAIN Order}

ASSUME SupervisorAssumption ==
  /\ Order \in Seq(Workers)
  /\ \A i, j \in DOMAIN Order : Order[i] = Order[j] => i = j
  /\ Enabled \subseteq Workers /\ Critical \subseteq Enabled
  /\ "operational" \in Reasons
  /\ {MaxFailures, StaleTimeout, Window, BackoffBase, BackoffMax} \subseteq Nat \ {0}
  /\ BackoffBase <= BackoffMax /\ MaxPass \in Nat
  /\ Budget \in [Workers -> Nat]

(* Ages beyond these caps are not told apart by any comparison below. *)
BeatCap == StaleTimeout + 2 * MaxPass + 2
RestartCap == Window + MaxPass + 1
Older(a, cap) == IF a < cap THEN a + 1 ELSE a
None == BackoffMax + 1   \* next_restart_at is None

VARIABLES
  gate,       \* the WorkerReadinessGate
  state,      \* ManagedWorker.state
  task,       \* the asyncio task: none, alive, cancelling or done
  succeeded,  \* tracker.last_success_at is set
  beat,       \* age of last_success_at, else last_started_at, else spawned_at
  failures,   \* tracker.consecutive_failures, up to MaxFailures
  restarts,   \* ages of the recorded restarts; no two are of one clock reading
  due,        \* time until next_restart_at, or None
  mon,        \* the monitor task: [pc, queue, age, slept]
  stopping,   \* _stop_event
  terminated  \* SIGTERM was sent to the process

workerVars == <<state, task, succeeded, beat, failures, restarts, due>>
vars == <<gate, workerVars, mon, stopping, terminated>>

TypeOK ==
  /\ gate \in GateType
  /\ state \in [Workers -> {"running", "failed", "stopped", "exhausted"}]
  /\ task \in [Workers -> {"none", "alive", "cancelling", "done"}]
  /\ succeeded \in [Workers -> BOOLEAN]
  /\ beat \in [Workers -> 0..BeatCap]
  /\ failures \in [Workers -> 0..MaxFailures]
  /\ restarts \in [Workers -> SUBSET (0..RestartCap)]
  /\ due \in [Workers -> -MaxPass..None]
  /\ mon.pc \in {"sleep", "scan", "await", "returned"}
  /\ mon.age \in 0..MaxPass /\ mon.slept \in BOOLEAN
  /\ stopping \in BOOLEAN /\ terminated \in BOOLEAN

(* start(): every enabled worker is spawned, then the monitor. *)
Init ==
  /\ gate = InitGate
  /\ state = [w \in Workers |-> IF w \in Enabled THEN "running" ELSE "stopped"]
  /\ task = [w \in Workers |-> IF w \in Enabled THEN "alive" ELSE "none"]
  /\ succeeded = [w \in Workers |-> FALSE]
  /\ beat = [w \in Workers |-> 0]
  /\ failures = [w \in Workers |-> 0]
  /\ restarts = [w \in Workers |-> {}]
  /\ due = [w \in Workers |-> None]
  /\ mon = [pc |-> "scan", queue |-> Order, age |-> 0, slept |-> FALSE]
  /\ stopping = FALSE
  /\ terminated = FALSE
-----------------------------------------------------------------------------
(* The workers.  They move only while the monitor waits. *)
LoopFree == mon.pc # "scan"

(* tick_started, visible to the monitor until the first success. *)
TickStarted(w) ==
  /\ LoopFree /\ task[w] = "alive" /\ ~succeeded[w]
  /\ beat' = [beat EXCEPT ![w] = 0]
  /\ UNCHANGED <<gate, state, task, succeeded, failures, restarts, due, mon,
                 stopping, terminated>>

(* tick_succeeded and tick_idle. *)
TickSucceeded(w) ==
  /\ LoopFree /\ task[w] = "alive"
  /\ succeeded' = [succeeded EXCEPT ![w] = TRUE]
  /\ beat' = [beat EXCEPT ![w] = 0]
  /\ failures' = [failures EXCEPT ![w] = 0]
  /\ UNCHANGED <<gate, state, task, restarts, due, mon, stopping, terminated>>

OneMoreFailure(w) ==
  failures' = [failures EXCEPT ![w] = IF @ < MaxFailures THEN @ + 1 ELSE @]

(* tick_failed, reported by the loop body of the worker. *)
TickFailed(w) ==
  /\ LoopFree /\ task[w] = "alive"
  /\ OneMoreFailure(w)
  /\ UNCHANGED <<gate, state, task, succeeded, beat, restarts, due, mon,
                 stopping, terminated>>

(* The worker's coroutine ends: it returns, it raises (the wrapper records *)
(* a failure), or it yields to a cancellation.                             *)
TaskEnds(w) ==
  /\ LoopFree /\ task[w] \in {"alive", "cancelling"}
  /\ task' = [task EXCEPT ![w] = "done"]
  /\ OneMoreFailure(w) \/ UNCHANGED failures
  /\ UNCHANGED <<gate, state, succeeded, beat, restarts, due, mon, stopping,
                 terminated>>

(* Time passes; one interval is one tick, and neither the sleeping monitor *)
(* nor a cancelled worker is late by more than the named bounds.           *)
Tick ==
  /\ LoopFree
  /\ mon.pc = "sleep" => ~mon.slept
  /\ mon.pc = "await" => mon.age < MaxPass
  /\ beat' = [w \in Workers |-> Older(beat[w], BeatCap)]
  /\ restarts' = [w \in Workers |-> {Older(a, RestartCap) : a \in restarts[w]}]
  /\ due' = [w \in Workers |->
               IF due[w] = None \/ due[w] = -MaxPass THEN due[w] ELSE due[w] - 1]
  /\ mon' = [mon EXCEPT !.age = IF mon.pc = "await" THEN @ + 1 ELSE @,
                        !.slept = mon.pc = "sleep"]
  /\ UNCHANGED <<gate, state, task, succeeded, failures, stopping, terminated>>
-----------------------------------------------------------------------------
(* The monitor. *)
Current == Head(mon.queue)
Advance == [mon EXCEPT !.pc = "scan", !.queue = Tail(@)]

(* An age as of the clock reading of the pass. *)
AsOfPass(a) == a - mon.age

(* Mutant of Stale: a worker that succeeded once is never stale. *)
StaleBeforeSuccess(w) == ~succeeded[w] /\ AsOfPass(beat[w]) > StaleTimeout

Stale(w) == AsOfPass(beat[w]) > StaleTimeout

(* Mutant of RestartBackoff: milliseconds where seconds are meant, no cap. *)
RestartBackoffMillis(n) == 1000 * BackoffBase * 2^n

(* 2^n backoff, capped. *)
RestartBackoff(n) ==
  IF BackoffBase * 2^n < BackoffMax THEN BackoffBase * 2^n ELSE BackoffMax

(* Mutant of WakeUp: the stop event is not tested. *)
WakeUpIgnoresStop ==
  /\ mon.pc = "sleep" /\ (mon.slept \/ stopping)
  /\ mon' = [pc |-> "scan", queue |-> Order, age |-> 0, slept |-> FALSE]
  /\ UNCHANGED <<gate, workerVars, stopping, terminated>>

(* The loop wakes up: it ends when the stop event is set. *)
WakeUp ==
  /\ mon.pc = "sleep" /\ (mon.slept \/ stopping)
  /\ mon' = IF stopping THEN [mon EXCEPT !.pc = "returned"]
            ELSE [pc |-> "scan", queue |-> Order, age |-> 0, slept |-> FALSE]
  /\ UNCHANGED <<gate, workerVars, stopping, terminated>>

PassDone ==
  /\ mon.pc = "scan" /\ mon.queue = <<>>
  /\ mon' = [mon EXCEPT !.pc = "sleep", !.age = 0, !.slept = FALSE]
  /\ UNCHANGED <<gate, workerVars, stopping, terminated>>

Scanning(w) == mon.pc = "scan" /\ mon.queue # <<>> /\ w = Current

(* Nothing to do: stopped, exhausted, or waiting for its restart time. *)
Skip(w) ==
  /\ Scanning(w)
  /\ \/ state[w] \in {"stopped", "exhausted"}
     \/ state[w] = "failed" /\ due[w] # None /\ due[w] > -mon.age
  /\ mon' = Advance
  /\ UNCHANGED <<gate, workerVars, stopping, terminated>>

(* A failed worker is spawned again when its backoff has passed. *)
Respawn(w) ==
  /\ Scanning(w)
  /\ state[w] = "failed" /\ due[w] # None /\ due[w] <= -mon.age
  /\ restarts' = [restarts EXCEPT ![w] = @ \cup {mon.age}]
  /\ state' = [state EXCEPT ![w] = "running"]
  /\ task' = [task EXCEPT ![w] = "alive"]
  /\ succeeded' = [succeeded EXCEPT ![w] = FALSE]
  /\ beat' = [beat EXCEPT ![w] = 0]
  /\ failures' = [failures EXCEPT ![w] = 0]
  /\ due' = [due EXCEPT ![w] = None]
  /\ mon' = Advance
  /\ UNCHANGED <<gate, stopping, terminated>>

(* Mutant of CheckedGate: a task that returned does not close the gate. *)
CheckedGateIgnoresReturn(w) ==
  LET marked == IF /\ w \in Critical /\ succeeded[w] /\ failures[w] = 0
                   /\ AsOfPass(beat[w]) <= StaleTimeout
                THEN MarkReady(gate, w) ELSE gate
  IN  IF w \in Critical /\ (Stale(w) \/ failures[w] > 0)
      THEN Close(marked, "operational") ELSE marked

(* What a health check makes of the gate: a healthy critical worker is     *)
(* marked ready, and a stale, failed or erring one closes the gate.        *)
CheckedGate(w) ==
  LET marked == IF /\ w \in Critical /\ succeeded[w] /\ failures[w] = 0
                   /\ AsOfPass(beat[w]) <= StaleTimeout
                THEN MarkReady(gate, w) ELSE gate
  IN  IF w \in Critical /\ (Stale(w) \/ task[w] = "done" \/ failures[w] > 0)
      THEN Close(marked, "operational") ELSE marked

MustCancel(w) ==
  (Stale(w) \/ failures[w] >= MaxFailures) /\ task[w] # "done"

CheckHealthy(w) ==
  /\ Scanning(w) /\ state[w] = "running"
  /\ ~MustCancel(w) /\ task[w] # "done"
  /\ gate' = CheckedGate(w)
  /\ mon' = Advance
  /\ UNCHANGED <<workerVars, stopping, terminated>>

(* A stale or persistently failing worker is cancelled, and the loop waits *)
(* for its task to end.                                                    *)
CheckCancel(w) ==
  /\ Scanning(w) /\ state[w] = "running" /\ MustCancel(w)
  /\ gate' = CheckedGate(w)
  /\ task' = [task EXCEPT ![w] = "cancelling"]
  /\ mon' = [mon EXCEPT !.pc = "await"]
  /\ UNCHANGED <<state, succeeded, beat, failures, restarts, due, stopping,
                 terminated>>

(* The restart policy for a worker whose task is done; g is the gate after *)
(* the health check.                                                       *)
KeptRestarts(w) == {a \in restarts[w] : AsOfPass(a) <= Window}

(* Mutant of GivesUp: one restart too many. *)
GivesUpLate(w) ==
  \/ Policy[w] = "never"
  \/ Policy[w] # "always" /\ Cardinality(KeptRestarts(w)) > Budget[w]

GivesUp(w) ==
  \/ Policy[w] = "never"
  \/ Policy[w] # "always" /\ Cardinality(KeptRestarts(w)) >= Budget[w]

ApplyPolicy(w, g) ==
  /\ restarts' = [restarts EXCEPT ![w] = KeptRestarts(w)]
  /\ LET fatal == w \in Critical \/ Policy[w] = "bounded_fatal"
     IN  IF GivesUp(w)
         THEN /\ state' = [state EXCEPT ![w] = "exhausted"]
              /\ gate' = Close(g, "operational")
              /\ terminated' = (terminated \/ fatal)
              /\ mon' = IF fatal THEN [mon EXCEPT !.pc = "returned"] ELSE Advance
              /\ UNCHANGED due
         ELSE /\ state' = [state EXCEPT ![w] = "failed"]
              /\ gate' = g
              /\ due' = [due EXCEPT ![w] =
                           RestartBackoff(Cardinality(KeptRestarts(w))) - mon.age]
              /\ mon' = Advance
              /\ UNCHANGED terminated
  /\ UNCHANGED <<task, succeeded, beat, failures, stopping>>

(* Mutant of CheckFailed: the failure is recorded, no restart is planned. *)
CheckFailedForgets(w) ==
  /\ Scanning(w) /\ state[w] = "running" /\ task[w] = "done"
  /\ state' = [state EXCEPT ![w] = "failed"]
  /\ gate' = CheckedGate(w)
  /\ mon' = Advance
  /\ UNCHANGED <<task, succeeded, beat, failures, restarts, due, stopping, terminated>>

CheckFailed(w) ==
  /\ Scanning(w) /\ state[w] = "running" /\ task[w] = "done"
  /\ ApplyPolicy(w, CheckedGate(w))

(* The awaited cancellation has finished. *)
Cancelled(w) ==
  /\ mon.pc = "await" /\ w = Current /\ task[w] = "done"
  /\ ApplyPolicy(w, gate)

(* Any exception in the loop closes the gate and ends the process. *)
MonitorCrash ==
  /\ mon.pc = "scan"
  /\ gate' = Close(gate, "operational")
  /\ mon' = [mon EXCEPT !.pc = "returned"]
  /\ terminated' = TRUE
  /\ UNCHANGED <<workerVars, stopping>>

(* Mutant of Stop: the workers' states are left alone. *)
StopKeepsStates ==
  /\ LoopFree /\ ~stopping
  /\ stopping' = TRUE
  /\ gate' = Close(gate, "operational")
  /\ task' = [w \in Workers |-> IF task[w] = "alive" THEN "cancelling" ELSE task[w]]
  /\ UNCHANGED <<state, succeeded, beat, failures, restarts, due, mon, terminated>>

(* stop(): shutdown, requested by an operator or by the SIGTERM above. *)
Stop ==
  /\ LoopFree /\ ~stopping
  /\ stopping' = TRUE
  /\ gate' = Close(gate, "operational")
  /\ state' = [w \in Workers |->
                 IF w \in Enabled /\ state[w] # "exhausted" THEN "stopped" ELSE state[w]]
  /\ task' = [w \in Workers |-> IF task[w] = "alive" THEN "cancelling" ELSE task[w]]
  /\ UNCHANGED <<succeeded, beat, failures, restarts, due, mon, terminated>>

Monitor ==
  \/ WakeUp \/ PassDone
  \/ \E w \in Workers :
       Skip(w) \/ Respawn(w) \/ CheckHealthy(w) \/ CheckCancel(w)
         \/ CheckFailed(w) \/ Cancelled(w)

Next ==
  \/ Monitor \/ MonitorCrash \/ Stop \/ Tick
  \/ \E w \in Workers :
       TickStarted(w) \/ TickSucceeded(w) \/ TickFailed(w) \/ TaskEnds(w)

(* The loop always gets to run again, time passes, and a cancelled task    *)
(* ends (asyncio delivers the cancellation at the worker's next await).    *)
Fairness ==
  /\ WF_vars(Monitor) /\ WF_vars(Tick)
  /\ \A w \in Workers : WF_vars(task[w] = "cancelling" /\ TaskEnds(w))

Spec == Init /\ [][Next]_vars /\ Fairness
-----------------------------------------------------------------------------
(* While entries are admitted, every critical worker is running and its    *)
(* current incarnation has completed a tick: a restarted worker that has   *)
(* not proved itself, or one whose failure was noticed, keeps the gate     *)
(* closed however the other workers' ready marks interleave.               *)
OpenGateMeansCriticalRunning ==
  gate.open => \A w \in Critical : state[w] = "running" /\ succeeded[w]

(* While entries are admitted no critical worker has been silent for       *)
(* longer than its timeout, one interval and the awaits of two passes,     *)
(* although a pass judges everybody by one clock reading and may stall     *)
(* while it waits for a cancelled worker.                                  *)
SilenceIsBounded ==
  gate.open => \A w \in Critical : beat[w] <= StaleTimeout + 2 * MaxPass + 1

(* After stop() the gate never opens again, even when stop() arrives while *)
(* the monitor is in the middle of a pass; nor after the monitor ended.    *)
ClosedForGood == stopping \/ mon.pc = "returned" => ~gate.open

(* After stop() no worker is spawned. *)
NoSpawnAfterStop ==
  [][stopping => \A w \in Workers : task'[w] = "alive" => task[w] = "alive"]_vars

(* A bounded worker is never restarted more often than its budget within   *)
(* one window.                                                             *)
RestartBudgetKept ==
  \A w \in Workers :
    Policy[w] \in {"bounded_fatal", "bounded_degraded"} =>
      Cardinality({a \in restarts[w] : a <= Window}) <= Budget[w]

(* A worker whose task ended is spawned again, or given up for good, or    *)
(* the process is going down: it is never forgotten.                       *)
EndedWorkerIsHandled ==
  \A w \in Workers :
    task[w] = "done" ~> \/ task[w] = "alive"
                        \/ state[w] = "exhausted"
                        \/ stopping \/ terminated

(* What the monitor calls healthy, for every critical worker. *)
Healthy ==
  /\ ~stopping /\ mon.pc # "returned"
  /\ \A w \in Critical : /\ state[w] = "running" /\ task[w] = "alive"
                         /\ succeeded[w] /\ failures[w] = 0
                         /\ beat[w] <= StaleTimeout

(* A transient closure heals: once all critical workers stay healthy and   *)
(* the supervisor stays up, the gate is open from some point on, also      *)
(* after a worker that is not critical was given up.                       *)
HealthyGateReopens == <>[]Healthy => <>[]gate.open
=============================================================================
