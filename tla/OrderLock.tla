----------------------------- MODULE OrderLock -----------------------------
(***************************************************************************)
(* The Redis lease around every order operation on an instrument           *)
(* (order_lock.py): SET NX PX with a fresh token, a heartbeat task that    *)
(* extends the TTL, and an owner-checked release.  Operations wait on      *)
(* Redis and on the exchange for as long as they like, requests and        *)
(* answers get lost, and a process can die holding the lease.              *)
(*                                                                         *)
(* Every operation acquires once, so it stands for its own token.          *)
(***************************************************************************)
EXTENDS Naturals

CONSTANTS Ops,        \* the operations that want the lease of one instrument
          TTL,        \* ORDER_LOCK_TTL_MS, in ticks
          Interval,   \* ORDER_LOCK_RENEW_INTERVAL_SECONDS, in ticks
          NoOne       \* the key does not exist

(* acquire() refuses any other timing. *)
ASSUME OrderLockAssumption ==
  /\ TTL \in Nat /\ Interval \in Nat \ {0} /\ Interval < TTL
  /\ NoOne \notin Ops

VARIABLES
  owner,    \* the token stored under the key
  ttl,      \* its remaining time to live
  phase,    \* idle, body (inside `async with'), releasing, done
  hb,       \* heartbeat task: off, sleep, sent (request out), ok, no (answers)
  timer,    \* time until the heartbeat sends its next renewal
  lost,     \* _lost_reason is set
  outcome,  \* how the operation ended for its caller
  shared,   \* history: someone else took the lease during the body
  late      \* history: a heartbeat missed its tick, or a renewal was lost

vars == <<owner, ttl, phase, hb, timer, lost, outcome, shared, late>>

TypeOK ==
  /\ owner \in Ops \cup {NoOne}
  /\ ttl \in 0..TTL
  /\ phase \in [Ops -> {"idle", "body", "releasing", "done"}]
  /\ hb \in [Ops -> {"off", "sleep", "sent", "ok", "no"}]
  /\ timer \in [Ops -> 0..Interval]
  /\ lost \in [Ops -> BOOLEAN]
  /\ outcome \in [Ops -> {"none", "busy", "normal", "unconfirmed", "lost",
                          "raised", "crashed"}]
  /\ shared \in [Ops -> BOOLEAN]
  /\ late \in BOOLEAN

Init ==
  /\ owner = NoOne /\ ttl = 0
  /\ phase = [o \in Ops |-> "idle"]
  /\ hb = [o \in Ops |-> "off"]
  /\ timer = [o \in Ops |-> 0]
  /\ lost = [o \in Ops |-> FALSE]
  /\ outcome = [o \in Ops |-> "none"]
  /\ shared = [o \in Ops |-> FALSE]
  /\ late = FALSE

InFlight(o) == phase[o] \in {"body", "releasing"}

(* o takes the lease: everyone else still in its body has to share. *)
Take(o) ==
  /\ owner' = o /\ ttl' = TTL
  /\ shared' = [p \in Ops |-> shared[p] \/ (p # o /\ phase[p] = "body")]

End(o, result) ==
  /\ phase' = [phase EXCEPT ![o] = "done"]
  /\ outcome' = [outcome EXCEPT ![o] = result]
-----------------------------------------------------------------------------
(* Mutant of Acquire: SET without NX. *)
AcquireOverwrites(o) ==
  /\ phase[o] = "idle"
  /\ Take(o)
  /\ phase' = [phase EXCEPT ![o] = "body"]
  /\ hb' = [hb EXCEPT ![o] = "sleep"]
  /\ timer' = [timer EXCEPT ![o] = Interval]
  /\ UNCHANGED <<lost, outcome, late>>

(* acquire() and __aenter__(): SET NX PX, then the heartbeat starts. *)
Acquire(o) ==
  /\ phase[o] = "idle" /\ owner = NoOne
  /\ Take(o)
  /\ phase' = [phase EXCEPT ![o] = "body"]
  /\ hb' = [hb EXCEPT ![o] = "sleep"]
  /\ timer' = [timer EXCEPT ![o] = Interval]
  /\ UNCHANGED <<lost, outcome, late>>

(* The key exists: acquire() returns None. *)
AcquireBusy(o) ==
  /\ phase[o] = "idle" /\ owner # NoOne
  /\ End(o, "busy")
  /\ UNCHANGED <<owner, ttl, hb, timer, lost, shared, late>>

(* Mutant of AcquireFails: SET without PX, a key that never expires. *)
AcquireFailsNoExpiry(o) ==
  /\ phase[o] = "idle"
  /\ \/ owner = NoOne /\ owner' = o /\ ttl' = 0 /\ UNCHANGED shared
     \/ UNCHANGED <<owner, ttl, shared>>
  /\ End(o, "raised")
  /\ UNCHANGED <<hb, timer, lost, late>>

(* SET failed in transport; Redis may have executed it all the same. *)
AcquireFails(o) ==
  /\ phase[o] = "idle"
  /\ \/ owner = NoOne /\ Take(o)
     \/ UNCHANGED <<owner, ttl, shared>>
  /\ End(o, "raised")
  /\ UNCHANGED <<hb, timer, lost, late>>

(* The heartbeat wakes up and sends the renewal script. *)
SendRenewal(o) ==
  /\ phase[o] = "body" /\ hb[o] = "sleep" /\ timer[o] = 0
  /\ hb' = [hb EXCEPT ![o] = "sent"]
  /\ UNCHANGED <<owner, ttl, phase, timer, lost, outcome, shared, late>>

(* Mutant of Renew: the TTL is not extended. *)
RenewOnlyCompares(o) ==
  /\ hb[o] = "sent"
  /\ hb' = [hb EXCEPT ![o] = IF owner = o THEN "ok" ELSE "no"]
  /\ UNCHANGED <<owner, ttl, phase, timer, lost, outcome, shared, late>>

(* Mutants of Renew: the script sets the key again; the TTL is added to    *)
(* what is left.                                                           *)
RenewSetsKey(o) ==
  /\ hb[o] = "sent"
  /\ hb' = [hb EXCEPT ![o] = "ok"]
  /\ owner' = o /\ ttl' = TTL
  /\ UNCHANGED <<phase, timer, lost, outcome, shared, late>>

RenewAdds(o) ==
  /\ hb[o] = "sent"
  /\ hb' = [hb EXCEPT ![o] = IF owner = o THEN "ok" ELSE "no"]
  /\ ttl' = IF owner = o THEN ttl + TTL ELSE ttl
  /\ UNCHANGED <<owner, phase, timer, lost, outcome, shared, late>>

(* Redis runs the script, perhaps after the operation moved on. *)
Renew(o) ==
  /\ hb[o] = "sent"
  /\ hb' = [hb EXCEPT ![o] = IF owner = o THEN "ok" ELSE "no"]
  /\ ttl' = IF owner = o THEN TTL ELSE ttl
  /\ UNCHANGED <<owner, phase, timer, lost, outcome, shared, late>>

(* The answer arrives: anything but 1 ends the heartbeat, marked lost. *)
RenewalAnswered(o) ==
  /\ phase[o] = "body" /\ hb[o] \in {"ok", "no"}
  /\ hb' = [hb EXCEPT ![o] = IF hb[o] = "ok" THEN "sleep" ELSE "off"]
  /\ timer' = [timer EXCEPT ![o] = Interval]
  /\ lost' = [lost EXCEPT ![o] = @ \/ hb[o] = "no"]
  /\ UNCHANGED <<owner, ttl, phase, outcome, shared, late>>

(* The request or its answer is lost: the heartbeat ends, marked lost. *)
RenewalFails(o) ==
  /\ phase[o] = "body" /\ hb[o] \in {"sent", "ok", "no"}
  /\ hb' = [hb EXCEPT ![o] = "off"]
  /\ lost' = [lost EXCEPT ![o] = TRUE]
  /\ late' = TRUE
  /\ UNCHANGED <<owner, ttl, phase, timer, outcome, shared>>

(* The body ends and __aexit__ cancels the heartbeat; a renewal that is    *)
(* already on its way still reaches Redis.                                 *)
BodyEnds(o) ==
  /\ phase[o] = "body"
  /\ phase' = [phase EXCEPT ![o] = "releasing"]
  /\ hb' = [hb EXCEPT ![o] = IF @ = "sent" THEN "sent" ELSE "off"]
  /\ UNCHANGED <<owner, ttl, timer, lost, outcome, shared, late>>

(* What the caller sees: an exception of the body goes through, otherwise  *)
(* a lost lease raises OrderLockLostError.                                 *)
ExitResult(o, isLost, fine) ==
  \/ End(o, IF isLost THEN "lost" ELSE fine)
  \/ End(o, "raised")

(* Mutants of Release: DEL without comparing the token; the answer of the  *)
(* script is not looked at.                                                *)
ReleaseAnyToken(o) ==
  /\ phase[o] = "releasing"
  /\ owner' = NoOne /\ ttl' = 0
  /\ ExitResult(o, lost[o], "normal")
  /\ UNCHANGED <<hb, timer, lost, shared, late>>

ReleaseIgnoresAnswer(o) ==
  /\ phase[o] = "releasing"
  /\ owner' = IF owner = o THEN NoOne ELSE owner
  /\ ttl' = IF owner = o THEN 0 ELSE ttl
  /\ ExitResult(o, lost[o], "normal")
  /\ UNCHANGED <<hb, timer, lost, shared, late>>

(* __aexit__: the release script deletes the key only for its owner, and   *)
(* anything but 1 marks the lease lost.                                    *)
Release(o) ==
  /\ phase[o] = "releasing"
  /\ owner' = IF owner = o THEN NoOne ELSE owner
  /\ ttl' = IF owner = o THEN 0 ELSE ttl
  /\ lost' = [lost EXCEPT ![o] = @ \/ owner # o]
  /\ ExitResult(o, lost[o] \/ owner # o, "normal")
  /\ UNCHANGED <<hb, timer, shared, late>>

(* The release fails in transport, executed or not: only logged. *)
ReleaseFails(o) ==
  /\ phase[o] = "releasing"
  /\ \/ owner = o /\ owner' = NoOne /\ ttl' = 0
     \/ UNCHANGED <<owner, ttl>>
  /\ ExitResult(o, lost[o], "unconfirmed")
  /\ UNCHANGED <<hb, timer, lost, shared, late>>

(* The process dies: nobody releases, a request on its way still arrives. *)
Crash(o) ==
  /\ InFlight(o)
  /\ End(o, "crashed")
  /\ hb' = [hb EXCEPT ![o] = IF @ = "sent" THEN "sent" ELSE "off"]
  /\ UNCHANGED <<owner, ttl, timer, lost, shared, late>>

(* The timing the lease is designed for: a renewal is sent, executed and   *)
(* answered within the tick in which it is due.                            *)
Prompt == \A o \in Ops : phase[o] = "body" => timer[o] # 0

(* One tick; the key expires when its TTL has run out. *)
Tick ==
  /\ ttl' = IF ttl = 0 THEN 0 ELSE ttl - 1
  /\ owner' = IF ttl = 1 THEN NoOne ELSE owner
  /\ timer' = [o \in Ops |-> IF timer[o] = 0 THEN 0 ELSE timer[o] - 1]
  /\ late' = (late \/ ~Prompt)
  /\ UNCHANGED <<phase, hb, lost, outcome, shared>>

Heartbeat(o) == SendRenewal(o) \/ Renew(o) \/ RenewalAnswered(o) \/ RenewalFails(o)
AExit(o) == Release(o) \/ ReleaseFails(o)
Leave(o) == BodyEnds(o) \/ AExit(o)

Next ==
  \/ Tick
  \/ \E o \in Ops : \/ Acquire(o) \/ AcquireBusy(o) \/ AcquireFails(o)
                    \/ Heartbeat(o) \/ Leave(o) \/ Crash(o)

(* Redis keeps time, and a release ends unless its process dies (the client *)
(* has a timeout).  A body may hang for ever.                               *)
Spec == Init /\ [][Next]_vars /\ WF_vars(Tick) /\ \A o \in Ops : WF_vars(AExit(o))
-----------------------------------------------------------------------------
(* While the key still holds an operation's token nobody has shared its    *)
(* lease, and a token is there only after its operation set it.            *)
OwnerUndisturbed ==
  \A o \in Ops :
    /\ phase[o] = "idle" => owner # o /\ ~shared[o]
    /\ owner = o /\ phase[o] # "done" => ~shared[o]

(* The inductive core of exclusion: while no heartbeat was late, whoever   *)
(* is in its body owns a key that outlives the heartbeat's sleep.          *)
BodyOwnsTheKey ==
  ~late => \A o \in Ops : phase[o] = "body" =>
    /\ owner = o /\ ttl > timer[o]
    /\ hb[o] \in {"sleep", "sent", "ok"}
    /\ hb[o] \in {"sent", "ok"} => timer[o] = 0
    /\ hb[o] = "ok" => ttl = TTL

(* While no heartbeat was late and no renewal was lost, two operations     *)
(* never work on the instrument at the same time, because the interval is  *)
(* shorter than the TTL.                                                   *)
AtMostOneInBody ==
  ~late => \A o, p \in Ops : phase[o] = "body" /\ phase[p] = "body" => o = p

(* An operation that ends normally, its release answered, had the lease to *)
(* itself while its body ran: nobody else entered, however late the        *)
(* heartbeat was, whatever got lost on the way.                            *)
NormalMeansExclusive ==
  \A o \in Ops : outcome[o] = "normal" => ~shared[o]

(* A late release or renewal of an operation that lost the lease never     *)
(* touches its successor's key: a key is deleted by its owner or expires,  *)
(* and its TTL is raised only by its owner's heartbeat.                    *)
OnlyTheOwnerTouchesTheKey ==
  [][owner # NoOne =>
       /\ owner' # owner => ttl = 1 \/ phase[owner] = "releasing"
       /\ owner' = owner /\ ttl' > ttl => hb[owner] = "sent"]_vars

(* Only a heartbeat keeps the lease: once the body has ended or died, its  *)
(* acquire() was not answered, or its renewal failed while the body hangs, *)
(* the key goes away, whatever release and late renewals do.  (A body that *)
(* hangs with its heartbeat alive keeps the lease for ever.)               *)
LeaseIsFreedEventually ==
  \A o \in Ops : owner = o /\ (phase[o] = "body" => hb[o] = "off") ~> owner # o
=============================================================================
