-------------------------- MODULE OrderLockProofs --------------------------
(***************************************************************************)
(* Proofs about the order lease for any number of operations, any TTL and  *)
(* any renewal interval that acquire() accepts.                            *)
(***************************************************************************)
EXTENDS OrderLock, TLAPS

(* An operation has an outcome only when it is over. *)
OutcomeAtTheEnd == \A o \in Ops : outcome[o] # "none" => phase[o] = "done"

(* Typing, and the key of an operation vouches for its exclusivity. *)
IInv == TypeOK /\ OutcomeAtTheEnd /\ OwnerUndisturbed /\ NormalMeansExclusive

(* The initial state satisfies the invariant. *)
LEMMA InitIInv == Init => IInv
<1> SUFFICES ASSUME Init PROVE IInv
  OBVIOUS
<1>1. late \in BOOLEAN
  BY Zenon DEF Init
<1> QED
  BY <1>1, OrderLockAssumption
     DEF Init, IInv, TypeOK, OutcomeAtTheEnd, OwnerUndisturbed, NormalMeansExclusive

(* Every step keeps the types. *)
LEMMA TypeStep == TypeOK /\ [Next]_vars => TypeOK'
<1> SUFFICES ASSUME TypeOK, [Next]_vars PROVE TypeOK'
  OBVIOUS
<1> USE OrderLockAssumption
<1>1. CASE Tick
  BY <1>1 DEF Tick, TypeOK
<1>2. ASSUME NEW o \in Ops, Acquire(o) PROVE TypeOK'
  BY <1>2 DEF Acquire, Take, TypeOK
<1>3. ASSUME NEW o \in Ops, AcquireBusy(o) PROVE TypeOK'
  BY <1>3 DEF AcquireBusy, End, TypeOK
<1>4. ASSUME NEW o \in Ops, AcquireFails(o) PROVE TypeOK'
  <2>1. phase' \in [Ops -> {"idle", "body", "releasing", "done"}]
    BY <1>4 DEF AcquireFails, End, TypeOK
  <2>2. outcome' \in [Ops -> {"none", "busy", "normal", "unconfirmed", "lost",
                              "raised", "crashed"}]
    BY <1>4 DEF AcquireFails, End, TypeOK
  <2>3. owner' \in Ops \cup {NoOne} /\ ttl' \in 0..TTL /\ shared' \in [Ops -> BOOLEAN]
    <3>1. CASE Take(o)
      BY <3>1 DEF Take, TypeOK
    <3>2. CASE UNCHANGED <<owner, ttl, shared>>
      BY <3>2 DEF TypeOK
    <3> QED BY <1>4, <3>1, <3>2 DEF AcquireFails
  <2> QED BY <1>4, <2>1, <2>2, <2>3 DEF AcquireFails, TypeOK
<1>5. ASSUME NEW o \in Ops, Heartbeat(o) PROVE TypeOK'
  <2>1. CASE SendRenewal(o)
    BY <2>1 DEF SendRenewal, TypeOK
  <2>2. CASE Renew(o)
    BY <2>2 DEF Renew, TypeOK
  <2>3. CASE RenewalAnswered(o)
    BY <2>3 DEF RenewalAnswered, TypeOK
  <2>4. CASE RenewalFails(o)
    BY <2>4 DEF RenewalFails, TypeOK
  <2> QED BY <1>5, <2>1, <2>2, <2>3, <2>4 DEF Heartbeat
<1>6. ASSUME NEW o \in Ops, BodyEnds(o) PROVE TypeOK'
  BY <1>6 DEF BodyEnds, TypeOK
<1>7. ASSUME NEW o \in Ops, Release(o) PROVE TypeOK'
  BY <1>7 DEF Release, ExitResult, End, TypeOK
<1>8. ASSUME NEW o \in Ops, ReleaseFails(o) PROVE TypeOK'
  BY <1>8 DEF ReleaseFails, ExitResult, End, TypeOK
<1>9. ASSUME NEW o \in Ops, Crash(o) PROVE TypeOK'
  BY <1>9 DEF Crash, End, TypeOK
<1>10. CASE UNCHANGED vars
  BY <1>10 DEF vars, TypeOK
<1> QED BY <1>1, <1>2, <1>3, <1>4, <1>5, <1>6, <1>7, <1>8, <1>9, <1>10 DEF Next, Leave, AExit

(* Every step keeps the key's word: only the operation that sets its token *)
(* owns the key, and nobody can take a key that exists.                    *)
LEMMA OwnerStep == IInv /\ [Next]_vars => OwnerUndisturbed'
<1> SUFFICES ASSUME IInv, [Next]_vars, NEW p \in Ops
             PROVE  /\ phase'[p] = "idle" => owner' # p /\ ~shared'[p]
                    /\ owner' = p /\ phase'[p] # "done" => ~shared'[p]
  BY DEF OwnerUndisturbed
<1> DEFINE Goal == /\ phase'[p] = "idle" => owner' # p /\ ~shared'[p]
                   /\ owner' = p /\ phase'[p] # "done" => ~shared'[p]
<1> USE OrderLockAssumption DEF IInv, TypeOK, OwnerUndisturbed
<1>1. CASE Tick
  BY <1>1 DEF Tick
<1>2. ASSUME NEW o \in Ops, Acquire(o) PROVE Goal
  BY <1>2 DEF Acquire, Take
<1>3. ASSUME NEW o \in Ops, AcquireBusy(o) PROVE Goal
  BY <1>3 DEF AcquireBusy, End
<1>4. ASSUME NEW o \in Ops, AcquireFails(o) PROVE Goal
  <2>1. CASE owner = NoOne /\ Take(o)
    BY <1>4, <2>1 DEF AcquireFails, Take, End
  <2>2. CASE UNCHANGED <<owner, ttl, shared>>
    BY <1>4, <2>2 DEF AcquireFails, End
  <2> QED BY <1>4, <2>1, <2>2 DEF AcquireFails
<1>5. ASSUME NEW o \in Ops, Heartbeat(o) PROVE Goal
  BY <1>5 DEF Heartbeat, SendRenewal, Renew, RenewalAnswered, RenewalFails
<1>6. ASSUME NEW o \in Ops, BodyEnds(o) PROVE Goal
  BY <1>6 DEF BodyEnds
<1>7. ASSUME NEW o \in Ops, Release(o) PROVE Goal
  BY <1>7 DEF Release, ExitResult, End
<1>8. ASSUME NEW o \in Ops, ReleaseFails(o) PROVE Goal
  BY <1>8 DEF ReleaseFails, ExitResult, End
<1>9. ASSUME NEW o \in Ops, Crash(o) PROVE Goal
  BY <1>9 DEF Crash, End
<1>10. CASE UNCHANGED vars
  BY <1>10 DEF vars
<1> QED
  BY <1>1, <1>2, <1>3, <1>4, <1>5, <1>6, <1>7, <1>8, <1>9, <1>10 DEF Next, Leave, AExit

(* A finished operation stays finished. *)
LEMMA OutcomeStep == IInv /\ [Next]_vars => OutcomeAtTheEnd'
<1> SUFFICES ASSUME IInv, [Next]_vars, NEW p \in Ops, outcome'[p] # "none"
             PROVE  phase'[p] = "done"
  BY DEF OutcomeAtTheEnd
<1> USE DEF IInv, TypeOK, OutcomeAtTheEnd
<1>1. CASE Tick \/ UNCHANGED vars
  BY <1>1 DEF Tick, vars
<1>2. ASSUME NEW o \in Ops, Acquire(o) \/ BodyEnds(o) PROVE phase'[p] = "done"
  BY <1>2 DEF Acquire, BodyEnds
<1>3. ASSUME NEW o \in Ops, Heartbeat(o) PROVE phase'[p] = "done"
  BY <1>3 DEF Heartbeat, SendRenewal, Renew, RenewalAnswered, RenewalFails
<1>4. ASSUME NEW o \in Ops, NEW r, End(o, r) PROVE phase'[p] = "done"
  BY <1>4 DEF End
<1>5. ASSUME NEW o \in Ops, \/ AcquireBusy(o) \/ AcquireFails(o) \/ Release(o)
                            \/ ReleaseFails(o) \/ Crash(o)
      PROVE  phase'[p] = "done"
  BY <1>4, <1>5 DEF AcquireBusy, AcquireFails, Release, ReleaseFails, Crash, ExitResult
<1> QED BY <1>1, <1>2, <1>3, <1>5 DEF Next, Leave, AExit

(* Only Release ends an operation normally, and it found its own token. *)
LEMMA NormalStep == IInv /\ [Next]_vars => NormalMeansExclusive'
<1> SUFFICES ASSUME IInv, [Next]_vars, NEW p \in Ops, outcome'[p] = "normal"
             PROVE  ~shared'[p]
  BY DEF NormalMeansExclusive
<1> USE OrderLockAssumption
    DEF IInv, TypeOK, OutcomeAtTheEnd, OwnerUndisturbed, NormalMeansExclusive
<1>1. CASE Tick \/ UNCHANGED vars
  BY <1>1 DEF Tick, vars
<1>2. ASSUME NEW o \in Ops, Acquire(o) PROVE ~shared'[p]
  BY <1>2 DEF Acquire, Take
<1>3. ASSUME NEW o \in Ops, AcquireBusy(o) PROVE ~shared'[p]
  BY <1>3 DEF AcquireBusy, End
<1>4. ASSUME NEW o \in Ops, AcquireFails(o) PROVE ~shared'[p]
  <2>1. p # o /\ outcome[p] = "normal"
    BY <1>4 DEF AcquireFails, End
  <2> QED BY <1>4, <2>1 DEF AcquireFails, Take
<1>5. ASSUME NEW o \in Ops, Heartbeat(o) PROVE ~shared'[p]
  BY <1>5 DEF Heartbeat, SendRenewal, Renew, RenewalAnswered, RenewalFails
<1>6. ASSUME NEW o \in Ops, BodyEnds(o) \/ Crash(o) PROVE ~shared'[p]
  BY <1>6 DEF BodyEnds, Crash, End
<1>7. ASSUME NEW o \in Ops, Release(o) PROVE ~shared'[p]
  <2>1. CASE p = o
    <3>1. owner = o
      BY <1>7, <2>1 DEF Release, ExitResult, End
    <3> QED BY <1>7, <2>1, <3>1 DEF Release
  <2>2. CASE p # o
    BY <1>7, <2>2 DEF Release, ExitResult, End
  <2> QED BY <2>1, <2>2
<1>8. ASSUME NEW o \in Ops, ReleaseFails(o) PROVE ~shared'[p]
  BY <1>8 DEF ReleaseFails, ExitResult, End
<1> QED BY <1>1, <1>2, <1>3, <1>4, <1>5, <1>6, <1>7, <1>8 DEF Next, Leave, AExit

(* The invariant holds throughout. *)
THEOREM Inductive == Spec => []IInv
<1>1. IInv /\ [Next]_vars => IInv'
  BY TypeStep, OutcomeStep, OwnerStep, NormalStep DEF IInv
<1> QED BY <1>1, InitIInv, PTL DEF Spec

(* The lease keeps its types. *)
THEOREM TypeCorrect == Spec => []TypeOK
BY Inductive, PTL DEF IInv

(* While the key holds an operation's token, nobody shared its lease. *)
THEOREM OwnerIsUndisturbed == Spec => []OwnerUndisturbed
BY Inductive, PTL DEF IInv

(* A normal exit of `async with lease' with an answered release means that *)
(* no other operation entered while the body ran.                          *)
THEOREM NormalIsExclusive == Spec => []NormalMeansExclusive
BY Inductive, PTL DEF IInv

(* The owner-checked scripts never touch another operation's key. *)
THEOREM KeyIsSafe == Spec => OnlyTheOwnerTouchesTheKey
<1> DEFINE KeyStep ==
      owner # NoOne =>
        /\ owner' # owner => ttl = 1 \/ phase[owner] = "releasing"
        /\ owner' = owner /\ ttl' > ttl => hb[owner] = "sent"
<1>1. IInv /\ [Next]_vars => [KeyStep]_vars
  <2> SUFFICES ASSUME IInv, Next, owner # NoOne
               PROVE  /\ owner' # owner => ttl = 1 \/ phase[owner] = "releasing"
                      /\ owner' = owner /\ ttl' > ttl => hb[owner] = "sent"
    OBVIOUS
  <2> DEFINE Goal == /\ owner' # owner => ttl = 1 \/ phase[owner] = "releasing"
                     /\ owner' = owner /\ ttl' > ttl => hb[owner] = "sent"
  <2> USE OrderLockAssumption DEF IInv, TypeOK
  <2>1. CASE Tick
    BY <2>1 DEF Tick
  <2>2. ASSUME NEW o \in Ops, Acquire(o) \/ AcquireBusy(o) \/ BodyEnds(o) \/ Crash(o)
        PROVE  Goal
    BY <2>2 DEF Acquire, AcquireBusy, BodyEnds, Crash
  <2>3. ASSUME NEW o \in Ops, AcquireFails(o) PROVE Goal
    BY <2>3 DEF AcquireFails
  <2>4. ASSUME NEW o \in Ops, Heartbeat(o) PROVE Goal
    BY <2>4 DEF Heartbeat, SendRenewal, Renew, RenewalAnswered, RenewalFails
  <2>5. ASSUME NEW o \in Ops, Release(o) \/ ReleaseFails(o) PROVE Goal
    BY <2>5, SMTT(30) DEF Release, ReleaseFails
  <2> QED BY <2>1, <2>2, <2>3, <2>4, <2>5 DEF Next, Leave, AExit
<1> QED BY <1>1, Inductive, PTL DEF Spec, OnlyTheOwnerTouchesTheKey

(* The inductive invariant of exclusion. *)
TInv == TypeOK /\ BodyOwnsTheKey

(* The key of an operation in its body outlives the heartbeat's sleep,     *)
(* because acquire() insists on an interval shorter than the TTL.          *)
LEMMA BodyStep == TInv /\ [Next]_vars => BodyOwnsTheKey'
<1> SUFFICES ASSUME TInv, [Next]_vars, ~late', NEW p \in Ops, phase'[p] = "body"
             PROVE  /\ owner' = p /\ ttl' > timer'[p]
                    /\ hb'[p] \in {"sleep", "sent", "ok"}
                    /\ hb'[p] \in {"sent", "ok"} => timer'[p] = 0
                    /\ hb'[p] = "ok" => ttl' = TTL
  BY DEF BodyOwnsTheKey
<1> DEFINE Goal == /\ owner' = p /\ ttl' > timer'[p]
                   /\ hb'[p] \in {"sleep", "sent", "ok"}
                   /\ hb'[p] \in {"sent", "ok"} => timer'[p] = 0
                   /\ hb'[p] = "ok" => ttl' = TTL
<1> USE OrderLockAssumption DEF TInv, TypeOK, BodyOwnsTheKey
<1>1. CASE Tick
  <2>0. ~late /\ Prompt
    BY <1>1, ZenonT(30) DEF Tick
  <2>1. phase[p] = "body" /\ timer[p] # 0
    BY <1>1, <2>0 DEF Tick, Prompt
  <2>2. owner = p /\ ttl > timer[p] /\ timer[p] \in Nat /\ hb[p] = "sleep"
    BY <2>0, <2>1
  <2>3. owner' = p /\ ttl' = ttl - 1 /\ timer'[p] = timer[p] - 1 /\ hb' = hb
    BY <1>1, <2>1, <2>2 DEF Tick
  <2> QED BY <2>2, <2>3
<1>2. ASSUME NEW o \in Ops, Acquire(o) PROVE Goal
  BY <1>2 DEF Acquire, Take
<1>3. ASSUME NEW o \in Ops, AcquireBusy(o) PROVE Goal
  BY <1>3 DEF AcquireBusy, End
<1>4. ASSUME NEW o \in Ops, AcquireFails(o) PROVE Goal
  <2>1. phase[p] = "body" /\ owner = p
    BY <1>4 DEF AcquireFails, End
  <2> QED BY <1>4, <2>1 DEF AcquireFails
<1>5. ASSUME NEW o \in Ops, SendRenewal(o) PROVE Goal
  BY <1>5 DEF SendRenewal
<1>6. ASSUME NEW o \in Ops, Renew(o) PROVE Goal
  BY <1>6 DEF Renew
<1>7. ASSUME NEW o \in Ops, RenewalAnswered(o) PROVE Goal
  BY <1>7 DEF RenewalAnswered
<1>8. ASSUME NEW o \in Ops, BodyEnds(o) PROVE Goal
  BY <1>8 DEF BodyEnds
<1>9. ASSUME NEW o \in Ops, Release(o) \/ ReleaseFails(o) PROVE Goal
  BY <1>9 DEF Release, ReleaseFails, ExitResult, End
<1>10. ASSUME NEW o \in Ops, Crash(o) PROVE Goal
  BY <1>10 DEF Crash, End
<1>11. ASSUME NEW o \in Ops, RenewalFails(o) PROVE Goal
  BY <1>11 DEF RenewalFails
<1>12. CASE UNCHANGED vars
  BY <1>12 DEF vars
<1> QED
  BY <1>1, <1>2, <1>3, <1>4, <1>5, <1>6, <1>7, <1>8, <1>9, <1>10, <1>11, <1>12, ZenonT(30)
     DEF Next, Heartbeat, Leave, AExit

(* While no heartbeat is late, whoever is in its body owns a key that      *)
(* outlives the heartbeat's sleep.                                         *)
THEOREM KeyOutlivesTheBody == Spec => []BodyOwnsTheKey
<1>1. Init => TInv
  BY InitIInv DEF Init, IInv, TInv, BodyOwnsTheKey
<1>2. TInv /\ [Next]_vars => TInv'
  BY TypeStep, BodyStep DEF TInv
<1>3. TInv => BodyOwnsTheKey
  BY DEF TInv
<1> QED BY <1>1, <1>2, <1>3, PTL DEF Spec

(* While no heartbeat is late, the lease is a mutual exclusion lock. *)
THEOREM TimelyIsExclusive == Spec => []AtMostOneInBody
<1>1. BodyOwnsTheKey => AtMostOneInBody
  BY DEF BodyOwnsTheKey, AtMostOneInBody
<1> QED BY <1>1, KeyOutlivesTheBody, PTL
=============================================================================
