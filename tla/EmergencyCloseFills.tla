------------------------ MODULE EmergencyCloseFills -------------------------
(***************************************************************************)
(* What the closes of a task fill: never more than the task owns, for any  *)
(* executors, exits, quantities and bounds, as long as the task is Aware   *)
(* of its closes.                                                          *)
(*                                                                         *)
(* First the sums of fills, by induction over the subsets of a finite set; *)
(* then the rows, which are final only when their orders are (RowInv); and *)
(* the room for what is working and for what an executor is about to send  *)
(* (AmountInv).  None of it needs the order lock.                          *)
(***************************************************************************)
EXTENDS EmergencyCloseProofs

(* Induction over the subsets of a finite set, for a set of good ones. *)
LEMMA SubsetInduction ==
  ASSUME NEW S, IsFiniteSet(S), NEW Good,
         \A T \in SUBSET S : (\A U \in SUBSET T : U # T => U \in Good) => T \in Good
  PROVE  \A T \in SUBSET S : T \in Good
<1> DEFINE Bad == (SUBSET S) \ Good
<1> SUFFICES ASSUME Bad # {} PROVE FALSE
  BY Zenon
<1>1. IsWellFoundedOn(StrictSubsetOrdering(S), FiniteSubsetsOf(S))
  BY FS_StrictSubsetOrderingWellFounded, Zenon
<1>2. Bad \subseteq FiniteSubsetsOf(S)
  BY FS_Subset, Zenon DEF FiniteSubsetsOf
<1>3. PICK T \in Bad : \A U \in Bad : ~(<<U, T>> \in StrictSubsetOrdering(S))
  <2> HIDE DEF Bad
  <2> QED
    BY <1>1, <1>2, WFMin
<1>4. \A U \in SUBSET T : U # T => U \in Good
  BY <1>3, ZenonT(30) DEF StrictSubsetOrdering
<1> QED
  BY <1>3, <1>4, Zenon

(* The sum of the fills of the orders in S, and what defines it. *)
Filling(ord, S) == MapThenSumSet(LAMBDA o : ord[o].fill, S)
Pick(S) == CHOOSE o \in S : TRUE
Sums(ord, S, g) ==
  g = [T \in SUBSET S |-> IF T = {} THEN 0
                          ELSE ord[Pick(T)].fill + g[T \ {Pick(T)}]]
TheSums(ord, S) == CHOOSE g : Sums(ord, S, g)

(* The sum is the value of a recursive function on the subsets. *)
LEMMA FillingIsRecursive ==
  ASSUME NEW ord, NEW S
  PROVE  Filling(ord, S) = TheSums(ord, S)[S]
  BY Zenon DEF Filling, MapThenSumSet, MapThenFoldSet, TheSums, Sums, Pick

(* Two such functions agree. *)
LEMMA SumsAgree ==
  ASSUME NEW ord, NEW A, NEW B, NEW g, NEW h, IsFiniteSet(A),
         Sums(ord, A, g), Sums(ord, B, h)
  PROVE  \A T \in SUBSET (A \cap B) : g[T] = h[T]
<1> DEFINE S == A \cap B
           Good == {T \in SUBSET S : g[T] = h[T]}
<1>1. IsFiniteSet(S)
  BY FS_Intersection, Zenon
<1>2. ASSUME NEW T \in SUBSET S, \A U \in SUBSET T : U # T => U \in Good
      PROVE  T \in Good
  <2>1. CASE T = {}
    BY <2>1, Zenon DEF Sums
  <2>2. CASE T # {}
    <3> DEFINE U == T \ {Pick(T)}
    <3>1. Pick(T) \in T
      BY <2>2, Zenon DEF Pick
    <3>2. g[U] = h[U]
      BY <1>2, <3>1, Zenon
    <3>3. g[T] = ord[Pick(T)].fill + g[U]
      BY <2>2, ZenonT(30) DEF Sums
    <3>4. h[T] = ord[Pick(T)].fill + h[U]
      BY <2>2, ZenonT(30) DEF Sums
    <3> QED
      BY <3>2, <3>3, <3>4, Zenon
  <2> QED
    BY <2>1, <2>2, Zenon
<1>3. \A T \in SUBSET S : T \in Good
  <2> HIDE DEF Good, S
  <2> QED
    BY <1>1, <1>2, SubsetInduction, Zenon
<1> QED
  BY <1>3, Zenon

(* There is one for every finite set. *)
LEMMA SumsExist ==
  ASSUME NEW ord, NEW S, IsFiniteSet(S)
  PROVE  \A T \in SUBSET S : Sums(ord, T, TheSums(ord, T))
<1> DEFINE Val(T) == TheSums(ord, T)[T]
           Good == {T \in SUBSET S : Sums(ord, T, TheSums(ord, T))}
<1>1. ASSUME NEW T \in SUBSET S, \A U \in SUBSET T : U # T => U \in Good
      PROVE  T \in Good
  <2> DEFINE g == [U \in SUBSET T |-> IF U = {} THEN 0
                                      ELSE ord[Pick(U)].fill + Val(U \ {Pick(U)})]
  <2>1. ASSUME NEW U \in SUBSET T, U # T
        PROVE  g[U] = Val(U)
    <3> DEFINE V == U \ {Pick(U)}
               gu == TheSums(ord, U)
               gv == TheSums(ord, V)
    <3>1. Sums(ord, U, gu)
      BY <1>1, <2>1, Zenon
    <3>2. CASE U = {}
      BY <3>1, <3>2, Zenon DEF Sums
    <3>3. CASE U # {}
      <4>1. Pick(U) \in U
        BY <3>3, Zenon DEF Pick
      <4>2. V \in SUBSET T /\ V # T
        BY <4>1, Zenon
      <4>3. Sums(ord, V, gv)
        BY <1>1, <4>2, Zenon
      <4>4. IsFiniteSet(U)
        BY FS_Subset, Zenon
      <4>5. gu[V] = gv[V]
        <5>1. \A W \in SUBSET (U \cap V) : gu[W] = gv[W]
          <6> HIDE DEF gu, gv, V
          <6> QED
            BY <3>1, <4>3, <4>4, SumsAgree
        <5> QED
          BY <5>1, ZenonT(30)
      <4>6. gu[U] = ord[Pick(U)].fill + gu[V]
        <5> HIDE DEF gu
        <5> QED
          BY <3>1, <3>3, ZenonT(30) DEF Sums
      <4>7. g[U] = ord[Pick(U)].fill + gv[V]
        BY <3>3, Zenon
      <4> QED
        BY <4>5, <4>6, <4>7, Zenon
    <3> QED
      BY <3>2, <3>3, Zenon
  <2>2. ASSUME NEW U \in SUBSET T, U # {}
        PROVE  g[U \ {Pick(U)}] = Val(U \ {Pick(U)})
    <3>1. Pick(U) \in U
      BY <2>2, Zenon DEF Pick
    <3>2. U \ {Pick(U)} \in SUBSET T /\ U \ {Pick(U)} # T
      BY <3>1, Zenon
    <3> HIDE DEF g, Val
    <3> QED
      BY <2>1, <3>2, Zenon
  <2>3. Sums(ord, T, g)
    <3>1. ASSUME NEW U \in SUBSET T
          PROVE  g[U] = IF U = {} THEN 0 ELSE ord[Pick(U)].fill + g[U \ {Pick(U)}]
      <4>1. g[U] = IF U = {} THEN 0 ELSE ord[Pick(U)].fill + Val(U \ {Pick(U)})
        BY Zenon
      <4> HIDE DEF g, Val
      <4> QED
        BY <2>2, <4>1, Zenon
    <3>2. g = [U \in SUBSET T |-> g[U]]
      BY Zenon
    <3> HIDE DEF g
    <3> QED
      BY <3>1, <3>2, ZenonT(30) DEF Sums
  <2> QED
    BY <2>3, Zenon DEF TheSums
<1>2. \A T \in SUBSET S : T \in Good
  <2> HIDE DEF Good
  <2> QED
    BY <1>1, SubsetInduction, Zenon
<1> QED
  BY <1>2, Zenon

(* The sum of nothing is zero; another one is an order and the rest. *)
LEMMA FillingUnfolds ==
  ASSUME NEW ord, NEW S, IsFiniteSet(S)
  PROVE  /\ S = {} => Filling(ord, S) = 0
         /\ S # {} => /\ Pick(S) \in S
                      /\ Filling(ord, S)
                           = ord[Pick(S)].fill + Filling(ord, S \ {Pick(S)})
<1> DEFINE g == TheSums(ord, S)
<1>1. Sums(ord, S, g)
  BY SumsExist, Zenon
<1>2. CASE S = {}
  BY <1>1, <1>2, FillingIsRecursive, ZenonT(30) DEF Sums
<1>3. CASE S # {}
  <2> DEFINE V == S \ {Pick(S)}
             gv == TheSums(ord, V)
  <2>1. Pick(S) \in S
    BY <1>3, Zenon DEF Pick
  <2>2. Sums(ord, V, gv)
    BY SumsExist, Zenon
  <2>3. \A W \in SUBSET (S \cap V) : g[W] = gv[W]
    <3> HIDE DEF g, gv, V
    <3> QED
      BY <1>1, <2>2, SumsAgree
  <2>4. g[S] = ord[Pick(S)].fill + g[V]
    <3> HIDE DEF g
    <3> QED
      BY <1>1, <1>3, ZenonT(30) DEF Sums
  <2>5. g[V] = gv[V]
    BY <2>3, ZenonT(30)
  <2>6. Filling(ord, S) = g[S] /\ Filling(ord, V) = gv[V]
    BY FillingIsRecursive, Zenon
  <2> QED
    BY <1>3, <2>1, <2>4, <2>5, <2>6, Zenon
<1> QED
  BY <1>2, <1>3, Zenon

(* Orders with a number of filled units. *)
Counts(ord, S) == \A o \in S : ord[o].fill \in Nat

(* The sum is a number. *)
LEMMA FillingIsNat ==
  ASSUME NEW ord, NEW S, IsFiniteSet(S), Counts(ord, S)
  PROVE  Filling(ord, S) \in Nat
<1> DEFINE Good == {T \in SUBSET S : Filling(ord, T) \in Nat}
<1>1. ASSUME NEW T \in SUBSET S, \A U \in SUBSET T : U # T => U \in Good
      PROVE  T \in Good
  <2>1. IsFiniteSet(T)
    BY FS_Subset, Zenon
  <2>2. CASE T = {}
    <3>1. Filling(ord, T) = 0
      BY <2>1, <2>2, FillingUnfolds, Zenon
    <3> QED
      BY <3>1
  <2>3. CASE T # {}
    <3>1. /\ Pick(T) \in T
          /\ Filling(ord, T) = ord[Pick(T)].fill + Filling(ord, T \ {Pick(T)})
      BY <2>1, <2>3, FillingUnfolds, Zenon
    <3>2. Filling(ord, T \ {Pick(T)}) \in Nat /\ ord[Pick(T)].fill \in Nat
      BY <1>1, <3>1, Zenon DEF Counts
    <3> QED
      BY <3>1, <3>2
  <2> QED
    BY <2>2, <2>3, Zenon
<1>2. \A T \in SUBSET S : T \in Good
  <2> HIDE DEF Good
  <2> QED
    BY <1>1, SubsetInduction, Zenon
<1> QED
  BY <1>2, Zenon

(* Any order can be taken out of the sum. *)
LEMMA FillingSplits ==
  ASSUME NEW ord, NEW S, IsFiniteSet(S), Counts(ord, S), NEW x \in S
  PROVE  Filling(ord, S) = ord[x].fill + Filling(ord, S \ {x})
<1> DEFINE Good == {T \in SUBSET S : \A o \in T :
                      Filling(ord, T) = ord[o].fill + Filling(ord, T \ {o})}
<1>1. ASSUME NEW T \in SUBSET S, \A U \in SUBSET T : U # T => U \in Good
      PROVE  T \in Good
  <2> SUFFICES ASSUME NEW o \in T
               PROVE  Filling(ord, T) = ord[o].fill + Filling(ord, T \ {o})
    BY Zenon
  <2> DEFINE p == Pick(T)
             R == T \ {o, p}
  <2>1. IsFiniteSet(T)
    BY FS_Subset, Zenon
  <2>2. p \in T /\ Filling(ord, T) = ord[p].fill + Filling(ord, T \ {p})
    BY <2>1, FillingUnfolds, Zenon
  <2>3. CASE o = p
    BY <2>2, <2>3, Zenon
  <2>4. CASE o # p
    <3>1. (T \ {p}) \ {o} = R /\ (T \ {o}) \ {p} = R
      BY Zenon
    <3>2. T \ {p} \in Good /\ T \ {o} \in Good
      BY <1>1, <2>2, Zenon
    <3>3. /\ Filling(ord, T \ {p}) = ord[o].fill + Filling(ord, R)
          /\ Filling(ord, T \ {o}) = ord[p].fill + Filling(ord, R)
      BY <2>2, <2>4, <3>1, <3>2, ZenonT(30)
    <3>4. IsFiniteSet(R) /\ Counts(ord, R)
      BY <2>1, FS_Subset, Zenon DEF Counts
    <3>5. Filling(ord, R) \in Nat /\ ord[o].fill \in Nat /\ ord[p].fill \in Nat
      BY <2>2, <3>4, FillingIsNat, Zenon DEF Counts
    <3> QED
      BY <2>2, <3>3, <3>5
  <2> QED
    BY <2>3, <2>4, Zenon
<1>2. \A T \in SUBSET S : T \in Good
  <2> HIDE DEF Good
  <2> QED
    BY <1>1, SubsetInduction, Zenon
<1> QED
  BY <1>2, Zenon

(* It depends on the fills of its orders only. *)
LEMMA FillingSame ==
  ASSUME NEW ord, NEW new, NEW S, IsFiniteSet(S), Counts(ord, S),
         \A o \in S : new[o].fill = ord[o].fill
  PROVE  Filling(new, S) = Filling(ord, S)
<1> DEFINE Good == {T \in SUBSET S : Filling(new, T) = Filling(ord, T)}
<1>1. ASSUME NEW T \in SUBSET S, \A U \in SUBSET T : U # T => U \in Good
      PROVE  T \in Good
  <2>1. IsFiniteSet(T)
    BY FS_Subset, Zenon
  <2>2. CASE T = {}
    BY <2>1, <2>2, FillingUnfolds, ZenonT(30)
  <2>3. CASE T # {}
    <3>1. /\ Pick(T) \in T
          /\ Filling(ord, T) = ord[Pick(T)].fill + Filling(ord, T \ {Pick(T)})
          /\ Filling(new, T) = new[Pick(T)].fill + Filling(new, T \ {Pick(T)})
      BY <2>1, <2>3, FillingUnfolds, Zenon
    <3>2. Filling(new, T \ {Pick(T)}) = Filling(ord, T \ {Pick(T)})
      BY <1>1, <3>1, Zenon
    <3> QED
      BY <3>1, <3>2, Zenon
  <2> QED
    BY <2>2, <2>3, Zenon
<1>2. \A T \in SUBSET S : T \in Good
  <2> HIDE DEF Good
  <2> QED
    BY <1>1, SubsetInduction, Zenon
<1> QED
  BY <1>2, Zenon

(* Orders without a fill do not count, and the others are not lost. *)
LEMMA FillingPart ==
  ASSUME NEW ord, NEW S, IsFiniteSet(S), Counts(ord, S), NEW P \in SUBSET S
  PROVE  /\ Filling(ord, P) <= Filling(ord, S)
         /\ (\A o \in S \ P : ord[o].fill = 0) => Filling(ord, P) = Filling(ord, S)
<1> DEFINE Clear == \A o \in S \ P : ord[o].fill = 0
           Good == {T \in SUBSET S :
                      /\ Filling(ord, T \cap P) <= Filling(ord, T)
                      /\ Clear => Filling(ord, T \cap P) = Filling(ord, T)}
<1>1. ASSUME NEW T \in SUBSET S, \A U \in SUBSET T : U # T => U \in Good
      PROVE  T \in Good
  <2>0. \A U \in SUBSET S : IsFiniteSet(U) /\ Counts(ord, U) /\ Filling(ord, U) \in Nat
    BY FS_Subset, FillingIsNat, Zenon DEF Counts
  <2>1. CASE T \subseteq P
    <3>1. T \cap P = T
      BY <2>1, Zenon
    <3> QED
      BY <2>0, <3>1
  <2>2. ASSUME NEW o \in T, o \notin P
        PROVE  T \in Good
    <3>1. Filling(ord, T) = ord[o].fill + Filling(ord, T \ {o})
      BY <2>0, FillingSplits
    <3>2. (T \ {o}) \cap P = T \cap P
      BY <2>2, Zenon
    <3>3. T \ {o} \in Good
      BY <1>1, Zenon
    <3>4. /\ Filling(ord, T \cap P) \in Nat /\ Filling(ord, T \ {o}) \in Nat
          /\ ord[o].fill \in Nat /\ (Clear => ord[o].fill = 0)
      BY <2>0, <2>2, Zenon DEF Counts
    <3>5. /\ Filling(ord, T \cap P) <= Filling(ord, T \ {o})
          /\ Clear => Filling(ord, T \cap P) = Filling(ord, T \ {o})
      BY <3>2, <3>3, Zenon
    <3> HIDE DEF Clear
    <3> QED
      BY <3>1, <3>4, <3>5
  <2> QED
    BY <2>1, <2>2, Zenon
<1>2. \A T \in SUBSET S : T \in Good
  <2> HIDE DEF Good
  <2> QED
    BY <1>1, SubsetInduction, Zenon
<1>3. S \in Good /\ S \cap P = P
  BY <1>2, Zenon
<1> QED
  BY <1>3, Zenon

-----------------------------------------------------------------------------
(* What the rows tell. *)
Settled == Filled \cup {"failed", "no_fill"}

(* An order that is not on the book has no fill, and the row of a close is *)
(* final only when its order is: with a fill, unless there is none.        *)
RowOK(o) ==
  /\ order[o].st \in {"none", "sent", "void"} => order[o].fill = 0
  /\ row[o] \in Settled =>
       /\ order[o].st \in {"done", "void"}
       /\ row[o] \notin Filled => order[o].fill = 0

(* An exit that has not sent its order, or just has. *)
ExitOK(x) ==
  /\ exit[x] \in {"idle", "check", "row"} => row[x] = "none"
  /\ exit[x] \in {"idle", "check", "row", "send"} =>
       order[x].st = "none" /\ row[x] \in {"none", "pending"}
  /\ exit[x] = "answer" => order[x].st # "none"

(* The rows of the closes tell this when the task knows of all of them.    *)
Sure(o) == o \in Exits \/ Aware

RowInv ==
  /\ \A o \in Orders : Sure(o) => RowOK(o)
  /\ \A x \in Exits : ExitOK(x)
  /\ linked \subseteq Recorded

(* A pass is one of a task, and sends its closes only. *)
Attached ==
  /\ task.status = "none" =>
       (\A e \in Executors : ~InPass(e)) /\ \A c \in Closes : row[c] = "none"
  /\ \A e \in Executors :
       pc[e] \in {"sending", "send", "answer"} => my[e].n \in Closes

(* An order that the exchange does not know has no fill. *)
LEMMA FreeIsEmpty ==
  ASSUME Types, NEW o \in Orders, RowOK(o), Free(order[o])
  PROVE  order[o].fill = 0 /\ ~Live(o)
<1>1. order[o].st \in {"none", "void"}
  BY Zenon DEF Types, OrderType, Free
<1> QED
  BY <1>1, Zenon DEF RowOK, Live

(* An order that ended does not change, and a row is final only then. *)
LEMMA RowOKKept ==
  ASSUME NEW o \in Orders, RowOK(o),
         order[o].st \in {"done", "void"} =>
           order'[o].st = order[o].st /\ order'[o].fill = order[o].fill,
         order'[o].st \in {"none", "sent", "void"} => order'[o].fill = 0,
         \/ row'[o] \notin Settled \/ row'[o] = row[o]
         \/ /\ order'[o].st \in {"done", "void"}
            /\ row'[o] \notin Filled => order'[o].fill = 0
  PROVE  RowOK(o)'
  BY Zenon DEF RowOK

(* What the exchange does to an order. *)
LEMMA ExchangeOrder ==
  ASSUME Types, Exchange, NEW o \in Orders, RowOK(o)
  PROVE  /\ order[o].st \in {"done", "void"} => order'[o] = order[o]
         /\ order'[o].st \in {"none", "sent", "void"} => order'[o].fill = 0
         /\ order'[o].st = "none" <=> order[o].st = "none"
<1>1. CASE order' = order
  BY <1>1, Zenon DEF RowOK
<1>2. ASSUME NEW p \in Orders, Arrive(p) \/ Refuse(p) \/ EndOrder(p)
      PROVE  /\ order[o].st \in {"done", "void"} => order'[o] = order[o]
             /\ order'[o].st \in {"none", "sent", "void"} => order'[o].fill = 0
             /\ order'[o].st = "none" <=> order[o].st = "none"
  <2>1. PICK s \in {"open", "void", "done"} :
          /\ order' = [order EXCEPT ![p].st = s]
          /\ order[p].st \in {"sent", "open"} /\ (order[p].st = "open" => s = "done")
    BY <1>2, Zenon DEF Arrive, Refuse, EndOrder
  <2>2. order'[o] = order[o] \/ (o = p /\ order'[o].st = s /\ order'[o].fill = order[o].fill)
    BY <2>1, Zenon DEF Types, OrderType
  <2> QED
    BY <2>1, <2>2, Zenon DEF RowOK
<1>3. ASSUME NEW p \in Orders, Fill(p)
      PROVE  /\ order[o].st \in {"done", "void"} => order'[o] = order[o]
             /\ order'[o].st \in {"none", "sent", "void"} => order'[o].fill = 0
             /\ order'[o].st = "none" <=> order[o].st = "none"
  <2>1. PICK k, s :
          /\ order' = [order EXCEPT ![p].fill = k, ![p].st = s]
          /\ order[p].st = "open" /\ s \in {"open", "done"}
    <3>1. PICK k : order' = [order EXCEPT ![p].fill = @ + k,
                     ![p].st = IF order[p].fill + k = order[p].amt THEN "done" ELSE @]
      BY <1>3, ZenonT(30) DEF Fill
    <3> DEFINE t == IF order[p].fill + k = order[p].amt THEN "done" ELSE "open"
    <3>2. order' = [order EXCEPT ![p].fill = order[p].fill + k, ![p].st = t]
      BY <1>3, <3>1, ZenonT(30) DEF Fill
    <3> QED
      BY <1>3, <3>2, ZenonT(30) DEF Fill
  <2>2. order'[o] = order[o] \/ (o = p /\ order'[o].st = s)
    BY <2>1, Zenon DEF Types, OrderType
  <2> QED
    BY <2>1, <2>2, Zenon DEF RowOK
<1> QED
  BY <1>1, <1>2, <1>3, Zenon DEF Exchange, StopArrives, StopFills, StopEnds, HandTrade

(* The exchange leaves the rows alone. *)
LEMMA ExchangeRows ==
  ASSUME Types, RowInv, Exchange, Aware' => Aware
  PROVE  RowInv'
<1>1. UNCHANGED <<row, exit, linked>>
  BY Zenon DEF Exchange, Arrive, Refuse, Fill, EndOrder, StopArrives, StopFills, StopEnds,
         HandTrade, exchangeOnly, db
<1>2. ASSUME NEW o \in Orders
      PROVE  Sure(o) => RowOK(o)' /\ (order[o].st = "none" <=> order'[o].st = "none")
  <2>1. Sure(o) => RowOK(o)
    BY Zenon DEF RowInv
  <2> QED
    BY <1>1, <2>1, ExchangeOrder, RowOKKept, Zenon
<1>3. ASSUME NEW x \in Exits
      PROVE  ExitOK(x)'
  <2>1. ExitOK(x) /\ x \in Orders /\ Sure(x)
    BY Zenon DEF RowInv, Orders, Sure
  <2> QED
    BY <1>1, <1>2, <2>1, Zenon DEF ExitOK
<1>4. (linked \subseteq Recorded)'
  BY <1>1, Zenon DEF RowInv, Recorded
<1> QED
  BY <1>2, <1>3, <1>4, Zenon DEF RowInv, Sure

(* A listed order tells what its row becomes. *)
LEMMA StateIsTold ==
  ASSUME Types, NEW o \in Orders, Listed(o)
  PROVE  /\ StateOf(o) \in Rows \ {"none", "manual_required"}
         /\ StateOf(o) \in Settled =>
              order[o].st = "done" /\ (StateOf(o) \notin Filled => order[o].fill = 0)
<1>1. order[o].fill \in Nat
  BY EmergencyCloseAssumption DEF Types, OrderType
<1> QED
  BY <1>1 DEF StateOf, Listed, Settled, Filled, Rows, Unresolved, Unknown

(* A row that is left alone, becomes open again or is justified. *)
Told(o) ==
  \/ row'[o] = row[o]
  \/ /\ row'[o] # "none" /\ order'[o] = order[o] /\ order[o].st # "none"
     /\ row'[o] \in Settled =>
          /\ order[o].st \in {"done", "void"}
          /\ row'[o] \notin Filled => order[o].fill = 0

(* What recover and a late fill adopt is told, too. *)
LEMMA AdoptedIsTold ==
  ASSUME Types, Recover \/ LateFill, NEW o \in Orders
  PROVE  Told(o) /\ order' = order
<1> USE EmergencyCloseAssumption
<1>1. CASE row' = row
  BY <1>1, Building, Zenon DEF Told
<1>2. CASE Listed(1) /\ \E s \in Adopted(1) : row' = [row EXCEPT ![1] = s]
  <2>1. PICK s \in Adopted(1) : row' = [row EXCEPT ![1] = s]
    BY <1>2, Zenon
  <2>2. order' = order /\ 1 \in Orders
    BY Building, SMTT(30) DEF Orders, Closes
  <2>3. s = StateOf(1) \/ s = "manual_required"
    BY <2>1, Zenon DEF Adopted
  <2>4. /\ s # "none"
        /\ s \in Settled =>
             order[1].st = "done" /\ (s \notin Filled => order[1].fill = 0)
    BY <1>2, <2>2, <2>3, StateIsTold, Zenon DEF Settled, Filled
  <2>5. order[1].st # "none"
    BY <1>2, Zenon DEF Listed
  <2>6. row'[o] = row[o] \/ (o = 1 /\ row'[o] = s)
    BY <2>1, <2>2, Zenon DEF Types, RowType
  <2> QED
    BY <2>2, <2>4, <2>5, <2>6, Zenon DEF Told
<1> QED
  BY <1>1, <1>2, Building, Zenon

(* Writing the task, or closing once without it. *)
LEMMA CreationRows ==
  ASSUME Types, Attached, RowInv, Creation, Aware' => Aware
  PROVE  RowInv'
<1> USE EmergencyCloseAssumption
<1>0. 1 \in Orders /\ 1 \in Closes /\ 1 \notin Exits /\ Exits \subseteq Orders
  BY DEF Orders, Closes
<1>1. UNCHANGED exit
  BY Building, ZenonT(30) DEF Creation, Creator, CreatorDies, Start, CreateTask, CreateFails,
         BlindClose, BlindDone
<1>2. \A o \in Orders : Told(o)
  <2>1. CASE Recover \/ LateFill
    BY <2>1, AdoptedIsTold, Zenon
  <2>2. CASE UNCHANGED row
    BY <2>2, Zenon DEF Told
  <2> QED
    BY <2>1, <2>2, ZenonT(30) DEF Creation, Creator, CreatorDies, Start, CreateTask, CreateFails,
           BlindClose, BlindDone, WriteTask, db
<1>3. ASSUME NEW o \in Orders
      PROVE  \/ order'[o] = order[o]
             \/ /\ o = 1 /\ BlindClose /\ Free(order[o]) /\ row'[o] = row[o]
                /\ order'[o].st = "sent" /\ order'[o].fill = 0
  <2>1. CASE BlindClose
    BY <1>0, <2>1, ZenonT(30) DEF BlindClose, Submit, db, Types, OrderType, Free, Known
  <2>2. CASE UNCHANGED order
    BY <2>2, Zenon
  <2> QED
    BY <2>1, <2>2, Building, ZenonT(30) DEF Creation, Creator, CreatorDies, Start, CreateTask,
           CreateFails, BlindDone, world
<1>4. ASSUME NEW o \in Orders, Sure(o)'
      PROVE  RowOK(o)'
  <2>1. RowOK(o) /\ Told(o)
    BY <1>2, <1>4, Zenon DEF RowInv, Sure
  <2>2. CASE order'[o] = order[o]
    BY <2>1, <2>2, RowOKKept, Zenon DEF RowOK, Told
  <2>3. CASE /\ o = 1 /\ BlindClose /\ Free(order[o]) /\ row'[o] = row[o]
             /\ order'[o].st = "sent" /\ order'[o].fill = 0
    <3>1. ~Known(1) /\ Aware'
      BY <1>0, <1>4, <2>3, Zenon DEF Known, Free, Sure
    <3>2. task.status = "none"
      BY <2>3, <3>1, Zenon DEF BlindClose, Aware
    <3>3. row[1] = "none"
      BY <1>0, <3>2, Zenon DEF Attached
    <3> QED
      BY <2>3, <3>3, Zenon DEF RowOK, Settled, Filled
  <2> QED
    BY <1>3, <2>2, <2>3, Zenon
<1>5. ASSUME NEW x \in Exits
      PROVE  ExitOK(x)' /\ (row'[x] = "none" => row[x] = "none")
  <2>1. x \in Orders /\ x # 1 /\ ExitOK(x)
    BY <1>0, Zenon DEF RowInv
  <2>2. order'[x] = order[x] /\ Told(x)
    BY <1>2, <1>3, <2>1, Zenon
  <2> QED
    BY <1>1, <2>1, <2>2, Zenon DEF ExitOK, Told
<1>6. linked' \subseteq linked \cup Recorded
  BY Building, ZenonT(30) DEF Creation, Creator, CreatorDies, Start, CreateTask, CreateFails,
         BlindClose, BlindDone, WriteTask, Linkable, db
<1>7. (linked \subseteq Recorded)'
  BY <1>5, <1>6, Zenon DEF RowInv, Recorded
<1> QED
  BY <1>4, <1>5, <1>7, Zenon DEF RowInv

(* What a pass writes: rows of orders that are out, the row of the close   *)
(* it is about to send, and its answer.                                    *)
LEMMA ExecutorTold ==
  ASSUME Types, PassInv, Attached, NEW e \in Executors, ExecutorStep(e),
         NEW o \in Orders, Sure(o)
  PROVE  \/ Told(o)
         \/ o \in Closes /\ row'[o] \notin Settled \cup {"none"}
         \/ o \in Closes /\ row'[o] = "failed" /\ order[o].st = "void" /\ UNCHANGED order
<1> USE EmergencyCloseAssumption
<1>0. Exits \cap Closes = {} /\ Closes \subseteq Orders
  BY Zenon DEF Orders
<1>1. CASE Follow(e) \/ Overdue(e)
  <2>1. /\ row'[o] = row[o] \/ (Listed(o) /\ row'[o] = StateOf(o))
        /\ order' = order
    BY <1>1, Zenon DEF Follow, Overdue, Followed, world
  <2>2. Listed(o) => order[o].st # "none"
    BY Zenon DEF Listed
  <2> QED
    BY <2>1, <2>2, StateIsTold, Zenon DEF Told
<1>2. CASE FollowNoAmount(e)
  <2>1. PICK p \in Owns : /\ order[p].st = "done"
                          /\ row' = [row EXCEPT ![p] = "manual_required"]
    BY <1>2, ZenonT(30) DEF FollowNoAmount
  <2>2. order' = order
    BY <1>2, Zenon DEF FollowNoAmount, world
  <2>3. row'[o] = row[o] \/ (o = p /\ row'[o] = "manual_required")
    BY <2>1, Zenon DEF Types, RowType
  <2> QED
    BY <2>1, <2>2, <2>3, Zenon DEF Told, Settled, Filled
<1>3. CASE Intent(e)
  <2>1. row'[o] = row[o] \/ (o \in Closes /\ row'[o] = "pending")
    BY <1>0, <1>3, Zenon DEF Intent, Types, RowType
  <2> QED
    BY <2>1, Zenon DEF Told, Settled, Filled
<1>4. CASE Answer(e)
  <2> DEFINE c == my[e].n
  <2>1. c \in Closes /\ order' = order
    BY <1>4, Zenon DEF Answer, Attached, world
  <2>2. CASE o \in Exits
    BY <1>0, <1>4, <2>1, <2>2, Zenon DEF Answer, Types, RowType, Told
  <2>3. CASE o \notin Exits
    <3>0. my[e].rej = 0
      BY <1>4, <2>3, ZenonT(30) DEF Answer, Sure, PassInv, InOrder, Sending
    <3>1. \/ row' = [row EXCEPT ![c] = "accepted"]
          \/ row' = [row EXCEPT ![c] = "submission_unknown"]
          \/ /\ row' = [row EXCEPT ![c] = "completed"]
             /\ order[c].st = "done"
          \/ row' = [row EXCEPT ![c] = "failed"] /\ order[c].st = "void"
      BY <1>4, <3>0 DEF Answer, Accepted
    <3>2. row'[o] = row[o] \/ o = c
      BY <3>1, Zenon DEF Types, RowType
    <3>3. o = c => /\ row'[o] \in {"accepted", "submission_unknown", "completed", "failed"}
                   /\ row'[o] = "completed" => order[o].st = "done"
                   /\ row'[o] = "failed" => order[o].st = "void"
      BY <3>1, Zenon DEF Types, RowType
    <3> QED
      BY <2>1, <3>2, <3>3, Zenon DEF Told, Settled, Filled
  <2> QED
    BY <2>2, <2>3, Zenon
<1>5. CASE UNCHANGED row
  BY <1>5, Zenon DEF Told
<1> QED
  BY <1>1, <1>2, <1>3, <1>4, <1>5, ZenonT(30)
     DEF ExecutorStep, PassStep, Claim, TakeLock, LockBusy, Link, ReadStops, ReadPosition,
         CancelStop, RoundsToZero, SetSending, Send, SetTask, PassRaises, FollowMisses,
         PassFails, db

(* A pass touches an order only to send it. *)
LEMMA ExecutorOrder ==
  ASSUME Types, Attached, NEW e \in Executors, ExecutorStep(e), NEW o \in Orders
  PROVE  \/ order'[o] = order[o]
         \/ /\ Send(e) /\ o = my[e].n /\ o \in Closes /\ Free(order[o])
            /\ order'[o] = [st |-> "sent", amt |-> my[e].left, fill |-> 0]
<1>1. CASE Send(e)
  <2>1. my[e].n \in Closes
    BY <1>1, Zenon DEF Send, Attached
  <2> QED
    BY <1>1, <2>1, ZenonT(30) DEF Send, Submit, Types, OrderType, Free, Known
<1>2. CASE UNCHANGED order
  BY <1>2, Zenon
<1> QED
  BY <1>1, <1>2, ZenonT(30)
     DEF ExecutorStep, PassStep, Claim, TakeLock, LockBusy, Link, Follow, ReadStops,
         ReadPosition, CancelStop, Intent, RoundsToZero, SetSending, Answer, SetTask,
         PassRaises, Overdue, FollowNoAmount, FollowMisses, PassFails, world

(* What a pass does not touch, and which exits it takes over. *)
LEMMA ExecutorFrame ==
  ASSUME NEW e \in Executors, ExecutorStep(e)
  PROVE  /\ UNCHANGED <<trade, pos, exit, early, orphan>>
         /\ linked' = linked \/ (Link(e) /\ linked' = linked \cup Linkable)
<1>1. UNCHANGED <<trade, pos, exit, early, orphan>>
  BY ZenonT(30)
     DEF ExecutorStep, PassStep, Claim, TakeLock, LockBusy, Link, Follow, ReadStops,
         ReadPosition, CancelStop, Intent, RoundsToZero, SetSending, Send, Answer, SetTask,
         PassRaises, Overdue, FollowNoAmount, FollowMisses, PassFails, world, db
<1>2. linked' = linked \/ (Link(e) /\ linked' = linked \cup Linkable)
  <2>1. CASE Link(e)
    BY <2>1, Zenon DEF Link
  <2>2. CASE ~Link(e)
    BY <2>2, ZenonT(30)
       DEF ExecutorStep, PassStep, Claim, TakeLock, LockBusy, Follow, ReadStops,
           ReadPosition, CancelStop, Intent, RoundsToZero, SetSending, Send, Answer, SetTask,
           PassRaises, Overdue, FollowNoAmount, FollowMisses, PassFails, db
  <2> QED
    BY <2>1, <2>2, Zenon
<1> QED
  BY <1>1, <1>2, Zenon

(* A pass keeps the rows true. *)
LEMMA ExecutorRows ==
  ASSUME Types, PassInv, Attached, RowInv, NEW e \in Executors, ExecutorStep(e),
         Aware' => Aware
  PROVE  RowInv'
<1> USE EmergencyCloseAssumption
<1>0. Exits \cap Closes = {} /\ Exits \subseteq Orders
  BY Zenon DEF Orders
<1>1. UNCHANGED exit
  BY ExecutorFrame, Zenon
<1>2. ASSUME NEW o \in Orders, Sure(o)'
      PROVE  RowOK(o)'
  <2>1. Sure(o) /\ RowOK(o)
    BY <1>2, Zenon DEF RowInv, Sure
  <2>2. CASE order'[o] = order[o]
    <3>1. \/ Told(o)
          \/ row'[o] \notin Settled
          \/ row'[o] = "failed" /\ order[o].st = "void"
      BY <2>1, ExecutorTold, Zenon
    <3>2. \/ row'[o] \notin Settled \/ row'[o] = row[o]
          \/ /\ order'[o].st \in {"done", "void"}
             /\ row'[o] \notin Filled => order'[o].fill = 0
      BY <2>1, <2>2, <3>1, Zenon DEF Told, RowOK
    <3>3. order'[o].st \in {"none", "sent", "void"} => order'[o].fill = 0
      BY <2>1, <2>2, Zenon DEF RowOK
    <3> QED
      BY <2>1, <2>2, <3>2, <3>3, RowOKKept, Zenon
  <2>3. CASE /\ Send(e) /\ o = my[e].n /\ o \in Closes
             /\ order'[o] = [st |-> "sent", amt |-> my[e].left, fill |-> 0]
    <3>1. Aware
      BY <1>0, <2>1, <2>3, Zenon DEF Sure
    <3>2. row[o] = "pending" /\ row' = row
      BY <2>3, <3>1, Zenon DEF Send, db, PassInv, InOrder, Sending
    <3>3. order'[o].st = "sent" /\ order'[o].fill = 0
      BY <2>3
    <3> QED
      BY <3>2, <3>3, Zenon DEF RowOK, Settled, Filled
  <2> QED
    BY <2>2, <2>3, ExecutorOrder, Zenon
<1>3. ASSUME NEW x \in Exits
      PROVE  ExitOK(x)' /\ (row'[x] = "none" => row[x] = "none")
  <2>1. ExitOK(x) /\ x \in Orders /\ x \notin Closes /\ Sure(x)
    BY <1>0, Zenon DEF RowInv, Sure
  <2>2. Told(x)
    BY <2>1, ExecutorTold, Zenon
  <2>3. order'[x] = order[x]
    BY <2>1, ExecutorOrder, ZenonT(30)
  <2> QED
    BY <1>1, <2>1, <2>2, <2>3, Zenon DEF ExitOK, Told
<1>4. (linked \subseteq Recorded)'
  <2>1. linked' \subseteq linked \cup Recorded
    BY ExecutorFrame, Zenon DEF Linkable
  <2> QED
    BY <1>3, <2>1, Zenon DEF RowInv, Recorded
<1> QED
  BY <1>2, <1>3, <1>4, Zenon DEF RowInv

(* What an exit makes of an order that it has found. *)
LEMMA ResultIsTold ==
  ASSUME Types, NEW x \in Orders, NEW known, NEW whole
  PROVE  /\ ExitResult(x, known, whole) \in {"failed", "completed", "partial", "accepted"}
         /\ ExitResult(x, known, whole) \in Settled =>
              /\ order[x].st = "done"
              /\ ExitResult(x, known, whole) \notin Filled => order[x].fill = 0
  BY Zenon DEF ExitResult, Settled, Filled

(* An exit writes its own row, and as its order is. *)
LEMMA MonitorTold ==
  ASSUME Types, RowInv, NEW x \in Exits, MonitorStep(x), ~ExitRow(x), NEW o \in Orders
  PROVE  Told(o) /\ (o # x => row'[o] = row[o])
<1>0. x \in Orders /\ order[x].fill \in Nat
  BY EmergencyCloseAssumption DEF Orders, Types, OrderType
<1>1. ASSUME NEW status, NEW whole, ExitMarks(x, status, whole)
      PROVE  /\ o # x => row'[o] = row[o]
             /\ row'[o] \in {row[o], status}
  BY <1>0, <1>1, Zenon DEF ExitMarks, Types, RowType
<1>2. CASE ExitAnswer(x)
  <2>1. order' = order
    BY <1>2, Zenon DEF ExitAnswer
  <2>2. CASE Listed(x) /\ ExitMarks(x, ExitResult(x, trade /\ x \notin orphan, FilledUp(x)),
                                    FilledUp(x))
    <3> DEFINE status == ExitResult(x, trade /\ x \notin orphan, FilledUp(x))
    <3>1. /\ o # x => row'[o] = row[o]
          /\ row'[o] \in {row[o], status}
      <4> HIDE DEF status
      <4> QED
        BY <1>1, <2>2, Zenon DEF status
    <3>2. /\ status # "none"
          /\ status \in Settled =>
               order[x].st = "done" /\ (status \notin Filled => order[x].fill = 0)
      BY <1>0, ResultIsTold, Zenon
    <3> HIDE DEF status
    <3> QED
      BY <2>1, <2>2, <3>1, <3>2, Zenon DEF Told, Listed
  <2>3. CASE order[x].st = "void" /\ ExitMarks(x, "failed", FALSE)
    <3>1. order[x].fill = 0
      BY <1>0, <2>3, Zenon DEF RowInv, RowOK, Sure
    <3>2. row'[o] \in {row[o], "failed"} /\ (o # x => row'[o] = row[o])
      BY <1>1, <2>3, ZenonT(30)
    <3> QED
      BY <2>1, <2>3, <3>1, <3>2, Zenon DEF Told
  <2>4. CASE ExitMarks(x, "submission_unknown", FALSE)
    <3>1. exit[x] = "answer" /\ row'[o] \in {row[o], "submission_unknown"}
          /\ (o # x => row'[o] = row[o])
      BY <1>1, <1>2, <2>4, ZenonT(30) DEF ExitAnswer
    <3>2. order[x].st # "none"
      BY <3>1, Zenon DEF RowInv, ExitOK
    <3> QED
      BY <2>1, <3>1, <3>2, Zenon DEF Told, Settled, Filled
  <2> QED
    BY <1>2, <2>2, <2>3, <2>4, ZenonT(30) DEF ExitAnswer
<1>3. CASE ExitRecover(x)
  <2> DEFINE whole == trade /\ FilledUp(x) /\ pos = 0
             status == ExitResult(x, trade, whole)
  <2>1. order' = order /\ order[x].st = "done" /\ ExitMarks(x, status, whole)
    BY <1>3, Zenon DEF ExitRecover
  <2>2. /\ status # "none"
        /\ status \in Settled =>
             order[x].st = "done" /\ (status \notin Filled => order[x].fill = 0)
    BY <1>0, ResultIsTold, Zenon
  <2> HIDE DEF status, whole
  <2>3. /\ o # x => row'[o] = row[o]
        /\ row'[o] \in {row[o], status}
    BY <1>1, <2>1, Zenon
  <2> QED
    BY <2>1, <2>2, <2>3, Zenon DEF Told
<1>4. CASE UNCHANGED row
  BY <1>4, Zenon DEF Told
<1> QED
  BY <1>2, <1>3, <1>4, ZenonT(30)
     DEF MonitorStep, ExitStart, ExitStartUnread, ExitStep, ExitCheck, ExitSend, ExitFails

(* An exit touches its own order only, and sends it once. *)
LEMMA MonitorOrder ==
  ASSUME Types, RowInv, NEW x \in Exits, MonitorStep(x), NEW o \in Orders
  PROVE  \/ order'[o] = order[o]
         \/ /\ o = x /\ order[o].st = "none" /\ order'[o].fill = 0
            /\ order'[o].st = IF ExitSend(x) THEN "sent" ELSE "none"
            /\ ExitSend(x) \/ ExitCheck(x)
<1>0. x \in Orders /\ ExitOK(x) /\ RowOK(x)
  BY Zenon DEF Orders, RowInv, Sure
<1>1. CASE ExitSend(x)
  <2>1. order[x].st = "none"
    BY <1>0, <1>1, Zenon DEF ExitSend, ExitOK
  <2> QED
    BY <1>0, <1>1, <2>1, Zenon DEF ExitSend, Submit, Known, Types, OrderType
<1>2. CASE ExitCheck(x)
  <2>1. order[x].st = "none" /\ order[x].fill = 0 /\ ~ExitSend(x)
    BY <1>0, <1>2, Zenon DEF ExitCheck, ExitSend, ExitOK, RowOK
  <2>2. order' = order \/ order' = [order EXCEPT ![x].amt = pos]
    BY <1>2, Zenon DEF ExitCheck
  <2> QED
    BY <1>0, <1>2, <2>1, <2>2, Zenon DEF Types, OrderType
<1>3. CASE UNCHANGED order
  BY <1>3, Zenon
<1> QED
  BY <1>1, <1>2, <1>3, ZenonT(30)
     DEF MonitorStep, ExitStart, ExitStartUnread, ExitStep, ExitRow, ExitAnswer, ExitFails,
         ExitRecover, world

(* The exits move one at a time, forward. *)
LEMMA MonitorMoves ==
  ASSUME Types, Rest, NEW x \in Exits, MonitorStep(x)
  PROVE  /\ \A y \in Exits \ {x} : exit'[y] = exit[y]
         /\ \/ exit[x] = "idle" /\ exit'[x] = "check"
            \/ ExitCheck(x) /\ exit[x] = "check" /\ exit'[x] \in {"row", "done"}
            \/ ExitRow(x) /\ exit[x] = "row" /\ exit'[x] = "send"
            \/ ExitSend(x) /\ exit[x] = "send" /\ exit'[x] = "answer"
            \/ exit'[x] = "done"
<1>1. \/ exit[x] = "idle" /\ ExitMoves(x, "check")
      \/ ExitCheck(x) /\ exit[x] = "check" /\ (ExitMoves(x, "row") \/ ExitMoves(x, "done"))
      \/ ExitRow(x) /\ exit[x] = "row" /\ ExitMoves(x, "send")
      \/ ExitSend(x) /\ exit[x] = "send" /\ ExitMoves(x, "answer")
      \/ ExitMoves(x, "done")
      \/ exit[x] = "done" /\ exit' = exit
  BY ZenonT(30)
     DEF MonitorStep, ExitStart, ExitStartUnread, ExitStep, ExitCheck, ExitRow, ExitSend,
         ExitAnswer, ExitFails, ExitRecover
<1> QED
  BY <1>1, Zenon DEF ExitMoves, Rest

(* The exits keep the rows true. *)
LEMMA MonitorRows ==
  ASSUME Types, Rest, RowInv, NEW x \in Exits, MonitorStep(x), Aware' => Aware
  PROVE  RowInv'
<1>0. x \in Orders /\ ExitOK(x) /\ RowOK(x) /\ Exits \subseteq Orders
  BY Zenon DEF Orders, RowInv, Sure
<1>1. ASSUME NEW o \in Orders
      PROVE  /\ o # x => row'[o] = row[o]
             /\ Told(o) \/ (o = x /\ ExitRow(x) /\ row'[o] = "pending")
  <2>1. CASE ExitRow(x)
    BY <2>1, Zenon DEF ExitRow, Told, Types, RowType
  <2>2. CASE ~ExitRow(x)
    BY <2>2, MonitorTold, Zenon
  <2> QED
    BY <2>1, <2>2, Zenon
<1>2. ASSUME NEW o \in Orders, Sure(o)'
      PROVE  RowOK(o)'
  <2>1. RowOK(o)
    BY <1>2, Zenon DEF RowInv, Sure
  <2>2. /\ order[o].st \in {"done", "void"} =>
             order'[o].st = order[o].st /\ order'[o].fill = order[o].fill
        /\ order'[o].st \in {"none", "sent", "void"} => order'[o].fill = 0
    <3>1. CASE order'[o] = order[o]
      BY <2>1, <3>1, Zenon DEF RowOK
    <3>2. CASE order[o].st = "none" /\ order'[o].fill = 0
      BY <3>2, Zenon
    <3> QED
      BY <3>1, <3>2, MonitorOrder, Zenon
  <2>3. \/ row'[o] \notin Settled \/ row'[o] = row[o]
        \/ /\ order'[o].st \in {"done", "void"}
           /\ row'[o] \notin Filled => order'[o].fill = 0
    BY <1>1, <2>1, <2>2, Zenon DEF Told, Settled, Filled
  <2> QED
    BY <2>1, <2>2, <2>3, RowOKKept, Zenon
<1>3. ASSUME NEW y \in Exits, y # x
      PROVE  ExitOK(y)'
  <2>1. ExitOK(y) /\ order'[y] = order[y] /\ row'[y] = row[y] /\ exit'[y] = exit[y]
    BY <1>0, <1>1, <1>3, MonitorOrder, MonitorMoves, SMTT(30) DEF RowInv
  <2> QED
    BY <2>1, Zenon DEF ExitOK
<1>4. ExitOK(x)'
  <2>1. CASE exit[x] = "idle" /\ exit'[x] = "check"
    <3>1. ~ExitSend(x) /\ ~ExitRow(x) /\ ~ExitCheck(x)
      BY <2>1, Zenon DEF ExitSend, ExitRow, ExitCheck
    <3>2. order'[x] = order[x] /\ Told(x)
      BY <1>0, <1>1, <3>1, MonitorOrder, Zenon
    <3> QED
      BY <1>0, <2>1, <3>2, Zenon DEF ExitOK, Told
  <2>2. CASE ExitCheck(x) /\ exit[x] = "check" /\ exit'[x] = "row"
    <3>1. row' = row /\ ~ExitSend(x)
      BY <2>2, Zenon DEF ExitCheck, ExitSend
    <3>2. order'[x].st = "none"
      BY <1>0, <2>2, <3>1, MonitorOrder, Zenon DEF ExitOK
    <3> QED
      BY <1>0, <2>2, <3>1, <3>2, Zenon DEF ExitOK
  <2>3. CASE ExitRow(x) /\ exit[x] = "row" /\ exit'[x] = "send"
    <3>1. order' = order /\ row'[x] \in {row[x], "pending"}
      BY <1>0, <2>3, Zenon DEF ExitRow, world, Types, RowType
    <3> QED
      BY <1>0, <2>3, <3>1, Zenon DEF ExitOK
  <2>4. CASE ExitSend(x) /\ exit[x] = "send" /\ exit'[x] = "answer"
    <3>1. order'[x].st = "sent"
      BY <1>0, <2>4, Zenon DEF ExitSend, ExitOK, Submit, Known, Types, OrderType
    <3> QED
      BY <2>4, <3>1, Zenon DEF ExitOK
  <2>5. CASE exit'[x] = "done"
    BY <2>5, Zenon DEF ExitOK
  <2> QED
    BY <2>1, <2>2, <2>3, <2>4, <2>5, MonitorMoves, Zenon
<1>5. (linked \subseteq Recorded)'
  <2>1. linked' = linked
    BY MonitorFrame, Zenon
  <2>2. \A y \in Exits : row'[y] = "none" => row[y] = "none"
    BY <1>0, <1>1, Zenon DEF Told
  <2> QED
    BY <2>1, <2>2, Zenon DEF RowInv, Recorded
<1> QED
  BY <1>2, <1>3, <1>4, <1>5, Zenon DEF RowInv

(* At first there is no row, and no order. *)
LEMMA InitRows == Init => RowInv
  BY DEF Init, RowInv, RowOK, ExitOK, Recorded, Settled, Filled, Orders

(* Nobody runs a pass, and no close has a row. *)
LEMMA InitAttached == Init => Attached
  BY Zenon DEF Init, Attached, InPass, Orders

(* The steps that are left: of the lock, the accountant and the end of the *)
(* inline path.                                                            *)
OtherStep ==
  \/ InlineEnds \/ LockExpires \/ LockLost \/ Account \/ AccountGivesUp \/ UNCHANGED vars

(* They leave the orders, the rows, the exits and what was read alone. *)
LEMMA OtherFrame ==
  ASSUME OtherStep
  PROVE  UNCHANGED <<trade, pos, order, row, linked, early, orphan, exit, my>>
  BY Zenon DEF OtherStep, InlineEnds, LockExpires, LockLost, Account, AccountGivesUp, vars, world,
         db

(* Every step is one of these. *)
LEMMA Steps ==
  ASSUME [Next]_vars
  PROVE  \/ Exchange \/ Creation \/ OtherStep
         \/ \E e \in Executors : ExecutorStep(e)
         \/ \E x \in Exits : MonitorStep(x)
  BY Zenon DEF Next, OtherStep, ExecutorStep, MonitorStep

(* A task stays one, and a pass stays one of its task. *)
LEMMA NextAttached ==
  ASSUME Types, Attached, [Next]_vars
  PROVE  Attached'
<1> USE EmergencyCloseAssumption
<1>0. Closes \subseteq Orders /\ Exits \cap Closes = {}
  BY Zenon DEF Orders
<1>1. ASSUME \A e \in Executors : pc'[e] = pc[e] \/ ~InPass(e)', UNCHANGED my,
             task'.status = "none" =>
               task.status = "none" /\ \A c \in Closes : row'[c] = row[c]
      PROVE  Attached'
  BY <1>1, Zenon DEF Attached, InPass
<1>2. CASE Exchange
  <2>1. UNCHANGED <<task, row, pc, my>>
    BY <1>2, ZenonT(30) DEF Exchange, Arrive, Refuse, Fill, EndOrder, StopArrives, StopFills,
           StopEnds, HandTrade, exchangeOnly, db
  <2> QED
    BY <1>1, <2>1, Zenon
<1>3. CASE Creation
  <2>1. UNCHANGED my
    BY <1>3, Building, ZenonT(30) DEF Creation, Creator, CreatorDies, Start, CreateTask,
           CreateFails, BlindClose, BlindDone
  <2>2. ASSUME NEW e \in Executors
        PROVE  pc'[e] = pc[e] \/ ~InPass(e)'
    <3>1. CASE UNCHANGED pc
      BY <3>1, Zenon
    <3>2. CASE \E p \in {"start", "create", "blind", "wait", "idle", "done"} : Moves(Inline, p)
      BY <3>2, Zenon DEF Moves, InPass, Types, PcType
    <3> QED
      BY <1>3, <3>1, <3>2, Building, ZenonT(30) DEF Creation, Creator, CreatorDies, Start,
             CreateTask, CreateFails, BlindClose, BlindDone
  <2>3. CASE UNCHANGED <<task, row>>
    BY <1>1, <2>1, <2>2, <2>3, Zenon
  <2>4. CASE WriteTask /\ task.status = "none"
    <3>1. \E s \in {"manual", "runnable"} : task' = [task EXCEPT !.status = s]
      BY <2>4, Zenon DEF WriteTask
    <3>2. task'.status # "none"
      BY <3>1, Zenon DEF Types, TaskType
    <3> QED
      BY <1>1, <2>1, <2>2, <3>2, Zenon
  <2>5. CASE Recover \/ LateFill
    <3>1. task'.status # "none"
      BY <2>5, Building, Zenon DEF Types, TaskType
    <3> QED
      BY <1>1, <2>1, <2>2, <3>1, Zenon
  <2> QED
    <3>1. WriteTask => (WriteTask /\ task.status = "none") \/ UNCHANGED <<task, row>>
      BY Zenon DEF WriteTask, db
    <3> QED
      BY <1>3, <2>3, <2>4, <2>5, <3>1, ZenonT(30) DEF Creation, Creator, CreatorDies, Start,
             CreateTask, CreateFails, BlindClose, BlindDone, db
<1>4. ASSUME NEW e \in Executors, ExecutorStep(e)
      PROVE  Attached'
  <2>1. task.status # "none"
    <3>1. InPass(e) \/ Claim(e)
      BY <1>4, ZenonT(30)
         DEF ExecutorStep, PassStep, TakeLock, LockBusy, Link, Follow, ReadStops, ReadPosition,
             CancelStop, Intent, RoundsToZero, SetSending, Send, Answer, SetTask, PassRaises,
             Overdue, FollowNoAmount, FollowMisses, PassFails, InPass
    <3> QED
      BY <3>1, Zenon DEF Claim, Attached
  <2>2. task'.status # "none"
    <3>1. CASE SetTask(e)
      BY <2>1, <3>1, ZenonT(30) DEF SetTask, Types, MyType, TaskType
    <3>2. CASE ~SetTask(e)
      <4>1. UNCHANGED task \/ Claim(e)
        BY <1>4, <3>2, ZenonT(30)
           DEF ExecutorStep, PassStep, TakeLock, LockBusy, Link, Follow, ReadStops,
               ReadPosition, CancelStop, Intent, RoundsToZero, SetSending, Send, Answer,
               PassRaises, Overdue, FollowNoAmount, FollowMisses, PassFails, db
      <4> QED
        BY <2>1, <4>1, Zenon DEF Claim, Types, TaskType
    <3> QED
      BY <3>1, <3>2, Zenon
  <2>3. ASSUME NEW f \in Executors, pc'[f] \in {"sending", "send", "answer"}
        PROVE  my'[f].n \in Closes
    <3>1. CASE f # e
      BY <1>4, <2>3, <3>1, OthersStay, Zenon DEF Attached
    <3>2. CASE Intent(e)
      BY <2>3, <3>1, <3>2, Zenon DEF Intent, Attached
    <3>3. CASE SetSending(e) \/ Send(e)
      <4>1. pc[e] \in {"sending", "send"} /\ my[e].n \in Closes
        BY <3>3, Zenon DEF SetSending, Send, Attached
      <4>2. my' = my \/ \E r \in {0, 1} : my' = [my EXCEPT ![e].rej = r]
        BY <3>3, Zenon DEF SetSending, Send
      <4>3. my'[e].n = my[e].n
        BY <4>2, Zenon DEF Types, MyType
      <4> QED
        BY <3>1, <4>1, <4>3, Zenon
    <3>4. CASE ~(Intent(e) \/ SetSending(e) \/ Send(e))
      <4>1. \E p \in {"lock", "link", "follow", "stops", "position", "cancel", "intent", "set",
                      "idle", "done"} : Moves(e, p)
        BY <1>4, <3>4, ZenonT(30)
           DEF ExecutorStep, PassStep, Claim, TakeLock, LockBusy, Link, Follow, ReadStops,
               ReadPosition, CancelStop, RoundsToZero, Answer, SetTask, PassRaises, Overdue,
               FollowNoAmount, FollowMisses, PassFails, Ends, Leaves, Raises
      <4> QED
        BY <2>3, <3>1, <4>1, Zenon DEF Moves, Types, PcType
    <3> QED
      BY <3>1, <3>2, <3>3, <3>4, Zenon
  <2> QED
    BY <2>2, <2>3, Zenon DEF Attached
<1>5. ASSUME NEW x \in Exits, MonitorStep(x)
      PROVE  Attached'
  <2>1. UNCHANGED <<task, pc, my>>
    BY <1>5, MonitorFrame, Zenon
  <2>2. \A c \in Closes : row'[c] = row[c]
    BY <1>0, <1>5, MonitorOrders, Zenon
  <2> QED
    BY <1>1, <2>1, <2>2, Zenon
<1>6. CASE OtherStep
  <2>1. UNCHANGED <<row, my>>
    BY <1>6, OtherFrame, Zenon
  <2>2. task'.status = "none" => task.status = "none"
    BY <1>6, ZenonT(30) DEF OtherStep, InlineEnds, LockExpires, LockLost, Account,
           AccountGivesUp, vars, db, Types, TaskType
  <2>3. \A e \in Executors : pc'[e] \in {pc[e], "done"}
    BY <1>6, ZenonT(30) DEF OtherStep, InlineEnds, LockExpires, LockLost, Account,
           AccountGivesUp, vars, Moves, Types, PcType
  <2> QED
    BY <1>1, <2>1, <2>2, <2>3, Zenon DEF InPass
<1> QED
  BY <1>2, <1>3, <1>4, <1>5, <1>6, Steps, Zenon

(* Every step keeps the rows true. *)
LEMMA NextRows ==
  ASSUME Types, Rest, PassInv, Attached, RowInv, [Next]_vars
  PROVE  RowInv'
<1>0. Aware' => Aware
  BY AwareBefore, Zenon
<1>1. CASE OtherStep
  BY <1>0, <1>1, OtherFrame, Zenon DEF RowInv, RowOK, ExitOK, Recorded, Sure
<1> QED
  BY <1>0, <1>1, Steps, ExchangeRows, CreationRows, ExecutorRows, MonitorRows, Zenon
-----------------------------------------------------------------------------
(* The quantities. *)
Total == Filling(order, Closes)

(* An executor that will send the remainder it has read, unless it fails   *)
(* or finds that it has lost the claim.                                    *)
Armed(e) ==
  \/ task.claim = e /\ pc[e] \in {"stops", "position", "cancel", "intent"}
  \/ \E c \in Closes : MaySend(e, c)

(* There is room for what a working close may still fill, and for what an  *)
(* executor is about to send.                                              *)
AmountInv ==
  /\ Total <= Owned
  /\ \A c \in Closes : Live(c) => Total + order[c].amt <= Owned + order[c].fill
  /\ \A e \in Executors : Armed(e) => Total + my[e].left <= Owned

(* The amounts and their sums are numbers. *)
LEMMA Numbers ==
  ASSUME Types
  PROVE  /\ IsFiniteSet(Closes) /\ IsFiniteSet(Orders) /\ Counts(order, Orders)
         /\ \A S \in SUBSET Orders : IsFiniteSet(S) /\ Counts(order, S)
                                     /\ Filling(order, S) \in Nat
         /\ Total \in Nat /\ Owned \in Nat
         /\ \A o \in Orders : order[o].fill \in Nat /\ order[o].amt \in Nat
         /\ \A e \in Executors : my[e].left \in Nat
<1>1. IsFiniteSet(Closes)
  BY EmergencyCloseAssumption, FS_Interval DEF Closes
<1>2. IsFiniteSet(Orders)
  BY <1>1, EmergencyCloseAssumption, FS_Union, ZenonT(30) DEF Orders
<1>3. Owned \in Nat /\ Owned + Foreign \in Nat
  BY EmergencyCloseAssumption
<1>4. \A o \in Orders : order[o].fill \in Nat /\ order[o].amt \in Nat
  BY <1>3 DEF Types, OrderType
<1>5. \A e \in Executors : my[e].left \in Nat
  BY <1>3 DEF Types, MyType
<1>6. ASSUME NEW S \in SUBSET Orders
      PROVE  IsFiniteSet(S) /\ Counts(order, S) /\ Filling(order, S) \in Nat
  <2>1. IsFiniteSet(S) /\ Counts(order, S)
    BY <1>2, <1>4, FS_Subset, Zenon DEF Counts
  <2> QED
    BY <2>1, FillingIsNat, Zenon
<1>7. Closes \in SUBSET Orders
  BY Zenon DEF Orders
<1> QED
  BY <1>1, <1>2, <1>3, <1>4, <1>5, <1>6, <1>7, Zenon DEF Total, Counts

(* The sum changes only with the fills. *)
LEMMA TotalStays ==
  ASSUME Types, \A c \in Closes : order'[c].fill = order[c].fill
  PROVE  Total' = Total
  BY Numbers, FillingSame, Zenon DEF Total, Orders

(* A step without a fill that arms nobody. *)
LEMMA QuietStep ==
  ASSUME Types, Types', AmountInv,
         \A c \in Closes : /\ order'[c].fill = order[c].fill
                           /\ Live(c)' => Live(c) /\ order'[c].amt = order[c].amt,
         \A e \in Executors : Armed(e)' => Armed(e) /\ my'[e].left <= my[e].left
  PROVE  AmountInv'
<1>1. Total' = Total
  BY TotalStays, Zenon
<1>2. Total \in Nat /\ Owned \in Nat
  BY Numbers, Zenon
<1>3. \A c \in Closes : Live(c)' => Total' + order'[c].amt <= Owned + order'[c].fill
  BY <1>1, Zenon DEF AmountInv
<1>4. ASSUME NEW e \in Executors, Armed(e)'
      PROVE  Total' + my'[e].left <= Owned
  <2>1. my[e].left \in Nat /\ my'[e].left \in Nat
    BY EmergencyCloseAssumption DEF Types, MyType
  <2> QED
    BY <1>1, <1>2, <1>4, <2>1, SMTT(30) DEF AmountInv
<1> QED
  BY <1>1, <1>3, <1>4, Zenon DEF AmountInv

(* One close of the task fills. *)
LEMMA TotalGrows ==
  ASSUME Types, Types', NEW p \in Closes, NEW k \in Nat,
         order'[p].fill = order[p].fill + k,
         \A c \in Closes \ {p} : order'[c].fill = order[c].fill
  PROVE  Total' = Total + k
<1> DEFINE R == Closes \ {p}
<1>1. /\ IsFiniteSet(Closes) /\ IsFiniteSet(R)
      /\ Counts(order, Closes) /\ Counts(order, R) /\ Filling(order, R) \in Nat
      /\ order[p].fill \in Nat
  BY Numbers, Zenon DEF Orders
<1>2. Counts(order', Closes)
  BY EmergencyCloseAssumption, SMTT(30) DEF Counts, Types, OrderType, Orders
<1>3. Total = order[p].fill + Filling(order, R)
  BY <1>1, FillingSplits, SMTT(30) DEF Total
<1>4. Total' = order'[p].fill + Filling(order', R)
  BY <1>1, <1>2, FillingSplits DEF Total
<1>5. Filling(order', R) = Filling(order, R)
  BY <1>1, FillingSame, Zenon
<1> QED
  BY <1>1, <1>3, <1>4, <1>5, SMTT(30)

(* A close that fills is the only one that may, and nobody is armed. *)
LEMMA FillAmounts ==
  ASSUME Types, Types', InOrder, AmountInv, NEW p \in Closes, Fill(p)
  PROVE  AmountInv'
<1>1. UNCHANGED <<task, pc, my>> /\ p \in Orders
  BY Zenon DEF Fill, exchangeOnly, db, Orders
<1>2. Live(p) /\ \A c \in Closes : Risky(c) => c = p
  BY Zenon DEF Fill, Live, InOrder, OneRisky, Risky
<1>3. \A e \in Executors : ~Armed(e)
  <2> SUFFICES ASSUME NEW e \in Executors, Armed(e) PROVE FALSE
    BY Zenon
  <2>1. CASE task.claim = e /\ pc[e] \in {"stops", "position", "cancel", "intent"}
    BY <1>2, <2>1, Zenon DEF InOrder, HolderIsRight, Decided, Risky
  <2>2. CASE \E c \in Closes : MaySend(e, c)
    <3>1. PICK c \in Closes : MaySend(e, c)
      BY <2>2, Zenon
    <3>2. c = p
      BY <1>2, <3>1, Zenon DEF Risky
    <3>3. Free(order[p])
      BY <3>1, <3>2, ZenonT(30) DEF MaySend, InOrder, Sending, Free, Known
    <3> QED
      BY <1>2, <3>3, Zenon DEF Live, Free
  <2> QED
    BY <2>1, <2>2, Zenon DEF Armed
<1>4. \A e \in Executors : ~Armed(e)'
  BY <1>1, <1>3, Zenon DEF Armed, MaySend
<1>5. PICK k \in 1..Min2(order[p].amt - order[p].fill, pos) :
        order' = [order EXCEPT ![p].fill = @ + k,
                    ![p].st = IF order[p].fill + k = order[p].amt THEN "done" ELSE @]
  BY ZenonT(30) DEF Fill
<1>6. /\ order[p].fill \in Nat /\ order[p].amt \in Nat /\ Total \in Nat /\ Owned \in Nat
      /\ pos \in Nat
  BY <1>1, Numbers, EmergencyCloseAssumption, SMTT(30) DEF Types, PosType
<1>7. k \in Nat /\ k <= order[p].amt - order[p].fill
  BY <1>5, <1>6, SMTT(30) DEF Min2
<1>8. /\ order'[p].fill = order[p].fill + k /\ order'[p].amt = order[p].amt
      /\ \A c \in Closes \ {p} : order'[c] = order[c]
  BY <1>1, <1>5, SMTT(30) DEF Types, OrderType, Orders
<1>9. Total' = Total + k
  BY <1>7, <1>8, TotalGrows, Zenon
<1>10. \A c \in Closes : Live(c)' => c = p
  BY <1>2, <1>8, Zenon DEF Live, Risky
<1>11. Total + order[p].amt <= Owned + order[p].fill
  BY <1>2, Zenon DEF AmountInv
<1>12. Total' <= Owned /\ Total' + order'[p].amt <= Owned + order'[p].fill
  BY <1>6, <1>7, <1>8, <1>9, <1>11, SMTT(30)
<1> QED
  BY <1>4, <1>10, <1>12, Zenon DEF AmountInv

(* The exchange keeps the room. *)
LEMMA ExchangeAmounts ==
  ASSUME Types, Types', InOrder, AmountInv, Exchange
  PROVE  AmountInv'
<1>1. UNCHANGED <<task, pc, my>>
  BY Zenon DEF Exchange, Arrive, Refuse, Fill, EndOrder, StopArrives, StopFills, StopEnds,
         HandTrade, exchangeOnly, db
<1>2. \A e \in Executors : Armed(e)' => Armed(e) /\ my'[e].left <= my[e].left
  BY <1>1, EmergencyCloseAssumption, SMTT(30) DEF Armed, MaySend, Types, MyType
<1>3. CASE \A c \in Closes : order'[c].fill = order[c].fill /\ order'[c].amt = order[c].amt
  BY <1>2, <1>3, ExchangeOrders, QuietStep, Zenon
<1>4. ASSUME NEW p \in Orders, Arrive(p) \/ Refuse(p) \/ EndOrder(p)
      PROVE  AmountInv'
  <2>1. PICK s : order' = [order EXCEPT ![p].st = s]
    BY <1>4, Zenon DEF Arrive, Refuse, EndOrder
  <2>2. \A c \in Closes : order'[c].fill = order[c].fill /\ order'[c].amt = order[c].amt
    BY <2>1, Zenon DEF Types, OrderType, Orders
  <2> QED
    BY <1>3, <2>2, Zenon
<1>5. ASSUME NEW p \in Orders, Fill(p)
      PROVE  AmountInv'
  <2>1. CASE p \in Closes
    BY <1>5, <2>1, FillAmounts, Zenon
  <2>2. CASE p \notin Closes
    <3>1. \A c \in Closes : order'[c] = order[c]
      BY <1>5, <2>2, Zenon DEF Fill, Types, OrderType, Orders
    <3> QED
      BY <1>3, <3>1, Zenon
  <2> QED
    BY <2>1, <2>2, Zenon
<1>6. CASE UNCHANGED order
  BY <1>3, <1>6, Zenon
<1> QED
  BY <1>4, <1>5, <1>6, Zenon DEF Exchange, StopArrives, StopFills, StopEnds, HandTrade

(* The one close without a task goes out before there is any other. *)
LEMMA BlindAmounts ==
  ASSUME Types, Types', InOrder, RowInv, Aware, Aware', AmountInv, BlindClose, ~Known(1)
  PROVE  AmountInv'
<1> USE EmergencyCloseAssumption
<1>0. 1 \in Closes /\ 1 \in Orders /\ Closes \subseteq Orders
  BY DEF Closes, Orders
<1>1. /\ task.status = "none" /\ \A c \in Closes : Free(order[c])
      /\ \A e \in Executors : ~InPass(e)
  <2>1. task.status = "none"
    BY Zenon DEF BlindClose, Aware
  <2> QED
    BY <1>0, <2>1, Zenon DEF InOrder, BeforeTheTask, Free, Known
<1>2. \A c \in Closes : order[c].fill = 0 /\ ~Live(c)
  BY <1>0, <1>1, FreeIsEmpty, Zenon DEF RowInv, Sure
<1>3. /\ order'[1] = [st |-> "sent", amt |-> Owned, fill |-> 0]
      /\ \A c \in Closes \ {1} : order'[c] = order[c]
  BY <1>0, Zenon DEF BlindClose, Submit, Types, OrderType
<1>4. Total' = 0
  <2>1. Total' = Total
    BY <1>0, <1>2, <1>3, TotalStays, SMTT(30)
  <2>2. IsFiniteSet(Closes) /\ Counts(order, Closes) /\ IsFiniteSet({})
    BY <1>0, Numbers, FS_EmptySet, Zenon
  <2>3. Filling(order, {}) = Filling(order, Closes)
    BY <1>2, <2>2, FillingPart, SMTT(30)
  <2>4. Filling(order, {}) = 0
    BY <2>2, FillingUnfolds, Zenon
  <2> QED
    BY <2>1, <2>3, <2>4, Zenon DEF Total
<1>5. \A c \in Closes : Live(c)' => c = 1
  BY <1>2, <1>3, Zenon DEF Live
<1>6. ASSUME NEW e \in Executors PROVE ~Armed(e)'
  <2>1. pc'[e] \in {pc[e], "wait"}
    BY Zenon DEF BlindClose, Moves, Types, PcType
  <2> QED
    BY <1>1, <2>1, Zenon DEF Armed, MaySend, InPass
<1>7. Total' + order'[1].amt <= Owned + order'[1].fill
  BY <1>3, <1>4
<1> QED
  BY <1>4, <1>5, <1>6, <1>7, SMTT(30) DEF AmountInv

(* Writing the task arms nobody. *)
LEMMA CreationAmounts ==
  ASSUME Types, Types', InOrder, RowInv, Aware, Aware', AmountInv, Creation
  PROVE  AmountInv'
<1> USE EmergencyCloseAssumption
<1>1. CASE BlindClose /\ ~Known(1)
  BY <1>1, BlindAmounts, Zenon
<1>2. CASE ~(BlindClose /\ ~Known(1))
  <2>1. UNCHANGED <<order, my>>
    BY <1>2, Building, ZenonT(30) DEF Creation, Creator, CreatorDies, Start, CreateTask,
           CreateFails, BlindClose, BlindDone, Submit, world
  <2>2. task'.claim = task.claim
    <3>1. CASE WriteTask
      <4>1. UNCHANGED task \/ \E s : task' = [task EXCEPT !.status = s]
        BY <3>1, Zenon DEF WriteTask, db
      <4> QED
        BY <4>1, Zenon DEF Types, TaskType
    <3>2. CASE Recover \/ LateFill
      BY <3>2, Building, Zenon DEF Types, TaskType
    <3>3. CASE UNCHANGED task
      BY <3>3, Zenon
    <3> QED
      BY <3>1, <3>2, <3>3, ZenonT(30) DEF Creation, Creator, CreatorDies, Start, CreateTask,
             CreateFails, BlindClose, BlindDone, db
  <2>3. ASSUME NEW e \in Executors
        PROVE  pc'[e] \in {pc[e], "start", "create", "blind", "wait", "idle", "done"}
    <3>1. CASE UNCHANGED pc
      BY <3>1, Zenon
    <3>2. CASE \E p \in {"start", "create", "blind", "wait", "idle", "done"} : Moves(Inline, p)
      BY <3>2, Zenon DEF Moves, Types, PcType
    <3> QED
      BY <3>1, <3>2, Building, ZenonT(30) DEF Creation, Creator, CreatorDies, Start,
             CreateTask, CreateFails, BlindClose, BlindDone
  <2>4. \A e \in Executors : Armed(e)' => Armed(e) /\ my'[e].left <= my[e].left
    BY <2>1, <2>2, <2>3, SMTT(30) DEF Armed, MaySend, Types, MyType
  <2> QED
    BY <2>1, <2>4, QuietStep, Zenon DEF Live
<1> QED
  BY <1>1, <1>2, Zenon

(* A pass that found every row final knows what the closes have filled. *)
LEMMA FollowCounts ==
  ASSUME Types, Types', InOrder, RowInv, RowInv', Aware, Aware', NEW e \in Executors, Follow(e),
         Deciding(row') = {}
  PROVE  Total <= Counted(row')
<1> DEFINE F == {o \in Owns : row'[o] \in Filled}
<1>0. Closes \subseteq Orders /\ Owns \subseteq Orders /\ order' = order
  BY Zenon DEF Orders, Owns, Types, Follow, world
<1>1. task.status # "none" /\ row' = Followed({o \in Owns : Listed(o)})
  BY Zenon DEF Follow, InOrder, BeforeTheTask, InPass
<1>2. ASSUME NEW c \in Closes, c \notin F
      PROVE  order[c].fill = 0
  <2>1. CASE row[c] = "none"
    <3>1. Free(order[c])
      BY <1>1, <2>1, ZenonT(30) DEF InOrder, Sending, Free, Known
    <3> QED
      BY <1>0, <3>1, FreeIsEmpty, ZenonT(30) DEF RowInv, Sure
  <2>2. CASE row[c] # "none"
    <3>1. c \in Owns
      BY <2>2, Zenon DEF Owns
    <3>2. row'[c] \notin Unresolved \cup {"manual_required"}
      BY <3>1, Zenon DEF Deciding
    <3>3. row'[c] # "none" /\ row'[c] \in Rows
      BY <1>0, <1>1, <2>2, FollowedRows, Zenon DEF Types, RowType
    <3>4. row'[c] \in Settled /\ row'[c] \notin Filled
      BY <1>2, <3>1, <3>2, <3>3, Zenon DEF Rows, Settled
    <3> QED
      BY <1>0, <3>4, ZenonT(30) DEF RowInv, RowOK, Sure
  <2> QED
    BY <2>1, <2>2, Zenon
<1>3. Counted(row') = Filling(order, F)
  BY Zenon DEF Counted, Filling
<1> DEFINE B == Closes \cap F
<1>4. F \in SUBSET Orders /\ B \in SUBSET F /\ B \in SUBSET Closes
  BY <1>0, Zenon
<1> HIDE DEF F
<1>5. Filling(order, B) = Total
  BY <1>0, <1>2, <1>4, Numbers, FillingPart, ZenonT(30) DEF Total
<1>6. Filling(order, B) <= Filling(order, F)
  BY <1>4, Numbers, FillingPart, ZenonT(30)
<1> QED
  BY <1>3, <1>5, <1>6, Zenon

(* The claim is left, taken or released. *)
LEMMA ClaimMoves ==
  ASSUME Types, NEW e \in Executors, ExecutorStep(e)
  PROVE  task'.claim \in {task.claim, e, NoOne}
<1>1. CASE SetTask(e)
  BY <1>1, Zenon DEF SetTask
<1>2. CASE Claim(e)
  BY <1>2, Zenon DEF Claim, Types, TaskType
<1>3. CASE UNCHANGED task
  BY <1>3, Zenon
<1> QED
  BY <1>1, <1>2, <1>3, ZenonT(30)
     DEF ExecutorStep, PassStep, TakeLock, LockBusy, Link, Follow, ReadStops, ReadPosition,
         CancelStop, Intent, RoundsToZero, SetSending, Send, Answer, PassRaises, Overdue,
         FollowNoAmount, FollowMisses, PassFails, db

(* Nobody else is armed by a step of e. *)
LEMMA OthersUnarmed ==
  ASSUME Types, NEW e \in Executors, ExecutorStep(e), NEW f \in Executors \ {e}, Armed(f)'
  PROVE  Armed(f) /\ my'[f] = my[f]
<1>1. pc'[f] = pc[f] /\ my'[f] = my[f]
  BY OthersStay, Zenon
<1>2. task'.claim = f => task.claim = f
  BY ClaimMoves, EmergencyCloseAssumption, Zenon
<1> QED
  BY <1>1, <1>2, Zenon DEF Armed, MaySend

(* An executor is armed by the remainder it has computed from its closes,  *)
(* and keeps or reduces it until it sends.                                 *)
LEMMA SelfUnarmed ==
  ASSUME Types, InOrder, NEW e \in Executors, ExecutorStep(e), ~Send(e),
         ~(Follow(e) /\ Deciding(row') = {}), Armed(e)'
  PROVE  Armed(e) /\ my'[e].left <= my[e].left
<1> USE EmergencyCloseAssumption
<1>0. my[e].left \in 0..Owned /\ stop.fill \in 0..Owned
  BY Zenon DEF Types, MyType, StopType
<1>1. pc'[e] \in {"stops", "position", "cancel", "intent", "sending", "send"}
  BY Zenon DEF Armed, MaySend
<1>2. CASE ReadStops(e)
  <2>1. /\ pc[e] = "stops" /\ UNCHANGED task /\ pc'[e] \in {"set", "position"}
        /\ pc'[e] = "position" => my' = [my EXCEPT ![e].stops = stop.st,
                                           ![e].left = AfterStop(@)]
    BY <1>2, Zenon DEF ReadStops, Ends, Moves, db, Types, PcType
  <2>2. my'[e].left = AfterStop(my[e].left)
    BY <1>1, <2>1, SMTT(30) DEF Types, MyType
  <2>3. AfterStop(my[e].left) <= my[e].left
    BY <1>0, SMTT(30) DEF AfterStop
  <2> QED
    BY <1>1, <2>1, <2>2, <2>3, Zenon DEF Armed, MaySend
<1>3. CASE ReadPosition(e)
  <2>1. /\ pc[e] = "position" /\ UNCHANGED task /\ pc'[e] \in {"set", "cancel", "intent"}
        /\ pc'[e] # "set" => my' = my
    BY <1>3, Zenon DEF ReadPosition, Ends, Moves, db, Types, PcType
  <2> QED
    BY <1>0, <1>1, <2>1, SMTT(30) DEF Armed, MaySend
<1>4. CASE Intent(e) \/ SetSending(e)
  <2>1. UNCHANGED <<task, my>>
    BY <1>4, Zenon DEF Intent, SetSending, db
  <2>2. \/ pc[e] = "intent" /\ pc'[e] = "sending"
        \/ pc[e] = "sending" /\ pc'[e] = "send" /\ task.claim = e
    BY <1>4, Zenon DEF Intent, SetSending, Moves, Types, PcType
  <2> QED
    BY <1>0, <2>1, <2>2, SMTT(30) DEF Armed, MaySend
<1>5. CASE Follow(e)
  <2>1. pc'[e] = "set"
    BY <1>5, ZenonT(30) DEF Follow, Ends, Moves, Types, PcType
  <2> QED
    BY <1>1, <2>1, Zenon
<1>6. CASE ~(ReadStops(e) \/ ReadPosition(e) \/ Intent(e) \/ SetSending(e) \/ Follow(e))
  <2>1. \E p \in {"lock", "link", "follow", "set", "idle", "done"} : Moves(e, p)
    BY <1>6, ZenonT(30)
       DEF ExecutorStep, PassStep, Claim, TakeLock, LockBusy, Link, CancelStop, RoundsToZero,
           Answer, SetTask, PassRaises, Overdue, FollowNoAmount, FollowMisses, PassFails, Ends,
           Leaves, Raises
  <2>2. pc'[e] \in {"lock", "link", "follow", "set", "idle", "done"}
    BY <2>1, Zenon DEF Moves, Types, PcType
  <2> QED
    BY <1>1, <2>2, ZenonT(30)
<1> QED
  BY <1>2, <1>3, <1>4, <1>5, <1>6, Zenon

(* A pass that goes on after its closes leaves room for the remainder. *)
LEMMA FollowAmounts ==
  ASSUME Types, Types', InOrder, RowInv, RowInv', Aware, Aware', AmountInv,
         NEW e \in Executors, ExecutorStep(e), Follow(e), Deciding(row') = {}
  PROVE  AmountInv'
<1> USE EmergencyCloseAssumption
<1>1. order' = order
  BY Zenon DEF Follow, world
<1>2. Total' = Total /\ Total \in Nat /\ Owned \in Nat
  BY <1>1, Numbers, TotalStays, Zenon
<1>3. Total <= Counted(row')
  BY FollowCounts, Zenon
<1>4. my'[e].left = Left(row')
  <2>1. PICK left \in 0..Owned :
          /\ left = Left(row')
          /\ my' = [my EXCEPT ![e] = Note(Cardinality(Owns) + 1, left, "runnable", 0)]
    BY Zenon DEF Follow
  <2> QED
    BY <2>1, Zenon DEF Note, Types, MyType
<1>5. Counted(row') \in Nat
  <2>1. {o \in Owns : row'[o] \in Filled} \in SUBSET Orders
    BY ZenonT(30) DEF Owns, Orders, Types
  <2>2. Filling(order, {o \in Owns : row'[o] \in Filled}) \in Nat
    BY <2>1, Numbers, Zenon
  <2> QED
    BY <2>2, Zenon DEF Counted, Filling
<1>6. Total + my'[e].left <= Owned
  <2>1. Total <= Owned
    BY Zenon DEF AmountInv
  <2>2. my'[e].left = IF Counted(row') < Owned THEN Owned - Counted(row') ELSE 0
    BY <1>4, Zenon DEF Left
  <2> QED
    BY <1>2, <1>3, <1>5, <2>1, <2>2, SMTT(30)
<1>7. ASSUME NEW f \in Executors, Armed(f)'
      PROVE  Total' + my'[f].left <= Owned
  <2>1. CASE f = e
    BY <1>2, <1>6, <2>1, Zenon
  <2>2. CASE f # e
    BY <1>2, <1>7, <2>2, OthersUnarmed, Zenon DEF AmountInv
  <2> QED
    BY <2>1, <2>2, Zenon
<1> QED
  BY <1>1, <1>2, <1>7, Zenon DEF AmountInv, Live

(* The remainder goes out, and is what the close may fill. *)
LEMMA SendAmounts ==
  ASSUME Types, Types', InOrder, RowInv, Aware, Aware', AmountInv,
         NEW e \in Executors, ExecutorStep(e), Send(e)
  PROVE  AmountInv'
<1> USE EmergencyCloseAssumption
<1> DEFINE n == my[e].n
<1>0. Closes \subseteq Orders
  BY Zenon DEF Orders
<1>1. n \in Closes /\ Free(order[n]) /\ MaySend(e, n)
  BY Zenon DEF Send, InOrder, Sending, MaySend, Free, Known
<1>2. \A c \in Closes : ~Live(c)
  BY <1>1, Zenon DEF InOrder, OneRisky, Risky, Live, Free
<1>3. /\ order'[n] = [st |-> "sent", amt |-> my[e].left, fill |-> 0]
      /\ \A c \in Closes \ {n} : order'[c] = order[c]
  BY <1>0, <1>1, Zenon DEF Send, Submit, Free, Known, Types, OrderType
<1>4. order[n].fill = 0
  BY <1>0, <1>1, FreeIsEmpty, Zenon DEF RowInv, Sure
<1>5. Total' = Total
  BY <1>3, <1>4, TotalStays, SMTT(30)
<1>6. Total + my[e].left <= Owned
  BY <1>1, Zenon DEF AmountInv, Armed
<1>7. \A c \in Closes : Live(c)' => c = n
  BY <1>2, <1>3, Zenon DEF Live
<1>8. ~Armed(e)'
  BY Zenon DEF Send, Moves, Armed, MaySend, Types, PcType
<1>9. ASSUME NEW f \in Executors, Armed(f)'
      PROVE  Total' + my'[f].left <= Owned
  <2>1. f # e
    BY <1>8, <1>9, Zenon
  <2> QED
    BY <1>5, <1>9, <2>1, OthersUnarmed, Zenon DEF AmountInv
<1>10. Total' + order'[n].amt <= Owned + order'[n].fill
  <2>1. order'[n].amt = my[e].left /\ order'[n].fill = 0
    BY <1>3, SMTT(30)
  <2> QED
    BY <1>5, <1>6, <2>1, SMTT(30)
<1> QED
  BY <1>5, <1>7, <1>9, <1>10, Zenon DEF AmountInv

(* Every step keeps the room. *)
LEMMA NextAmounts ==
  ASSUME Types, Types', Rest, InOrder, Attached, RowInv, RowInv', AmountInv, [Next]_vars,
         Aware, Aware'
  PROVE  AmountInv'
<1> USE EmergencyCloseAssumption
<1>1. ASSUME NEW e \in Executors, ExecutorStep(e)
      PROVE  AmountInv'
  <2>1. CASE Send(e)
    BY <1>1, <2>1, SendAmounts, Zenon
  <2>2. CASE Follow(e) /\ Deciding(row') = {}
    BY <1>1, <2>2, FollowAmounts, Zenon
  <2>3. CASE ~Send(e) /\ ~(Follow(e) /\ Deciding(row') = {})
    <3>1. \A c \in Closes : order'[c] = order[c]
      BY <1>1, <2>3, ExecutorOrder, ZenonT(30) DEF Orders
    <3>2. ASSUME NEW f \in Executors, Armed(f)'
          PROVE  Armed(f) /\ my'[f].left <= my[f].left
      <4>1. CASE f = e
        BY <1>1, <2>3, <3>2, <4>1, SelfUnarmed, Zenon
      <4>2. CASE f # e
        <5>1. Armed(f) /\ my'[f] = my[f]
          BY <1>1, <3>2, <4>2, OthersUnarmed, Zenon
        <5>2. my[f].left \in Nat
          BY Numbers, Zenon
        <5> QED
          BY <5>1, <5>2
      <4> QED
        BY <4>1, <4>2, Zenon
    <3> QED
      BY <3>1, <3>2, QuietStep, Zenon DEF Live
  <2> QED
    BY <2>1, <2>2, <2>3, Zenon
<1>2. ASSUME NEW x \in Exits, MonitorStep(x)
      PROVE  AmountInv'
  <2>1. UNCHANGED <<task, pc, my>> /\ \A c \in Closes : order'[c] = order[c]
    BY <1>2, MonitorFrame, MonitorOrders, Zenon
  <2>2. \A e \in Executors : Armed(e)' => Armed(e) /\ my'[e].left <= my[e].left
    BY <2>1, SMTT(30) DEF Armed, MaySend, Types, MyType
  <2> QED
    BY <2>1, <2>2, QuietStep, Zenon DEF Live
<1>3. CASE OtherStep
  <2>1. UNCHANGED <<order, my>>
    BY <1>3, OtherFrame, Zenon
  <2>2. task'.claim = task.claim /\ \A e \in Executors : pc'[e] \in {pc[e], "done"}
    BY <1>3, ZenonT(30) DEF OtherStep, InlineEnds, LockExpires, LockLost, Account,
                AccountGivesUp, vars, db, Moves, Types, TaskType, PcType
  <2>3. \A e \in Executors : Armed(e)' => Armed(e) /\ my'[e].left <= my[e].left
    BY <2>1, <2>2, SMTT(30) DEF Armed, MaySend, Types, MyType
  <2> QED
    BY <2>1, <2>3, QuietStep, Zenon DEF Live
<1> QED
  BY <1>1, <1>2, <1>3, Steps, ExchangeAmounts, CreationAmounts, ZenonT(30)

(* Nothing has filled at the start. *)
LEMMA InitAmounts == Init => AmountInv
<1> SUFFICES ASSUME Init PROVE AmountInv
  BY Zenon
<1>0. Types /\ Owned \in Nat /\ Closes \subseteq Orders
  BY InitTypes, EmergencyCloseAssumption, Zenon DEF Orders
<1>1. \A c \in Closes : order[c].fill = 0 /\ ~Live(c)
  BY Zenon DEF Init, Live, Orders
<1>2. Total = 0
  <2>1. IsFiniteSet(Closes) /\ Counts(order, Closes) /\ IsFiniteSet({})
    BY <1>0, Numbers, FS_EmptySet, Zenon
  <2>2. Filling(order, {}) = Filling(order, Closes)
    BY <1>1, <2>1, FillingPart, SMTT(30)
  <2>3. Filling(order, {}) = 0
    BY <2>1, FillingUnfolds, Zenon
  <2> QED
    BY <2>2, <2>3, Zenon DEF Total
<1>3. \A e \in Executors : ~Armed(e)
  BY Zenon DEF Init, Armed, MaySend
<1> QED
  BY <1>0, <1>1, <1>2, <1>3, SMTT(30) DEF AmountInv

(* What the orders, their rows and the passes keep of each other, in every *)
(* reachable state: a row that is settled belongs to an order that cannot  *)
(* fill any more, and there is room for what is working and for what is    *)
(* about to be sent.                                                       *)
THEOREM AmountInductive ==
  Spec => [](Types /\ Rest /\ PassInv /\ Attached /\ RowInv /\ (Aware => AmountInv))
<1> DEFINE I == Types /\ Rest /\ PassInv /\ Attached /\ RowInv /\ (Aware => AmountInv)
<1>1. Init => I
  BY InitTypes, InitRest, InitInv, InitAttached, InitRows, InitAmounts, Zenon DEF PassInv
<1>2. I /\ [Next]_vars => I'
  <2> SUFFICES ASSUME I, [Next]_vars PROVE I'
    BY Zenon
  <2>1. Types' /\ Rest' /\ PassInv' /\ Attached'
    BY NextTypes, NextRest, NextPass, NextAttached, Zenon
  <2>2. RowInv'
    BY NextRows, Zenon
  <2>3. Aware' => AmountInv'
    <3> SUFFICES ASSUME Aware' PROVE AmountInv'
      BY Zenon
    <3>1. Aware
      BY AwareBefore, Zenon
    <3>2. InOrder /\ AmountInv
      BY <3>1, Zenon DEF PassInv
    <3> QED
      BY <2>1, <2>2, <3>1, <3>2, NextAmounts, Zenon
  <2> QED
    BY <2>1, <2>2, <2>3, Zenon
<1> QED
  BY <1>1, <1>2, PTL DEF Spec

(* The closes of a task never fill more than the task owns: with any       *)
(* number of executors, exits and closes, whatever is lost on the way,     *)
(* also when somebody adds to the position by hand (_pass sends only the   *)
(* remainder that the task's own rows leave open), as long as there is no  *)
(* close that the task does not know of.                                   *)
THEOREM NeverOversold == Spec => []ClosesWithinOwned
<1>1. (Aware => AmountInv) => ClosesWithinOwned
  BY Zenon DEF AmountInv, Total, Filling, ClosesWithinOwned
<1> QED
  BY <1>1, AmountInductive, PTL
=============================================================================
