-------------------------- MODULE HandleTableProofs --------------------------
(***************************************************************************)
(* Proofs about HandleTable.tla, for every number of slots, addresses and  *)
(* generations.                                                            *)
(***************************************************************************)
EXTENDS HandleTable, WellFoundedInduction, TLAPS

-----------------------------------------------------------------------------
(* Remainders, and the least element of a set of naturals.                 *)

(* Division with remainder. *)
LEMMA DivMod ==
    ASSUME NEW M \in Nat \ {0}, NEW a \in Nat
    PROVE  /\ a \div M \in Int
           /\ a % M \in 0 .. (M - 1)
           /\ a = M * (a \div M) + (a % M)
OBVIOUS

(* Two numbers less than M apart have different remainders. *)
LEMMA ModDistinct ==
    ASSUME NEW M \in Nat \ {0}, NEW a \in Nat, NEW b \in Nat, a < b, b < a + M
    PROVE  a % M # b % M
<1> DEFINE p == a \div M
           q == b \div M
<1>1. p \in Int /\ a % M \in Nat /\ a = M * p + (a % M)
    OBVIOUS
<1>2. q \in Int /\ b % M \in Nat /\ b = M * q + (b % M)
    OBVIOUS
<1> HIDE DEF p, q
<1>3. M * (q - p) = (b - a) + (a % M) - (b % M)
    BY <1>1, <1>2
<1>4. (q - p <= 0 => M * (q - p) <= 0) /\ (q - p >= 1 => M * (q - p) >= M)
    BY <1>1, <1>2
<1> QED BY <1>1, <1>2, <1>3, <1>4

(* A counter that wraps at M is the remainder of one that does not. *)
LEMMA ModSuccessor ==
    ASSUME NEW M \in Nat \ {0}, NEW a \in Nat
    PROVE  (a + 1) % M = ((a % M) + 1) % M
<1> DEFINE q == a \div M
           x == a % M
           t == (a + 1) \div M
           y == (a + 1) % M
           u == (x + 1) \div M
           z == (x + 1) % M
           d == q + u - t
<1>1. q \in Int /\ x \in 0 .. (M - 1) /\ a = M * q + x
    BY DivMod
<1>2. t \in Int /\ y \in 0 .. (M - 1) /\ a + 1 = M * t + y
  <2>1. a + 1 \in Nat
      OBVIOUS
  <2> QED BY <2>1, DivMod
<1>3. u \in Int /\ z \in 0 .. (M - 1) /\ x + 1 = M * u + z
  <2>1. x + 1 \in Nat
      BY <1>1
  <2> HIDE DEF x
  <2> QED BY <2>1, DivMod
<1> HIDE DEF q, x, t, u, y, z
<1>4. d \in Int /\ M * d = y - z
    BY <1>1, <1>2, <1>3
<1> HIDE DEF d
<1>5. CASE d >= 1
  <2>1. M * d >= M
      BY <1>4, <1>5
  <2> QED BY <1>2, <1>3, <1>4, <2>1
<1>6. CASE d <= -1
  <2>1. M * d <= -M
      BY <1>4, <1>6
  <2> QED BY <1>2, <1>3, <1>4, <2>1
<1>7. CASE d = 0
  <2>1. y = z
      BY <1>2, <1>3, <1>4, <1>7
  <2> QED BY <2>1 DEF x, y, z
<1> QED BY <1>4, <1>5, <1>6, <1>7

(* Every non-empty set of naturals has a least element. *)
LEMMA LeastElement ==
    ASSUME NEW S \in SUBSET Nat, S # {}
    PROVE  \E s \in S : \A t \in S : s <= t
<1> DEFINE LessThan == {p \in Nat \X Nat : p[1] < p[2]}
<1>1. IsWellFoundedOn(LessThan, Nat)
    BY NatLessThanWellFounded DEF OpToRel
<1>2. PICK s \in S : \A t \in S : <<t, s>> \notin LessThan
    BY <1>1, WFMin
<1>3. \A t \in S : t \in Nat /\ s \in Nat /\ ~(t < s)
    BY <1>2
<1> QED BY <1>3


USE HandleTableAssumption

-----------------------------------------------------------------------------
(* What holds of a table T between two of its operations, for the kinds K  *)
(* of the objects and the references O the stack, or the handler that is   *)
(* running, holds on them.                                                 *)
Good(T, K, O) ==
    /\ T \in TableType
    /\ \A s \in Slots : T.gen[s] = T.clears[s] % GenMod
    /\ \A s \in Slots : T.ptr[s] = NoPtr => T.type[s] = "none"
    /\ \A s \in Slots : T.ptr[s] # NoPtr => T.type[s] = K[T.ptr[s]] /\ T.type[s] \in Types
    /\ \A s, t \in Slots : T.ptr[s] = T.ptr[t] /\ T.ptr[s] # NoPtr => s = t
    /\ \A p \in Ptr : T.refs[p] = (IF O[p] THEN 1 ELSE 0)
                                    + (IF SlotsOf(T, p) # {} THEN 1 ELSE 0)

(* The heap's types. *)
Heap(K, O) == K \in [Ptr -> Types \cup {"none"}] /\ O \in [Ptr -> BOOLEAN]

(* U comes after T: a slot that was not cleared still names its object. *)
Later(T, U) ==
    \A s \in Slots :
        /\ T.clears[s] <= U.clears[s]
        /\ U.clears[s] = T.clears[s] /\ T.ptr[s] # NoPtr => U.ptr[s] = T.ptr[s]

(* Every handle issued fits the table. *)
IssuedOK(T, i, S) ==
    \A h \in S :
        /\ h \in [slot : Slots, gen : 0 .. (GenMod - 1), clears : Nat,
                  type : Types, inc : Nat]
        /\ h.gen = h.clears % GenMod
        /\ h.clears <= T.clears[h.slot]
        /\ h.clears = T.clears[h.slot] =>
               T.ptr[h.slot] # NoPtr /\ i[T.ptr[h.slot]] = h.inc

-----------------------------------------------------------------------------
(* The operations of the table.                                            *)

(* The search finds an element of the set it searches. *)
LEMMA LowestInSet ==
    ASSUME NEW S \in SUBSET Slots, S # {}
    PROVE  Lowest(S) \in S
<1>1. S \in SUBSET Nat
    BY DEF Slots
<1>2. \E s \in S : \A t \in S : s <= t
    BY <1>1, LeastElement
<1> QED BY <1>2 DEF Lowest

LEMMA NextGenFits ==
    ASSUME NEW c \in Nat
    PROVE  NextGen(c % GenMod) = (c + 1) % GenMod /\ (c + 1) % GenMod \in 0 .. (GenMod - 1)
<1>1. c + 1 \in Nat
    OBVIOUS
<1> QED BY <1>1, ModSuccessor, DivMod DEF NextGen

(* Taking a reference for the stack or the running handler. *)
LEMMA RefGood ==
    ASSUME NEW T, NEW K, NEW O, Heap(K, O), Good(T, K, O), NEW p \in Ptr, ~O[p]
    PROVE  /\ Good(Ref(T, p), K, [O EXCEPT ![p] = TRUE])
           /\ Ref(T, p).ptr = T.ptr /\ Ref(T, p).clears = T.clears
<1> DEFINE U == Ref(T, p)
<1>1. /\ U \in TableType /\ U.ptr = T.ptr /\ U.type = T.type /\ U.gen = T.gen
      /\ U.clears = T.clears /\ U.refs = [T.refs EXCEPT ![p] = @ + 1]
    BY DEF Good, TableType, Ref, WithRefs
<1> HIDE DEF U
<1> QED BY <1>1 DEF Good, Heap, SlotsOf, TableType, U

(* Giving it back. *)
LEMMA DerefGood ==
    ASSUME NEW T, NEW K, NEW O, Heap(K, O), Good(T, K, O), NEW p \in Ptr, O[p]
    PROVE  /\ Good(Deref(T, p), K, [O EXCEPT ![p] = FALSE])
           /\ Deref(T, p).ptr = T.ptr /\ Deref(T, p).clears = T.clears
<1> DEFINE U == Deref(T, p)
<1>1. T.refs[p] \in Nat /\ T.refs[p] >= 1
    BY DEF Good, TableType
<1>2. /\ U \in TableType /\ U.ptr = T.ptr /\ U.type = T.type /\ U.gen = T.gen
      /\ U.clears = T.clears /\ U.refs = [T.refs EXCEPT ![p] = @ - 1]
    BY <1>1 DEF Good, TableType, Deref, WithRefs
<1> HIDE DEF U
<1> QED BY <1>2 DEF Good, Heap, SlotsOf, TableType, U

(* handle_create *)
LEMMA CreateGood ==
    ASSUME NEW T, NEW K, NEW O, Heap(K, O), Good(T, K, O), NEW p \in Ptr,
           NEW k \in Types, K[p] = k
    PROVE  /\ Good(Create(T, p, k), K, O)
           /\ Create(T, p, k).clears = T.clears
           /\ \A s \in Slots : T.ptr[s] # NoPtr => Create(T, p, k).ptr[s] = T.ptr[s]
           /\ \A s \in Slots : Create(T, p, k).ptr[s] \in {T.ptr[s], p}
<1>1. CASE SlotsOf(T, p) # {} \/ FreeSlots(T) = {}
    BY <1>1 DEF Create
<1>2. CASE SlotsOf(T, p) = {} /\ FreeSlots(T) # {}
  <2> DEFINE s0 == Lowest(FreeSlots(T))
             U == Fill(T, s0, p, k)
  <2>1. s0 \in Slots /\ T.ptr[s0] = NoPtr
    <3>1. FreeSlots(T) \in SUBSET Slots
        BY DEF FreeSlots, SlotsOf
    <3>2. s0 \in FreeSlots(T)
        BY <1>2, <3>1, LowestInSet
    <3> QED BY <3>2 DEF FreeSlots, SlotsOf
  <2> HIDE DEF s0
  <2>2. /\ U \in TableType /\ U.ptr = [T.ptr EXCEPT ![s0] = p]
        /\ U.type = [T.type EXCEPT ![s0] = k] /\ U.gen = T.gen
        /\ U.clears = T.clears /\ U.refs = [T.refs EXCEPT ![p] = @ + 1]
      BY <2>1 DEF Good, TableType, Fill
  <2>3. Create(T, p, k) = U
      BY <1>2 DEF Create, s0
  <2> HIDE DEF U
  <2>4. \A s \in Slots : T.ptr[s] # p
      BY <1>2 DEF SlotsOf
  <2>5. \A s \in Slots : U.ptr[s] = IF s = s0 THEN p ELSE T.ptr[s]
      BY <2>1, <2>2 DEF Good, TableType
  <2>6. Good(U, K, O)
    <3>1. SlotsOf(U, p) # {} /\ \A q \in Ptr \ {p} : SlotsOf(U, q) = SlotsOf(T, q)
      <4>1. SlotsOf(U, p) # {}
          BY <2>1, <2>4, <2>5 DEF SlotsOf
      <4>2. ASSUME NEW q \in Ptr, q # p PROVE SlotsOf(U, q) = SlotsOf(T, q)
        <5>1. \A s \in Slots : U.ptr[s] = q <=> T.ptr[s] = q
            BY <2>1, <2>5, <4>2, HandleTableAssumption
        <5> QED BY <5>1 DEF SlotsOf
      <4> QED BY <4>1, <4>2
    <3>2. \A q \in Ptr : U.refs[q] = (IF O[q] THEN 1 ELSE 0)
                                       + (IF SlotsOf(U, q) # {} THEN 1 ELSE 0)
        BY <1>2, <2>2, <3>1 DEF Good, TableType
    <3>3. \A s, t \in Slots : U.ptr[s] = U.ptr[t] /\ U.ptr[s] # NoPtr => s = t
        BY <2>4, <2>5 DEF Good
    <3>4. \A s \in Slots : U.type[s] = IF s = s0 THEN k ELSE T.type[s]
        BY <2>1, <2>2 DEF Good, TableType
    <3>5. /\ \A s \in Slots : U.ptr[s] = NoPtr => U.type[s] = "none"
          /\ \A s \in Slots : U.ptr[s] # NoPtr =>
                 U.type[s] = K[U.ptr[s]] /\ U.type[s] \in Types
        BY <2>5, <3>4 DEF Good
    <3> QED BY <2>2, <3>2, <3>3, <3>5 DEF Good
  <2> QED BY <2>1, <2>2, <2>3, <2>5, <2>6
<1> QED BY <1>1, <1>2

(* slot_clear *)
LEMMA ClearGood ==
    ASSUME NEW T, NEW K, NEW O, Heap(K, O), Good(T, K, O),
           NEW s0 \in Slots, T.ptr[s0] # NoPtr
    PROVE  /\ Good(Clear(T, s0), K, O)
           /\ \A s \in Slots : Clear(T, s0).ptr[s] = IF s = s0 THEN NoPtr ELSE T.ptr[s]
           /\ Later(T, Clear(T, s0))
<1> DEFINE U == Clear(T, s0)
           p == T.ptr[s0]
<1>1. p \in Ptr /\ T.refs[p] \in Nat /\ T.refs[p] >= 1
  <2>1. p \in Ptr /\ s0 \in SlotsOf(T, p)
      BY DEF Good, TableType, SlotsOf
  <2> HIDE DEF p
  <2> QED BY <2>1 DEF Good, TableType
<1>2. /\ T.gen[s0] \in 0 .. (GenMod - 1)
      /\ NextGen(T.gen[s0]) \in 0 .. (GenMod - 1)
      /\ NextGen(T.gen[s0]) = (T.clears[s0] + 1) % GenMod
  <2>1. T.clears[s0] \in Nat /\ T.gen[s0] = T.clears[s0] % GenMod
      BY DEF Good, TableType
  <2> QED BY <2>1, NextGenFits, DivMod
<1>3. /\ U \in TableType /\ U.ptr = [T.ptr EXCEPT ![s0] = NoPtr]
      /\ U.type = [T.type EXCEPT ![s0] = "none"]
      /\ U.gen = [T.gen EXCEPT ![s0] = NextGen(@)]
      /\ U.clears = [T.clears EXCEPT ![s0] = @ + 1]
      /\ U.refs = [T.refs EXCEPT ![p] = @ - 1]
    BY <1>1, <1>2 DEF Good, TableType, Clear
<1>4. \A s \in Slots : U.ptr[s] = IF s = s0 THEN NoPtr ELSE T.ptr[s]
    BY <1>3 DEF Good, TableType
<1> HIDE DEF U
<1>5. \A q \in Ptr : SlotsOf(U, q) = IF q = p THEN {} ELSE SlotsOf(T, q)
    BY <1>1, <1>4 DEF Good, SlotsOf
<1>6. SlotsOf(T, p) # {}
    BY DEF SlotsOf
<1> HIDE DEF p
<1>7. \A q \in Ptr : U.refs[q] = (IF O[q] THEN 1 ELSE 0)
                                   + (IF SlotsOf(U, q) # {} THEN 1 ELSE 0)
    BY <1>1, <1>3, <1>5, <1>6 DEF Good, TableType
<1>8. \A s \in Slots : U.gen[s] = U.clears[s] % GenMod
    BY <1>2, <1>3 DEF Good, TableType
<1>9. \A s \in Slots : U.type[s] = IF s = s0 THEN "none" ELSE T.type[s]
    BY <1>3 DEF Good, TableType
<1>10. Good(U, K, O)
    BY <1>3, <1>4, <1>7, <1>8, <1>9 DEF Good
<1>11. Later(T, U)
    BY <1>3, <1>4 DEF Good, TableType, Later
<1> QED BY <1>4, <1>10, <1>11 DEF U

(* handle_drop_ptr *)
LEMMA DropGood ==
    ASSUME NEW T, NEW K, NEW O, Heap(K, O), Good(T, K, O), NEW p \in Ptr
    PROVE  /\ Good(DropPtr(T, p), K, O)
           /\ \A s \in Slots :
                  DropPtr(T, p).ptr[s] = IF T.ptr[s] = p THEN NoPtr ELSE T.ptr[s]
           /\ Later(T, DropPtr(T, p))
<1>1. CASE SlotsOf(T, p) = {}
  <2>1. DropPtr(T, p) = T /\ \A s \in Slots : T.ptr[s] # p
      BY <1>1 DEF DropPtr, SlotsOf
  <2> QED BY <2>1 DEF Later, Good, TableType
<1>2. CASE SlotsOf(T, p) # {}
  <2> DEFINE s0 == Lowest(SlotsOf(T, p))
  <2>1. s0 \in Slots /\ T.ptr[s0] = p
    <3>1. SlotsOf(T, p) \in SUBSET Slots
        BY DEF SlotsOf
    <3>2. s0 \in SlotsOf(T, p)
        BY <1>2, <3>1, LowestInSet
    <3> QED BY <3>2 DEF SlotsOf
  <2>2. DropPtr(T, p) = Clear(T, s0)
      BY <1>2 DEF DropPtr
  <2> HIDE DEF s0
  <2>3. p # NoPtr
      BY HandleTableAssumption
  <2>4. /\ Good(Clear(T, s0), K, O)
        /\ \A s \in Slots : Clear(T, s0).ptr[s] = IF s = s0 THEN NoPtr ELSE T.ptr[s]
        /\ Later(T, Clear(T, s0))
      BY <2>1, <2>3, ClearGood
  <2>5. \A s \in Slots : T.ptr[s] = p <=> s = s0
      BY <2>1, <2>3 DEF Good
  <2> QED BY <2>2, <2>4, <2>5
<1> QED BY <1>1, <1>2

(* Emitting an event about call c of agent u. *)
LEMMA EmitGood ==
    ASSUME NEW T, NEW K, NEW O, Heap(K, O), Good(T, K, O),
           NEW u \in Ptr, NEW c \in Ptr, K[u] = "ua", K[c] = "call"
    PROVE  /\ Good(Emit(T, u, c), K, O)
           /\ Later(T, Emit(T, u, c))
           /\ \A s \in Slots : T.ptr[s] # NoPtr => Emit(T, u, c).ptr[s] = T.ptr[s]
           /\ \A s \in Slots : Emit(T, u, c).ptr[s] \in {T.ptr[s], u, c}
<1> DEFINE U == Create(T, u, "ua")
           V == Create(U, c, "call")
<1>1. /\ Good(U, K, O) /\ U.clears = T.clears
      /\ \A s \in Slots : T.ptr[s] # NoPtr => U.ptr[s] = T.ptr[s]
      /\ \A s \in Slots : U.ptr[s] \in {T.ptr[s], u}
    BY CreateGood DEF Types
<1> HIDE DEF U
<1>2. /\ Good(V, K, O) /\ V.clears = U.clears
      /\ \A s \in Slots : U.ptr[s] # NoPtr => V.ptr[s] = U.ptr[s]
      /\ \A s \in Slots : V.ptr[s] \in {U.ptr[s], c}
    BY <1>1, CreateGood DEF Types
<1>3. Emit(T, u, c) = V
    BY DEF Emit, V, U
<1> HIDE DEF V
<1>4. T.clears \in [Slots -> Nat]
    BY DEF Good, TableType
<1> QED BY <1>1, <1>2, <1>3, <1>4 DEF Later

(* A slot that was not cleared in two steps was not cleared in either. *)
LEMMA LaterTransitive ==
    ASSUME NEW T \in TableType, NEW U \in TableType, NEW V \in TableType,
           Later(T, U), Later(U, V)
    PROVE  Later(T, V)
<1>1. SUFFICES ASSUME NEW s \in Slots
               PROVE  /\ T.clears[s] <= V.clears[s]
                      /\ V.clears[s] = T.clears[s] /\ T.ptr[s] # NoPtr
                             => V.ptr[s] = T.ptr[s]
    BY DEF Later
<1>2. T.clears[s] \in Nat /\ U.clears[s] \in Nat /\ V.clears[s] \in Nat
    BY DEF TableType
<1>3. T.clears[s] <= U.clears[s] /\ U.clears[s] <= V.clears[s]
    BY DEF Later
<1>4. V.clears[s] = T.clears[s] => U.clears[s] = T.clears[s] /\ V.clears[s] = U.clears[s]
    BY <1>2, <1>3
<1> QED BY <1>2, <1>3, <1>4 DEF Later

(* The end of a call the stack, or the running handler, holds. *)
LEMMA ClosedGood ==
    ASSUME NEW T, NEW K, NEW O, Heap(K, O), Good(T, K, O),
           NEW u \in Ptr, NEW c \in Ptr, K[u] = "ua", K[c] = "call", O[c]
    PROVE  /\ Good(Closed(T, u, c), K, [O EXCEPT ![c] = FALSE])
           /\ Later(T, Closed(T, u, c)) /\ Later(Emit(T, u, c), Closed(T, u, c))
           /\ \A s \in Slots : T.ptr[s] \notin {NoPtr, c} => Closed(T, u, c).ptr[s] = T.ptr[s]
           /\ \A s \in Slots : Closed(T, u, c).ptr[s] \in {T.ptr[s], u, NoPtr}
           /\ \A s \in Slots : Closed(T, u, c).ptr[s] # c
<1> DEFINE E == Emit(T, u, c)
           D == DropPtr(E, c)
           V == Deref(D, c)
<1>1. /\ Good(E, K, O) /\ Later(T, E)
      /\ \A s \in Slots : T.ptr[s] # NoPtr => E.ptr[s] = T.ptr[s]
      /\ \A s \in Slots : E.ptr[s] \in {T.ptr[s], u, c}
    BY EmitGood
<1> HIDE DEF E
<1>2. /\ Good(D, K, O) /\ Later(E, D)
      /\ \A s \in Slots : D.ptr[s] = IF E.ptr[s] = c THEN NoPtr ELSE E.ptr[s]
    BY <1>1, DropGood
<1> HIDE DEF D
<1>3. /\ Good(V, K, [O EXCEPT ![c] = FALSE])
      /\ V.ptr = D.ptr /\ V.clears = D.clears
    BY <1>2, DerefGood
<1>4. Closed(T, u, c) = V
    BY DEF Closed, V, D, E
<1> HIDE DEF V
<1>5. Later(E, V)
    BY <1>2, <1>3 DEF Later
<1>6. Later(T, V)
  <2>1. T \in TableType /\ E \in TableType /\ V \in TableType
      BY <1>1, <1>3 DEF Good
  <2> QED BY <2>1, <1>1, <1>5, LaterTransitive
<1>7. c # NoPtr /\ u # c
    BY HandleTableAssumption
<1>8. /\ \A s \in Slots : T.ptr[s] \notin {NoPtr, c} => V.ptr[s] = T.ptr[s]
      /\ \A s \in Slots : V.ptr[s] \in {T.ptr[s], u, NoPtr}
      /\ \A s \in Slots : V.ptr[s] # c
    BY <1>1, <1>2, <1>3, <1>7
<1>9. Emit(T, u, c) = E
    BY DEF E
<1> QED BY <1>3, <1>4, <1>5, <1>6, <1>8, <1>9

(* A new object at a free address, referenced by the handler that made it. *)
LEMMA NewGood ==
    ASSUME NEW T, NEW K, NEW O, Heap(K, O), Good(T, K, O), NEW p \in Ptr,
           NEW k \in Types, T.refs[p] = 0
    PROVE  /\ ~O[p] /\ \A s \in Slots : T.ptr[s] # p
           /\ Heap([K EXCEPT ![p] = k], [O EXCEPT ![p] = TRUE])
           /\ Good(Ref(T, p), [K EXCEPT ![p] = k], [O EXCEPT ![p] = TRUE])
           /\ Ref(T, p).ptr = T.ptr /\ Ref(T, p).clears = T.clears
<1> DEFINE L == [K EXCEPT ![p] = k]
<1>1. ~O[p] /\ SlotsOf(T, p) = {}
    BY DEF Good
<1>2. \A s \in Slots : T.ptr[s] # p
    BY <1>1 DEF SlotsOf
<1>3. Heap(L, O) /\ Heap(L, [O EXCEPT ![p] = TRUE])
    BY DEF Heap
<1>4. \A s \in Slots : T.ptr[s] # NoPtr => L[T.ptr[s]] = K[T.ptr[s]]
    BY <1>2 DEF Heap, Good, TableType
<1> HIDE DEF L
<1>5. Good(T, L, O)
    BY <1>4 DEF Good
<1>6. /\ Good(Ref(T, p), L, [O EXCEPT ![p] = TRUE])
      /\ Ref(T, p).ptr = T.ptr /\ Ref(T, p).clears = T.clears
    BY <1>1, <1>3, <1>5, RefGood
<1> QED BY <1>1, <1>2, <1>3, <1>6 DEF L

(* handle_drain, with the stack's own references given back. *)
LEMMA DrainGood ==
    ASSUME NEW T, NEW K, NEW O, Heap(K, O), Good(T, K, O)
    PROVE  /\ Good(Unwind(T, O), K, [p \in Ptr |-> FALSE])
           /\ Later(T, Unwind(T, O))
           /\ \A s \in Slots : Unwind(T, O).ptr[s] = NoPtr
<1> DEFINE used(s) == T.ptr[s] # NoPtr
           U == Unwind(T, O)
<1>1. /\ T.gen \in [Slots -> 0 .. (GenMod - 1)] /\ T.clears \in [Slots -> Nat]
      /\ T.refs \in [Ptr -> Nat]
      /\ \A s \in Slots : T.gen[s] = T.clears[s] % GenMod
      /\ \A p \in Ptr : T.refs[p] = (IF O[p] THEN 1 ELSE 0)
                                      + (IF SlotsOf(T, p) # {} THEN 1 ELSE 0)
    BY DEF Good, TableType
<1>2. /\ U.ptr = [s \in Slots |-> NoPtr] /\ U.type = [s \in Slots |-> "none"]
      /\ U.gen = [s \in Slots |-> IF used(s) THEN NextGen(T.gen[s]) ELSE T.gen[s]]
      /\ U.clears = [s \in Slots |-> IF used(s) THEN T.clears[s] + 1 ELSE T.clears[s]]
      /\ U = [ptr |-> U.ptr, type |-> U.type, gen |-> U.gen, clears |-> U.clears,
              refs |-> U.refs]
    BY DEF Unwind, Drain, WithRefs
<1>3. U.refs = [p \in Ptr |-> 0]
  <2>1. Drain(T).refs = [p \in Ptr |-> IF SlotsOf(T, p) # {} THEN T.refs[p] - 1
                                                           ELSE T.refs[p]]
      BY DEF Drain
  <2>2. U.refs = [p \in Ptr |-> IF O[p] THEN Drain(T).refs[p] - 1 ELSE Drain(T).refs[p]]
      BY DEF Unwind, WithRefs
  <2>3. \A p \in Ptr : (IF O[p] THEN Drain(T).refs[p] - 1 ELSE Drain(T).refs[p]) = 0
      BY <1>1, <2>1
  <2> QED BY <2>2, <2>3
<1> HIDE DEF U
<1>4. \A s \in Slots : /\ NextGen(T.gen[s]) \in 0 .. (GenMod - 1)
                       /\ NextGen(T.gen[s]) = (T.clears[s] + 1) % GenMod
    BY <1>1, NextGenFits
<1>5. U.clears \in [Slots -> Nat] /\ U.gen \in [Slots -> 0 .. (GenMod - 1)]
    BY <1>1, <1>2, <1>4
<1>6. U \in TableType
    BY <1>2, <1>3, <1>5 DEF TableType
<1>7. \A s \in Slots : U.gen[s] = U.clears[s] % GenMod
    BY <1>1, <1>2, <1>4
<1>8. \A p \in Ptr : SlotsOf(U, p) = {}
    BY <1>2, HandleTableAssumption DEF SlotsOf
<1>9. Good(U, K, [p \in Ptr |-> FALSE])
    BY <1>2, <1>3, <1>6, <1>7, <1>8 DEF Good
<1>10. Later(T, U)
    BY <1>1, <1>2 DEF Later
<1> QED BY <1>2, <1>9, <1>10 DEF U

-----------------------------------------------------------------------------
(* Handles.                                                                *)

(* A handle that fitted the table fits every later table. *)
LEMMA IssuedLater ==
    ASSUME NEW T \in TableType, NEW U \in TableType, NEW i, NEW S,
           IssuedOK(T, i, S), Later(T, U)
    PROVE  IssuedOK(U, i, S)
<1>1. SUFFICES ASSUME NEW h \in S
               PROVE  /\ h.clears <= U.clears[h.slot]
                      /\ h.clears = U.clears[h.slot] =>
                             U.ptr[h.slot] # NoPtr /\ i[U.ptr[h.slot]] = h.inc
    BY DEF IssuedOK
<1> DEFINE s == h.slot
<1>2. /\ s \in Slots /\ h.clears \in Nat /\ h.clears <= T.clears[s]
      /\ h.clears = T.clears[s] => T.ptr[s] # NoPtr /\ i[T.ptr[s]] = h.inc
    BY DEF IssuedOK
<1>3. T.clears[s] \in Nat /\ U.clears[s] \in Nat
    BY <1>2 DEF TableType
<1>4. /\ T.clears[s] <= U.clears[s]
      /\ U.clears[s] = T.clears[s] /\ T.ptr[s] # NoPtr => U.ptr[s] = T.ptr[s]
    BY <1>2 DEF Later
<1> HIDE DEF s
<1>5. h.clears = U.clears[s] => h.clears = T.clears[s] /\ U.clears[s] = T.clears[s]
    BY <1>2, <1>3, <1>4
<1>6. h.clears <= U.clears[s]
    BY <1>2, <1>3, <1>4
<1> QED BY <1>2, <1>4, <1>5, <1>6 DEF s

(* The handles in a payload fit the table they were read from. *)
LEMMA SeenIssued ==
    ASSUME NEW T, NEW K, NEW O, Heap(K, O), Good(T, K, O),
           NEW i \in [Ptr -> Nat], NEW ps \in SUBSET Ptr
    PROVE  IssuedOK(T, i, Seen(T, i, ps))
<1>1. SUFFICES ASSUME NEW s \in Slots, T.ptr[s] \in ps,
                      NEW h, h = [slot |-> s, gen |-> T.gen[s], clears |-> T.clears[s],
                                  type |-> T.type[s], inc |-> i[T.ptr[s]]]
               PROVE  /\ h \in [slot : Slots, gen : 0 .. (GenMod - 1), clears : Nat,
                                type : Types, inc : Nat]
                      /\ h.gen = h.clears % GenMod
                      /\ h.clears <= T.clears[h.slot]
                      /\ h.clears = T.clears[h.slot] =>
                             T.ptr[h.slot] # NoPtr /\ i[T.ptr[h.slot]] = h.inc
    BY DEF Seen, IssuedOK
<1>2. T.ptr[s] \in Ptr /\ T.ptr[s] # NoPtr
    BY <1>1, HandleTableAssumption
<1>3. /\ T.gen[s] \in 0 .. (GenMod - 1) /\ T.clears[s] \in Nat /\ T.type[s] \in Types
      /\ i[T.ptr[s]] \in Nat /\ T.gen[s] = T.clears[s] % GenMod
    BY <1>2 DEF Good, TableType
<1> QED BY <1>1, <1>2, <1>3

(* Naming a new object changes no handle of another. *)
LEMMA IssuedNew ==
    ASSUME NEW T, NEW i \in [Ptr -> Nat], NEW S, IssuedOK(T, i, S), T \in TableType,
           NEW p \in Ptr, NEW n \in Nat, \A s \in Slots : T.ptr[s] # p
    PROVE  IssuedOK(T, [i EXCEPT ![p] = n], S)
<1>1. \A h \in S : h.slot \in Slots
    BY DEF IssuedOK
<1>2. \A s \in Slots : T.ptr[s] # NoPtr => [i EXCEPT ![p] = n][T.ptr[s]] = i[T.ptr[s]]
    BY DEF TableType
<1> QED BY <1>1, <1>2 DEF IssuedOK

LEMMA IssuedUnion ==
    ASSUME NEW T, NEW i, NEW R, NEW S, IssuedOK(T, i, R), IssuedOK(T, i, S)
    PROVE  IssuedOK(T, i, R \cup S)
BY DEF IssuedOK

-----------------------------------------------------------------------------
(* The inductive invariant: the table is good between handlers; a call the *)
(* stack owns belongs to a user agent that still has its slot; a call with *)
(* a slot is one the stack owns, or one that was not connected; every      *)
(* handle ever issued fits the table.                                      *)
HeapType(i, H) == i \in [Ptr -> Nat] /\ H \in [Ptr -> Ptr \cup {NoPtr}]

Linked(T, K, O, H) ==
    \A c \in Ptr : O[c] => /\ K[c] = "call"
                           /\ H[c] \in Ptr /\ K[H[c]] = "ua"
                           /\ \E s \in Slots : T.ptr[s] = H[c]

Held(T, K, O, F) ==
    \A s \in Slots :
        T.ptr[s] # NoPtr /\ K[T.ptr[s]] = "call" => O[T.ptr[s]] \/ T.ptr[s] \in F

State(T, K, O, H, F) ==
    Good(T, K, O) /\ Heap(K, O) /\ Linked(T, K, O, H) /\ Held(T, K, O, F)

Inv ==
    /\ State(table, kind, owned, home, failed)
    /\ HeapType(inc, home)
    /\ drain \in BOOLEAN /\ allocs \in Nat /\ failed \subseteq Ptr
    /\ IssuedOK(table, inc, issued)

(* An object only its slot keeps, or nothing when the table was full. *)
LEMMA ReleaseStep ==
    ASSUME Inv, NEW p \in Ptr, NEW k \in {"ua", "test"},
           Allocate(p, k, FALSE, NoPtr), drain' = drain, failed' = failed,
           table' = Deref(Create(Ref(table, p), p, k), p),
           issued' = issued \cup Seen(Create(Ref(table, p), p, k), inc', {p})
    PROVE  Inv'
<1> DEFINE O1 == [owned EXCEPT ![p] = TRUE]
           R  == Ref(table, p)
           N  == Create(R, p, k)
<1>1. /\ Good(table, kind, owned) /\ Heap(kind, owned) /\ table \in TableType
      /\ Linked(table, kind, owned, home) /\ Held(table, kind, owned, failed)
      /\ HeapType(inc, home) /\ IssuedOK(table, inc, issued) /\ allocs \in Nat
    BY DEF Inv, State, Good
<1>2. /\ table.refs[p] = 0 /\ k \in Types
      /\ kind' = [kind EXCEPT ![p] = k] /\ inc' = [inc EXCEPT ![p] = allocs + 1]
      /\ owned' = [owned EXCEPT ![p] = FALSE] /\ home' = [home EXCEPT ![p] = NoPtr]
      /\ allocs' = allocs + 1
    BY DEF Allocate, Types
<1>3. /\ ~owned[p] /\ \A s \in Slots : table.ptr[s] # p
      /\ Heap(kind', O1) /\ Good(R, kind', O1)
      /\ R.ptr = table.ptr /\ R.clears = table.clears
    BY <1>1, <1>2, NewGood, ZenonT(60)
<1>4. owned' = owned /\ [O1 EXCEPT ![p] = FALSE] = owned /\ O1[p] /\ kind'[p] = k
    BY <1>1, <1>2, <1>3 DEF Heap
<1> HIDE DEF O1, R
<1>5. /\ Good(N, kind', O1) /\ N.clears = R.clears
      /\ \A s \in Slots : R.ptr[s] # NoPtr => N.ptr[s] = R.ptr[s]
      /\ \A s \in Slots : N.ptr[s] \in {R.ptr[s], p}
  <2>1. Heap(kind', O1) /\ Good(R, kind', O1) /\ k \in Types /\ kind'[p] = k
      BY <1>2, <1>3, <1>4
  <2> QED BY <2>1, CreateGood
<1> HIDE DEF N
<1>6. /\ Good(Deref(N, p), kind', owned)
      /\ Deref(N, p).ptr = N.ptr /\ Deref(N, p).clears = N.clears
  <2>1. /\ Good(Deref(N, p), kind', [O1 EXCEPT ![p] = FALSE])
        /\ Deref(N, p).ptr = N.ptr /\ Deref(N, p).clears = N.clears
      BY <1>3, <1>4, <1>5, DerefGood
  <2> QED BY <2>1, <1>4
<1>7. table' = Deref(N, p) /\ issued' = issued \cup Seen(N, inc', {p})
    BY DEF N, R
<1>8. /\ Good(table', kind', owned') /\ table' \in TableType /\ N \in TableType
      /\ table.clears \in [Slots -> Nat]
    BY <1>1, <1>4, <1>5, <1>6, <1>7 DEF Good, TableType
<1>9. Heap(kind', owned') /\ HeapType(inc', home')
    BY <1>1, <1>2, <1>4, HandleTableAssumption DEF Heap, HeapType
<1>10. \A s \in Slots : table'.ptr[s] \in {table.ptr[s], p}
                        /\ (table.ptr[s] # NoPtr => table'.ptr[s] = table.ptr[s])
    BY <1>3, <1>5, <1>6, <1>7
<1>11. Linked(table', kind', owned', home')
  <2>1. SUFFICES ASSUME NEW c \in Ptr, owned[c]
                 PROVE  /\ kind'[c] = "call"
                        /\ home'[c] \in Ptr /\ kind'[home'[c]] = "ua"
                        /\ \E s \in Slots : table'.ptr[s] = home'[c]
      BY <1>4 DEF Linked
  <2>2. PICK s \in Slots : /\ kind[c] = "call" /\ home[c] \in Ptr /\ kind[home[c]] = "ua"
                           /\ table.ptr[s] = home[c]
      BY <1>1, <2>1 DEF Linked
  <2>3. c # p /\ home[c] # p /\ home[c] # NoPtr
      BY <1>3, <2>1, <2>2, HandleTableAssumption
  <2>4. kind'[c] = kind[c] /\ home'[c] = home[c] /\ kind'[home[c]] = kind[home[c]]
      BY <1>1, <1>2, <2>2, <2>3 DEF Heap, HeapType
  <2>5. table'.ptr[s] = home[c]
      BY <1>10, <2>2, <2>3
  <2> QED BY <2>2, <2>4, <2>5
<1>12. Held(table', kind', owned', failed')
  <2>1. SUFFICES ASSUME NEW s \in Slots, table'.ptr[s] # NoPtr, kind'[table'.ptr[s]] = "call"
                 PROVE  owned[table'.ptr[s]] \/ table'.ptr[s] \in failed
      BY <1>4 DEF Held
  <2>2. table'.ptr[s] # p /\ table'.ptr[s] = table.ptr[s]
      BY <1>4, <1>10, <2>1
  <2>3. table.ptr[s] \in Ptr /\ kind'[table.ptr[s]] = kind[table.ptr[s]]
      BY <1>1, <1>2, <2>1, <2>2 DEF TableType, Heap
  <2> QED BY <1>1, <2>1, <2>2, <2>3 DEF Held
<1>13. IssuedOK(table', inc', issued')
  <2>1. inc \in [Ptr -> Nat] /\ inc' \in [Ptr -> Nat]
      BY <1>1, <1>9 DEF HeapType
  <2>2. IssuedOK(table, inc', issued)
      BY <1>1, <1>2, <1>3, <2>1, IssuedNew
  <2>3. Later(table, N) /\ Later(N, table')
      BY <1>3, <1>5, <1>6, <1>7, <1>8 DEF Later
  <2>4. IssuedOK(N, inc', issued)
      BY <1>1, <1>8, <2>2, <2>3, IssuedLater
  <2>5. IssuedOK(N, inc', Seen(N, inc', {p}))
      BY <1>3, <1>5, <2>1, SeenIssued
  <2>6. IssuedOK(N, inc', issued')
      BY <1>7, <2>4, <2>5, IssuedUnion
  <2> QED BY <1>8, <2>3, <2>6, IssuedLater
<1> QED BY <1>1, <1>2, <1>8, <1>9, <1>11, <1>12, <1>13 DEF Inv, State

(* The table after a call p of agent u was made, and ended at once unless  *)
(* the stack keeps it: X is the table its end is emitted from.             *)
AfterCall(R, X, u, p, keep) == IF keep THEN Emit(R, u, p) ELSE Closed(X, u, p)

LEMMA NewCallTable ==
    ASSUME NEW R, NEW K, NEW O, Heap(K, O), Good(R, K, O), NEW u \in Ptr, NEW p \in Ptr,
           K[u] = "ua", K[p] = "call", O[p], \A s \in Slots : R.ptr[s] # p,
           NEW keep \in BOOLEAN, NEW X \in {R, Emit(R, u, p)}
    PROVE  /\ Good(Emit(R, u, p), K, O)
           /\ Good(AfterCall(R, X, u, p, keep), K, [O EXCEPT ![p] = keep])
           /\ Later(R, Emit(R, u, p)) /\ Later(Emit(R, u, p), AfterCall(R, X, u, p, keep))
           /\ \A s \in Slots : /\ AfterCall(R, X, u, p, keep).ptr[s] \in {R.ptr[s], u, p, NoPtr}
                               /\ R.ptr[s] # NoPtr => AfterCall(R, X, u, p, keep).ptr[s] = R.ptr[s]
                               /\ ~keep => AfterCall(R, X, u, p, keep).ptr[s] # p
<1> DEFINE E == Emit(R, u, p)
           V == AfterCall(R, X, u, p, keep)
<1>1. /\ Good(E, K, O) /\ Later(R, E)
      /\ \A s \in Slots : R.ptr[s] # NoPtr => E.ptr[s] = R.ptr[s]
      /\ \A s \in Slots : E.ptr[s] \in {R.ptr[s], u, p}
    BY EmitGood
<1>2. X = R \/ X = E
    OBVIOUS
<1>3. CASE keep
  <2>1. [O EXCEPT ![p] = keep] = O
      BY <1>3 DEF Heap
  <2>2. E.clears \in [Slots -> Nat]
      BY <1>1 DEF Good, TableType
  <2>3. V = E
      BY <1>3 DEF AfterCall
  <2> HIDE DEF E
  <2>4. Later(E, V)
      BY <2>2, <2>3 DEF Later
  <2> QED BY <1>1, <1>3, <2>1, <2>3, <2>4 DEF E
<1>4. CASE ~keep
  <2>1. Good(X, K, O)
      BY <1>1, <1>2
  <2>2. /\ Good(Closed(X, u, p), K, [O EXCEPT ![p] = FALSE])
        /\ Later(X, Closed(X, u, p)) /\ Later(Emit(X, u, p), Closed(X, u, p))
        /\ \A s \in Slots : X.ptr[s] \notin {NoPtr, p} => Closed(X, u, p).ptr[s] = X.ptr[s]
        /\ \A s \in Slots : Closed(X, u, p).ptr[s] \in {X.ptr[s], u, NoPtr}
        /\ \A s \in Slots : Closed(X, u, p).ptr[s] # p
      BY <2>1, ClosedGood
  <2>3. V = Closed(X, u, p) /\ keep = FALSE
      BY <1>4 DEF AfterCall
  <2>4. Later(E, V)
      BY <1>2, <2>2, <2>3
  <2> HIDE DEF E
  <2>5. \A s \in Slots : /\ X.ptr[s] \in {R.ptr[s], u, p}
                         /\ R.ptr[s] # NoPtr => X.ptr[s] = R.ptr[s]
      BY <1>1, <1>2
  <2>6. \A s \in Slots : /\ V.ptr[s] \in {R.ptr[s], u, p, NoPtr}
                         /\ R.ptr[s] # NoPtr => V.ptr[s] = R.ptr[s]
                         /\ V.ptr[s] # p
      BY <2>2, <2>3, <2>5
  <2> QED BY <1>1, <2>2, <2>3, <2>4, <2>6 DEF E
<1> QED BY <1>3, <1>4

LEMMA NewCallStep ==
    ASSUME Inv, NEW u \in Ptr, NEW p \in Ptr, NEW keep \in BOOLEAN,
           kind[u] = "ua", \E s \in Slots : table.ptr[s] = u,
           Allocate(p, "call", keep, u), drain' = drain, failed' = failed,
           NEW X \in {Ref(table, p), Emit(Ref(table, p), u, p)},
           table' = AfterCall(Ref(table, p), X, u, p, keep),
           issued' = issued \cup Seen(Emit(Ref(table, p), u, p), inc', {u, p})
    PROVE  Inv'
<1> DEFINE O1 == [owned EXCEPT ![p] = TRUE]
           RT  == Ref(table, p)
           ET  == Emit(RT, u, p)
<1>1. /\ Good(table, kind, owned) /\ Heap(kind, owned) /\ table \in TableType
      /\ Linked(table, kind, owned, home) /\ Held(table, kind, owned, failed)
      /\ HeapType(inc, home) /\ IssuedOK(table, inc, issued) /\ allocs \in Nat
    BY DEF Inv, State, Good
<1>2. /\ table.refs[p] = 0 /\ "call" \in Types
      /\ kind' = [kind EXCEPT ![p] = "call"] /\ inc' = [inc EXCEPT ![p] = allocs + 1]
      /\ owned' = [owned EXCEPT ![p] = keep] /\ home' = [home EXCEPT ![p] = u]
      /\ allocs' = allocs + 1
    BY DEF Allocate, Types
<1>3. /\ ~owned[p] /\ \A s \in Slots : table.ptr[s] # p
      /\ Heap(kind', O1) /\ Good(RT, kind', O1)
      /\ RT.ptr = table.ptr /\ RT.clears = table.clears
  <2> DEFINE L == [kind EXCEPT ![p] = "call"]
  <2>1. /\ ~owned[p] /\ \A s \in Slots : table.ptr[s] # p
        /\ Heap(L, [owned EXCEPT ![p] = TRUE])
        /\ Good(Ref(table, p), L, [owned EXCEPT ![p] = TRUE])
        /\ Ref(table, p).ptr = table.ptr /\ Ref(table, p).clears = table.clears
      BY <1>1, <1>2, NewGood
  <2> QED BY <1>2, <2>1
<1>4. /\ [O1 EXCEPT ![p] = keep] = owned' /\ O1[p] /\ kind'[p] = "call"
      /\ u # p /\ u # NoPtr /\ kind'[u] = "ua"
    BY <1>1, <1>2, <1>3, HandleTableAssumption DEF Heap
<1>5. /\ X \in {RT, Emit(RT, u, p)} /\ ET = Emit(RT, u, p)
      /\ table' = AfterCall(RT, X, u, p, keep)
    OBVIOUS
<1>7. issued' = issued \cup Seen(ET, inc', {u, p})
    OBVIOUS
<1> HIDE DEF O1, RT, ET
<1>6. /\ Good(ET, kind', O1) /\ Good(table', kind', owned')
      /\ Later(RT, ET) /\ Later(ET, table')
      /\ \A s \in Slots : /\ table'.ptr[s] \in {RT.ptr[s], u, p, NoPtr}
                          /\ RT.ptr[s] # NoPtr => table'.ptr[s] = RT.ptr[s]
                          /\ ~keep => table'.ptr[s] # p
  <2>1. /\ Heap(kind', O1) /\ Good(RT, kind', O1) /\ kind'[u] = "ua" /\ kind'[p] = "call"
        /\ O1[p] /\ \A s \in Slots : RT.ptr[s] # p
      BY <1>3, <1>4
  <2>2. X \in {RT, Emit(RT, u, p)}
      BY <1>5
  <2> DEFINE V == AfterCall(RT, X, u, p, keep)
  <2>3. /\ Good(Emit(RT, u, p), kind', O1) /\ Good(V, kind', [O1 EXCEPT ![p] = keep])
        /\ Later(RT, Emit(RT, u, p)) /\ Later(Emit(RT, u, p), V)
        /\ \A s \in Slots : /\ V.ptr[s] \in {RT.ptr[s], u, p, NoPtr}
                            /\ RT.ptr[s] # NoPtr => V.ptr[s] = RT.ptr[s]
                            /\ ~keep => V.ptr[s] # p
      BY <2>1, <2>2, NewCallTable
  <2>4. V = table'
      BY <1>5
  <2> HIDE DEF V
  <2> QED BY <1>4, <1>5, <2>3, <2>4
<1>8. \A s \in Slots : /\ table'.ptr[s] \in {table.ptr[s], u, p, NoPtr}
                       /\ table.ptr[s] # NoPtr => table'.ptr[s] = table.ptr[s]
                       /\ ~keep => table'.ptr[s] # p
    BY <1>3, <1>6
<1>9. Heap(kind', owned') /\ HeapType(inc', home')
    BY <1>1, <1>2 DEF Heap, HeapType
<1>10. Linked(table', kind', owned', home')
  <2>1. SUFFICES ASSUME NEW c \in Ptr, owned'[c]
                 PROVE  /\ kind'[c] = "call"
                        /\ home'[c] \in Ptr /\ kind'[home'[c]] = "ua"
                        /\ \E s \in Slots : table'.ptr[s] = home'[c]
      BY DEF Linked
  <2>2. CASE c = p
    <3>1. home'[p] = u
        BY <1>1, <1>2 DEF HeapType
    <3>2. PICK s \in Slots : table.ptr[s] = u
        OBVIOUS
    <3>3. table'.ptr[s] = u
        BY <1>4, <1>8, <3>2
    <3> QED BY <1>4, <2>2, <3>1, <3>3
  <2>3. CASE c # p
    <3>1. owned[c]
        BY <1>1, <1>2, <2>1, <2>3 DEF Heap
    <3>2. PICK s \in Slots : /\ kind[c] = "call" /\ home[c] \in Ptr /\ kind[home[c]] = "ua"
                             /\ table.ptr[s] = home[c]
        BY <1>1, <3>1 DEF Linked
    <3>3. home[c] # p /\ home[c] # NoPtr
        BY <1>3, <3>2, HandleTableAssumption
    <3>4. kind'[c] = kind[c] /\ home'[c] = home[c] /\ kind'[home[c]] = kind[home[c]]
        BY <1>1, <1>2, <2>3, <3>2, <3>3 DEF Heap, HeapType
    <3>5. table'.ptr[s] = home[c]
        BY <1>8, <3>2, <3>3
    <3> QED BY <3>2, <3>4, <3>5
  <2> QED BY <2>2, <2>3
<1>11. Held(table', kind', owned', failed')
  <2>1. SUFFICES ASSUME NEW s \in Slots, table'.ptr[s] # NoPtr, kind'[table'.ptr[s]] = "call"
                 PROVE  owned'[table'.ptr[s]] \/ table'.ptr[s] \in failed
      BY DEF Held
  <2>2. table'.ptr[s] = p \/ table'.ptr[s] = table.ptr[s]
      BY <1>4, <1>8, <2>1
  <2>3. CASE table'.ptr[s] = p
    <3>1. keep
        BY <1>8, <2>3
    <3> QED BY <1>1, <1>2, <2>3, <3>1 DEF Heap
  <2>4. CASE table'.ptr[s] = table.ptr[s]
    <3>1. table.ptr[s] # p /\ table.ptr[s] \in Ptr
        BY <1>1, <1>3, <2>1, <2>4 DEF TableType
    <3>2. kind'[table.ptr[s]] = kind[table.ptr[s]] /\ owned'[table.ptr[s]] = owned[table.ptr[s]]
        BY <1>1, <1>2, <3>1 DEF Heap
    <3> QED BY <1>1, <2>1, <2>4, <3>2 DEF Held
  <2> QED BY <2>2, <2>3, <2>4
<1>12. IssuedOK(table', inc', issued')
  <2>1. inc \in [Ptr -> Nat] /\ inc' \in [Ptr -> Nat]
      BY <1>1, <1>9 DEF HeapType
  <2>2. IssuedOK(table, inc', issued)
      BY <1>1, <1>2, <1>3, <2>1, IssuedNew
  <2>3. Later(table, ET) /\ ET \in TableType /\ table' \in TableType
      BY <1>3, <1>6 DEF Later, Good
  <2>4. IssuedOK(ET, inc', issued)
      BY <1>1, <2>2, <2>3, IssuedLater
  <2>5. IssuedOK(ET, inc', Seen(ET, inc', {u, p}))
      BY <1>3, <1>6, <2>1, SeenIssued
  <2>6. IssuedOK(ET, inc', issued \cup Seen(ET, inc', {u, p}))
      BY <2>4, <2>5, IssuedUnion
  <2>7. IssuedOK(ET, inc', issued')
      BY <1>7, <2>6
  <2> QED BY <1>6, <2>3, <2>7, IssuedLater
<1>13. State(table', kind', owned', home', failed')
    BY <1>6, <1>9, <1>10, <1>11 DEF State
<1>14. drain' \in BOOLEAN /\ allocs' \in Nat
    BY <1>1, <1>2 DEF Inv
<1> QED BY <1>9, <1>12, <1>13, <1>14 DEF Inv

(* A table change that keeps the agents' slots, and the calls' exactly for *)
(* the calls the stack still has, keeps the state consistent.              *)
LEMMA StatePreserved ==
    ASSUME NEW T, NEW K, NEW O, NEW H, NEW F, State(T, K, O, H, F),
           NEW U, NEW P, Good(U, K, P), Heap(K, P),
           \A c \in Ptr : P[c] => O[c],
           \A s \in Slots : T.ptr[s] # NoPtr /\ K[T.ptr[s]] = "ua" => U.ptr[s] = T.ptr[s],
           Held(U, K, P, F)
    PROVE  State(U, K, P, H, F)
<1>1. SUFFICES ASSUME NEW c \in Ptr, P[c]
               PROVE  /\ K[c] = "call" /\ H[c] \in Ptr /\ K[H[c]] = "ua"
                      /\ \E s \in Slots : U.ptr[s] = H[c]
    BY DEF State, Linked
<1>2. PICK s \in Slots : K[c] = "call" /\ H[c] \in Ptr /\ K[H[c]] = "ua" /\ T.ptr[s] = H[c]
    BY <1>1 DEF State, Linked
<1>3. U.ptr[s] = H[c]
    BY <1>2, HandleTableAssumption
<1> QED BY <1>2, <1>3

(* An event about a call the stack has. *)
LEMMA EventStep ==
    ASSUME Inv, NEW c \in Ptr, CallEvent(c)
    PROVE  Inv'
<1> DEFINE u == home[c]
           ET == Emit(table, u, c)
<1>1. /\ Good(table, kind, owned) /\ Heap(kind, owned) /\ table \in TableType
      /\ Held(table, kind, owned, failed) /\ IssuedOK(table, inc, issued) /\ inc \in [Ptr -> Nat]
    BY DEF Inv, State, Good, HeapType
<1>2. /\ kind[c] = "call" /\ owned[c] /\ u \in Ptr /\ kind[u] = "ua"
      /\ UNCHANGED <<kind, inc, owned, home, allocs, drain, failed>>
    BY DEF CallEvent, heapVars, Inv, State, Linked
<1>3. table' = ET /\ issued' = issued \cup Seen(ET, inc, {u, c})
    BY DEF CallEvent
<1> HIDE DEF u
<1>4. /\ Good(ET, kind, owned) /\ Later(table, ET)
      /\ \A s \in Slots : table.ptr[s] # NoPtr => ET.ptr[s] = table.ptr[s]
      /\ \A s \in Slots : ET.ptr[s] \in {table.ptr[s], u, c}
    BY <1>1, <1>2, EmitGood
<1> HIDE DEF ET
<1>5. Held(ET, kind, owned, failed)
  <2>1. SUFFICES ASSUME NEW s \in Slots, ET.ptr[s] # NoPtr, kind[ET.ptr[s]] = "call"
                 PROVE  owned[ET.ptr[s]] \/ ET.ptr[s] \in failed
      BY DEF Held
  <2>2. ET.ptr[s] = c \/ ET.ptr[s] = table.ptr[s]
      BY <1>2, <1>4, <2>1
  <2> QED BY <1>1, <1>2, <2>1, <2>2 DEF Held
<1>6. State(ET, kind, owned, home, failed)
    BY <1>1, <1>4, <1>5, StatePreserved DEF Inv
<1>7. IssuedOK(ET, inc, issued')
  <2>1. ET \in TableType
      BY <1>4 DEF Good
  <2>2. IssuedOK(ET, inc, issued)
      BY <1>1, <1>4, <2>1, IssuedLater
  <2>3. IssuedOK(ET, inc, Seen(ET, inc, {u, c}))
    <3>1. {u, c} \in SUBSET Ptr
        BY <1>2
    <3> QED BY <1>1, <1>4, <3>1, SeenIssued
  <2> QED BY <1>3, <2>2, <2>3, IssuedUnion
<1> QED BY <1>2, <1>3, <1>6, <1>7 DEF Inv

(* The end of a call the stack has. *)
LEMMA EndCallStep ==
    ASSUME Inv, NEW c \in Ptr, owned[c], EndCall(c)
    PROVE  Inv'
<1> DEFINE u == home[c]
           ET == Emit(table, u, c)
           VT == Closed(table, u, c)
           P  == [owned EXCEPT ![c] = FALSE]
<1>1. /\ Good(table, kind, owned) /\ Heap(kind, owned) /\ table \in TableType
      /\ Held(table, kind, owned, failed) /\ IssuedOK(table, inc, issued) /\ inc \in [Ptr -> Nat]
    BY DEF Inv, State, Good, HeapType
<1>2. /\ kind[c] = "call" /\ u \in Ptr /\ kind[u] = "ua" /\ owned' = P
      /\ UNCHANGED <<kind, inc, home, allocs, drain, failed>>
    BY DEF EndCall, Inv, State, Linked
<1>3. table' = VT /\ issued' = issued \cup Seen(ET, inc, {u, c})
    BY DEF EndCall
<1> HIDE DEF u
<1>4. Good(ET, kind, owned) /\ Later(table, ET)
    BY <1>1, <1>2, EmitGood
<1>5. /\ Good(VT, kind, P) /\ Later(ET, VT)
      /\ \A s \in Slots : table.ptr[s] \notin {NoPtr, c} => VT.ptr[s] = table.ptr[s]
      /\ \A s \in Slots : VT.ptr[s] \in {table.ptr[s], u, NoPtr}
      /\ \A s \in Slots : VT.ptr[s] # c
  <2> HIDE DEF ET, VT, P
  <2>1. /\ Good(Closed(table, u, c), kind, [owned EXCEPT ![c] = FALSE])
        /\ Later(Emit(table, u, c), Closed(table, u, c))
        /\ \A s \in Slots : table.ptr[s] \notin {NoPtr, c}
                                => Closed(table, u, c).ptr[s] = table.ptr[s]
        /\ \A s \in Slots : Closed(table, u, c).ptr[s] \in {table.ptr[s], u, NoPtr}
        /\ \A s \in Slots : Closed(table, u, c).ptr[s] # c
      BY <1>1, <1>2, ClosedGood
  <2> QED BY <2>1 DEF ET, VT, P
<1> HIDE DEF ET, VT
<1>6. Heap(kind, P) /\ \A q \in Ptr : P[q] = (owned[q] /\ q # c)
    BY <1>1 DEF Heap
<1> HIDE DEF P
<1>7. Held(VT, kind, P, failed)
  <2>1. SUFFICES ASSUME NEW s \in Slots, VT.ptr[s] # NoPtr, kind[VT.ptr[s]] = "call"
                 PROVE  P[VT.ptr[s]] \/ VT.ptr[s] \in failed
      BY DEF Held
  <2>2. VT.ptr[s] = table.ptr[s] /\ VT.ptr[s] # c
      BY <1>2, <1>5, <2>1
  <2>3. /\ owned[table.ptr[s]] \/ table.ptr[s] \in failed
        /\ table.ptr[s] \in Ptr
      BY <1>1, <2>1, <2>2 DEF Held, TableType
  <2> QED BY <1>6, <2>2, <2>3
<1>8. State(VT, kind, P, home, failed)
  <2>1. \A s \in Slots : table.ptr[s] # NoPtr /\ kind[table.ptr[s]] = "ua"
                             => VT.ptr[s] = table.ptr[s]
      BY <1>2, <1>5
  <2>2. \A q \in Ptr : P[q] => owned[q]
      BY <1>6
  <2> QED BY <1>5, <1>6, <1>7, <2>1, <2>2, StatePreserved DEF Inv
<1>9. IssuedOK(VT, inc, issued')
  <2>1. ET \in TableType /\ VT \in TableType
      BY <1>4, <1>5 DEF Good
  <2>2. IssuedOK(ET, inc, issued)
      BY <1>1, <1>4, <2>1, IssuedLater
  <2>3. IssuedOK(ET, inc, Seen(ET, inc, {u, c}))
    <3>1. {u, c} \in SUBSET Ptr
        BY <1>2
    <3> QED BY <1>1, <1>4, <3>1, SeenIssued
  <2>4. IssuedOK(ET, inc, issued')
      BY <1>3, <2>2, <2>3, IssuedUnion
  <2> QED BY <1>5, <2>1, <2>4, IssuedLater
<1> QED BY <1>2, <1>3, <1>8, <1>9 DEF Inv

LEMMA TestDropStep ==
    ASSUME Inv, NEW h \in issued, TestDrop(h)
    PROVE  Inv'
<1> DEFINE s0 == h.slot
           VT == Clear(table, s0)
<1>1. /\ Good(table, kind, owned) /\ Heap(kind, owned) /\ table \in TableType
      /\ Held(table, kind, owned, failed) /\ IssuedOK(table, inc, issued)
    BY DEF Inv, State, Good
<1>2. /\ s0 \in Slots /\ table.ptr[s0] # NoPtr /\ table.type[s0] = "test" /\ table' = VT
      /\ UNCHANGED <<kind, inc, owned, home, allocs, drain, issued, failed>>
    BY DEF TestDrop, Resolves, heapVars
<1>3. kind[table.ptr[s0]] = "test"
    BY <1>1, <1>2 DEF Good
<1> HIDE DEF s0
<1>4. /\ Good(VT, kind, owned)
      /\ \A s \in Slots : VT.ptr[s] = IF s = s0 THEN NoPtr ELSE table.ptr[s]
      /\ Later(table, VT)
    BY <1>1, <1>2, ClearGood
<1> HIDE DEF VT
<1>5. Held(VT, kind, owned, failed)
    BY <1>1, <1>4 DEF Held
<1>6. State(VT, kind, owned, home, failed)
  <2>1. \A s \in Slots : table.ptr[s] # NoPtr /\ kind[table.ptr[s]] = "ua"
                             => VT.ptr[s] = table.ptr[s]
      BY <1>3, <1>4
  <2> QED BY <1>1, <1>4, <1>5, <2>1, StatePreserved DEF Inv
<1>7. IssuedOK(VT, inc, issued)
  <2>1. VT \in TableType
      BY <1>4 DEF Good
  <2> QED BY <1>1, <1>4, <2>1, IssuedLater
<1> QED BY <1>2, <1>6, <1>7 DEF Inv

LEMMA RestartStep ==
    ASSUME Inv, Restart
    PROVE  Inv'
<1> DEFINE VT == Unwind(table, owned)
           P == [p \in Ptr |-> FALSE]
<1>1. /\ Good(table, kind, owned) /\ Heap(kind, owned) /\ table \in TableType
      /\ IssuedOK(table, inc, issued)
    BY DEF Inv, State, Good
<1>2. /\ table' = VT /\ owned' = P /\ drain' = FALSE /\ failed' = {}
      /\ UNCHANGED <<kind, inc, home, allocs, issued>>
    BY DEF Restart
<1>3. Good(VT, kind, P) /\ Later(table, VT) /\ \A s \in Slots : VT.ptr[s] = NoPtr
    BY <1>1, DrainGood
<1> HIDE DEF VT
<1>4. Heap(kind, P) /\ \A q \in Ptr : ~P[q]
    BY <1>1 DEF Heap
<1> HIDE DEF P
<1>5. State(VT, kind, P, home, {})
    BY <1>3, <1>4 DEF State, Linked, Held
<1>6. IssuedOK(VT, inc, issued)
  <2>1. VT \in TableType
      BY <1>3 DEF Good
  <2> QED BY <1>1, <1>3, <2>1, IssuedLater
<1> QED BY <1>2, <1>5, <1>6 DEF Inv

(* A call made by a command, from either side of the table's limit. *)
LEMMA OutgoingStep ==
    ASSUME Inv, NEW u \in Ptr, NEW p \in Ptr, kind[u] = "ua",
           \E s \in Slots : table.ptr[s] = u, Outgoing(u, p)
    PROVE  Inv'
<1> DEFINE X == Emit(Ref(table, p), u, p)
           keep == ~(SlotsOf(X, p) = {})
<1>1. Allocate(p, "call", keep, u) /\ drain' = drain /\ failed' = failed
    BY DEF Outgoing
<1>2. table' = AfterCall(Ref(table, p), X, u, p, keep)
    BY DEF Outgoing, AfterCall
<1>3. issued' = issued \cup Seen(X, inc', {u, p})
    BY DEF Outgoing
<1>4. keep \in BOOLEAN
    OBVIOUS
<1> HIDE DEF keep
<1> QED BY <1>1, <1>2, <1>3, <1>4, NewCallStep

(* A call that was not connected: only the slot OUTGOING gave it keeps it. *)
LEMMA NotConnectedStep ==
    ASSUME Inv, NEW u \in Ptr, NEW p \in Ptr, kind[u] = "ua",
           \E s \in Slots : table.ptr[s] = u, NotConnected(u, p)
    PROVE  Inv'
<1> DEFINE O1 == [owned EXCEPT ![p] = TRUE]
           RT == Ref(table, p)
           ET == Emit(RT, u, p)
<1>1. /\ Good(table, kind, owned) /\ Heap(kind, owned) /\ table \in TableType
      /\ Linked(table, kind, owned, home) /\ Held(table, kind, owned, failed)
      /\ HeapType(inc, home) /\ IssuedOK(table, inc, issued) /\ allocs \in Nat
      /\ failed \subseteq Ptr
    BY DEF Inv, State, Good
<1>2. /\ table.refs[p] = 0 /\ "call" \in Types
      /\ kind' = [kind EXCEPT ![p] = "call"] /\ inc' = [inc EXCEPT ![p] = allocs + 1]
      /\ owned' = [owned EXCEPT ![p] = FALSE] /\ home' = [home EXCEPT ![p] = u]
      /\ allocs' = allocs + 1 /\ drain' = drain
    BY DEF NotConnected, Allocate, Types
<1>3. /\ ~owned[p] /\ \A s \in Slots : table.ptr[s] # p
      /\ Heap(kind', O1) /\ Good(RT, kind', O1)
      /\ RT.ptr = table.ptr /\ RT.clears = table.clears
  <2> DEFINE L == [kind EXCEPT ![p] = "call"]
  <2>1. /\ ~owned[p] /\ \A s \in Slots : table.ptr[s] # p
        /\ Heap(L, [owned EXCEPT ![p] = TRUE])
        /\ Good(Ref(table, p), L, [owned EXCEPT ![p] = TRUE])
        /\ Ref(table, p).ptr = table.ptr /\ Ref(table, p).clears = table.clears
      BY <1>1, <1>2, NewGood
  <2> QED BY <1>2, <2>1
<1>4. /\ owned' = owned /\ [O1 EXCEPT ![p] = FALSE] = owned /\ O1[p] /\ kind'[p] = "call"
      /\ u # p /\ u # NoPtr /\ kind'[u] = "ua"
    BY <1>1, <1>2, <1>3, HandleTableAssumption DEF Heap
<1>5. /\ table' = Deref(ET, p) /\ issued' = issued \cup Seen(ET, inc', {u, p})
      /\ failed' = IF SlotsOf(ET, p) = {} THEN failed ELSE failed \cup {p}
    BY DEF NotConnected
<1> HIDE DEF O1, RT
<1>6. /\ Good(ET, kind', O1) /\ Later(RT, ET)
      /\ \A s \in Slots : RT.ptr[s] # NoPtr => ET.ptr[s] = RT.ptr[s]
      /\ \A s \in Slots : ET.ptr[s] \in {RT.ptr[s], u, p}
    BY <1>3, <1>4, EmitGood
<1> HIDE DEF ET
<1>7. Good(table', kind', owned') /\ table'.ptr = ET.ptr /\ table'.clears = ET.clears
  <2>1. /\ Good(Deref(ET, p), kind', [O1 EXCEPT ![p] = FALSE])
        /\ Deref(ET, p).ptr = ET.ptr /\ Deref(ET, p).clears = ET.clears
    <3>1. Heap(kind', O1) /\ Good(ET, kind', O1) /\ O1[p]
        BY <1>3, <1>4, <1>6
    <3> QED BY <3>1, DerefGood, ZenonT(60)
  <2> QED BY <1>4, <1>5, <2>1
<1>8. /\ table' \in TableType /\ ET \in TableType /\ Later(table, ET) /\ Later(ET, table')
  <2>1. table' \in TableType /\ ET \in TableType
      BY <1>6, <1>7 DEF Good
  <2>2. ET.clears \in [Slots -> Nat]
      BY <2>1 DEF TableType
  <2> QED BY <1>3, <1>6, <1>7, <2>1, <2>2 DEF Later
<1>9. /\ Heap(kind', owned') /\ HeapType(inc', home') /\ failed' \subseteq Ptr
    BY <1>1, <1>2, <1>5 DEF Heap, HeapType
<1>10. \A s \in Slots : /\ table'.ptr[s] \in {table.ptr[s], u, p}
                        /\ table.ptr[s] # NoPtr => table'.ptr[s] = table.ptr[s]
    BY <1>3, <1>6, <1>7
<1>11. Linked(table', kind', owned', home')
  <2>1. SUFFICES ASSUME NEW c \in Ptr, owned[c]
                 PROVE  /\ kind'[c] = "call"
                        /\ home'[c] \in Ptr /\ kind'[home'[c]] = "ua"
                        /\ \E s \in Slots : table'.ptr[s] = home'[c]
      BY <1>4 DEF Linked
  <2>2. PICK s \in Slots : /\ kind[c] = "call" /\ home[c] \in Ptr /\ kind[home[c]] = "ua"
                           /\ table.ptr[s] = home[c]
      BY <1>1, <2>1 DEF Linked
  <2>3. c # p /\ home[c] # p /\ home[c] # NoPtr
      BY <1>3, <2>1, <2>2, HandleTableAssumption
  <2>4. kind'[c] = kind[c] /\ home'[c] = home[c] /\ kind'[home[c]] = kind[home[c]]
      BY <1>1, <1>2, <2>2, <2>3 DEF Heap, HeapType
  <2>5. table'.ptr[s] = home[c]
      BY <1>10, <2>2, <2>3
  <2> QED BY <2>2, <2>4, <2>5
<1>12. Held(table', kind', owned', failed')
  <2>1. SUFFICES ASSUME NEW s \in Slots, table'.ptr[s] # NoPtr, kind'[table'.ptr[s]] = "call"
                 PROVE  owned[table'.ptr[s]] \/ table'.ptr[s] \in failed'
      BY <1>4 DEF Held
  <2>2. CASE table'.ptr[s] = p
    <3>1. SlotsOf(ET, p) # {}
        BY <1>7, <2>2 DEF SlotsOf
    <3> QED BY <1>5, <2>2, <3>1
  <2>3. CASE table'.ptr[s] # p
    <3>1. table'.ptr[s] = table.ptr[s]
        BY <1>4, <1>10, <2>1, <2>3
    <3>2. table.ptr[s] \in Ptr /\ kind'[table.ptr[s]] = kind[table.ptr[s]]
        BY <1>1, <1>2, <2>1, <2>3, <3>1 DEF TableType, Heap
    <3>3. owned[table.ptr[s]] \/ table.ptr[s] \in failed
        BY <1>1, <2>1, <3>1, <3>2 DEF Held
    <3> QED BY <1>5, <3>1, <3>3
  <2> QED BY <2>2, <2>3
<1>13. IssuedOK(table', inc', issued')
  <2>1. inc \in [Ptr -> Nat] /\ inc' \in [Ptr -> Nat]
      BY <1>1, <1>9 DEF HeapType
  <2>2. IssuedOK(table, inc', issued)
      BY <1>1, <1>2, <1>3, <2>1, IssuedNew
  <2>3. IssuedOK(ET, inc', issued)
      BY <1>1, <1>8, <2>2, IssuedLater
  <2>4. IssuedOK(ET, inc', Seen(ET, inc', {u, p}))
      BY <1>3, <1>6, <2>1, SeenIssued
  <2>5. IssuedOK(ET, inc', issued')
      BY <1>5, <2>3, <2>4, IssuedUnion
  <2> QED BY <1>8, <2>5, IssuedLater
<1> QED BY <1>1, <1>2, <1>7, <1>9, <1>11, <1>12, <1>13 DEF Inv, State

LEMMA IncomingStep ==
    ASSUME Inv, NEW u \in Ptr, NEW p \in Ptr, CallIncoming(u, p)
    PROVE  Inv'
<1> DEFINE X == Ref(table, p)
           keep == ~drain
<1>1. Allocate(p, "call", keep, u) /\ drain' = drain /\ failed' = failed /\ kind[u] = "ua" /\ table.refs[u] > 0
    BY DEF CallIncoming, Alive
<1>2. table' = AfterCall(X, X, u, p, keep)
    BY DEF CallIncoming, AfterCall
<1>3. issued' = issued \cup Seen(Emit(X, u, p), inc', {u, p})
    BY DEF CallIncoming
<1>4. keep \in BOOLEAN
    BY DEF Inv
<1>5. \E s \in Slots : table.ptr[s] = u
  <2>1. ~owned[u]
      BY <1>1 DEF Inv, State, Linked
  <2>2. SlotsOf(table, u) # {}
      BY <1>1, <2>1 DEF Inv, State, Good
  <2> QED BY <2>2 DEF SlotsOf
<1> HIDE DEF keep
<1> QED BY <1>1, <1>2, <1>3, <1>4, <1>5, NewCallStep

(* What a handle that resolves leads to. *)
LEMMA Resolved ==
    ASSUME Inv, NEW h, NEW k \in Types, Resolves(table, h, k)
    PROVE  /\ h.slot \in Slots /\ table.ptr[h.slot] \in Ptr /\ kind[table.ptr[h.slot]] = k
           /\ k = "call" /\ table.ptr[h.slot] \notin failed
                  => /\ owned[table.ptr[h.slot]]
                     /\ home[table.ptr[h.slot]] \in Ptr
                     /\ kind[home[table.ptr[h.slot]]] = "ua"
                     /\ \E s \in Slots : table.ptr[s] = home[table.ptr[h.slot]]
<1> DEFINE p == table.ptr[h.slot]
<1>1. h.slot \in Slots /\ p # NoPtr /\ table.type[h.slot] = k
    BY DEF Resolves
<1>2. p \in Ptr /\ kind[p] = k
    BY <1>1 DEF Inv, State, Good, TableType
<1>3. k = "call" => owned[p] \/ p \in failed
    BY <1>1, <1>2 DEF Inv, State, Held
<1> HIDE DEF p
<1>4. owned[p] => /\ home[p] \in Ptr /\ kind[home[p]] = "ua"
                  /\ \E s \in Slots : table.ptr[s] = home[p]
    BY <1>2 DEF Inv, State, Linked
<1> QED BY <1>1, <1>2, <1>3, <1>4 DEF p

LEMMA InitInv ==
    ASSUME Init
    PROVE  Inv
<1>1. \A s \in Slots : table.ptr[s] = NoPtr
    BY DEF Init
<1>2. \A p \in Ptr : SlotsOf(table, p) = {}
    BY <1>1, HandleTableAssumption DEF SlotsOf
<1>3. 0 \in 0 .. (GenMod - 1) /\ 0 % GenMod = 0
  <2>1. 0 % GenMod \in 0 .. (GenMod - 1)
      BY DivMod
  <2>2. 0 = GenMod * (0 \div GenMod) + (0 % GenMod) /\ 0 \div GenMod \in Int
      BY DivMod
  <2>3. 0 % GenMod = 0
      BY <2>1, <2>2
  <2> QED BY <2>1, <2>3
<1>4. table \in TableType
    BY <1>3 DEF Init, TableType
<1>5. Good(table, kind, owned)
    BY <1>1, <1>2, <1>3, <1>4 DEF Init, Good
<1>6. Heap(kind, owned) /\ HeapType(inc, home)
    BY DEF Init, Heap, HeapType
<1>7. Linked(table, kind, owned, home) /\ Held(table, kind, owned, failed)
    BY <1>1 DEF Init, Linked, Held
<1>8. /\ drain \in BOOLEAN /\ allocs \in Nat /\ failed \subseteq Ptr
      /\ IssuedOK(table, inc, issued)
    BY DEF Init, IssuedOK
<1> QED BY <1>5, <1>6, <1>7, <1>8 DEF Inv, State

LEMMA NextInv ==
    ASSUME Inv, [Next]_vars
    PROVE  Inv'
<1>1. ASSUME NEW p \in Ptr, UaAlloc(p) PROVE Inv'
    BY <1>1, ReleaseStep DEF UaAlloc
<1>2. ASSUME NEW p \in Ptr, TestNew(p) PROVE Inv'
    BY <1>2, ReleaseStep DEF TestNew
<1>3. ASSUME NEW h \in issued, NEW p \in Ptr, UaConnect(h, p) PROVE Inv'
  <2>1. /\ Resolves(table, h, "ua")
        /\ Outgoing(table.ptr[h.slot], p) \/ NotConnected(table.ptr[h.slot], p)
      BY <1>3 DEF UaConnect
  <2>2. h.slot \in Slots /\ table.ptr[h.slot] \in Ptr /\ kind[table.ptr[h.slot]] = "ua"
      BY <2>1, Resolved DEF Types
  <2> QED BY <2>1, <2>2, OutgoingStep, NotConnectedStep
<1>4. ASSUME NEW h \in issued, NEW p \in Ptr, TransferAccept(h, p) PROVE Inv'
  <2>1. /\ Resolves(table, h, "call") /\ table.ptr[h.slot] \notin failed
        /\ \/ Outgoing(home[table.ptr[h.slot]], p)
           \/ NotConnected(home[table.ptr[h.slot]], p)
      BY <1>4 DEF TransferAccept, NamesCall
  <2>2. /\ home[table.ptr[h.slot]] \in Ptr /\ kind[home[table.ptr[h.slot]]] = "ua"
        /\ \E s \in Slots : table.ptr[s] = home[table.ptr[h.slot]]
      BY <2>1, Resolved DEF Types
  <2> QED BY <2>1, <2>2, OutgoingStep, NotConnectedStep
<1>5. ASSUME NEW h \in issued, CallHangup(h) PROVE Inv'
  <2>1. /\ Resolves(table, h, "call") /\ table.ptr[h.slot] \notin failed
        /\ EndCall(table.ptr[h.slot])
      BY <1>5 DEF CallHangup, NamesCall
  <2>2. table.ptr[h.slot] \in Ptr /\ owned[table.ptr[h.slot]]
      BY <2>1, Resolved DEF Types
  <2> QED BY <2>1, <2>2, EndCallStep
<1>6. ASSUME NEW h \in issued, TestDrop(h) PROVE Inv'
    BY <1>6, TestDropStep
<1>7. ASSUME SetDrain PROVE Inv'
    BY <1>7 DEF SetDrain, heapVars, Inv
<1>8. ASSUME NEW u \in Ptr, NEW p \in Ptr, CallIncoming(u, p) PROVE Inv'
    BY <1>8, IncomingStep
<1>9. ASSUME NEW c \in Ptr, CallEvent(c) PROVE Inv'
    BY <1>9, EventStep
<1>10. ASSUME NEW c \in Ptr, CallClosed(c) PROVE Inv'
    BY <1>10, EndCallStep DEF CallClosed
<1>11. ASSUME Restart PROVE Inv'
    BY <1>11, RestartStep
<1>12. ASSUME UNCHANGED vars PROVE Inv'
    BY <1>12 DEF vars, Inv
<1> QED BY <1>1, <1>2, <1>3, <1>4, <1>5, <1>6, <1>7, <1>8, <1>9, <1>10, <1>11, <1>12
        DEF Next, Commands, StackEvents

(* The table is good, and every handle ever issued fits it, in every state *)
(* between two handlers of the re thread.                                  *)
THEOREM Invariance == Spec => []Inv
<1>1. Init => Inv
    BY InitInv
<1>2. Inv /\ [Next]_vars => Inv'
    BY NextInv
<1> QED BY <1>1, <1>2, PTL DEF Spec

(* Every slot, generation, reference count and issued handle has its type, *)
(* whatever commands, events and restarts happen (handle_create,           *)
(* slot_clear).                                                            *)
THEOREM TypeCorrect == Spec => []TypeOK
<1>1. Inv => TypeOK
    BY DEF Inv, State, Good, Heap, HeapType, IssuedOK, TypeOK
<1> QED BY <1>1, Invariance, PTL

(* A slot's reference is taken and given back exactly once, so nothing the *)
(* table names is freed and nothing else is kept (mem_ref, mem_deref).     *)
THEOREM ReferencesBalance == Spec => []RefsBalanced
<1>1. Inv => RefsBalanced
    BY DEF Inv, State, Good, RefsBalanced
<1> QED BY <1>1, Invariance, PTL

(* No object ever has two slots (the search of handle_create). *)
THEOREM OneSlot == Spec => []OneSlotPerObject
<1>1. Inv => OneSlotPerObject
    BY DEF Inv, State, Good, OneSlotPerObject
<1> QED BY <1>1, Invariance, PTL

(* A slot outlives its call only when connecting the call failed after     *)
(* OUTGOING had given it the slot (handle_drop_ptr, handle_drain, the      *)
(* cerr paths of UA_CONNECT and CALL_TRANSFER_ACCEPT).                     *)
THEOREM NothingLeaks == Spec => []NoLeakedSlot
<1>1. Inv => NoLeakedSlot
    BY DEF Inv, State, Good, Held, NoLeakedSlot
<1> QED BY <1>1, Invariance, PTL

(* A handle never resolves to an object it was not issued for, unless its  *)
(* slot was cleared a full wrap of the generation since (handle_lookup).   *)
THEOREM HandlesAreSafe == Spec => []NoFalseHandle
<1>1. ASSUME Inv PROVE NoFalseHandle
  <2>1. SUFFICES ASSUME NEW h \in issued, Resolves(table, h, h.type),
                        table.clears[h.slot] - h.clears < GenMod
                 PROVE  inc[table.ptr[h.slot]] = h.inc
      BY DEF NoFalseHandle
  <2> DEFINE c == table.clears[h.slot]
  <2>2. /\ h.slot \in Slots /\ h.clears \in Nat /\ h.gen = h.clears % GenMod
        /\ h.clears <= c /\ (h.clears = c => inc[table.ptr[h.slot]] = h.inc)
      BY <1>1 DEF Inv, IssuedOK
  <2>3. c \in Nat /\ table.gen[h.slot] = c % GenMod
      BY <1>1, <2>2 DEF Inv, State, Good, TableType
  <2>4. h.gen = table.gen[h.slot]
      BY <2>1 DEF Resolves
  <2>5. c - h.clears < GenMod
      BY <2>1
  <2> HIDE DEF c
  <2>6. CASE h.clears < c
    <3>1. c < h.clears + GenMod
        BY <2>2, <2>3, <2>5
    <3>2. h.clears % GenMod # c % GenMod
        BY <2>2, <2>3, <2>6, <3>1, ModDistinct
    <3> QED BY <2>2, <2>3, <2>4, <3>2
  <2>7. CASE h.clears = c
      BY <2>2, <2>7
  <2> QED BY <2>2, <2>3, <2>6, <2>7
<1>2. Inv => NoFalseHandle
    BY <1>1
<1> QED BY <1>2, Invariance, PTL
=============================================================================
