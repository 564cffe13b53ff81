-------------------------- MODULE VideoSlotsProofs ---------------------------
(***************************************************************************)
(* Proofs about VideoSlots.tla, for every number of calls, slots, sources, *)
(* filters, places in a ring and frames, and any clamp trigger.            *)
(***************************************************************************)
EXTENDS VideoSlots, WellFoundedInduction, TLAPS

-----------------------------------------------------------------------------
(* A remainder, and the least element of a set of naturals.                *)

(* Two numbers less than M apart have different remainders. *)
LEMMA ModDistinct ==
    ASSUME NEW M \in Nat \ {0}, NEW a \in Nat, NEW b \in Nat, a < b, b < a + M
    PROVE  a % M # b % M
<1> DEFINE p == a \div M
           q == b \div M
<1>1. p \in Int /\ a % M \in Nat /\ a = M * p + (a % M)
    OBVIOUS
<1>2. q \in Int /\ b % M \in Nat /\ b = M * q + (b % M)
    OBVIOUS
<1> HIDE DEF p, q
<1>3. M * (q - p) = (b - a) + (a % M) - (b % M)
    BY <1>1, <1>2
<1>4. (q - p <= 0 => M * (q - p) <= 0) /\ (q - p >= 1 => M * (q - p) >= M)
    BY <1>1, <1>2
<1> QED BY <1>1, <1>2, <1>3, <1>4

(* Every non-empty set of naturals has a least element. *)
LEMMA LeastElement ==
    ASSUME NEW S \in SUBSET Nat, S # {}
    PROVE  \E s \in S : \A t \in S : s <= t
<1> DEFINE LessThan == {p \in Nat \X Nat : p[1] < p[2]}
<1>1. IsWellFoundedOn(LessThan, Nat)
    BY NatLessThanWellFounded DEF OpToRel
<1>2. PICK s \in S : \A t \in S : <<t, s>> \notin LessThan
    BY <1>1, WFMin
<1>3. \A t \in S : t \in Nat /\ s \in Nat /\ ~(t < s)
    BY <1>2
<1> QED BY <1>3


USE VideoSlotsAssumption

-----------------------------------------------------------------------------
(* The inductive invariant.                                                *)

(* A ring: a copy into it has a free place, and a copy out of it a frame    *)
(* that is in it.                                                           *)
RingOK(r) ==
    /\ r \in RingType
    /\ r.rd <= r.wr /\ r.wr - r.rd <= NRing
    /\ r.filling => r.wr - r.rd < NRing
    /\ r.copying # NoFrame => r.rd <= r.copying /\ r.copying < r.wr

(* What a thread that copies without the lock has begun in its ring is      *)
(* begun there; and only a stream that was made has a thread.               *)
SourceOK(r) ==
    /\ RingOK(r.ring)
    /\ r.pc = "copy" => r.ring.copying # NoFrame
    /\ r.at = "none" => r.pc = "done"

TapOK(r) ==
    /\ RingOK(r.ring)
    /\ r.pc = "fill" => r.ring.filling
    /\ r.at = "none" => r.pc = "idle"

RingInv == (\A s \in Source : SourceOK(src[s])) /\ (\A d \in Tap : TapOK(tap[d]))

(* The slot table: one slot per call, of a call that has a handle; what is  *)
(* in it is of a stream of that call that is up.                            *)
SlotInv ==
    /\ \A k \in Slot :
          /\ slot[k].call = NoCall => slot[k] = FreeSlot
          /\ slot[k].call # NoCall => driver # "closed" /\ call[slot[k].call] \in {"up", "pinned", "torn"}
          /\ slot[k].tx # 0 => src[slot[k].tx].at = "live" /\ src[slot[k].tx].of = slot[k].call
          /\ slot[k].rx # 0 => tap[slot[k].rx].at = "published" /\ tap[slot[k].rx].of = slot[k].call
    /\ \A k, l \in Slot : slot[k].call = slot[l].call /\ slot[k].call # NoCall => k = l

Up(s) == src[s].at \in {"starting", "live"}

(* The streams: a call has one live source, not before it is established. *)
StreamInv ==
    /\ \A s \in Source :
          /\ src[s].at # "none" => src[s].of \in Call
          /\ Up(s) => call[src[s].of] \in {"pinned", "torn", "closed"}
          /\ src[s].at = "starting" => call[src[s].of] = "pinned"
    /\ \A s, u \in Source : Up(s) /\ Up(u) /\ src[s].of = src[u].of => s = u
    /\ \A d \in Tap : tap[d].at # "none" => tap[d].of \in Call
    /\ \A c \in Call : call[c] \in {"up", "pinned"} => driver = "open"

(* A Python thread that copies has the lock, and copies through the ring of *)
(* a stream that is up.                                                     *)
CopyInv ==
    \A p \in Python :
        /\ py[p].at \in {"filling", "copying"} => lock = p
        /\ py[p].at = "filling" => /\ py[p].ring \in Source
                                   /\ src[py[p].ring].at = "live" /\ src[py[p].ring].ring.filling
                                   /\ py[p].to \in {0, py[p].ring}
        /\ py[p].at = "copying" => /\ py[p].ring \in Tap
                                   /\ tap[py[p].ring].at = "published"
                                   /\ tap[py[p].ring].ring.copying # NoFrame

(* A binding is no newer than the slot of the call, and if it is of its     *)
(* epoch it is of its source.                                               *)
Binds(epoch, to) ==
    /\ \A k \in Slot : slot[k].call = Mine =>
          epoch <= slot[k].epoch /\ (epoch = slot[k].epoch /\ to # 0 => slot[k].tx = to)
    /\ (\A k \in Slot : slot[k].call # Mine) =>
          epoch = Unbound \/ call[Mine] \in {"torn", "closed"}

BindInv == Binds(bound, boundTo) /\ \A p \in Python : Binds(py[p].epoch, py[p].to)

Inv == TypeOK /\ RingInv /\ SlotInv /\ StreamInv /\ CopyInv /\ BindInv

USE DEF Source, Tap, Slot, Python

-----------------------------------------------------------------------------
(* Rings.                                                                  *)

LEMMA EmptyRingOK == RingOK(EmptyRing) /\ EmptyRing.copying = NoFrame
<1>1. EmptyRing \in RingType
    BY DEF EmptyRing, RingType
<1>2. EmptyRing.wr = 0 /\ EmptyRing.rd = 0 /\ EmptyRing.copying = NoFrame
    BY DEF EmptyRing
<1> QED BY <1>1, <1>2 DEF RingOK

LEMMA BeginFillOK ==
    ASSUME NEW r, RingOK(r), HasRoom(r)
    PROVE  RingOK(BeginFill(r)) /\ BeginFill(r).filling /\ BeginFill(r).copying = r.copying
<1>0. r \in RingType
    BY DEF RingOK
<1>1. BeginFill(r) \in RingType /\ BeginFill(r).filling
    BY <1>0 DEF BeginFill, RingType
<1>2. BeginFill(r).wr = r.wr /\ BeginFill(r).rd = r.rd /\ BeginFill(r).copying = r.copying
    BY <1>0 DEF BeginFill, RingType
<1> HIDE DEF BeginFill
<1> QED BY <1>1, <1>2 DEF RingOK, HasRoom

LEMMA EndFillOK ==
    ASSUME NEW r, RingOK(r), r.filling
    PROVE  RingOK(EndFill(r)) /\ EndFill(r).copying = r.copying
<1>0. r \in RingType /\ r.wr \in Nat /\ r.rd \in Nat /\ r.copying \in Nat \cup {NoFrame}
    BY DEF RingOK, RingType
<1> DEFINE w == r.wr + 1
           q == [r EXCEPT !.filling = FALSE, !.wr = w]
<1>1. w \in Nat
    BY <1>0
<1>2. q \in RingType /\ q.wr = w /\ q.rd = r.rd /\ q.copying = r.copying
  <2> HIDE DEF w
  <2> QED BY <1>0, <1>1 DEF RingType
<1>3. q.filling = FALSE
    BY <1>0 DEF RingType
<1>4. EndFill(r) = q
    BY DEF EndFill
<1> HIDE DEF q
<1>5. r.rd <= w /\ w - r.rd <= NRing
    BY <1>0 DEF RingOK
<1>6. q.copying # NoFrame => q.rd <= q.copying /\ q.copying < q.wr
    BY <1>0, <1>2 DEF RingOK, NoFrame
<1> QED BY <1>2, <1>3, <1>4, <1>5, <1>6 DEF RingOK

LEMMA BeginTakeOK ==
    ASSUME NEW r, RingOK(r), NEW n \in Nat, r.rd <= n, n < r.wr
    PROVE  /\ RingOK(BeginTake(r, n)) /\ BeginTake(r, n).copying # NoFrame
           /\ BeginTake(r, n).filling = r.filling
<1>0. r \in RingType
    BY DEF RingOK
<1>1. BeginTake(r, n) \in RingType
    BY <1>0 DEF BeginTake, RingType
<1>2. BeginTake(r, n).wr = r.wr /\ BeginTake(r, n).rd = r.rd /\ BeginTake(r, n).copying = n
    BY <1>0 DEF BeginTake, RingType
<1>3. BeginTake(r, n).filling = r.filling
    BY <1>0 DEF BeginTake, RingType
<1>4. n # NoFrame
    BY DEF NoFrame
<1> HIDE DEF BeginTake
<1>5. BeginTake(r, n).filling => r.wr - r.rd < NRing
    BY <1>3 DEF RingOK
<1> QED BY <1>1, <1>2, <1>3, <1>4, <1>5 DEF RingOK

LEMMA EndTakeOK ==
    ASSUME NEW r, RingOK(r), r.copying # NoFrame
    PROVE  RingOK(EndTake(r)) /\ EndTake(r).filling = r.filling
<1>0. r \in RingType /\ r.wr \in Nat /\ r.rd \in Nat /\ r.copying \in Nat
    BY DEF RingOK, RingType
<1> DEFINE n == r.copying + 1
           q == [r EXCEPT !.rd = n, !.copying = NoFrame]
<1>1. n \in Nat /\ n <= r.wr /\ r.rd <= n
    BY <1>0 DEF RingOK
<1>2. q \in RingType /\ q.wr = r.wr /\ q.rd = n /\ q.copying = NoFrame
  <2> HIDE DEF n
  <2> QED BY <1>0, <1>1 DEF RingType
<1>3. q.filling = r.filling
    BY <1>0 DEF RingType
<1>4. EndTake(r) = q
    BY DEF EndTake
<1> HIDE DEF n, q
<1>5. q.filling => q.wr - q.rd < NRing
  <2>1. r.filling => r.wr - r.rd < NRing
      BY DEF RingOK
  <2>2. r.wr - n <= r.wr - r.rd
      BY <1>0, <1>1
  <2>3. r.wr - r.rd < NRing => r.wr - n < NRing
      BY <1>0, <1>1, <2>2
  <2> QED BY <1>2, <1>3, <2>1, <2>3
<1>6. q.rd <= q.wr /\ q.wr - q.rd <= NRing
    BY <1>0, <1>1, <1>2 DEF RingOK
<1> QED BY <1>2, <1>3, <1>4, <1>5, <1>6 DEF RingOK

(* The frames a reader may take: the newest, and the one the clamp gives. *)
LEMMA Takes ==
    ASSUME NEW r, RingOK(r), r.wr > r.rd
    PROVE  /\ Newest(r) \in Nat /\ r.rd <= Newest(r) /\ Newest(r) < r.wr
           /\ Clamped(r) \in Nat /\ r.rd <= Clamped(r) /\ Clamped(r) < r.wr
           /\ Newest(r) - r.rd \in Nat
<1>1. r.wr \in Nat /\ r.rd \in Nat
    BY DEF RingOK, RingType
<1>2. Newest(r) \in Nat /\ r.rd <= Newest(r) /\ Newest(r) < r.wr /\ Newest(r) - r.rd \in Nat
    BY <1>1 DEF Newest
<1> QED BY <1>1, <1>2 DEF Clamped

LEMMA InitInv == Init => Inv
<1> SUFFICES ASSUME Init PROVE Inv
    OBVIOUS
<1>1. FreeSlot \in SlotType /\ FreeSlot.call = NoCall /\ FreeSlot.tx = 0 /\ FreeSlot.rx = 0
    BY DEF FreeSlot, SlotType
<1>2. EmptyRing \in RingType
    BY EmptyRingOK DEF RingOK
<1>3. /\ NoSource \in SourceType /\ NoSource.at = "none" /\ NoSource.pc = "done"
      /\ NoSource.ring = EmptyRing
    BY <1>2 DEF NoSource, SourceType
<1>4. NoTap \in TapType /\ NoTap.at = "none" /\ NoTap.pc = "idle" /\ NoTap.ring = EmptyRing
    BY <1>2 DEF NoTap, TapType
<1>5. Idle \in PythonType /\ Idle.at = "idle" /\ Idle.epoch = Unbound
    BY DEF Idle, PythonType
<1>6. RingInv
    BY <1>3, <1>4, EmptyRingOK DEF Init, RingInv, SourceOK, TapOK
<1>7. TypeOK
  <2>1. \A r \in Rings : r.rd <= r.wr /\ r.wr - r.rd <= NRing
      BY <1>6 DEF RingInv, SourceOK, TapOK, RingOK, Rings
  <2> QED BY <1>1, <1>3, <1>4, <1>5, <2>1 DEF Init, TypeOK
<1>8. SlotInv /\ StreamInv
    BY <1>1, <1>3, <1>4 DEF Init, SlotInv, StreamInv, Up
<1>9. CopyInv
    BY <1>5 DEF Init, CopyInv
<1>10. BindInv
    BY <1>1, <1>5 DEF Init, BindInv, Binds
<1> QED BY <1>6, <1>7, <1>8, <1>9, <1>10 DEF Inv

(* The bounds of TypeOK are those of the rings. *)
LEMMA RingsBound ==
    ASSUME RingInv
    PROVE  \A r \in Rings : r.rd <= r.wr /\ r.wr - r.rd <= NRing
BY DEF RingInv, SourceOK, TapOK, RingOK, Rings

-----------------------------------------------------------------------------
(* The search for a slot.                                                  *)

LEMMA LowestFound ==
    ASSUME NEW S \in SUBSET Slot, S # {}
    PROVE  Min(S) \in S
<1>1. S \in SUBSET Nat
    OBVIOUS
<1>2. \E k \in S : \A l \in S : k <= l
    BY <1>1, LeastElement
<1> QED BY <1>2 DEF Min

(* A call's slot is its own, or a free one if it has none. *)
LEMMA SlotFound ==
    ASSUME NEW c \in Call, NEW k \in SlotFor(c)
    PROVE  /\ k \in Slot
           /\ slot[k].call = c \/ (slot[k].call = NoCall /\ \A l \in Slot : slot[l].call # c)
<1>1. Of(c) \in SUBSET Slot /\ Of(NoCall) \in SUBSET Slot
    BY DEF Of
<1> QED BY <1>1, LowestFound DEF SlotFor, Of

-----------------------------------------------------------------------------
(* The parts of the invariant, each from what it depends on.               *)

(* Nothing new comes into the table. *)
LEMMA SlotFrame ==
    ASSUME Inv, slot' \in [Slot -> SlotType],
           \A k \in Slot : slot'[k] = slot[k]
                           \/ /\ slot[k].call # NoCall /\ slot'[k].call = slot[k].call
                              /\ slot'[k].tx \in {0, slot[k].tx} /\ slot'[k].rx \in {0, slot[k].rx},
           \A k \in Slot : slot[k].call # NoCall =>
                           driver' # "closed" /\ call'[slot[k].call] \in {"up", "pinned", "torn"},
           \A s \in Source : (\E k \in Slot : slot'[k].tx = s) =>
                             (src[s].at = "live" => src'[s].at = "live") /\ src'[s].of = src[s].of,
           \A d \in Tap : (\E k \in Slot : slot'[k].rx = d) =>
                          (tap[d].at = "published" => tap'[d].at = "published") /\ tap'[d].of = tap[d].of
    PROVE  SlotInv'
<1> USE DEF Inv
<1>1. \A k \in Slot : /\ slot'[k].call = slot[k].call
                      /\ slot'[k].tx \in {0, slot[k].tx} /\ slot'[k].rx \in {0, slot[k].rx}
    OBVIOUS
<1>2. \A k \in Slot : slot'[k].call = NoCall => slot'[k] = FreeSlot
    BY DEF SlotInv
<1>3. \A k \in Slot : slot'[k].call # NoCall =>
                      driver' # "closed" /\ call'[slot'[k].call] \in {"up", "pinned", "torn"}
    BY <1>1
<1>4. ASSUME NEW k \in Slot, slot'[k].tx # 0
      PROVE  src'[slot'[k].tx].at = "live" /\ src'[slot'[k].tx].of = slot'[k].call
  <2>1. PICK s \in Source : s = slot'[k].tx
      BY <1>4 DEF SlotType
  <2>2. slot[k].tx = s /\ src[s].at = "live" /\ src[s].of = slot[k].call
      BY <1>1, <1>4, <2>1 DEF SlotInv
  <2> QED BY <1>1, <2>1, <2>2
<1>5. ASSUME NEW k \in Slot, slot'[k].rx # 0
      PROVE  tap'[slot'[k].rx].at = "published" /\ tap'[slot'[k].rx].of = slot'[k].call
  <2>1. PICK d \in Tap : d = slot'[k].rx
      BY <1>5 DEF SlotType
  <2>2. slot[k].rx = d /\ tap[d].at = "published" /\ tap[d].of = slot[k].call
      BY <1>1, <1>5, <2>1 DEF SlotInv
  <2> QED BY <1>1, <2>1, <2>2
<1>6. \A k, l \in Slot : slot'[k].call = slot'[l].call /\ slot'[k].call # NoCall => k = l
    BY <1>1 DEF SlotInv
<1> QED BY <1>2, <1>3, <1>4, <1>5, <1>6 DEF SlotInv

(* No stream comes up, and no call changes. *)
LEMMA StreamFrame ==
    ASSUME Inv, UNCHANGED <<driver, call>>,
           \A s \in Source : /\ src'[s].of = src[s].of
                             /\ src[s].at = "none" => src'[s].at = "none"
                             /\ src'[s].at = "starting" => src[s].at = "starting"
                             /\ src'[s].at = "live" => src[s].at = "live",
           \A d \in Tap : tap'[d].of = tap[d].of /\ (tap[d].at = "none" => tap'[d].at = "none")
    PROVE  StreamInv'
<1> USE DEF Inv
<1>1. \A s \in Source : Up(s)' => Up(s)
    BY DEF Up
<1> QED BY <1>1 DEF StreamInv

(* The streams that Python threads copy through stay up, and what they have *)
(* begun stays begun.                                                       *)
LEMMA CopyFrame ==
    ASSUME Inv, UNCHANGED <<lock, py>>,
           \A s \in Source : src[s].at = "live" /\ lock # Nobody =>
                             /\ src'[s].at = "live"
                             /\ src[s].ring.filling => src'[s].ring.filling,
           \A d \in Tap : tap[d].at = "published" /\ lock # Nobody =>
                          /\ tap'[d].at = "published"
                          /\ tap[d].ring.copying # NoFrame => tap'[d].ring.copying # NoFrame
    PROVE  CopyInv'
<1> USE DEF Inv
<1> SUFFICES ASSUME NEW p \in Python
             PROVE  /\ py[p].at \in {"filling", "copying"} => lock = p
                    /\ py[p].at = "filling" => /\ py[p].ring \in Source
                                               /\ src'[py[p].ring].at = "live"
                                               /\ src'[py[p].ring].ring.filling
                                               /\ py[p].to \in {0, py[p].ring}
                    /\ py[p].at = "copying" => /\ py[p].ring \in Tap
                                               /\ tap'[py[p].ring].at = "published"
                                               /\ tap'[py[p].ring].ring.copying # NoFrame
    BY DEF CopyInv
<1>1. py[p].at \in {"filling", "copying"} => lock = p /\ lock # Nobody
    BY DEF CopyInv
<1> QED BY <1>1 DEF CopyInv

(* The call of the bindings keeps its slot, whose epoch goes on, until it   *)
(* is closed for good.                                                      *)
LEMMA BindFrame ==
    ASSUME Inv, UNCHANGED <<bound, boundTo, py>>, slot' \in [Slot -> SlotType],
           \A k \in Slot : slot'[k].call = Mine =>
              \/ /\ slot[k].call = Mine
                 /\ \/ slot'[k].epoch > slot[k].epoch
                    \/ slot'[k].epoch = slot[k].epoch /\ slot[k].tx \in {0, slot'[k].tx}
              \/ call[Mine] \in {"up", "pinned"} /\ \A l \in Slot : slot[l].call # Mine,
           (\A k \in Slot : slot'[k].call # Mine) =>
              \/ call'[Mine] \in {"torn", "closed"}
              \/ call[Mine] \notin {"torn", "closed"} /\ \A k \in Slot : slot[k].call # Mine
    PROVE  BindInv'
<1> USE DEF Inv
<1>1. /\ bound \in Nat \cup {Unbound} /\ boundTo \in {0} \cup Source
      /\ \A p \in Python : py[p].epoch \in Nat \cup {Unbound} /\ py[p].to \in {0} \cup Source
  <2>1. \A p \in Python : py[p] \in PythonType
      BY DEF TypeOK
  <2> QED BY <2>1 DEF TypeOK, PythonType
<1>2. ASSUME NEW e \in Nat \cup {Unbound}, NEW to \in {0} \cup Source, Binds(e, to)
      PROVE  Binds(e, to)'
  <2>1. \A k \in Slot : slot[k].epoch \in Nat /\ slot'[k].epoch \in Nat
      BY DEF TypeOK, SlotType
  <2>2. ASSUME NEW k \in Slot, slot'[k].call = Mine
        PROVE  e <= slot'[k].epoch /\ (e = slot'[k].epoch /\ to # 0 => slot'[k].tx = to)
    <3>1. CASE slot[k].call = Mine
      <4>1. e <= slot[k].epoch /\ (e = slot[k].epoch /\ to # 0 => slot[k].tx = to)
          BY <1>2, <3>1 DEF Binds
      <4>2. \/ slot'[k].epoch > slot[k].epoch
            \/ slot'[k].epoch = slot[k].epoch /\ slot[k].tx \in {0, slot'[k].tx}
          BY <2>2, <3>1
      <4> QED BY <2>1, <4>1, <4>2 DEF Unbound
    <3>2. CASE call[Mine] \in {"up", "pinned"} /\ \A l \in Slot : slot[l].call # Mine
      <4>1. e = Unbound
          BY <1>2, <3>2 DEF Binds
      <4> QED BY <2>1, <4>1 DEF Unbound
    <3> QED BY <2>2, <3>1, <3>2
  <2>3. (\A k \in Slot : slot'[k].call # Mine) => e = Unbound \/ call'[Mine] \in {"torn", "closed"}
      BY <1>2 DEF Binds
  <2> QED BY <2>2, <2>3 DEF Binds
<1> QED BY <1>1, <1>2 DEF BindInv

(* Counting in the slots changes nothing else of them. *)
LEMMA SameBindings ==
    ASSUME Inv, UNCHANGED <<bound, boundTo, py, call>>, slot' \in [Slot -> SlotType],
           \A k \in Slot : /\ slot'[k].call = slot[k].call /\ slot'[k].epoch = slot[k].epoch
                           /\ slot'[k].tx = slot[k].tx
    PROVE  BindInv'
<1>1. \A k \in Slot : slot'[k].epoch = slot[k].epoch /\ slot[k].tx \in {0, slot'[k].tx}
    OBVIOUS
<1>2. (\A k \in Slot : slot'[k].call # Mine) =>
         \/ call'[Mine] \in {"torn", "closed"}
         \/ call[Mine] \notin {"torn", "closed"} /\ \A k \in Slot : slot[k].call # Mine
    OBVIOUS
<1> QED BY <1>1, <1>2, BindFrame

-----------------------------------------------------------------------------
(* Steps on one source, or on one filter, that bring up nothing.           *)

LEMMA SourceStep ==
    ASSUME Inv, NEW s \in Source, NEW r \in SourceType, src' = [src EXCEPT ![s] = r],
           UNCHANGED <<driver, call, tap, lock, bound, boundTo, py>>,
           slot' \in [Slot -> SlotType],
           \A k \in Slot : slot'[k] = slot[k]
                           \/ /\ slot[k].call # NoCall /\ slot'[k].call = slot[k].call
                              /\ slot'[k].epoch = slot[k].epoch
                              /\ slot'[k].tx = slot[k].tx /\ slot'[k].rx = slot[k].rx,
           r.of = src[s].of, SourceOK(r),
           \/ /\ r.at = src[s].at
              /\ r.ring.filling = src[s].ring.filling
           \/ /\ src[s].at \notin {"none", "live"}
              /\ r.at \notin {"starting", "live"}
    PROVE  Inv'
<1> USE DEF Inv
<1>1. src'[s] = r /\ \A u \in Source : u # s => src'[u] = src[u]
    BY DEF TypeOK
<1>2. src' \in [Source -> SourceType]
    BY DEF TypeOK
<1>3. RingInv'
    BY <1>1 DEF RingInv
<1>4. TypeOK'
  <2>1. (\A q \in Rings : q.rd <= q.wr /\ q.wr - q.rd <= NRing)'
      BY <1>3 DEF RingInv, SourceOK, TapOK, RingOK, Rings
  <2> QED BY <1>2, <2>1 DEF TypeOK
<1>5. \A k \in Slot : /\ slot'[k].call = slot[k].call /\ slot'[k].epoch = slot[k].epoch
                      /\ slot'[k].tx = slot[k].tx /\ slot'[k].rx = slot[k].rx
    OBVIOUS
<1>6. \A u \in Source : /\ src'[u].of = src[u].of
                        /\ src[u].at = "live" => src'[u].at = "live"
                        /\ src[u].at = "none" => src'[u].at = "none"
                        /\ src'[u].at = "starting" => src[u].at = "starting"
                        /\ src'[u].at = "live" => src[u].at = "live"
    BY <1>1
<1>7. SlotInv'
  <2>1. \A k \in Slot : slot'[k] = slot[k]
                        \/ /\ slot[k].call # NoCall /\ slot'[k].call = slot[k].call
                           /\ slot'[k].tx \in {0, slot[k].tx} /\ slot'[k].rx \in {0, slot[k].rx}
      OBVIOUS
  <2>2. \A k \in Slot : slot[k].call # NoCall =>
                        driver' # "closed" /\ call'[slot[k].call] \in {"up", "pinned", "torn"}
      BY DEF SlotInv
  <2> QED BY <1>6, <2>1, <2>2, SlotFrame
<1>8. StreamInv'
    BY <1>6, StreamFrame
<1>9. CopyInv'
  <2>1. \A u \in Source : src[u].at = "live" =>
                          /\ src'[u].at = "live"
                          /\ src[u].ring.filling => src'[u].ring.filling
      BY <1>1
  <2> QED BY <2>1, CopyFrame
<1>10. BindInv'
    BY <1>5, SameBindings
<1> QED BY <1>3, <1>4, <1>7, <1>8, <1>9, <1>10

LEMMA TapStep ==
    ASSUME Inv, NEW d \in Tap, NEW r \in TapType, tap' = [tap EXCEPT ![d] = r],
           UNCHANGED <<driver, call, src, lock, bound, boundTo, py>>,
           slot' \in [Slot -> SlotType],
           \A k \in Slot : slot'[k] = slot[k]
                           \/ /\ slot[k].call # NoCall /\ slot'[k].call = slot[k].call
                              /\ slot'[k].epoch = slot[k].epoch
                              /\ slot'[k].tx = slot[k].tx /\ slot'[k].rx = slot[k].rx,
           r.of \in Call, TapOK(r),
           \/ /\ r.at = tap[d].at /\ r.of = tap[d].of
              /\ r.ring.copying = tap[d].ring.copying
           \/ tap[d].at # "published"
    PROVE  Inv'
<1> USE DEF Inv
<1>1. tap'[d] = r /\ \A u \in Tap : u # d => tap'[u] = tap[u]
    BY DEF TypeOK
<1>2. tap' \in [Tap -> TapType]
    BY DEF TypeOK
<1>3. RingInv'
    BY <1>1 DEF RingInv
<1>4. TypeOK'
  <2>1. (\A q \in Rings : q.rd <= q.wr /\ q.wr - q.rd <= NRing)'
      BY <1>3 DEF RingInv, SourceOK, TapOK, RingOK, Rings
  <2> QED BY <1>2, <2>1 DEF TypeOK
<1>5. \A k \in Slot : /\ slot'[k].call = slot[k].call /\ slot'[k].epoch = slot[k].epoch
                      /\ slot'[k].tx = slot[k].tx /\ slot'[k].rx = slot[k].rx
    OBVIOUS
<1>6. \A u \in Tap : tap[u].at = "published" => tap'[u].at = "published" /\ tap'[u].of = tap[u].of
    BY <1>1
<1>7. SlotInv'
  <2>1. \A k \in Slot : slot'[k] = slot[k]
                        \/ /\ slot[k].call # NoCall /\ slot'[k].call = slot[k].call
                           /\ slot'[k].tx \in {0, slot[k].tx} /\ slot'[k].rx \in {0, slot[k].rx}
      OBVIOUS
  <2>2. \A k \in Slot : slot[k].call # NoCall =>
                        driver' # "closed" /\ call'[slot[k].call] \in {"up", "pinned", "torn"}
      BY DEF SlotInv
  <2>3. ASSUME NEW u \in Tap, \E k \in Slot : slot'[k].rx = u
        PROVE  (tap[u].at = "published" => tap'[u].at = "published") /\ tap'[u].of = tap[u].of
    <3>1. tap[u].at = "published"
        BY <1>5, <2>3 DEF SlotInv
    <3> QED BY <1>6, <3>1
  <2> QED BY <2>1, <2>2, <2>3, SlotFrame
<1>8. StreamInv'
    BY <1>1 DEF StreamInv, Up
<1>9. CopyInv'
  <2>1. \A u \in Tap : tap[u].at = "published" =>
                       /\ tap'[u].at = "published"
                       /\ tap[u].ring.copying # NoFrame => tap'[u].ring.copying # NoFrame
      BY <1>1
  <2> QED BY <2>1, CopyFrame
<1>10. BindInv'
    BY <1>5, SameBindings
<1> QED BY <1>3, <1>4, <1>7, <1>8, <1>9, <1>10

-----------------------------------------------------------------------------
(* The pacing thread of a source.                                          *)

LEMMA SourceFacts ==
    ASSUME Inv, NEW s \in Source
    PROVE  /\ src[s] \in SourceType /\ SourceOK(src[s]) /\ src[s].ring \in RingType
           /\ slot \in [Slot -> SlotType]
BY DEF Inv, TypeOK, RingInv, SourceOK, RingOK

LEMMA TickInv == ASSUME Inv, NEW s \in Source, Tick(s) PROVE Inv'
<1> USE DEF pyVars
<1> DEFINE q == src[s].ring
           g == BeginTake(q, Newest(q))
           n == Newest(q) - q.rd
           r == [src[s] EXCEPT !.pc = "copy", !.passed = n, !.ring = g]
<1>1. /\ src' = [src EXCEPT ![s] = r] /\ q.wr > q.rd /\ src[s].pc = "top"
      /\ UNCHANGED <<driver, call, tap, lock, bound, boundTo, py, slot>>
    BY DEF Tick, Thread
<1>2. src[s] \in SourceType /\ RingOK(q) /\ src[s].at # "none"
    BY <1>1, SourceFacts DEF SourceOK
<1>3. n \in Nat
    BY <1>1, <1>2, Takes
<1>4. RingOK(g) /\ g.copying # NoFrame
    BY <1>1, <1>2, Takes, BeginTakeOK
<1>5. g.filling = q.filling
    BY <1>1, <1>2, Takes, BeginTakeOK
<1>6. g \in RingType
    BY <1>4 DEF RingOK
<1> HIDE DEF g, n
<1>7. /\ r \in SourceType /\ r.of = src[s].of /\ r.at = src[s].at /\ r.ring = g
    BY <1>2, <1>3, <1>6 DEF SourceType
<1> HIDE DEF r
<1>8. SourceOK(r)
    BY <1>2, <1>4, <1>7 DEF SourceOK
<1>9. slot' \in [Slot -> SlotType] /\ \A k \in Slot : slot'[k] = slot[k]
    BY <1>1, SourceFacts
<1>10. r.ring.filling = src[s].ring.filling
    BY <1>5, <1>7
<1> QED BY <1>1, <1>7, <1>8, <1>9, <1>10, SourceStep

LEMMA PushInv == ASSUME Inv, NEW s \in Source, Push(s) PROVE Inv'
<1> USE DEF pyVars
<1> DEFINE g == EndTake(src[s].ring)
           r == [src[s] EXCEPT !.pc = "count", !.ring = g]
<1>1. /\ src' = [src EXCEPT ![s] = r] /\ src[s].pc = "copy"
      /\ UNCHANGED <<driver, call, tap, lock, bound, boundTo, py, slot>>
    BY DEF Push, Thread
<1>2. /\ src[s] \in SourceType /\ RingOK(src[s].ring) /\ src[s].ring.copying # NoFrame
      /\ src[s].at # "none"
    BY <1>1, SourceFacts DEF SourceOK
<1>3. RingOK(g)
    BY <1>2, EndTakeOK
<1>4. g.filling = src[s].ring.filling
    BY <1>2, EndTakeOK
<1>5. g \in RingType
    BY <1>3 DEF RingOK
<1> HIDE DEF g
<1>6. r \in SourceType /\ r.of = src[s].of /\ r.at = src[s].at /\ r.ring = g /\ r.pc = "count"
    BY <1>2, <1>5 DEF SourceType
<1> HIDE DEF r
<1>7. SourceOK(r)
    BY <1>2, <1>3, <1>6 DEF SourceOK
<1>8. slot' \in [Slot -> SlotType] /\ \A k \in Slot : slot'[k] = slot[k]
    BY <1>1, SourceFacts
<1>9. r.ring.filling = src[s].ring.filling
    BY <1>4, <1>6
<1> QED BY <1>1, <1>6, <1>7, <1>8, <1>9, SourceStep

(* A count is made in the slot of a call. *)
LEMMA CountInv == ASSUME Inv, NEW s \in Source, Count(s) PROVE Inv'
<1> USE DEF pyVars
<1> DEFINE r == [src[s] EXCEPT !.pc = "top", !.passed = 0]
<1>1. /\ src' = [src EXCEPT ![s] = r] /\ src[s].pc = "count"
      /\ UNCHANGED <<driver, call, tap, lock, bound, boundTo, py>>
    BY DEF Count, Thread
<1>2. src[s] \in SourceType /\ SourceOK(src[s]) /\ slot \in [Slot -> SlotType]
    BY SourceFacts
<1>3. /\ r \in SourceType /\ r.of = src[s].of /\ r.at = src[s].at /\ r.ring = src[s].ring
      /\ r.pc = "top"
    BY <1>2 DEF SourceType
<1> HIDE DEF r
<1>4. SourceOK(r) /\ src[s].at # "none"
    BY <1>1, <1>2, <1>3 DEF SourceOK
<1> DEFINE n(k) == slot[k].sent + 1
           m(k) == slot[k].skipped + src[s].passed
           x(k) == [slot[k] EXCEPT !.sent = n(k), !.skipped = m(k)]
<1>5. slot' = [k \in Slot |-> IF slot[k].call # src[s].of THEN slot[k] ELSE x(k)]
    BY DEF Count, Of
<1>6. ASSUME NEW k \in Slot
      PROVE  /\ x(k) \in SlotType /\ x(k).call = slot[k].call /\ x(k).epoch = slot[k].epoch
             /\ x(k).tx = slot[k].tx /\ x(k).rx = slot[k].rx
  <2>1. slot[k] \in SlotType /\ n(k) \in Nat /\ m(k) \in Nat
      BY <1>2 DEF SlotType, SourceType
  <2> HIDE DEF n, m
  <2> QED BY <2>1 DEF SlotType
<1>7. src[s].of \in Call
    BY <1>4 DEF Inv, StreamInv
<1> HIDE DEF x
<1>8. slot' \in [Slot -> SlotType]
    BY <1>2, <1>5, <1>6
<1>9. \A k \in Slot : slot'[k] = slot[k]
                      \/ /\ slot[k].call # NoCall /\ slot'[k].call = slot[k].call
                         /\ slot'[k].epoch = slot[k].epoch
                         /\ slot'[k].tx = slot[k].tx /\ slot'[k].rx = slot[k].rx
    BY <1>5, <1>6, <1>7
<1>10. r.ring.filling = src[s].ring.filling
    BY <1>3
<1> QED BY <1>1, <1>3, <1>4, <1>8, <1>9, <1>10, SourceStep

LEMMA QuitInv == ASSUME Inv, NEW s \in Source, Quit(s) PROVE Inv'
<1> USE DEF pyVars
<1> DEFINE r == [src[s] EXCEPT !.pc = "done"]
<1>1. /\ src' = [src EXCEPT ![s] = r]
      /\ UNCHANGED <<driver, call, tap, lock, bound, boundTo, py, slot>>
    BY DEF Quit, Thread
<1>2. src[s] \in SourceType /\ SourceOK(src[s])
    BY SourceFacts
<1>3. /\ r \in SourceType /\ r.of = src[s].of /\ r.at = src[s].at /\ r.ring = src[s].ring
      /\ r.pc = "done"
    BY <1>2 DEF SourceType
<1> HIDE DEF r
<1>4. SourceOK(r)
    BY <1>2, <1>3 DEF SourceOK
<1>5. slot' \in [Slot -> SlotType] /\ \A k \in Slot : slot'[k] = slot[k]
    BY <1>1, SourceFacts
<1>6. r.ring.filling = src[s].ring.filling
    BY <1>3
<1> QED BY <1>1, <1>3, <1>4, <1>5, <1>6, SourceStep

-----------------------------------------------------------------------------
(* The re thread: sources that go.                                         *)

LEMMA SrcStopInv == ASSUME Inv, NEW s \in Source, SrcStop(s) PROVE Inv'
<1> USE DEF pyVars
<1> DEFINE r == [src[s] EXCEPT !.at = "joining", !.run = FALSE]
<1>1. src[s].at = "dropping" /\ UNCHANGED <<driver, call, tap, lock, bound, boundTo, py, slot>>
    BY DEF SrcStop
<1>2. src[s] \in SourceType /\ SourceOK(src[s])
    BY SourceFacts
<1>3. src' = [src EXCEPT ![s] = r]
    BY DEF SrcStop, Inv, TypeOK
<1>4. /\ r \in SourceType /\ r.of = src[s].of /\ r.at = "joining" /\ r.ring = src[s].ring
      /\ r.pc = src[s].pc
    BY <1>2 DEF SourceType
<1> HIDE DEF r
<1>5. SourceOK(r)
    BY <1>2, <1>4 DEF SourceOK
<1>6. slot' \in [Slot -> SlotType] /\ \A k \in Slot : slot'[k] = slot[k]
    BY <1>1, SourceFacts
<1> QED BY <1>1, <1>3, <1>4, <1>5, <1>6, SourceStep

(* What is left of a source. *)
LEMMA FreedSource ==
    ASSUME Inv, NEW c \in Call \cup {NoCall}
    PROVE  LET r == [NoSource EXCEPT !.of = c, !.at = "freed"]
           IN  r \in SourceType /\ r.of = c /\ r.at = "freed" /\ SourceOK(r)
<1> DEFINE r == [NoSource EXCEPT !.of = c, !.at = "freed"]
<1>1. EmptyRing \in RingType /\ RingOK(EmptyRing)
    BY EmptyRingOK DEF RingOK
<1>2. NoSource \in SourceType /\ NoSource.ring = EmptyRing /\ NoSource.pc = "done"
    BY <1>1 DEF NoSource, SourceType
<1>3. r \in SourceType /\ r.of = c /\ r.at = "freed" /\ r.ring = EmptyRing /\ r.pc = "done"
    BY <1>2 DEF SourceType
<1> HIDE DEF r
<1>4. SourceOK(r)
    BY <1>1, <1>3 DEF SourceOK
<1> QED BY <1>3, <1>4 DEF r

LEMMA SrcFreeInv == ASSUME Inv, NEW s \in Source, SrcFree(s) PROVE Inv'
<1> USE DEF pyVars
<1> DEFINE r == [NoSource EXCEPT !.of = src[s].of, !.at = "freed"]
<1>1. /\ src[s].at \in {"joining", "inert"} /\ src' = [src EXCEPT ![s] = r]
      /\ UNCHANGED <<driver, call, tap, lock, bound, boundTo, py, slot>>
    BY DEF SrcFree
<1>2. src[s].of \in Call \cup {NoCall}
    BY SourceFacts DEF SourceType
<1>3. r \in SourceType /\ r.of = src[s].of /\ r.at = "freed" /\ SourceOK(r)
    BY <1>2, FreedSource
<1> HIDE DEF r
<1>4. slot' \in [Slot -> SlotType] /\ \A k \in Slot : slot'[k] = slot[k]
    BY <1>1, SourceFacts
<1> QED BY <1>1, <1>3, <1>4, SourceStep

-----------------------------------------------------------------------------
(* The re thread: the decode filters.                                      *)

LEMMA TapFacts ==
    ASSUME Inv, NEW d \in Tap
    PROVE  /\ tap[d] \in TapType /\ TapOK(tap[d]) /\ tap[d].ring \in RingType
           /\ tap[d].at # "none" => tap[d].of \in Call
           /\ slot \in [Slot -> SlotType]
BY DEF Inv, TypeOK, RingInv, TapOK, RingOK, StreamInv

LEMMA FreshTap ==
    ASSUME NEW c \in Call, NEW w \in {"attached", "freed"}
    PROVE  LET r == [NoTap EXCEPT !.of = c, !.at = w]
           IN  r \in TapType /\ r.of = c /\ r.at = w /\ TapOK(r)
<1> DEFINE r == [NoTap EXCEPT !.of = c, !.at = w]
<1>1. EmptyRing \in RingType /\ RingOK(EmptyRing)
    BY EmptyRingOK DEF RingOK
<1>2. NoTap \in TapType /\ NoTap.ring = EmptyRing /\ NoTap.pc = "idle"
    BY <1>1 DEF NoTap, TapType
<1>3. r \in TapType /\ r.of = c /\ r.at = w /\ r.ring = EmptyRing /\ r.pc = "idle"
    BY <1>2 DEF TapType
<1> HIDE DEF r
<1>4. TapOK(r)
    BY <1>1, <1>3 DEF TapOK
<1> QED BY <1>3, <1>4 DEF r

LEMMA DecUpdateInv == ASSUME Inv, NEW c \in Call, NEW d \in Tap, DecUpdate(c, d) PROVE Inv'
<1> USE DEF pyVars
<1> DEFINE r == [NoTap EXCEPT !.of = c, !.at = "attached"]
<1>1. /\ tap[d].at = "none" /\ tap' = [tap EXCEPT ![d] = r]
      /\ UNCHANGED <<driver, call, src, lock, bound, boundTo, py, slot>>
    BY DEF DecUpdate, NextTap
<1>2. r \in TapType /\ r.of \in Call /\ TapOK(r)
    BY FreshTap
<1> HIDE DEF r
<1>3. slot' \in [Slot -> SlotType] /\ \A k \in Slot : slot'[k] = slot[k]
    BY <1>1, TapFacts
<1>4. tap[d].at # "published"
    BY <1>1
<1> QED BY <1>1, <1>2, <1>3, <1>4, TapStep

LEMMA DecWriteInv ==
    ASSUME Inv, NEW d \in Tap, DecFrame(d) \/ DecWrite(d) \/ DecFilled(d)
    PROVE  Inv'
<1> USE DEF pyVars
<1>0. /\ tap[d] \in TapType /\ TapOK(tap[d]) /\ tap[d].ring \in RingType /\ RingOK(tap[d].ring)
      /\ slot \in [Slot -> SlotType]
    BY TapFacts DEF TapOK
<1>1. UNCHANGED <<driver, call, src, lock, bound, boundTo, py, slot>>
    BY DEF DecFrame, DecWrite, DecFilled
<1>2. slot' \in [Slot -> SlotType] /\ \A k \in Slot : slot'[k] = slot[k]
    BY <1>0, <1>1
<1>3. ASSUME NEW w \in {"idle", "write", "count", "fill"}, NEW g, RingOK(g), w = "fill" => g.filling,
             g.copying = tap[d].ring.copying, tap[d].of \in Call, tap[d].at # "none",
             tap' = [tap EXCEPT ![d] = [tap[d] EXCEPT !.pc = w, !.ring = g]]
      PROVE  Inv'
  <2> DEFINE r == [tap[d] EXCEPT !.pc = w, !.ring = g]
  <2>1. g \in RingType
      BY <1>3 DEF RingOK
  <2>2. r \in TapType /\ r.of = tap[d].of /\ r.at = tap[d].at /\ r.ring = g /\ r.pc = w
      BY <1>0, <2>1 DEF TapType
  <2>3. tap' = [tap EXCEPT ![d] = r]
      BY <1>3
  <2> HIDE DEF r
  <2>4. TapOK(r) /\ r.of \in Call
      BY <1>3, <2>2 DEF TapOK
  <2>5. r.ring.copying = tap[d].ring.copying
      BY <1>3, <2>2
  <2> QED BY <1>1, <1>2, <2>2, <2>3, <2>4, <2>5, TapStep
<1>4. tap[d].of \in Call /\ tap[d].at # "none"
  <2>1. tap[d].at # "none"
      BY <1>0 DEF DecFrame, DecWrite, DecFilled, TapOK
  <2> QED BY <2>1, TapFacts
<1>5. CASE DecFrame(d)
  <2>1. tap' = [tap EXCEPT ![d] = [tap[d] EXCEPT !.pc = "write", !.ring = tap[d].ring]]
      BY <1>0, <1>5 DEF DecFrame, TapType, Inv, TypeOK
  <2> QED BY <1>0, <1>3, <1>4, <2>1
<1>6. CASE DecWrite(d)
  <2>1. CASE tap' = [tap EXCEPT ![d].pc = "idle"]
    <3>1. tap' = [tap EXCEPT ![d] = [tap[d] EXCEPT !.pc = "idle", !.ring = tap[d].ring]]
        BY <1>0, <2>1 DEF TapType, Inv, TypeOK
    <3> QED BY <1>0, <1>3, <1>4, <3>1
  <2>2. CASE HasRoom(tap[d].ring) /\ tap' = [tap EXCEPT ![d].pc = "fill", ![d].ring = BeginFill(tap[d].ring)]
    <3>1. RingOK(BeginFill(tap[d].ring)) /\ BeginFill(tap[d].ring).filling
        BY <1>0, <2>2, BeginFillOK
    <3>2. BeginFill(tap[d].ring).copying = tap[d].ring.copying
        BY <1>0, <2>2, BeginFillOK
    <3>3. tap' = [tap EXCEPT ![d] = [tap[d] EXCEPT !.pc = "fill", !.ring = BeginFill(tap[d].ring)]]
        BY <2>2 DEF Inv, TypeOK
    <3> QED BY <1>3, <1>4, <3>1, <3>2, <3>3
  <2> QED BY <1>6, <2>1, <2>2 DEF DecWrite
<1>7. CASE DecFilled(d)
  <2>1. tap[d].pc = "fill" /\ tap' = [tap EXCEPT ![d].pc = "count", ![d].ring = EndFill(tap[d].ring)]
      BY <1>7 DEF DecFilled
  <2>2. RingOK(EndFill(tap[d].ring)) /\ EndFill(tap[d].ring).copying = tap[d].ring.copying
      BY <1>0, <2>1, EndFillOK DEF TapOK
  <2>3. tap' = [tap EXCEPT ![d] = [tap[d] EXCEPT !.pc = "count", !.ring = EndFill(tap[d].ring)]]
      BY <2>1 DEF Inv, TypeOK
  <2> QED BY <1>3, <1>4, <2>2, <2>3
<1> QED BY <1>5, <1>6, <1>7

LEMMA DecCountInv == ASSUME Inv, NEW d \in Tap, DecCount(d) PROVE Inv'
<1> USE DEF pyVars
<1> DEFINE r == [tap[d] EXCEPT !.pc = "idle"]
<1>1. /\ tap[d].pc = "count" /\ UNCHANGED <<driver, call, src, lock, bound, boundTo, py>>
    BY DEF DecCount
<1>2. tap[d] \in TapType /\ TapOK(tap[d]) /\ slot \in [Slot -> SlotType]
    BY TapFacts
<1>3. tap' = [tap EXCEPT ![d] = r]
    BY DEF DecCount, Inv, TypeOK
<1>4. r \in TapType /\ r.of = tap[d].of /\ r.at = tap[d].at /\ r.ring = tap[d].ring /\ r.pc = "idle"
    BY <1>2 DEF TapType
<1> HIDE DEF r
<1>5. TapOK(r)
    BY <1>2, <1>4 DEF TapOK
<1>6. tap[d].of \in Call
    BY <1>1, <1>2, TapFacts DEF TapOK
<1> DEFINE n(k) == slot[k].got + 1
           x(k) == [slot[k] EXCEPT !.got = n(k)]
<1>7. slot' = [k \in Slot |-> IF slot[k].call # tap[d].of THEN slot[k] ELSE x(k)]
    BY DEF DecCount, Of
<1>8. ASSUME NEW k \in Slot
      PROVE  /\ x(k) \in SlotType /\ x(k).call = slot[k].call /\ x(k).epoch = slot[k].epoch
             /\ x(k).tx = slot[k].tx /\ x(k).rx = slot[k].rx
  <2>1. slot[k] \in SlotType /\ n(k) \in Nat
      BY <1>2 DEF SlotType
  <2> HIDE DEF n
  <2> QED BY <2>1 DEF SlotType
<1> HIDE DEF x
<1>9. slot' \in [Slot -> SlotType]
    BY <1>2, <1>7, <1>8
<1>10. \A k \in Slot : slot'[k] = slot[k]
                       \/ /\ slot[k].call # NoCall /\ slot'[k].call = slot[k].call
                          /\ slot'[k].epoch = slot[k].epoch
                          /\ slot'[k].tx = slot[k].tx /\ slot'[k].rx = slot[k].rx
    BY <1>6, <1>7, <1>8
<1>11. r.of \in Call /\ r.ring.copying = tap[d].ring.copying
    BY <1>4, <1>6
<1> QED BY <1>1, <1>3, <1>4, <1>5, <1>9, <1>10, <1>11, TapStep

-----------------------------------------------------------------------------
(* The re thread: streams that leave the table.                            *)

(* What becomes of the slots when the ring of s or d leaves that of call c. *)
Leaves(c, s, d) ==
    \A k \in Slot :
        \/ slot[k].call # c /\ slot'[k] = slot[k]
        \/ /\ slot[k].call = c /\ slot'[k].call = slot[k].call
           /\ slot'[k].epoch = slot[k].epoch + 1
           /\ slot'[k].tx = IF slot[k].tx = s THEN 0 ELSE slot[k].tx
           /\ slot'[k].sent = IF slot[k].tx = s THEN 0 ELSE slot[k].sent
           /\ slot'[k].skipped = IF slot[k].tx = s THEN 0 ELSE slot[k].skipped
           /\ slot'[k].rx = IF slot[k].rx = d THEN 0 ELSE slot[k].rx
           /\ slot'[k].got = IF slot[k].rx = d THEN 0 ELSE slot[k].got

LEMMA UnpublishedSlot ==
    ASSUME Inv, NEW c \in Call, NEW s \in Source \cup {NoRing}, NEW d \in Tap \cup {NoRing},
           slot' = Unpublished(c, s, d)
    PROVE  slot' \in [Slot -> SlotType] /\ Leaves(c, s, d)
<1> DEFINE e(k) == slot[k].epoch + 1
           tx(k) == IF slot[k].tx = s THEN 0 ELSE slot[k].tx
           sent(k) == IF slot[k].tx = s THEN 0 ELSE slot[k].sent
           skipped(k) == IF slot[k].tx = s THEN 0 ELSE slot[k].skipped
           rx(k) == IF slot[k].rx = d THEN 0 ELSE slot[k].rx
           got(k) == IF slot[k].rx = d THEN 0 ELSE slot[k].got
           x(k) == [slot[k] EXCEPT !.epoch = e(k), !.tx = tx(k), !.sent = sent(k),
                                   !.skipped = skipped(k), !.rx = rx(k), !.got = got(k)]
<1>1. slot' = [k \in Slot |-> IF slot[k].call # c THEN slot[k] ELSE x(k)]
    BY DEF Unpublished, Of
<1>2. slot \in [Slot -> SlotType]
    BY DEF Inv, TypeOK
<1>3. ASSUME NEW k \in Slot
      PROVE  /\ x(k) \in SlotType /\ x(k).call = slot[k].call /\ x(k).epoch = e(k)
             /\ x(k).tx = tx(k) /\ x(k).sent = sent(k) /\ x(k).skipped = skipped(k)
             /\ x(k).rx = rx(k) /\ x(k).got = got(k)
  <2>1. /\ slot[k] \in SlotType /\ e(k) \in Nat /\ tx(k) \in {0} \cup Source
        /\ sent(k) \in Nat /\ skipped(k) \in Nat /\ rx(k) \in {0} \cup Tap /\ got(k) \in Nat
      BY <1>2, SMTT(30) DEF SlotType
  <2> HIDE DEF e, tx, sent, skipped, rx, got
  <2> QED BY <2>1 DEF SlotType
<1> HIDE DEF x
<1>4. slot' \in [Slot -> SlotType]
    BY <1>1, <1>2, <1>3
<1>5. Leaves(c, s, d)
    BY <1>1, <1>2, <1>3 DEF Leaves
<1> QED BY <1>4, <1>5

LEMMA SrcDropInv == ASSUME Inv, NEW s \in Source, SrcDrop(s) PROVE Inv'
<1> USE DEF Inv, pyVars
<1> DEFINE r == [src[s] EXCEPT !.at = "dropping"]
<1>0. src[s] \in SourceType /\ SourceOK(src[s])
    BY SourceFacts
<1>1. /\ src[s].at = "live" /\ lock = Nobody /\ slot' = Unpublished(src[s].of, s, NoRing)
      /\ UNCHANGED <<driver, call, tap, lock, bound, boundTo, py>>
    BY DEF SrcDrop, Unlocked
<1>2. src' = [src EXCEPT ![s] = r]
    BY DEF SrcDrop, TypeOK
<1>3. r \in SourceType /\ r.of = src[s].of /\ r.at = "dropping" /\ r.ring = src[s].ring /\ r.pc = src[s].pc
    BY <1>0 DEF SourceType
<1> HIDE DEF r
<1>4. SourceOK(r)
    BY <1>0, <1>3 DEF SourceOK
<1>5. src'[s] = r /\ (\A u \in Source : u # s => src'[u] = src[u]) /\ src' \in [Source -> SourceType]
    BY <1>2, <1>3 DEF TypeOK
<1>6. src[s].of \in Call
    BY <1>1 DEF StreamInv
<1>7. /\ slot' \in [Slot -> SlotType]
      /\ \A k \in Slot :
            \/ slot[k].call # src[s].of /\ slot'[k] = slot[k]
            \/ /\ slot[k].call = src[s].of /\ slot'[k].call = slot[k].call
               /\ slot'[k].epoch = slot[k].epoch + 1
               /\ slot'[k].tx = IF slot[k].tx = s THEN 0 ELSE slot[k].tx
               /\ slot'[k].rx = IF slot[k].rx = NoRing THEN 0 ELSE slot[k].rx
  <2>0. NoRing \in Tap \cup {NoRing} /\ s \in Source \cup {NoRing}
      OBVIOUS
  <2>1. slot' \in [Slot -> SlotType]
      BY <1>1, <1>6, <2>0, UnpublishedSlot
  <2>2. Leaves(src[s].of, s, NoRing)
      BY <1>1, <1>6, <2>0, UnpublishedSlot
  <2> QED BY <2>1, <2>2 DEF Leaves
<1>8. RingInv'
    BY <1>1, <1>4, <1>5 DEF RingInv
<1>9. TypeOK'
  <2>1. (\A q \in Rings : q.rd <= q.wr /\ q.wr - q.rd <= NRing)'
      BY <1>8 DEF RingInv, SourceOK, TapOK, RingOK, Rings
  <2> QED BY <1>1, <1>5, <1>7, <2>1 DEF TypeOK
<1>10. SlotInv'
  <2>1. \A k \in Slot : slot'[k] = slot[k]
                        \/ /\ slot[k].call # NoCall /\ slot'[k].call = slot[k].call
                           /\ slot'[k].tx \in {0, slot[k].tx} /\ slot'[k].rx \in {0, slot[k].rx}
      BY <1>6, <1>7
  <2>2. \A k \in Slot : slot[k].call # NoCall =>
                        driver' # "closed" /\ call'[slot[k].call] \in {"up", "pinned", "torn"}
      BY <1>1 DEF SlotInv
  <2>3. \A k \in Slot : slot'[k].tx # s
    <3>1. \A k \in Slot : slot[k].tx = s => slot[k].call = src[s].of
        BY DEF SlotInv
    <3> QED BY <1>7, <3>1
  <2>4. \A u \in Source : (\E k \in Slot : slot'[k].tx = u) => src'[u] = src[u]
      BY <1>5, <2>3
  <2> QED BY <1>1, <1>7, <2>1, <2>2, <2>4, SlotFrame
<1>11. StreamInv'
  <2>1. \A u \in Source : /\ src'[u].of = src[u].of
                          /\ src[u].at = "none" => src'[u].at = "none"
                          /\ src'[u].at = "starting" => src[u].at = "starting"
                          /\ src'[u].at = "live" => src[u].at = "live"
      BY <1>1, <1>3, <1>5
  <2> QED BY <1>1, <2>1, StreamFrame
<1>12. CopyInv'
    BY <1>1, CopyFrame
<1>13. BindInv'
  <2>1. \A k \in Slot : slot[k].epoch \in Nat
      BY DEF TypeOK, SlotType
  <2>2. \A k \in Slot : slot'[k].epoch = slot[k].epoch \/ slot'[k].epoch = slot[k].epoch + 1
      BY <1>7
  <2>3. \A k \in Slot : \/ slot'[k].epoch > slot[k].epoch
                        \/ slot'[k].epoch = slot[k].epoch /\ slot[k].tx \in {0, slot'[k].tx}
      BY <1>7, <2>1
  <2>4. \A k \in Slot : slot'[k].call = slot[k].call
      BY <1>7
  <2>5. (\A k \in Slot : slot'[k].call # Mine) =>
           \/ call'[Mine] \in {"torn", "closed"}
           \/ call[Mine] \notin {"torn", "closed"} /\ \A k \in Slot : slot[k].call # Mine
      BY <1>1, <2>4
  <2> QED BY <1>1, <1>7, <2>3, <2>4, <2>5, BindFrame
<1> QED BY <1>8, <1>9, <1>10, <1>11, <1>12, <1>13

LEMMA DecFreeInv == ASSUME Inv, NEW d \in Tap, DecFree(d) PROVE Inv'
<1> USE DEF Inv, pyVars
<1> DEFINE c == tap[d].of
           r == [NoTap EXCEPT !.of = c, !.at = "freed"]
<1>0. tap[d].at # "none" /\ c \in Call
    BY TapFacts DEF DecFree
<1>1. /\ tap' = [tap EXCEPT ![d] = r]
      /\ UNCHANGED <<driver, call, src, lock, bound, boundTo, py>>
    BY DEF DecFree
<1>2. r \in TapType /\ r.of = c /\ r.at = "freed" /\ TapOK(r)
    BY <1>0, FreshTap
<1> HIDE DEF r
<1>3. CASE tap[d].at # "published"
  <2>1. slot' = slot
      BY <1>3 DEF DecFree
  <2>2. slot' \in [Slot -> SlotType] /\ \A k \in Slot : slot'[k] = slot[k]
      BY <2>1 DEF TypeOK
  <2> QED BY <1>0, <1>1, <1>2, <1>3, <2>2, TapStep
<1>4. CASE tap[d].at = "published"
  <2>1. lock = Nobody /\ slot' = Unpublished(c, NoRing, d)
      BY <1>4 DEF DecFree, Unlocked
  <2>2. tap'[d] = r /\ (\A u \in Tap : u # d => tap'[u] = tap[u]) /\ tap' \in [Tap -> TapType]
      BY <1>1, <1>2 DEF TypeOK
  <2>3. /\ slot' \in [Slot -> SlotType]
        /\ \A k \in Slot :
              \/ slot[k].call # c /\ slot'[k] = slot[k]
              \/ /\ slot[k].call = c /\ slot'[k].call = slot[k].call
                 /\ slot'[k].epoch = slot[k].epoch + 1
                 /\ slot'[k].tx = IF slot[k].tx = NoRing THEN 0 ELSE slot[k].tx
                 /\ slot'[k].rx = IF slot[k].rx = d THEN 0 ELSE slot[k].rx
    <3>0. NoRing \in Source \cup {NoRing} /\ d \in Tap \cup {NoRing}
        OBVIOUS
    <3>1. slot' \in [Slot -> SlotType]
        BY <1>0, <2>1, <3>0, UnpublishedSlot
    <3>2. Leaves(c, NoRing, d)
        BY <1>0, <2>1, <3>0, UnpublishedSlot
    <3> QED BY <3>1, <3>2 DEF Leaves
  <2>4. RingInv'
      BY <1>1, <1>2, <2>2 DEF RingInv
  <2>5. TypeOK'
    <3>1. (\A q \in Rings : q.rd <= q.wr /\ q.wr - q.rd <= NRing)'
        BY <2>4 DEF RingInv, SourceOK, TapOK, RingOK, Rings
    <3> QED BY <1>1, <2>2, <2>3, <3>1 DEF TypeOK
  <2>6. SlotInv'
    <3>1. \A k \in Slot : slot'[k] = slot[k]
                          \/ /\ slot[k].call # NoCall /\ slot'[k].call = slot[k].call
                             /\ slot'[k].tx \in {0, slot[k].tx} /\ slot'[k].rx \in {0, slot[k].rx}
        BY <1>0, <2>3
    <3>2. \A k \in Slot : slot[k].call # NoCall =>
                          driver' # "closed" /\ call'[slot[k].call] \in {"up", "pinned", "torn"}
        BY <1>1 DEF SlotInv
    <3>3. \A k \in Slot : slot'[k].rx # d
      <4>1. \A k \in Slot : slot[k].rx = d => slot[k].call = c
          BY DEF SlotInv
      <4> QED BY <2>3, <4>1
    <3>4. \A u \in Tap : (\E k \in Slot : slot'[k].rx = u) => tap'[u] = tap[u]
        BY <2>2, <3>3
    <3> QED BY <1>1, <2>3, <3>1, <3>2, <3>4, SlotFrame
  <2>7. StreamInv'
      BY <1>0, <1>1, <1>2, <2>2 DEF StreamInv, Up
  <2>8. CopyInv'
      BY <1>1, <2>1, CopyFrame
  <2>9. BindInv'
    <3>1. \A k \in Slot : slot[k].epoch \in Nat
        BY DEF TypeOK, SlotType
    <3>2. \A k \in Slot : \/ slot'[k].epoch > slot[k].epoch
                          \/ slot'[k].epoch = slot[k].epoch /\ slot[k].tx \in {0, slot'[k].tx}
        BY <2>3, <3>1
    <3>3. \A k \in Slot : slot'[k].call = slot[k].call
        BY <2>3
    <3>4. (\A k \in Slot : slot'[k].call # Mine) =>
             \/ call'[Mine] \in {"torn", "closed"}
             \/ call[Mine] \notin {"torn", "closed"} /\ \A k \in Slot : slot[k].call # Mine
        BY <1>1, <3>3
    <3> QED BY <1>1, <2>3, <3>2, <3>3, <3>4, BindFrame
  <2> QED BY <2>4, <2>5, <2>6, <2>7, <2>8, <2>9
<1> QED BY <1>3, <1>4

-----------------------------------------------------------------------------
(* The re thread: streams that come into the table.                        *)

(* What becomes of the slots when slot k is given to call c, as r. *)
Gives(c, k, r) ==
    /\ k \in Slot /\ slot' \in [Slot -> SlotType]
    /\ slot'[k] = r /\ \A l \in Slot : l # k => slot'[l] = slot[l]
    /\ slot[k].call = c \/ slot[k] = FreeSlot
    /\ \A l, m \in Slot : slot'[l].call = slot'[m].call /\ slot'[l].call # NoCall => l = m

LEMMA GivenSlot ==
    ASSUME Inv, NEW c \in Call, NEW k \in SlotFor(c), call[c] \in {"up", "pinned"},
           UNCHANGED <<driver, call, lock, bound, boundTo, py>>,
           NEW r \in SlotType, slot' = [slot EXCEPT ![k] = r],
           r.call = c, r.epoch = slot[k].epoch, slot[k].tx \in {0, r.tx}
    PROVE  Gives(c, k, r) /\ BindInv'
<1> USE DEF Inv
<1>1. k \in Slot /\ (slot[k].call = c \/ (slot[k].call = NoCall /\ \A l \in Slot : slot[l].call # c))
    BY SlotFound
<1>2. /\ slot' \in [Slot -> SlotType]
      /\ slot'[k] = r /\ \A l \in Slot : l # k => slot'[l] = slot[l]
    BY <1>1 DEF TypeOK
<1>3. slot[k].call = c \/ slot[k] = FreeSlot
    BY <1>1 DEF SlotInv
<1>4. \A l, m \in Slot : slot'[l].call = slot'[m].call /\ slot'[l].call # NoCall => l = m
  <2>1. \A l \in Slot : l # k => slot[l].call # c
      BY <1>1 DEF SlotInv
  <2> QED BY <1>2, <2>1 DEF SlotInv
<1>5. BindInv'
  <2>1. ASSUME NEW l \in Slot, slot'[l].call = Mine
        PROVE  \/ /\ slot[l].call = Mine
                  /\ slot'[l].epoch = slot[l].epoch /\ slot[l].tx \in {0, slot'[l].tx}
               \/ call[Mine] \in {"up", "pinned"} /\ \A m \in Slot : slot[m].call # Mine
      BY <1>1, <1>2, <2>1
  <2>2. (\A l \in Slot : slot'[l].call # Mine) =>
            \/ call'[Mine] \in {"torn", "closed"}
            \/ call[Mine] \notin {"torn", "closed"} /\ \A l \in Slot : slot[l].call # Mine
    <3>1. (\A l \in Slot : slot'[l].call # Mine) => \A l \in Slot : slot[l].call # Mine
        BY <1>1, <1>2
    <3> QED BY <3>1
  <2> QED BY <1>2, <2>1, <2>2, BindFrame
<1> QED BY <1>1, <1>2, <1>3, <1>4, <1>5 DEF Gives

(* What the slots hold then is up, if what is new in slot k is. *)
LEMMA GivenSlotInv ==
    ASSUME Inv, NEW c \in Call, NEW k, NEW r \in SlotType, Gives(c, k, r), r.call = c,
           call[c] \in {"up", "pinned"}, UNCHANGED <<driver, call>>,
           \A s \in Source : src[s].at = "live" => src'[s].at = "live" /\ src'[s].of = src[s].of,
           \A d \in Tap : tap[d].at = "published" => tap'[d].at = "published" /\ tap'[d].of = tap[d].of,
           r.tx # 0 => r.tx = slot[k].tx \/ (src'[r.tx].at = "live" /\ src'[r.tx].of = c),
           r.rx # 0 => r.rx = slot[k].rx \/ (tap'[r.rx].at = "published" /\ tap'[r.rx].of = c)
    PROVE  SlotInv'
<1> USE DEF Inv
<1>1. /\ k \in Slot /\ slot' \in [Slot -> SlotType]
      /\ slot'[k] = r /\ \A l \in Slot : l # k => slot'[l] = slot[l]
    BY DEF Gives
<1>2. slot[k].call = c \/ slot[k] = FreeSlot
    BY DEF Gives
<1>3. driver # "closed" /\ c # NoCall
    BY DEF StreamInv
<1>4. \A l \in Slot : slot'[l].call = NoCall => slot'[l] = FreeSlot
    BY <1>1, <1>3 DEF SlotInv
<1>5. \A l \in Slot : slot'[l].call # NoCall =>
                      driver' # "closed" /\ call'[slot'[l].call] \in {"up", "pinned", "torn"}
    BY <1>1, <1>3 DEF SlotInv
<1>6. \A l \in Slot : slot[l].tx # 0 => /\ src'[slot[l].tx].at = "live"
                                        /\ src'[slot[l].tx].of = slot[l].call
  <2> SUFFICES ASSUME NEW l \in Slot, slot[l].tx # 0
               PROVE  src'[slot[l].tx].at = "live" /\ src'[slot[l].tx].of = slot[l].call
      OBVIOUS
  <2>1. slot[l].tx \in Source
      BY DEF TypeOK, SlotType
  <2> QED BY <2>1 DEF SlotInv
<1>7. \A l \in Slot : slot[l].rx # 0 => /\ tap'[slot[l].rx].at = "published"
                                        /\ tap'[slot[l].rx].of = slot[l].call
  <2> SUFFICES ASSUME NEW l \in Slot, slot[l].rx # 0
               PROVE  tap'[slot[l].rx].at = "published" /\ tap'[slot[l].rx].of = slot[l].call
      OBVIOUS
  <2>1. slot[l].rx \in Tap
      BY DEF TypeOK, SlotType
  <2> QED BY <2>1 DEF SlotInv
<1>8. (slot[k].tx # 0 => slot[k].call = c) /\ (slot[k].rx # 0 => slot[k].call = c)
    BY <1>2 DEF FreeSlot
<1>9. r.tx # 0 => src'[r.tx].at = "live" /\ src'[r.tx].of = c
    BY <1>1, <1>6, <1>8
<1>10. r.rx # 0 => tap'[r.rx].at = "published" /\ tap'[r.rx].of = c
    BY <1>1, <1>7, <1>8
<1>11. \A l \in Slot : slot'[l].tx # 0 => /\ src'[slot'[l].tx].at = "live"
                                          /\ src'[slot'[l].tx].of = slot'[l].call
    BY <1>1, <1>6, <1>9
<1>12. \A l \in Slot : slot'[l].rx # 0 => /\ tap'[slot'[l].rx].at = "published"
                                          /\ tap'[slot'[l].rx].of = slot'[l].call
    BY <1>1, <1>7, <1>10
<1>13. \A l, m \in Slot : slot'[l].call = slot'[m].call /\ slot'[l].call # NoCall => l = m
    BY DEF Gives
<1> QED BY <1>4, <1>5, <1>11, <1>12, <1>13 DEF SlotInv

LEMMA SrcPublishInv == ASSUME Inv, NEW s \in Source, SrcPublish(s) PROVE Inv'
<1> USE DEF Inv, pyVars
<1> DEFINE c == src[s].of
           went(w) == [src[s] EXCEPT !.at = w]
<1>0. src[s] \in SourceType /\ SourceOK(src[s]) /\ src[s].at = "starting"
    BY SourceFacts DEF SrcPublish
<1>1. /\ UNCHANGED <<driver, call, tap, lock, bound, boundTo, py>> /\ lock = Nobody
      /\ c \in Call /\ call[c] = "pinned"
    BY <1>0 DEF SrcPublish, StreamInv, Up, Unlocked
<1>2. ASSUME NEW w \in {"live", "dropping"}
      PROVE  /\ went(w) \in SourceType /\ went(w).of = c /\ went(w).at = w
             /\ went(w).ring = src[s].ring /\ went(w).pc = src[s].pc
    BY <1>0 DEF SourceType
<1>3. ASSUME NEW w \in {"live", "dropping"}
      PROVE  SourceOK(went(w))
  <2> HIDE DEF went
  <2> QED BY <1>0, <1>2 DEF SourceOK
<1>4. CASE \E k \in SlotFor(c) : /\ slot' = [slot EXCEPT ![k].call = c, ![k].tx = s]
                                 /\ src' = [src EXCEPT ![s].at = "live"]
  <2>1. PICK k \in SlotFor(c) : /\ slot' = [slot EXCEPT ![k].call = c, ![k].tx = s]
                                /\ src' = [src EXCEPT ![s].at = "live"]
      BY <1>4
  <2> DEFINE r == went("live")
             q == [slot[k] EXCEPT !.call = c, !.tx = s]
  <2>2. k \in SlotFor(c) /\ k \in Slot /\ slot[k] \in SlotType
      BY <1>1, <2>1, SlotFound DEF TypeOK
  <2>3. src' = [src EXCEPT ![s] = r] /\ slot' = [slot EXCEPT ![k] = q]
      BY <2>1, <2>2 DEF TypeOK
  <2>4. /\ r \in SourceType /\ r.of = c /\ r.at = "live" /\ r.ring = src[s].ring
        /\ SourceOK(r)
      BY <1>2, <1>3
  <2>5. q \in SlotType /\ q.call = c /\ q.epoch = slot[k].epoch /\ q.tx = s /\ q.rx = slot[k].rx
      BY <1>1, <2>2 DEF SlotType
  <2> HIDE DEF r, q, c, went
  <2>6. slot[k].tx = 0
    <3>1. slot[k].call = c \/ slot[k].call = NoCall
        BY <1>1, <2>2, SlotFound
    <3>2. CASE slot[k].call = NoCall
        BY <2>2, <3>2 DEF SlotInv, FreeSlot
    <3>3. CASE slot[k].call = c /\ slot[k].tx # 0
      <4>1. PICK u \in Source : u = slot[k].tx
          BY <2>2, <3>3 DEF SlotType
      <4>2. src[u].at = "live" /\ src[u].of = c
          BY <2>2, <3>3, <4>1 DEF SlotInv
      <4>3. u = s
          BY <1>0, <4>2 DEF StreamInv, Up, c
      <4> QED BY <1>0, <4>2, <4>3
    <3> QED BY <3>1, <3>2, <3>3
  <2>7. Gives(c, k, q)
      BY <1>1, <2>2, <2>3, <2>5, <2>6, GivenSlot
  <2>8. BindInv'
      BY <1>1, <2>2, <2>3, <2>5, <2>6, GivenSlot
  <2>9. src'[s] = r /\ (\A u \in Source : u # s => src'[u] = src[u]) /\ src' \in [Source -> SourceType]
      BY <2>3, <2>4 DEF TypeOK
  <2>10. RingInv'
      BY <1>1, <2>4, <2>9 DEF RingInv
  <2>11. TypeOK'
    <3>1. (\A g \in Rings : g.rd <= g.wr /\ g.wr - g.rd <= NRing)'
        BY <2>10 DEF RingInv, SourceOK, TapOK, RingOK, Rings
    <3>2. slot' \in [Slot -> SlotType]
        BY <2>7 DEF Gives
    <3> QED BY <1>1, <2>9, <3>1, <3>2 DEF TypeOK
  <2>12. SlotInv'
    <3>1. \A u \in Source : src[u].at = "live" => src'[u].at = "live" /\ src'[u].of = src[u].of
        BY <1>0, <2>9
    <3>2. q.tx # 0 => q.tx = slot[k].tx \/ (src'[q.tx].at = "live" /\ src'[q.tx].of = c)
        BY <2>4, <2>5, <2>9
    <3>3. q.rx # 0 => q.rx = slot[k].rx \/ (tap'[q.rx].at = "published" /\ tap'[q.rx].of = c)
        BY <2>5
    <3>4. \A d \in Tap : tap[d].at = "published" => tap'[d].at = "published" /\ tap'[d].of = tap[d].of
        BY <1>1
    <3> QED BY <1>1, <2>5, <2>7, <3>1, <3>2, <3>3, <3>4, GivenSlotInv
  <2>13. StreamInv'
    <3>1. \A u \in Source : /\ Up(u)' <=> Up(u)
                            /\ src'[u].of = src[u].of
                            /\ (src'[u].at = "starting" => src[u].at = "starting")
                            /\ (src'[u].at # "none" => src[u].at # "none")
        BY <1>0, <2>4, <2>9 DEF Up, c
    <3> QED BY <1>1, <3>1 DEF StreamInv
  <2>14. CopyInv'
      BY <1>1, CopyFrame
  <2> QED BY <2>8, <2>10, <2>11, <2>12, <2>13, <2>14
<1>5. CASE slot' = slot /\ src' = [src EXCEPT ![s].at = "dropping"]
  <2> DEFINE r == went("dropping")
  <2>1. src' = [src EXCEPT ![s] = r]
      BY <1>5 DEF TypeOK
  <2>2. r \in SourceType /\ r.of = src[s].of /\ r.at = "dropping" /\ SourceOK(r)
      BY <1>2, <1>3
  <2> HIDE DEF r, went
  <2>3. slot' \in [Slot -> SlotType] /\ \A k \in Slot : slot'[k] = slot[k]
      BY <1>5, SourceFacts
  <2>4. src[s].at \notin {"none", "live"} /\ r.at \notin {"starting", "live"}
      BY <1>0, <2>2
  <2> QED BY <1>1, <2>1, <2>2, <2>3, <2>4, SourceStep
<1> QED BY <1>4, <1>5 DEF SrcPublish

LEMMA DecPublishInv == ASSUME Inv, NEW d \in Tap, DecPublish(d) PROVE Inv'
<1> USE DEF Inv, pyVars
<1> DEFINE c == tap[d].of
<1>0. tap[d] \in TapType /\ TapOK(tap[d]) /\ tap[d].at = "attached" /\ c \in Call
    BY TapFacts DEF DecPublish
<1>1. /\ UNCHANGED <<driver, call, src, lock, bound, boundTo, py>> /\ lock = Nobody
      /\ call[c] \in {"up", "pinned"}
    BY DEF DecPublish, HasHandle, Unlocked
<1>2. CASE \E k \in SlotFor(c) : /\ slot' = [slot EXCEPT ![k].call = c, ![k].rx = d]
                                 /\ tap' = [tap EXCEPT ![d].at = "published", ![d].pc = "write"]
  <2>1. PICK k \in SlotFor(c) : /\ slot' = [slot EXCEPT ![k].call = c, ![k].rx = d]
                                /\ tap' = [tap EXCEPT ![d].at = "published", ![d].pc = "write"]
      BY <1>2
  <2> DEFINE r == [tap[d] EXCEPT !.at = "published", !.pc = "write"]
             q == [slot[k] EXCEPT !.call = c, !.rx = d]
  <2>2. k \in SlotFor(c) /\ k \in Slot /\ slot[k] \in SlotType
      BY <1>0, <2>1, SlotFound DEF TypeOK
  <2>3. tap' = [tap EXCEPT ![d] = r] /\ slot' = [slot EXCEPT ![k] = q]
      BY <2>1, <2>2 DEF TypeOK
  <2>4. /\ r \in TapType /\ r.of = c /\ r.at = "published" /\ r.ring = tap[d].ring
        /\ r.pc = "write"
      BY <1>0 DEF TapType
  <2>5. q \in SlotType /\ q.call = c /\ q.epoch = slot[k].epoch /\ q.tx = slot[k].tx /\ q.rx = d
      BY <1>0, <2>2 DEF SlotType
  <2> HIDE DEF r, q
  <2>6. TapOK(r)
      BY <1>0, <2>4 DEF TapOK
  <2> HIDE DEF c
  <2>7. Gives(c, k, q)
      BY <1>0, <1>1, <2>2, <2>3, <2>5, GivenSlot
  <2>8. BindInv'
      BY <1>0, <1>1, <2>2, <2>3, <2>5, GivenSlot
  <2>9. tap'[d] = r /\ (\A u \in Tap : u # d => tap'[u] = tap[u]) /\ tap' \in [Tap -> TapType]
      BY <2>3, <2>4 DEF TypeOK
  <2>10. RingInv'
      BY <1>1, <2>6, <2>9 DEF RingInv
  <2>11. TypeOK'
    <3>1. (\A g \in Rings : g.rd <= g.wr /\ g.wr - g.rd <= NRing)'
        BY <2>10 DEF RingInv, SourceOK, TapOK, RingOK, Rings
    <3>2. slot' \in [Slot -> SlotType]
        BY <2>7 DEF Gives
    <3> QED BY <1>1, <2>9, <3>1, <3>2 DEF TypeOK
  <2>12. SlotInv'
    <3>1. \A u \in Tap : tap[u].at = "published" => tap'[u].at = "published" /\ tap'[u].of = tap[u].of
        BY <1>0, <2>9
    <3>2. q.rx # 0 => q.rx = slot[k].rx \/ (tap'[q.rx].at = "published" /\ tap'[q.rx].of = c)
        BY <2>4, <2>5, <2>9
    <3>3. q.tx # 0 => q.tx = slot[k].tx \/ (src'[q.tx].at = "live" /\ src'[q.tx].of = c)
        BY <2>5
    <3>4. \A s \in Source : src[s].at = "live" => src'[s].at = "live" /\ src'[s].of = src[s].of
        BY <1>1
    <3> QED BY <1>0, <1>1, <2>5, <2>7, <3>1, <3>2, <3>3, <3>4, GivenSlotInv
  <2>13. StreamInv'
    <3>1. \A u \in Tap : tap'[u].of = tap[u].of /\ (tap'[u].at # "none" => tap[u].at # "none")
        BY <1>0, <2>4, <2>9 DEF c
    <3> QED BY <1>1, <3>1 DEF StreamInv, Up
  <2>14. CopyInv'
      BY <1>1, CopyFrame
  <2> QED BY <2>8, <2>10, <2>11, <2>12, <2>13, <2>14
<1>3. CASE slot' = slot /\ tap' = [tap EXCEPT ![d].at = "bypass"]
  <2> DEFINE r == [tap[d] EXCEPT !.at = "bypass"]
  <2>1. tap' = [tap EXCEPT ![d] = r]
      BY <1>3 DEF TypeOK
  <2>2. r \in TapType /\ r.of = c /\ r.at = "bypass" /\ r.ring = tap[d].ring /\ r.pc = tap[d].pc
      BY <1>0 DEF TapType
  <2> HIDE DEF r
  <2>3. TapOK(r) /\ r.of \in Call
      BY <1>0, <2>2 DEF TapOK
  <2>4. slot' \in [Slot -> SlotType] /\ \A k \in Slot : slot'[k] = slot[k]
      BY <1>3, TapFacts
  <2>5. tap[d].at # "published"
      BY <1>0
  <2> QED BY <1>1, <2>1, <2>2, <2>3, <2>4, <2>5, TapStep
<1> QED BY <1>2, <1>3 DEF DecPublish

-----------------------------------------------------------------------------
(* The re thread: calls, and sources that are made.                        *)

LEMMA ReFreeNone == ASSUME ReFree PROVE \A s \in Source : src[s].at # "starting"
BY DEF ReFree

LEMMA CallFacts ==
    ASSUME Inv
    PROVE  /\ call \in [Call -> {"none", "up", "pinned", "torn", "closed"}]
           /\ slot \in [Slot -> SlotType]
           /\ \A k \in Slot : slot[k].call \in Call \cup {NoCall} /\ slot[k].epoch \in Nat
BY DEF Inv, TypeOK, SlotType

LEMMA CallUpInv == ASSUME Inv, NEW c \in Call, CallUp(c) PROVE Inv'
<1> USE DEF Inv, pyVars
<1>1. /\ driver = "open" /\ call[c] = "none" /\ call' = [call EXCEPT ![c] = "up"] /\ ReFree
      /\ UNCHANGED <<driver, slot, src, tap, lock, bound, boundTo, py>>
    BY DEF CallUp
<1>2. /\ call'[c] = "up" /\ \A d \in Call : d # c => call'[d] = call[d]
      /\ call' \in [Call -> {"none", "up", "pinned", "torn", "closed"}]
    BY <1>1, CallFacts
<1>3. RingInv'
    BY <1>1 DEF RingInv
<1>4. TypeOK'
    BY <1>1, <1>2 DEF TypeOK, Rings
<1>5. SlotInv'
  <2>1. \A k \in Slot : slot[k].call # NoCall => slot[k].call \in Call /\ slot[k].call # c
      BY <1>1, CallFacts DEF SlotInv
  <2> QED BY <1>1, <1>2, <2>1 DEF SlotInv
<1>6. StreamInv'
    BY <1>1, <1>2, ReFreeNone DEF StreamInv, Up
<1>7. CopyInv'
    BY <1>1, CopyFrame
<1>8. BindInv'
  <2>1. slot' \in [Slot -> SlotType]
      BY <1>1, CallFacts
  <2>2. (\A k \in Slot : slot'[k].call # Mine) =>
           \/ call'[Mine] \in {"torn", "closed"}
           \/ call[Mine] \notin {"torn", "closed"} /\ \A k \in Slot : slot[k].call # Mine
      BY <1>1, <1>2
  <2> QED BY <1>1, <2>1, <2>2, BindFrame
<1> QED BY <1>3, <1>4, <1>5, <1>6, <1>7, <1>8

LEMMA CallClosedInv == ASSUME Inv, NEW c \in Call, CallClosed(c) PROVE Inv'
<1> USE DEF Inv, pyVars
<1>1. /\ driver = "open" /\ call[c] \in {"up", "pinned"} /\ call' = [call EXCEPT ![c] = "closed"]
      /\ slot' = [k \in Slot |-> IF slot[k].call = c THEN FreeSlot ELSE slot[k]] /\ ReFree
      /\ UNCHANGED <<driver, src, tap, lock, bound, boundTo, py>>
    BY DEF CallClosed, Of, HasHandle
<1>2. /\ call'[c] = "closed" /\ \A d \in Call : d # c => call'[d] = call[d]
      /\ call' \in [Call -> {"none", "up", "pinned", "torn", "closed"}]
    BY <1>1, CallFacts
<1>3. FreeSlot \in SlotType /\ FreeSlot.call = NoCall /\ FreeSlot.tx = 0 /\ FreeSlot.rx = 0
    BY DEF FreeSlot, SlotType
<1>4. /\ slot' \in [Slot -> SlotType]
      /\ \A k \in Slot : \/ slot[k].call = c /\ slot'[k] = FreeSlot
                         \/ slot[k].call # c /\ slot'[k] = slot[k]
    BY <1>1, <1>3, CallFacts
<1>5. RingInv'
    BY <1>1 DEF RingInv
<1>6. TypeOK'
    BY <1>1, <1>2, <1>4 DEF TypeOK, Rings
<1>7. SlotInv'
    BY <1>1, <1>2, <1>3, <1>4, CallFacts DEF SlotInv
<1>8. StreamInv'
    BY <1>1, <1>2, ReFreeNone DEF StreamInv, Up
<1>9. CopyInv'
    BY <1>1, CopyFrame
<1>10. BindInv'
  <2>1. \A k \in Slot : slot'[k].call = Mine => slot'[k] = slot[k]
      BY <1>3, <1>4
  <2>2. (\A k \in Slot : slot'[k].call # Mine) =>
            \/ call'[Mine] \in {"torn", "closed"}
            \/ call[Mine] \notin {"torn", "closed"} /\ \A k \in Slot : slot[k].call # Mine
      BY <1>1, <1>2, <1>4
  <2> QED BY <1>1, <1>4, <2>1, <2>2, BindFrame
<1> QED BY <1>5, <1>6, <1>7, <1>8, <1>9, <1>10

LEMMA TeardownInv == ASSUME Inv, Teardown PROVE Inv'
<1> USE DEF Inv, pyVars
<1>1. /\ driver = "open" /\ driver' = "tearing" /\ ReFree
      /\ call' = [c \in Call |-> IF call[c] \in {"up", "pinned"} THEN "torn" ELSE call[c]]
      /\ UNCHANGED <<slot, src, tap, lock, bound, boundTo, py>>
    BY DEF Teardown, HasHandle
<1>2. /\ call' \in [Call -> {"none", "up", "pinned", "torn", "closed"}]
      /\ \A c \in Call : call'[c] = IF call[c] \in {"up", "pinned"} THEN "torn" ELSE call[c]
    BY <1>1, CallFacts
<1>3. RingInv'
    BY <1>1 DEF RingInv
<1>4. TypeOK'
    BY <1>1, <1>2 DEF TypeOK, Rings
<1>5. SlotInv'
    BY <1>1, <1>2, CallFacts DEF SlotInv
<1>6. StreamInv'
    BY <1>1, <1>2, ReFreeNone DEF StreamInv, Up
<1>7. CopyInv'
    BY <1>1, CopyFrame
<1>8. BindInv'
  <2>1. slot' \in [Slot -> SlotType]
      BY <1>1, CallFacts
  <2>2. call[Mine] \in {"torn", "closed"} => call'[Mine] \in {"torn", "closed"}
      BY <1>2
  <2> QED BY <1>1, <2>1, <2>2, BindFrame
<1> QED BY <1>3, <1>4, <1>5, <1>6, <1>7, <1>8

LEMMA UnregisterInv == ASSUME Inv, Unregister PROVE Inv'
<1> USE DEF Inv, pyVars
<1>1. /\ driver = "tearing" /\ driver' = "closed"
      /\ \A s \in Source : src[s].at \in {"none", "freed"}
      /\ slot' = [k \in Slot |-> FreeSlot]
      /\ UNCHANGED <<call, src, tap, lock, bound, boundTo, py>>
    BY DEF Unregister
<1>2. FreeSlot \in SlotType /\ FreeSlot.call = NoCall /\ FreeSlot.tx = 0 /\ FreeSlot.rx = 0
    BY DEF FreeSlot, SlotType
<1>3. slot' \in [Slot -> SlotType] /\ \A k \in Slot : slot'[k] = FreeSlot
    BY <1>1, <1>2
<1>4. RingInv'
    BY <1>1 DEF RingInv
<1>5. TypeOK'
    BY <1>1, <1>3 DEF TypeOK, Rings
<1>6. SlotInv'
    BY <1>2, <1>3 DEF SlotInv
<1>7. StreamInv'
    BY <1>1 DEF StreamInv, Up
<1>8. CopyInv'
    BY <1>1, CopyFrame
<1>9. BindInv'
  <2>1. \A k \in Slot : slot'[k].call # Mine
      BY <1>2, <1>3
  <2>2. \/ call'[Mine] \in {"torn", "closed"}
        \/ call[Mine] \notin {"torn", "closed"} /\ \A k \in Slot : slot[k].call # Mine
    <3>1. call[Mine] \notin {"up", "pinned"}
        BY <1>1 DEF StreamInv
    <3>2. call[Mine] = "none" => \A k \in Slot : slot[k].call # Mine
        BY DEF SlotInv
    <3> QED BY <1>1, <3>1, <3>2, CallFacts
  <2> QED BY <1>1, <1>3, <2>1, <2>2, BindFrame
<1> QED BY <1>4, <1>5, <1>6, <1>7, <1>8, <1>9

(* A source that is made is live, and on its way to be known, or inert. *)
LEMMA MadeSource ==
    ASSUME NEW c \in Call
    PROVE  /\ LET r == Started(c)
              IN  r \in SourceType /\ r.of = c /\ r.at = "starting" /\ SourceOK(r)
           /\ LET r == [NoSource EXCEPT !.of = c, !.at = "inert"]
              IN  r \in SourceType /\ r.of = c /\ r.at = "inert" /\ SourceOK(r)
<1> DEFINE r == Started(c)
           q == [NoSource EXCEPT !.of = c, !.at = "inert"]
<1>1. EmptyRing \in RingType /\ RingOK(EmptyRing)
    BY EmptyRingOK DEF RingOK
<1>2. NoSource \in SourceType /\ NoSource.ring = EmptyRing /\ NoSource.pc = "done"
    BY <1>1 DEF NoSource, SourceType
<1>3. r \in SourceType /\ r.of = c /\ r.at = "starting" /\ r.ring = EmptyRing /\ r.pc = "top"
    BY <1>2 DEF SourceType, Started
<1>4. q \in SourceType /\ q.of = c /\ q.at = "inert" /\ q.ring = EmptyRing /\ q.pc = "done"
    BY <1>2 DEF SourceType
<1> HIDE DEF r, q
<1>5. SourceOK(r) /\ SourceOK(q)
    BY <1>1, <1>3, <1>4 DEF SourceOK
<1> QED BY <1>3, <1>4, <1>5 DEF r, q

(* Sources are made, and inert ones freed, while none is on its way. *)
LEMMA SourcesMade ==
    ASSUME Inv, ReFree, UNCHANGED <<driver, slot, tap, lock, bound, boundTo, py>>,
           src' \in [Source -> SourceType], \A s \in Source : SourceOK(src'[s]),
           NEW c \in Call,
           \A s \in Source : \/ src'[s] = src[s]
                             \/ src[s].at \in {"none", "inert"} /\ src'[s].of = c
                                /\ src'[s].at \in {"inert", "freed"}
                             \/ src[s].at = "none" /\ src'[s].of = c /\ src'[s].at = "starting",
           \A s, u \in Source : src'[s].at = "starting" /\ src'[u].at = "starting" => s = u,
           (\E s \in Source : src'[s].at = "starting") =>
              \A s \in Source : src[s].at = "live" => src[s].of # c,
           call' \in [Call -> {"none", "up", "pinned", "torn", "closed"}],
           \A s \in Source : src'[s].at = "starting" => call'[c] = "pinned",
           \A e \in Call : call'[e] = call[e] \/ (call[e] = "up" /\ call'[e] = "pinned")
    PROVE  Inv'
<1> USE DEF Inv
<1>1. RingInv'
    BY DEF RingInv
<1>2. TypeOK'
  <2>1. (\A g \in Rings : g.rd <= g.wr /\ g.wr - g.rd <= NRing)'
      BY <1>1 DEF RingInv, SourceOK, TapOK, RingOK, Rings
  <2> QED BY <2>1 DEF TypeOK
<1>3. \A s \in Source : src[s].at = "live" => src'[s] = src[s]
    OBVIOUS
<1>4. SlotInv'
  <2>1. \A k \in Slot : slot[k].call # NoCall =>
                        driver' # "closed" /\ call'[slot[k].call] \in {"up", "pinned", "torn"}
      BY CallFacts DEF SlotInv
  <2>2. \A s \in Source : (\E k \in Slot : slot'[k].tx = s) => src'[s] = src[s]
      BY <1>3 DEF SlotInv
  <2>3. slot' \in [Slot -> SlotType] /\ \A k \in Slot : slot'[k] = slot[k]
      BY CallFacts
  <2> QED BY <2>1, <2>2, <2>3, SlotFrame
<1>5. StreamInv'
  <2>1. \A s \in Source : Up(s)' => src'[s].at = "starting" \/ (src[s].at = "live" /\ src'[s] = src[s])
      BY DEF Up
  <2>2. \A s \in Source : src'[s].at = "starting" => src'[s].of = c
      BY ReFreeNone
  <2>3. \A s, u \in Source : Up(s)' /\ Up(u)' /\ src'[s].of = src'[u].of => s = u
    <3> SUFFICES ASSUME NEW s \in Source, NEW u \in Source, Up(s)', Up(u)', src'[s].of = src'[u].of
                 PROVE  s = u
        OBVIOUS
    <3>1. CASE src'[s].at = "starting"
        BY <2>1, <2>2, <3>1
    <3>2. CASE src'[u].at = "starting"
        BY <2>1, <2>2, <3>2
    <3>3. CASE src[s].at = "live" /\ src[u].at = "live"
        BY <1>3, <3>3 DEF StreamInv, Up
    <3> QED BY <2>1, <3>1, <3>2, <3>3
  <2>4. ASSUME NEW s \in Source
        PROVE  /\ src'[s].at # "none" => src'[s].of \in Call
               /\ Up(s)' => call'[src'[s].of] \in {"pinned", "torn", "closed"}
               /\ src'[s].at = "starting" => call'[src'[s].of] = "pinned"
    <3>1. src'[s].at # "none" => src'[s].of \in Call
        BY DEF StreamInv
    <3>2. CASE src'[s].at = "starting"
        BY <2>2, <3>1, <3>2
    <3>3. CASE src[s].at = "live" /\ src'[s] = src[s]
        BY <3>1, <3>3 DEF StreamInv, Up
    <3> QED BY <2>1, <3>1, <3>2, <3>3
  <2>5. \A e \in Call : call'[e] \in {"up", "pinned"} => driver = "open"
      BY DEF StreamInv
  <2> QED BY <2>3, <2>4, <2>5 DEF StreamInv
<1>6. CopyInv'
    BY <1>3, CopyFrame
<1>7. BindInv'
  <2>1. slot' \in [Slot -> SlotType] /\ \A k \in Slot : slot'[k] = slot[k]
      BY CallFacts
  <2>2. (\A k \in Slot : slot'[k].call # Mine) =>
           \/ call'[Mine] \in {"torn", "closed"}
           \/ call[Mine] \notin {"torn", "closed"} /\ \A k \in Slot : slot[k].call # Mine
      OBVIOUS
  <2> QED BY <2>1, <2>2, BindFrame
<1> QED BY <1>1, <1>2, <1>4, <1>5, <1>6, <1>7

LEMMA SrcAllocInv == ASSUME Inv, NEW c \in Call, NEW s \in Source, SrcAlloc(c, s) PROVE Inv'
<1> USE DEF pyVars
<1> DEFINE r == IF call[c] = "pinned" THEN Started(c)
                ELSE [NoSource EXCEPT !.of = c, !.at = "inert"]
<1>1. /\ ReFree /\ src[s].at = "none" /\ src' = [src EXCEPT ![s] = r]
      /\ \A u \in Source : src[u].of = c => src[u].at = "freed"
      /\ UNCHANGED <<driver, call, slot, tap, lock, bound, boundTo, py>>
    BY DEF SrcAlloc, NextSource
<1>2. /\ r \in SourceType /\ r.of = c /\ SourceOK(r)
      /\ r.at = "inert" \/ (r.at = "starting" /\ call[c] = "pinned")
    BY MadeSource
<1> HIDE DEF r
<1>3. /\ src' \in [Source -> SourceType] /\ src'[s] = r
      /\ \A u \in Source : u # s => src'[u] = src[u]
    BY <1>1, <1>2 DEF Inv, TypeOK
<1>4. \A u \in Source : SourceOK(src'[u])
    BY <1>2, <1>3, SourceFacts
<1>5. \A u \in Source : u # s => src'[u].at # "starting"
    BY <1>1, <1>3, ReFreeNone
<1>6. call' = call /\ call' \in [Call -> {"none", "up", "pinned", "torn", "closed"}]
    BY <1>1, CallFacts
<1>7. \A u \in Source : \/ src'[u] = src[u]
                        \/ src[u].at \in {"none", "inert"} /\ src'[u].of = c
                           /\ src'[u].at \in {"inert", "freed"}
                        \/ src[u].at = "none" /\ src'[u].of = c /\ src'[u].at = "starting"
    BY <1>1, <1>2, <1>3
<1>8. \A u, v \in Source : src'[u].at = "starting" /\ src'[v].at = "starting" => u = v
    BY <1>5
<1>9. \A u \in Source : src[u].at = "live" => src[u].of # c
    BY <1>1
<1>10. \A u \in Source : src'[u].at = "starting" => call'[c] = "pinned"
    BY <1>2, <1>3, <1>5, <1>6
<1> QED BY <1>1, <1>3, <1>4, <1>6, <1>7, <1>8, <1>9, <1>10, SourcesMade

LEMMA EstablishedInv == ASSUME Inv, NEW c \in Call, Established(c) PROVE Inv'
<1> USE DEF pyVars
<1>1. /\ ReFree /\ call[c] = "up" /\ call' = [call EXCEPT ![c] = "pinned"]
      /\ UNCHANGED <<driver, slot, tap, lock, bound, boundTo, py>>
    BY DEF Established
<1>2. /\ call' \in [Call -> {"none", "up", "pinned", "torn", "closed"}] /\ call'[c] = "pinned"
      /\ \A e \in Call : call'[e] = call[e] \/ (call[e] = "up" /\ call'[e] = "pinned")
    BY <1>1, CallFacts
<1>3. \A u \in Source : src[u].at = "live" => src[u].of # c
    BY <1>1 DEF Inv, StreamInv, Up
<1>4. CASE src' = src
  <2>1. src' \in [Source -> SourceType] /\ \A u \in Source : SourceOK(src'[u]) /\ src'[u] = src[u]
      BY <1>4, SourceFacts DEF Inv, TypeOK
  <2>2. \A u \in Source : src'[u].at # "starting"
      BY <1>1, <1>4, ReFreeNone
  <2> QED BY <1>1, <1>2, <1>3, <2>1, <2>2, SourcesMade
<1>5. CASE \E s \in Source :
              /\ NextSource(s)
              /\ src' = [u \in Source |->
                           IF u = s THEN Started(c)
                           ELSE IF src[u].of = c /\ src[u].at = "inert"
                                THEN [NoSource EXCEPT !.of = c, !.at = "freed"]
                                ELSE src[u]]
  <2>1. PICK s \in Source :
              /\ src[s].at = "none"
              /\ src' = [u \in Source |->
                           IF u = s THEN Started(c)
                           ELSE IF src[u].of = c /\ src[u].at = "inert"
                                THEN [NoSource EXCEPT !.of = c, !.at = "freed"]
                                ELSE src[u]]
      BY <1>5 DEF NextSource
  <2> DEFINE r == Started(c)
             q == [NoSource EXCEPT !.of = c, !.at = "freed"]
  <2>2. r \in SourceType /\ r.of = c /\ r.at = "starting" /\ SourceOK(r)
      BY MadeSource
  <2>3. q \in SourceType /\ q.of = c /\ q.at = "freed" /\ SourceOK(q)
      BY FreedSource
  <2>4. src' = [u \in Source |-> IF u = s THEN r
                                 ELSE IF src[u].of = c /\ src[u].at = "inert" THEN q ELSE src[u]]
      BY <2>1
  <2> HIDE DEF r, q
  <2>5. src' \in [Source -> SourceType] /\ \A u \in Source : SourceOK(src'[u])
      BY <2>2, <2>3, <2>4, SourceFacts
  <2>6. \A u \in Source : \/ src'[u] = src[u]
                          \/ src[u].at \in {"none", "inert"} /\ src'[u].of = c
                             /\ src'[u].at \in {"inert", "freed"}
                          \/ src[u].at = "none" /\ src'[u].of = c /\ src'[u].at = "starting"
      BY <2>1, <2>2, <2>3, <2>4
  <2>7. \A u \in Source : u # s => src'[u].at # "starting"
      BY <1>1, <2>3, <2>4, ReFreeNone
  <2>8. \A u, v \in Source : src'[u].at = "starting" /\ src'[v].at = "starting" => u = v
      BY <2>7
  <2>9. \A u \in Source : src'[u].at = "starting" => call'[c] = "pinned"
      BY <1>2
  <2> QED BY <1>1, <1>2, <1>3, <2>5, <2>6, <2>8, <2>9, SourcesMade
<1> QED BY <1>4, <1>5 DEF Established

-----------------------------------------------------------------------------
(* The Python threads: what they do outside the critical sections, and what *)
(* is refused there.                                                        *)

LEMMA BindsStay ==
    ASSUME UNCHANGED <<call, slot>>
    PROVE  \A e, to : Binds(e, to) => Binds(e, to)'
BY DEF Binds

(* Steps that change the bindings only. *)
LEMMA PyFrame ==
    ASSUME Inv, UNCHANGED <<driver, call, slot, src, tap, lock>>,
           bound' \in Nat \cup {Unbound}, boundTo' \in {0} \cup Source,
           py' \in [Python -> PythonType],
           Binds(bound', boundTo'), \A p \in Python : Binds(py'[p].epoch, py'[p].to),
           \A p \in Python : py'[p] = py[p] \/ py'[p].at \notin {"filling", "copying"}
    PROVE  Inv'
<1> USE DEF Inv
<1>1. RingInv'
    BY DEF RingInv
<1>2. TypeOK'
    BY DEF TypeOK, Rings
<1>3. SlotInv' /\ StreamInv'
    BY DEF SlotInv, StreamInv, Up
<1>4. CopyInv'
    BY DEF CopyInv
<1>5. BindInv'
    BY BindsStay DEF BindInv
<1> QED BY <1>1, <1>2, <1>3, <1>4, <1>5

(* No binding, and a thread that has none. *)
LEMMA NotBound ==
    ASSUME Inv, NEW to
    PROVE  Binds(Unbound, to)
<1>1. \A k \in Slot : slot[k].epoch \in Nat
    BY CallFacts
<1> QED BY <1>1 DEF Binds, Unbound

LEMMA IdleType == \A w \in {"idle", "probe", "bind", "fetch", "native", "unbind"} :
    /\ [Idle EXCEPT !.at = w] \in PythonType /\ [Idle EXCEPT !.at = w].at = w
    /\ [Idle EXCEPT !.at = w].epoch = Unbound /\ [Idle EXCEPT !.at = w].to = 0
BY DEF Idle, PythonType

LEMMA PyFacts ==
    ASSUME Inv, NEW p \in Python
    PROVE  /\ py \in [Python -> PythonType] /\ bound \in Nat \cup {Unbound}
           /\ boundTo \in {0} \cup Source /\ py[p] \in PythonType
           /\ Idle \in PythonType /\ Idle.at = "idle" /\ Idle.epoch = Unbound /\ Idle.to = 0
BY DEF Inv, TypeOK, Idle, PythonType

LEMMA PyInv ==
    ASSUME Inv, NEW p \in Python,
           Begin(p) \/ Probe(p) \/ Bind(p) \/ Fetch(p) \/ Unbind(p)
    PROVE  Inv'
<1> USE DEF Inv, streamVars, pyVars
<1>1. /\ UNCHANGED <<driver, call, slot, src, tap, lock>>
      /\ \E r : py' = [py EXCEPT ![p] = r]
      /\ \/ UNCHANGED <<bound, boundTo>>
         \/ bound' = py[p].epoch /\ boundTo' = py[p].to
         \/ bound' = Unbound /\ boundTo' = 0
    BY DEF Begin, Probe, Bind, Fetch, Unbind, Goes, Turns
<1>2. PICK r : py' = [py EXCEPT ![p] = r]
    BY <1>1
<1>3. bound' \in Nat \cup {Unbound} /\ boundTo' \in {0} \cup Source /\ Binds(bound', boundTo')
    BY <1>1, PyFacts, NotBound DEF BindInv, PythonType
<1>4. /\ py'[p] \in PythonType /\ Binds(py'[p].epoch, py'[p].to)
      /\ py'[p].at \notin {"filling", "copying"}
  <2>1. CASE \E w \in {"idle", "probe", "bind", "fetch", "native", "unbind"} : py'[p] = [Idle EXCEPT !.at = w]
      BY <2>1, IdleType, NotBound
  <2>2. CASE py'[p] = Idle
      BY <2>2, PyFacts, NotBound
  <2>3. CASE \E k \in Of(Mine) : py'[p] = [py[p] EXCEPT !.at = "bind", !.epoch = slot[k].epoch, !.to = slot[k].tx]
    <3>1. PICK k \in Slot : /\ slot[k].call = Mine
                            /\ py'[p] = [py[p] EXCEPT !.at = "bind", !.epoch = slot[k].epoch, !.to = slot[k].tx]
        BY <2>3 DEF Of
    <3>2. slot[k].epoch \in Nat /\ slot[k].tx \in {0} \cup Source
        BY DEF TypeOK, SlotType
    <3>3. /\ py'[p] \in PythonType /\ py'[p].epoch = slot[k].epoch /\ py'[p].to = slot[k].tx
          /\ py'[p].at = "bind"
      <4> DEFINE e == slot[k].epoch
                 s == slot[k].tx
      <4>1. py'[p] = [py[p] EXCEPT !.at = "bind", !.epoch = e, !.to = s]
          BY <3>1
      <4>2. e \in Nat /\ s \in {0} \cup Source /\ py[p] \in PythonType
          BY <3>2, PyFacts
      <4>3. py'[p] \in PythonType /\ py'[p].epoch = e /\ py'[p].to = s /\ py'[p].at = "bind"
        <5> HIDE DEF e, s
        <5> QED BY <4>1, <4>2 DEF PythonType
      <4> QED BY <4>3
    <3>4. \A l \in Slot : slot[l].call = Mine => l = k
        BY <3>1 DEF SlotInv
    <3> QED BY <3>1, <3>2, <3>3, <3>4 DEF Binds
  <2>4. CASE py'[p] = [py[p] EXCEPT !.at = "native", !.epoch = bound, !.to = boundTo]
    <3>1. /\ py'[p] \in PythonType /\ py'[p].epoch = bound /\ py'[p].to = boundTo
          /\ py'[p].at = "native"
        BY <2>4, PyFacts DEF PythonType
    <3> QED BY <3>1 DEF BindInv
  <2> QED BY <2>1, <2>2, <2>3, <2>4, PyFacts DEF Begin, Probe, Bind, Fetch, Unbind, Goes, Turns
<1>5. /\ py' \in [Python -> PythonType]
      /\ \A q \in Python : q # p => py'[q] = py[q]
    BY <1>2, <1>4, PyFacts
<1>6. \A q \in Python : Binds(py'[q].epoch, py'[q].to)
    BY <1>4, <1>5 DEF BindInv
<1>7. \A q \in Python : py'[q] = py[q] \/ py'[q].at \notin {"filling", "copying"}
    BY <1>4, <1>5
<1> QED BY <1>1, <1>3, <1>5, <1>6, <1>7, PyFrame

-----------------------------------------------------------------------------
(* The Python threads: copies under the lock.                              *)

(* Who begins a copy finds nobody else at it, and who ends one was alone. *)
LEMMA Alone ==
    ASSUME Inv, NEW p \in Python, lock \in {Nobody, p}
    PROVE  \A q \in Python : q # p => py[q].at \notin {"filling", "copying"}
BY DEF Inv, CopyInv

(* One thread's copy begins or ends: a ring of each kind at most changes. *)
LEMMA CopyStep ==
    ASSUME Inv, UNCHANGED <<driver, call, slot, bound, boundTo>>,
           src' \in [Source -> SourceType], tap' \in [Tap -> TapType],
           \A s \in Source : src'[s].at = src[s].at /\ src'[s].of = src[s].of /\ SourceOK(src'[s]),
           \A d \in Tap : tap'[d].at = tap[d].at /\ tap'[d].of = tap[d].of /\ TapOK(tap'[d]),
           lock' \in Python \cup {Nobody}, NEW p \in Python, lock \in {Nobody, p},
           NEW r \in PythonType, py' = [py EXCEPT ![p] = r], r.epoch = Unbound,
           r.at \in {"filling", "copying"} => lock' = p,
           r.at = "filling" => /\ r.ring \in Source
                               /\ src'[r.ring].at = "live" /\ src'[r.ring].ring.filling
                               /\ r.to \in {0, r.ring},
           r.at = "copying" => /\ r.ring \in Tap
                               /\ tap'[r.ring].at = "published"
                               /\ tap'[r.ring].ring.copying # NoFrame
    PROVE  Inv'
<1> USE DEF Inv
<1>1. /\ py' \in [Python -> PythonType] /\ py'[p] = r
      /\ \A q \in Python : q # p => py'[q] = py[q]
    BY PyFacts
<1>2. RingInv'
    BY DEF RingInv
<1>3. TypeOK'
  <2>1. (\A g \in Rings : g.rd <= g.wr /\ g.wr - g.rd <= NRing)'
      BY <1>2 DEF RingInv, SourceOK, TapOK, RingOK, Rings
  <2> QED BY <1>1, <2>1 DEF TypeOK
<1>4. SlotInv'
  <2>1. \A k \in Slot : slot'[k] = slot[k] /\ slot' \in [Slot -> SlotType]
      BY CallFacts
  <2>2. \A k \in Slot : slot[k].call # NoCall =>
                        driver' # "closed" /\ call'[slot[k].call] \in {"up", "pinned", "torn"}
      BY DEF SlotInv
  <2> QED BY <2>1, <2>2, CallFacts, SlotFrame
<1>5. StreamInv'
  <2>1. driver' = driver /\ call' = call
      OBVIOUS
  <2>2. ASSUME NEW s \in Source
        PROVE  /\ src'[s].at # "none" => src'[s].of \in Call
               /\ Up(s)' => call'[src'[s].of] \in {"pinned", "torn", "closed"}
               /\ src'[s].at = "starting" => call'[src'[s].of] = "pinned"
    <3>1. src'[s].at = src[s].at /\ src'[s].of = src[s].of
        OBVIOUS
    <3> QED BY <2>1, <3>1 DEF StreamInv, Up
  <2>3. ASSUME NEW s \in Source, NEW u \in Source, Up(s)', Up(u)', src'[s].of = src'[u].of
        PROVE  s = u
    <3>1. Up(s) /\ Up(u) /\ src[s].of = src[u].of
        BY <2>3 DEF Up
    <3> QED BY <3>1 DEF StreamInv
  <2>4. ASSUME NEW d \in Tap, tap'[d].at # "none"
        PROVE  tap'[d].of \in Call
    <3>1. tap'[d].at = tap[d].at /\ tap'[d].of = tap[d].of
        OBVIOUS
    <3> QED BY <2>4, <3>1 DEF StreamInv
  <2>5. \A c \in Call : call'[c] \in {"up", "pinned"} => driver' = "open"
      BY <2>1 DEF StreamInv
  <2> QED BY <2>2, <2>3, <2>4, <2>5 DEF StreamInv
<1>6. CopyInv'
    BY <1>1, Alone DEF CopyInv
<1>7. BindInv'
  <2>1. \A q \in Python : Binds(py'[q].epoch, py'[q].to)
      BY <1>1, NotBound DEF BindInv
  <2> QED BY <2>1, BindsStay DEF BindInv
<1> QED BY <1>2, <1>3, <1>4, <1>5, <1>6, <1>7

(* A ring is exchanged for another that is in order. *)
LEMMA SourceRing ==
    ASSUME Inv, NEW s \in Source, NEW g, RingOK(g), g.copying = src[s].ring.copying,
           src' = [src EXCEPT ![s].ring = g]
    PROVE  /\ src' \in [Source -> SourceType] /\ src'[s].ring = g
           /\ \A u \in Source : src'[u].at = src[u].at /\ src'[u].of = src[u].of /\ SourceOK(src'[u])
<1> DEFINE r == [src[s] EXCEPT !.ring = g]
<1>1. src[s] \in SourceType /\ SourceOK(src[s]) /\ g \in RingType
    BY SourceFacts DEF RingOK
<1>2. /\ r \in SourceType /\ r.of = src[s].of /\ r.at = src[s].at /\ r.ring = g
      /\ r.pc = src[s].pc
    BY <1>1 DEF SourceType
<1>3. src' = [src EXCEPT ![s] = r]
    BY DEF Inv, TypeOK
<1> HIDE DEF r
<1>4. SourceOK(r)
    BY <1>1, <1>2 DEF SourceOK
<1>5. /\ src' \in [Source -> SourceType] /\ src'[s] = r
      /\ \A u \in Source : u # s => src'[u] = src[u]
    BY <1>2, <1>3 DEF Inv, TypeOK
<1> QED BY <1>2, <1>4, <1>5, SourceFacts

LEMMA TapRing ==
    ASSUME Inv, NEW d \in Tap, NEW g, RingOK(g), g.filling = tap[d].ring.filling,
           tap' = [tap EXCEPT ![d].ring = g]
    PROVE  /\ tap' \in [Tap -> TapType] /\ tap'[d].ring = g
           /\ \A u \in Tap : tap'[u].at = tap[u].at /\ tap'[u].of = tap[u].of /\ TapOK(tap'[u])
<1> DEFINE r == [tap[d] EXCEPT !.ring = g]
<1>1. tap[d] \in TapType /\ TapOK(tap[d]) /\ g \in RingType
    BY TapFacts DEF RingOK
<1>2. /\ r \in TapType /\ r.of = tap[d].of /\ r.at = tap[d].at /\ r.ring = g
      /\ r.pc = tap[d].pc
    BY <1>1 DEF TapType
<1>3. tap' = [tap EXCEPT ![d] = r]
    BY DEF Inv, TypeOK
<1> HIDE DEF r
<1>4. TapOK(r)
    BY <1>1, <1>2 DEF TapOK
<1>5. /\ tap' \in [Tap -> TapType] /\ tap'[d] = r
      /\ \A u \in Tap : u # d => tap'[u] = tap[u]
    BY <1>2, <1>3 DEF Inv, TypeOK
<1> QED BY <1>2, <1>4, <1>5, TapFacts

(* Whatever ring stays as it is. *)
LEMMA RingsStay ==
    ASSUME Inv
    PROVE  /\ src' = src => /\ src' \in [Source -> SourceType]
                            /\ \A s \in Source : /\ src'[s].at = src[s].at /\ src'[s].of = src[s].of
                                                 /\ SourceOK(src'[s])
           /\ tap' = tap => /\ tap' \in [Tap -> TapType]
                            /\ \A d \in Tap : /\ tap'[d].at = tap[d].at /\ tap'[d].of = tap[d].of
                                              /\ TapOK(tap'[d])
BY DEF Inv, TypeOK, RingInv

(* The slot an accessor is granted is the call's, and has the source its    *)
(* caller was bound to, if any.                                             *)
LEMMA GrantedOurs ==
    ASSUME Inv, NEW p \in Python, NEW k \in Granted(p)
    PROVE  k \in Slot /\ slot[k].call = Mine /\ py[p].to \in {0, slot[k].tx}
BY DEF Inv, Granted, Of, BindInv, Binds

LEMMA NativeInv == ASSUME Inv, NEW p \in Python, Native(p) PROVE Inv'
<1>1. /\ lock = Nobody /\ UNCHANGED <<driver, call, slot, bound, boundTo>>
      /\ lock \in Python \cup {Nobody}
    BY DEF Native, Unlocked, Inv, TypeOK
<1>2. CASE \E r \in PythonType : /\ py' = [py EXCEPT ![p] = r] /\ r.epoch = Unbound
                                 /\ r.at \notin {"filling", "copying"}
                                 /\ UNCHANGED <<src, tap, lock>>
  <2>1. PICK r \in PythonType : /\ py' = [py EXCEPT ![p] = r] /\ r.epoch = Unbound
                                /\ r.at \notin {"filling", "copying"}
                                /\ UNCHANGED <<src, tap, lock>>
      BY <1>2
  <2>2. /\ src' \in [Source -> SourceType] /\ tap' \in [Tap -> TapType]
        /\ \A s \in Source : src'[s].at = src[s].at /\ src'[s].of = src[s].of /\ SourceOK(src'[s])
        /\ \A d \in Tap : tap'[d].at = tap[d].at /\ tap'[d].of = tap[d].of /\ TapOK(tap'[d])
      BY <2>1, RingsStay
  <2> QED BY <1>1, <2>1, <2>2, CopyStep
<1>3. CASE Granted(p) = {} /\ Turns(p, "unbind") /\ UNCHANGED <<src, tap, lock>>
  <2>1. py' = [py EXCEPT ![p] = [Idle EXCEPT !.at = "unbind"]]
      BY <1>3 DEF Turns, Goes
  <2> QED BY <1>2, <1>3, <2>1, IdleType
<1>4. CASE \E k \in Granted(p) : WriteFrame(p, k)
  <2>1. PICK k \in Granted(p) : WriteFrame(p, k)
      BY <1>4
  <2> DEFINE s == slot[k].tx
             g == BeginFill(src[s].ring)
             r == [Idle EXCEPT !.at = "filling", !.to = py[p].to, !.ring = s]
  <2>2. CASE s # 0 /\ HasRoom(src[s].ring) /\ src[s].ring.wr < MaxFrames
    <3>1. /\ src' = [src EXCEPT ![s].ring = g] /\ lock' = p /\ py' = [py EXCEPT ![p] = r]
          /\ tap' = tap
        BY <2>1, <2>2 DEF WriteFrame, Goes
    <3>2. k \in Slot /\ py[p].to \in {0, s}
        BY GrantedOurs
    <3>3. s \in Source /\ src[s].at = "live"
        BY <2>2, <3>2 DEF Inv, TypeOK, SlotType, SlotInv
    <3>4. RingOK(src[s].ring)
        BY <3>3, SourceFacts DEF SourceOK
    <3>5. RingOK(g)
        BY <2>2, <3>4, BeginFillOK
    <3>6. g.filling
        BY <2>2, <3>4, BeginFillOK
    <3>7. g.copying = src[s].ring.copying
        BY <2>2, <3>4, BeginFillOK
    <3>8. py[p].to \in {0} \cup Source
        BY PyFacts DEF PythonType
    <3>9. r \in PythonType /\ r.at = "filling" /\ r.to = py[p].to /\ r.ring = s /\ r.epoch = Unbound
      <4> HIDE DEF s
      <4> QED BY <3>3, <3>8 DEF Idle, PythonType
    <3> HIDE DEF g, r, s
    <3>10. src' \in [Source -> SourceType] /\ src'[s].ring = g
        BY <3>1, <3>3, <3>5, <3>7, SourceRing
    <3>11. \A u \in Source : src'[u].at = src[u].at /\ src'[u].of = src[u].of /\ SourceOK(src'[u])
        BY <3>1, <3>3, <3>5, <3>7, SourceRing
    <3>12. /\ tap' \in [Tap -> TapType]
           /\ \A d \in Tap : tap'[d].at = tap[d].at /\ tap'[d].of = tap[d].of /\ TapOK(tap'[d])
        BY <3>1, RingsStay
    <3>13. r.at = "filling" => /\ r.ring \in Source
                               /\ src'[r.ring].at = "live" /\ src'[r.ring].ring.filling
                               /\ r.to \in {0, r.ring}
        BY <3>2, <3>3, <3>6, <3>9, <3>10, <3>11
    <3>14. r.at # "copying" /\ lock' = p /\ lock' \in Python \cup {Nobody}
        BY <3>1, <3>9
    <3> QED BY <1>1, <3>1, <3>9, <3>10, <3>11, <3>12, <3>13, <3>14, CopyStep
  <2>3. CASE py' = [py EXCEPT ![p] = Idle] /\ UNCHANGED <<src, tap, lock>>
      BY <1>2, <2>3, PyFacts
  <2> QED BY <2>1, <2>2, <2>3 DEF WriteFrame, Goes
<1>5. CASE \E k \in Granted(p) : ReadFrame(p, k)
  <2>1. PICK k \in Granted(p) : ReadFrame(p, k)
      BY <1>5
  <2> DEFINE d == slot[k].rx
             n == Clamped(tap[d].ring)
             g == BeginTake(tap[d].ring, n)
             r == [Idle EXCEPT !.at = "copying", !.ring = d]
  <2>2. CASE d # 0 /\ tap[d].ring.wr > tap[d].ring.rd
    <3>1. /\ tap' = [tap EXCEPT ![d].ring = g] /\ lock' = p /\ py' = [py EXCEPT ![p] = r]
          /\ src' = src
        BY <2>1, <2>2 DEF ReadFrame, Goes
    <3>2. k \in Slot
        BY GrantedOurs
    <3>3. d \in Tap /\ tap[d].at = "published"
        BY <2>2, <3>2 DEF Inv, TypeOK, SlotType, SlotInv
    <3>4. RingOK(tap[d].ring)
        BY <3>3, TapFacts DEF TapOK
    <3>5. n \in Nat /\ tap[d].ring.rd <= n /\ n < tap[d].ring.wr
        BY <2>2, <3>4, Takes
    <3> HIDE DEF n
    <3>6. RingOK(g) /\ g.copying # NoFrame
        BY <3>4, <3>5, BeginTakeOK
    <3>7. g.filling = tap[d].ring.filling
        BY <3>4, <3>5, BeginTakeOK
    <3>8. r \in PythonType /\ r.at = "copying" /\ r.ring = d /\ r.epoch = Unbound
      <4> HIDE DEF d
      <4> QED BY <3>3 DEF Idle, PythonType
    <3> HIDE DEF g, r, d
    <3>9. tap' \in [Tap -> TapType] /\ tap'[d].ring = g
        BY <3>1, <3>3, <3>6, <3>7, TapRing
    <3>10. \A u \in Tap : tap'[u].at = tap[u].at /\ tap'[u].of = tap[u].of /\ TapOK(tap'[u])
        BY <3>1, <3>3, <3>6, <3>7, TapRing
    <3>11. /\ src' \in [Source -> SourceType]
           /\ \A s \in Source : src'[s].at = src[s].at /\ src'[s].of = src[s].of /\ SourceOK(src'[s])
        BY <3>1, RingsStay
    <3>12. r.at = "copying" => /\ r.ring \in Tap
                               /\ tap'[r.ring].at = "published"
                               /\ tap'[r.ring].ring.copying # NoFrame
        BY <3>3, <3>6, <3>8, <3>9, <3>10
    <3>13. r.at # "filling" /\ lock' = p /\ lock' \in Python \cup {Nobody}
        BY <3>1, <3>8
    <3> QED BY <1>1, <3>1, <3>8, <3>9, <3>10, <3>11, <3>12, <3>13, CopyStep
  <2>3. CASE py' = [py EXCEPT ![p] = Idle] /\ UNCHANGED <<src, tap, lock>>
      BY <1>2, <2>3, PyFacts
  <2> QED BY <2>1, <2>2, <2>3 DEF ReadFrame, Goes
<1> QED BY <1>3, <1>4, <1>5 DEF Native

LEMMA EndWriteInv == ASSUME Inv, NEW p \in Python, EndWrite(p) PROVE Inv'
<1> DEFINE s == py[p].ring
           g == EndFill(src[s].ring)
<1>1. /\ py[p].at = "filling" /\ src' = [src EXCEPT ![s].ring = g] /\ lock' = Nobody
      /\ py' = [py EXCEPT ![p] = Idle]
      /\ UNCHANGED <<driver, call, slot, tap, bound, boundTo>>
    BY DEF EndWrite, Goes
<1>2. lock = p /\ s \in Source /\ src[s].ring.filling
    BY <1>1 DEF Inv, CopyInv
<1>3. RingOK(src[s].ring)
    BY <1>2, SourceFacts DEF SourceOK
<1>4. RingOK(g) /\ g.copying = src[s].ring.copying
    BY <1>2, <1>3, EndFillOK
<1> HIDE DEF s, g
<1>5. /\ src' \in [Source -> SourceType]
      /\ \A u \in Source : src'[u].at = src[u].at /\ src'[u].of = src[u].of /\ SourceOK(src'[u])
    BY <1>1, <1>2, <1>4, SourceRing
<1>6. /\ tap' \in [Tap -> TapType]
      /\ \A d \in Tap : tap'[d].at = tap[d].at /\ tap'[d].of = tap[d].of /\ TapOK(tap'[d])
    BY <1>1, RingsStay
<1>7. Idle \in PythonType /\ Idle.at = "idle" /\ Idle.epoch = Unbound
    BY PyFacts
<1> QED BY <1>1, <1>2, <1>5, <1>6, <1>7, CopyStep

LEMMA EndReadInv == ASSUME Inv, NEW p \in Python, EndRead(p) PROVE Inv'
<1> DEFINE d == py[p].ring
           g == EndTake(tap[d].ring)
<1>1. /\ py[p].at = "copying" /\ tap' = [tap EXCEPT ![d].ring = g] /\ lock' = Nobody
      /\ py' = [py EXCEPT ![p] = Idle]
      /\ UNCHANGED <<driver, call, slot, src, bound, boundTo>>
    BY DEF EndRead, Goes
<1>2. lock = p /\ d \in Tap /\ tap[d].ring.copying # NoFrame
    BY <1>1 DEF Inv, CopyInv
<1>3. RingOK(tap[d].ring)
    BY <1>2, TapFacts DEF TapOK
<1>4. RingOK(g) /\ g.filling = tap[d].ring.filling
    BY <1>2, <1>3, EndTakeOK
<1> HIDE DEF d, g
<1>5. /\ tap' \in [Tap -> TapType]
      /\ \A u \in Tap : tap'[u].at = tap[u].at /\ tap'[u].of = tap[u].of /\ TapOK(tap'[u])
    BY <1>1, <1>2, <1>4, TapRing
<1>6. /\ src' \in [Source -> SourceType]
      /\ \A s \in Source : src'[s].at = src[s].at /\ src'[s].of = src[s].of /\ SourceOK(src'[s])
    BY <1>1, RingsStay
<1>7. Idle \in PythonType /\ Idle.at = "idle" /\ Idle.epoch = Unbound
    BY PyFacts
<1> QED BY <1>1, <1>2, <1>5, <1>6, <1>7, CopyStep

-----------------------------------------------------------------------------
(* Every step.                                                             *)

LEMMA StutterInv == ASSUME Inv, UNCHANGED vars PROVE Inv'
<1> USE DEF Inv, vars, pyVars
<1>1. RingInv' /\ SlotInv' /\ StreamInv'
    BY DEF RingInv, SlotInv, StreamInv, Up
<1>2. TypeOK'
    BY DEF TypeOK, Rings
<1>3. CopyInv'
    BY DEF CopyInv
<1>4. BindInv'
    BY BindsStay DEF BindInv
<1> QED BY <1>1, <1>2, <1>3, <1>4

LEMMA StepInv == Inv /\ [Next]_vars => Inv'
<1> SUFFICES ASSUME Inv, [Next]_vars PROVE Inv'
    OBVIOUS
<1>1. CASE ReThread
  <2>1. CASE \E c \in Call : CallUp(c) \/ Established(c) \/ CallClosed(c)
      BY <2>1, CallUpInv, EstablishedInv, CallClosedInv
  <2>2. CASE \E c \in Call, s \in Source : SrcAlloc(c, s)
      BY <2>2, SrcAllocInv
  <2>3. CASE \E s \in Source : SrcPublish(s) \/ SrcDrop(s) \/ SrcStop(s) \/ SrcFree(s)
      BY <2>3, SrcPublishInv, SrcDropInv, SrcStopInv, SrcFreeInv
  <2>4. CASE \E c \in Call, d \in Tap : DecUpdate(c, d)
      BY <2>4, DecUpdateInv
  <2>5. CASE \E d \in Tap : \/ DecPublish(d) \/ DecFrame(d) \/ DecWrite(d) \/ DecFilled(d)
                            \/ DecCount(d) \/ DecFree(d)
      BY <2>5, DecPublishInv, DecWriteInv, DecCountInv, DecFreeInv
  <2>6. CASE Teardown \/ Unregister
      BY <2>6, TeardownInv, UnregisterInv
  <2> QED BY <1>1, <2>1, <2>2, <2>3, <2>4, <2>5, <2>6 DEF ReThread
<1>2. CASE \E s \in Source : SrcThread(s)
    BY <1>2, TickInv, PushInv, CountInv, QuitInv DEF SrcThread
<1>3. CASE \E p \in Python : PythonThread(p)
    BY <1>3, PyInv, NativeInv, EndWriteInv, EndReadInv DEF PythonThread
<1>4. CASE UNCHANGED vars
    BY <1>4, StutterInv
<1> QED BY <1>1, <1>2, <1>3, <1>4 DEF Next

(* The types and the bounds of the rings, the table, the bindings and the   *)
(* copies in progress are in order in every state.                          *)
THEOREM Invariance == Spec => []Inv
<1>1. Init => Inv
    BY InitInv
<1>2. Inv /\ [Next]_vars => Inv'
    BY StepInv
<1> QED BY <1>1, <1>2, PTL DEF Spec

(* No Python thread reaches, or is still copying through, a ring that is    *)
(* freed or another call's (slot_unpublish before the mem_deref of a ring). *)
THEOREM SlotsHoldLiveRings == Spec => []SlotsAreLive
<1>1. Inv => SlotsAreLive
  <2>1. SUFFICES ASSUME Inv PROVE SlotsAreLive
      OBVIOUS
  <2>2. TypeOK /\ SlotInv /\ CopyInv
      BY <2>1 DEF Inv
  <2>3. \A k \in Slot :
          /\ slot[k].tx # 0 => src[slot[k].tx].at = "live" /\ src[slot[k].tx].of = slot[k].call
          /\ slot[k].rx # 0 => tap[slot[k].rx].at = "published" /\ tap[slot[k].rx].of = slot[k].call
          /\ slot[k].call # NoCall => /\ Of(slot[k].call) = {k}
                                      /\ call[slot[k].call] \in {"up", "pinned", "torn"}
                                         \/ driver = "closed"
      BY <2>2 DEF SlotInv, Of
  <2>4. \A p \in Python :
          /\ py[p].at = "filling" => src[py[p].ring].at = "live"
          /\ py[p].at = "copying" => tap[py[p].ring].at = "published"
      BY <2>2 DEF CopyInv
  <2> QED BY <2>2, <2>3, <2>4 DEF SlotsAreLive
<1> QED BY <1>1, Invariance, PTL

(* A ring that is written and read at the same time, without a common lock, *)
(* is never written where it is read (vring_write and vring_read).          *)
THEOREM FramesAreWhole == Spec => []NoTornFrame
<1>1. Inv => NoTornFrame
  <2> SUFFICES ASSUME Inv, NEW r \in Rings, r.copying # NoFrame
               PROVE  /\ r.rd <= r.copying /\ r.copying < r.wr
                      /\ r.filling => Place(r.copying) # Place(r.wr)
      BY DEF NoTornFrame
  <2>1. RingOK(r)
      BY DEF Inv, RingInv, SourceOK, TapOK, Rings
  <2>2. r.wr \in Nat /\ r.rd \in Nat /\ r.copying \in Nat /\ NRing \in Nat \ {0}
      BY <2>1 DEF RingOK, RingType
  <2>3. r.rd <= r.copying /\ r.copying < r.wr
      BY <2>1 DEF RingOK
  <2>4. ASSUME r.filling PROVE Place(r.copying) # Place(r.wr)
    <3>1. r.wr - r.rd < NRing
        BY <2>1, <2>4 DEF RingOK
    <3>2. r.wr < r.copying + NRing
        BY <2>2, <2>3, <3>1
    <3> QED BY <2>2, <2>3, <3>2, ModDistinct DEF Place
  <2> QED BY <2>3, <2>4
<1> QED BY <1>1, Invariance, PTL

(* A frame written for one source never goes out on its successor: the      *)
(* epoch tells the writer (bp_video_write, _checked).                       *)
THEOREM FramesReachTheirSource == Spec => []NoMisdirectedFrame
<1>1. Inv => NoMisdirectedFrame
    BY DEF Inv, CopyInv, NoMisdirectedFrame
<1> QED BY <1>1, Invariance, PTL

-----------------------------------------------------------------------------
(* The counters: what they need beyond Inv.                                *)

HasThread(r) == r.at \in {"starting", "live", "dropping", "joining"}
Going(r) == r.at \in {"dropping", "joining"}
Filters(r) == r.at \in {"attached", "published", "bypass"}
Housed(s) == \E k \in Slot : slot[k].tx = s
HousedTap(d) == \E k \in Slot : slot[k].rx = d
Begun == {"pinned", "torn", "closed"}

(* The pacing thread of a source: the frame it copies is the newest, hence  *)
(* what it passes over was in the ring.                                     *)
ThreadOK(r) ==
    /\ r.pc # "done" => HasThread(r)
    /\ r.at = "starting" => r.run /\ r.ring = EmptyRing /\ r.pc = "top"
    /\ r.pc = "copy" => r.passed = r.ring.copying - r.ring.rd
    /\ r.pc = "count" => r.passed < NRing

(* A call has one source with a thread, which is in its slot while it is    *)
(* live; the only way out is the end of the call.                           *)
ThreadInv ==
    /\ \A s \in Source :
          /\ ThreadOK(src[s])
          /\ HasThread(src[s]) => call[src[s].of] \in Begun
          /\ src[s].at = "live" => call[src[s].of] = "closed" \/ Housed(s)
    /\ \A s, u \in Source : HasThread(src[s]) /\ HasThread(src[u]) /\ src[s].of = src[u].of => s = u

FilterOK(r) ==
    /\ r.pc # "idle" => r.at = "published"
    /\ r.at = "attached" => r.ring.wr = 0

(* The same of the decode filters. *)
FilterInv ==
    /\ \A d \in Tap :
          /\ FilterOK(tap[d])
          /\ tap[d].at = "published" => call[tap[d].of] = "closed" \/ HousedTap(d)
    /\ \A d, e \in Tap : Filters(tap[d]) /\ Filters(tap[e]) /\ tap[d].of = tap[e].of => d = e

(* What a thread has taken off its ring and not counted yet. *)
Pushed(r) == IF r.pc = "count" THEN 1 ELSE 0
Due(r) == IF r.pc = "count" THEN r.passed + 1 ELSE 0

(* The counters of a slot and the source in it. *)
Tally(sent, skipped, r) ==
    /\ r.ring.rd <= sent + skipped + Due(r)
    /\ sent + skipped + Due(r) <= r.ring.rd + 2 * NRing
    /\ sent + Pushed(r) <= r.ring.rd + 2

(* How often a thread that is told to stop may still count: once for the    *)
(* frame in its hands, once for what it finds in its ring after it.         *)
Handed(r) == IF r.pc = "copy" THEN r.ring.copying + 1 ELSE r.ring.rd
Left(r) == (IF r.pc \in {"copy", "count"} THEN 1 ELSE 0)
           + (IF r.ring.wr > Handed(r) THEN 1 ELSE 0)

(* The counters of a slot after a source left it, whose thread goes on. *)
Leftover(sent, skipped, r) ==
    /\ sent + Left(r) <= 2
    /\ Left(r) = 1 => sent + skipped <= NRing
    /\ Left(r) = 2 => sent + skipped = 0

SentOK(k) ==
    LET r == slot[k] IN
    /\ r.tx # 0 => Tally(r.sent, r.skipped, src[r.tx])
    /\ r.tx = 0 =>
          /\ r.sent <= 2 /\ r.sent + r.skipped <= 2 * NRing
          /\ \A s \in Source : Going(src[s]) /\ src[s].of = r.call
                               => Leftover(r.sent, r.skipped, src[s])

GotOK(k) ==
    LET r == slot[k] IN
    /\ r.rx = 0 => r.got = 0
    /\ r.rx # 0 => r.got = tap[r.rx].ring.wr - Pushed(tap[r.rx])

TallyInv == \A k \in Slot : SentOK(k) /\ GotOK(k)

CountsInv == ThreadInv /\ FilterInv /\ TallyInv

(* CountersAgree is what is left of the tallies. *)
LEMMA CountsAgree == Inv /\ CountsInv => CountersAgree
<1> SUFFICES ASSUME Inv, CountsInv, NEW k \in Slot
             PROVE  /\ slot[k].tx # 0 =>
                          /\ src[slot[k].tx].pc = "top"
                                => slot[k].sent + slot[k].skipped >= src[slot[k].tx].ring.rd
                          /\ slot[k].sent + slot[k].skipped <= src[slot[k].tx].ring.rd + 2 * NRing
                          /\ slot[k].sent <= src[slot[k].tx].ring.rd + 2
                    /\ slot[k].rx # 0 =>
                          slot[k].got = tap[slot[k].rx].ring.wr
                                        - (IF tap[slot[k].rx].pc = "count" THEN 1 ELSE 0)
    BY DEF CountersAgree
<1>1. SentOK(k) /\ GotOK(k) /\ slot[k] \in SlotType
    BY DEF CountsInv, TallyInv, Inv, TypeOK
<1>2. slot[k].sent \in Nat /\ slot[k].skipped \in Nat
    BY <1>1 DEF SlotType
<1>3. ASSUME slot[k].tx # 0
      PROVE  /\ src[slot[k].tx].pc = "top"
                   => slot[k].sent + slot[k].skipped >= src[slot[k].tx].ring.rd
             /\ slot[k].sent + slot[k].skipped <= src[slot[k].tx].ring.rd + 2 * NRing
             /\ slot[k].sent <= src[slot[k].tx].ring.rd + 2
  <2> DEFINE r == src[slot[k].tx]
  <2>1. r \in SourceType /\ r.ring \in RingType
      BY <1>1, <1>3, SourceFacts DEF SlotType
  <2>2. r.passed \in Nat /\ r.ring.rd \in Nat
      BY <2>1 DEF SourceType, RingType
  <2>3. Tally(slot[k].sent, slot[k].skipped, r)
      BY <1>1, <1>3 DEF SentOK
  <2> HIDE DEF r
  <2>4. /\ r.pc = "top" => slot[k].sent + slot[k].skipped >= r.ring.rd
        /\ slot[k].sent + slot[k].skipped <= r.ring.rd + 2 * NRing
        /\ slot[k].sent <= r.ring.rd + 2
      BY <1>2, <2>2, <2>3 DEF Tally, Due, Pushed
  <2> QED BY <2>4 DEF r
<1> QED BY <1>1, <1>3 DEF GotOK, Pushed

LEMMA InitCounts == Init => CountsInv
<1> SUFFICES ASSUME Init PROVE CountsInv
    OBVIOUS
<1>1. /\ FreeSlot.tx = 0 /\ FreeSlot.rx = 0 /\ FreeSlot.sent = 0 /\ FreeSlot.skipped = 0
      /\ FreeSlot.got = 0
    BY DEF FreeSlot
<1>2. NoSource.at = "none" /\ NoSource.pc = "done" /\ NoTap.at = "none" /\ NoTap.pc = "idle"
    BY DEF NoSource, NoTap
<1>3. ThreadInv
    BY <1>2 DEF Init, ThreadInv, ThreadOK, HasThread
<1>4. FilterInv
    BY <1>2 DEF Init, FilterInv, FilterOK, Filters
<1>5. TallyInv
  <2>1. 0 <= 2 * NRing
      OBVIOUS
  <2> QED BY <1>1, <1>2, <2>1 DEF Init, TallyInv, SentOK, GotOK, Going
<1> QED BY <1>3, <1>4, <1>5 DEF CountsInv

-----------------------------------------------------------------------------
(* Calls go on.                                                            *)

Onward == \A c \in Call : /\ call[c] \in Begun => call'[c] \in Begun
                          /\ call[c] = "closed" => call'[c] = "closed"

(* No thread begins, and no source comes into a slot or leaves it live. *)
LEMMA ThreadStays ==
    ASSUME Inv, ThreadInv, Onward,
           \A s \in Source : ThreadOK(src'[s]),
           \A s \in Source : HasThread(src'[s]) => HasThread(src[s]) /\ src'[s].of = src[s].of,
           \A s \in Source : src'[s].at = "live" => src[s].at = "live",
           \A s \in Source : src'[s].at = "live" =>
              \A k \in Slot : slot[k].tx = s => slot'[k].tx = s \/ call'[src[s].of] = "closed"
    PROVE  ThreadInv'
<1>1. ASSUME NEW s \in Source, HasThread(src'[s])
      PROVE  call'[src'[s].of] \in Begun
  <2>1. src[s].of \in Call /\ call[src[s].of] \in Begun /\ src'[s].of = src[s].of
      BY <1>1 DEF Inv, StreamInv, ThreadInv, HasThread
  <2> QED BY <2>1 DEF Onward
<1>2. ASSUME NEW s \in Source, src'[s].at = "live"
      PROVE  call'[src'[s].of] = "closed" \/ Housed(s)'
  <2>1. src[s].at = "live" /\ HasThread(src'[s])
      BY <1>2 DEF HasThread
  <2>2. src[s].of \in Call /\ src'[s].of = src[s].of
      BY <2>1 DEF Inv, StreamInv
  <2>3. CASE call[src[s].of] = "closed"
      BY <2>2, <2>3 DEF Onward
  <2>4. CASE Housed(s)
      BY <1>2, <2>2, <2>4 DEF Housed
  <2> QED BY <2>1, <2>3, <2>4 DEF ThreadInv
<1>3. \A s, u \in Source : HasThread(src'[s]) /\ HasThread(src'[u]) /\ src'[s].of = src'[u].of => s = u
    BY DEF ThreadInv
<1>4. (\A s \in Source : /\ ThreadOK(src[s])
                         /\ HasThread(src[s]) => call[src[s].of] \in Begun
                         /\ src[s].at = "live" => call[src[s].of] = "closed" \/ Housed(s))'
    BY <1>1, <1>2 DEF HasThread, ThreadOK
<1> QED BY <1>3, <1>4 DEF ThreadInv, HasThread

(* No filter begins, and none comes into a slot or leaves it while it is up. *)
LEMMA FilterStays ==
    ASSUME Inv, FilterInv, Onward,
           \A d \in Tap : FilterOK(tap'[d]),
           \A d \in Tap : Filters(tap'[d]) => Filters(tap[d]) /\ tap'[d].of = tap[d].of,
           \A d \in Tap : tap'[d].at = "published" => tap[d].at = "published",
           \A d \in Tap : tap'[d].at = "published" =>
              \A k \in Slot : slot[k].rx = d => slot'[k].rx = d \/ call'[tap[d].of] = "closed"
    PROVE  FilterInv'
<1>1. ASSUME NEW d \in Tap, tap'[d].at = "published"
      PROVE  call'[tap'[d].of] = "closed" \/ HousedTap(d)'
  <2>1. tap[d].at = "published" /\ Filters(tap'[d])
      BY <1>1 DEF Filters
  <2>2. tap[d].of \in Call /\ tap'[d].of = tap[d].of
      BY <2>1 DEF Inv, StreamInv
  <2>3. CASE call[tap[d].of] = "closed"
      BY <2>2, <2>3 DEF Onward
  <2>4. CASE HousedTap(d)
      BY <1>1, <2>2, <2>4 DEF HousedTap
  <2> QED BY <2>1, <2>3, <2>4 DEF FilterInv
<1>2. \A d, e \in Tap : Filters(tap'[d]) /\ Filters(tap'[e]) /\ tap'[d].of = tap'[e].of => d = e
    BY DEF FilterInv
<1>3. (\A d \in Tap : /\ FilterOK(tap[d])
                      /\ tap[d].at = "published" => call[tap[d].of] = "closed" \/ HousedTap(d))'
    BY <1>1 DEF FilterOK
<1> QED BY <1>2, <1>3 DEF FilterInv, Filters

(* The counts of a slot for the sources, which stay as they are. *)
LEMMA SentStays ==
    ASSUME Inv, NEW k \in Slot, SentOK(k),
           slot'[k].call = slot[k].call, slot'[k].tx = slot[k].tx,
           slot'[k].sent = slot[k].sent, slot'[k].skipped = slot[k].skipped,
           \A s \in Source : slot[k].tx = s => Tally(slot[k].sent, slot[k].skipped, src'[s]),
           \A s \in Source : Going(src'[s]) /\ src'[s].of = slot[k].call =>
              Going(src[s]) /\ src'[s].of = src[s].of /\ Left(src'[s]) = Left(src[s])
    PROVE  SentOK(k)'
<1>1. slot[k].tx \in {0} \cup Source
    BY DEF Inv, TypeOK, SlotType
<1>2. ASSUME slot'[k].tx # 0
      PROVE  Tally(slot'[k].sent, slot'[k].skipped, src'[slot'[k].tx])
    BY <1>1, <1>2
<1>3. ASSUME slot'[k].tx = 0
      PROVE  /\ slot'[k].sent <= 2 /\ slot'[k].sent + slot'[k].skipped <= 2 * NRing
             /\ \A s \in Source : Going(src'[s]) /\ src'[s].of = slot'[k].call
                                  => Leftover(slot'[k].sent, slot'[k].skipped, src'[s])
  <2>1. slot[k].sent <= 2 /\ slot[k].sent + slot[k].skipped <= 2 * NRing
      BY <1>3 DEF SentOK
  <2>2. ASSUME NEW s \in Source, Going(src'[s]), src'[s].of = slot'[k].call
        PROVE  Leftover(slot'[k].sent, slot'[k].skipped, src'[s])
    <3>1. Leftover(slot[k].sent, slot[k].skipped, src[s]) /\ Left(src'[s]) = Left(src[s])
        BY <1>3, <2>2 DEF SentOK
    <3> QED BY <3>1 DEF Leftover
  <2> QED BY <2>1, <2>2
<1> QED BY <1>2, <1>3 DEF SentOK, Tally, Due, Pushed, Going, Leftover, Left, Handed

LEMMA GotStays ==
    ASSUME Inv, NEW k \in Slot, GotOK(k), slot'[k].rx = slot[k].rx, slot'[k].got = slot[k].got,
           \A d \in Tap : slot[k].rx = d => slot[k].got = tap'[d].ring.wr - Pushed(tap'[d])
    PROVE  GotOK(k)'
<1>1. slot[k].rx \in {0} \cup Tap
    BY DEF Inv, TypeOK, SlotType
<1> QED BY <1>1 DEF GotOK, Pushed

LEMMA FreeCounts ==
    ASSUME NEW k \in Slot, slot'[k] = FreeSlot, \A s \in Source : Going(src'[s]) => src'[s].of # NoCall
    PROVE  SentOK(k)' /\ GotOK(k)'
<1>1. /\ slot'[k].tx = 0 /\ slot'[k].rx = 0 /\ slot'[k].sent = 0 /\ slot'[k].skipped = 0
      /\ slot'[k].got = 0 /\ slot'[k].call = NoCall
    BY DEF FreeSlot
<1>2. 0 <= 2 * NRing
    OBVIOUS
<1> QED BY <1>1, <1>2 DEF SentOK, GotOK, Going
-----------------------------------------------------------------------------
(* Steps that leave the table as it is.                                    *)

LEMMA SourceCounts ==
    ASSUME Inv, CountsInv, UNCHANGED <<call, slot, tap>>,
           NEW s \in Source, NEW r \in SourceType, src' = [src EXCEPT ![s] = r],
           ThreadOK(r), r.of = src[s].of, HasThread(r) => HasThread(src[s]),
           r.at = "live" => src[s].at = "live",
           Going(r) => Going(src[s]) /\ Left(r) = Left(src[s]),
           \A k \in Slot : slot[k].tx = s => Tally(slot[k].sent, slot[k].skipped, r)
    PROVE  CountsInv'
<1> USE DEF CountsInv
<1>1. src'[s] = r /\ \A u \in Source : u # s => src'[u] = src[u]
    BY DEF Inv, TypeOK
<1>2. Onward
    BY DEF Onward
<1>3. ThreadInv'
  <2>1. \A u \in Source : ThreadOK(src'[u])
      BY <1>1 DEF ThreadInv
  <2>2. \A u \in Source : HasThread(src'[u]) => HasThread(src[u]) /\ src'[u].of = src[u].of
      BY <1>1
  <2>3. \A u \in Source : src'[u].at = "live" => src[u].at = "live"
      BY <1>1
  <2> QED BY <1>2, <2>1, <2>2, <2>3, ThreadStays
<1>4. FilterInv'
    BY <1>2, FilterStays DEF FilterInv
<1>5. ASSUME NEW k \in Slot
      PROVE  SentOK(k)' /\ GotOK(k)'
  <2>1. SentOK(k) /\ GotOK(k)
      BY DEF TallyInv
  <2>2. \A u \in Source : slot[k].tx = u => Tally(slot[k].sent, slot[k].skipped, src'[u])
      BY <1>1, <2>1 DEF SentOK
  <2>3. \A u \in Source : Going(src'[u]) =>
           Going(src[u]) /\ src'[u].of = src[u].of /\ Left(src'[u]) = Left(src[u])
      BY <1>1
  <2>4. SentOK(k)'
      BY <2>1, <2>2, <2>3, SentStays
  <2>5. \A d \in Tap : slot[k].rx = d => slot[k].got = tap'[d].ring.wr - Pushed(tap'[d])
      BY <2>1 DEF GotOK
  <2>6. GotOK(k)'
      BY <2>1, <2>5, GotStays
  <2> QED BY <2>4, <2>6
<1> QED BY <1>3, <1>4, <1>5 DEF TallyInv

LEMMA TapCounts ==
    ASSUME Inv, CountsInv, UNCHANGED <<call, slot, src>>,
           NEW d \in Tap, NEW r \in TapType, tap' = [tap EXCEPT ![d] = r],
           FilterOK(r), r.of = tap[d].of, Filters(r) => Filters(tap[d]),
           r.at = "published" => tap[d].at = "published",
           \A k \in Slot : slot[k].rx = d => slot[k].got = r.ring.wr - Pushed(r)
    PROVE  CountsInv'
<1> USE DEF CountsInv
<1>1. tap'[d] = r /\ \A u \in Tap : u # d => tap'[u] = tap[u]
    BY DEF Inv, TypeOK
<1>2. Onward
    BY DEF Onward
<1>3. FilterInv'
  <2>1. \A u \in Tap : FilterOK(tap'[u])
      BY <1>1 DEF FilterInv
  <2>2. \A u \in Tap : Filters(tap'[u]) => Filters(tap[u]) /\ tap'[u].of = tap[u].of
      BY <1>1
  <2>3. \A u \in Tap : tap'[u].at = "published" => tap[u].at = "published"
      BY <1>1
  <2> QED BY <1>2, <2>1, <2>2, <2>3, FilterStays
<1>4. ThreadInv'
    BY <1>2, ThreadStays DEF ThreadInv
<1>5. ASSUME NEW k \in Slot
      PROVE  SentOK(k)' /\ GotOK(k)'
  <2>1. SentOK(k) /\ GotOK(k)
      BY DEF TallyInv
  <2>2. \A u \in Source : slot[k].tx = u => Tally(slot[k].sent, slot[k].skipped, src'[u])
      BY <2>1 DEF SentOK
  <2>4. SentOK(k)'
      BY <2>1, <2>2, SentStays
  <2>5. \A u \in Tap : slot[k].rx = u => slot[k].got = tap'[u].ring.wr - Pushed(tap'[u])
      BY <1>1, <2>1 DEF GotOK
  <2>6. GotOK(k)'
      BY <2>1, <2>5, GotStays
  <2> QED BY <2>4, <2>6
<1> QED BY <1>3, <1>4, <1>5 DEF TallyInv

-----------------------------------------------------------------------------
(* The pacing thread.                                                      *)

(* What the counts of a slot say of the source in it. *)
LEMMA InSlot ==
    ASSUME Inv, CountsInv, NEW k \in Slot, NEW s \in Source, slot[k].tx = s
    PROVE  /\ Tally(slot[k].sent, slot[k].skipped, src[s])
           /\ slot[k].sent \in Nat /\ slot[k].skipped \in Nat
<1>1. slot[k] \in SlotType /\ SentOK(k) /\ s # 0
    BY DEF Inv, TypeOK, CountsInv, TallyInv
<1>2. slot[k].sent \in Nat /\ slot[k].skipped \in Nat
    BY <1>1 DEF SlotType
<1> QED BY <1>1, <1>2 DEF SentOK

LEMMA TickCounts == ASSUME Inv, CountsInv, NEW s \in Source, Tick(s) PROVE CountsInv'
<1> USE DEF pyVars
<1> DEFINE q == src[s].ring
           g == BeginTake(q, Newest(q))
           n == Newest(q) - q.rd
           r == [src[s] EXCEPT !.pc = "copy", !.passed = n, !.ring = g]
<1>1. /\ src' = [src EXCEPT ![s] = r] /\ q.wr > q.rd /\ src[s].pc = "top"
      /\ UNCHANGED <<call, tap, slot>>
    BY DEF Tick, Thread
<1>2. src[s] \in SourceType /\ RingOK(q) /\ q \in RingType
    BY SourceFacts DEF SourceOK
<1>3. n \in Nat /\ Newest(q) \in Nat /\ Newest(q) = q.wr - 1
    BY <1>1, <1>2, Takes DEF Newest
<1>4. g \in RingType /\ g.wr = q.wr /\ g.rd = q.rd /\ g.copying = Newest(q)
  <2> DEFINE m == Newest(q)
  <2>1. m \in Nat
      BY <1>3
  <2> HIDE DEF m
  <2>2. LET x == BeginTake(q, m) IN x \in RingType /\ x.wr = q.wr /\ x.rd = q.rd /\ x.copying = m
      BY <1>2, <2>1 DEF BeginTake, RingType
  <2> QED BY <2>2 DEF m
<1>5. n = g.copying - g.rd /\ g.copying + 1 = g.wr
    BY <1>1, <1>2, <1>3, <1>4 DEF RingType
<1> HIDE DEF g, n
<1>6. /\ r \in SourceType /\ r.of = src[s].of /\ r.at = src[s].at /\ r.ring = g
      /\ r.pc = "copy" /\ r.passed = n
    BY <1>2, <1>3, <1>4 DEF SourceType
<1> HIDE DEF r
<1>7. HasThread(src[s]) /\ src[s].at # "starting"
  <2>1. ThreadOK(src[s])
      BY DEF CountsInv, ThreadInv
  <2>2. EmptyRing.wr = 0 /\ EmptyRing.rd = 0
      BY DEF EmptyRing
  <2> QED BY <1>1, <2>1, <2>2 DEF ThreadOK
<1>8. ThreadOK(r)
    BY <1>5, <1>6, <1>7 DEF ThreadOK, HasThread
<1>9. Left(r) = Left(src[s])
  <2>1. Left(src[s]) = 1
      BY <1>1, <1>2 DEF Left, Handed, RingType
  <2>2. Left(r) = 1
      BY <1>4, <1>5, <1>6 DEF Left, Handed, RingType
  <2> QED BY <2>1, <2>2
<1>10. ASSUME NEW k \in Slot, slot[k].tx = s
       PROVE  Tally(slot[k].sent, slot[k].skipped, r)
  <2>1. Tally(slot[k].sent, slot[k].skipped, src[s])
      BY <1>10, InSlot
  <2> QED BY <1>1, <1>4, <1>6, <2>1 DEF Tally, Due, Pushed
<1> QED BY <1>1, <1>6, <1>7, <1>8, <1>9, <1>10, SourceCounts DEF HasThread, Going

LEMMA PushCounts == ASSUME Inv, CountsInv, NEW s \in Source, Push(s) PROVE CountsInv'
<1> USE DEF pyVars
<1> DEFINE q == src[s].ring
           g == EndTake(q)
           r == [src[s] EXCEPT !.pc = "count", !.ring = g]
<1>1. /\ src' = [src EXCEPT ![s] = r] /\ src[s].pc = "copy" /\ UNCHANGED <<call, tap, slot>>
    BY DEF Push, Thread
<1>2. /\ src[s] \in SourceType /\ RingOK(q) /\ q \in RingType /\ q.copying # NoFrame
    BY <1>1, SourceFacts DEF SourceOK
<1>3. /\ q.rd \in Nat /\ q.wr \in Nat /\ q.copying \in Nat /\ q.rd <= q.copying /\ q.copying < q.wr
      /\ q.wr - q.rd <= NRing /\ src[s].passed \in Nat
    BY <1>2 DEF RingOK, RingType, SourceType
<1>4. g \in RingType /\ g.wr = q.wr /\ g.rd = q.copying + 1
  <2> DEFINE m == q.copying + 1
             x == [q EXCEPT !.rd = m, !.copying = NoFrame]
  <2>1. m \in Nat /\ g = x
      BY <1>3 DEF EndTake
  <2> HIDE DEF m, g
  <2>2. x \in RingType /\ x.wr = q.wr /\ x.rd = m
      BY <1>2, <2>1 DEF RingType
  <2> QED BY <2>1, <2>2 DEF m
<1> HIDE DEF g
<1>5. /\ r \in SourceType /\ r.of = src[s].of /\ r.at = src[s].at /\ r.ring = g
      /\ r.pc = "count" /\ r.passed = src[s].passed
    BY <1>2, <1>4 DEF SourceType
<1> HIDE DEF r
<1>6. ThreadOK(src[s])
    BY DEF CountsInv, ThreadInv
<1>7. HasThread(src[s]) /\ src[s].at # "starting" /\ src[s].passed = q.copying - q.rd
    BY <1>1, <1>6 DEF ThreadOK
<1>8. ThreadOK(r)
  <2>1. r.passed < NRing
      BY <1>3, <1>5, <1>7
  <2> QED BY <1>5, <1>7, <2>1 DEF ThreadOK, HasThread
<1>9. Left(r) = Left(src[s])
  <2>1. Handed(src[s]) = q.copying + 1
      BY <1>1 DEF Handed
  <2>2. Handed(r) = q.copying + 1
      BY <1>4, <1>5 DEF Handed
  <2> QED BY <1>1, <1>4, <1>5, <2>1, <2>2 DEF Left
<1>10. ASSUME NEW k \in Slot, slot[k].tx = s
       PROVE  Tally(slot[k].sent, slot[k].skipped, r)
  <2>1. /\ Tally(slot[k].sent, slot[k].skipped, src[s])
        /\ slot[k].sent \in Nat /\ slot[k].skipped \in Nat
      BY <1>10, InSlot
  <2>2. Due(src[s]) = 0 /\ Pushed(src[s]) = 0 /\ Due(r) = src[s].passed + 1 /\ Pushed(r) = 1
      BY <1>1, <1>5 DEF Due, Pushed
  <2> HIDE DEF q
  <2>3. r.ring.rd = q.rd + src[s].passed + 1
      BY <1>3, <1>4, <1>5, <1>7
  <2>4. src[s].ring = q
      BY DEF q
  <2> QED BY <1>3, <2>1, <2>2, <2>3, <2>4 DEF Tally
<1> QED BY <1>1, <1>5, <1>7, <1>8, <1>9, <1>10, SourceCounts DEF HasThread, Going

LEMMA QuitCounts == ASSUME Inv, CountsInv, NEW s \in Source, Quit(s) PROVE CountsInv'
<1> USE DEF pyVars
<1> DEFINE r == [src[s] EXCEPT !.pc = "done"]
<1>1. src' = [src EXCEPT ![s] = r] /\ src[s].pc = "top" /\ ~src[s].run /\ UNCHANGED <<call, tap, slot>>
    BY DEF Quit, Thread
<1>2. src[s] \in SourceType
    BY SourceFacts
<1>3. /\ r \in SourceType /\ r.of = src[s].of /\ r.at = src[s].at /\ r.ring = src[s].ring
      /\ r.pc = "done"
    BY <1>2 DEF SourceType
<1> HIDE DEF r
<1>4. ThreadOK(src[s])
    BY DEF CountsInv, ThreadInv
<1>5. ThreadOK(r)
    BY <1>1, <1>3, <1>4 DEF ThreadOK, HasThread
<1>6. Left(r) = Left(src[s])
    BY <1>1, <1>3 DEF Left, Handed
<1>7. ASSUME NEW k \in Slot, slot[k].tx = s
      PROVE  Tally(slot[k].sent, slot[k].skipped, r)
    BY <1>1, <1>3, <1>7, InSlot DEF Tally, Due, Pushed
<1> QED BY <1>1, <1>3, <1>5, <1>6, <1>7, SourceCounts DEF HasThread, Going

LEMMA SrcStopCounts == ASSUME Inv, CountsInv, NEW s \in Source, SrcStop(s) PROVE CountsInv'
<1> USE DEF pyVars
<1> DEFINE r == [src[s] EXCEPT !.at = "joining", !.run = FALSE]
<1>1. src[s].at = "dropping" /\ UNCHANGED <<call, tap, slot>>
    BY DEF SrcStop
<1>2. src[s] \in SourceType
    BY SourceFacts
<1>3. src' = [src EXCEPT ![s] = r]
    BY DEF SrcStop, Inv, TypeOK
<1>4. /\ r \in SourceType /\ r.of = src[s].of /\ r.at = "joining" /\ r.ring = src[s].ring
      /\ r.pc = src[s].pc /\ r.passed = src[s].passed
    BY <1>2 DEF SourceType
<1> HIDE DEF r
<1>5. ThreadOK(src[s])
    BY DEF CountsInv, ThreadInv
<1>6. ThreadOK(r)
    BY <1>4, <1>5 DEF ThreadOK, HasThread
<1>7. Left(r) = Left(src[s])
    BY <1>4 DEF Left, Handed
<1>8. \A k \in Slot : slot[k].tx # s
    BY <1>1 DEF Inv, SlotInv
<1> QED BY <1>1, <1>3, <1>4, <1>6, <1>7, <1>8, SourceCounts DEF HasThread, Going

LEMMA SrcFreeCounts == ASSUME Inv, CountsInv, NEW s \in Source, SrcFree(s) PROVE CountsInv'
<1> USE DEF pyVars
<1> DEFINE r == [NoSource EXCEPT !.of = src[s].of, !.at = "freed"]
<1>1. /\ src[s].at \in {"joining", "inert"} /\ src' = [src EXCEPT ![s] = r]
      /\ UNCHANGED <<call, tap, slot>>
    BY DEF SrcFree
<1>2. src[s].of \in Call \cup {NoCall}
    BY SourceFacts DEF SourceType
<1>3. r \in SourceType /\ r.of = src[s].of /\ r.at = "freed"
    BY <1>2, FreedSource
<1>4. r.pc = "done"
    BY DEF NoSource
<1> HIDE DEF r
<1>5. ThreadOK(r)
    BY <1>3, <1>4 DEF ThreadOK
<1>6. \A k \in Slot : slot[k].tx # s
    BY <1>1 DEF Inv, SlotInv
<1> QED BY <1>1, <1>3, <1>5, <1>6, SourceCounts DEF HasThread, Going
-----------------------------------------------------------------------------
(* Whose slot it is.                                                       *)

(* The slot of a call with a live source has that source in it. *)
LEMMA LiveHoused ==
    ASSUME Inv, CountsInv, NEW s \in Source, src[s].at = "live",
           NEW k \in Slot, slot[k].call = src[s].of
    PROVE  slot[k].tx = s
<1>1. src[s].of \in Call /\ src[s].of # NoCall
    BY DEF Inv, StreamInv
<1>2. call[src[s].of] # "closed"
    BY <1>1 DEF Inv, SlotInv
<1>3. PICK l \in Slot : slot[l].tx = s
    BY <1>2 DEF CountsInv, ThreadInv, Housed
<1>4. slot[l].call = src[s].of
    BY <1>3 DEF Inv, SlotInv
<1> QED BY <1>1, <1>3, <1>4 DEF Inv, SlotInv

LEMMA PublishedHoused ==
    ASSUME Inv, CountsInv, NEW d \in Tap, tap[d].at = "published",
           NEW k \in Slot, slot[k].call = tap[d].of
    PROVE  slot[k].rx = d
<1>1. tap[d].of \in Call /\ tap[d].of # NoCall
    BY DEF Inv, StreamInv
<1>2. call[tap[d].of] # "closed"
    BY <1>1 DEF Inv, SlotInv
<1>3. PICK l \in Slot : slot[l].rx = d
    BY <1>2 DEF CountsInv, FilterInv, HousedTap
<1>4. slot[l].call = tap[d].of
    BY <1>3 DEF Inv, SlotInv
<1> QED BY <1>1, <1>3, <1>4 DEF Inv, SlotInv

(* What is in the slot of a call with a thread is the source of that thread. *)
LEMMA ThreadOwns ==
    ASSUME Inv, CountsInv, NEW s \in Source, HasThread(src[s]),
           NEW k \in Slot, slot[k].call = src[s].of
    PROVE  slot[k].tx \in {0, s}
<1> SUFFICES ASSUME slot[k].tx # 0 PROVE slot[k].tx = s
    OBVIOUS
<1>1. PICK u \in Source : u = slot[k].tx
    BY DEF Inv, TypeOK, SlotType
<1>2. src[u].at = "live" /\ src[u].of = src[s].of
    BY <1>1 DEF Inv, SlotInv
<1> QED BY <1>1, <1>2 DEF CountsInv, ThreadInv, HasThread

LEMMA FilterOwns ==
    ASSUME Inv, CountsInv, NEW d \in Tap, Filters(tap[d]),
           NEW k \in Slot, slot[k].call = tap[d].of
    PROVE  slot[k].rx \in {0, d}
<1> SUFFICES ASSUME slot[k].rx # 0 PROVE slot[k].rx = d
    OBVIOUS
<1>1. PICK u \in Tap : u = slot[k].rx
    BY DEF Inv, TypeOK, SlotType
<1>2. tap[u].at = "published" /\ tap[u].of = tap[d].of
    BY <1>1 DEF Inv, SlotInv
<1> QED BY <1>1, <1>2 DEF CountsInv, FilterInv, Filters

(* The count of a thread whose source has left: one of those it had left. *)
LEMMA CountsLeftover ==
    ASSUME NEW sent \in Nat, NEW skipped \in Nat, NEW r \in SourceType, NEW q \in SourceType,
           NRing \in Nat, ThreadOK(r), r.pc = "count", q.pc = "top", q.ring = r.ring,
           Leftover(sent, skipped, r)
    PROVE  /\ Leftover(sent + 1, skipped + r.passed, q)
           /\ sent + 1 <= 2 /\ sent + 1 + skipped + r.passed <= 2 * NRing
<1>1. r.passed \in Nat /\ r.passed < NRing
    BY DEF SourceType, ThreadOK
<1>2. Left(r) = Left(q) + 1 /\ Left(q) \in {0, 1}
    BY DEF Left, Handed
<1> QED BY <1>1, <1>2 DEF Leftover

LEMMA CountCounts == ASSUME Inv, CountsInv, NEW s \in Source, Count(s) PROVE CountsInv'
<1> USE DEF CountsInv, pyVars
<1> DEFINE c == src[s].of
           p == src[s].passed
           r == [src[s] EXCEPT !.pc = "top", !.passed = 0]
<1>1. /\ src' = [src EXCEPT ![s] = r] /\ src[s].pc = "count" /\ UNCHANGED <<call, tap>>
    BY DEF Count, Thread
<1>2. src[s] \in SourceType /\ slot \in [Slot -> SlotType] /\ p \in Nat
    BY SourceFacts DEF SourceType
<1>3. /\ r \in SourceType /\ r.of = c /\ r.at = src[s].at /\ r.ring = src[s].ring
      /\ r.pc = "top" /\ r.passed = 0
    BY <1>2 DEF SourceType
<1> HIDE DEF r, p
<1>4. src'[s] = r /\ \A u \in Source : u # s => src'[u] = src[u]
    BY <1>1 DEF Inv, TypeOK
<1>5. ThreadOK(src[s]) /\ HasThread(src[s]) /\ src[s].at # "starting"
    BY <1>1 DEF ThreadInv, ThreadOK
<1>6. ThreadOK(r)
    BY <1>3, <1>5 DEF ThreadOK, HasThread
<1> DEFINE n(k) == slot[k].sent + 1
           m(k) == slot[k].skipped + p
           x(k) == [slot[k] EXCEPT !.sent = n(k), !.skipped = m(k)]
<1>7. slot' = [k \in Slot |-> IF slot[k].call # c THEN slot[k] ELSE x(k)]
    BY DEF Count, Of, p
<1>8. ASSUME NEW k \in Slot
      PROVE  /\ x(k).call = slot[k].call /\ x(k).tx = slot[k].tx /\ x(k).rx = slot[k].rx
             /\ x(k).sent = slot[k].sent + 1 /\ x(k).skipped = slot[k].skipped + p
             /\ x(k).got = slot[k].got
  <2>1. slot[k] \in SlotType /\ n(k) \in Nat /\ m(k) \in Nat
      BY <1>2 DEF SlotType
  <2>2. /\ x(k).call = slot[k].call /\ x(k).tx = slot[k].tx /\ x(k).rx = slot[k].rx
        /\ x(k).sent = n(k) /\ x(k).skipped = m(k) /\ x(k).got = slot[k].got
    <3> HIDE DEF n, m
    <3> QED BY <2>1 DEF SlotType
  <2> QED BY <2>2
<1> HIDE DEF x, c
<1>9. Onward
    BY <1>1 DEF Onward
<1>10. \A k \in Slot : slot'[k].call = slot[k].call /\ slot'[k].tx = slot[k].tx
                       /\ slot'[k].rx = slot[k].rx /\ slot'[k].got = slot[k].got
    BY <1>7, <1>8
<1>11. ThreadInv'
  <2>1. \A u \in Source : ThreadOK(src'[u])
      BY <1>4, <1>6 DEF ThreadInv
  <2>2. \A u \in Source : HasThread(src'[u]) => HasThread(src[u]) /\ src'[u].of = src[u].of
      BY <1>3, <1>4, <1>5 DEF c
  <2>3. \A u \in Source : src'[u].at = "live" => src[u].at = "live"
      BY <1>3, <1>4
  <2> QED BY <1>9, <1>10, <2>1, <2>2, <2>3, ThreadStays
<1>12. FilterInv'
    BY <1>1, <1>9, <1>10, FilterStays DEF FilterInv
<1>13. ASSUME NEW k \in Slot
       PROVE  GotOK(k)'
  <2>1. GotOK(k)
      BY DEF TallyInv
  <2>2. \A d \in Tap : slot[k].rx = d => slot[k].got = tap'[d].ring.wr - Pushed(tap'[d])
      BY <1>1, <2>1 DEF GotOK
  <2> QED BY <1>10, <2>1, <2>2, GotStays
<1>14. ASSUME NEW k \in Slot, slot[k].call # c
       PROVE  SentOK(k)'
  <2>1. SentOK(k) /\ slot'[k] = slot[k]
      BY <1>7, <1>14 DEF TallyInv
  <2>2. \A u \in Source : slot[k].tx = u => Tally(slot[k].sent, slot[k].skipped, src'[u])
    <3>1. slot[k].tx # s
        BY <1>14 DEF Inv, SlotInv, c
    <3> QED BY <1>4, <2>1, <3>1 DEF SentOK
  <2>3. \A u \in Source : Going(src'[u]) /\ src'[u].of = slot[k].call =>
           Going(src[u]) /\ src'[u].of = src[u].of /\ Left(src'[u]) = Left(src[u])
      BY <1>3, <1>4, <1>14
  <2> QED BY <2>1, <2>2, <2>3, SentStays
<1>15. ASSUME NEW k \in Slot, slot[k].call = c
       PROVE  SentOK(k)'
  <2> DEFINE a == slot[k].sent
             b == slot[k].skipped
  <2>0. SentOK(k) /\ a \in Nat /\ b \in Nat
      BY <1>2 DEF TallyInv, SlotType
  <2>1. /\ slot'[k].tx = slot[k].tx /\ slot'[k].call = c
        /\ slot'[k].sent = a + 1 /\ slot'[k].skipped = b + p
      BY <1>7, <1>8, <1>15
  <2>2. slot[k].tx \in {0, s}
      BY <1>5, <1>15, ThreadOwns DEF c
  <2>3. ASSUME slot[k].tx = s
        PROVE  Tally(slot'[k].sent, slot'[k].skipped, src'[s])
    <3>1. Tally(a, b, src[s])
        BY <2>3, InSlot
    <3>2. Due(src[s]) = p + 1 /\ Pushed(src[s]) = 1 /\ Due(r) = 0 /\ Pushed(r) = 0
        BY <1>1, <1>3 DEF Due, Pushed, p
    <3>3. src[s].ring.rd \in Nat /\ r.ring.rd = src[s].ring.rd
        BY <1>3, SourceFacts DEF RingType
    <3> HIDE DEF a, b
    <3>4. Tally(a + 1, b + p, r)
        BY <1>2, <2>0, <3>1, <3>2, <3>3 DEF Tally
    <3> QED BY <1>4, <2>1, <3>4
  <2>4. ASSUME slot[k].tx = 0
        PROVE  /\ slot'[k].sent <= 2 /\ slot'[k].sent + slot'[k].skipped <= 2 * NRing
               /\ \A u \in Source : Going(src'[u]) /\ src'[u].of = c
                                    => Leftover(slot'[k].sent, slot'[k].skipped, src'[u])
    <3>1. src[s].at # "live"
        BY <1>15, <2>4, LiveHoused DEF c
    <3>2. Going(src[s])
        BY <1>5, <3>1 DEF HasThread, Going
    <3>3. Leftover(a, b, src[s])
        BY <1>15, <2>0, <2>4, <3>2 DEF SentOK, c
    <3>4. NRing \in Nat
        OBVIOUS
    <3> HIDE DEF a, b
    <3>5. /\ Leftover(a + 1, b + p, r)
          /\ a + 1 <= 2 /\ a + 1 + b + p <= 2 * NRing
        BY <1>1, <1>2, <1>3, <1>5, <2>0, <3>3, <3>4, CountsLeftover DEF p
    <3>6. \A u \in Source : Going(src'[u]) /\ src'[u].of = c => u = s
      <4>1. \A u \in Source : u # s /\ Going(src'[u]) /\ src'[u].of = c =>
                              HasThread(src[u]) /\ src[u].of = c
          BY <1>4 DEF HasThread, Going
      <4> QED BY <1>5, <4>1 DEF ThreadInv, c
    <3>7. a + 1 + (b + p) = a + 1 + b + p
        BY <1>2, <2>0
    <3> QED BY <1>4, <2>1, <3>5, <3>6, <3>7
  <2>5. slot'[k].tx # 0 => Tally(slot'[k].sent, slot'[k].skipped, src'[slot'[k].tx])
      BY <2>1, <2>2, <2>3
  <2> QED BY <2>1, <2>4, <2>5 DEF SentOK, Tally, Due, Pushed, Going, Leftover, Left, Handed
<1> QED BY <1>11, <1>12, <1>13, <1>14, <1>15 DEF TallyInv
-----------------------------------------------------------------------------
(* The re thread: sources come into the table and leave it.                *)

LEMMA NoneCounted == \A r : Leftover(0, 0, r)
<1> TAKE r
<1>1. Left(r) \in {0, 1, 2}
    BY DEF Left
<1>2. 0 <= NRing
    OBVIOUS
<1> QED BY <1>1, <1>2 DEF Leftover

LEMMA SrcPublishCounts == ASSUME Inv, CountsInv, NEW s \in Source, SrcPublish(s) PROVE CountsInv'
<1> USE DEF CountsInv, pyVars
<1> DEFINE c == src[s].of
           went(w) == [src[s] EXCEPT !.at = w]
<1>0. src[s] \in SourceType /\ src[s].at = "starting" /\ src[s].ring = EmptyRing /\ src[s].pc = "top"
    BY SourceFacts DEF SrcPublish, ThreadInv, ThreadOK
<1>1. UNCHANGED <<call, tap>> /\ c \in Call /\ Onward /\ HasThread(src[s])
    BY <1>0 DEF SrcPublish, Inv, StreamInv, Onward, HasThread
<1>2. ASSUME NEW w \in {"live", "dropping"}
      PROVE  /\ went(w) \in SourceType /\ went(w).of = c /\ went(w).at = w
             /\ went(w).ring = EmptyRing /\ went(w).pc = "top"
    BY <1>0 DEF SourceType
<1>3. ASSUME NEW w \in {"live", "dropping"}
      PROVE  ThreadOK(went(w))
  <2> HIDE DEF went
  <2> QED BY <1>2 DEF ThreadOK, HasThread
<1>4. FilterInv' /\ \A k \in Slot : GotOK(k)'
  <2>1. ASSUME NEW k \in Slot PROVE slot'[k].rx = slot[k].rx /\ slot'[k].got = slot[k].got
    <3>1. slot \in [Slot -> SlotType]
        BY SourceFacts
    <3>2. CASE slot' = slot
        BY <3>2
    <3>3. CASE \E l \in SlotFor(c) : slot' = [slot EXCEPT ![l].call = c, ![l].tx = s]
      <4>1. PICK l \in SlotFor(c) : slot' = [slot EXCEPT ![l].call = c, ![l].tx = s]
          BY <3>3
      <4>2. l \in Slot
          BY <1>1, <4>1, SlotFound
      <4>3. slot' = [slot EXCEPT ![l] = [slot[l] EXCEPT !.call = c, !.tx = s]]
          BY <3>1, <4>1, <4>2
      <4>4. LET q == [slot[l] EXCEPT !.call = c, !.tx = s] IN q.rx = slot[l].rx /\ q.got = slot[l].got
          BY <3>1, <4>2 DEF SlotType
      <4> QED BY <3>1, <4>2, <4>3, <4>4
    <3> QED BY <3>2, <3>3 DEF SrcPublish
  <2>2. ASSUME NEW k \in Slot PROVE GotOK(k)'
    <3>1. GotOK(k)
        BY DEF TallyInv
    <3>2. \A d \in Tap : slot[k].rx = d => slot[k].got = tap'[d].ring.wr - Pushed(tap'[d])
        BY <1>1, <3>1 DEF GotOK
    <3> QED BY <2>1, <3>1, <3>2, GotStays
  <2>3. FilterInv'
      BY <1>1, <2>1, FilterStays DEF FilterInv
  <2> QED BY <2>2, <2>3
<1>5. CASE \E k \in SlotFor(c) : /\ slot' = [slot EXCEPT ![k].call = c, ![k].tx = s]
                                 /\ src' = [src EXCEPT ![s].at = "live"]
  <2>1. PICK k \in SlotFor(c) : /\ slot' = [slot EXCEPT ![k].call = c, ![k].tx = s]
                                /\ src' = [src EXCEPT ![s].at = "live"]
      BY <1>5
  <2> DEFINE r == went("live")
             q == [slot[k] EXCEPT !.call = c, !.tx = s]
  <2>2. /\ k \in SlotFor(c) /\ k \in Slot /\ slot[k] \in SlotType
        /\ slot[k].call = c \/ slot[k].call = NoCall
      BY <1>1, <2>1, SlotFound DEF Inv, TypeOK
  <2>3. src' = [src EXCEPT ![s] = r] /\ slot' = [slot EXCEPT ![k] = q]
      BY <2>1, <2>2 DEF Inv, TypeOK
  <2>4. /\ r \in SourceType /\ r.of = c /\ r.at = "live" /\ r.ring = EmptyRing /\ r.pc = "top"
        /\ ThreadOK(r)
      BY <1>2, <1>3
  <2>5. q.call = c /\ q.tx = s /\ q.sent = slot[k].sent /\ q.skipped = slot[k].skipped
      BY <1>1, <2>2 DEF SlotType
  <2>6. /\ src'[s] = r /\ \A u \in Source : u # s => src'[u] = src[u]
      BY <2>3 DEF Inv, TypeOK
  <2>7. slot'[k] = q /\ \A l \in Slot : l # k => slot'[l] = slot[l]
      BY <2>2, <2>3 DEF Inv, TypeOK
  <2> HIDE DEF r, q, c, went
  <2>8. slot[k].tx = 0
    <3>1. CASE slot[k].call = NoCall
        BY <2>2, <3>1 DEF Inv, SlotInv, FreeSlot
    <3>2. CASE slot[k].call = c
      <4>1. slot[k].tx \in {0, s}
          BY <1>1, <2>2, <3>2, ThreadOwns DEF c
      <4>2. \A l \in Slot : slot[l].tx # s
          BY <1>0 DEF Inv, SlotInv
      <4> QED BY <2>2, <4>1, <4>2
    <3> QED BY <2>2, <3>1, <3>2
  <2>9. ThreadInv'
    <3>1. \A u \in Source : ThreadOK(src'[u])
        BY <2>4, <2>6 DEF ThreadInv
    <3>2. \A u \in Source : HasThread(src'[u]) => HasThread(src[u]) /\ src'[u].of = src[u].of
        BY <1>1, <2>4, <2>6 DEF c
    <3>3. \A u \in Source : HasThread(src'[u]) => call'[src'[u].of] \in Begun
        BY <1>1, <3>2 DEF ThreadInv
    <3>4. ASSUME NEW u \in Source, src'[u].at = "live"
          PROVE  call'[src'[u].of] = "closed" \/ Housed(u)'
      <4>1. CASE u = s
          BY <2>2, <2>5, <2>7, <4>1 DEF Housed
      <4>2. CASE u # s
        <5>1. src'[u] = src[u] /\ (call[src[u].of] = "closed" \/ Housed(u))
            BY <2>6, <3>4, <4>2 DEF ThreadInv
        <5>2. ASSUME NEW l \in Slot, slot[l].tx = u PROVE slot'[l].tx = u
            BY <2>7, <2>8, <5>2
        <5> QED BY <1>1, <5>1, <5>2 DEF Housed
      <4> QED BY <4>1, <4>2
    <3>5. \A u, v \in Source : HasThread(src'[u]) /\ HasThread(src'[v]) /\ src'[u].of = src'[v].of => u = v
        BY <3>2 DEF ThreadInv
    <3>6. (\A u \in Source : /\ ThreadOK(src[u])
                             /\ HasThread(src[u]) => call[src[u].of] \in Begun
                             /\ src[u].at = "live" => call[src[u].of] = "closed" \/ Housed(u))'
        BY <3>1, <3>3, <3>4 DEF HasThread, ThreadOK
    <3> QED BY <3>5, <3>6 DEF ThreadInv, HasThread
  <2>10. SentOK(k)'
    <3>1. SentOK(k) /\ slot[k].sent \in Nat /\ slot[k].skipped \in Nat
        BY <2>2 DEF TallyInv, SlotType
    <3>2. slot[k].sent <= 2 /\ slot[k].sent + slot[k].skipped <= 2 * NRing
        BY <2>8, <3>1 DEF SentOK
    <3>3. Due(r) = 0 /\ Pushed(r) = 0 /\ r.ring.rd = 0
        BY <2>4 DEF Due, Pushed, EmptyRing
    <3>4. Tally(slot[k].sent, slot[k].skipped, r)
        BY <3>1, <3>2, <3>3 DEF Tally
    <3>5. slot'[k].tx # 0 /\ Tally(slot'[k].sent, slot'[k].skipped, src'[slot'[k].tx])
        BY <2>5, <2>6, <2>7, <3>4
    <3> QED BY <3>5 DEF SentOK, Tally, Due, Pushed
  <2>11. ASSUME NEW l \in Slot, l # k PROVE SentOK(l)'
    <3>1. SentOK(l) /\ slot'[l] = slot[l]
        BY <2>7, <2>11 DEF TallyInv
    <3>2. slot[l].tx # s
        BY <1>0 DEF Inv, SlotInv
    <3>3. \A u \in Source : slot[l].tx = u => Tally(slot[l].sent, slot[l].skipped, src'[u])
        BY <2>6, <3>1, <3>2 DEF SentOK
    <3>4. \A u \in Source : Going(src'[u]) => Going(src[u]) /\ src'[u].of = src[u].of /\ Left(src'[u]) = Left(src[u])
        BY <2>4, <2>6 DEF Going
    <3> QED BY <3>1, <3>3, <3>4, SentStays
  <2> QED BY <1>4, <2>9, <2>10, <2>11 DEF TallyInv
<1>6. CASE SlotFor(c) = {} /\ slot' = slot /\ src' = [src EXCEPT ![s].at = "dropping"]
  <2> DEFINE r == went("dropping")
  <2>1. src'[s] = r /\ \A u \in Source : u # s => src'[u] = src[u]
      BY <1>6 DEF Inv, TypeOK
  <2>2. r.of = c /\ r.at = "dropping" /\ ThreadOK(r)
      BY <1>2, <1>3
  <2>3. \A k \in Slot : slot[k].call # c
      BY <1>6 DEF SlotFor, Of
  <2> HIDE DEF r, went
  <2>4. ThreadInv'
    <3>1. \A u \in Source : ThreadOK(src'[u])
        BY <2>1, <2>2 DEF ThreadInv
    <3>2. \A u \in Source : HasThread(src'[u]) => HasThread(src[u]) /\ src'[u].of = src[u].of
        BY <1>1, <2>1, <2>2
    <3>3. \A u \in Source : src'[u].at = "live" => src[u].at = "live"
        BY <2>1, <2>2
    <3> QED BY <1>1, <1>6, <3>1, <3>2, <3>3, ThreadStays
  <2>5. ASSUME NEW k \in Slot PROVE SentOK(k)'
    <3>1. SentOK(k) /\ slot'[k] = slot[k]
        BY <1>6 DEF TallyInv
    <3>2. slot[k].tx # s
        BY <1>0 DEF Inv, SlotInv
    <3>3. \A u \in Source : slot[k].tx = u => Tally(slot[k].sent, slot[k].skipped, src'[u])
        BY <2>1, <3>1, <3>2 DEF SentOK
    <3>4. \A u \in Source : Going(src'[u]) /\ src'[u].of = slot[k].call =>
             Going(src[u]) /\ src'[u].of = src[u].of /\ Left(src'[u]) = Left(src[u])
        BY <2>1, <2>2, <2>3
    <3> QED BY <3>1, <3>3, <3>4, SentStays
  <2> QED BY <1>4, <2>4, <2>5 DEF TallyInv
<1> QED BY <1>5, <1>6 DEF SrcPublish

LEMMA SrcDropCounts == ASSUME Inv, CountsInv, NEW s \in Source, SrcDrop(s) PROVE CountsInv'
<1> USE DEF CountsInv, pyVars
<1> DEFINE c == src[s].of
           r == [src[s] EXCEPT !.at = "dropping"]
<1>0. src[s] \in SourceType /\ ThreadOK(src[s])
    BY SourceFacts DEF ThreadInv
<1>1. src[s].at = "live" /\ slot' = Unpublished(c, s, NoRing) /\ UNCHANGED <<call, tap>>
    BY DEF SrcDrop
<1>2. src' = [src EXCEPT ![s] = r]
    BY DEF SrcDrop, Inv, TypeOK
<1>3. r.of = c /\ r.at = "dropping" /\ r.ring = src[s].ring /\ r.pc = src[s].pc /\ r.passed = src[s].passed
    BY <1>0 DEF SourceType
<1> HIDE DEF r
<1>4. src'[s] = r /\ \A u \in Source : u # s => src'[u] = src[u]
    BY <1>2 DEF Inv, TypeOK
<1>5. c \in Call /\ Onward
    BY <1>1 DEF Inv, StreamInv, Onward
<1>6. Leaves(c, s, NoRing)
  <2>1. s \in Source \cup {NoRing} /\ NoRing \in Tap \cup {NoRing}
      OBVIOUS
  <2> QED BY <1>1, <1>5, <2>1, UnpublishedSlot
<1> HIDE DEF c
<1>7. \A k \in Slot : slot'[k].rx = slot[k].rx /\ slot'[k].got = slot[k].got
  <2>1. \A k \in Slot : slot[k].rx # NoRing
      BY SMTT(30) DEF Inv, TypeOK, SlotType, NoRing
  <2> QED BY <1>6, <2>1 DEF Leaves
<1>8. ThreadInv'
  <2>1. \A u \in Source : ThreadOK(src'[u])
    <3>1. ThreadOK(r)
        BY <1>0, <1>1, <1>3 DEF ThreadOK, HasThread
    <3> QED BY <1>4, <3>1 DEF ThreadInv
  <2>2. \A u \in Source : HasThread(src'[u]) => HasThread(src[u]) /\ src'[u].of = src[u].of
      BY <1>1, <1>3, <1>4 DEF HasThread, c
  <2>3. \A u \in Source : src'[u].at = "live" => src[u].at = "live" /\ u # s
      BY <1>3, <1>4
  <2>4. \A u \in Source, k \in Slot : u # s /\ slot[k].tx = u => slot'[k].tx = u
      BY <1>6 DEF Leaves
  <2> QED BY <1>5, <2>1, <2>2, <2>3, <2>4, ThreadStays
<1>9. FilterInv'
    BY <1>1, <1>5, <1>7, FilterStays DEF FilterInv
<1>10. ASSUME NEW k \in Slot PROVE GotOK(k)'
  <2>1. GotOK(k)
      BY DEF TallyInv
  <2>2. \A d \in Tap : slot[k].rx = d => slot[k].got = tap'[d].ring.wr - Pushed(tap'[d])
      BY <1>1, <2>1 DEF GotOK
  <2> QED BY <1>7, <2>1, <2>2, GotStays
<1>11. ASSUME NEW k \in Slot PROVE SentOK(k)'
  <2>1. CASE slot[k].call = c
    <3>1. slot[k].tx = s
        BY <1>1, <2>1, LiveHoused DEF c
    <3>2. slot'[k].tx = 0 /\ slot'[k].sent = 0 /\ slot'[k].skipped = 0
        BY <1>6, <2>1, <3>1 DEF Leaves
    <3>3. \A u \in Source : Leftover(slot'[k].sent, slot'[k].skipped, src'[u])
        BY <3>2, NoneCounted
    <3>4. slot'[k].sent <= 2 /\ slot'[k].sent + slot'[k].skipped <= 2 * NRing
        BY <3>2
    <3> QED BY <3>2, <3>3, <3>4 DEF SentOK, Leftover, Left, Handed
  <2>2. CASE slot[k].call # c
    <3>1. SentOK(k) /\ slot'[k] = slot[k]
        BY <1>6, <2>2 DEF TallyInv, Leaves
    <3>2. slot[k].tx # s
        BY <2>2 DEF Inv, SlotInv, c
    <3>3. \A u \in Source : slot[k].tx = u => Tally(slot[k].sent, slot[k].skipped, src'[u])
        BY <1>4, <3>1, <3>2 DEF SentOK
    <3>4. \A u \in Source : Going(src'[u]) /\ src'[u].of = slot[k].call =>
             Going(src[u]) /\ src'[u].of = src[u].of /\ Left(src'[u]) = Left(src[u])
        BY <1>3, <1>4, <2>2
    <3> QED BY <3>1, <3>3, <3>4, SentStays
  <2> QED BY <2>1, <2>2
<1> QED BY <1>8, <1>9, <1>10, <1>11 DEF TallyInv
-----------------------------------------------------------------------------
(* The re thread: calls, and streams that are made.                        *)

(* The calls go on, and some slots are freed. *)
LEMMA CallCounts ==
    ASSUME Inv, CountsInv, Onward, UNCHANGED <<src, tap>>,
           \A k \in Slot : \/ slot'[k] = slot[k]
                           \/ slot'[k] = FreeSlot /\ (slot[k].call # NoCall => call'[slot[k].call] = "closed")
    PROVE  CountsInv'
<1> USE DEF CountsInv
<1>1. FreeSlot.tx = 0 /\ FreeSlot.rx = 0 /\ FreeSlot.call = NoCall
    BY DEF FreeSlot
<1>2. ThreadInv'
  <2>1. ASSUME NEW s \in Source, NEW k \in Slot, slot[k].tx = s
        PROVE  slot'[k].tx = s \/ call'[src[s].of] = "closed"
    <3>1. src[s].of = slot[k].call /\ slot[k].call # NoCall
      <4>1. src[s].at = "live" /\ src[s].of = slot[k].call
          BY <2>1 DEF Inv, SlotInv
      <4> QED BY <4>1 DEF Inv, StreamInv
    <3> QED BY <2>1, <3>1
  <2> QED BY <2>1, ThreadStays DEF ThreadInv
<1>3. FilterInv'
  <2>1. ASSUME NEW d \in Tap, NEW k \in Slot, slot[k].rx = d
        PROVE  slot'[k].rx = d \/ call'[tap[d].of] = "closed"
    <3>1. tap[d].of = slot[k].call /\ slot[k].call # NoCall
      <4>1. tap[d].at = "published" /\ tap[d].of = slot[k].call
          BY <2>1 DEF Inv, SlotInv
      <4> QED BY <4>1 DEF Inv, StreamInv
    <3> QED BY <2>1, <3>1
  <2> QED BY <2>1, FilterStays DEF FilterInv
<1>4. ASSUME NEW k \in Slot PROVE SentOK(k)' /\ GotOK(k)'
  <2>1. SentOK(k) /\ GotOK(k)
      BY DEF TallyInv
  <2>2. CASE slot'[k] = FreeSlot
    <3>1. \A s \in Source : Going(src'[s]) => src'[s].of # NoCall
        BY DEF Inv, StreamInv, Going
    <3> QED BY <2>2, <3>1, FreeCounts
  <2>3. CASE slot'[k] = slot[k]
    <3>1. \A s \in Source : slot[k].tx = s => Tally(slot[k].sent, slot[k].skipped, src'[s])
        BY <2>1 DEF SentOK
    <3>2. \A d \in Tap : slot[k].rx = d => slot[k].got = tap'[d].ring.wr - Pushed(tap'[d])
        BY <2>1 DEF GotOK
    <3>3. SentOK(k)'
        BY <2>1, <2>3, <3>1, SentStays
    <3>4. GotOK(k)'
        BY <2>1, <2>3, <3>2, GotStays
    <3> QED BY <3>3, <3>4
  <2> QED BY <2>2, <2>3
<1> QED BY <1>2, <1>3, <1>4 DEF TallyInv

LEMMA CallUpCounts == ASSUME Inv, CountsInv, NEW c \in Call, CallUp(c) PROVE CountsInv'
<1>1. call[c] = "none" /\ call' = [call EXCEPT ![c] = "up"] /\ UNCHANGED <<slot, src, tap>>
    BY DEF CallUp
<1>2. Onward
    BY <1>1, CallFacts DEF Onward, Begun
<1> QED BY <1>1, <1>2, CallCounts

LEMMA CallClosedCounts == ASSUME Inv, CountsInv, NEW c \in Call, CallClosed(c) PROVE CountsInv'
<1>1. /\ call' = [call EXCEPT ![c] = "closed"] /\ UNCHANGED <<src, tap>>
      /\ slot' = [k \in Slot |-> IF slot[k].call = c THEN FreeSlot ELSE slot[k]]
    BY DEF CallClosed, Of
<1>2. Onward
    BY <1>1, CallFacts DEF Onward, Begun
<1>3. call'[c] = "closed"
    BY <1>1, CallFacts
<1>4. \A k \in Slot : \/ slot'[k] = slot[k]
                      \/ slot'[k] = FreeSlot /\ slot[k].call = c
    BY <1>1
<1> QED BY <1>1, <1>2, <1>3, <1>4, CallCounts

LEMMA TeardownCounts == ASSUME Inv, CountsInv, Teardown PROVE CountsInv'
<1>1. /\ call' = [c \in Call |-> IF call[c] \in {"up", "pinned"} THEN "torn" ELSE call[c]]
      /\ UNCHANGED <<slot, src, tap>>
    BY DEF Teardown, HasHandle
<1>2. Onward
    BY <1>1 DEF Onward, Begun
<1> QED BY <1>1, <1>2, CallCounts

LEMMA UnregisterCounts == ASSUME Inv, CountsInv, Unregister PROVE CountsInv'
<1> USE DEF CountsInv
<1>1. /\ \A s \in Source : src[s].at \in {"none", "freed"}
      /\ \A d \in Tap : tap[d].at \in {"none", "freed"}
      /\ slot' = [k \in Slot |-> FreeSlot] /\ UNCHANGED <<call, src, tap>>
    BY DEF Unregister
<1>2. Onward
    BY <1>1 DEF Onward
<1>3. ThreadInv'
    BY <1>1, <1>2, ThreadStays DEF ThreadInv
<1>4. FilterInv'
    BY <1>1, <1>2, FilterStays DEF FilterInv
<1>5. ASSUME NEW k \in Slot PROVE SentOK(k)' /\ GotOK(k)'
  <2>1. \A s \in Source : Going(src'[s]) => src'[s].of # NoCall
      BY <1>1 DEF Going
  <2> QED BY <1>1, <2>1, FreeCounts
<1> QED BY <1>3, <1>4, <1>5 DEF TallyInv

(* A source is made: the call has no thread, if this one gets one. *)
LEMMA MadeCounts ==
    ASSUME Inv, CountsInv, Onward, UNCHANGED <<slot, tap>>,
           NEW c \in Call, NEW s \in Source, src[s].at = "none", ThreadOK(src'[s]),
           \/ /\ src'[s].at = "starting" /\ src'[s].of = c /\ call'[c] \in Begun
              /\ \A u \in Source : src[u].of = c => ~HasThread(src[u])
           \/ src'[s].at = "inert",
           \A u \in Source : u # s =>
              \/ src'[u] = src[u]
              \/ src[u].at = "inert" /\ src'[u].at = "freed" /\ ThreadOK(src'[u])
    PROVE  CountsInv'
<1> USE DEF CountsInv
<1>1. \A u \in Source : ThreadOK(src'[u])
    BY DEF ThreadInv
<1>2. \A u \in Source : u # s /\ HasThread(src'[u]) => src'[u] = src[u]
    BY DEF HasThread
<1>3. \A u \in Source : src'[u].at = "live" \/ Going(src'[u]) => src'[u] = src[u]
    BY <1>2 DEF HasThread, Going
<1>4. HasThread(src'[s]) => src'[s].of = c /\ call'[c] \in Begun
    BY DEF HasThread
<1>5. ThreadInv'
  <2>1. ASSUME NEW u \in Source, HasThread(src'[u])
        PROVE  call'[src'[u].of] \in Begun
    <3>1. CASE u = s
        BY <1>4, <2>1, <3>1
    <3>2. CASE u # s
      <4>1. src'[u] = src[u] /\ src[u].of \in Call
          BY <1>2, <2>1, <3>2 DEF Inv, StreamInv, HasThread
      <4> QED BY <2>1, <4>1 DEF Onward, ThreadInv
    <3> QED BY <3>1, <3>2
  <2>2. ASSUME NEW u \in Source, src'[u].at = "live"
        PROVE  call'[src'[u].of] = "closed" \/ Housed(u)'
    <3>1. src'[u] = src[u] /\ src[u].of \in Call
        BY <1>3, <2>2 DEF Inv, StreamInv
    <3>2. call[src[u].of] = "closed" \/ Housed(u)
        BY <2>2, <3>1 DEF ThreadInv
    <3> QED BY <3>1, <3>2 DEF Onward, Housed
  <2>3. ASSUME NEW u \in Source, NEW v \in Source, HasThread(src'[u]), HasThread(src'[v]),
               src'[u].of = src'[v].of
        PROVE  u = v
    <3>1. CASE u # s /\ v # s
        BY <1>2, <2>3, <3>1 DEF ThreadInv
    <3>2. CASE u = s /\ v # s
        BY <1>2, <1>4, <2>3, <3>2 DEF HasThread
    <3>3. CASE v = s /\ u # s
        BY <1>2, <1>4, <2>3, <3>3 DEF HasThread
    <3> QED BY <3>1, <3>2, <3>3
  <2>4. (\A u \in Source : /\ ThreadOK(src[u])
                           /\ HasThread(src[u]) => call[src[u].of] \in Begun
                           /\ src[u].at = "live" => call[src[u].of] = "closed" \/ Housed(u))'
      BY <1>1, <2>1, <2>2 DEF HasThread, ThreadOK
  <2> QED BY <2>3, <2>4 DEF ThreadInv, HasThread
<1>6. FilterInv'
    BY FilterStays DEF FilterInv
<1>7. ASSUME NEW k \in Slot PROVE SentOK(k)' /\ GotOK(k)'
  <2>1. SentOK(k) /\ GotOK(k)
      BY DEF TallyInv
  <2>2. ASSUME NEW u \in Source, slot[k].tx = u
        PROVE  Tally(slot[k].sent, slot[k].skipped, src'[u])
    <3>1. src[u].at = "live"
        BY <2>2 DEF Inv, SlotInv
    <3>2. src'[u] = src[u]
        BY <3>1
    <3> QED BY <2>1, <2>2, <3>2 DEF SentOK
  <2>3. \A d \in Tap : slot[k].rx = d => slot[k].got = tap'[d].ring.wr - Pushed(tap'[d])
      BY <2>1 DEF GotOK
  <2>4. SentOK(k)'
      BY <1>3, <2>1, <2>2, SentStays
  <2>5. GotOK(k)'
      BY <2>1, <2>3, GotStays
  <2> QED BY <2>4, <2>5
<1> QED BY <1>5, <1>6, <1>7 DEF TallyInv

LEMMA FreshOK ==
    ASSUME NEW c \in Call
    PROVE  /\ ThreadOK(Started(c)) /\ Started(c).at = "starting" /\ Started(c).of = c
           /\ \A w \in {"inert", "freed"} : LET r == [NoSource EXCEPT !.of = c, !.at = w]
                                            IN  ThreadOK(r) /\ r.at = w
<1>1. LET r == Started(c)
      IN  r.at = "starting" /\ r.of = c /\ r.run /\ r.pc = "top" /\ r.ring = EmptyRing
    BY DEF Started, NoSource
<1>2. ThreadOK(Started(c))
    BY <1>1 DEF ThreadOK, HasThread
<1>3. ASSUME NEW w \in {"inert", "freed"}
      PROVE  LET r == [NoSource EXCEPT !.of = c, !.at = w] IN r.at = w /\ r.pc = "done"
    BY DEF NoSource
<1>4. ASSUME NEW w \in {"inert", "freed"}
      PROVE  LET r == [NoSource EXCEPT !.of = c, !.at = w] IN ThreadOK(r) /\ r.at = w
    BY <1>3 DEF ThreadOK
<1> QED BY <1>1, <1>2, <1>4

LEMMA SrcAllocCounts ==
    ASSUME Inv, CountsInv, NEW c \in Call, NEW s \in Source, SrcAlloc(c, s) PROVE CountsInv'
<1> USE DEF pyVars
<1> DEFINE r == IF call[c] = "pinned" THEN Started(c)
                ELSE [NoSource EXCEPT !.of = c, !.at = "inert"]
<1>1. /\ src[s].at = "none" /\ src' = [src EXCEPT ![s] = r]
      /\ \A u \in Source : src[u].of = c => src[u].at = "freed"
      /\ UNCHANGED <<call, slot, tap>>
    BY DEF SrcAlloc, NextSource
<1>2. /\ ThreadOK(r)
      /\ \/ r.at = "starting" /\ r.of = c /\ call[c] = "pinned"
         \/ r.at = "inert"
    BY FreshOK
<1> HIDE DEF r
<1>3. src'[s] = r /\ \A u \in Source : u # s => src'[u] = src[u]
    BY <1>1 DEF Inv, TypeOK
<1>4. \A u \in Source : src[u].of = c => ~HasThread(src[u])
    BY <1>1 DEF HasThread
<1>5. Onward
    BY <1>1 DEF Onward
<1>6. \/ src'[s].at = "starting" /\ src'[s].of = c /\ call'[c] \in Begun
      \/ src'[s].at = "inert"
    BY <1>1, <1>2, <1>3 DEF Begun
<1> QED BY <1>1, <1>2, <1>3, <1>4, <1>5, <1>6, MadeCounts

LEMMA EstablishedCounts == ASSUME Inv, CountsInv, NEW c \in Call, Established(c) PROVE CountsInv'
<1> USE DEF pyVars
<1>1. call[c] = "up" /\ call' = [call EXCEPT ![c] = "pinned"] /\ UNCHANGED <<slot, tap>>
    BY DEF Established
<1>2. Onward /\ call'[c] = "pinned"
    BY <1>1, CallFacts DEF Onward, Begun
<1>3. CASE src' = src
    BY <1>1, <1>2, <1>3, CallCounts
<1>4. CASE \E s \in Source :
              /\ NextSource(s)
              /\ src' = [u \in Source |->
                           IF u = s THEN Started(c)
                           ELSE IF src[u].of = c /\ src[u].at = "inert"
                                THEN [NoSource EXCEPT !.of = c, !.at = "freed"]
                                ELSE src[u]]
  <2>1. PICK s \in Source :
              /\ src[s].at = "none"
              /\ src' = [u \in Source |->
                           IF u = s THEN Started(c)
                           ELSE IF src[u].of = c /\ src[u].at = "inert"
                                THEN [NoSource EXCEPT !.of = c, !.at = "freed"]
                                ELSE src[u]]
      BY <1>4 DEF NextSource
  <2> DEFINE r == Started(c)
             q == [NoSource EXCEPT !.of = c, !.at = "freed"]
  <2>2. r.of = c /\ r.at = "starting" /\ ThreadOK(r) /\ q.at = "freed" /\ ThreadOK(q)
      BY FreshOK
  <2>3. src' = [u \in Source |-> IF u = s THEN r
                                 ELSE IF src[u].of = c /\ src[u].at = "inert" THEN q ELSE src[u]]
      BY <2>1
  <2> HIDE DEF r, q
  <2>4. src'[s] = r
      BY <2>3
  <2>5. ASSUME NEW u \in Source, u # s
        PROVE  \/ src'[u] = src[u]
               \/ src[u].at = "inert" /\ src'[u].at = "freed" /\ ThreadOK(src'[u])
    <3>1. src'[u] = src[u] \/ (src[u].at = "inert" /\ src'[u] = q)
        BY <2>3, <2>5
    <3> QED BY <2>2, <3>1
  <2>6. \A u \in Source : src[u].of = c => ~HasThread(src[u])
      BY <1>1 DEF CountsInv, ThreadInv, Begun
  <2>7. call'[c] \in Begun
      BY <1>2 DEF Begun
  <2> QED BY <1>1, <1>2, <2>1, <2>2, <2>4, <2>5, <2>6, <2>7, MadeCounts
<1> QED BY <1>3, <1>4 DEF Established
-----------------------------------------------------------------------------
(* The re thread: filters.                                                 *)

LEMMA DecUpdateCounts ==
    ASSUME Inv, CountsInv, NEW c \in Call, NEW d \in Tap, DecUpdate(c, d) PROVE CountsInv'
<1> USE DEF CountsInv, pyVars
<1> DEFINE r == [NoTap EXCEPT !.of = c, !.at = "attached"]
<1>1. /\ tap[d].at = "none" /\ tap' = [tap EXCEPT ![d] = r]
      /\ \A u \in Tap : tap[u].of = c => tap[u].at = "freed"
      /\ UNCHANGED <<call, slot, src>>
    BY DEF DecUpdate, NextTap
<1>2. r.of = c /\ r.at = "attached" /\ r.pc = "idle" /\ r.ring.wr = 0
    BY DEF NoTap, EmptyRing
<1> HIDE DEF r
<1>3. tap'[d] = r /\ \A u \in Tap : u # d => tap'[u] = tap[u]
    BY <1>1 DEF Inv, TypeOK
<1>4. FilterOK(r) /\ Onward
    BY <1>1, <1>2 DEF FilterOK, Onward
<1>5. ThreadInv'
    BY <1>1, <1>4, ThreadStays DEF ThreadInv
<1>6. FilterInv'
  <2>1. \A u \in Tap : FilterOK(tap'[u])
      BY <1>3, <1>4 DEF FilterInv
  <2>2. ASSUME NEW u \in Tap, tap'[u].at = "published"
        PROVE  call'[tap'[u].of] = "closed" \/ HousedTap(u)'
    <3>1. tap'[u] = tap[u]
        BY <1>2, <1>3, <2>2
    <3> QED BY <1>1, <2>2, <3>1 DEF FilterInv, HousedTap
  <2>3. \A u, v \in Tap : Filters(tap'[u]) /\ Filters(tap'[v]) /\ tap'[u].of = tap'[v].of => u = v
    <3>1. \A u \in Tap : Filters(tap[u]) => tap[u].of # c
        BY <1>1 DEF Filters
    <3> QED BY <1>2, <1>3, <3>1 DEF FilterInv
  <2>4. (\A u \in Tap : /\ FilterOK(tap[u])
                        /\ tap[u].at = "published" => call[tap[u].of] = "closed" \/ HousedTap(u))'
      BY <2>1, <2>2 DEF FilterOK
  <2> QED BY <2>3, <2>4 DEF FilterInv, Filters
<1>7. ASSUME NEW k \in Slot PROVE SentOK(k)' /\ GotOK(k)'
  <2>1. SentOK(k) /\ GotOK(k)
      BY DEF TallyInv
  <2>2. \A s \in Source : slot[k].tx = s => Tally(slot[k].sent, slot[k].skipped, src'[s])
      BY <1>1, <2>1 DEF SentOK
  <2>3. slot[k].rx # d
      BY <1>1 DEF Inv, SlotInv
  <2>4. \A u \in Tap : slot[k].rx = u => slot[k].got = tap'[u].ring.wr - Pushed(tap'[u])
      BY <1>3, <2>1, <2>3 DEF GotOK
  <2>5. SentOK(k)'
      BY <1>1, <2>1, <2>2, SentStays
  <2>6. GotOK(k)'
      BY <1>1, <2>1, <2>4, GotStays
  <2> QED BY <2>5, <2>6
<1> QED BY <1>5, <1>6, <1>7 DEF TallyInv

(* What the count of a slot says of the filter in it. *)
LEMMA FilterInSlot ==
    ASSUME Inv, CountsInv, NEW k \in Slot, NEW d \in Tap, slot[k].rx = d
    PROVE  /\ slot[k].got = tap[d].ring.wr - Pushed(tap[d])
           /\ slot[k].got \in Nat /\ tap[d].ring.wr \in Nat
<1>1. slot[k] \in SlotType /\ GotOK(k) /\ d # 0
    BY DEF Inv, TypeOK, CountsInv, TallyInv
<1>2. slot[k].got \in Nat
    BY <1>1 DEF SlotType
<1> QED BY <1>1, <1>2, TapFacts DEF GotOK, RingType

LEMMA DecWriteCounts ==
    ASSUME Inv, CountsInv, NEW d \in Tap, DecFrame(d) \/ DecWrite(d) \/ DecFilled(d)
    PROVE  CountsInv'
<1> USE DEF pyVars
<1>0. tap[d] \in TapType /\ tap[d].ring \in RingType /\ RingOK(tap[d].ring) /\ FilterOK(tap[d])
    BY TapFacts DEF TapOK, CountsInv, FilterInv
<1>1. UNCHANGED <<call, src, slot>>
    BY DEF DecFrame, DecWrite, DecFilled
<1>2. tap[d].at = "published"
    BY <1>0 DEF DecFrame, DecWrite, DecFilled, FilterOK
<1>3. ASSUME NEW w \in {"idle", "write", "count", "fill"}, NEW g \in RingType,
             LET p == IF w = "count" THEN 1 ELSE 0
             IN  g.wr - p = tap[d].ring.wr - Pushed(tap[d]),
             tap' = [tap EXCEPT ![d] = [tap[d] EXCEPT !.pc = w, !.ring = g]]
      PROVE  CountsInv'
  <2> DEFINE r == [tap[d] EXCEPT !.pc = w, !.ring = g]
  <2>1. r \in TapType /\ r.of = tap[d].of /\ r.at = tap[d].at /\ r.ring = g /\ r.pc = w
      BY <1>0 DEF TapType
  <2>2. tap' = [tap EXCEPT ![d] = r]
      BY <1>3
  <2> HIDE DEF r
  <2>3. FilterOK(r)
      BY <1>2, <2>1 DEF FilterOK
  <2>4. \A k \in Slot : slot[k].rx = d => slot[k].got = r.ring.wr - Pushed(r)
    <3>1. r.ring.wr - Pushed(r) = tap[d].ring.wr - Pushed(tap[d])
        BY <1>3, <2>1 DEF Pushed
    <3> QED BY <3>1, FilterInSlot
  <2> QED BY <1>1, <1>2, <2>1, <2>2, <2>3, <2>4, TapCounts DEF Filters
<1>4. CASE DecFrame(d)
  <2>1. tap' = [tap EXCEPT ![d] = [tap[d] EXCEPT !.pc = "write", !.ring = tap[d].ring]]
      BY <1>0, <1>4 DEF DecFrame, TapType, Inv, TypeOK
  <2>2. tap[d].pc = "idle"
      BY <1>4 DEF DecFrame, ReFree
  <2>3. Pushed(tap[d]) = 0
      BY <2>2 DEF Pushed
  <2> QED BY <1>0, <1>3, <2>1, <2>3
<1>5. CASE DecWrite(d)
  <2>0. Pushed(tap[d]) = 0
      BY <1>5 DEF DecWrite, Pushed
  <2>1. CASE tap' = [tap EXCEPT ![d].pc = "idle"]
    <3>1. tap' = [tap EXCEPT ![d] = [tap[d] EXCEPT !.pc = "idle", !.ring = tap[d].ring]]
        BY <1>0, <2>1 DEF TapType, Inv, TypeOK
    <3> QED BY <1>0, <1>3, <2>0, <3>1
  <2>2. CASE HasRoom(tap[d].ring) /\ tap' = [tap EXCEPT ![d].pc = "fill", ![d].ring = BeginFill(tap[d].ring)]
    <3>1. tap' = [tap EXCEPT ![d] = [tap[d] EXCEPT !.pc = "fill", !.ring = BeginFill(tap[d].ring)]]
        BY <2>2 DEF Inv, TypeOK
    <3>2. BeginFill(tap[d].ring) \in RingType /\ BeginFill(tap[d].ring).wr = tap[d].ring.wr
        BY <1>0 DEF BeginFill, RingType
    <3> QED BY <1>3, <2>0, <3>1, <3>2
  <2> QED BY <1>5, <2>1, <2>2 DEF DecWrite
<1>6. CASE DecFilled(d)
  <2>1. tap[d].pc = "fill" /\ tap' = [tap EXCEPT ![d].pc = "count", ![d].ring = EndFill(tap[d].ring)]
      BY <1>6 DEF DecFilled
  <2>2. tap' = [tap EXCEPT ![d] = [tap[d] EXCEPT !.pc = "count", !.ring = EndFill(tap[d].ring)]]
      BY <2>1 DEF Inv, TypeOK
  <2>3. EndFill(tap[d].ring) \in RingType /\ EndFill(tap[d].ring).wr = tap[d].ring.wr + 1
    <3> DEFINE q == tap[d].ring
               w == q.wr + 1
    <3>1. w \in Nat
        BY <1>0 DEF RingType
    <3> HIDE DEF w
    <3>2. LET x == [q EXCEPT !.filling = FALSE, !.wr = w] IN x \in RingType /\ x.wr = w
        BY <1>0, <3>1 DEF RingType
    <3> QED BY <3>2 DEF EndFill, w
  <2>4. Pushed(tap[d]) = 0 /\ tap[d].ring.wr \in Nat
      BY <1>0, <2>1 DEF Pushed, RingType
  <2>5. EndFill(tap[d].ring).wr - 1 = tap[d].ring.wr - Pushed(tap[d])
      BY <2>3, <2>4
  <2> QED BY <1>3, <2>2, <2>3, <2>5
<1> QED BY <1>4, <1>5, <1>6

LEMMA DecCountCounts == ASSUME Inv, CountsInv, NEW d \in Tap, DecCount(d) PROVE CountsInv'
<1> USE DEF CountsInv, pyVars
<1> DEFINE c == tap[d].of
           r == [tap[d] EXCEPT !.pc = "idle"]
<1>1. tap[d].pc = "count" /\ UNCHANGED <<call, src>>
    BY DEF DecCount
<1>2. tap[d] \in TapType /\ slot \in [Slot -> SlotType] /\ FilterOK(tap[d])
    BY TapFacts DEF FilterInv
<1>3. tap' = [tap EXCEPT ![d] = r]
    BY DEF DecCount, Inv, TypeOK
<1>4. r.of = c /\ r.at = tap[d].at /\ r.ring = tap[d].ring /\ r.pc = "idle"
    BY <1>2 DEF TapType
<1> HIDE DEF r
<1>5. tap'[d] = r /\ \A u \in Tap : u # d => tap'[u] = tap[u]
    BY <1>3 DEF Inv, TypeOK
<1>6. tap[d].at = "published" /\ FilterOK(r) /\ Onward
    BY <1>1, <1>2, <1>4 DEF FilterOK, Onward
<1> DEFINE n(k) == slot[k].got + 1
           x(k) == [slot[k] EXCEPT !.got = n(k)]
<1>7. slot' = [k \in Slot |-> IF slot[k].call # c THEN slot[k] ELSE x(k)]
    BY DEF DecCount, Of
<1>8. ASSUME NEW k \in Slot
      PROVE  /\ x(k).call = slot[k].call /\ x(k).tx = slot[k].tx /\ x(k).rx = slot[k].rx
             /\ x(k).sent = slot[k].sent /\ x(k).skipped = slot[k].skipped /\ x(k).got = n(k)
  <2>1. slot[k] \in SlotType /\ n(k) \in Nat
      BY <1>2 DEF SlotType
  <2> HIDE DEF n
  <2> QED BY <2>1 DEF SlotType
<1> HIDE DEF x, n, c
<1>9. \A k \in Slot : /\ slot'[k].call = slot[k].call /\ slot'[k].tx = slot[k].tx
                      /\ slot'[k].rx = slot[k].rx
                      /\ slot'[k].sent = slot[k].sent /\ slot'[k].skipped = slot[k].skipped
    BY <1>7, <1>8
<1>10. ThreadInv'
    BY <1>1, <1>6, <1>9, ThreadStays DEF ThreadInv
<1>11. FilterInv'
  <2>1. \A u \in Tap : FilterOK(tap'[u])
      BY <1>5, <1>6 DEF FilterInv
  <2>2. \A u \in Tap : Filters(tap'[u]) => Filters(tap[u]) /\ tap'[u].of = tap[u].of
      BY <1>4, <1>5 DEF Filters, c
  <2>3. \A u \in Tap : tap'[u].at = "published" => tap[u].at = "published"
      BY <1>4, <1>5
  <2> QED BY <1>6, <1>9, <2>1, <2>2, <2>3, FilterStays
<1>12. ASSUME NEW k \in Slot PROVE SentOK(k)'
  <2>1. SentOK(k)
      BY DEF TallyInv
  <2>2. \A s \in Source : slot[k].tx = s => Tally(slot[k].sent, slot[k].skipped, src'[s])
      BY <1>1, <2>1 DEF SentOK
  <2> QED BY <1>1, <1>9, <2>1, <2>2, SentStays
<1>13. ASSUME NEW k \in Slot, slot[k].call # c PROVE GotOK(k)'
  <2>1. GotOK(k) /\ slot'[k] = slot[k]
      BY <1>7, <1>13 DEF TallyInv
  <2>2. slot[k].rx # d
      BY <1>13 DEF Inv, SlotInv, c
  <2>3. \A u \in Tap : slot[k].rx = u => slot[k].got = tap'[u].ring.wr - Pushed(tap'[u])
      BY <1>5, <2>1, <2>2 DEF GotOK
  <2> QED BY <2>1, <2>3, GotStays
<1>14. ASSUME NEW k \in Slot, slot[k].call = c PROVE GotOK(k)'
  <2>1. slot[k].rx = d /\ d # 0
      BY <1>6, <1>14, PublishedHoused DEF c
  <2>2. slot'[k].rx = d /\ slot'[k].got = slot[k].got + 1
      BY <1>7, <1>8, <1>14, <2>1 DEF n
  <2>3. /\ slot[k].got = tap[d].ring.wr - Pushed(tap[d])
        /\ slot[k].got \in Nat /\ tap[d].ring.wr \in Nat
      BY <2>1, FilterInSlot
  <2>4. Pushed(tap[d]) = 1 /\ Pushed(r) = 0
      BY <1>1, <1>4 DEF Pushed
  <2>5. slot'[k].got = r.ring.wr - Pushed(r)
      BY <1>4, <2>2, <2>3, <2>4
  <2> QED BY <1>5, <2>1, <2>2, <2>5 DEF GotOK, Pushed
<1> QED BY <1>10, <1>11, <1>12, <1>13, <1>14 DEF TallyInv
LEMMA DecPublishCounts == ASSUME Inv, CountsInv, NEW d \in Tap, DecPublish(d) PROVE CountsInv'
<1> USE DEF CountsInv, pyVars
<1> DEFINE c == tap[d].of
<1>0. /\ tap[d] \in TapType /\ tap[d].at = "attached" /\ c \in Call /\ c # NoCall
      /\ tap[d].ring.wr = 0 /\ tap[d].pc = "idle"
    BY TapFacts DEF DecPublish, FilterInv, FilterOK
<1>1. UNCHANGED <<call, src>> /\ Onward /\ Filters(tap[d])
    BY <1>0 DEF DecPublish, Onward, Filters
<1>2. CASE \E k \in SlotFor(c) : /\ slot' = [slot EXCEPT ![k].call = c, ![k].rx = d]
                                 /\ tap' = [tap EXCEPT ![d].at = "published", ![d].pc = "write"]
  <2>1. PICK k \in SlotFor(c) : /\ slot' = [slot EXCEPT ![k].call = c, ![k].rx = d]
                                /\ tap' = [tap EXCEPT ![d].at = "published", ![d].pc = "write"]
      BY <1>2
  <2> DEFINE r == [tap[d] EXCEPT !.at = "published", !.pc = "write"]
             q == [slot[k] EXCEPT !.call = c, !.rx = d]
  <2>2. /\ k \in Slot /\ slot[k] \in SlotType
        /\ slot[k].call = c \/ slot[k].call = NoCall
      BY <1>0, <2>1, SlotFound DEF Inv, TypeOK
  <2>3. tap' = [tap EXCEPT ![d] = r] /\ slot' = [slot EXCEPT ![k] = q]
      BY <2>1, <2>2 DEF Inv, TypeOK
  <2>4. r.of = c /\ r.at = "published" /\ r.ring = tap[d].ring /\ r.pc = "write"
      BY <1>0 DEF TapType
  <2>5. /\ q.call = c /\ q.tx = slot[k].tx /\ q.rx = d /\ q.sent = slot[k].sent
        /\ q.skipped = slot[k].skipped /\ q.got = slot[k].got
      BY <2>2 DEF SlotType
  <2>6. /\ tap'[d] = r /\ \A u \in Tap : u # d => tap'[u] = tap[u]
      BY <2>3 DEF Inv, TypeOK
  <2>7. slot'[k] = q /\ \A l \in Slot : l # k => slot'[l] = slot[l]
      BY <2>2, <2>3 DEF Inv, TypeOK
  <2> HIDE DEF r, q, c
  <2>8. slot[k].rx = 0
    <3>1. CASE slot[k].call = NoCall
        BY <2>2, <3>1 DEF Inv, SlotInv, FreeSlot
    <3>2. CASE slot[k].call = c
      <4>1. slot[k].rx \in {0, d}
          BY <1>1, <2>2, <3>2, FilterOwns DEF c
      <4>2. \A l \in Slot : slot[l].rx # d
          BY <1>0 DEF Inv, SlotInv
      <4> QED BY <2>2, <4>1, <4>2
    <3> QED BY <2>2, <3>1, <3>2
  <2>9. \A l \in Slot : /\ slot'[l].tx = slot[l].tx /\ slot'[l].sent = slot[l].sent
                        /\ slot'[l].skipped = slot[l].skipped
      BY <2>5, <2>7
  <2>10. ThreadInv'
      BY <1>1, <2>9, ThreadStays DEF ThreadInv
  <2>11. FilterInv'
    <3>1. FilterOK(r)
        BY <2>4 DEF FilterOK
    <3>2. \A u \in Tap : FilterOK(tap'[u])
        BY <2>6, <3>1 DEF FilterInv
    <3>3. \A u \in Tap : Filters(tap'[u]) => Filters(tap[u]) /\ tap'[u].of = tap[u].of
        BY <1>1, <2>4, <2>6 DEF c
    <3>4. ASSUME NEW u \in Tap, tap'[u].at = "published"
          PROVE  call'[tap'[u].of] = "closed" \/ HousedTap(u)'
      <4>1. CASE u = d
          BY <2>2, <2>5, <2>7, <4>1 DEF HousedTap
      <4>2. CASE u # d
        <5>1. tap'[u] = tap[u] /\ (call[tap[u].of] = "closed" \/ HousedTap(u))
            BY <2>6, <3>4, <4>2 DEF FilterInv
        <5>2. ASSUME NEW l \in Slot, slot[l].rx = u PROVE slot'[l].rx = u
            BY <2>7, <2>8, <5>2
        <5> QED BY <1>1, <5>1, <5>2 DEF HousedTap
      <4> QED BY <4>1, <4>2
    <3>5. \A u, v \in Tap : Filters(tap'[u]) /\ Filters(tap'[v]) /\ tap'[u].of = tap'[v].of => u = v
        BY <3>3 DEF FilterInv
    <3>6. (\A u \in Tap : /\ FilterOK(tap[u])
                          /\ tap[u].at = "published" => call[tap[u].of] = "closed" \/ HousedTap(u))'
        BY <3>2, <3>4 DEF FilterOK
    <3> QED BY <3>5, <3>6 DEF FilterInv, Filters
  <2>12. ASSUME NEW l \in Slot PROVE SentOK(l)'
    <3>1. SentOK(l)
        BY DEF TallyInv
    <3>2. CASE slot'[l].call = slot[l].call
      <4>1. \A s \in Source : slot[l].tx = s => Tally(slot[l].sent, slot[l].skipped, src'[s])
          BY <1>1, <3>1 DEF SentOK
      <4> QED BY <1>1, <2>9, <3>1, <3>2, <4>1, SentStays
    <3>3. CASE slot'[l].call # slot[l].call
      <4>1. slot[l] = FreeSlot
          BY <2>2, <2>5, <2>7, <3>3 DEF Inv, SlotInv
      <4>2. slot'[l].tx = 0 /\ slot'[l].sent = 0 /\ slot'[l].skipped = 0
          BY <2>9, <4>1 DEF FreeSlot
      <4>3. \A s \in Source : Leftover(slot'[l].sent, slot'[l].skipped, src'[s])
          BY <4>2, NoneCounted
      <4>4. slot'[l].sent <= 2 /\ slot'[l].sent + slot'[l].skipped <= 2 * NRing
          BY <4>2
      <4> QED BY <4>2, <4>3, <4>4 DEF SentOK, Leftover, Left, Handed
    <3> QED BY <3>2, <3>3
  <2>13. ASSUME NEW l \in Slot PROVE GotOK(l)'
    <3>1. GotOK(l)
        BY DEF TallyInv
    <3>2. CASE l = k
      <4>1. slot'[k].got = 0 /\ slot'[k].rx = d
          BY <2>5, <2>7, <2>8, <3>1, <3>2 DEF GotOK
      <4>2. r.ring.wr = 0 /\ Pushed(r) = 0
          BY <1>0, <2>4 DEF Pushed
      <4>3. slot'[k].got = r.ring.wr - Pushed(r)
          BY <4>1, <4>2
      <4> QED BY <2>6, <3>2, <4>1, <4>3 DEF GotOK, Pushed
    <3>3. CASE l # k
      <4>1. slot'[l] = slot[l] /\ slot[l].rx # d
          BY <1>0, <2>7, <3>3 DEF Inv, SlotInv
      <4>2. \A u \in Tap : slot[l].rx = u => slot[l].got = tap'[u].ring.wr - Pushed(tap'[u])
          BY <2>6, <3>1, <4>1 DEF GotOK
      <4> QED BY <3>1, <4>1, <4>2, GotStays
    <3> QED BY <3>2, <3>3
  <2> QED BY <2>10, <2>11, <2>12, <2>13 DEF TallyInv
<1>3. CASE slot' = slot /\ tap' = [tap EXCEPT ![d].at = "bypass"]
  <2> DEFINE r == [tap[d] EXCEPT !.at = "bypass"]
  <2>1. tap' = [tap EXCEPT ![d] = r]
      BY <1>3 DEF Inv, TypeOK
  <2>2. r \in TapType /\ r.of = tap[d].of /\ r.at = "bypass" /\ r.pc = "idle"
      BY <1>0 DEF TapType
  <2> HIDE DEF r
  <2>3. FilterOK(r)
      BY <2>2 DEF FilterOK
  <2>4. \A k \in Slot : slot[k].rx # d
      BY <1>0 DEF Inv, SlotInv
  <2> QED BY <1>1, <1>3, <2>1, <2>2, <2>3, <2>4, TapCounts
<1> QED BY <1>2, <1>3 DEF DecPublish

LEMMA DecFreeCounts == ASSUME Inv, CountsInv, NEW d \in Tap, DecFree(d) PROVE CountsInv'
<1> USE DEF CountsInv, pyVars
<1> DEFINE c == tap[d].of
           r == [NoTap EXCEPT !.of = c, !.at = "freed"]
<1>0. tap[d].at # "none" /\ c \in Call
    BY TapFacts DEF DecFree
<1>1. tap' = [tap EXCEPT ![d] = r] /\ UNCHANGED <<call, src>> /\ Onward
    BY DEF DecFree, Onward
<1>2. r \in TapType /\ r.of = c /\ r.at = "freed" /\ r.pc = "idle"
    BY <1>0, FreshTap DEF NoTap
<1> HIDE DEF r
<1>3. FilterOK(r) /\ ~Filters(r)
    BY <1>2 DEF FilterOK, Filters
<1>4. CASE tap[d].at # "published"
  <2>1. slot' = slot
      BY <1>4 DEF DecFree
  <2>2. \A k \in Slot : slot[k].rx # d
      BY <1>4 DEF Inv, SlotInv
  <2> QED BY <1>1, <1>2, <1>3, <2>1, <2>2, TapCounts
<1>5. CASE tap[d].at = "published"
  <2>1. slot' = Unpublished(c, NoRing, d)
      BY <1>5 DEF DecFree
  <2>2. Leaves(c, NoRing, d)
    <3>1. NoRing \in Source \cup {NoRing} /\ d \in Tap \cup {NoRing}
        OBVIOUS
    <3> QED BY <1>0, <2>1, <3>1, UnpublishedSlot
  <2>3. tap'[d] = r /\ \A u \in Tap : u # d => tap'[u] = tap[u]
      BY <1>1 DEF Inv, TypeOK
  <2> HIDE DEF c
  <2>4. \A k \in Slot : /\ slot'[k].call = slot[k].call /\ slot'[k].tx = slot[k].tx
                        /\ slot'[k].sent = slot[k].sent /\ slot'[k].skipped = slot[k].skipped
    <3>1. \A k \in Slot : slot[k].tx # NoRing
        BY DEF Inv, TypeOK, SlotType, NoRing
    <3> QED BY <2>2, <3>1 DEF Leaves
  <2>5. ThreadInv'
      BY <1>1, <2>4, ThreadStays DEF ThreadInv
  <2>6. FilterInv'
    <3>1. \A u \in Tap : FilterOK(tap'[u])
        BY <1>3, <2>3 DEF FilterInv
    <3>2. \A u \in Tap : Filters(tap'[u]) => Filters(tap[u]) /\ tap'[u].of = tap[u].of
        BY <1>3, <2>3
    <3>3. \A u \in Tap : tap'[u].at = "published" => tap[u].at = "published" /\ u # d
        BY <1>2, <2>3
    <3>4. \A u \in Tap, k \in Slot : u # d /\ slot[k].rx = u => slot'[k].rx = u
        BY <2>2 DEF Leaves
    <3> QED BY <1>1, <3>1, <3>2, <3>3, <3>4, FilterStays
  <2>7. ASSUME NEW k \in Slot PROVE SentOK(k)'
    <3>1. SentOK(k)
        BY DEF TallyInv
    <3>2. \A s \in Source : slot[k].tx = s => Tally(slot[k].sent, slot[k].skipped, src'[s])
        BY <1>1, <3>1 DEF SentOK
    <3> QED BY <1>1, <2>4, <3>1, <3>2, SentStays
  <2>8. ASSUME NEW k \in Slot PROVE GotOK(k)'
    <3>1. GotOK(k)
        BY DEF TallyInv
    <3>2. CASE slot[k].rx = d
      <4>1. slot[k].call = c
          BY <1>5, <3>2 DEF Inv, SlotInv, c
      <4>2. slot'[k].rx = 0 /\ slot'[k].got = 0
          BY <2>2, <3>2, <4>1 DEF Leaves
      <4> QED BY <4>2 DEF GotOK
    <3>3. CASE slot[k].rx # d
      <4>1. slot'[k].rx = slot[k].rx /\ slot'[k].got = slot[k].got
          BY <2>2, <3>3 DEF Leaves
      <4>2. \A u \in Tap : slot[k].rx = u => slot[k].got = tap'[u].ring.wr - Pushed(tap'[u])
          BY <2>3, <3>1, <3>3 DEF GotOK
      <4> QED BY <3>1, <4>1, <4>2, GotStays
    <3> QED BY <3>2, <3>3
  <2> QED BY <2>5, <2>6, <2>7, <2>8 DEF TallyInv
<1> QED BY <1>4, <1>5

-----------------------------------------------------------------------------
(* The Python threads: the copies, of which the counts see the ends only.  *)

LEMMA CopyCounts ==
    ASSUME Inv, CountsInv, UNCHANGED <<call, slot>>,
           \A s \in Source :
              \/ src'[s] = src[s]
              \/ /\ src[s].at = "live" /\ src'[s].at = "live" /\ src'[s].of = src[s].of
                 /\ src'[s].pc = src[s].pc /\ src'[s].passed = src[s].passed
                 /\ src'[s].ring.rd = src[s].ring.rd /\ src'[s].ring.copying = src[s].ring.copying,
           \A d \in Tap :
              \/ tap'[d] = tap[d]
              \/ /\ tap'[d].at = "published" /\ tap[d].at = "published" /\ tap'[d].of = tap[d].of
                 /\ tap'[d].pc = tap[d].pc /\ tap'[d].ring.wr = tap[d].ring.wr
    PROVE  CountsInv'
<1> USE DEF CountsInv
<1>1. Onward
    BY DEF Onward
<1>2. ThreadInv'
  <2>1. ASSUME NEW s \in Source PROVE ThreadOK(src'[s])
    <3>1. ThreadOK(src[s])
        BY DEF ThreadInv
    <3>2. CASE src'[s] = src[s]
        BY <3>1, <3>2
    <3>3. CASE src'[s] # src[s]
        BY <3>1, <3>3 DEF ThreadOK, HasThread
    <3> QED BY <3>2, <3>3
  <2>2. \A s \in Source : HasThread(src'[s]) => HasThread(src[s]) /\ src'[s].of = src[s].of
      BY DEF HasThread
  <2>3. \A s \in Source : src'[s].at = "live" => src[s].at = "live"
      OBVIOUS
  <2> QED BY <1>1, <2>1, <2>2, <2>3, ThreadStays
<1>3. FilterInv'
  <2>1. ASSUME NEW d \in Tap PROVE FilterOK(tap'[d])
    <3>1. FilterOK(tap[d])
        BY DEF FilterInv
    <3>2. CASE tap'[d] = tap[d]
        BY <3>1, <3>2
    <3>3. CASE tap'[d] # tap[d]
        BY <3>1, <3>3 DEF FilterOK
    <3> QED BY <3>2, <3>3
  <2>2. \A d \in Tap : Filters(tap'[d]) => Filters(tap[d]) /\ tap'[d].of = tap[d].of
      BY DEF Filters
  <2>3. \A d \in Tap : tap'[d].at = "published" => tap[d].at = "published"
      OBVIOUS
  <2> QED BY <1>1, <2>1, <2>2, <2>3, FilterStays
<1>4. ASSUME NEW k \in Slot PROVE SentOK(k)' /\ GotOK(k)'
  <2>1. SentOK(k) /\ GotOK(k)
      BY DEF TallyInv
  <2>2. ASSUME NEW s \in Source, slot[k].tx = s
        PROVE  Tally(slot[k].sent, slot[k].skipped, src'[s])
    <3>1. Tally(slot[k].sent, slot[k].skipped, src[s])
        BY <2>2, InSlot
    <3>2. Due(src'[s]) = Due(src[s]) /\ Pushed(src'[s]) = Pushed(src[s])
          /\ src'[s].ring.rd = src[s].ring.rd
        BY DEF Due, Pushed
    <3> QED BY <3>1, <3>2 DEF Tally
  <2>3. \A s \in Source : Going(src'[s]) => src'[s] = src[s]
      BY DEF Going
  <2>4. ASSUME NEW d \in Tap, slot[k].rx = d
        PROVE  slot[k].got = tap'[d].ring.wr - Pushed(tap'[d])
    <3>1. slot[k].got = tap[d].ring.wr - Pushed(tap[d])
        BY <2>4, FilterInSlot
    <3>2. tap'[d].ring.wr = tap[d].ring.wr /\ Pushed(tap'[d]) = Pushed(tap[d])
        BY DEF Pushed
    <3> QED BY <3>1, <3>2
  <2>5. SentOK(k)'
      BY <2>1, <2>2, <2>3, SentStays
  <2>6. GotOK(k)'
      BY <2>1, <2>4, GotStays
  <2> QED BY <2>5, <2>6
<1> QED BY <1>2, <1>3, <1>4 DEF TallyInv

(* A ring is exchanged for another, with its indexes as CopyCounts wants them. *)
LEMMA SourceRingCounts ==
    ASSUME Inv, CountsInv, UNCHANGED <<call, slot, tap>>, NEW s \in Source, src[s].at = "live",
           NEW g, src' = [src EXCEPT ![s].ring = g],
           g.rd = src[s].ring.rd, g.copying = src[s].ring.copying
    PROVE  CountsInv'
<1>1. src[s] \in SourceType /\ src \in [Source -> SourceType]
    BY SourceFacts DEF Inv, TypeOK
<1>2. src'[s] = [src[s] EXCEPT !.ring = g] /\ \A u \in Source : u # s => src'[u] = src[u]
    BY <1>1
<1>3. /\ src'[s].at = src[s].at /\ src'[s].of = src[s].of /\ src'[s].pc = src[s].pc
      /\ src'[s].passed = src[s].passed /\ src'[s].ring = g
    BY <1>1, <1>2 DEF SourceType
<1> QED BY <1>2, <1>3, CopyCounts

LEMMA TapRingCounts ==
    ASSUME Inv, CountsInv, UNCHANGED <<call, slot, src>>, NEW d \in Tap, tap[d].at = "published",
           NEW g, tap' = [tap EXCEPT ![d].ring = g], g.wr = tap[d].ring.wr
    PROVE  CountsInv'
<1>1. tap[d] \in TapType /\ tap \in [Tap -> TapType]
    BY TapFacts DEF Inv, TypeOK
<1>2. tap'[d] = [tap[d] EXCEPT !.ring = g] /\ \A u \in Tap : u # d => tap'[u] = tap[u]
    BY <1>1
<1>3. /\ tap'[d].at = tap[d].at /\ tap'[d].of = tap[d].of /\ tap'[d].pc = tap[d].pc
      /\ tap'[d].ring = g
    BY <1>1, <1>2 DEF TapType
<1> QED BY <1>2, <1>3, CopyCounts

LEMMA PythonCounts == ASSUME Inv, CountsInv, NEW p \in Python, PythonThread(p) PROVE CountsInv'
<1>1. CASE UNCHANGED <<call, slot, src, tap>>
    BY <1>1, CopyCounts
<1>2. CASE \E k \in Granted(p) : WriteFrame(p, k) /\ UNCHANGED <<call, slot>> /\ tap' = tap
  <2>1. PICK k \in Granted(p) : WriteFrame(p, k) /\ UNCHANGED <<call, slot>> /\ tap' = tap
      BY <1>2
  <2>2. k \in Slot
      BY GrantedOurs
  <2> DEFINE s == slot[k].tx
  <2>3. CASE s # 0 /\ src' = [src EXCEPT ![s].ring = BeginFill(src[s].ring)]
    <3>1. s \in Source /\ src[s].at = "live"
        BY <2>2, <2>3 DEF Inv, TypeOK, SlotType, SlotInv
    <3>2. src[s].ring \in RingType
        BY <3>1, SourceFacts
    <3>3. /\ BeginFill(src[s].ring).rd = src[s].ring.rd
          /\ BeginFill(src[s].ring).copying = src[s].ring.copying
        BY <3>2 DEF BeginFill, RingType
    <3> HIDE DEF s
    <3> QED BY <2>1, <2>3, <3>1, <3>3, SourceRingCounts
  <2> QED BY <1>1, <2>1, <2>3 DEF WriteFrame
<1>3. CASE \E k \in Granted(p) : ReadFrame(p, k) /\ UNCHANGED <<call, slot>> /\ src' = src
  <2>1. PICK k \in Granted(p) : ReadFrame(p, k) /\ UNCHANGED <<call, slot>> /\ src' = src
      BY <1>3
  <2>2. k \in Slot
      BY GrantedOurs
  <2> DEFINE d == slot[k].rx
             n == Clamped(tap[d].ring)
  <2>3. CASE d # 0 /\ tap' = [tap EXCEPT ![d].ring = BeginTake(tap[d].ring, n)]
    <3>1. d \in Tap /\ tap[d].at = "published"
        BY <2>2, <2>3 DEF Inv, TypeOK, SlotType, SlotInv
    <3>2. tap[d].ring \in RingType
        BY <3>1, TapFacts
    <3> HIDE DEF n
    <3>3. BeginTake(tap[d].ring, n).wr = tap[d].ring.wr
        BY <3>2 DEF BeginTake, RingType
    <3> HIDE DEF d
    <3> QED BY <2>1, <2>3, <3>1, <3>3, TapRingCounts
  <2> QED BY <1>1, <2>1, <2>3 DEF ReadFrame
<1>4. CASE EndWrite(p)
  <2> DEFINE s == py[p].ring
  <2>1. /\ py[p].at = "filling" /\ src' = [src EXCEPT ![s].ring = EndFill(src[s].ring)]
        /\ UNCHANGED <<call, slot, tap>>
      BY <1>4 DEF EndWrite
  <2>2. s \in Source /\ src[s].at = "live"
      BY <2>1 DEF Inv, CopyInv
  <2>3. src[s].ring \in RingType
      BY <2>2, SourceFacts
  <2>4. EndFill(src[s].ring).rd = src[s].ring.rd /\ EndFill(src[s].ring).copying = src[s].ring.copying
      BY <2>3 DEF EndFill, RingType
  <2> HIDE DEF s
  <2> QED BY <2>1, <2>2, <2>4, SourceRingCounts
<1>5. CASE EndRead(p)
  <2> DEFINE d == py[p].ring
  <2>1. /\ py[p].at = "copying" /\ tap' = [tap EXCEPT ![d].ring = EndTake(tap[d].ring)]
        /\ UNCHANGED <<call, slot, src>>
      BY <1>5 DEF EndRead
  <2>2. d \in Tap /\ tap[d].at = "published"
      BY <2>1 DEF Inv, CopyInv
  <2>3. tap[d].ring \in RingType
      BY <2>2, TapFacts
  <2>4. EndTake(tap[d].ring).wr = tap[d].ring.wr
      BY <2>3 DEF EndTake, RingType
  <2> HIDE DEF d
  <2> QED BY <2>1, <2>2, <2>4, TapRingCounts
<1>6. CASE Begin(p) \/ Probe(p) \/ Bind(p) \/ Fetch(p) \/ Unbind(p)
    BY <1>1, <1>6 DEF Begin, Probe, Bind, Fetch, Unbind, streamVars
<1>7. CASE Native(p)
  <2>1. UNCHANGED <<call, slot>>
      BY <1>7 DEF Native
  <2>2. CASE UNCHANGED <<src, tap>>
      BY <1>1, <2>1, <2>2
  <2>3. ASSUME NEW k \in Granted(p), WriteFrame(p, k) PROVE CountsInv'
    <3>1. tap' = tap
        BY <2>3 DEF WriteFrame
    <3> QED BY <1>2, <2>1, <2>3, <3>1
  <2>4. ASSUME NEW k \in Granted(p), ReadFrame(p, k) PROVE CountsInv'
    <3>1. src' = src
        BY <2>4 DEF ReadFrame
    <3> QED BY <1>3, <2>1, <2>4, <3>1
  <2> QED BY <1>7, <2>2, <2>3, <2>4 DEF Native
<1> QED BY <1>4, <1>5, <1>6, <1>7 DEF PythonThread

-----------------------------------------------------------------------------
(* Every step.                                                             *)

LEMMA StepCounts == Inv /\ CountsInv /\ [Next]_vars => CountsInv'
<1> SUFFICES ASSUME Inv, CountsInv, [Next]_vars PROVE CountsInv'
    OBVIOUS
<1>1. CASE ReThread
  <2>1. CASE \E c \in Call : CallUp(c) \/ Established(c) \/ CallClosed(c)
      BY <2>1, CallUpCounts, EstablishedCounts, CallClosedCounts
  <2>2. CASE \E c \in Call, s \in Source : SrcAlloc(c, s)
      BY <2>2, SrcAllocCounts
  <2>3. CASE \E s \in Source : SrcPublish(s) \/ SrcDrop(s) \/ SrcStop(s) \/ SrcFree(s)
      BY <2>3, SrcPublishCounts, SrcDropCounts, SrcStopCounts, SrcFreeCounts
  <2>4. CASE \E c \in Call, d \in Tap : DecUpdate(c, d)
      BY <2>4, DecUpdateCounts
  <2>5. CASE \E d \in Tap : \/ DecPublish(d) \/ DecFrame(d) \/ DecWrite(d) \/ DecFilled(d)
                            \/ DecCount(d) \/ DecFree(d)
      BY <2>5, DecPublishCounts, DecWriteCounts, DecCountCounts, DecFreeCounts
  <2>6. CASE Teardown \/ Unregister
      BY <2>6, TeardownCounts, UnregisterCounts
  <2> QED BY <1>1, <2>1, <2>2, <2>3, <2>4, <2>5, <2>6 DEF ReThread
<1>2. CASE \E s \in Source : SrcThread(s)
    BY <1>2, TickCounts, PushCounts, CountCounts, QuitCounts DEF SrcThread
<1>3. CASE \E p \in Python : PythonThread(p)
    BY <1>3, PythonCounts
<1>4. CASE UNCHANGED vars
    BY <1>4, CopyCounts DEF vars
<1> QED BY <1>1, <1>2, <1>3, <1>4 DEF Next

(* What info() counts of a source in its slot is what its pacing thread has *)
(* taken off the ring, give or take the frame in its hands and what the     *)
(* thread of its predecessor had left (vsrc_thread counts in whatever slot  *)
(* its call has by then); frames received are counted exactly.              *)
THEOREM CountersAreTheStreams == Spec => []CountersAgree
<1>1. Init => Inv /\ CountsInv
    BY InitInv, InitCounts
<1>2. Inv /\ CountsInv /\ [Next]_vars => (Inv /\ CountsInv)'
    BY StepInv, StepCounts
<1>3. Inv /\ CountsInv => CountersAgree
    BY CountsAgree
<1> QED BY <1>1, <1>2, <1>3, PTL DEF Spec
=============================================================================
