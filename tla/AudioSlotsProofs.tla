-------------------------- MODULE AudioSlotsProofs ---------------------------
(***************************************************************************)
(* Proofs about AudioSlots.tla, for every number of calls, slots, streams, *)
(* filters and frames of a ring.                                           *)
(***************************************************************************)
EXTENDS AudioSlots, WellFoundedInduction, TLAPS

-----------------------------------------------------------------------------
(* Every non-empty set of naturals has a least element. *)
LEMMA LeastElement ==
    ASSUME NEW S \in SUBSET Nat, S # {}
    PROVE  \E s \in S : \A t \in S : s <= t
<1> DEFINE LessThan == {p \in Nat \X Nat : p[1] < p[2]}
<1>1. IsWellFoundedOn(LessThan, Nat)
    BY NatLessThanWellFounded DEF OpToRel
<1>2. PICK s \in S : \A t \in S : <<t, s>> \notin LessThan
    BY <1>1, WFMin
<1>3. \A t \in S : t \in Nat /\ s \in Nat /\ ~(t < s)
    BY <1>2
<1> QED BY <1>3


USE AudioSlotsAssumption

-----------------------------------------------------------------------------
(* The inductive invariant.                                                *)

(* The slot table: one slot per call, of a call that has a handle; a ring   *)
(* in it is of a stream of the call that is up.                             *)
SlotInv ==
    /\ \A k \in Slot :
          /\ slot[k].call = NoCall => slot[k] = FreeSlot
          /\ slot[k].call # NoCall => driver # "closed" /\ call[slot[k].call] \in {"up", "torn"}
          /\ slot[k].rx => tap[slot[k].call] = "tap"
          /\ slot[k].tx # 0 => /\ src[slot[k].tx].at = "live"
                               /\ src[slot[k].tx].of = slot[k].call
          /\ slot[k].flush => slot[k].tx # 0
    /\ \A k, l \in Slot : slot[k].call = slot[l].call /\ slot[k].call # NoCall => k = l

Up(s) == src[s].at \in {"starting", "live"}

(* The streams: one per call, whose thread goes on until it is dropped; it  *)
(* is made while the call has its handle, which means the driver is there.  *)
StreamInv ==
    /\ \A s \in Source :
          /\ src[s].at # "none" => src[s].of \in Call
          /\ Up(s) => src[s].run
          /\ src[s].at = "starting" => call[src[s].of] = "up"
    /\ \A s, u \in Source : Up(s) /\ Up(u) /\ src[s].of = src[u].of => s = u
    /\ \A c \in Call : call[c] = "up" => driver = "open"

(* A thread of a stream that is up has cached its call's slot, or none. *)
CacheInv ==
    \A s \in Source :
        /\ src[s].pc = "drain" => src[s].cached # 0
        /\ Up(s) /\ src[s].cached # 0 => \A k \in Slot : slot[k].tx = s => k = src[s].cached
        /\ src[s].at = "starting" /\ src[s].cached # 0 => slot[src[s].cached].call = src[s].of

(* What is in a ring was meant for it. *)
RingInv == NoMisdirectedPcm

(* A binding is no newer than the slot of the call, and if it is of its     *)
(* epoch it is of its stream.                                               *)
Binds(epoch, to) ==
    /\ \A k \in Slot : slot[k].call = Mine =>
          epoch <= slot[k].epoch /\ (epoch = slot[k].epoch /\ to # 0 => slot[k].tx = to)
    /\ (\A k \in Slot : slot[k].call # Mine) =>
          epoch = Unbound \/ call[Mine] \in {"torn", "closed"}

BindInv == Binds(bound, boundTo) /\ \A p \in Python : Binds(py[p].epoch, py[p].to)

(* A request to flush that its thread has passed by is seen the next time. *)
Sees(s, k) == \/ src[s].pc \in {"top", "drain"}
              \/ src[s].pc = "flush?" /\ src[s].cached = k

FlushInv ==
    /\ \A s \in Source : src[s].at = "starting" => src[s].old = 0 /\ src[s].late = 0
    /\ \A k \in Slot : \A s \in Source : slot[k].tx = s =>
          /\ ~slot[k].flush => src[s].old = 0 /\ src[s].late = 0
          /\ src[s].late = 0 \/ (src[s].late = 1 /\ Sees(s, k))

Inv == TypeOK /\ SlotInv /\ StreamInv /\ CacheInv /\ RingInv /\ BindInv /\ FlushInv

USE DEF Source, Slot, Python

LEMMA InitInv == Init => Inv
<1> SUFFICES ASSUME Init PROVE Inv
    OBVIOUS
<1>1. TypeOK
  <2>1. FreeSlot \in SlotType
      BY DEF FreeSlot, SlotType
  <2>2. NoSource \in SourceType /\ Len(NoSource.ring) <= RingFrames /\ NoSource.old <= Len(NoSource.ring)
      BY DEF NoSource, SourceType
  <2>3. Idle \in PythonType
      BY DEF Idle, PythonType
  <2> QED BY <2>1, <2>2, <2>3 DEF Init, TypeOK
<1>2. SlotInv /\ StreamInv /\ CacheInv /\ RingInv /\ FlushInv
    BY DEF Init, SlotInv, StreamInv, CacheInv, RingInv, FlushInv, NoMisdirectedPcm, Up,
           FreeSlot, NoSource
<1>3. BindInv
    BY DEF Init, BindInv, Binds, FreeSlot, Idle
<1> QED BY <1>1, <1>2, <1>3 DEF Inv

-----------------------------------------------------------------------------
(* The search for a slot.                                                  *)

LEMMA LowestFound ==
    ASSUME NEW S \in SUBSET Slot, S # {}
    PROVE  Min(S) \in S
<1>1. S \in SUBSET Nat
    OBVIOUS
<1>2. \E k \in S : \A l \in S : k <= l
    BY <1>1, LeastElement
<1> QED BY <1>2 DEF Min

(* A call's slot is its own, or a free one if it has none. *)
LEMMA SlotFound ==
    ASSUME NEW c \in Call, NEW k \in SlotFor(c)
    PROVE  /\ k \in Slot
           /\ slot[k].call = c \/ (slot[k].call = NoCall /\ \A l \in Slot : slot[l].call # c)
<1>1. Of(c) \in SUBSET Slot /\ Of(NoCall) \in SUBSET Slot
    BY DEF Of
<1> QED BY <1>1, LowestFound DEF SlotFor, Of

-----------------------------------------------------------------------------
(* The Python threads.                                                     *)

(* Steps that change the bindings only. *)
LEMMA PyFrame ==
    ASSUME Inv, UNCHANGED <<driver, call, slot, src, tap, taps>>,
           bound' \in Nat \cup {Unbound}, boundTo' \in {0} \cup Source,
           py' \in [Python -> PythonType],
           Binds(bound', boundTo'), \A p \in Python : Binds(py'[p].epoch, py'[p].to)
    PROVE  Inv'
<1> USE DEF Inv
<1>1. TypeOK'
    BY DEF TypeOK
<1>2. SlotInv' /\ StreamInv' /\ CacheInv' /\ RingInv' /\ FlushInv'
    BY DEF SlotInv, StreamInv, CacheInv, RingInv, FlushInv, NoMisdirectedPcm, Up, Sees
<1>3. \A e, to : Binds(e, to) => Binds(e, to)'
    BY DEF Binds
<1>4. BindInv'
    BY <1>3 DEF BindInv
<1> QED BY <1>1, <1>2, <1>4

(* No binding, and a thread that has none. *)
LEMMA NotBound ==
    ASSUME TypeOK, NEW to
    PROVE  Binds(Unbound, to)
BY DEF Binds, TypeOK, SlotType, Unbound

LEMMA IdleType == \A w \in {"idle", "probe", "bind", "fetch", "native", "unbind"} :
    /\ [Idle EXCEPT !.at = w] \in PythonType
    /\ [Idle EXCEPT !.at = w].epoch = Unbound /\ [Idle EXCEPT !.at = w].to = 0
BY DEF Idle, PythonType

LEMMA PyInv ==
    ASSUME Inv, NEW p \in Python,
           Begin(p) \/ Probe(p) \/ Bind(p) \/ Fetch(p) \/ Unbind(p)
    PROVE  Inv'
<1> USE DEF Inv, reVars, pyVars
<1>0. /\ py \in [Python -> PythonType] /\ bound \in Nat \cup {Unbound}
      /\ boundTo \in {0} \cup Source /\ Idle \in PythonType /\ py[p] \in PythonType
    BY DEF TypeOK, Idle, PythonType
<1>1. /\ UNCHANGED <<driver, call, slot, src, tap, taps>>
      /\ \E r : py' = [py EXCEPT ![p] = r]
      /\ \/ UNCHANGED <<bound, boundTo>>
         \/ bound' = py[p].epoch /\ boundTo' = py[p].to
         \/ bound' = Unbound /\ boundTo' = 0
    BY DEF Begin, Probe, Bind, Fetch, Unbind, Goes, Turns
<1>2. PICK r : py' = [py EXCEPT ![p] = r]
    BY <1>1
<1>3. bound' \in Nat \cup {Unbound} /\ boundTo' \in {0} \cup Source /\ Binds(bound', boundTo')
    BY <1>0, <1>1, NotBound DEF BindInv, PythonType
<1>4. py'[p] \in PythonType /\ Binds(py'[p].epoch, py'[p].to)
  <2>1. CASE \E w \in {"idle", "probe", "bind", "fetch", "native", "unbind"} : py'[p] = [Idle EXCEPT !.at = w]
      BY <2>1, IdleType, NotBound
  <2>2. CASE py'[p] = Idle
      BY <2>2, <1>0, NotBound DEF Idle
  <2>3. CASE \E k \in Of(Mine) : py'[p] = [py[p] EXCEPT !.at = "bind", !.epoch = slot[k].epoch, !.to = slot[k].tx]
    <3>1. PICK k \in Slot : /\ slot[k].call = Mine
                            /\ py'[p] = [py[p] EXCEPT !.at = "bind", !.epoch = slot[k].epoch, !.to = slot[k].tx]
        BY <2>3 DEF Of
    <3>2. slot[k].epoch \in Nat /\ slot[k].tx \in {0} \cup Source
        BY DEF TypeOK, SlotType
    <3>3. py'[p] \in PythonType /\ py'[p].epoch = slot[k].epoch /\ py'[p].to = slot[k].tx
        BY <1>0, <3>1, <3>2 DEF PythonType
    <3>4. \A l \in Slot : slot[l].call = Mine => l = k
        BY <3>1 DEF SlotInv
    <3> QED BY <3>1, <3>2, <3>3, <3>4 DEF Binds
  <2>4. CASE py'[p] = [py[p] EXCEPT !.at = "native", !.epoch = bound, !.to = boundTo]
    <3>1. py'[p] \in PythonType /\ py'[p].epoch = bound /\ py'[p].to = boundTo
        BY <1>0, <2>4 DEF PythonType
    <3> QED BY <3>1 DEF BindInv
  <2> QED BY <1>0, <2>1, <2>2, <2>3, <2>4 DEF Begin, Probe, Bind, Fetch, Unbind, Goes, Turns
<1>5. py' \in [Python -> PythonType] /\ \A q \in Python : Binds(py'[q].epoch, py'[q].to)
    BY <1>0, <1>2, <1>4 DEF BindInv
<1> QED BY <1>1, <1>3, <1>5, PyFrame

-----------------------------------------------------------------------------
(* Steps that leave the streams and the table as they are, but for what is  *)
(* in the rings, the threads and the requests to flush.                     *)

LEMMA DataFrame ==
    ASSUME Inv, UNCHANGED <<driver, call, tap, taps, bound, boundTo>>,
           src' \in [Source -> SourceType], slot' \in [Slot -> SlotType],
           py' \in [Python -> PythonType],
           \A s \in Source : /\ src'[s].of = src[s].of /\ src'[s].at = src[s].at
                             /\ src'[s].run = src[s].run,
           \A k \in Slot : slot'[k] = slot[k]
                           \/ /\ slot[k].tx # 0
                              /\ slot'[k].call = slot[k].call /\ slot'[k].epoch = slot[k].epoch
                              /\ slot'[k].tx = slot[k].tx /\ slot'[k].rx = slot[k].rx,
           \A q \in Python : py'[q] = py[q] \/ py'[q].epoch = Unbound
    PROVE  SlotInv' /\ StreamInv' /\ BindInv'
<1> USE DEF Inv, TypeOK
<1>1. \A k \in Slot : /\ slot'[k].call = slot[k].call /\ slot'[k].epoch = slot[k].epoch
                       /\ slot'[k].tx = slot[k].tx /\ slot'[k].rx = slot[k].rx
    OBVIOUS
<1>2. SlotInv'
  <2>1. \A k \in Slot : slot[k].call = NoCall => slot[k].tx = 0
      BY DEF SlotInv, FreeSlot
  <2>2. \A k \in Slot : slot[k].tx # 0 => slot[k].tx \in Source
      BY DEF SlotType
  <2>3. \A k \in Slot : slot'[k].call = NoCall => slot'[k] = FreeSlot
      BY <1>1, <2>1 DEF SlotInv
  <2>4. \A k \in Slot : slot'[k].call # NoCall => driver # "closed" /\ call[slot'[k].call] \in {"up", "torn"}
      BY <1>1 DEF SlotInv
  <2>5. \A k \in Slot : /\ (slot'[k].rx => tap[slot'[k].call] = "tap")
                         /\ (slot'[k].flush => slot'[k].tx # 0)
    <3> TAKE k \in Slot
    <3>1. (slot[k].rx => tap[slot[k].call] = "tap") /\ (slot[k].flush => slot[k].tx # 0)
        BY DEF SlotInv
    <3>2. CASE slot'[k] = slot[k]
        BY <3>1, <3>2
    <3>3. CASE slot'[k] # slot[k]
        BY <3>1, <3>3
    <3> QED  BY <3>2, <3>3
  <2>6. \A k \in Slot : slot'[k].tx # 0 => /\ src'[slot'[k].tx].at = "live"
                                           /\ src'[slot'[k].tx].of = slot'[k].call
    <3> SUFFICES ASSUME NEW k \in Slot, slot'[k].tx # 0
                 PROVE  src'[slot'[k].tx].at = "live" /\ src'[slot'[k].tx].of = slot'[k].call
        OBVIOUS
    <3>1. PICK s \in Source : s = slot[k].tx
        BY <1>1, <2>2
    <3>2. src[s].at = "live" /\ src[s].of = slot[k].call
        BY <1>1, <3>1 DEF SlotInv
    <3> QED BY <1>1, <3>1, <3>2
  <2>7. \A k, l \in Slot : slot'[k].call = slot'[l].call /\ slot'[k].call # NoCall => k = l
      BY <1>1 DEF SlotInv
  <2> QED BY <2>3, <2>4, <2>5, <2>6, <2>7 DEF SlotInv
<1>3. StreamInv'
    BY DEF StreamInv, Up
<1>4. \A e, to : Binds(e, to) => Binds(e, to)'
    BY <1>1 DEF Binds
<1>5. \A to : Binds(Unbound, to)
    BY NotBound
<1>6. BindInv'
    BY <1>4, <1>5 DEF BindInv
<1> QED BY <1>2, <1>3, <1>6

LEMMA RingType ==
    \A r \in SourceType : /\ r.ring \in Seq(Frame) /\ Len(r.ring) \in Nat
                          /\ r.old \in Nat /\ r.late \in Nat
<1> SUFFICES ASSUME NEW r \in SourceType PROVE r.ring \in Seq(Frame) /\ r.old \in Nat /\ r.late \in Nat
    OBVIOUS
<1> QED BY DEF SourceType

(* The slot an accessor is granted has the stream its caller was bound to,  *)
(* if any.                                                                  *)
LEMMA GrantedOurs ==
    ASSUME Inv, NEW p \in Python, NEW k \in Granted(p)
    PROVE  k \in Slot /\ slot[k].call = Mine /\ py[p].to \in {0, slot[k].tx}
BY DEF Inv, Granted, Of, BindInv, Binds

LEMMA NativeInv ==
    ASSUME Inv, NEW p \in Python, Native(p)
    PROVE  Inv'
<1> USE DEF Inv, reVars
<1>0. /\ py \in [Python -> PythonType] /\ bound \in Nat \cup {Unbound}
      /\ boundTo \in {0} \cup Source /\ Idle \in PythonType /\ Idle.epoch = Unbound
    BY DEF TypeOK, Idle, PythonType
<1>1. UNCHANGED <<driver, call, tap, taps, bound, boundTo>>
    BY DEF Native
<1>2. PICK r \in PythonType : r.epoch = Unbound /\ py' = [py EXCEPT ![p] = r]
  <2>1. Turns(p, "unbind") \/ Goes(p, Idle)
      BY DEF Native
  <2> QED BY <1>0, <2>1, IdleType DEF Turns, Goes
<1>3. py' \in [Python -> PythonType] /\ \A q \in Python : py'[q] = py[q] \/ py'[q].epoch = Unbound
    BY <1>0, <1>2
<1>4. CASE UNCHANGED <<slot, src>>
  <2>1. \A q \in Python : Binds(py'[q].epoch, py'[q].to)
      BY <1>3, NotBound DEF BindInv
  <2> QED BY <1>0, <1>1, <1>3, <1>4, <2>1, PyFrame DEF BindInv
<1>5. CASE \E k \in Granted(p) : Write(p, k) /\ slot' = slot
  <2>1. PICK k \in Granted(p) : Write(p, k) /\ slot' = slot
      BY <1>5
  <2> DEFINE s == slot[k].tx
  <2>2. k \in Slot /\ py[p].to \in {0, s} /\ s \in {0} \cup Source
      BY <2>1, GrantedOurs DEF TypeOK, SlotType
  <2>3. CASE src' = src
      BY <1>4, <2>1, <2>3
  <2>4. CASE src' # src
    <3>1. /\ s \in Source /\ Len(src[s].ring) < RingFrames
          /\ src' = [src EXCEPT ![s].ring = Append(@, py[p].to)]
        BY <2>1, <2>2, <2>4 DEF Write
    <3>2. /\ src[s] \in SourceType /\ src[s].ring \in Seq(Frame)
          /\ Len(src[s].ring) \in Nat /\ py[p].to \in Frame
      <4>1. src[s] \in SourceType /\ py[p] \in PythonType
          BY <3>1 DEF TypeOK
      <4> QED BY <4>1, RingType DEF Frame, PythonType
    <3> DEFINE g == Append(src[s].ring, py[p].to)
    <3>3. g \in Seq(Frame) /\ Len(g) = Len(src[s].ring) + 1
        BY <3>2
    <3>4. \A i \in 1 .. Len(g) : g[i] = IF i <= Len(src[s].ring) THEN src[s].ring[i] ELSE py[p].to
        BY <3>2
    <3> HIDE DEF g
    <3>5. src'[s] = [src[s] EXCEPT !.ring = g] /\ \A u \in Source : u # s => src'[u] = src[u]
        BY <3>1 DEF TypeOK, g
    <3>6. /\ src'[s] \in SourceType /\ src'[s].ring = g
          /\ src'[s].of = src[s].of /\ src'[s].at = src[s].at /\ src'[s].run = src[s].run
          /\ src'[s].pc = src[s].pc /\ src'[s].cached = src[s].cached
          /\ src'[s].old = src[s].old /\ src'[s].late = src[s].late
        BY <3>2, <3>3, <3>5 DEF SourceType
    <3>7. src' \in [Source -> SourceType]
        BY <3>1, <3>5, <3>6 DEF TypeOK
    <3>8. \A u \in Source : /\ src'[u].of = src[u].of /\ src'[u].at = src[u].at
                             /\ src'[u].run = src[u].run /\ src'[u].pc = src[u].pc
                             /\ src'[u].cached = src[u].cached
                             /\ src'[u].old = src[u].old /\ src'[u].late = src[u].late
        BY <3>5, <3>6
    <3>9. TypeOK'
      <4>1. src[s].old <= Len(src[s].ring) /\ src[s].old \in Nat
          BY <3>1, <3>2 DEF TypeOK, SourceType
      <4>2. Len(src'[s].ring) <= RingFrames /\ src'[s].old <= Len(src'[s].ring)
        <5>1. src'[s].ring = g /\ src'[s].old = src[s].old
            BY <3>6
        <5>2. Len(g) <= RingFrames /\ src[s].old <= Len(g)
          <6> DEFINE n == Len(src[s].ring)
          <6>1. n \in Nat /\ n < RingFrames /\ Len(g) = n + 1 /\ src[s].old <= n /\ RingFrames \in Nat
              BY <3>1, <3>2, <3>3, <4>1
          <6> HIDE DEF n
          <6> QED BY <4>1, <6>1
        <5> QED BY <5>1, <5>2
      <4>3. \A u \in Source : Len(src'[u].ring) <= RingFrames /\ src'[u].old <= Len(src'[u].ring)
          BY <3>5, <4>2 DEF TypeOK
      <4> QED BY <1>1, <1>3, <2>1, <3>7, <4>3 DEF TypeOK
    <3>10. SlotInv' /\ StreamInv' /\ BindInv'
        BY <1>1, <1>3, <2>1, <3>7, <3>8, DataFrame DEF TypeOK
    <3>11. CacheInv' /\ FlushInv'
        BY <2>1, <3>8 DEF CacheInv, FlushInv, Up, Sees
    <3>12. RingInv'
      <4>1. \A i \in 1 .. Len(src'[s].ring) : src'[s].ring[i] \in {0, s}
        <5> SUFFICES ASSUME NEW i \in 1 .. Len(g) PROVE g[i] \in {0, s}
            BY <3>6
        <5>1. CASE i <= Len(src[s].ring)
          <6>1. i \in 1 .. Len(src[s].ring) /\ g[i] = src[s].ring[i]
              BY <3>2, <3>3, <3>4, <5>1
          <6> QED BY <3>1, <6>1 DEF RingInv, NoMisdirectedPcm
        <5>2. CASE ~(i <= Len(src[s].ring))
            BY <2>2, <3>4, <5>2
        <5> QED BY <5>1, <5>2
      <4> QED BY <3>5, <4>1 DEF RingInv, NoMisdirectedPcm
    <3> QED BY <3>9, <3>10, <3>11, <3>12
  <2> QED BY <2>3, <2>4
<1>6. CASE \E k \in Granted(p) : Flush(k)
  <2>1. PICK k \in Granted(p) : Flush(k)
      BY <1>6
  <2> DEFINE s == slot[k].tx
  <2>2. k \in Slot /\ s \in {0} \cup Source
      BY <2>1, GrantedOurs DEF TypeOK, SlotType
  <2>3. CASE s = 0
      BY <1>4, <2>1, <2>3 DEF Flush
  <2>4. CASE s # 0
    <3>1. /\ s \in Source
          /\ slot' = [slot EXCEPT ![k].flush = TRUE]
          /\ src' = [src EXCEPT ![s].old = Len(src[s].ring),
                                ![s].late = IF slot[k].flush THEN @ ELSE 0]
        BY <2>1, <2>2, <2>4 DEF Flush
    <3>2. /\ src[s] \in SourceType /\ src[s].late \in Nat
          /\ Len(src[s].ring) \in Nat /\ src[s].ring \in Seq(Frame)
        BY <3>1, RingType DEF TypeOK
    <3> DEFINE n == Len(src[s].ring)
               m == IF slot[k].flush THEN src[s].late ELSE 0
    <3>n. n \in Nat /\ m \in Nat
        BY <3>2
    <3>3. /\ src'[s] = [src[s] EXCEPT !.old = n, !.late = m]
          /\ \A u \in Source : u # s => src'[u] = src[u]
        BY <3>1 DEF TypeOK
    <3>4. /\ src'[s] \in SourceType /\ src'[s].ring = src[s].ring
          /\ src'[s].of = src[s].of /\ src'[s].at = src[s].at /\ src'[s].run = src[s].run
          /\ src'[s].pc = src[s].pc /\ src'[s].cached = src[s].cached
          /\ src'[s].old = n /\ src'[s].late = m
      <4> HIDE DEF n, m
      <4> QED BY <3>2, <3>3, <3>n DEF SourceType
    <3>5. /\ slot'[k] \in SlotType /\ slot'[k].flush /\ slot'[k].call = slot[k].call
          /\ slot'[k].epoch = slot[k].epoch /\ slot'[k].tx = slot[k].tx /\ slot'[k].rx = slot[k].rx
          /\ \A l \in Slot : l # k => slot'[l] = slot[l]
        BY <2>2, <3>1 DEF TypeOK, SlotType
    <3>6. src' \in [Source -> SourceType] /\ slot' \in [Slot -> SlotType]
        BY <2>2, <3>1, <3>3, <3>4, <3>5 DEF TypeOK
    <3>7. \A u \in Source : /\ src'[u].of = src[u].of /\ src'[u].at = src[u].at
                             /\ src'[u].run = src[u].run /\ src'[u].pc = src[u].pc
                             /\ src'[u].cached = src[u].cached /\ src'[u].ring = src[u].ring
        BY <3>3, <3>4
    <3>8. \A l \in Slot : slot'[l].call = slot[l].call /\ slot'[l].tx = slot[l].tx
        BY <3>5
    <3>9. TypeOK'
      <4>1. Len(src'[s].ring) <= RingFrames /\ src'[s].old <= Len(src'[s].ring)
          BY <3>1, <3>2, <3>4, SMTT(30) DEF TypeOK
      <4>2. \A u \in Source : Len(src'[u].ring) <= RingFrames /\ src'[u].old <= Len(src'[u].ring)
          BY <3>3, <4>1 DEF TypeOK
      <4> QED BY <1>1, <1>3, <3>6, <4>2 DEF TypeOK
    <3>10. SlotInv' /\ StreamInv' /\ BindInv'
        BY <1>1, <1>3, <2>4, <3>5, <3>6, <3>7, DataFrame
    <3>11. CacheInv' /\ RingInv'
      <4>1. \A u \in Source : src[u].cached # 0 => src[u].cached \in Slot
          BY DEF TypeOK, SourceType
      <4>2. CacheInv'
          BY <3>7, <3>8, <4>1 DEF CacheInv, Up
      <4>3. RingInv'
          BY <3>7 DEF RingInv, NoMisdirectedPcm
      <4> QED BY <4>2, <4>3
    <3>12. FlushInv'
      <4>1. src[s].at = "live"
          BY <2>2, <2>4 DEF SlotInv
      <4>2. \A l \in Slot : slot[l].tx = s => l = k
          BY <2>2, <2>4, <3>1 DEF SlotInv, StreamInv, FreeSlot
      <4>3. \A l \in Slot, u \in Source : slot'[l].tx = u /\ ~slot'[l].flush => l # k /\ u # s
          BY <2>2, <3>5, <4>2
      <4>4. src'[s].late = 0 \/ (src'[s].late = 1 /\ Sees(s, k)')
          BY <2>2, <3>1, <3>4, SMTT(30) DEF FlushInv, Sees
      <4>5. \A u \in Source : src'[u].at = "starting" => u # s
          BY <3>4, <4>1
      <4>6. ASSUME NEW l \in Slot, NEW u \in Source, slot'[l].tx = u
            PROVE  /\ ~slot'[l].flush => src'[u].old = 0 /\ src'[u].late = 0
                   /\ src'[u].late = 0 \/ (src'[u].late = 1 /\ Sees(u, l)')
        <5>1. CASE u = s
            BY <3>5, <4>2, <4>3, <4>4, <4>6, <5>1
        <5>2. CASE u # s
          <6>1. l # k /\ slot'[l] = slot[l] /\ src'[u] = src[u]
              BY <3>3, <3>5, <4>6, <5>2
          <6> QED BY <4>6, <6>1 DEF FlushInv, Sees
        <5> QED BY <5>1, <5>2
      <4> QED BY <3>3, <4>5, <4>6 DEF FlushInv
    <3> QED BY <3>9, <3>10, <3>11, <3>12
  <2> QED BY <2>3, <2>4
<1> QED BY <1>4, <1>5, <1>6 DEF Native

-----------------------------------------------------------------------------
(* The thread of a source.                                                 *)

(* It changes its own stream's data only, and the requests to flush. *)
LEMMA ThreadFrame ==
    ASSUME Inv, NEW s \in Source, NEW r \in SourceType,
           src' = [src EXCEPT ![s] = r], UNCHANGED <<driver, call, tap, taps, bound, boundTo, py>>,
           r.of = src[s].of, r.at = src[s].at, r.run = src[s].run,
           Len(r.ring) <= RingFrames, r.old <= Len(r.ring),
           slot' \in [Slot -> SlotType],
           \A k \in Slot : slot'[k] = slot[k]
                           \/ /\ slot[k].tx # 0
                              /\ slot'[k].call = slot[k].call /\ slot'[k].epoch = slot[k].epoch
                              /\ slot'[k].tx = slot[k].tx /\ slot'[k].rx = slot[k].rx
                              /\ slot'[k].flush => slot[k].flush
    PROVE  /\ TypeOK' /\ SlotInv' /\ StreamInv' /\ BindInv'
           /\ src'[s] = r /\ \A u \in Source : u # s => src'[u] = src[u]
<1> USE DEF Inv, TypeOK
<1>1. src'[s] = r /\ \A u \in Source : u # s => src'[u] = src[u]
    OBVIOUS
<1>2. src' \in [Source -> SourceType]
    OBVIOUS
<1>3. TypeOK'
    BY <1>1, <1>2
<1>4. \A u \in Source : src'[u].of = src[u].of /\ src'[u].at = src[u].at /\ src'[u].run = src[u].run
    BY <1>1
<1>5. SlotInv' /\ StreamInv' /\ BindInv'
    BY <1>2, <1>4, DataFrame
<1> QED BY <1>1, <1>3, <1>5

(* A ring in the table is of one slot, that of its stream's call. *)
LEMMA Published1 ==
    ASSUME Inv, NEW s \in Source, NEW k \in Slot, slot[k].tx = s
    PROVE  /\ src[s].at = "live" /\ src[s].run /\ src[s].of \in Call
           /\ slot[k].call = src[s].of
           /\ src[s].cached \in {0, k}
           /\ Of(src[s].of) = {k}
<1> USE DEF Inv
<1>1. s # 0
    OBVIOUS
<1>2. src[s].at = "live" /\ src[s].of = slot[k].call
    BY <1>1 DEF SlotInv
<1>3. src[s].run /\ src[s].of \in Call
    BY <1>2 DEF StreamInv, Up
<1>4. src[s].cached \in {0, k}
    BY <1>2 DEF CacheInv, Up
<1>5. src[s].of # NoCall
    BY <1>3
<1>6. Of(src[s].of) = {k}
    BY <1>2, <1>5 DEF SlotInv, Of
<1> QED BY <1>2, <1>3, <1>4, <1>6

LEMMA TickInv ==
    ASSUME Inv, NEW s \in Source, Tick(s)
    PROVE  Inv'
<1> USE DEF Inv, reVars, pyVars
<1>0. src[s] \in SourceType /\ Len(src[s].ring) <= RingFrames /\ src[s].old <= Len(src[s].ring)
    BY DEF TypeOK
<1> DEFINE c == IF src[s].cached = 0 /\ Of(src[s].of) # {} THEN Min(Of(src[s].of)) ELSE src[s].cached
           r == IF ~src[s].run THEN [src[s] EXCEPT !.pc = "done"]
                ELSE [src[s] EXCEPT !.pc = "flush?", !.cached = c]
<1>1. /\ src[s].pc = "top" /\ src' = [src EXCEPT ![s] = r]
      /\ UNCHANGED <<driver, call, slot, tap, taps, bound, boundTo, py>>
    BY DEF Tick, Thread
<1>2. c \in {0} \cup Slot /\ (c # src[s].cached => c \in Of(src[s].of))
  <2>1. Of(src[s].of) \in SUBSET Slot
      BY DEF Of
  <2> QED BY <1>0, <2>1, LowestFound DEF SourceType
<1>3. /\ r \in SourceType /\ r.of = src[s].of /\ r.at = src[s].at /\ r.run = src[s].run
      /\ r.ring = src[s].ring /\ r.old = src[s].old /\ r.late = src[s].late
      /\ r.pc = (IF src[s].run THEN "flush?" ELSE "done")
      /\ r.cached = (IF src[s].run THEN c ELSE src[s].cached)
  <2> HIDE DEF c
  <2>1. CASE src[s].run
      BY <1>0, <1>2, <2>1 DEF SourceType
  <2>2. CASE ~src[s].run
      BY <1>0, <2>2 DEF SourceType
  <2> QED BY <2>1, <2>2
<1> HIDE DEF r
<1>4. /\ TypeOK' /\ SlotInv' /\ StreamInv' /\ BindInv'
      /\ src'[s] = r /\ \A u \in Source : u # s => src'[u] = src[u]
  <2>1. slot' \in [Slot -> SlotType]
      BY <1>1 DEF TypeOK
  <2>2. Len(r.ring) <= RingFrames /\ r.old <= Len(r.ring)
      BY <1>0, <1>3
  <2>3. \A k \in Slot : slot'[k] = slot[k]
      BY <1>1
  <2> QED BY <1>1, <1>3, <2>1, <2>2, <2>3, ThreadFrame
<1>5. ASSUME NEW k \in Slot, slot[k].tx = s
      PROVE  src[s].run /\ c = k
  <2>1. src[s].run /\ src[s].cached \in {0, k} /\ Of(src[s].of) = {k}
      BY <1>5, Published1
  <2>2. src[s].cached = 0 => c \in {k}
      BY <2>1, LowestFound
  <2> QED BY <2>1, <2>2
<1>6. CacheInv'
  <2> HIDE DEF c
  <2>1. src'[s].pc # "drain"
      BY <1>3, <1>4
  <2>2. Up(s)' => \A k \in Slot : slot'[k].tx = s => k = src'[s].cached
      BY <1>1, <1>3, <1>4, <1>5
  <2>3. src'[s].at = "starting" /\ src'[s].cached # 0 => slot'[src'[s].cached].call = src'[s].of
    <3>1. SUFFICES ASSUME src[s].at = "starting", src'[s].cached # 0
                   PROVE  slot[src'[s].cached].call = src[s].of
        BY <1>1, <1>3, <1>4
    <3>2. src'[s].cached = c
        BY <1>3, <1>4, <3>1 DEF StreamInv, Up
    <3>3. CASE c = src[s].cached
        BY <3>1, <3>2, <3>3 DEF CacheInv
    <3>4. CASE c # src[s].cached
        BY <1>2, <3>2, <3>4 DEF Of
    <3> QED BY <3>3, <3>4
  <2> QED BY <1>1, <1>4, <2>1, <2>2, <2>3 DEF CacheInv, Up
<1>7. RingInv'
    BY <1>3, <1>4 DEF RingInv, NoMisdirectedPcm
<1>8. FlushInv'
  <2>1. src'[s].at = src[s].at /\ src'[s].old = src[s].old /\ src'[s].late = src[s].late
      BY <1>3, <1>4
  <2>2. \A k \in Slot : slot[k].tx = s => Sees(s, k)'
    <3> HIDE DEF c
    <3> QED BY <1>3, <1>4, <1>5 DEF Sees
  <2>3. \A u \in Source : u # s => \A k \in Slot : Sees(u, k) => Sees(u, k)'
      BY <1>4 DEF Sees
  <2> QED BY <1>1, <1>4, <2>1, <2>2, <2>3 DEF FlushInv
<1> QED BY <1>4, <1>6, <1>7, <1>8

LEMMA CheckFlushInv ==
    ASSUME Inv, NEW s \in Source, CheckFlush(s)
    PROVE  Inv'
<1> USE DEF Inv, reVars, pyVars
<1>0. src[s] \in SourceType /\ Len(src[s].ring) <= RingFrames /\ src[s].old <= Len(src[s].ring)
    BY DEF TypeOK
<1> DEFINE w == IF FlushAsked(s) THEN "drain" ELSE "send"
           r == [src[s] EXCEPT !.pc = w]
<1>1. /\ src[s].pc = "flush?" /\ src' = [src EXCEPT ![s] = r]
      /\ UNCHANGED <<driver, call, slot, tap, taps, bound, boundTo, py>>
    BY DEF CheckFlush, Thread
<1>2. w \in {"drain", "send"} /\ (w = "drain" => FlushAsked(s))
    OBVIOUS
<1>3. \A k \in Slot : slot[k].tx = s /\ slot[k].flush /\ src[s].cached = k => w = "drain"
    BY DEF FlushAsked
<1> HIDE DEF w
<1>4. /\ r \in SourceType /\ r.of = src[s].of /\ r.at = src[s].at /\ r.run = src[s].run
      /\ r.ring = src[s].ring /\ r.old = src[s].old /\ r.late = src[s].late
      /\ r.pc = w /\ r.cached = src[s].cached
    BY <1>0, <1>2 DEF SourceType
<1> HIDE DEF r
<1>5. /\ TypeOK' /\ SlotInv' /\ StreamInv' /\ BindInv'
      /\ src'[s] = r /\ \A u \in Source : u # s => src'[u] = src[u]
  <2>1. slot' \in [Slot -> SlotType]
      BY <1>1 DEF TypeOK
  <2>2. Len(r.ring) <= RingFrames /\ r.old <= Len(r.ring)
      BY <1>0, <1>4
  <2>3. \A k \in Slot : slot'[k] = slot[k]
      BY <1>1
  <2> QED BY <1>1, <1>4, <2>1, <2>2, <2>3, ThreadFrame
<1>6. CacheInv'
    BY <1>1, <1>2, <1>4, <1>5 DEF CacheInv, Up, FlushAsked
<1>7. RingInv'
    BY <1>4, <1>5 DEF RingInv, NoMisdirectedPcm
<1>8. FlushInv'
  <2>1. ASSUME NEW k \in Slot, slot[k].tx = s
        PROVE  src[s].late = 0 \/ (src[s].late = 1 /\ Sees(s, k)')
    <3>1. CASE src[s].late = 0
        BY <3>1
    <3>2. CASE src[s].late # 0
      <4>1. src[s].late = 1 /\ Sees(s, k) /\ slot[k].flush
          BY <2>1, <3>2 DEF FlushInv
      <4>2. src[s].cached = k
          BY <1>1, <4>1 DEF Sees
      <4> QED BY <1>3, <1>4, <1>5, <2>1, <4>1, <4>2 DEF Sees
    <3> QED BY <3>1, <3>2
  <2>2. \A u \in Source : u # s => \A k \in Slot : Sees(u, k) => Sees(u, k)'
      BY <1>5 DEF Sees
  <2> QED BY <1>1, <1>4, <1>5, <2>1, <2>2 DEF FlushInv
<1> QED BY <1>5, <1>6, <1>7, <1>8

LEMMA DrainInv ==
    ASSUME Inv, NEW s \in Source, Drain(s)
    PROVE  Inv'
<1> USE DEF Inv, reVars, pyVars
<1> DEFINE k == src[s].cached
<1>0. /\ src[s] \in SourceType /\ Len(src[s].ring) <= RingFrames /\ src[s].old <= Len(src[s].ring)
      /\ slot \in [Slot -> SlotType] /\ src[s].pc = "drain" /\ k \in Slot
    BY DEF TypeOK, Drain, SourceType, CacheInv
<1>1. UNCHANGED <<driver, call, tap, taps, bound, boundTo, py>>
    BY DEF Drain, Thread
<1>2. CASE slot[k].tx = s
  <2> DEFINE r == [src[s] EXCEPT !.pc = "send", !.ring = <<>>, !.old = 0, !.late = 0]
  <2>1. src' = [src EXCEPT ![s] = r] /\ slot' = [slot EXCEPT ![k].flush = FALSE]
      BY <1>2 DEF Drain, Thread
  <2>2. /\ r \in SourceType /\ r.of = src[s].of /\ r.at = src[s].at /\ r.run = src[s].run
        /\ r.ring = <<>> /\ r.old = 0 /\ r.late = 0
        /\ r.pc = "send" /\ r.cached = src[s].cached
    <3>1. <<>> \in Seq(Frame)
        OBVIOUS
    <3> DEFINE e == <<>>
    <3>2. r = [src[s] EXCEPT !.pc = "send", !.ring = e, !.old = 0, !.late = 0] /\ e \in Seq(Frame)
        BY <3>1
    <3> HIDE DEF e, r
    <3>3. /\ r \in SourceType /\ r.of = src[s].of /\ r.at = src[s].at /\ r.run = src[s].run
          /\ r.ring = e /\ r.old = 0 /\ r.late = 0
          /\ r.pc = "send" /\ r.cached = src[s].cached
        BY <1>0, <3>2 DEF SourceType
    <3> QED BY <3>3 DEF e
  <2> HIDE DEF r
  <2>3. /\ slot' \in [Slot -> SlotType] /\ \A l \in Slot : l # k => slot'[l] = slot[l]
        /\ slot'[k].call = slot[k].call /\ slot'[k].epoch = slot[k].epoch
        /\ slot'[k].tx = slot[k].tx /\ slot'[k].rx = slot[k].rx
        /\ slot'[k].flush = FALSE
    <3>1. [slot[k] EXCEPT !.flush = FALSE] \in SlotType
        BY <1>0 DEF SlotType
    <3>2. slot' \in [Slot -> SlotType] /\ slot'[k] = [slot[k] EXCEPT !.flush = FALSE]
        BY <1>0, <2>1, <3>1
    <3> QED BY <1>0, <2>1, <3>2 DEF SlotType
  <2>4. /\ TypeOK' /\ SlotInv' /\ StreamInv' /\ BindInv'
        /\ src'[s] = r /\ \A u \in Source : u # s => src'[u] = src[u]
    <3>1. Len(r.ring) <= RingFrames /\ r.old <= Len(r.ring)
        BY <2>2
    <3>2. \A l \in Slot : slot'[l] = slot[l]
                           \/ /\ slot[l].tx # 0
                              /\ slot'[l].call = slot[l].call /\ slot'[l].epoch = slot[l].epoch
                              /\ slot'[l].tx = slot[l].tx /\ slot'[l].rx = slot[l].rx
                              /\ slot'[l].flush => slot[l].flush
        BY <1>2, <2>3
    <3> QED BY <1>1, <2>1, <2>2, <2>3, <3>1, <3>2, ThreadFrame
  <2>5. \A l \in Slot : slot'[l].call = slot[l].call /\ slot'[l].tx = slot[l].tx
      BY <2>3
  <2>6. CacheInv'
    <3> SUFFICES ASSUME NEW u \in Source
                 PROVE  /\ src'[u].pc = "drain" => src'[u].cached # 0
                        /\ Up(u)' /\ src'[u].cached # 0 =>
                              \A l \in Slot : slot'[l].tx = u => l = src'[u].cached
                        /\ src'[u].at = "starting" /\ src'[u].cached # 0 =>
                              slot'[src'[u].cached].call = src'[u].of
        BY DEF CacheInv
    <3>1. src[u].cached # 0 => src[u].cached \in Slot
        BY DEF TypeOK, SourceType
    <3>2. /\ src'[u].at = src[u].at /\ src'[u].of = src[u].of
          /\ src'[u].cached = src[u].cached
          /\ (src'[u].pc = "drain" => src[u].pc = "drain")
        BY <2>2, <2>4
    <3>3. src'[u].pc = "drain" => src'[u].cached # 0
        BY <3>2 DEF CacheInv
    <3>4. Up(u)' => Up(u)
        BY <3>2 DEF Up
    <3>5. Up(u)' /\ src'[u].cached # 0 => \A l \in Slot : slot'[l].tx = u => l = src'[u].cached
        BY <2>5, <3>2, <3>4 DEF CacheInv
    <3>6. src'[u].at = "starting" /\ src'[u].cached # 0 => slot'[src'[u].cached].call = src'[u].of
        BY <2>5, <3>1, <3>2 DEF CacheInv
    <3> QED BY <3>3, <3>5, <3>6
  <2>7. RingInv'
    <3>1. \A i \in 1 .. Len(src'[s].ring) : src'[s].ring[i] \in {0, s}
        BY <2>2, <2>4
    <3> QED BY <2>4, <3>1 DEF RingInv, NoMisdirectedPcm
  <2>8. FlushInv'
    <3>1. ASSUME NEW l \in Slot, NEW u \in Source, slot'[l].tx = u
          PROVE  /\ ~slot'[l].flush => src'[u].old = 0 /\ src'[u].late = 0
                 /\ src'[u].late = 0 \/ (src'[u].late = 1 /\ Sees(u, l)')
      <4>1. CASE u = s
          BY <2>2, <2>4, <4>1
      <4>2. CASE u # s
        <5>1. l # k /\ slot'[l] = slot[l] /\ src'[u] = src[u]
            BY <1>2, <2>3, <2>4, <3>1, <4>2
        <5> QED BY <3>1, <5>1 DEF FlushInv, Sees
      <4> QED BY <4>1, <4>2
    <3>2. \A u \in Source : src'[u].at = "starting" => src'[u].old = 0 /\ src'[u].late = 0
        BY <2>2, <2>4 DEF FlushInv
    <3> QED BY <3>1, <3>2 DEF FlushInv
  <2> QED BY <2>4, <2>6, <2>7, <2>8
<1>3. CASE slot[k].tx # s
  <2> DEFINE r == [src[s] EXCEPT !.pc = "send"]
  <2>1. src' = [src EXCEPT ![s] = r] /\ slot' = slot
      BY <1>3 DEF Drain, Thread
  <2>2. /\ r \in SourceType /\ r.of = src[s].of /\ r.at = src[s].at /\ r.run = src[s].run
        /\ r.ring = src[s].ring /\ r.old = src[s].old /\ r.late = src[s].late
        /\ r.pc = "send" /\ r.cached = src[s].cached
      BY <1>0 DEF SourceType
  <2> HIDE DEF r
  <2>3. /\ TypeOK' /\ SlotInv' /\ StreamInv' /\ BindInv'
        /\ src'[s] = r /\ \A u \in Source : u # s => src'[u] = src[u]
    <3>1. Len(r.ring) <= RingFrames /\ r.old <= Len(r.ring)
        BY <1>0, <2>2
    <3>2. \A l \in Slot : slot'[l] = slot[l]
        BY <2>1
    <3> QED BY <1>0, <1>1, <2>1, <2>2, <3>1, <3>2, ThreadFrame
  <2>4. \A l \in Slot : slot[l].tx # s
      BY <1>0, <1>3, Published1
  <2>5. CacheInv'
      BY <2>1, <2>2, <2>3 DEF CacheInv, Up
  <2>6. RingInv'
      BY <2>2, <2>3 DEF RingInv, NoMisdirectedPcm
  <2>7. FlushInv'
      BY <2>1, <2>2, <2>3, <2>4 DEF FlushInv, Sees
  <2> QED BY <2>3, <2>5, <2>6, <2>7
<1> QED BY <1>2, <1>3

LEMMA SendInv ==
    ASSUME Inv, NEW s \in Source, Send(s)
    PROVE  Inv'
<1> USE DEF Inv, reVars, pyVars
<1>0. /\ src[s] \in SourceType /\ Len(src[s].ring) <= RingFrames /\ src[s].old <= Len(src[s].ring)
      /\ src[s].ring \in Seq(Frame) /\ Len(src[s].ring) \in Nat
      /\ src[s].old \in Nat /\ src[s].late \in Nat
  <2>1. src[s] \in SourceType /\ Len(src[s].ring) <= RingFrames /\ src[s].old <= Len(src[s].ring)
      BY DEF TypeOK
  <2> QED BY <2>1, RingType
<1> DEFINE empty == src[s].ring = <<>>
           g == IF empty THEN src[s].ring ELSE Tail(src[s].ring)
           n == IF ~empty /\ src[s].old > 0 THEN src[s].old - 1 ELSE src[s].old
           m == IF ~empty /\ src[s].old > 0 THEN src[s].late + 1 ELSE src[s].late
           r == [src[s] EXCEPT !.pc = "top", !.ring = g, !.old = n, !.late = m]
<1>1. /\ src[s].pc = "send"
      /\ UNCHANGED <<driver, call, slot, tap, taps, bound, boundTo, py>>
    BY DEF Send, Thread
<1>2. src' = [src EXCEPT ![s] = r]
  <2>1. CASE empty
    <3>1. r = [src[s] EXCEPT !.pc = "top"]
        BY <1>0, <2>1 DEF SourceType
    <3> QED BY <2>1, <3>1 DEF Send, Thread
  <2>2. CASE ~empty
      BY <2>2 DEF Send, Thread
  <2> QED BY <2>1, <2>2
<1>3. /\ g \in Seq(Frame) /\ Len(g) <= RingFrames /\ n <= Len(g) /\ n \in Nat /\ m \in Nat
      /\ \A i \in 1 .. Len(g) : \E j \in 1 .. Len(src[s].ring) : g[i] = src[s].ring[j]
  <2>1. CASE empty
      BY <1>0, <2>1
  <2>2. CASE ~empty
    <3>1. /\ Tail(src[s].ring) \in Seq(Frame) /\ Len(Tail(src[s].ring)) = Len(src[s].ring) - 1
          /\ \A i \in 1 .. Len(src[s].ring) - 1 : Tail(src[s].ring)[i] = src[s].ring[i + 1]
        BY <1>0, <2>2
    <3>2. \A i \in 1 .. Len(g) : g[i] = src[s].ring[i + 1] /\ i + 1 \in 1 .. Len(src[s].ring)
        BY <1>0, <2>2, <3>1
    <3>3. g \in Seq(Frame) /\ Len(g) <= RingFrames /\ n <= Len(g) /\ n \in Nat /\ m \in Nat
        BY <1>0, <2>2, <3>1, SMTT(30)
    <3> QED BY <3>2, <3>3
  <2> QED BY <2>1, <2>2
<1>4. /\ src[s].old = 0 => n = 0 /\ m = src[s].late
      /\ m \in {src[s].late, src[s].late + 1}
    BY <1>0
<1> HIDE DEF g, n, m
<1>5. /\ r \in SourceType /\ r.of = src[s].of /\ r.at = src[s].at /\ r.run = src[s].run
      /\ r.ring = g /\ r.old = n /\ r.late = m /\ r.pc = "top" /\ r.cached = src[s].cached
    BY <1>0, <1>3 DEF SourceType
<1> HIDE DEF r
<1>6. /\ TypeOK' /\ SlotInv' /\ StreamInv' /\ BindInv'
      /\ src'[s] = r /\ \A u \in Source : u # s => src'[u] = src[u]
  <2>1. slot' \in [Slot -> SlotType]
      BY <1>1 DEF TypeOK
  <2>2. \A k \in Slot : slot'[k] = slot[k]
      BY <1>1
  <2>3. Len(r.ring) <= RingFrames /\ r.old <= Len(r.ring)
      BY <1>3, <1>5
  <2> QED BY <1>1, <1>2, <1>5, <2>1, <2>2, <2>3, ThreadFrame
<1>7. CacheInv'
    BY <1>1, <1>5, <1>6 DEF CacheInv, Up
<1>8. RingInv'
  <2>1. \A i \in 1 .. Len(src'[s].ring) : src'[s].ring[i] \in {0, s}
      BY <1>3, <1>5, <1>6 DEF RingInv, NoMisdirectedPcm
  <2> QED BY <1>6, <2>1 DEF RingInv, NoMisdirectedPcm
<1>9. FlushInv'
  <2>1. ASSUME NEW k \in Slot, slot[k].tx = s
        PROVE  /\ ~slot[k].flush => n = 0 /\ m = 0
               /\ m \in {0, 1}
    <3>1. src[s].late = 0
        BY <1>1, <2>1 DEF FlushInv, Sees
    <3>2. ~slot[k].flush => src[s].old = 0
        BY <2>1 DEF FlushInv
    <3> QED BY <1>4, <3>1, <3>2
  <2>2. \A k \in Slot : Sees(s, k)'
      BY <1>5, <1>6 DEF Sees
  <2>3. src'[s].at = "starting" => src'[s].old = 0 /\ src'[s].late = 0
      BY <1>4, <1>5, <1>6 DEF FlushInv
  <2>4. \A u \in Source : u # s => \A k \in Slot : Sees(u, k) => Sees(u, k)'
      BY <1>6 DEF Sees
  <2> QED BY <1>1, <1>5, <1>6, <2>1, <2>2, <2>3, <2>4 DEF FlushInv
<1> QED BY <1>6, <1>7, <1>8, <1>9

-----------------------------------------------------------------------------
(* The re thread.  First the steps that leave the streams alone.           *)

LEMMA TableFrame ==
    ASSUME Inv, src' = src, \A s \in Source : src[s].at # "starting",
           slot' \in [Slot -> SlotType],
           \A k \in Slot : slot'[k].tx # 0 => /\ slot'[k].tx = slot[k].tx
                                              /\ slot'[k].flush = slot[k].flush
    PROVE  CacheInv' /\ RingInv' /\ FlushInv'
<1> USE DEF Inv
<1>1. \A k \in Slot, s \in Source : slot'[k].tx = s => /\ slot[k].tx = s
                                                       /\ slot'[k].flush = slot[k].flush
    OBVIOUS
<1>2. CacheInv'
    BY <1>1 DEF CacheInv, Up
<1>3. RingInv'
    BY DEF RingInv, NoMisdirectedPcm
<1>4. FlushInv'
    BY <1>1 DEF FlushInv, Sees
<1> QED BY <1>2, <1>3, <1>4

(* The call of the bindings keeps its slot, whose epoch goes on, until it   *)
(* is closed for good.                                                      *)
LEMMA BindFrame ==
    ASSUME Inv, UNCHANGED pyVars, slot' \in [Slot -> SlotType],
           \A k \in Slot : slot'[k].call = Mine =>
              \/ /\ slot[k].call = Mine
                 /\ \/ slot'[k].epoch > slot[k].epoch
                    \/ slot'[k].epoch = slot[k].epoch /\ slot[k].tx \in {0, slot'[k].tx}
              \/ call[Mine] = "up" /\ \A l \in Slot : slot[l].call # Mine,
           (\A k \in Slot : slot'[k].call # Mine) =>
              \/ call'[Mine] \in {"torn", "closed"}
              \/ call[Mine] \notin {"torn", "closed"} /\ \A k \in Slot : slot[k].call # Mine
    PROVE  BindInv'
<1> USE DEF Inv
<1>1. /\ bound \in Nat \cup {Unbound} /\ boundTo \in {0} \cup Source
      /\ \A p \in Python : py[p].epoch \in Nat \cup {Unbound} /\ py[p].to \in {0} \cup Source
  <2>1. \A p \in Python : py[p] \in PythonType
      BY DEF TypeOK
  <2> QED BY <2>1 DEF TypeOK, PythonType
<1>2. ASSUME NEW e \in Nat \cup {Unbound}, NEW to \in {0} \cup Source, Binds(e, to)
      PROVE  Binds(e, to)'
  <2>1. \A k \in Slot : slot[k].epoch \in Nat /\ slot'[k].epoch \in Nat
      BY DEF TypeOK, SlotType
  <2>2. ASSUME NEW k \in Slot, slot'[k].call = Mine
        PROVE  e <= slot'[k].epoch /\ (e = slot'[k].epoch /\ to # 0 => slot'[k].tx = to)
    <3>1. CASE slot[k].call = Mine
      <4>1. e <= slot[k].epoch /\ (e = slot[k].epoch /\ to # 0 => slot[k].tx = to)
          BY <1>2, <3>1 DEF Binds
      <4>2. \/ slot'[k].epoch > slot[k].epoch
            \/ slot'[k].epoch = slot[k].epoch /\ slot[k].tx \in {0, slot'[k].tx}
          BY <2>2, <3>1
      <4> QED BY <2>1, <4>1, <4>2 DEF Unbound
    <3>2. CASE call[Mine] = "up" /\ \A l \in Slot : slot[l].call # Mine
      <4>1. e = Unbound
          BY <1>2, <3>2 DEF Binds
      <4> QED BY <2>1, <4>1 DEF Unbound
    <3> QED BY <2>2, <3>1, <3>2
  <2>3. (\A k \in Slot : slot'[k].call # Mine) => e = Unbound \/ call'[Mine] \in {"torn", "closed"}
      BY <1>2 DEF Binds
  <2> QED BY <2>2, <2>3 DEF Binds
<1> QED BY <1>1, <1>2 DEF BindInv, pyVars

LEMMA ReFreeNone == ASSUME ReFree PROVE \A s \in Source : src[s].at # "starting"
BY DEF ReFree

LEMMA CallUpInv ==
    ASSUME Inv, NEW c \in Call, CallUp(c)
    PROVE  Inv'
<1> USE DEF Inv, pyVars
<1>1. /\ driver = "open" /\ call[c] = "none" /\ call' = [call EXCEPT ![c] = "up"] /\ ReFree
      /\ UNCHANGED <<driver, slot, src, tap, taps, pyVars>>
    BY DEF CallUp
<1>2. /\ call'[c] = "up" /\ \A d \in Call : d # c => call'[d] = call[d]
      /\ call' \in [Call -> {"none", "up", "torn", "closed"}]
    BY <1>1 DEF TypeOK
<1>3. TypeOK'
    BY <1>1, <1>2 DEF TypeOK
<1>4. SlotInv'
  <2>1. \A k \in Slot : slot[k].call # NoCall => slot[k].call \in Call /\ slot[k].call # c
    <3>1. \A k \in Slot : slot[k].call \in Call \cup {NoCall}
        BY DEF TypeOK, SlotType
    <3> QED BY <1>1, <3>1 DEF SlotInv
  <2> QED BY <1>1, <1>2, <2>1 DEF SlotInv
<1>5. StreamInv'
    BY <1>1, <1>2, ReFreeNone DEF StreamInv, Up
<1>6. CacheInv' /\ RingInv' /\ FlushInv'
    BY <1>1, TableFrame, ReFreeNone DEF TypeOK
<1>7. BindInv'
  <2>1. slot' \in [Slot -> SlotType] /\ \A k \in Slot : slot[k].epoch \in Nat
      BY <1>1 DEF TypeOK, SlotType
  <2>2. (\A k \in Slot : slot[k].call # Mine) /\ call[Mine] \in {"torn", "closed"} =>
            call'[Mine] \in {"torn", "closed"}
      BY <1>1, <1>2
  <2> QED BY <1>1, <2>1, <2>2, BindFrame
<1> QED BY <1>3, <1>4, <1>5, <1>6, <1>7

LEMMA CallClosedInv ==
    ASSUME Inv, NEW c \in Call, CallClosed(c)
    PROVE  Inv'
<1> USE DEF Inv, pyVars
<1>1. /\ driver = "open" /\ call[c] = "up" /\ call' = [call EXCEPT ![c] = "closed"] /\ ReFree
      /\ slot' = [k \in Slot |-> IF slot[k].call = c THEN FreeSlot ELSE slot[k]]
      /\ UNCHANGED <<driver, src, tap, taps, pyVars>>
    BY DEF CallClosed, Of
<1>2. /\ call'[c] = "closed" /\ \A d \in Call : d # c => call'[d] = call[d]
      /\ call' \in [Call -> {"none", "up", "torn", "closed"}]
    BY <1>1 DEF TypeOK
<1>3. /\ FreeSlot \in SlotType /\ FreeSlot.call = NoCall /\ FreeSlot.tx = 0
      /\ FreeSlot.rx = FALSE /\ FreeSlot.flush = FALSE
    BY DEF FreeSlot, SlotType
<1>4. /\ slot' \in [Slot -> SlotType]
      /\ \A k \in Slot : \/ slot[k].call = c /\ slot'[k] = FreeSlot
                         \/ slot[k].call # c /\ slot'[k] = slot[k]
    BY <1>1, <1>3 DEF TypeOK
<1>5. TypeOK'
    BY <1>1, <1>2, <1>4 DEF TypeOK
<1>6. SlotInv'
  <2>1. \A k \in Slot : slot[k].call \in Call \cup {NoCall}
      BY DEF TypeOK, SlotType
  <2> QED BY <1>1, <1>2, <1>3, <1>4, <2>1 DEF SlotInv
<1>7. StreamInv'
    BY <1>1, <1>2, ReFreeNone DEF StreamInv, Up
<1>8. CacheInv' /\ RingInv' /\ FlushInv'
  <2>1. \A k \in Slot : slot'[k].tx # 0 => slot'[k].tx = slot[k].tx /\ slot'[k].flush = slot[k].flush
      BY <1>3, <1>4
  <2> QED BY <1>1, <1>4, <2>1, TableFrame, ReFreeNone
<1>9. BindInv'
  <2>1. \A k \in Slot : slot'[k].call = Mine => slot'[k] = slot[k] /\ slot[k].epoch \in Nat
      BY <1>3, <1>4 DEF TypeOK, SlotType
  <2>2. (\A k \in Slot : slot'[k].call # Mine) =>
            \/ call'[Mine] \in {"torn", "closed"}
            \/ call[Mine] \notin {"torn", "closed"} /\ \A k \in Slot : slot[k].call # Mine
      BY <1>1, <1>2, <1>4
  <2> QED BY <1>1, <1>4, <2>1, <2>2, BindFrame
<1> QED BY <1>5, <1>6, <1>7, <1>8, <1>9

(* The table after a slot has been given to a call that is up. *)
LEMMA GivenSlot ==
    ASSUME Inv, NEW c \in Call, NEW k \in SlotFor(c), call[c] = "up", call' = call, driver' = driver,
           NEW r \in SlotType, slot' = [slot EXCEPT ![k] = r],
           r.call = c, r.epoch = slot[k].epoch, r.flush = slot[k].flush,
           slot[k].tx \in {0, r.tx}, UNCHANGED pyVars
    PROVE  /\ k \in Slot /\ slot' \in [Slot -> SlotType]
           /\ slot'[k] = r /\ \A l \in Slot : l # k => slot'[l] = slot[l]
           /\ slot[k].call = c \/ (slot[k] = FreeSlot /\ \A l \in Slot : slot[l].call # c)
           /\ \A l, m \in Slot : slot'[l].call = slot'[m].call /\ slot'[l].call # NoCall => l = m
           /\ BindInv'
<1> USE DEF Inv
<1>1. k \in Slot /\ (slot[k].call = c \/ (slot[k].call = NoCall /\ \A l \in Slot : slot[l].call # c))
    BY SlotFound
<1>2. /\ slot' \in [Slot -> SlotType]
      /\ slot'[k] = r /\ \A l \in Slot : l # k => slot'[l] = slot[l]
    BY <1>1 DEF TypeOK
<1>3. slot[k].call = c \/ (slot[k] = FreeSlot /\ \A l \in Slot : slot[l].call # c)
    BY <1>1 DEF SlotInv
<1>4. \A l, m \in Slot : slot'[l].call = slot'[m].call /\ slot'[l].call # NoCall => l = m
  <2>1. \A l \in Slot : l # k => slot[l].call # c
      BY <1>1 DEF SlotInv
  <2> QED BY <1>2, <2>1 DEF SlotInv
<1>5. BindInv'
  <2>1. ASSUME NEW l \in Slot, slot'[l].call = Mine
        PROVE  \/ /\ slot[l].call = Mine
                  /\ slot'[l].epoch = slot[l].epoch /\ slot[l].tx \in {0, slot'[l].tx}
               \/ call[Mine] = "up" /\ \A m \in Slot : slot[m].call # Mine
      BY <1>1, <1>2, <2>1
  <2>2. (\A l \in Slot : slot'[l].call # Mine) =>
            \/ call'[Mine] \in {"torn", "closed"}
            \/ call[Mine] \notin {"torn", "closed"} /\ \A l \in Slot : slot[l].call # Mine
    <3>1. (\A l \in Slot : slot'[l].call # Mine) => \A l \in Slot : slot[l].call # Mine
        BY <1>1, <1>2
    <3> QED BY <3>1
  <2> QED BY <1>2, <2>1, <2>2, BindFrame
<1> QED BY <1>1, <1>2, <1>3, <1>4, <1>5

LEMMA DecUpdateInv ==
    ASSUME Inv, NEW c \in Call, DecUpdate(c)
    PROVE  Inv'
<1> USE DEF Inv, pyVars
<1>1. /\ call[c] = "up" /\ tap[c] = "none" /\ taps < MaxTaps /\ taps' = taps + 1 /\ ReFree
      /\ UNCHANGED <<driver, call, src, pyVars>>
    BY DEF DecUpdate
<1>2. taps' \in 0 .. MaxTaps
    BY <1>1 DEF TypeOK
<1>3. StreamInv'
    BY <1>1 DEF StreamInv, Up
<1>4. CASE \E k \in SlotFor(c) : /\ slot' = [slot EXCEPT ![k] = [@ EXCEPT !.call = c, !.rx = TRUE]]
                                 /\ tap' = [tap EXCEPT ![c] = "tap"]
  <2>1. PICK k \in SlotFor(c) : /\ slot' = [slot EXCEPT ![k] = [slot[k] EXCEPT !.call = c, !.rx = TRUE]]
                                /\ tap' = [tap EXCEPT ![c] = "tap"]
      BY <1>4
  <2> DEFINE r == [slot[k] EXCEPT !.call = c, !.rx = TRUE]
  <2>2. k \in SlotFor(c) /\ k \in Slot /\ slot[k] \in SlotType
      BY <2>1, SlotFound DEF TypeOK
  <2>3. /\ r \in SlotType /\ r.call = c /\ r.rx = TRUE /\ r.epoch = slot[k].epoch
        /\ r.tx = slot[k].tx /\ r.flush = slot[k].flush
      BY <2>2 DEF SlotType
  <2>4. slot' = [slot EXCEPT ![k] = r]
      BY <2>1
  <2> HIDE DEF r
  <2>5. /\ slot' \in [Slot -> SlotType]
        /\ slot'[k] = r /\ \A l \in Slot : l # k => slot'[l] = slot[l]
        /\ slot[k].call = c \/ (slot[k] = FreeSlot /\ \A l \in Slot : slot[l].call # c)
        /\ \A l, m \in Slot : slot'[l].call = slot'[m].call /\ slot'[l].call # NoCall => l = m
        /\ BindInv'
    <3>1. slot[k].tx \in {0, r.tx}
        BY <2>3
    <3>2. call' = call /\ driver' = driver /\ UNCHANGED pyVars /\ call[c] = "up"
        BY <1>1
    <3>3. k \in SlotFor(c) /\ r \in SlotType /\ r.call = c /\ r.epoch = slot[k].epoch /\ r.flush = slot[k].flush
        BY <2>2, <2>3
    <3>4. Inv
        OBVIOUS
    <3> HIDE DEF Inv, pyVars
    <3>5. BindInv'
        BY <2>4, <3>1, <3>2, <3>3, <3>4, GivenSlot
    <3>6. slot' \in [Slot -> SlotType]
        BY <2>4, <3>1, <3>2, <3>3, <3>4, GivenSlot
    <3>7. slot'[k] = r
        BY <2>4, <3>1, <3>2, <3>3, <3>4, GivenSlot
    <3>8. slot[k].call = c \/ (slot[k] = FreeSlot /\ \A l \in Slot : slot[l].call # c)
      <4>1. slot[k].call = c \/ slot[k].call = NoCall
          BY <3>3, SlotFound
      <4>2. slot[k].call # c => \A l \in Slot : slot[l].call # c
          BY <3>3, SlotFound
      <4>3. slot[k].call = NoCall => slot[k] = FreeSlot
          BY <2>2, <3>4 DEF Inv, SlotInv
      <4> QED BY <4>1, <4>2, <4>3
    <3>9. \A l \in Slot : l # k => slot'[l] = slot[l]
        BY <2>4, <3>1, <3>2, <3>3, <3>4, GivenSlot
    <3>10. \A l, m \in Slot : slot'[l].call = slot'[m].call /\ slot'[l].call # NoCall => l = m
        BY <2>4, <3>1, <3>2, <3>3, <3>4, GivenSlot
    <3> QED BY <3>5, <3>6, <3>7, <3>8, <3>9, <3>10
  <2>6. tap' \in [Call -> {"none", "tap", "bypass"}] /\ tap'[c] = "tap"
        /\ \A d \in Call : d # c => tap'[d] = tap[d]
      BY <2>1 DEF TypeOK
  <2>7. TypeOK'
      BY <1>1, <1>2, <2>5, <2>6 DEF TypeOK
  <2>8. SlotInv'
    <3>1. driver # "closed"
        BY <1>1 DEF StreamInv
    <3>2. slot[k].call = c \/ (slot[k].tx = 0 /\ slot[k].flush = FALSE)
        BY <2>5 DEF FreeSlot
    <3>3. \A l \in Slot : slot'[l].rx => tap'[slot'[l].call] = "tap"
      <4>1. \A l \in Slot : slot[l].rx => slot[l].call \in Call
        <5>1. \A l \in Slot : slot[l].call \in Call \cup {NoCall}
            BY DEF TypeOK, SlotType
        <5> QED BY <5>1 DEF SlotInv, FreeSlot
      <4> QED BY <2>3, <2>5, <2>6, <4>1 DEF SlotInv
    <3>4. \A l \in Slot : slot'[l].tx # 0 => /\ src'[slot'[l].tx].at = "live"
                                             /\ src'[slot'[l].tx].of = slot'[l].call
        BY <1>1, <2>3, <2>5, <3>2 DEF SlotInv
    <3>5. \A l \in Slot : slot'[l].flush => slot'[l].tx # 0
        BY <2>3, <2>5 DEF SlotInv
    <3>6. \A l \in Slot : slot'[l].call = NoCall => slot'[l] = FreeSlot
        BY <2>3, <2>5 DEF SlotInv
    <3>7. \A l \in Slot : slot'[l].call # NoCall => driver' # "closed" /\ call'[slot'[l].call] \in {"up", "torn"}
        BY <1>1, <2>3, <2>5, <3>1 DEF SlotInv
    <3>8. \A l, m \in Slot : slot'[l].call = slot'[m].call /\ slot'[l].call # NoCall => l = m
        BY <2>5
    <3> QED BY <3>3, <3>4, <3>5, <3>6, <3>7, <3>8 DEF SlotInv
  <2>9. CacheInv' /\ RingInv' /\ FlushInv'
    <3>1. \A l \in Slot : slot'[l].tx # 0 => slot'[l].tx = slot[l].tx /\ slot'[l].flush = slot[l].flush
        BY <2>3, <2>5
    <3> QED BY <1>1, <2>5, <3>1, TableFrame, ReFreeNone
  <2> QED BY <1>3, <2>5, <2>7, <2>8, <2>9
<1>5. CASE slot' = slot /\ tap' = [tap EXCEPT ![c] = "bypass"] /\ SlotFor(c) = {}
  <2>1. Of(c) = {}
      BY <1>5 DEF SlotFor
  <2>2. tap' \in [Call -> {"none", "tap", "bypass"}] /\ \A d \in Call : d # c => tap'[d] = tap[d]
      BY <1>5 DEF TypeOK
  <2>3. TypeOK'
      BY <1>1, <1>2, <1>5, <2>2 DEF TypeOK
  <2>4. SlotInv'
    <3>1. \A l \in Slot : slot[l].rx => slot[l].call \in Call /\ slot[l].call # c
      <4>1. \A l \in Slot : slot[l].call \in Call \cup {NoCall} /\ slot[l].call # c
          BY <2>1 DEF TypeOK, SlotType, Of
      <4> QED BY <4>1 DEF SlotInv, FreeSlot
    <3> QED BY <1>1, <1>5, <2>2, <3>1 DEF SlotInv
  <2>5. CacheInv' /\ RingInv' /\ FlushInv'
      BY <1>1, <1>5, TableFrame, ReFreeNone DEF TypeOK
  <2>6. BindInv'
    <3>1. slot' \in [Slot -> SlotType] /\ \A k \in Slot : slot[k].epoch \in Nat
        BY <1>5 DEF TypeOK, SlotType
    <3>2. (\A k \in Slot : slot[k].call # Mine) =>
              \/ call'[Mine] \in {"torn", "closed"}
              \/ call[Mine] \notin {"torn", "closed"} /\ \A k \in Slot : slot[k].call # Mine
        BY <1>1
    <3> QED BY <1>1, <1>5, <3>1, <3>2, BindFrame
  <2> QED BY <1>3, <2>3, <2>4, <2>5, <2>6
<1> QED BY <1>4, <1>5 DEF DecUpdate

LEMMA DecFreeInv ==
    ASSUME Inv, NEW c \in Call, DecFree(c)
    PROVE  Inv'
<1> USE DEF Inv, pyVars
<1>1. /\ ReFree /\ tap[c] # "none" /\ tap' = [tap EXCEPT ![c] = "none"]
      /\ UNCHANGED <<driver, call, src, taps, pyVars>>
    BY DEF DecFree
<1>2. tap' \in [Call -> {"none", "tap", "bypass"}] /\ \A d \in Call : d # c => tap'[d] = tap[d]
    BY <1>1 DEF TypeOK
<1>3. /\ slot' \in [Slot -> SlotType]
      /\ \A k \in Slot : \/ slot'[k] = slot[k] /\ (slot[k].call = c => tap[c] # "tap")
                         \/ /\ slot[k].call = c /\ slot'[k].call = c
                            /\ slot'[k].epoch = slot[k].epoch + 1 /\ slot'[k].tx = slot[k].tx
                            /\ slot'[k].rx = FALSE /\ slot'[k].flush = slot[k].flush
  <2>1. CASE tap[c] = "tap"
    <3> DEFINE r(k) == [slot[k] EXCEPT !.rx = FALSE, !.epoch = @ + 1]
    <3>1. slot' = [k \in Slot |-> IF slot[k].call = c THEN r(k) ELSE slot[k]]
        BY <2>1 DEF DecFree, RxGone, Of
    <3>2. ASSUME NEW k \in Slot
          PROVE  /\ r(k) \in SlotType /\ r(k).call = slot[k].call /\ r(k).epoch = slot[k].epoch + 1
                 /\ r(k).tx = slot[k].tx /\ r(k).rx = FALSE /\ r(k).flush = slot[k].flush
      <4>1. slot[k] \in SlotType /\ slot[k].epoch + 1 \in Nat
          BY DEF TypeOK, SlotType
      <4>2. r(k).rx = FALSE
          BY <4>1 DEF SlotType
      <4>3. r(k) \in SlotType
          BY <4>1 DEF SlotType
      <4> QED BY <4>1, <4>2, <4>3 DEF SlotType
    <3>3. \A k \in Slot : slot[k] \in SlotType
        BY DEF TypeOK
    <3> HIDE DEF r
    <3> QED BY <3>1, <3>2, <3>3
  <2>2. CASE tap[c] # "tap"
      BY <2>2 DEF DecFree, TypeOK
  <2> QED BY <2>1, <2>2
<1>4. TypeOK'
    BY <1>1, <1>2, <1>3 DEF TypeOK
<1>5. \A k \in Slot : /\ slot'[k].call = slot[k].call /\ slot'[k].tx = slot[k].tx
                       /\ slot'[k].flush = slot[k].flush
    BY <1>3
<1>6. SlotInv'
  <2>1. \A k \in Slot : slot'[k].rx => tap'[slot'[k].call] = "tap"
    <3>1. \A k \in Slot : slot[k].rx => slot[k].call \in Call
      <4>1. \A k \in Slot : slot[k].call \in Call \cup {NoCall}
          BY DEF TypeOK, SlotType
      <4> QED BY <4>1 DEF SlotInv, FreeSlot
    <3> QED BY <1>2, <1>3, <3>1 DEF SlotInv
  <2>2. \A k \in Slot : slot'[k].call = NoCall => slot'[k] = FreeSlot
      BY <1>3 DEF SlotInv
  <2>3. \A k \in Slot : slot'[k].call # NoCall => driver' # "closed" /\ call'[slot'[k].call] \in {"up", "torn"}
      BY <1>1, <1>5 DEF SlotInv
  <2>6. \A k \in Slot : slot'[k].flush => slot'[k].tx # 0
      BY <1>5 DEF SlotInv
  <2>4. \A k \in Slot : slot'[k].tx # 0 => /\ src'[slot'[k].tx].at = "live"
                                           /\ src'[slot'[k].tx].of = slot'[k].call
      BY <1>1, <1>5 DEF SlotInv
  <2>5. \A k, l \in Slot : slot'[k].call = slot'[l].call /\ slot'[k].call # NoCall => k = l
      BY <1>5 DEF SlotInv
  <2> QED BY <2>1, <2>2, <2>3, <2>4, <2>5, <2>6 DEF SlotInv
<1>7. StreamInv'
    BY <1>1 DEF StreamInv, Up
<1>8. CacheInv' /\ RingInv' /\ FlushInv'
    BY <1>1, <1>3, <1>5, TableFrame, ReFreeNone
<1>9. BindInv'
  <2>1. \A k \in Slot : slot[k].epoch \in Nat
      BY DEF TypeOK, SlotType
  <2>2. \A k \in Slot : \/ slot'[k].epoch > slot[k].epoch
                        \/ slot'[k].epoch = slot[k].epoch /\ slot[k].tx \in {0, slot'[k].tx}
      BY <1>3, <2>1
  <2>3. (\A k \in Slot : slot'[k].call # Mine) =>
            \/ call'[Mine] \in {"torn", "closed"}
            \/ call[Mine] \notin {"torn", "closed"} /\ \A k \in Slot : slot[k].call # Mine
      BY <1>1, <1>5
  <2> QED BY <1>1, <1>3, <1>5, <2>2, <2>3, BindFrame
<1> QED BY <1>4, <1>6, <1>7, <1>8, <1>9

LEMMA TeardownInv ==
    ASSUME Inv, Teardown
    PROVE  Inv'
<1> USE DEF Inv, pyVars
<1>1. /\ driver = "open" /\ driver' = "tearing" /\ ReFree
      /\ call' = [c \in Call |-> IF call[c] = "up" THEN "torn" ELSE call[c]]
      /\ UNCHANGED <<slot, src, tap, taps, pyVars>>
    BY DEF Teardown
<1>2. /\ call' \in [Call -> {"none", "up", "torn", "closed"}]
      /\ \A c \in Call : call'[c] = IF call[c] = "up" THEN "torn" ELSE call[c]
    BY <1>1 DEF TypeOK
<1>3. TypeOK'
    BY <1>1, <1>2 DEF TypeOK
<1>4. SlotInv'
  <2>1. \A k \in Slot : slot[k].call \in Call \cup {NoCall}
      BY DEF TypeOK, SlotType
  <2> QED BY <1>1, <1>2, <2>1 DEF SlotInv
<1>5. StreamInv'
    BY <1>1, <1>2, ReFreeNone DEF StreamInv, Up
<1>6. CacheInv' /\ RingInv' /\ FlushInv'
    BY <1>1, TableFrame, ReFreeNone DEF TypeOK
<1>7. BindInv'
  <2>1. slot' \in [Slot -> SlotType] /\ \A k \in Slot : slot[k].epoch \in Nat
      BY <1>1 DEF TypeOK, SlotType
  <2>2. call[Mine] \in {"torn", "closed"} => call'[Mine] \in {"torn", "closed"}
      BY <1>2
  <2> QED BY <1>1, <2>1, <2>2, BindFrame
<1> QED BY <1>3, <1>4, <1>5, <1>6, <1>7

LEMMA UnregisterInv ==
    ASSUME Inv, Unregister
    PROVE  Inv'
<1> USE DEF Inv, pyVars
<1>1. /\ driver = "tearing" /\ driver' = "closed"
      /\ \A s \in Source : src[s].at \in {"none", "freed"}
      /\ slot' = [k \in Slot |-> FreeSlot]
      /\ UNCHANGED <<call, src, tap, taps, pyVars>>
    BY DEF Unregister
<1>2. /\ FreeSlot \in SlotType /\ FreeSlot.call = NoCall /\ FreeSlot.tx = 0
      /\ FreeSlot.rx = FALSE /\ FreeSlot.flush = FALSE
    BY DEF FreeSlot, SlotType
<1>3. slot' \in [Slot -> SlotType] /\ \A k \in Slot : slot'[k] = FreeSlot
    BY <1>1, <1>2
<1>4. TypeOK'
    BY <1>1, <1>3 DEF TypeOK
<1>5. SlotInv'
    BY <1>2, <1>3 DEF SlotInv
<1>6. StreamInv'
    BY <1>1 DEF StreamInv, Up
<1>7. CacheInv' /\ RingInv' /\ FlushInv'
    BY <1>1, <1>2, <1>3, TableFrame
<1>8. BindInv'
  <2>1. \A k \in Slot : slot'[k].call # Mine
      BY <1>2, <1>3
  <2>2. \/ call'[Mine] \in {"torn", "closed"}
        \/ call[Mine] \notin {"torn", "closed"} /\ \A k \in Slot : slot[k].call # Mine
    <3>1. call[Mine] # "up"
        BY <1>1 DEF StreamInv
    <3>2. call[Mine] = "none" => \A k \in Slot : slot[k].call # Mine
        BY DEF SlotInv
    <3>3. call[Mine] \in {"none", "up", "torn", "closed"}
        BY DEF TypeOK
    <3> QED BY <1>1, <3>1, <3>2, <3>3
  <2> QED BY <1>1, <1>3, <2>1, <2>2, BindFrame
<1> QED BY <1>4, <1>5, <1>6, <1>7, <1>8

-----------------------------------------------------------------------------
(* The re thread: the life of a stream.                                    *)

LEMMA NoSourceType == NoSource \in SourceType
BY DEF NoSource, SourceType

(* A stream that is not up is not in the table. *)
LEMMA NotPublished ==
    ASSUME Inv, NEW s \in Source, src[s].at # "live"
    PROVE  \A k \in Slot : slot[k].tx # s
BY Published1

(* Steps on one stream that is not in the table, and the table stays. *)
LEMMA StreamFrame ==
    ASSUME Inv, NEW s \in Source, NEW r \in SourceType, src' = [src EXCEPT ![s] = r],
           UNCHANGED <<driver, call, slot, tap, taps, bound, boundTo, py>>,
           src[s].at # "live", r.at # "live",
           Len(r.ring) <= RingFrames, r.old <= Len(r.ring),
           r.pc = "drain" => r.cached # 0,
           r.at = "starting" => r.cached = 0 /\ r.old = 0 /\ r.late = 0,
           \A i \in 1 .. Len(r.ring) : r.ring[i] \in {0, s}
    PROVE  /\ TypeOK' /\ SlotInv' /\ CacheInv' /\ RingInv' /\ BindInv' /\ FlushInv'
           /\ src'[s] = r /\ \A u \in Source : u # s => src'[u] = src[u]
<1> USE DEF Inv
<1>1. src'[s] = r /\ \A u \in Source : u # s => src'[u] = src[u]
    BY DEF TypeOK
<1>2. src' \in [Source -> SourceType]
    BY DEF TypeOK
<1>3. TypeOK'
    BY <1>1, <1>2 DEF TypeOK
<1>4. \A k \in Slot : slot[k].tx # s
    BY NotPublished
<1>5. SlotInv'
  <2>1. ASSUME NEW k \in Slot, slot[k].tx # 0
        PROVE  src'[slot[k].tx] = src[slot[k].tx]
    <3>1. slot[k].tx \in Source
        BY <2>1 DEF TypeOK, SlotType
    <3> QED BY <1>1, <1>4, <3>1
  <2> QED BY <2>1 DEF SlotInv
<1>6. CacheInv'
    BY <1>1, <1>4 DEF CacheInv, Up
<1>7. RingInv'
    BY <1>1 DEF RingInv, NoMisdirectedPcm
<1>8. BindInv'
  <2>1. \A e, to : Binds(e, to) => Binds(e, to)'
      BY DEF Binds
  <2> QED BY <2>1 DEF BindInv
<1>9. FlushInv'
    BY <1>1, <1>4 DEF FlushInv, Sees
<1> QED BY <1>1, <1>3, <1>5, <1>6, <1>7, <1>8, <1>9

LEMMA SrcAllocInv ==
    ASSUME Inv, NEW c \in Call, NEW s \in Source, SrcAlloc(c, s)
    PROVE  Inv'
<1> USE DEF Inv, reVars, pyVars
<1> DEFINE r == [NoSource EXCEPT !.of = c, !.at = "starting", !.run = TRUE, !.pc = "top"]
<1>1. /\ call[c] = "up" /\ \A u \in Source : src[u].of = c => src[u].at = "freed"
      /\ src[s].at = "none" /\ src' = [src EXCEPT ![s] = r]
      /\ UNCHANGED <<driver, call, slot, tap, taps, bound, boundTo, py>>
    BY DEF SrcAlloc
<1>2. r \in SourceType
    BY NoSourceType DEF SourceType
<1>3. /\ r.of = c /\ r.at = "starting" /\ r.run = TRUE /\ r.pc = "top" /\ r.cached = 0
      /\ r.ring = <<>> /\ r.old = 0 /\ r.late = 0
    BY DEF NoSource
<1> HIDE DEF r
<1>4. /\ TypeOK' /\ SlotInv' /\ CacheInv' /\ RingInv' /\ BindInv' /\ FlushInv'
      /\ src'[s] = r /\ \A u \in Source : u # s => src'[u] = src[u]
  <2>1. src[s].at # "live" /\ r.at # "live"
      BY <1>1, <1>3
  <2>2. Len(r.ring) <= RingFrames /\ r.old <= Len(r.ring)
      BY <1>3
  <2>3. \A i \in 1 .. Len(r.ring) : r.ring[i] \in {0, s}
      BY <1>3
  <2> QED BY <1>1, <1>2, <1>3, <2>1, <2>2, <2>3, StreamFrame
<1>5. StreamInv'
  <2>1. \A u, v \in Source : Up(u)' /\ Up(v)' /\ src'[u].of = src'[v].of => u = v
    <3>1. \A u \in Source : u # s /\ Up(u)' => Up(u) /\ src'[u].of = src[u].of /\ src'[u].of # c
        BY <1>1, <1>4 DEF Up
    <3> QED BY <1>3, <1>4, <3>1 DEF StreamInv
  <2> QED BY <1>1, <1>3, <1>4, <2>1 DEF StreamInv, Up
<1> QED BY <1>4, <1>5

LEMMA SrcStopInv ==
    ASSUME Inv, NEW s \in Source, SrcStop(s)
    PROVE  Inv'
<1> USE DEF Inv, reVars, pyVars
<1> DEFINE r == [src[s] EXCEPT !.at = "joining", !.run = FALSE]
<1>0. src[s] \in SourceType /\ Len(src[s].ring) <= RingFrames /\ src[s].old <= Len(src[s].ring)
    BY DEF TypeOK
<1>1. src[s].at = "dropping" /\ UNCHANGED <<driver, call, slot, tap, taps, bound, boundTo, py>>
    BY DEF SrcStop
<1>2. src' = [src EXCEPT ![s] = r]
    BY DEF SrcStop, TypeOK
<1>3. /\ r \in SourceType /\ r.of = src[s].of /\ r.at = "joining" /\ r.pc = src[s].pc
      /\ r.cached = src[s].cached /\ r.ring = src[s].ring /\ r.old = src[s].old
    BY <1>0 DEF SourceType
<1> HIDE DEF r
<1>4. /\ TypeOK' /\ SlotInv' /\ CacheInv' /\ RingInv' /\ BindInv' /\ FlushInv'
      /\ src'[s] = r /\ \A u \in Source : u # s => src'[u] = src[u]
  <2>1. src[s].at # "live" /\ r.at \notin {"live", "starting"}
      BY <1>1, <1>3
  <2>2. Len(r.ring) <= RingFrames /\ r.old <= Len(r.ring)
      BY <1>0, <1>3
  <2>3. \A i \in 1 .. Len(r.ring) : r.ring[i] \in {0, s}
      BY <1>3 DEF RingInv, NoMisdirectedPcm
  <2>4. r.pc = "drain" => r.cached # 0
      BY <1>3 DEF CacheInv
  <2> QED BY <1>1, <1>2, <1>3, <2>1, <2>2, <2>3, <2>4, StreamFrame
<1>5. StreamInv'
    BY <1>1, <1>3, <1>4 DEF StreamInv, Up
<1> QED BY <1>4, <1>5

LEMMA SrcFreeInv ==
    ASSUME Inv, NEW s \in Source, SrcFree(s)
    PROVE  Inv'
<1> USE DEF Inv, reVars, pyVars
<1> DEFINE r == [NoSource EXCEPT !.of = src[s].of, !.at = "freed"]
<1>0. src[s] \in SourceType /\ src[s].of \in Call \cup {NoCall}
    BY DEF TypeOK, SourceType
<1>1. /\ src[s].at = "joining" /\ src' = [src EXCEPT ![s] = r]
      /\ UNCHANGED <<driver, call, slot, tap, taps, bound, boundTo, py>>
    BY DEF SrcFree
<1>2. r \in SourceType
    BY <1>0, NoSourceType DEF SourceType
<1>3. r.of = src[s].of /\ r.at = "freed" /\ r.pc = "done" /\ r.ring = <<>> /\ r.old = 0
    BY DEF NoSource
<1> HIDE DEF r
<1>4. /\ TypeOK' /\ SlotInv' /\ CacheInv' /\ RingInv' /\ BindInv' /\ FlushInv'
      /\ src'[s] = r /\ \A u \in Source : u # s => src'[u] = src[u]
  <2>1. src[s].at # "live" /\ r.at \notin {"live", "starting"}
      BY <1>1, <1>3
  <2>2. Len(r.ring) <= RingFrames /\ r.old <= Len(r.ring)
      BY <1>3
  <2>3. \A i \in 1 .. Len(r.ring) : r.ring[i] \in {0, s}
      BY <1>3
  <2> QED BY <1>1, <1>2, <1>3, <2>1, <2>2, <2>3, StreamFrame
<1>5. StreamInv'
    BY <1>1, <1>3, <1>4 DEF StreamInv, Up
<1> QED BY <1>4, <1>5

LEMMA SrcPublishInv ==
    ASSUME Inv, NEW s \in Source, SrcPublish(s)
    PROVE  Inv'
<1> USE DEF Inv, reVars, pyVars
<1> DEFINE c == src[s].of
<1>0. /\ src[s] \in SourceType /\ Len(src[s].ring) <= RingFrames /\ src[s].old <= Len(src[s].ring)
      /\ src[s].at = "starting"
    BY DEF TypeOK, SrcPublish
<1>1. /\ c \in Call /\ call[c] = "up" /\ src[s].run /\ driver = "open"
      /\ src[s].old = 0 /\ src[s].late = 0
    BY <1>0 DEF StreamInv, Up, FlushInv
<1>2. UNCHANGED <<driver, call, tap, taps, bound, boundTo, py>>
    BY DEF SrcPublish
<1>3. CASE \E k \in SlotFor(c) : /\ slot' = [slot EXCEPT ![k] = Published(c, k, s)]
                                 /\ src' = [src EXCEPT ![s].at = "live"]
  <2>1. PICK k \in SlotFor(c) : /\ slot' = [slot EXCEPT ![k] = Published(c, k, s)]
                                /\ src' = [src EXCEPT ![s].at = "live"]
      BY <1>3
  <2> DEFINE r == [src[s] EXCEPT !.at = "live"]
             q == Published(c, k, s)
  <2>2. /\ src' = [src EXCEPT ![s] = r] /\ slot' = [slot EXCEPT ![k] = q] /\ k \in SlotFor(c)
        /\ k \in Slot /\ slot[k] \in SlotType
      BY <1>1, <2>1, SlotFound DEF TypeOK
  <2>3. /\ r \in SourceType /\ r.of = c /\ r.at = "live" /\ r.run = src[s].run /\ r.pc = src[s].pc
        /\ r.cached = src[s].cached /\ r.ring = src[s].ring /\ r.old = 0 /\ r.late = 0
      BY <1>0, <1>1 DEF SourceType
  <2>4. /\ q \in SlotType /\ q.call = c /\ q.epoch = slot[k].epoch /\ q.tx = s
        /\ q.rx = slot[k].rx /\ q.flush = slot[k].flush
      BY <1>1, <2>2 DEF SlotType, Published
  <2> HIDE DEF r, q, c
  <2>5. slot[k].tx = 0
    <3>1. slot[k].call = c \/ slot[k].call = NoCall
        BY <1>1, <2>2, SlotFound
    <3>2. CASE slot[k].call = NoCall
        BY <2>2, <3>2 DEF SlotInv, FreeSlot
    <3>3. CASE slot[k].call = c /\ slot[k].tx # 0
      <4>1. PICK u \in Source : u = slot[k].tx
          BY <2>2, <3>3 DEF SlotType
      <4>2. src[u].at = "live" /\ src[u].of = c
          BY <2>2, <3>3, <4>1 DEF SlotInv
      <4>3. u = s
          BY <1>0, <4>2 DEF StreamInv, Up, c
      <4> QED BY <1>0, <4>2, <4>3
    <3> QED BY <3>1, <3>2, <3>3
  <2>6. k \in SlotFor(c) /\ call' = call /\ driver' = driver /\ UNCHANGED pyVars /\ slot[k].tx \in {0, q.tx}
      BY <1>2, <2>2, <2>5
  <2>7. slot[k].call = c \/ (slot[k] = FreeSlot /\ \A l \in Slot : slot[l].call # c)
    <3>1. slot[k].call = c \/ slot[k].call = NoCall
        BY <1>1, <2>2, SlotFound
    <3>2. slot[k].call # c => \A l \in Slot : slot[l].call # c
        BY <1>1, <2>2, SlotFound
    <3>3. slot[k].call = NoCall => slot[k] = FreeSlot
        BY <2>2 DEF SlotInv
    <3> QED BY <3>1, <3>2, <3>3
  <2>20. slot' \in [Slot -> SlotType]
      BY <2>2, <2>4 DEF TypeOK
  <2>8. slot'[k] = q /\ \A l \in Slot : l # k => slot'[l] = slot[l]
      BY <1>1, <2>2, <2>4, <2>6, GivenSlot
  <2>9. \A l, m \in Slot : slot'[l].call = slot'[m].call /\ slot'[l].call # NoCall => l = m
      BY <1>1, <2>2, <2>4, <2>6, GivenSlot
  <2>10. BindInv'
      BY <1>1, <2>2, <2>4, <2>6, GivenSlot
  <2>11. src'[s] = r /\ (\A u \in Source : u # s => src'[u] = src[u]) /\ src' \in [Source -> SourceType]
      BY <2>2, <2>3 DEF TypeOK
  <2>12. TypeOK'
    <3>1. \A u \in Source : Len(src'[u].ring) <= RingFrames /\ src'[u].old <= Len(src'[u].ring)
        BY <1>0, <1>1, <2>3, <2>11 DEF TypeOK
    <3> QED BY <1>2, <2>20, <2>11, <3>1 DEF TypeOK
  <2>13. slot[k].flush = FALSE
      BY <2>2, <2>5 DEF SlotInv, SlotType
  <2>14. \A l \in Slot : slot[l].tx # s
      BY <1>0, NotPublished
  <2>15. SlotInv'
    <3>1. \A l \in Slot : slot'[l].call = NoCall => slot'[l] = FreeSlot
        BY <1>1, <2>4, <2>8 DEF SlotInv
    <3>2. \A l \in Slot : slot'[l].call # NoCall => driver' # "closed" /\ call'[slot'[l].call] \in {"up", "torn"}
        BY <1>1, <1>2, <2>4, <2>8 DEF SlotInv
    <3>3. \A l \in Slot : slot'[l].rx => tap'[slot'[l].call] = "tap"
      <4>1. slot[k].call = c \/ slot[k].rx = FALSE
          BY <2>7 DEF FreeSlot
      <4>2. q.rx => tap[c] = "tap"
        <5>1. slot[k].rx => tap[slot[k].call] = "tap"
            BY <2>2 DEF SlotInv
        <5>2. q.rx = slot[k].rx
            BY <2>4
        <5>3. CASE slot[k].call = c
            BY <5>1, <5>2, <5>3
        <5>4. CASE slot[k].rx = FALSE
            BY <5>2, <5>4
        <5> QED BY <4>1, <5>3, <5>4
      <4> QED BY <1>2, <2>4, <2>8, <4>2 DEF SlotInv
    <3>4. ASSUME NEW l \in Slot, slot'[l].tx # 0
          PROVE  src'[slot'[l].tx].at = "live" /\ src'[slot'[l].tx].of = slot'[l].call
      <4>1. CASE l = k
          BY <2>3, <2>4, <2>8, <2>11, <4>1
      <4>2. CASE l # k
        <5>1. slot'[l] = slot[l] /\ slot[l].tx \in Source /\ slot[l].tx # s
            BY <2>8, <2>14, <3>4, <4>2 DEF TypeOK, SlotType
        <5> QED BY <2>11, <3>4, <5>1 DEF SlotInv
      <4> QED BY <4>1, <4>2
    <3>5. \A l \in Slot : slot'[l].flush => slot'[l].tx # 0
        BY <2>4, <2>8 DEF SlotInv
    <3> QED BY <2>9, <3>1, <3>2, <3>3, <3>4, <3>5 DEF SlotInv
  <2>16. StreamInv'
    <3>1. \A u \in Source : /\ Up(u)' <=> Up(u)
                            /\ src'[u].of = src[u].of /\ src'[u].run = src[u].run
                            /\ (src'[u].at = "starting" => src[u].at = "starting")
                            /\ (src'[u].at # "none" => src[u].at # "none")
        BY <1>0, <2>3, <2>11 DEF Up, c
    <3> QED BY <1>2, <3>1 DEF StreamInv
  <2>17. CacheInv'
    <3>1. \A l \in Slot : slot'[l].tx = s => l = k
        BY <2>8, <2>14
    <3>2. src[s].cached # 0 => src[s].cached = k
      <4>1. SUFFICES ASSUME src[s].cached # 0 PROVE src[s].cached = k
          OBVIOUS
      <4>2. src[s].cached \in Slot /\ slot[src[s].cached].call = c
          BY <1>0, <4>1 DEF SourceType, CacheInv, c
      <4>3. slot[k].call = c
          BY <2>7, <4>2
      <4> QED BY <1>1, <2>2, <4>2, <4>3 DEF SlotInv
    <3>3. \A l \in Slot, u \in Source : u # s /\ slot'[l].tx = u => slot[l].tx = u
        BY <2>4, <2>8
    <3>4. \A u \in Source : u # s /\ src[u].at = "starting" /\ src[u].cached # 0 =>
                                slot'[src[u].cached].call = src[u].of
      <4>1. \A u \in Source : u # s => src[u].at # "starting" \/ src[u].of # c
          BY <1>0 DEF StreamInv, Up, c
      <4>2. \A u \in Source : src[u].cached # 0 => src[u].cached \in Slot
          BY DEF TypeOK, SourceType
      <4>3. \A u \in Source : src[u].at = "starting" => src[u].of \in Call
          BY DEF StreamInv
      <4>4. slot[k].call \in {c, NoCall}
          BY <2>7 DEF FreeSlot
      <4> QED BY <2>8, <4>1, <4>2, <4>3, <4>4 DEF CacheInv
    <3>5. /\ src'[s].pc = "drain" => src'[s].cached # 0
          /\ src'[s].cached # 0 => \A l \in Slot : slot'[l].tx = s => l = src'[s].cached
          /\ src'[s].at # "starting"
        BY <2>3, <2>11, <3>1, <3>2 DEF CacheInv
    <3>6. ASSUME NEW u \in Source, u # s
          PROVE  /\ src'[u].pc = "drain" => src'[u].cached # 0
                 /\ Up(u)' /\ src'[u].cached # 0 =>
                        \A l \in Slot : slot'[l].tx = u => l = src'[u].cached
                 /\ src'[u].at = "starting" /\ src'[u].cached # 0 =>
                        slot'[src'[u].cached].call = src'[u].of
      <4>1. src'[u] = src[u] /\ (Up(u)' => Up(u))
          BY <2>11, <3>6 DEF Up
      <4> QED BY <3>3, <3>4, <3>6, <4>1 DEF CacheInv
    <3> QED BY <3>5, <3>6 DEF CacheInv
  <2>18. RingInv'
      BY <2>3, <2>11 DEF RingInv, NoMisdirectedPcm
  <2>19. FlushInv'
    <3>1. src'[s].late = 0 /\ src'[s].old = 0
        BY <2>3, <2>11
    <3>2. \A l \in Slot, u \in Source : u # s /\ slot'[l].tx = u => slot[l].tx = u /\ slot'[l] = slot[l]
        BY <2>4, <2>8
    <3> QED BY <2>11, <3>1, <3>2 DEF FlushInv, Sees
  <2> QED BY <2>10, <2>12, <2>15, <2>16, <2>17, <2>18, <2>19
<1>4. CASE slot' = slot /\ src' = [src EXCEPT ![s].at = "dropping"]
  <2> DEFINE r == [src[s] EXCEPT !.at = "dropping"]
  <2>1. src' = [src EXCEPT ![s] = r]
      BY <1>4 DEF TypeOK
  <2>2. /\ r \in SourceType /\ r.of = src[s].of /\ r.at = "dropping" /\ r.pc = src[s].pc
        /\ r.cached = src[s].cached /\ r.ring = src[s].ring /\ r.old = src[s].old
      BY <1>0 DEF SourceType
  <2> HIDE DEF r, c
  <2>3. /\ TypeOK' /\ SlotInv' /\ CacheInv' /\ RingInv' /\ BindInv' /\ FlushInv'
        /\ src'[s] = r /\ \A u \in Source : u # s => src'[u] = src[u]
    <3>1. src[s].at # "live" /\ r.at \notin {"live", "starting"}
        BY <1>0, <2>2
    <3>2. Len(r.ring) <= RingFrames /\ r.old <= Len(r.ring)
        BY <1>0, <2>2
    <3>3. \A i \in 1 .. Len(r.ring) : r.ring[i] \in {0, s}
        BY <2>2 DEF RingInv, NoMisdirectedPcm
    <3>4. r.pc = "drain" => r.cached # 0
        BY <2>2 DEF CacheInv
    <3> QED BY <1>2, <1>4, <2>1, <2>2, <3>1, <3>2, <3>3, <3>4, StreamFrame
  <2>4. StreamInv'
      BY <1>0, <1>2, <2>2, <2>3 DEF StreamInv, Up
  <2> QED BY <2>3, <2>4
<1> QED BY <1>3, <1>4 DEF SrcPublish

LEMMA SrcDropInv ==
    ASSUME Inv, NEW s \in Source, SrcDrop(s)
    PROVE  Inv'
<1> USE DEF Inv, reVars, pyVars
<1> DEFINE c == src[s].of
           r == [src[s] EXCEPT !.at = "dropping", !.old = 0, !.late = 0]
<1>0. /\ src[s] \in SourceType /\ Len(src[s].ring) <= RingFrames /\ Len(src[s].ring) \in Nat
      /\ src[s].at = "live" /\ ReFree
      /\ UNCHANGED <<driver, call, tap, taps, bound, boundTo, py>>
  <2>1. src[s] \in SourceType /\ Len(src[s].ring) <= RingFrames
      BY DEF TypeOK
  <2> QED BY <2>1, RingType DEF SrcDrop
<1>1. src' = [src EXCEPT ![s] = r] /\ slot' = TxGone(c, s)
    BY DEF SrcDrop, TypeOK
<1>2. /\ r \in SourceType /\ r.of = src[s].of /\ r.at = "dropping" /\ r.pc = src[s].pc
      /\ r.cached = src[s].cached /\ r.ring = src[s].ring /\ r.old = 0
    BY <1>0 DEF SourceType
<1> HIDE DEF r
<1>3. src'[s] = r /\ (\A u \in Source : u # s => src'[u] = src[u]) /\ src' \in [Source -> SourceType]
    BY <1>1, <1>2 DEF TypeOK
<1>4. ASSUME NEW k \in Slot
      PROVE  /\ slot'[k] \in SlotType
             /\ \/ slot[k].call # c /\ slot'[k] = slot[k]
                \/ /\ slot[k].call = c /\ slot'[k].call = slot[k].call
                   /\ slot'[k].epoch = slot[k].epoch + 1 /\ slot'[k].rx = slot[k].rx
                   /\ \/ slot[k].tx = s /\ slot'[k].tx = 0 /\ slot'[k].flush = FALSE
                      \/ slot[k].tx # s /\ slot'[k].tx = slot[k].tx /\ slot'[k].flush = slot[k].flush
  <2>1. slot[k] \in SlotType /\ slot[k].epoch + 1 \in Nat
      BY DEF TypeOK, SlotType
  <2>2. CASE slot[k].call # c
      BY <1>1, <2>1, <2>2 DEF TxGone, Of
  <2>3. CASE slot[k].call = c /\ slot[k].tx # s
    <3>1. slot'[k] = [slot[k] EXCEPT !.epoch = slot[k].epoch + 1]
        BY <1>1, <2>3 DEF TxGone, Of
    <3>2. slot'[k] \in SlotType
        BY <2>1, <3>1 DEF SlotType
    <3>3. /\ slot'[k].call = slot[k].call /\ slot'[k].epoch = slot[k].epoch + 1
          /\ slot'[k].rx = slot[k].rx /\ slot'[k].tx = slot[k].tx /\ slot'[k].flush = slot[k].flush
        BY <2>1, <3>1 DEF SlotType
    <3> QED BY <2>3, <3>2, <3>3
  <2>4. CASE slot[k].call = c /\ slot[k].tx = s
    <3> DEFINE q == [slot[k] EXCEPT !.tx = 0, !.flush = FALSE, !.epoch = slot[k].epoch + 1]
    <3>1. slot'[k] = q
        BY <1>1, <2>4 DEF TxGone, Of
    <3>2. q \in SlotType
        BY <2>1 DEF SlotType
    <3>3. /\ q.call = slot[k].call /\ q.epoch = slot[k].epoch + 1
          /\ q.rx = slot[k].rx /\ q.tx = 0
        BY <2>1 DEF SlotType
    <3>4. q.flush = FALSE
        BY <2>1 DEF SlotType
    <3> HIDE DEF q
    <3> QED BY <2>4, <3>1, <3>2, <3>3, <3>4
  <2> QED BY <2>2, <2>3, <2>4
<1> HIDE DEF c
<1>5. slot' \in [Slot -> SlotType]
  <2>1. slot' = [k \in Slot |-> slot'[k]]
      BY <1>1 DEF TxGone
  <2> QED BY <1>4, <2>1
<1>6. TypeOK'
    BY <1>0, <1>2, <1>3, <1>5 DEF TypeOK
<1>7. \A k \in Slot : slot[k].tx = s => slot[k].call = c
    BY Published1 DEF c
<1>8. \A k \in Slot : \/ slot[k].tx = s /\ slot'[k].tx = 0 /\ slot'[k].flush = FALSE
                      \/ slot[k].tx # s /\ slot'[k].tx = slot[k].tx /\ slot'[k].flush = slot[k].flush
    BY <1>4, <1>7
<1>9. \A k \in Slot : slot'[k].call = slot[k].call /\ slot'[k].rx = slot[k].rx
    BY <1>4
<1>10. SlotInv'
  <2>1. \A k \in Slot : slot'[k].call = NoCall => slot'[k] = FreeSlot
    <3>1. c # NoCall
        BY <1>0 DEF StreamInv, c
    <3> QED BY <1>4, <3>1 DEF SlotInv
  <2>2. \A k \in Slot : slot'[k].call # NoCall => driver' # "closed" /\ call'[slot'[k].call] \in {"up", "torn"}
      BY <1>0, <1>9 DEF SlotInv
  <2>3. \A k \in Slot : slot'[k].rx => tap'[slot'[k].call] = "tap"
    <3>1. \A k \in Slot : slot[k].rx => tap[slot[k].call] = "tap"
        BY DEF SlotInv
    <3> QED BY <1>0, <1>9, <3>1
  <2>4. ASSUME NEW k \in Slot, slot'[k].tx # 0
        PROVE  src'[slot'[k].tx].at = "live" /\ src'[slot'[k].tx].of = slot'[k].call
    <3>1. slot'[k].tx = slot[k].tx /\ slot[k].tx \in Source /\ slot[k].tx # s
      <4>1. slot[k].tx # s /\ slot'[k].tx = slot[k].tx
          BY <1>8, <2>4
      <4>2. slot'[k] \in SlotType
          BY <1>4
      <4> QED BY <2>4, <4>1, <4>2 DEF SlotType
    <3> QED BY <1>3, <1>9, <2>4, <3>1 DEF SlotInv
  <2>5. \A k \in Slot : slot'[k].flush => slot'[k].tx # 0
      BY <1>8 DEF SlotInv
  <2>6. \A k, l \in Slot : slot'[k].call = slot'[l].call /\ slot'[k].call # NoCall => k = l
      BY <1>9 DEF SlotInv
  <2> QED BY <2>1, <2>2, <2>3, <2>4, <2>5, <2>6 DEF SlotInv
<1>11. StreamInv'
    BY <1>0, <1>2, <1>3 DEF StreamInv, Up
<1>12. \A k \in Slot, u \in Source : slot'[k].tx = u => /\ u # s /\ slot[k].tx = u
                                                         /\ slot'[k].flush = slot[k].flush
    BY <1>8
<1>13. CacheInv'
  <2>1. \A u \in Source : src[u].at # "starting"
      BY <1>0, ReFreeNone
  <2> QED BY <1>2, <1>3, <1>12, <2>1 DEF CacheInv, Up
<1>14. RingInv'
    BY <1>2, <1>3 DEF RingInv, NoMisdirectedPcm
<1>15. BindInv'
  <2>1. \A k \in Slot : slot[k].epoch \in Nat
      BY DEF TypeOK, SlotType
  <2>2. \A k \in Slot : \/ slot'[k].epoch > slot[k].epoch
                        \/ slot'[k].epoch = slot[k].epoch /\ slot[k].tx \in {0, slot'[k].tx}
    <3>1. \A k \in Slot : slot'[k] = slot[k] \/ slot'[k].epoch = slot[k].epoch + 1
        BY <1>4
    <3> QED BY <2>1, <3>1
  <2>3. (\A k \in Slot : slot'[k].call # Mine) =>
            \/ call'[Mine] \in {"torn", "closed"}
            \/ call[Mine] \notin {"torn", "closed"} /\ \A k \in Slot : slot[k].call # Mine
      BY <1>0, <1>9
  <2> QED BY <1>0, <1>5, <1>9, <2>2, <2>3, BindFrame
<1>16. FlushInv'
    BY <1>2, <1>3, <1>12 DEF FlushInv, Sees
<1> QED BY <1>6, <1>10, <1>11, <1>13, <1>14, <1>15, <1>16

-----------------------------------------------------------------------------
(* The theorems.                                                           *)

LEMMA StutterInv == ASSUME Inv, UNCHANGED vars PROVE Inv'
<1> USE DEF Inv, vars
<1>1. TypeOK' /\ SlotInv' /\ StreamInv' /\ CacheInv' /\ RingInv' /\ FlushInv'
    BY DEF TypeOK, SlotInv, StreamInv, CacheInv, RingInv, FlushInv, NoMisdirectedPcm, Up, Sees
<1>2. BindInv'
  <2>1. \A e, to : Binds(e, to) => Binds(e, to)'
      BY DEF Binds
  <2> QED BY <2>1 DEF BindInv
<1> QED BY <1>1, <1>2

LEMMA StepInv == Inv /\ [Next]_vars => Inv'
<1> SUFFICES ASSUME Inv, [Next]_vars PROVE Inv'
    OBVIOUS
<1>1. CASE ReThread
  <2>1. CASE \E c \in Call : CallUp(c) \/ CallClosed(c) \/ DecUpdate(c) \/ DecFree(c)
      BY <2>1, CallUpInv, CallClosedInv, DecUpdateInv, DecFreeInv
  <2>2. CASE \E c \in Call, s \in Source : SrcAlloc(c, s)
      BY <2>2, SrcAllocInv
  <2>3. CASE \E s \in Source : SrcPublish(s) \/ SrcDrop(s) \/ SrcStop(s) \/ SrcFree(s)
      BY <2>3, SrcPublishInv, SrcDropInv, SrcStopInv, SrcFreeInv
  <2>4. CASE Teardown \/ Unregister
      BY <2>4, TeardownInv, UnregisterInv
  <2> QED BY <1>1, <2>1, <2>2, <2>3, <2>4 DEF ReThread
<1>2. CASE \E s \in Source : SrcThread(s)
    BY <1>2, TickInv, CheckFlushInv, DrainInv, SendInv DEF SrcThread
<1>3. CASE \E p \in Python : PythonThread(p)
    BY <1>3, PyInv, NativeInv DEF PythonThread
<1>4. CASE UNCHANGED vars
    BY <1>4, StutterInv
<1> QED BY <1>1, <1>2, <1>3, <1>4 DEF Next

(* The types, the table, the streams, the slots their threads have cached,  *)
(* the bindings and the requests to flush are in order in every state.      *)
THEOREM Invariance == Spec => []Inv
<1>1. Init => Inv
    BY InitInv
<1>2. Inv /\ [Next]_vars => Inv'
    BY StepInv
<1> QED BY <1>1, <1>2, PTL DEF Spec

(* No accessor reaches a ring that is being freed or is another call's: the *)
(* table holds rings of its calls' streams that are up, and no call twice.  *)
THEOREM SlotsHoldLiveRings == Spec => []SlotsAreLive
<1>1. Inv => SlotsAreLive
  <2>1. SUFFICES ASSUME Inv PROVE SlotsAreLive
      OBVIOUS
  <2>2. TypeOK /\ SlotInv
      BY <2>1 DEF Inv
  <2> QED BY <2>2 DEF SlotsAreLive, SlotInv, Of
<1> QED BY <1>1, Invariance, PTL

(* A frame written while one stream was up is never sent by another. *)
THEOREM PcmReachesItsStream == Spec => []NoMisdirectedPcm
<1>1. Inv => NoMisdirectedPcm
    BY DEF Inv, RingInv
<1> QED BY <1>1, Invariance, PTL

(* After a flush at most one frame from before it goes out. *)
THEOREM FlushesArePrompt == Spec => []FlushIsPrompt
<1>1. Inv => FlushIsPrompt
  <2> SUFFICES ASSUME Inv, NEW k \in Slot, slot[k].tx # 0 PROVE src[slot[k].tx].late <= 1
      BY DEF FlushIsPrompt
  <2>1. slot[k].tx \in Source
      BY DEF Inv, TypeOK, SlotType
  <2> QED BY <2>1 DEF Inv, FlushInv
<1> QED BY <1>1, Invariance, PTL

(* A request to flush stands for the stream in the slot, whose thread goes  *)
(* on and finds the request.                                                *)
THEOREM FlushesAreServed == Spec => []FlushIsServed
<1>1. Inv => FlushIsServed
  <2> SUFFICES ASSUME Inv, NEW k \in Slot, slot[k].flush
               PROVE  \E s \in Source : slot[k].tx = s /\ src[s].run /\ src[s].cached \in {0, k}
      BY DEF FlushIsServed
  <2>1. slot[k].tx # 0
      BY DEF Inv, SlotInv
  <2>2. PICK s \in Source : s = slot[k].tx
      BY <2>1 DEF Inv, TypeOK, SlotType
  <2> QED BY <2>2, Published1
<1> QED BY <1>1, Invariance, PTL
=============================================================================
