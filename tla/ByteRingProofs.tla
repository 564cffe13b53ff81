--------------------------- MODULE ByteRingProofs ---------------------------
(***************************************************************************)
(* Proofs about ByteRing.tla, for every capacity, every stream of bytes    *)
(* and every bound.                                                        *)
(***************************************************************************)
EXTENDS ByteRing, TLAPS

-----------------------------------------------------------------------------
(* Remainders.                                                             *)

(* Division with remainder. *)
LEMMA DivMod ==
    ASSUME NEW M \in Nat \ {0}, NEW a \in Nat
    PROVE  /\ a \div M \in Int
           /\ a % M \in 0 .. (M - 1)
           /\ a = M * (a \div M) + (a % M)
OBVIOUS

(* Two numbers less than M apart have different remainders. *)
LEMMA ModDistinct ==
    ASSUME NEW M \in Nat \ {0}, NEW a \in Nat, NEW b \in Nat, a < b, b < a + M
    PROVE  a % M # b % M
<1> DEFINE p == a \div M
           q == b \div M
<1>1. p \in Int /\ a % M \in Nat /\ a = M * p + (a % M)
    OBVIOUS
<1>2. q \in Int /\ b % M \in Nat /\ b = M * q + (b % M)
    OBVIOUS
<1> HIDE DEF p, q
<1>3. M * (q - p) = (b - a) + (a % M) - (b % M)
    BY <1>1, <1>2
<1>4. (q - p <= 0 => M * (q - p) <= 0) /\ (q - p >= 1 => M * (q - p) >= M)
    BY <1>1, <1>2
<1> QED BY <1>1, <1>2, <1>3, <1>4


USE ByteRingAssumption

-----------------------------------------------------------------------------
(* The slot of a free-running index: ring.c masks it with cap - 1.          *)
Masked(idx) == idx % Cap

(* Two indices less than a buffer apart, seen through the mask, are two    *)
(* different slots.                                                        *)
LEMMA MaskedDistinct ==
    ASSUME NEW a \in Nat, NEW b \in Nat, a < b, b < a + Cap
    PROVE  Masked(a) # Masked(b)
BY ModDistinct DEF Masked

(* The two memcpy of a transfer land where the masked free-running index   *)
(* would, byte by byte.                                                    *)
LEMMA SlotOfIsMod ==
    ASSUME NEW idx \in Nat, NEW n \in Nat, n <= Cap, NEW i \in 0 .. (n - 1)
    PROVE  /\ SlotOf(idx, n, i) = Masked(idx + i)
           /\ SlotOf(idx, n, i) \in Slots
<1> DEFINE a   == idx + i
           off == idx % Cap
           q   == idx \div Cap
           s   == a % Cap
           t   == a \div Cap
<1>0. a \in Nat /\ a = idx + i
    OBVIOUS
<1>1. /\ off \in 0 .. (Cap - 1) /\ q \in Int
      /\ idx = Cap * q + off
    BY DivMod
<1>2. /\ s \in 0 .. (Cap - 1) /\ t \in Int
      /\ a = Cap * t + s
  <2> HIDE DEF a
  <2> QED BY <1>0, DivMod
<1>3. SlotOf(idx, n, i) = IF i < Smaller(Cap - off, n) THEN off + i
                                 ELSE i - Smaller(Cap - off, n)
    BY DEF SlotOf
<1> HIDE DEF a, off, q, s, t
<1>4. \A p \in Int, x \in 0 .. (Cap - 1) : a = Cap * p + x => x = s
  <2> TAKE p \in Int, x \in 0 .. (Cap - 1)
  <2> HAVE a = Cap * p + x
  <2>1. Cap * (p - t) = s - x
      BY <1>0, <1>2
  <2>2. CASE p - t >= 1
    <3>1. Cap * (p - t) >= Cap
        BY <1>2, <2>2
    <3> QED BY <1>2, <2>1, <3>1
  <2>3. CASE p - t <= -1
    <3>1. Cap * (p - t) <= -Cap
        BY <1>2, <2>3
    <3> QED BY <1>2, <2>1, <3>1
  <2>4. CASE p = t
      BY <1>2, <2>1, <2>4
  <2> QED BY <1>2, <2>2, <2>3, <2>4
<1>5. SlotOf(idx, n, i) \in 0 .. (Cap - 1) /\ SlotOf(idx, n, i) = s
  <2>1. CASE i < Cap - off
    <3>1. SlotOf(idx, n, i) = off + i
        BY <1>1, <1>3, <2>1 DEF Smaller
    <3>2. a = Cap * q + (off + i)
        BY <1>0, <1>1
    <3>3. off + i \in 0 .. (Cap - 1)
        BY <1>1, <2>1
    <3> QED BY <1>1, <1>4, <3>1, <3>2, <3>3
  <2>2. CASE i >= Cap - off
    <3> DEFINE p == q + 1
               x == off + i - Cap
    <3>1. SlotOf(idx, n, i) = x
        BY <1>1, <1>3, <2>2 DEF Smaller
    <3>2. a = Cap * p + x /\ p \in Int
        BY <1>0, <1>1
    <3>3. x \in 0 .. (Cap - 1)
        BY <1>1, <2>2
    <3> HIDE DEF p, x
    <3> QED BY <1>4, <3>1, <3>2, <3>3
  <2> QED BY <1>1, <2>1, <2>2
<1> QED BY <1>5 DEF Slots, Masked, a, s
-----------------------------------------------------------------------------
(* The inductive invariant, in named parts.                                *)

IndexInv ==
    /\ Len(sent) = wr /\ Len(received) = rd
    /\ rd <= wr /\ wr <= rd + Cap

WriteInv ==
    /\ wpc = "copy" => /\ 1 <= wn /\ wn <= Len(src)
                        /\ wi <= wn
                        /\ wrd <= rd /\ wr + wn <= wrd + Cap
    /\ wpc = "account" => /\ wn <= Len(src)
                           /\ wrd <= rd /\ wrd <= wr /\ wr <= wrd + Cap

ReadInv ==
    /\ rpc = "copy" => /\ 1 <= rn /\ rn <= asked
                        /\ rd + rn <= wr
                        /\ Len(dst) <= rn
    /\ rpc = "account" => rn <= asked

SizeInv ==
    /\ sizer = "producer" => wpc = "idle"
    /\ sizer = "consumer" => rpc = "idle" /\ srd = rd
    /\ sizer # "nobody" => srd <= rd

CountInv ==
    /\ wpc = "idle" => offered = wr + dropped
    /\ wpc = "copy" => offered = wr + Len(src) + dropped
    /\ wpc = "account" => offered = wr + Len(src) - wn + dropped

HighInv ==
    /\ highWater <= Cap
    /\ wpc # "account" \/ wn = 0 => highWater >= wr - rd

Control == IndexInv /\ WriteInv /\ ReadInv /\ SizeInv /\ CountInv /\ HighInv

(* Every byte accepted and not yet read is in its slot. *)
StoredInv == \A k \in rd .. (wr - 1) : buf[Masked(k)] = sent[k + 1]

(* The bytes the write in progress has copied are in theirs. *)
WrittenInv ==
    wpc = "copy" => \A i \in 0 .. (wi - 1) : buf[Masked(wr + i)] = src[i + 1]

(* The bytes the read in progress has copied are the next of the stream. *)
CopiedInv ==
    rpc = "copy" => \A j \in 1 .. Len(dst) : dst[j] = sent[rd + j]

DeliveredInv == \A k \in 1 .. rd : received[k] = sent[k]

Data == StoredInv /\ WrittenInv /\ CopiedInv /\ DeliveredInv

Inv == TypeOK /\ Control /\ Data

-----------------------------------------------------------------------------

LEMMA InitInv == Init => Inv
<1> SUFFICES ASSUME Init PROVE Inv
    OBVIOUS
<1> USE DEF Init
<1>1. TypeOK
    BY DEF TypeOK, Observers
<1>2. Control
    BY DEF Control, IndexInv, WriteInv, ReadInv, SizeInv, CountInv, HighInv
<1>3. Data
    BY DEF Data, StoredInv, WrittenInv, CopiedInv, DeliveredInv
<1> QED BY <1>1, <1>2, <1>3 DEF Inv

(* What WriteBegin puts on the producer's stack. *)
LEMMA OfferType ==
    ASSUME offered \in Nat, NEW len \in 1 .. MaxLen, offered + len <= MaxOffered
    PROVE  Offer(len) \in Seq(Byte) /\ Len(Offer(len)) = len
<1>1. \A i \in 1 .. len : Stream[offered + i] \in Byte
    OBVIOUS
<1> QED BY <1>1 DEF Offer

(* What concatenation does to lengths and elements. *)
LEMMA ConcatFacts ==
    ASSUME NEW s \in Seq(Byte), NEW t \in Seq(Byte)
    PROVE  /\ s \o t \in Seq(Byte)
           /\ Len(s \o t) = Len(s) + Len(t)
           /\ \A k \in 1 .. Len(s) : (s \o t)[k] = s[k]
           /\ \A i \in 1 .. Len(t) : (s \o t)[Len(s) + i] = t[i]
OBVIOUS

(* And taking a prefix. *)
LEMMA PrefixFacts ==
    ASSUME NEW s \in Seq(Byte), NEW n \in 0 .. Len(s)
    PROVE  /\ SubSeq(s, 1, n) \in Seq(Byte)
           /\ Len(SubSeq(s, 1, n)) = n
           /\ \A i \in 1 .. n : SubSeq(s, 1, n)[i] = s[i]
OBVIOUS

(* Types, indices, bounds and counters. *)
LEMMA ControlStep ==
    ASSUME TypeOK, Control, [Next]_vars
    PROVE  TypeOK' /\ Control'
<1> USE DEF TypeOK, Observers, Control, IndexInv, WriteInv, ReadInv, SizeInv,
            CountInv, HighInv, ringVars, counterVars, writeVars, readVars,
            sizeVars, history, Smaller
<1>1. ASSUME NEW len \in 1 .. MaxLen, WriteBegin(len)
      PROVE  TypeOK' /\ Control'
  <2>1. src' \in Seq(Byte) /\ Len(src') = len
      BY <1>1, OfferType DEF WriteBegin
  <2> QED BY <1>1, <2>1 DEF WriteBegin, Space
<1>2. ASSUME WriteCopy PROVE TypeOK' /\ Control'
  <2>1. SlotOf(wr, wn, wi) \in Slots
    <3>1. wn <= Cap /\ wi \in 0 .. (wn - 1)
        BY <1>2 DEF WriteCopy
    <3> QED BY <3>1, SlotOfIsMod
  <2>2. src[wi + 1] \in Byte
      BY <1>2 DEF WriteCopy
  <2> QED BY <1>2, <2>1, <2>2 DEF WriteCopy
<1>3. ASSUME WritePublish PROVE TypeOK' /\ Control'
  <2>1. wn <= Len(src)
      BY <1>3 DEF WritePublish
  <2>2. sent' \in Seq(Byte) /\ Len(sent') = Len(sent) + wn
    <3>1. SubSeq(src, 1, wn) \in Seq(Byte) /\ Len(SubSeq(src, 1, wn)) = wn
        BY <2>1
    <3> HIDE DEF Control
    <3> QED BY <1>3, <3>1 DEF WritePublish
  <2> QED BY <1>3, <2>2 DEF WritePublish
<1>4. ASSUME WriteAccount PROVE TypeOK' /\ Control'
    BY <1>4 DEF WriteAccount, FillAfter, Short
<1>5. ASSUME NEW len \in 1 .. MaxLen, ReadBegin(len)
      PROVE  TypeOK' /\ Control'
    BY <1>5 DEF ReadBegin, Readable
<1>6. ASSUME ReadCopy PROVE TypeOK' /\ Control'
  <2>1. SlotOf(rd, rn, Len(dst)) \in Slots
    <3>1. rn <= Cap /\ Len(dst) \in 0 .. (rn - 1)
        BY <1>6 DEF ReadCopy
    <3> QED BY <3>1, SlotOfIsMod
  <2>2. dst' \in Seq(Byte) /\ Len(dst') = Len(dst) + 1
      BY <1>6, <2>1 DEF ReadCopy
  <2> QED BY <1>6, <2>2 DEF ReadCopy
<1>7. ASSUME ReadPublish PROVE TypeOK' /\ Control'
  <2>1. received' \in Seq(Byte) /\ Len(received') = Len(received) + rn
    <3>1. received' = received \o dst /\ Len(dst) = rn
        BY <1>7 DEF ReadPublish
    <3>2. received \in Seq(Byte) /\ dst \in Seq(Byte)
        OBVIOUS
    <3> HIDE DEF Control, TypeOK
    <3> QED BY <3>1, <3>2, ConcatFacts
  <2> QED BY <1>7, <2>1 DEF ReadPublish
<1>8. ASSUME ReadAccount PROVE TypeOK' /\ Control'
    BY <1>8 DEF ReadAccount
<1>9. ASSUME NEW t \in Observers, SizeBegin(t) PROVE TypeOK' /\ Control'
    BY <1>9 DEF SizeBegin
<1>10. ASSUME SizeEnd PROVE TypeOK' /\ Control'
    BY <1>10 DEF SizeEnd, Snapshot
<1>11. CASE UNCHANGED vars
    BY <1>11 DEF vars
<1> QED BY <1>1, <1>2, <1>3, <1>4, <1>5, <1>6, <1>7, <1>8, <1>9, <1>10, <1>11
        DEF Next, Producer, Consumer, Observer

-----------------------------------------------------------------------------
(* The contents of the buffer.                                             *)

(* Where the bytes of a write in progress go. *)
LEMMA WriteSlot ==
    ASSUME TypeOK, Control, wpc = "copy", NEW i \in 0 .. (wn - 1)
    PROVE  SlotOf(wr, wn, i) = Masked(wr + i) /\ SlotOf(wr, wn, i) \in Slots
<1>1. wr \in Nat /\ wn \in Nat /\ wn <= Cap
    BY DEF TypeOK, Control, IndexInv, WriteInv
<1> QED BY <1>1, SlotOfIsMod

(* A write in progress and an unread byte use different slots. *)
LEMMA WriteAvoidsUnread ==
    ASSUME TypeOK, Control, wpc = "copy",
           NEW i \in 0 .. (wn - 1), NEW k \in rd .. (wr - 1)
    PROVE  k \in Nat /\ Masked(wr + i) # Masked(k)
<1>1. k \in Nat /\ wr + i \in Nat /\ k < wr + i /\ wr + i < k + Cap
    BY DEF TypeOK, Control, IndexInv, WriteInv
<1> QED BY <1>1, MaskedDistinct

(* Two bytes of one write use different slots. *)
LEMMA WriteSlotsDistinct ==
    ASSUME TypeOK, Control, wpc = "copy", NEW i \in 0 .. (wn - 1),
           NEW j \in 0 .. (wn - 1), i < j
    PROVE  Masked(wr + i) # Masked(wr + j)
<1>1. wr + i \in Nat /\ wr + j \in Nat /\ wr + i < wr + j /\ wr + j < wr + i + Cap
    BY DEF TypeOK, Control, IndexInv, WriteInv
<1> QED BY <1>1, MaskedDistinct

LEMMA MaskedInSlots == ASSUME NEW k \in Nat PROVE Masked(k) \in Slots
BY DEF Masked, Slots

(* The effect of the producer's steps on the contents. *)
LEMMA WriteCopyData ==
    ASSUME TypeOK, Control, Data, WriteCopy
    PROVE  Data'
<1>1. /\ wpc = "copy" /\ wi \in 0 .. (wn - 1) /\ wi' = wi + 1
      /\ UNCHANGED <<wr, rd, rpc, dst, src, wpc, wn, sent, received>>
      /\ wr \in Nat /\ rd \in Nat /\ wn \in Nat
    BY DEF WriteCopy, TypeOK, readVars, history
<1>2. Masked(wr + wi) \in Slots /\ SlotOf(wr, wn, wi) = Masked(wr + wi)
    BY <1>1, WriteSlot
<1>3. /\ buf'[Masked(wr + wi)] = src[wi + 1]
      /\ \A s \in Slots : s # Masked(wr + wi) => buf'[s] = buf[s]
    BY <1>2 DEF WriteCopy, TypeOK
<1>4. StoredInv'
  <2> SUFFICES ASSUME NEW k \in rd .. (wr - 1)
               PROVE  buf'[Masked(k)] = sent[k + 1]
      BY <1>1 DEF StoredInv
  <2>1. k \in Nat /\ Masked(wr + wi) # Masked(k)
      BY <1>1, WriteAvoidsUnread
  <2>2. buf'[Masked(k)] = buf[Masked(k)]
      BY <1>3, <2>1, MaskedInSlots
  <2> QED BY <2>2 DEF Data, StoredInv
<1>5. WrittenInv'
  <2> SUFFICES ASSUME NEW i \in 0 .. wi
               PROVE  buf'[Masked(wr + i)] = src[i + 1]
    <3>1. 0 .. (wi' - 1) = 0 .. wi
        BY <1>1
    <3> QED BY <1>1, <3>1 DEF WrittenInv
  <2>1. CASE i = wi
      BY <1>3, <2>1
  <2>2. CASE i < wi
    <3>1. i \in 0 .. (wn - 1) /\ wr + i \in Nat /\ i \in 0 .. (wi - 1)
        BY <1>1, <2>2
    <3>2. Masked(wr + i) # Masked(wr + wi) /\ Masked(wr + i) \in Slots
        BY <1>1, <2>2, <3>1, WriteSlotsDistinct, MaskedInSlots
    <3>3. buf[Masked(wr + i)] = src[i + 1]
        BY <1>1, <3>1 DEF Data, WrittenInv
    <3> QED BY <1>3, <3>2, <3>3
  <2> QED BY <1>1, <2>1, <2>2
<1>6. CopiedInv' /\ DeliveredInv'
    BY <1>1 DEF Data, CopiedInv, DeliveredInv
<1> QED BY <1>4, <1>5, <1>6 DEF Data

LEMMA WritePublishData ==
    ASSUME TypeOK, Control, Data, WritePublish
    PROVE  Data'
<1> USE DEF TypeOK
<1>1. /\ wpc = "copy" /\ wi = wn /\ wn <= Len(src) /\ wr' = wr + wn
      /\ wpc' = "account"
      /\ Len(sent) = wr /\ rd <= wr
      /\ rpc = "copy" => rd + Len(dst) <= wr
      /\ UNCHANGED <<buf, rd, rpc, dst, received>>
    BY DEF WritePublish, Control, WriteInv, IndexInv, ReadInv, readVars
<1>2. /\ \A k \in 1 .. wr : sent'[k] = sent[k]
      /\ \A i \in 1 .. wn : sent'[wr + i] = src[i]
  <2> DEFINE new == SubSeq(src, 1, wn)
  <2>1. wn \in 0 .. Len(src) /\ src \in Seq(Byte) /\ sent \in Seq(Byte)
      BY <1>1
  <2>2. new \in Seq(Byte) /\ Len(new) = wn /\ \A i \in 1 .. wn : new[i] = src[i]
      BY <2>1, PrefixFacts
  <2>3. sent' = sent \o new
      BY DEF WritePublish
  <2> HIDE DEF new, TypeOK
  <2> QED BY <1>1, <2>1, <2>2, <2>3, ConcatFacts
<1>3. StoredInv'
  <2> SUFFICES ASSUME NEW k \in rd' .. (wr' - 1)
               PROVE  buf'[Masked(k)] = sent'[k + 1]
      BY DEF StoredInv
  <2>0. k \in rd .. (wr + wn - 1) /\ buf' = buf
      BY <1>1
  <2>1. CASE k < wr
    <3>1. k \in rd .. (wr - 1) /\ k + 1 \in 1 .. wr
        BY <2>0, <2>1
    <3> QED BY <1>2, <2>0, <3>1 DEF Data, StoredInv
  <2>2. CASE k >= wr
    <3>1. PICK i \in 0 .. (wn - 1) : k = wr + i
      <4>1. k - wr \in 0 .. (wn - 1) /\ k = wr + (k - wr)
          BY <2>0, <2>2
      <4> QED BY <4>1
    <3>2. buf[Masked(wr + i)] = src[i + 1]
        BY <1>1 DEF Data, WrittenInv
    <3>3. sent'[wr + (i + 1)] = src[i + 1]
      <4>1. i + 1 \in 1 .. wn
          OBVIOUS
      <4> QED BY <1>2, <4>1
    <3> QED BY <2>0, <3>1, <3>2, <3>3
  <2> QED BY <2>0, <2>1, <2>2
<1>4. WrittenInv'
    BY <1>1 DEF WrittenInv
<1>5. CopiedInv'
    BY <1>1, <1>2 DEF Data, CopiedInv
<1>6. DeliveredInv'
    BY <1>1, <1>2 DEF Data, DeliveredInv
<1> QED BY <1>3, <1>4, <1>5, <1>6 DEF Data

(* The effect of the consumer's steps on the contents. *)
LEMMA ReadCopyData ==
    ASSUME TypeOK, Control, Data, ReadCopy
    PROVE  Data'
<1>1. /\ rpc = "copy" /\ Len(dst) \in 0 .. (rn - 1) /\ rd + rn <= wr /\ rn <= Cap
      /\ UNCHANGED <<buf, wr, rd, wpc, wi, src, sent, received, rpc>>
      /\ wr \in Nat /\ rd \in Nat /\ rn \in Nat
      /\ dst' = Append(dst, buf[SlotOf(rd, rn, Len(dst))])
    BY DEF ReadCopy, TypeOK, Control, IndexInv, ReadInv, ringVars, writeVars, history
<1>2. SlotOf(rd, rn, Len(dst)) = Masked(rd + Len(dst)) /\ SlotOf(rd, rn, Len(dst)) \in Slots
    BY <1>1, SlotOfIsMod
<1>3. buf[SlotOf(rd, rn, Len(dst))] \in Byte /\ dst \in Seq(Byte)
    BY <1>2 DEF TypeOK
<1>4. buf[SlotOf(rd, rn, Len(dst))] = sent[rd + Len(dst) + 1]
  <2>1. rd + Len(dst) \in rd .. (wr - 1)
      BY <1>1
  <2> QED BY <1>2, <2>1 DEF Data, StoredInv
<1>5. CopiedInv'
  <2> SUFFICES ASSUME NEW j \in 1 .. Len(dst')
               PROVE  dst'[j] = sent[rd + j]
      BY <1>1 DEF CopiedInv
  <2>1. Len(dst') = Len(dst) + 1 /\ dst'[Len(dst) + 1] = sent[rd + (Len(dst) + 1)]
      BY <1>1, <1>3, <1>4
  <2>2. \A k \in 1 .. Len(dst) : dst'[k] = dst[k]
      BY <1>1, <1>3
  <2>3. \A k \in 1 .. Len(dst) : dst[k] = sent[rd + k]
      BY <1>1 DEF Data, CopiedInv
  <2>4. j \in 1 .. Len(dst) \/ j = Len(dst) + 1
      BY <1>1, <2>1
  <2> QED BY <2>1, <2>2, <2>3, <2>4
<1>6. StoredInv' /\ WrittenInv' /\ DeliveredInv'
    BY <1>1 DEF Data, StoredInv, WrittenInv, DeliveredInv
<1> QED BY <1>5, <1>6 DEF Data

LEMMA ReadPublishData ==
    ASSUME TypeOK, Control, Data, ReadPublish
    PROVE  Data'
<1>1. /\ rpc = "copy" /\ Len(dst) = rn /\ rd' = rd + rn /\ rpc' = "account"
      /\ received' = received \o dst /\ Len(received) = rd
      /\ received \in Seq(Byte) /\ dst \in Seq(Byte)
      /\ rd \in Nat /\ rn \in Nat /\ wr \in Nat
      /\ UNCHANGED <<buf, wr, wpc, wi, src, sent>>
    BY DEF ReadPublish, TypeOK, Control, IndexInv, writeVars
<1>2. /\ \A k \in 1 .. rd : received'[k] = received[k]
      /\ \A j \in 1 .. rn : received'[rd + j] = dst[j]
    BY <1>1, ConcatFacts
<1>3. DeliveredInv'
  <2> SUFFICES ASSUME NEW k \in 1 .. (rd + rn)
               PROVE  received'[k] = sent[k]
      BY <1>1 DEF DeliveredInv
  <2>1. CASE k <= rd
    <3>1. k \in 1 .. rd
        BY <1>1, <2>1
    <3> QED BY <1>2, <3>1 DEF Data, DeliveredInv
  <2>2. CASE k > rd
    <3>1. PICK j \in 1 .. rn : k = rd + j
      <4>1. k - rd \in 1 .. rn /\ k = rd + (k - rd)
          BY <1>1, <2>2
      <4> QED BY <4>1
    <3>2. dst[j] = sent[rd + j]
        BY <1>1 DEF Data, CopiedInv
    <3> QED BY <1>2, <3>1, <3>2
  <2> QED BY <1>1, <2>1, <2>2
<1>4. StoredInv'
  <2>1. \A k \in (rd + rn) .. (wr - 1) : k \in rd .. (wr - 1)
      BY <1>1
  <2> QED BY <1>1, <2>1 DEF Data, StoredInv
<1>5. WrittenInv' /\ CopiedInv'
    BY <1>1 DEF Data, WrittenInv, CopiedInv
<1> QED BY <1>3, <1>4, <1>5 DEF Data

(* Every step. *)
LEMMA DataStep ==
    ASSUME TypeOK, Control, Data, [Next]_vars
    PROVE  Data'
<1> USE DEF Data, StoredInv, WrittenInv, CopiedInv, DeliveredInv,
            ringVars, writeVars, readVars, history
<1>1. ASSUME NEW len \in 1 .. MaxLen, WriteBegin(len) PROVE Data'
  <2>1. wi' = 0 /\ 0 .. (wi' - 1) = {}
      BY <1>1 DEF WriteBegin
  <2> QED BY <1>1, <2>1 DEF WriteBegin
<1>2. CASE WriteCopy
    BY <1>2, WriteCopyData
<1>3. CASE WritePublish
    BY <1>3, WritePublishData
<1>4. CASE WriteAccount
    BY <1>4 DEF WriteAccount
<1>5. ASSUME NEW len \in 1 .. MaxLen, ReadBegin(len) PROVE Data'
  <2>1. dst' = <<>> /\ Len(dst') = 0
      BY <1>5 DEF ReadBegin
  <2> QED BY <1>5, <2>1 DEF ReadBegin
<1>6. CASE ReadCopy
    BY <1>6, ReadCopyData
<1>7. CASE ReadPublish
    BY <1>7, ReadPublishData
<1>8. CASE ReadAccount
    BY <1>8 DEF ReadAccount
<1>9. ASSUME NEW t \in Observers, SizeBegin(t) PROVE Data'
    BY <1>9 DEF SizeBegin
<1>10. CASE SizeEnd
    BY <1>10 DEF SizeEnd
<1>11. CASE UNCHANGED vars
    BY <1>11 DEF vars
<1> QED BY <1>1, <1>2, <1>3, <1>4, <1>5, <1>6, <1>7, <1>8, <1>9, <1>10, <1>11
        DEF Next, Producer, Consumer, Observer

(* Inv is inductive, hence an invariant. *)
THEOREM Invariance == Spec => []Inv
<1>1. Inv /\ [Next]_vars => Inv'
    BY ControlStep, DataStep DEF Inv
<1> QED BY InitInv, <1>1, PTL DEF Spec

-----------------------------------------------------------------------------
(* The properties of ByteRing.tla.                                         *)

(* The state keeps its type; no unsigned difference is ever negative. *)
THEOREM TypeCorrect == Spec => []TypeOK
<1>1. Inv => TypeOK
    BY DEF Inv
<1> QED BY Invariance, <1>1, PTL

(* What is received is the beginning of what was sent, for every capacity, *)
(* every stream and every interleaving of the two memcpy.                  *)
THEOREM FifoCorrect == Spec => []FifoOrder
<1>1. Inv => FifoOrder
    BY DEF Inv, Control, IndexInv, Data, DeliveredInv, FifoOrder
<1> QED BY Invariance, <1>1, PTL

(* The two memcpy never touch the same byte at the same time. *)
THEOREM RaceFree == Spec => []NoSharedSlot
<1>1. Inv => NoSharedSlot
  <2> SUFFICES ASSUME Inv, wpc = "copy", rpc = "copy",
                      NEW i \in wi .. (wn - 1), NEW j \in Len(dst) .. (rn - 1)
               PROVE  SlotOf(wr, wn, i) # SlotOf(rd, rn, j)
      BY DEF NoSharedSlot
  <2>1. /\ rd \in Nat /\ wr \in Nat /\ rn \in Nat /\ rn <= Cap
        /\ i \in 0 .. (wn - 1) /\ j \in 0 .. (rn - 1)
        /\ rd + j \in rd .. (wr - 1)
      BY DEF Inv, TypeOK, Control, IndexInv, ReadInv, WriteInv
  <2>2. SlotOf(wr, wn, i) = Masked(wr + i)
      BY <2>1, WriteSlot DEF Inv
  <2>3. SlotOf(rd, rn, j) = Masked(rd + j)
      BY <2>1, SlotOfIsMod
  <2>4. Masked(wr + i) # Masked(rd + j)
      BY <2>1, WriteAvoidsUnread DEF Inv
  <2> QED BY <2>2, <2>3, <2>4
<1> QED BY Invariance, <1>1, PTL

(* No offered byte is lost without being counted, and the high-water mark  *)
(* covers the real fill.                                                   *)
THEOREM CountersCorrect == Spec => []CountersAreTrue
<1>1. Inv => CountersAreTrue
    BY DEF Inv, Control, IndexInv, CountInv, HighInv, CountersAreTrue
<1> QED BY Invariance, <1>1, PTL

(* size() errs in the safe direction on both ends. *)
THEOREM SizeCorrect == Spec => SizeErrsSafe
<1>1. Inv /\ [Next]_vars =>
        [SizeEnd => /\ size' <= Cap
                    /\ sizer = "producer" => size' >= wr - rd
                    /\ sizer = "consumer" => size' <= wr - rd]_vars
    BY DEF Inv, TypeOK, Control, IndexInv, SizeInv, SizeEnd, Snapshot, Smaller
<1> QED BY Invariance, <1>1, PTL DEF Spec, SizeErrsSafe

(* The ring implements the abstract stream of ByteFifo.tla. *)
THEOREM Refinement == Spec => ImplementsFifo
<1>1. Init => Fifo!FifoInit
    BY DEF Init, Fifo!FifoInit
<1>2. Inv /\ Inv' /\ [Next]_vars => [Fifo!FifoNext]_(Fifo!fifoVars)
  <2> SUFFICES ASSUME Inv, Inv', [Next]_vars
               PROVE  Fifo!FifoNext \/ UNCHANGED <<sent, received>>
      BY DEF Fifo!fifoVars
  <2>1. CASE WritePublish
    <3>1. /\ wpc = "copy" /\ wn \in Nat /\ 1 <= wn /\ wn <= Len(src)
          /\ src \in Seq(Byte) /\ sent \in Seq(Byte) /\ sent' \in Seq(Byte)
          /\ sent' = sent \o SubSeq(src, 1, wn) /\ received' = received
        BY <2>1 DEF WritePublish, Inv, TypeOK, Control, WriteInv
    <3>2. Len(sent') <= Len(received) + Cap
        BY <3>1 DEF Inv, Control, IndexInv
    <3>3. Len(sent) < Len(sent') /\ \A k \in 1 .. Len(sent) : sent'[k] = sent[k]
      <4>1. wn \in 0 .. Len(src)
          BY <3>1
      <4>2. SubSeq(src, 1, wn) \in Seq(Byte) /\ Len(SubSeq(src, 1, wn)) = wn
          BY <3>1, <4>1, PrefixFacts
      <4> QED BY <3>1, <4>2, ConcatFacts
    <3> QED BY <3>1, <3>2, <3>3 DEF Fifo!FifoNext, Fifo!Put
  <2>2. CASE ReadPublish
    <3>1. /\ rpc = "copy" /\ 1 <= Len(dst)
          /\ dst \in Seq(Byte) /\ received \in Seq(Byte) /\ received' \in Seq(Byte)
          /\ received' = received \o dst /\ sent' = sent
        BY <2>2 DEF ReadPublish, Inv, TypeOK, Control, ReadInv
    <3>2. Len(received) < Len(received')
        BY <3>1, ConcatFacts
    <3>3. /\ Len(received') <= Len(sent)
          /\ \A k \in 1 .. Len(received') : received'[k] = sent[k]
        BY <3>1 DEF Inv, Control, IndexInv, Data, DeliveredInv
    <3> QED BY <3>1, <3>2, <3>3 DEF Fifo!FifoNext, Fifo!Get
  <2>3. CASE ~WritePublish /\ ~ReadPublish
      BY <2>3 DEF Next, vars, Producer, Consumer, Observer, WriteBegin, WriteCopy,
                  WriteAccount, ReadBegin, ReadCopy, ReadAccount, SizeBegin, SizeEnd,
                  history
  <2> QED BY <2>1, <2>2, <2>3
<1> QED BY Invariance, <1>1, <1>2, PTL DEF Spec, ImplementsFifo, Fifo!FifoSpec
=============================================================================
