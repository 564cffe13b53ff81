------------------------------ MODULE ByteRing ------------------------------
(***************************************************************************)
(* The lock-free single-producer single-consumer byte ring of              *)
(* _native/ring.c.  One thread writes, one thread reads, and any thread    *)
(* may ask for the size.  Every access to an index another thread owns,    *)
(* every byte copied and every index published is a step of its own, so a  *)
(* write, a read and a size() interleave as their instructions may.        *)
(***************************************************************************)
EXTENDS Integers, Sequences

CONSTANTS Byte,        \* the values a byte of payload can have
          Stream,      \* the bytes the producer has to offer, in order
          Zero,        \* what calloc leaves in the buffer
          Cap,         \* the capacity bp_ring_alloc rounded up to
          MaxLen,      \* bound: the longest transfer a caller asks for
          MaxOffered,  \* bound: the bytes the producer offers in all
          MaxShort     \* bound: the short reads that are counted

ASSUME ByteRingAssumption ==
    /\ Zero \in Byte
    /\ Stream \in [1 .. MaxOffered -> Byte]
    /\ Cap \in Nat \ {0}
    /\ MaxLen \in Nat \ {0}
    /\ MaxOffered \in Nat
    /\ MaxShort \in Nat

Observers == {"producer", "consumer", "other"}

VARIABLES
    buf,        \* the bytes, indexed 0 .. Cap - 1
    wr,         \* free-running write index, stored by the producer only
    rd,         \* free-running read index, stored by the consumer only
    overruns,   \* writes that could not take everything
    dropped,    \* bytes that short writes turned away
    highWater,  \* deepest fill the producer observed
    underruns   \* reads that returned less than asked

(* The write in progress: the producer's program counter, the caller's     *)
(* bytes, the read index it acquired, how many bytes fit, how many are     *)
(* copied.                                                                 *)
VARIABLES wpc, src, wrd, wn, wi

(* The read in progress: the consumer's program counter, how many bytes    *)
(* were asked for, how many are there, and those copied so far.            *)
VARIABLES rpc, asked, rn, dst

(* The size() in progress: the thread that asks, the read index it loaded  *)
(* first, and what the last size() returned.                               *)
VARIABLES sizer, srd, size

VARIABLES
    sent,       \* history: every byte accepted by a finished publish
    received,   \* history: every byte a finished read returned
    offered     \* history: how many bytes the producer ever offered

ringVars == <<buf, wr, rd>>
counterVars == <<overruns, dropped, highWater, underruns>>
writeVars == <<wpc, src, wrd, wn, wi>>
readVars == <<rpc, asked, rn, dst>>
sizeVars == <<sizer, srd, size>>
history == <<sent, received, offered>>
vars == <<ringVars, counterVars, writeVars, readVars, sizeVars, history>>

Smaller(a, b) == IF a <= b THEN a ELSE b

Slots == 0 .. (Cap - 1)

(* Where byte i of an n-byte transfer that starts at index idx lies: the   *)
(* first memcpy runs to the end of the buffer, the second one restarts at  *)
(* its beginning.                                                          *)
SlotOf(idx, n, i) ==
    LET off   == idx % Cap
        first == Smaller(Cap - off, n)
    IN  IF i < first THEN off + i ELSE i - first

Init ==
    /\ buf = [s \in Slots |-> Zero]
    /\ wr = 0 /\ rd = 0
    /\ overruns = 0 /\ dropped = 0 /\ highWater = 0 /\ underruns = 0
    /\ wpc = "idle" /\ src = <<>> /\ wrd = 0 /\ wn = 0 /\ wi = 0
    /\ rpc = "idle" /\ asked = 0 /\ rn = 0 /\ dst = <<>>
    /\ sizer = "nobody" /\ srd = 0 /\ size = 0
    /\ sent = <<>> /\ received = <<>> /\ offered = 0

-----------------------------------------------------------------------------
(* The producer: bp_ring_write.                                            *)

(* Mutant of Space: one byte more than there is. *)
SpaceOffByOne(readIndex) == Cap - (wr - readIndex) + 1

(* The free space as the producer sees it. *)
Space(readIndex) == Cap - (wr - readIndex)

(* The next len bytes the caller has. *)
Offer(len) == [i \in 1 .. len |-> Stream[offered + i]]

(* Acquire-load rd and decide how much of the next len bytes fits. *)
WriteBegin(len) ==
    /\ wpc = "idle" /\ sizer # "producer"
    /\ offered + len <= MaxOffered
    /\ src' = Offer(len)
    /\ wrd' = rd
    /\ wn' = Smaller(len, Space(rd))
    /\ wi' = 0
    /\ wpc' = IF wn' > 0 THEN "copy" ELSE "account"
    /\ offered' = offered + len
    /\ UNCHANGED <<ringVars, counterVars, readVars, sizeVars, sent, received>>

(* Copy the next byte. *)
WriteCopy ==
    /\ wpc = "copy" /\ wi < wn
    /\ buf' = [buf EXCEPT ![SlotOf(wr, wn, wi)] = src[wi + 1]]
    /\ wi' = wi + 1
    /\ UNCHANGED <<wr, rd, counterVars, wpc, src, wrd, wn, readVars, sizeVars, history>>

(* Mutant of WritePublish: wr is stored before the bytes are there. *)
WritePublishEarly ==
    /\ wpc = "copy"
    /\ wr' = wr + wn
    /\ sent' = sent \o SubSeq(src, 1, wn)
    /\ wpc' = "account"
    /\ UNCHANGED <<buf, rd, counterVars, src, wrd, wn, wi, readVars, sizeVars,
                   received, offered>>

(* Release-store wr: the bytes become readable. *)
WritePublish ==
    /\ wpc = "copy" /\ wi = wn
    /\ wr' = wr + wn
    /\ sent' = sent \o SubSeq(src, 1, wn)
    /\ wpc' = "account"
    /\ UNCHANGED <<buf, rd, counterVars, src, wrd, wn, wi, readVars, sizeVars,
                   received, offered>>

(* The bytes a write turned away. *)
Short(len, n) == len - n

(* Mutant of FillAfter: measured before the write. *)
FillBefore(readIndex) == wr - wn - readIndex

(* The fill the producer observes after its write. *)
FillAfter(readIndex) == wr - readIndex

(* Update the producer's counters and return; src and the locals are dead  *)
(* from here on and forgotten.                                             *)
WriteAccount ==
    /\ wpc = "account"
    /\ highWater' = IF wn > 0 /\ FillAfter(wrd) > highWater
                    THEN FillAfter(wrd) ELSE highWater
    /\ overruns' = IF Short(Len(src), wn) > 0 THEN overruns + 1 ELSE overruns
    /\ dropped' = dropped + Short(Len(src), wn)
    /\ wpc' = "idle" /\ src' = <<>> /\ wrd' = 0 /\ wn' = 0 /\ wi' = 0
    /\ UNCHANGED <<ringVars, underruns, readVars, sizeVars, history>>

-----------------------------------------------------------------------------
(* The consumer: bp_ring_read.                                             *)

(* How much of len the consumer finds. *)
Readable(len) == Smaller(len, wr - rd)

(* Acquire-load wr and decide how much is there. *)
ReadBegin(len) ==
    /\ rpc = "idle" /\ sizer # "consumer"
    /\ asked' = len
    /\ rn' = Readable(len)
    /\ rpc' = IF rn' > 0 THEN "copy" ELSE "account"
    /\ dst' = <<>>
    /\ UNCHANGED <<ringVars, counterVars, writeVars, sizeVars, history>>

(* Copy the next byte out. *)
ReadCopy ==
    /\ rpc = "copy" /\ Len(dst) < rn
    /\ dst' = Append(dst, buf[SlotOf(rd, rn, Len(dst))])
    /\ UNCHANGED <<ringVars, counterVars, writeVars, rpc, asked, rn, sizeVars, history>>

(* Release-store rd: the space may be written again. *)
ReadPublish ==
    /\ rpc = "copy" /\ Len(dst) = rn
    /\ rd' = rd + rn
    /\ received' = received \o dst
    /\ rpc' = "account"
    /\ UNCHANGED <<buf, wr, counterVars, writeVars, asked, rn, dst, sizeVars,
                   sent, offered>>

(* Count a short read and return. *)
ReadAccount ==
    /\ rpc = "account"
    /\ \/ rn = asked /\ UNCHANGED underruns
       \/ rn < asked /\ underruns < MaxShort /\ underruns' = underruns + 1
    /\ rpc' = "idle" /\ asked' = 0 /\ rn' = 0 /\ dst' = <<>>
    /\ UNCHANGED <<ringVars, overruns, dropped, highWater, writeVars, sizeVars, history>>

-----------------------------------------------------------------------------
(* bp_ring_size, on the producer's thread, the consumer's or a third one.  *)

(* The first load is rd.  The producer and the consumer ask between two    *)
(* transfers of their own. *)
SizeBegin(t) ==
    /\ sizer = "nobody"
    /\ t = "producer" => wpc = "idle"
    /\ t = "consumer" => rpc = "idle"
    /\ sizer' = t /\ srd' = rd
    /\ UNCHANGED <<ringVars, counterVars, writeVars, readVars, size, history>>

(* Mutant of Snapshot: no clamp. *)
SnapshotRaw(readIndex) == wr - readIndex

(* The second load is wr; the difference is clamped to the capacity. *)
Snapshot(readIndex) == Smaller(wr - readIndex, Cap)

SizeEnd ==
    /\ sizer # "nobody"
    /\ size' = Snapshot(srd)
    /\ sizer' = "nobody" /\ srd' = 0
    /\ UNCHANGED <<ringVars, counterVars, writeVars, readVars, history>>

-----------------------------------------------------------------------------

Producer == (\E len \in 1 .. MaxLen : WriteBegin(len)) \/ WriteCopy \/ WritePublish
                \/ WriteAccount
Consumer == (\E len \in 1 .. MaxLen : ReadBegin(len)) \/ ReadCopy \/ ReadPublish
                \/ ReadAccount
Observer == (\E t \in Observers : SizeBegin(t)) \/ SizeEnd

Next == Producer \/ Consumer \/ Observer

Spec == Init /\ [][Next]_vars

-----------------------------------------------------------------------------

(* The state of the ring, of both transfers and of the history has its     *)
(* type: in particular the unsigned differences of bp_ring_write and       *)
(* bp_ring_read are never negative.                                        *)
TypeOK ==
    /\ buf \in [Slots -> Byte] /\ wr \in Nat /\ rd \in Nat
    /\ overruns \in Nat /\ dropped \in Nat /\ highWater \in Nat /\ underruns \in Nat
    /\ wpc \in {"idle", "copy", "account"} /\ src \in Seq(Byte)
    /\ wrd \in Nat /\ wn \in Nat /\ wi \in Nat
    /\ rpc \in {"idle", "copy", "account"} /\ dst \in Seq(Byte)
    /\ asked \in Nat /\ rn \in Nat
    /\ sizer \in Observers \cup {"nobody"} /\ srd \in Nat /\ size \in Nat
    /\ sent \in Seq(Byte) /\ received \in Seq(Byte) /\ offered \in Nat

(* What the consumer has received is exactly the beginning of what the     *)
(* producer got accepted: nothing lost, repeated, reordered or torn across *)
(* the wrap of the buffer (the two memcpy of bp_ring_write and             *)
(* bp_ring_read).                                                          *)
FifoOrder ==
    /\ Len(received) <= Len(sent)
    /\ \A k \in 1 .. Len(received) : received[k] = sent[k]

(* No byte is written while the consumer is still due to read it: a write  *)
(* and a read in progress never touch the same slot, so the plain memcpy   *)
(* on both sides is free of data races.                                    *)
NoSharedSlot ==
    (wpc = "copy" /\ rpc = "copy") =>
        \A i \in wi .. (wn - 1), j \in Len(dst) .. (rn - 1) :
            SlotOf(wr, wn, i) # SlotOf(rd, rn, j)

(* What the counters say is so.  Between two writes, every byte the        *)
(* producer ever offered is either in the stream or counted in dropped,    *)
(* never both and never neither.  Outside the window between publishing wr *)
(* and updating the counter, high_water is at least the real fill,         *)
(* although it is computed from a read index that may be stale; and it     *)
(* never exceeds the capacity.                                             *)
CountersAreTrue ==
    /\ wpc = "idle" => offered = Len(sent) + dropped
    /\ highWater <= Cap
    /\ wpc # "account" => highWater >= wr - rd

(* size() errs in the safe direction: asked on the producer's thread it    *)
(* never understates the fill (no more free space than exists), on the     *)
(* consumer's it never overstates it (no more bytes than are readable),    *)
(* and anywhere it stays within the capacity.                              *)
SizeErrsSafe ==
    [][SizeEnd => /\ size' <= Cap
                  /\ sizer = "producer" => size' >= wr - rd
                  /\ sizer = "consumer" => size' <= wr - rd]_vars

(* The abstract stream of ByteFifo.tla this ring implements. *)
Fifo == INSTANCE ByteFifo WITH put <- sent, got <- received

(* The ring is a bounded first-in first-out stream, as ring.h promises: a  *)
(* write appends what fits, a read takes the next bytes, nothing else      *)
(* changes the stream.                                                     *)
ImplementsFifo == Fifo!FifoSpec
=============================================================================
