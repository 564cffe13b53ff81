----------------------------- MODULE AudioSlots ------------------------------
(***************************************************************************)
(* The audio slots of aumem.c and the CallAudio object of audio.py that    *)
(* reads and writes through them.  The re thread makes and frees streams;  *)
(* each source stream has a thread of its own, the only consumer of its    *)
(* ring; the Python threads that write and read share one CallAudio.       *)
(* A critical section of g_audio_lock is one step.  The ring is a sequence *)
(* of frames here (ByteRing has its bytes); of the receive direction only  *)
(* the coming and going is kept, and the health counters are left out.     *)
(***************************************************************************)
EXTENDS Integers, Sequences, FiniteSets, FiniteSetsExt

CONSTANTS
    Call,        \* call handles
    NoCall,      \* no call handle: the slot is free
    Mine,        \* the call the CallAudio is of
    Writing,     \* the Python thread that writes and flushes
    Reading,     \* the Python thread that reads, another one or the same
    NSlots,      \* BP_AUDIO_SLOTS
    RingFrames,  \* frames a transmit ring holds
    MaxSources,  \* bound: source streams made in all
    MaxTaps      \* bound: decode filters made in all

ASSUME AudioSlotsAssumption ==
    /\ Mine \in Call /\ NoCall \notin Call
    /\ Cardinality(Writing) = 1 /\ Cardinality(Reading) = 1
    /\ {NSlots, RingFrames, MaxSources} \subseteq Nat \ {0}
    /\ MaxTaps \in Nat

Source == 1 .. MaxSources
Slot == 1 .. NSlots
Python == Writing \cup Reading
Unbound == -1    \* _bound_epoch is None

VARIABLES
    driver,   \* "open", then "tearing" down, then "closed"
    call,     \* each call: "none", "up" (it has a handle), "torn", "closed"
    slot,     \* g_audio_slots: [call, epoch, tx, rx, flush]
    src,      \* each source stream and its thread
    tap,      \* each call's decode filter: "none", "tap" or "bypass"
    taps,     \* history: decode filters made
    bound,    \* CallAudio._bound_epoch
    boundTo,  \* history: the transmit stream up when that epoch was read, or 0
    py        \* each Python thread: [at, epoch, to]

vars == <<driver, call, slot, src, tap, taps, bound, boundTo, py>>
reVars == <<driver, call, tap, taps>>
pyVars == <<bound, boundTo, py>>

FreeSlot == [call |-> NoCall, epoch |-> 0, tx |-> 0, rx |-> FALSE, flush |-> FALSE]

(* A source stream: of call `of`, at some point of its life, its thread at pc *)
(* while run is set.  The history old counts the frames in the ring that were *)
(* there when a flush was last asked for, late those of them sent since.      *)
NoSource == [of |-> NoCall, at |-> "none", run |-> FALSE, pc |-> "done", cached |-> 0,
             ring |-> <<>>, old |-> 0, late |-> 0]

Idle == [at |-> "idle", epoch |-> Unbound, to |-> 0]

Init ==
    /\ driver = "open"
    /\ call = [c \in Call |-> "none"]
    /\ slot = [k \in Slot |-> FreeSlot]
    /\ src = [s \in Source |-> NoSource]
    /\ tap = [c \in Call |-> "none"] /\ taps = 0
    /\ bound = Unbound /\ boundTo = 0
    /\ py = [p \in Python |-> Idle]

-----------------------------------------------------------------------------
(* The slot table, under g_audio_lock.                                     *)

Of(c) == {k \in Slot : slot[k].call = c}

(* slot_find_or_create: the call's own slot, else the lowest free one. *)
SlotFor(c) == IF Of(c) # {} THEN Of(c)
              ELSE IF Of(NoCall) # {} THEN {Min(Of(NoCall))} ELSE {}

(* That slot with some of its fields set. *)
Published(c, k, s) == [slot[k] EXCEPT !.call = c, !.tx = s]

(* Mutant of TxGone: the epoch stays. *)
TxGoneSameEpoch(c, s) ==
    [k \in Slot |->
        IF k \notin Of(c) THEN slot[k]
        ELSE IF slot[k].tx = s THEN [slot[k] EXCEPT !.tx = 0, !.flush = FALSE]
        ELSE slot[k]]

(* Mutant of TxGone: the request to flush stays. *)
TxGoneFlushStays(c, s) ==
    [k \in Slot |->
        IF k \notin Of(c) THEN slot[k]
        ELSE IF slot[k].tx = s THEN [slot[k] EXCEPT !.tx = 0, !.epoch = @ + 1]
        ELSE [slot[k] EXCEPT !.epoch = @ + 1]]

(* slot_unpublish of a source's ring *)
TxGone(c, s) ==
    [k \in Slot |->
        IF k \notin Of(c) THEN slot[k]
        ELSE IF slot[k].tx = s
             THEN [slot[k] EXCEPT !.tx = 0, !.flush = FALSE, !.epoch = @ + 1]
             ELSE [slot[k] EXCEPT !.epoch = @ + 1]]

(* slot_unpublish of a decode filter's ring *)
RxGone(c) ==
    [k \in Slot |-> IF k \in Of(c) THEN [slot[k] EXCEPT !.rx = FALSE, !.epoch = @ + 1]
                                   ELSE slot[k]]

-----------------------------------------------------------------------------
(* The re thread.  It makes and frees one stream at a time.                *)

ReFree == \A s \in Source : src[s].at \in {"none", "live", "freed"}

(* A call gets its handle. *)
CallUp(c) ==
    /\ ReFree /\ driver = "open" /\ call[c] = "none"
    /\ call' = [call EXCEPT ![c] = "up"]
    /\ UNCHANGED <<driver, slot, src, tap, taps, pyVars>>

(* Mutant of CallClosed: the handle goes first, and finds no slot to drop. *)
CallClosedHandleFirst(c) ==
    /\ ReFree /\ driver = "open" /\ call[c] = "up"
    /\ call' = [call EXCEPT ![c] = "closed"]
    /\ UNCHANGED <<driver, slot, src, tap, taps, pyVars>>

(* CALL_CLOSED: the slot goes, whatever streams the call still has, and the *)
(* handle after it.                                                         *)
CallClosed(c) ==
    /\ ReFree /\ driver = "open" /\ call[c] = "up"
    /\ slot' = [k \in Slot |-> IF k \in Of(c) THEN FreeSlot ELSE slot[k]]
    /\ call' = [call EXCEPT ![c] = "closed"]
    /\ UNCHANGED <<driver, src, tap, taps, pyVars>>

(* src_alloc, for a call that has a handle and no source: the thread is     *)
(* started before anybody can reach its ring.                               *)
SrcAlloc(c, s) ==
    /\ ReFree /\ call[c] = "up"
    /\ \A u \in Source : src[u].of = c => src[u].at = "freed"
    /\ src[s].at = "none" /\ \A u \in 1 .. (s - 1) : src[u].at # "none"
    /\ src' = [src EXCEPT ![s] = [NoSource EXCEPT !.of = c, !.at = "starting",
                                                  !.run = TRUE, !.pc = "top"]]
    /\ UNCHANGED <<reVars, slot, pyVars>>

(* src_alloc, published last; without a slot the source is torn down again. *)
SrcPublish(s) ==
    /\ src[s].at = "starting"
    /\ LET c == src[s].of IN
       \/ \E k \in SlotFor(c) :
             /\ slot' = [slot EXCEPT ![k] = Published(c, k, s)]
             /\ src' = [src EXCEPT ![s].at = "live"]
       \/ /\ SlotFor(c) = {}
          /\ slot' = slot
          /\ src' = [src EXCEPT ![s].at = "dropping"]
    /\ UNCHANGED <<reVars, pyVars>>

(* src_destructor: nobody new reaches the ring, *)
SrcDrop(s) ==
    /\ ReFree /\ src[s].at = "live"
    /\ slot' = TxGone(src[s].of, s)
    /\ src' = [src EXCEPT ![s].at = "dropping", ![s].old = 0, ![s].late = 0]
    /\ UNCHANGED <<reVars, pyVars>>

(* the thread is told to stop, *)
SrcStop(s) ==
    /\ src[s].at = "dropping"
    /\ src' = [src EXCEPT ![s].at = "joining", ![s].run = FALSE]
    /\ UNCHANGED <<reVars, slot, pyVars>>

(* and has stopped when the ring is freed. *)
SrcFree(s) ==
    /\ src[s].at = "joining" /\ src[s].pc = "done"
    /\ src' = [src EXCEPT ![s] = [NoSource EXCEPT !.of = src[s].of, !.at = "freed"]]
    /\ UNCHANGED <<reVars, slot, pyVars>>

(* dec_update: a filter that finds no slot lets the audio pass untapped. *)
DecUpdate(c) ==
    /\ ReFree /\ call[c] = "up" /\ tap[c] = "none" /\ taps < MaxTaps
    /\ \/ \E k \in SlotFor(c) :
             /\ slot' = [slot EXCEPT ![k] = [@ EXCEPT !.call = c, !.rx = TRUE]]
             /\ tap' = [tap EXCEPT ![c] = "tap"]
       \/ /\ SlotFor(c) = {}
          /\ slot' = slot
          /\ tap' = [tap EXCEPT ![c] = "bypass"]
    /\ taps' = taps + 1
    /\ UNCHANGED <<driver, call, src, pyVars>>

(* dec_destructor *)
DecFree(c) ==
    /\ ReFree /\ tap[c] # "none"
    /\ slot' = IF tap[c] = "tap" THEN RxGone(c) ELSE slot
    /\ tap' = [tap EXCEPT ![c] = "none"]
    /\ UNCHANGED <<driver, call, src, taps, pyVars>>

(* The loop comes down: the handles go, with no more events, *)
Teardown ==
    /\ ReFree /\ driver = "open"
    /\ driver' = "tearing"
    /\ call' = [c \in Call |-> IF call[c] = "up" THEN "torn" ELSE call[c]]
    /\ UNCHANGED <<slot, src, tap, taps, pyVars>>

(* then the streams, one by one, and last the driver. *)
Unregister ==
    /\ driver = "tearing"
    /\ \A s \in Source : src[s].at \in {"none", "freed"}
    /\ \A c \in Call : tap[c] = "none"
    /\ driver' = "closed"
    /\ slot' = [k \in Slot |-> FreeSlot]
    /\ UNCHANGED <<call, src, tap, taps, pyVars>>

-----------------------------------------------------------------------------
(* The thread of a source, once per frame.                                 *)

Thread(s, changed) ==
    /\ src' = [src EXCEPT ![s] = changed]
    /\ UNCHANGED <<reVars, pyVars>>

(* It goes on while run is set, and looks its slot up until it finds it. *)
Tick(s) ==
    /\ src[s].pc = "top"
    /\ LET r == src[s] IN
       Thread(s, IF ~r.run THEN [r EXCEPT !.pc = "done"]
                 ELSE [r EXCEPT !.pc = "flush?",
                                !.cached = IF @ = 0 /\ Of(r.of) # {} THEN Min(Of(r.of)) ELSE @])
    /\ UNCHANGED slot

(* Mutant of FlushAsked: only a thread with nothing to send looks. *)
FlushAskedIdle(s) ==
    src[s].cached # 0 /\ slot[src[s].cached].flush /\ src[s].ring = <<>>

(* The request as the thread sees it, without the lock. *)
FlushAsked(s) == src[s].cached # 0 /\ slot[src[s].cached].flush

CheckFlush(s) ==
    /\ src[s].pc = "flush?"
    /\ Thread(s, [src[s] EXCEPT !.pc = IF FlushAsked(s) THEN "drain" ELSE "send"])
    /\ UNCHANGED slot

(* The drain, if the ring is the one published in the slot. *)
Drain(s) ==
    /\ src[s].pc = "drain"
    /\ LET r == src[s]
           k == r.cached
       IN  IF slot[k].tx = s
           THEN /\ Thread(s, [r EXCEPT !.pc = "send", !.ring = <<>>, !.old = 0, !.late = 0])
                /\ slot' = [slot EXCEPT ![k].flush = FALSE]
           ELSE Thread(s, [r EXCEPT !.pc = "send"]) /\ UNCHANGED slot

(* A frame goes out: one of the ring's, or silence. *)
Send(s) ==
    /\ src[s].pc = "send"
    /\ LET r == src[s] IN
       Thread(s, IF r.ring = <<>> THEN [r EXCEPT !.pc = "top"]
                 ELSE [r EXCEPT !.pc = "top", !.ring = Tail(@),
                                !.old = IF @ > 0 THEN @ - 1 ELSE @,
                                !.late = IF r.old > 0 THEN @ + 1 ELSE @])
    /\ UNCHANGED slot

-----------------------------------------------------------------------------
(* The Python threads.  _bound_epoch is shared between them.               *)

Goes(p, record) == py' = [py EXCEPT ![p] = record]
Turns(p, where) == Goes(p, [Idle EXCEPT !.at = where])

(* An operation begins: info(), or another, whose _ensure_bound asks        *)
(* whether there is an epoch.  Which other it is shows in Native.           *)
Begin(p) ==
    /\ py[p].at = "idle"
    /\ \/ Turns(p, "probe")
       \/ bound # Unbound /\ Turns(p, "fetch")
    /\ UNCHANGED <<reVars, slot, src, bound, boundTo>>

(* bp_audio_probe *)
Probe(p) ==
    /\ py[p].at = "probe"
    /\ IF driver # "closed" /\ Of(Mine) # {}
       THEN \E k \in Of(Mine) :
               Goes(p, [py[p] EXCEPT !.at = "bind", !.epoch = slot[k].epoch, !.to = slot[k].tx])
       ELSE Turns(p, "unbind")
    /\ UNCHANGED <<reVars, slot, src, bound, boundTo>>

(* What info() has found becomes the binding of both threads. *)
Bind(p) ==
    /\ py[p].at = "bind"
    /\ bound' = py[p].epoch /\ boundTo' = py[p].to
    /\ Goes(p, Idle) \/ Turns(p, "fetch")
    /\ UNCHANGED <<reVars, slot, src>>

(* _ensure_bound returns the epoch, which it reads a second time. *)
Fetch(p) ==
    /\ py[p].at = "fetch"
    /\ Goes(p, [py[p] EXCEPT !.at = "native", !.epoch = bound, !.to = boundTo])
    /\ UNCHANGED <<reVars, slot, src, bound, boundTo>>

(* bp_audio_write, with room in the ring or without. *)
Write(p, k) ==
    LET s == slot[k].tx IN
    IF s # 0 /\ Len(src[s].ring) < RingFrames
    THEN src' = [src EXCEPT ![s].ring = Append(@, py[p].to)]
    ELSE src' = src

(* bp_audio_flush_tx *)
Flush(k) ==
    LET s == slot[k].tx IN
    IF s # 0
    THEN /\ slot' = [slot EXCEPT ![k].flush = TRUE]
         /\ src' = [src EXCEPT ![s].old = Len(src[s].ring),
                               ![s].late = IF slot[k].flush THEN @ ELSE 0]
    ELSE UNCHANGED <<slot, src>>

(* The slot an accessor may use: the call's, with the caller's epoch. *)
Granted(p) ==
    IF driver = "closed" THEN {} ELSE {k \in Of(Mine) : slot[k].epoch = py[p].epoch}

(* The accessor, and what _checked() makes of its answer: a refusal ends    *)
(* the binding.  An epoch that is None never gets there: it is a TypeError. *)
Native(p) ==
    /\ py[p].at = "native"
    /\ CASE py[p].epoch = Unbound -> Goes(p, Idle) /\ UNCHANGED <<slot, src>>
         [] py[p].epoch # Unbound /\ Granted(p) = {} ->
                Turns(p, "unbind") /\ UNCHANGED <<slot, src>>
         [] OTHER ->
                /\ Goes(p, Idle)
                /\ \E k \in Granted(p) :
                      \/ p \in Writing /\ Write(p, k) /\ UNCHANGED slot
                      \/ p \in Writing /\ Flush(k)
                      \/ p \in Reading /\ UNCHANGED <<slot, src>>
    /\ UNCHANGED <<reVars, bound, boundTo>>

(* AudioNotActive or AudioRestarted is raised. *)
Unbind(p) ==
    /\ py[p].at = "unbind"
    /\ bound' = Unbound /\ boundTo' = 0
    /\ Goes(p, Idle)
    /\ UNCHANGED <<reVars, slot, src>>

-----------------------------------------------------------------------------

ReThread ==
    \/ \E c \in Call : CallUp(c) \/ CallClosed(c) \/ DecUpdate(c) \/ DecFree(c)
    \/ \E c \in Call, s \in Source : SrcAlloc(c, s)
    \/ \E s \in Source : SrcPublish(s) \/ SrcDrop(s) \/ SrcStop(s) \/ SrcFree(s)
    \/ Teardown \/ Unregister

SrcThread(s) == Tick(s) \/ CheckFlush(s) \/ Drain(s) \/ Send(s)

PythonThread(p) ==
    \/ Begin(p)
    \/ Probe(p) \/ Bind(p) \/ Fetch(p) \/ Native(p) \/ Unbind(p)

Next ==
    \/ ReThread
    \/ \E s \in Source : SrcThread(s)
    \/ \E p \in Python : PythonThread(p)

Spec == Init /\ [][Next]_vars

-----------------------------------------------------------------------------

(* A frame in a ring: the stream it was written for, if that is known. *)
Frame == {0} \cup Source

SlotType == [call : Call \cup {NoCall}, epoch : Nat, tx : {0} \cup Source,
             rx : BOOLEAN, flush : BOOLEAN]

SourceType == [of : Call \cup {NoCall},
               at : {"none", "starting", "live", "dropping", "joining", "freed"},
               run : BOOLEAN,
               pc : {"top", "flush?", "drain", "send", "done"},
               cached : {0} \cup Slot,
               ring : Seq(Frame), old : Nat, late : Nat]

PythonType == [at : {"idle", "probe", "bind", "fetch", "native", "unbind"},
               epoch : Nat \cup {Unbound}, to : {0} \cup Source]

(* Types; and no ring holds more than it has room for. *)
TypeOK ==
    /\ driver \in {"open", "tearing", "closed"}
    /\ call \in [Call -> {"none", "up", "torn", "closed"}]
    /\ slot \in [Slot -> SlotType]
    /\ src \in [Source -> SourceType]
    /\ \A s \in Source : Len(src[s].ring) <= RingFrames /\ src[s].old <= Len(src[s].ring)
    /\ tap \in [Call -> {"none", "tap", "bypass"}] /\ taps \in 0 .. MaxTaps
    /\ bound \in Nat \cup {Unbound} /\ boundTo \in {0} \cup Source
    /\ py \in [Python -> PythonType]

(* No Python thread reaches a ring that is freed or about to be, nor one of *)
(* another call: whatever a slot holds belongs to a stream of its call that *)
(* is up, and a slot is held by one call only, for no longer than the call. *)
SlotsAreLive ==
    /\ TypeOK
    /\ \A k \in Slot :
        /\ slot[k].tx # 0 => /\ src[slot[k].tx].at = "live"
                             /\ src[slot[k].tx].of = slot[k].call
        /\ slot[k].rx => tap[slot[k].call] = "tap"
        /\ slot[k].call # NoCall => /\ Of(slot[k].call) = {k}
                                    /\ call[slot[k].call] \in {"up", "torn"} \/ driver = "closed"

(* PCM written for one stream never goes out on its successor: a writer     *)
(* that was bound while a stream was up is told AudioRestarted before a     *)
(* byte of its reaches the next one.                                        *)
NoMisdirectedPcm ==
    \A s \in Source : \A i \in 1 .. Len(src[s].ring) : src[s].ring[i] \in {0, s}

(* A flush is prompt: of what was written before it, at most one frame can  *)
(* still reach the wire, as long as its stream is the one in the slot.      *)
FlushIsPrompt == \A k \in Slot : slot[k].tx # 0 => src[slot[k].tx].late <= 1

(* A flush is asked of a stream that can perform it, and never left behind  *)
(* for its successor: the request stands only while the ring it is about is *)
(* in the slot, with a thread that goes on and finds this slot.             *)
FlushIsServed ==
    \A k \in Slot : slot[k].flush =>
        \E s \in Source : slot[k].tx = s /\ src[s].run /\ src[s].cached \in {0, k}

(* A flush discards what was written before it, and not the new audio that  *)
(* a caller resumes with.                                                   *)
FlushSparesTheNew ==
    \A k \in Slot :
        LET s == slot[k].tx IN
        s # 0 => (src[s].pc = "drain" => Len(src[s].ring) = src[s].old)

(* With one reader and one writer, an operation succeeds or raises what it  *)
(* documents: the epoch it hands to the native side is a number.            *)
EpochIsBound == \A p \in Python : py[p].at = "native" => py[p].epoch # Unbound
=============================================================================
