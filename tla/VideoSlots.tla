----------------------------- MODULE VideoSlots ------------------------------
(***************************************************************************)
(* The video slots of vidmem.c and the CallVideo object of video.py.       *)
(* Pictures go through rings of whole frames: a source's pacing thread     *)
(* reads its ring without the lock while Python fills it under the lock,   *)
(* and the decode filter fills its ring without the lock while Python      *)
(* reads it under the lock.  A copy of a frame is therefore two steps, its *)
(* begin and its end; every other critical section is one.  Frames have    *)
(* the configured size, or are too large for it and dropped, whose count   *)
(* and that of frames refused are left out.                                *)
(***************************************************************************)
EXTENDS Integers, FiniteSets, FiniteSetsExt

CONSTANTS
    Call,        \* call handles
    NoCall,      \* no call handle: the slot is free
    Mine,        \* the call the CallVideo is of
    Writing,     \* the Python thread that writes frames
    Reading,     \* the Python thread that reads frames, another one or the same
    Nobody,      \* no Python thread: g_video_lock is free
    NSlots,      \* BP_VIDEO_SLOTS
    NRing,       \* BP_VIDEO_RING_SLOTS
    Trigger,     \* BP_VIDEO_CLAMP_TRIGGER
    MaxSources,  \* bound: source instances made in all
    MaxTaps,     \* bound: decode filters made in all
    MaxFrames    \* bound: frames put into one ring

ASSUME VideoSlotsAssumption ==
    /\ Mine \in Call /\ NoCall \notin Call
    /\ Cardinality(Writing) = 1 /\ Cardinality(Reading) = 1
    /\ Nobody \notin Writing \cup Reading
    /\ {NSlots, NRing, MaxSources} \subseteq Nat \ {0}
    /\ {Trigger, MaxTaps, MaxFrames} \subseteq Nat

Source == 1 .. MaxSources
Tap == 1 .. MaxTaps
Slot == 1 .. NSlots
Python == Writing \cup Reading
Unbound == -1    \* _bound_epoch is None
NoFrame == -1    \* nothing is being copied out of a ring

VARIABLES
    driver,   \* "open", then "tearing" down, then "closed"
    call,     \* each call: "none", "up", "pinned" (established), "torn", "closed"
    slot,     \* g_video_slots
    src,      \* each source and its pacing thread
    tap,      \* each decode filter
    lock,     \* who copies a frame under g_video_lock, or Nobody
    bound,    \* CallVideo._bound_epoch
    boundTo,  \* history: the source in the slot when that epoch was read, or 0
    py        \* each Python thread: where it is, the epoch it uses, the source
              \* it was bound to (history), and the stream whose ring it copies

vars == <<driver, call, slot, src, tap, lock, bound, boundTo, py>>
pyVars == <<lock, bound, boundTo, py>>

FreeSlot == [call |-> NoCall, epoch |-> 0, tx |-> 0, rx |-> 0,
             sent |-> 0, skipped |-> 0, got |-> 0]

(* A ring: its indexes, and what the producer and the consumer copy just now. *)
EmptyRing == [wr |-> 0, rd |-> 0, filling |-> FALSE, copying |-> NoFrame]

NoSource == [of |-> NoCall, at |-> "none", run |-> FALSE, pc |-> "done", passed |-> 0,
             ring |-> EmptyRing]
NoTap == [of |-> NoCall, at |-> "none", pc |-> "idle", ring |-> EmptyRing]

Idle == [at |-> "idle", epoch |-> Unbound, to |-> 0, ring |-> 0]

Init ==
    /\ driver = "open"
    /\ call = [c \in Call |-> "none"]
    /\ slot = [k \in Slot |-> FreeSlot]
    /\ src = [s \in Source |-> NoSource]
    /\ tap = [d \in Tap |-> NoTap]
    /\ lock = Nobody
    /\ bound = Unbound /\ boundTo = 0
    /\ py = [p \in Python |-> Idle]

-----------------------------------------------------------------------------
(* The ring of frames.                                                     *)

Place(n) == n % NRing

(* Mutant of HasRoom: one frame more. *)
HasRoomOneMore(r) == r.wr - r.rd <= NRing

(* vring_write: there is a free place, and its copy begins, *)
HasRoom(r) == r.wr - r.rd < NRing

BeginFill(r) == [r EXCEPT !.filling = TRUE]

(* and the frame is published. *)
EndFill(r) == [r EXCEPT !.filling = FALSE, !.wr = @ + 1]

(* vring_read: the frame to take, *)
Newest(r) == r.wr - 1

Clamped(r) == IF r.wr - r.rd > Trigger THEN Newest(r) ELSE r.rd

(* whose copy begins; *)
BeginTake(r, n) == [r EXCEPT !.copying = n]

(* it and those skipped are gone. *)
EndTake(r) == [r EXCEPT !.rd = r.copying + 1, !.copying = NoFrame]

-----------------------------------------------------------------------------
(* The slot table, under g_video_lock.                                     *)

Unlocked == lock = Nobody

Of(c) == {k \in Slot : slot[k].call = c}

(* slot_find_or_create: the call's own slot, else the lowest free one. *)
SlotFor(c) == IF Of(c) # {} THEN Of(c)
              ELSE IF Of(NoCall) # {} THEN {Min(Of(NoCall))} ELSE {}

(* Mutant of Unpublished: the epoch stays. *)
UnpublishedSameEpoch(c, s, d) ==
    [k \in Slot |->
        IF k \notin Of(c) THEN slot[k]
        ELSE [slot[k] EXCEPT !.tx = IF @ = s THEN 0 ELSE @, !.rx = IF @ = d THEN 0 ELSE @]]

(* Mutant of Unpublished: the counters of a ring outlive it. *)
UnpublishedCountersStay(c, s, d) ==
    [k \in Slot |->
        IF k \notin Of(c) THEN slot[k]
        ELSE [slot[k] EXCEPT !.epoch = @ + 1,
                             !.tx = IF @ = s THEN 0 ELSE @,
                             !.rx = IF @ = d THEN 0 ELSE @]]

(* slot_unpublish of the ring of source s or of filter d (the other is 0, *)
(* which stands for a ring no slot has).                                   *)
Unpublished(c, s, d) ==
    [k \in Slot |->
        IF k \notin Of(c) THEN slot[k]
        ELSE LET r == slot[k] IN
             [r EXCEPT !.epoch = @ + 1,
                       !.tx = IF @ = s THEN 0 ELSE @,
                       !.sent = IF r.tx = s THEN 0 ELSE @,
                       !.skipped = IF r.tx = s THEN 0 ELSE @,
                       !.rx = IF @ = d THEN 0 ELSE @,
                       !.got = IF r.rx = d THEN 0 ELSE @]]

NoRing == -1    \* a ring no slot has

-----------------------------------------------------------------------------
(* The re thread.  It does one thing at a time.                            *)

ReFree ==
    /\ \A s \in Source : src[s].at \in {"none", "inert", "live", "freed"}
    /\ \A d \in Tap : tap[d].pc = "idle"

HasHandle(c) == call[c] \in {"up", "pinned"}

(* The next instance, of a call. *)
NextSource(s) == src[s].at = "none" /\ \A u \in 1 .. (s - 1) : src[u].at # "none"
NextTap(d) == tap[d].at = "none" /\ \A u \in 1 .. (d - 1) : tap[u].at # "none"

(* A live source: its thread runs before anybody can reach its ring. *)
Started(c) == [NoSource EXCEPT !.of = c, !.at = "starting", !.run = TRUE, !.pc = "top"]

(* A call gets its handle. *)
CallUp(c) ==
    /\ ReFree /\ driver = "open" /\ call[c] = "none"
    /\ call' = [call EXCEPT ![c] = "up"]
    /\ UNCHANGED <<driver, slot, src, tap, pyVars>>

(* vsrc_alloc: under the default device of the time before the call is      *)
(* established an inert instance, under its handle a live one.              *)
SrcAlloc(c, s) ==
    /\ ReFree /\ HasHandle(c) /\ NextSource(s)
    /\ \A u \in Source : src[u].of = c => src[u].at = "freed"
    /\ src' = [src EXCEPT ![s] = IF call[c] = "pinned" THEN Started(c)
                                 ELSE [NoSource EXCEPT !.of = c, !.at = "inert"]]
    /\ UNCHANGED <<driver, call, slot, tap, pyVars>>

(* bp_vidmem_call_established: the device is pinned, and a call that sends  *)
(* video has its instance, if any, exchanged for a live one.                *)
Established(c) ==
    /\ ReFree /\ driver = "open" /\ call[c] = "up"
    /\ call' = [call EXCEPT ![c] = "pinned"]
    /\ \/ src' = src
       \/ \E s \in Source :
             /\ NextSource(s)
             /\ src' = [u \in Source |->
                          IF u = s THEN Started(c)
                          ELSE IF src[u].of = c /\ src[u].at = "inert"
                               THEN [NoSource EXCEPT !.of = c, !.at = "freed"]
                               ELSE src[u]]
    /\ UNCHANGED <<driver, slot, tap, pyVars>>

(* vsrc_alloc, published last; without a slot the source is torn down again. *)
SrcPublish(s) ==
    /\ src[s].at = "starting" /\ Unlocked
    /\ LET c == src[s].of IN
       \/ \E k \in SlotFor(c) :
             /\ slot' = [slot EXCEPT ![k].call = c, ![k].tx = s]
             /\ src' = [src EXCEPT ![s].at = "live"]
       \/ /\ SlotFor(c) = {}
          /\ slot' = slot
          /\ src' = [src EXCEPT ![s].at = "dropping"]
    /\ UNCHANGED <<driver, call, tap, pyVars>>

(* Mutant of SrcDrop: the lock is not waited for. *)
SrcDropAtOnce(s) ==
    /\ ReFree /\ src[s].at = "live"
    /\ slot' = Unpublished(src[s].of, s, NoRing)
    /\ src' = [src EXCEPT ![s].at = "dropping"]
    /\ UNCHANGED <<driver, call, tap, pyVars>>

(* vsrc_destructor: nobody new reaches the ring, *)
SrcDrop(s) ==
    /\ ReFree /\ src[s].at = "live" /\ Unlocked
    /\ slot' = Unpublished(src[s].of, s, NoRing)
    /\ src' = [src EXCEPT ![s].at = "dropping"]
    /\ UNCHANGED <<driver, call, tap, pyVars>>

(* the thread is told to stop, *)
SrcStop(s) ==
    /\ src[s].at = "dropping"
    /\ src' = [src EXCEPT ![s].at = "joining", ![s].run = FALSE]
    /\ UNCHANGED <<driver, call, slot, tap, pyVars>>

(* and has stopped when the ring is freed. *)
SrcFree(s) ==
    /\ \/ src[s].at = "joining" /\ src[s].pc = "done"
       \/ ReFree /\ src[s].at = "inert"
    /\ src' = [src EXCEPT ![s] = [NoSource EXCEPT !.of = src[s].of, !.at = "freed"]]
    /\ UNCHANGED <<driver, call, slot, tap, pyVars>>

(* vdec_update, before or after the call has its handle: the filter of a    *)
(* call that has none yet.                                                  *)
DecUpdate(c, d) ==
    /\ ReFree /\ call[c] \in {"none", "up", "pinned"} /\ driver = "open" /\ NextTap(d)
    /\ \A u \in Tap : tap[u].of = c => tap[u].at = "freed"
    /\ tap' = [tap EXCEPT ![d] = [NoTap EXCEPT !.of = c, !.at = "attached"]]
    /\ UNCHANGED <<driver, call, slot, src, pyVars>>

(* vdec_publish: the first frame of a call with a handle brings the ring    *)
(* into the call's slot; a filter that finds none lets the video pass.      *)
DecPublish(d) ==
    /\ ReFree /\ tap[d].at = "attached" /\ HasHandle(tap[d].of) /\ Unlocked
    /\ LET c == tap[d].of IN
       \/ \E k \in SlotFor(c) :
             /\ slot' = [slot EXCEPT ![k].call = c, ![k].rx = d]
             /\ tap' = [tap EXCEPT ![d].at = "published", ![d].pc = "write"]
       \/ /\ SlotFor(c) = {}
          /\ slot' = slot
          /\ tap' = [tap EXCEPT ![d].at = "bypass"]
    /\ UNCHANGED <<driver, call, src, pyVars>>

(* A later frame. *)
DecFrame(d) ==
    /\ ReFree /\ tap[d].at = "published"
    /\ tap' = [tap EXCEPT ![d].pc = "write"]
    /\ UNCHANGED <<driver, call, slot, src, pyVars>>

(* vring_write without the lock: too large, no room for it, or copied in. *)
DecWrite(d) ==
    /\ tap[d].pc = "write"
    /\ LET r == tap[d].ring IN
       \/ tap' = [tap EXCEPT ![d].pc = "idle"]
       \/ /\ HasRoom(r) /\ r.wr < MaxFrames
          /\ tap' = [tap EXCEPT ![d].pc = "fill", ![d].ring = BeginFill(r)]
    /\ UNCHANGED <<driver, call, slot, src, pyVars>>

DecFilled(d) ==
    /\ tap[d].pc = "fill"
    /\ tap' = [tap EXCEPT ![d].pc = "count", ![d].ring = EndFill(@)]
    /\ UNCHANGED <<driver, call, slot, src, pyVars>>

(* The count of the frame, in whatever slot the call has. *)
DecCount(d) ==
    /\ tap[d].pc = "count" /\ Unlocked
    /\ slot' = [k \in Slot |-> IF k \notin Of(tap[d].of) THEN slot[k]
                               ELSE [slot[k] EXCEPT !.got = @ + 1]]
    /\ tap' = [tap EXCEPT ![d].pc = "idle"]
    /\ UNCHANGED <<driver, call, src, pyVars>>

(* vdec_destructor: a filter that was never published has no call handle. *)
DecFree(d) ==
    /\ ReFree /\ tap[d].at \in {"attached", "published", "bypass"}
    /\ IF tap[d].at = "published"
       THEN Unlocked /\ slot' = Unpublished(tap[d].of, NoRing, d)
       ELSE slot' = slot
    /\ tap' = [tap EXCEPT ![d] = [NoTap EXCEPT !.of = tap[d].of, !.at = "freed"]]
    /\ UNCHANGED <<driver, call, src, pyVars>>

(* CALL_CLOSED: the slot goes, whatever streams the call still has, and the *)
(* handle after it (bp_vidmem_slot_drop).                                   *)
CallClosed(c) ==
    /\ ReFree /\ driver = "open" /\ HasHandle(c) /\ Unlocked
    /\ slot' = [k \in Slot |-> IF k \in Of(c) THEN FreeSlot ELSE slot[k]]
    /\ call' = [call EXCEPT ![c] = "closed"]
    /\ UNCHANGED <<driver, src, tap, pyVars>>

(* The loop comes down: the handles go, with no more events, *)
Teardown ==
    /\ ReFree /\ driver = "open"
    /\ driver' = "tearing"
    /\ call' = [c \in Call |-> IF HasHandle(c) THEN "torn" ELSE call[c]]
    /\ UNCHANGED <<slot, src, tap, pyVars>>

(* then the streams, one by one, and last the driver (bp_vidmem_unregister). *)
Unregister ==
    /\ driver = "tearing" /\ Unlocked
    /\ \A s \in Source : src[s].at \in {"none", "freed"}
    /\ \A d \in Tap : tap[d].at \in {"none", "freed"}
    /\ driver' = "closed"
    /\ slot' = [k \in Slot |-> FreeSlot]
    /\ UNCHANGED <<call, src, tap, pyVars>>

-----------------------------------------------------------------------------
(* The pacing thread of a source (vsrc_thread).                            *)

Thread(s, changed) ==
    /\ src' = [src EXCEPT ![s] = changed]
    /\ UNCHANGED <<driver, call, tap, pyVars>>

(* At each tick it takes the newest frame, if there is a new one, *)
Tick(s) ==
    /\ src[s].pc = "top" /\ src[s].run /\ src[s].ring.wr > src[s].ring.rd
    /\ LET r == src[s].ring IN
       Thread(s, [src[s] EXCEPT !.pc = "copy", !.passed = Newest(r) - r.rd,
                                !.ring = BeginTake(r, Newest(r))])
    /\ UNCHANGED slot

(* hands it to the encoder, *)
Push(s) ==
    /\ src[s].pc = "copy"
    /\ Thread(s, [src[s] EXCEPT !.pc = "count", !.ring = EndTake(@)])
    /\ UNCHANGED slot

(* and counts it, in whatever slot its call has by then. *)
Count(s) ==
    /\ src[s].pc = "count" /\ Unlocked
    /\ slot' = [k \in Slot |-> IF k \notin Of(src[s].of) THEN slot[k]
                               ELSE [slot[k] EXCEPT !.sent = @ + 1,
                                                    !.skipped = @ + src[s].passed]]
    /\ Thread(s, [src[s] EXCEPT !.pc = "top", !.passed = 0])

Quit(s) ==
    /\ src[s].pc = "top" /\ ~src[s].run
    /\ Thread(s, [src[s] EXCEPT !.pc = "done"])
    /\ UNCHANGED slot

-----------------------------------------------------------------------------
(* The Python threads.  _bound_epoch is shared between them.               *)

Goes(p, record) == py' = [py EXCEPT ![p] = record]
Turns(p, where) == Goes(p, [Idle EXCEPT !.at = where])
streamVars == <<driver, call, slot, src, tap>>

(* info(), or a read or write, whose _ensure_bound asks whether there is an *)
(* epoch.                                                                   *)
Begin(p) ==
    /\ py[p].at = "idle"
    /\ \/ Turns(p, "probe")
       \/ bound # Unbound /\ Turns(p, "fetch")
    /\ UNCHANGED <<streamVars, lock, bound, boundTo>>

(* bp_video_probe *)
Probe(p) ==
    /\ py[p].at = "probe" /\ Unlocked
    /\ IF driver # "closed" /\ Of(Mine) # {}
       THEN \E k \in Of(Mine) :
               Goes(p, [py[p] EXCEPT !.at = "bind", !.epoch = slot[k].epoch, !.to = slot[k].tx])
       ELSE Turns(p, "unbind")
    /\ UNCHANGED <<streamVars, lock, bound, boundTo>>

(* What info() has found becomes the binding of both threads. *)
Bind(p) ==
    /\ py[p].at = "bind"
    /\ bound' = py[p].epoch /\ boundTo' = py[p].to
    /\ Goes(p, Idle) \/ Turns(p, "fetch")
    /\ UNCHANGED <<streamVars, lock>>

(* _ensure_bound returns the epoch, which it reads a second time: None, if  *)
(* the other thread was refused meanwhile, is a TypeError.                  *)
Fetch(p) ==
    /\ py[p].at = "fetch"
    /\ IF bound = Unbound THEN Goes(p, Idle)
       ELSE Goes(p, [py[p] EXCEPT !.at = "native", !.epoch = bound, !.to = boundTo])
    /\ UNCHANGED <<streamVars, lock, bound, boundTo>>

(* The slot an accessor may use: the call's, with the caller's epoch. *)
Granted(p) ==
    IF driver = "closed" THEN {} ELSE {k \in Of(Mine) : slot[k].epoch = py[p].epoch}

(* bp_video_write: a frame is taken if there is a ring with room for it, *)
WriteFrame(p, k) ==
    LET s == slot[k].tx IN
    IF s # 0 /\ HasRoom(src[s].ring) /\ src[s].ring.wr < MaxFrames
    THEN /\ src' = [src EXCEPT ![s].ring = BeginFill(@)]
         /\ lock' = p /\ Goes(p, [Idle EXCEPT !.at = "filling", !.to = py[p].to, !.ring = s])
         /\ UNCHANGED tap
    ELSE Goes(p, Idle) /\ UNCHANGED <<src, tap, lock>>

(* bp_video_read: the next frame, or the newest for a reader that is behind, *)
ReadFrame(p, k) ==
    LET d == slot[k].rx IN
    IF d # 0 /\ tap[d].ring.wr > tap[d].ring.rd
    THEN /\ tap' = [tap EXCEPT ![d].ring = BeginTake(@, Clamped(@))]
         /\ lock' = p /\ Goes(p, [Idle EXCEPT !.at = "copying", !.ring = d])
         /\ UNCHANGED src
    ELSE Goes(p, Idle) /\ UNCHANGED <<src, tap, lock>>

(* or _checked() turns the refusal into VideoRestarted or VideoNotActive. *)
Native(p) ==
    /\ py[p].at = "native" /\ Unlocked
    /\ \/ /\ Granted(p) = {}
          /\ Turns(p, "unbind") /\ UNCHANGED <<src, tap, lock>>
       \/ \E k \in Granted(p) : \/ p \in Writing /\ WriteFrame(p, k)
                                \/ p \in Reading /\ ReadFrame(p, k)
    /\ UNCHANGED <<driver, call, slot, bound, boundTo>>

(* The copy ends, and the lock is released. *)
EndWrite(p) ==
    /\ py[p].at = "filling"
    /\ src' = [src EXCEPT ![py[p].ring].ring = EndFill(@)]
    /\ lock' = Nobody /\ Goes(p, Idle)
    /\ UNCHANGED <<driver, call, slot, tap, bound, boundTo>>

EndRead(p) ==
    /\ py[p].at = "copying"
    /\ tap' = [tap EXCEPT ![py[p].ring].ring = EndTake(@)]
    /\ lock' = Nobody /\ Goes(p, Idle)
    /\ UNCHANGED <<driver, call, slot, src, bound, boundTo>>

(* The binding ends with the exception. *)
Unbind(p) ==
    /\ py[p].at = "unbind"
    /\ bound' = Unbound /\ boundTo' = 0
    /\ Goes(p, Idle)
    /\ UNCHANGED <<streamVars, lock>>

-----------------------------------------------------------------------------

ReThread ==
    \/ \E c \in Call : CallUp(c) \/ Established(c) \/ CallClosed(c)
    \/ \E c \in Call, s \in Source : SrcAlloc(c, s)
    \/ \E s \in Source : SrcPublish(s) \/ SrcDrop(s) \/ SrcStop(s) \/ SrcFree(s)
    \/ \E c \in Call, d \in Tap : DecUpdate(c, d)
    \/ \E d \in Tap : \/ DecPublish(d) \/ DecFrame(d) \/ DecWrite(d) \/ DecFilled(d)
                      \/ DecCount(d) \/ DecFree(d)
    \/ Teardown \/ Unregister

SrcThread(s) == Tick(s) \/ Push(s) \/ Count(s) \/ Quit(s)

PythonThread(p) ==
    \/ Begin(p) \/ Probe(p) \/ Bind(p) \/ Fetch(p)
    \/ Native(p) \/ EndWrite(p) \/ EndRead(p) \/ Unbind(p)

Next ==
    \/ ReThread
    \/ \E s \in Source : SrcThread(s)
    \/ \E p \in Python : PythonThread(p)

Spec == Init /\ [][Next]_vars

-----------------------------------------------------------------------------

Rings == {src[s].ring : s \in Source} \cup {tap[d].ring : d \in Tap}

SlotType == [call : Call \cup {NoCall}, epoch : Nat, tx : {0} \cup Source, rx : {0} \cup Tap,
             sent : Nat, skipped : Nat, got : Nat]

RingType == [wr : Nat, rd : Nat, filling : BOOLEAN, copying : Nat \cup {NoFrame}]

SourceType == [of : Call \cup {NoCall},
               at : {"none", "inert", "starting", "live", "dropping", "joining", "freed"},
               run : BOOLEAN, pc : {"top", "copy", "count", "done"},
               passed : Nat, ring : RingType]

TapType == [of : Call \cup {NoCall},
            at : {"none", "attached", "published", "bypass", "freed"},
            pc : {"idle", "write", "fill", "count"}, ring : RingType]

PythonType == [at : {"idle", "probe", "bind", "fetch", "native", "filling", "copying", "unbind"},
               epoch : Nat \cup {Unbound}, to : {0} \cup Source,
               ring : {0} \cup Source \cup Tap]

(* Types; and no ring holds more than its places. *)
TypeOK ==
    /\ driver \in {"open", "tearing", "closed"}
    /\ call \in [Call -> {"none", "up", "pinned", "torn", "closed"}]
    /\ slot \in [Slot -> SlotType]
    /\ src \in [Source -> SourceType]
    /\ tap \in [Tap -> TapType]
    /\ \A r \in Rings : r.rd <= r.wr /\ r.wr - r.rd <= NRing
    /\ lock \in Python \cup {Nobody}
    /\ bound \in Nat \cup {Unbound} /\ boundTo \in {0} \cup Source
    /\ py \in [Python -> PythonType]

(* No Python thread reaches, or is still copying through, a ring that is    *)
(* freed or about to be, nor one of another call: what a slot holds belongs *)
(* to a stream of its call that is up, and a copy under the lock is of a    *)
(* stream that is up.                                                       *)
SlotsAreLive ==
    /\ TypeOK
    /\ \A k \in Slot :
        /\ slot[k].tx # 0 => src[slot[k].tx].at = "live" /\ src[slot[k].tx].of = slot[k].call
        /\ slot[k].rx # 0 => tap[slot[k].rx].at = "published" /\ tap[slot[k].rx].of = slot[k].call
        /\ slot[k].call # NoCall => /\ Of(slot[k].call) = {k}
                                    /\ call[slot[k].call] \in {"up", "pinned", "torn"}
                                       \/ driver = "closed"
    /\ \A p \in Python :
        /\ py[p].at = "filling" => src[py[p].ring].at = "live"
        /\ py[p].at = "copying" => tap[py[p].ring].at = "published"

(* A frame is never torn: a producer and a consumer that copy at the same   *)
(* time, one of them without the lock, are never in the same place, though  *)
(* the consumer may jump to the newest frame.                               *)
NoTornFrame ==
    \A r \in Rings :
        r.copying # NoFrame =>
            /\ r.rd <= r.copying /\ r.copying < r.wr
            /\ r.filling => Place(r.copying) # Place(r.wr)

(* A frame written for one source never goes out on its successor: a writer *)
(* that was bound while a source was in the slot is told VideoRestarted     *)
(* before a frame of its reaches the next one.                              *)
NoMisdirectedFrame ==
    \A p \in Python : py[p].at = "filling" => py[p].to \in {0, py[p].ring}

(* What info() counts of a source in its slot: between two ticks every      *)
(* frame taken off its ring is counted as sent or as skipped, and what the  *)
(* thread of its predecessor counted there after the counters were cleared  *)
(* is two frames at most (one it was handing over, one it found afterwards) *)
(* with those they passed over.  Frames received are counted exactly.       *)
CountersAgree ==
    \A k \in Slot :
        LET s == slot[k].tx
            d == slot[k].rx
        IN  /\ s # 0 => LET counted == slot[k].sent + slot[k].skipped
                            taken == src[s].ring.rd
                        IN  /\ src[s].pc = "top" => counted >= taken
                            /\ counted <= taken + 2 * NRing
                            /\ slot[k].sent <= taken + 2
            /\ d # 0 => slot[k].got = tap[d].ring.wr - (IF tap[d].pc = "count" THEN 1 ELSE 0)
=============================================================================
