# A formal model of baresip-python

baresip-python runs the baresip SIP stack (C, one "re thread" with libre's poll
loop) under an asyncio API (Python). What can go wrong in it goes wrong between
threads: the asyncio loop, the re thread, worker threads that send STOP or join,
a pacing thread per audio stream, and application threads that read and write
PCM. The modules here model those interactions, TLC checks them on small
instances, and TLAPS proves the data structures at the bottom, the command queue,
the two media drivers, the log capture, the runtime and the life of a call for every
size.

Line numbers below are those of `src/src/_native/*.c` and `src/src/baresip/*.py`.

## The system

```
 application coroutines            application audio threads
      |   Call, UserAgent                |  CallAudio, CallVideo
      v                                  v
 Runtime (runtime.py) ---- asyncio loop's callback queue <--+
      |  bp_cmd                                             | call_soon_threadsafe
      v                                                     |
 command queue (shim.c) --> cmd_handler on the re thread --> bp_emit, events
                                 |  handle table            |
                                 v                          v
                          libre / baresip (external)   slots of aumem.c, vidmem.c
                                                            | source threads
                                                            v
                                                       byte rings (ring.c)
```

| component | state | operations | what makes it correct |
|---|---|---|---|
| byte ring (`ring.c`, `ring.h`) | two free-running indexes, buffer, overrun/underrun counters, high-water mark | write (producer), read (consumer), size (any thread) | FIFO without loss or tearing, no data race without a lock, every refused byte counted once, size and high-water never mislead |
| handle table (`shim.c` 333-454) | slots: pointer, type, 8-bit generation; libre's reference counts | create on first sight in an event or a reply, lookup, drop on CALL_CLOSED, drain at teardown | a stale handle resolves to nothing; references balance; no slot outlives its call, but where connecting it fails |
| command queue and loop life cycle (`shim.c` 44-71, 848-864, 1583-1781) | `g_mq`, `g_running`, `g_in_loop`, `g_lock` | `bp_cmd` on any thread; `bp_loop_init/run/done` on the re thread | queue never freed under a running loop; commands in order, at most once; nothing accepted behind the gate; no call hangs |
| Runtime (`runtime.py`) | `_state`, `_pending`, `_seq`, `_draining`, class-wide `_active` and `_process_poisoned` | start, cmd, drain, close, watchdog, death on the re thread | each future is completed once by its own answer, by death or by close; death is reported and final; close ends |
| Call, UserAgent (`call.py`, `ua.py`) | `_state`, `_on_hold`, `_transfer_pending`, `_transfer_request`, `_registered`, lists of listeners, the coroutines that wait | dial, answer, reject, hangup, wait_established; hold, video direction, transfers, requests of the peer, DTMF, registration; on and off | state is what the stack last reported; verdicts are true and about the operation they are given to; a call given up is gone; whoever was taken off is told nothing |
| audio driver and CallAudio (`aumem.c`, `audio.py`) | 256 slots (call, epoch, rings, flush request, health counters); `_bound_epoch` | alloc and destroy of source, filter and player; write, read, flush, info, stats; one-second health sampler | no access to a freed ring; no PCM across a renegotiation; a flush is prompt and is served |
| video driver and CallVideo (`vidmem.c`, `video.py`) | 64 slots (call, epoch, rings of frames, counters); `_bound_epoch` | sources made and exchanged at CALL_ESTABLISHED, decode filters published at their first frame; write, newest-frame read, info | no access to a freed ring; no frame torn or across a renegotiation; counters of the stream in the slot |
| native log capture (`shim.c` 73-260) | ring of records, dropped count, reading flag; a log thread per runtime | write from any thread, blocking read, start, stop | whole records in order, dropped ones counted, nothing left behind by the stop, nobody left asleep |
| JSON payloads, config, errors, events, stats | none over time | formatting and validation | the text is well formed |

Components interact by calls (Python to C through cffi), by two queues (commands
towards the re thread, callbacks towards the asyncio loop), by shared state under
`g_lock`, `g_audio_lock` or nothing at all (`_state`, `_bound_epoch`, the ring
indexes, the flush flag) and by callbacks from libre into `shim.c` and `aumem.c`.

Hard behaviours: unlocked reads of shared state, results that arrive after their
command has timed out, events dispatched before the object they are about exists,
death of the SIP thread between any two steps, a SIP thread that never returns,
reuse of addresses, slots, generations and sequence numbers, full queues and
tables, and requests that outlive the stream they were made for. `PROJECT.json`
lists each at its line under `hazards`, with the properties that cover it or the
reason none does.

## The modules

| module | models | notes |
|---|---|---|
| `ByteFifo` | what `ring.h` promises | abstract stream: put what fits, get what is next |
| `ByteRing` | `ring.c` | one step per index access or byte copied; `size()` on the producer's, the consumer's or a third thread |
| `HandleTable` | the handle table with every command and event that touches it | one action per case of `cmd_handler` and of `bp_bevent_h`; libre's allocator and reference counts are the environment |
| `NativeLoop` | `bp_cmd`, `bp_loop_*`, PING and STOP | a step per lock acquisition; re threads and callers race, also in the wrong order |
| `Runtime` | `runtime.py` with the queue as Python sees it | one callback of the asyncio loop per step; the re thread and the worker of STOP/join step on their own |
| `LogCapture` | the ring of log records, `bp_log_start/stop/write/read`, the log threads | `g_log_lock` makes every function one step, but for the wait for the condition; a byte is the line it is of and its place in the record |
| `RuntimeLog` | `Runtime` and `LogCapture` together | which steps of `start()`, `close()` and the dying SIP thread start and stop the capture, and when the stack still logs; of the next runtime only its capture |
| `LoopTasks` | what every coroutine of `call.py` and `ua.py` goes through: `cmd()`, its future, timeout and late answer, the loop's one queue of callbacks, and the re thread's hand-over | extended by the next two modules, which give the coroutines their bodies |
| `CallLife` | a `Call` from dial or INVITE to its end | the re thread hands over events and completions one at a time (`Report`); the loop runs its callbacks in order |
| `Requests` | hold, resume, video direction, transfer, attended transfer, accept and reject with the agent's policy, DTMF, register and unregister | each is a coroutine of several awaits (`job` holds its locals); the stack, its one REFER per call, its re-INVITE in flight and the registrar are the environment |
| `Listeners` | the lists of listeners of `Runtime`, `Call` and `UserAgent` and the delivery of an event through them | snapshots are those the code takes; the application may call on and off from inside any callback |
| `AudioSlots` | the slot table, source threads and `CallAudio` | a step per critical section of `g_audio_lock` and per unlocked access |
| `VideoSlots` | the same for `vidmem.c` and `CallVideo` | a copy of a frame is two steps, its begin and its end, since one side copies without the lock |
| `*Proofs` | | the theorems about one module, or about a composition, and their lemmas |
| `MC*` | | constants for TLC |

`ByteRing` implements `ByteFifo` (`ImplementsFifo`: the history of bytes sent
refines the stream, `INSTANCE ByteFifo WITH put <- sent, got <- received`).
`NativeLoop` and `Runtime` model the same queue at two levels: in `Runtime` the
queue takes a message, closes its gate and is dropped as `NativeLoop` says it
does, and `LoopTasks` keeps of `Runtime` what a coroutine sees: its command is
rejected, answered (perhaps late), or times out. `RuntimeLog` takes the steps of both
its parts as they are and is proved to implement `LogCapture`. `AudioSlots` has sequences of
frames where the code has byte rings, which `ImplementsFifo` justifies;
`VideoSlots` has the rings of `vidmem.c` themselves, by their indexes.

State and actions follow the code by name where TLA+ allows: `pending` is
`_pending`, `gDrain` is `g_drain`, `bound` is `_bound_epoch`, `registered` is
`_registered`. Variables marked "history" exist only to state properties. A
definition whose comment begins "Mutant of" is a plausible bug in the one after
it; it takes part in nothing and shows, put in its place, that a property
notices. `map` in `PROJECT.json` gives the lines of every definition.

## The runs

Passing runs:

| run | question | instance |
|---|---|---|
| `byte_ring` | races, accounting, high-water mark, size, refinement | capacity 4, transfers up to 3, 7 bytes: the indexes lap the buffer, every split across its end occurs, and each byte has its own value |
| `handle_table` | stale handles, leaks, reference counts | 2 slots, 3 addresses, generations wrap after 2 clears, 5 allocations: the table is full, connects fail before and after OUTGOING, and every identifier is reused |
| `native_loop` | life of the queue, order of commands, the gate, no hang | 2 re threads, 1 caller, queue of 2, 3 commands, 2 queues one after the other |
| `runtime` | futures, late answers, sequence wrap, death against start and close, drain | queue of 1, 3 commands, 2 sequence numbers, so that a number is used again while its old answer is on its way |
| `runtime_log` | lines kept, whole, in order and read; `close()` ends, death is reported | 1 command, which is enough for a queue of one to be full when STOP is sent; a log ring of 4 bytes and records of 3, so that the second line is refused or wraps around; 3 lines, 2 runtimes; under fairness |
| `call_life` | state, verdicts, give-up, end | one call, 2 calls of answer, reject or hangup, one waiter with a timeout |
| `requests` | verdicts of overlapping operations, agreement with the stack, requests of the peer, registration, keys, termination | 2 calls, applications of one kind (`MCSettings`): 2 operations that overlap and up to 2 things that happen unasked; one digit |
| `audio_slots` | reachability of rings, misdirected PCM, flush | 2 calls and 1 slot (table full, slot reused), 2 streams, 1 filter, 2 frames per ring, one Python thread that writes, flushes and asks |
| `video_slots` | reachability of rings, torn and misdirected frames, counters | 2 calls and 1 slot, 2 sources, 1 filter, rings of 2 frames that 3 frames lap, one Python thread that writes and reads; the clamp jumps only on a full ring here, never beside a copy into it, which the proof of `NoTornFrame` covers for all sizes |

Violation runs, each a `finding`:

| run | shows |
|---|---|
| `runtime_drain` | `drain()` retried after its SET_DRAIN was rejected returns with calls still accepted |
| `call_dialled` | a dialled `Call` misses events dispatched before it exists |
| `listeners_off` | `on_rtcp()` twice with one callback, `off_rtcp()` once: the callback is still told (2 callbacks, 3 changes, 2 events) |

Known violations without a run. Nine more properties are stated in the modules
and do not hold; each is found within two minutes by the configuration given. Where a
passing run checks the same property with an exception, it is named:

| property | shows | how to see it |
|---|---|---|
| `DeadIsFinal` (`Runtime`) | `start()` and `close()` store their own state over "dead" (`runtime.py` 230, 312) | PROPERTY of `MCRuntime`, `SeqMod = 4` |
| `EpochIsBound` (`AudioSlots`) | reader and writer on two threads: `None` is passed as the epoch, a TypeError (`audio.py` 275) | INVARIANT of `MCAudioSlots`, `Reading = {reader}` |
| `FlushSparesTheNew` (`AudioSlots`) | audio written after `flush_tx()` and before the next tick is discarded too (`aumem.c` 267) | INVARIANT of `MCAudioSlots`, `Reading = {reader}` |
| `HeldIsOnTheWire` (`Requests`) | hold() and resume() that overlap: `is_on_hold` differs from what the far end was told (`call.py` 551) | INVARIANT of `MCRequests`, `Settings <- MCHold`, specification `Spec` |
| `SlotEndsWithCall` (`HandleTable`) | connecting a dialled call or the replacement of a transfer fails after OUTGOING (`shim.c` 1099, 1225): the core drops the call without CLOSED, and the slot keeps its reference until the loop ends; the comment at `shim.c` 431 knows two ways to free a slot. With the exception: `NoLeakedSlot` | INVARIANT of `MCHandleTable` |
| `NoOrphan` (`CallLife`) | `dial()` times out; its command is executed later, or its answer is on its way: a call that nobody has a `Call` for (`ua.py` 277). With the exception: `OnlyTimeoutsOrphan` | INVARIANT of `MCCallLife` |
| `CloseAlwaysEnds` (`Runtime`) | the loop fails, `bp_loop_done` wedges in `loop_unwind` with `g_lock` held (`shim.c` 1727-1743): the worker that sends STOP waits for the lock, and `close()` for the worker, without a timeout (`runtime.py` 282). With the exception: `CloseEnds` | PROPERTY of `MCRuntimeLog` |
| `RefusalIsClean` (`Requests`) | a hold command, or the one that takes a hold back, is refused after the stack turned its flag: nothing turns it back, since `_set_hold` stops at a refusal and does not look at the second answer (`call.py` 569-576). The next attempt may then find nothing to change. With the exception: `HoldIsTrue` | INVARIANT of `MCRequests` |
| `UnregisterIsConfirmed` (`Requests`) | `unregister()` takes any REGISTER_OK of the agent for its confirmation (`ua.py` 312), also that of a refresh or of a `register()` that was given up; its own may then be refused, where `ua.py` 180 and 187 promise the confirmation or an error. With the exception: `UnregisteredIsGone` | INVARIANT of `MCRequests` |

Bounds are constants of the modules, named there, and appear in guards: number
of commands, allocations, streams, bytes offered, frames, queues made,
operations. They limit history, not concurrency: within them every interleaving
of the threads is explored. Each actor whose pair can race is there twice or once
per role, each resource is small enough to be exhausted, and each identifier is
scarce enough to be reused, which is when the hazards happen. In `requests` the
operations of one run are of one kind, since two of different kinds share nothing
but the queues: a hold does not look at a transfer, a registration has no call. The
exception is the attended transfer, which holds both its calls: it is run against
blind transfers and on its own against everything the far ends do. Deadlock is not
checked: every one of these systems may stop, when its bounds are used up or
everything is closed.

What the safety properties except, and why:

* `NoFalseHandle` and `OwnAnswer` except a full wrap of the generation or of the
  sequence numbers, which the code accepts (256 reuses of one slot, 2^32 commands).
* `StateIsReported` is about calls born of an event, and dialled calls from the
  first event they hear; `DialledStateIsReported` has no exception and is violated.
* `NoLeakedSlot` excepts the calls that were not connected after OUTGOING had given
  them a slot (`failed`): that slot stays until the loop ends. The other operations of
  the model are not applied to such a call: no `Call` has its handle.
* `CloseEnds` excepts a teardown that never ends, of a loop that had failed before STOP was
  sent. A teardown that wedges after STOP is not excepted: the join has a timeout.
* `OnlyTimeoutsOrphan` is about a `dial()` that failed in any other way than by its
  timeout: refused, out of handles, not connected. It excepts every `dial()` that timed
  out, whether its command was still to be executed or its answer was already on the
  way; `NoOrphan` has no exception and is violated.
* `HoldIsTrue` includes operations that were refused: `is_on_hold` is what the far end was
  told, and the stack's flag is the same unless a hold command was refused and none
  was carried out since (`denied`). Excepted are calls (`murky`, see `Blurs`) on which two
  session refreshes overlapped, since the code takes any offer reported while its
  command is out as its own; on which one timed out, since it may still be executed; on
  which the command that takes a hold back met a full queue; or on which a video change
  told the far end a flag that a refused command had left turned. `HeldIsOnTheWire` and
  `RefusalIsClean` have fewer exceptions, or none, and are violated.
* `TransferVerdict` allows a transfer to be told the outcome of another REFER when
  nobody was told of that one (it timed out, or its command failed late), when the
  failed transfer is a request of the peer, which the event does not tell apart, or
  when an attended transfer of the same call has let two overlap.
* `RequestIsNewest` allows a request to be forgotten, never an old one to be taken
  for the new: a decision on an older request, or a failed transfer of ours, clears
  the field whatever is in it.
* `UnregisteredIsGone` holds when nothing is in flight any more, and excepts a refusal that
  came behind the back of an `unregister()`: it had returned on the answer to another
  REGISTER. One that returned on its own answer has no exception.
  `UnregisterIsConfirmed` would exclude the other case, and is violated.
* `KeyReleased` is about send_dtmf()s that returned; one that raised or was cancelled
  between a digit and its release leaves the key pressed.
* `FlushIsPrompt` holds while the stream is in its slot; after its teardown has
  begun nobody can ask it for anything and what it still sends is its last frames.
* `DrainedStaysIdle` is about a `drain()` whose SET_DRAIN arrived; `DrainRefuses`
  has no such condition and is violated.
* `NoMisdirectedPcm` and `NoMisdirectedFrame` take a write to be meant for the stream
  that was up when the binding it uses was made, whichever thread made it. The runs
  have one Python thread. That `info()` on one thread rebinds the other silently is a
  hazard without a property.
* `LinesAreKept` is about the lines of one capture, whichever log thread reads them. A log
  thread that an earlier runtime's join gave up on (a handler that takes more than two
  seconds) reads on in the next capture and hands that runtime's lines to its own
  handlers, in its own context; the code does not keep it from that.
* `CountersAgree` allows what the code allows: the pacing thread of a replaced source
  may count its last frames after the counters were cleared, in a slot that is
  already its successor's.

## Fairness

* `NativeLoop`: weak fairness of each thread's next step while it runs or handles
  a command, and strong fairness of taking `g_lock`: the mutex may be contended
  for ever by others, and a thread that keeps trying gets it. No fairness for
  STOP, failures or the caller's decision to call.
* `RuntimeLog`: weak fairness of the loop's callbacks, of `cmd()` once it has a
  number (it does not await in between), of `start()`/`close()` whose waits have
  timeouts, and of the dying thread's last steps. The re thread is not fair: it
  may be wedged for ever, which is what `CloseEnds` is about: in a handler, in the loop, and
  in its teardown (`Unwound`), where it has `g_lock`. A wedged teardown blocks `bp_cmd` on
  every thread: the worker of STOP, `cmd()` on the loop itself, and so every later
  callback; the fairness of `cmd()` asks nothing of a step that is blocked. The step of each log
  thread is weakly fair: its handlers return, or raise, which is caught. `LinesAreRead`
  takes that; `CloseEnds` does not rest on it, since the join of the log thread has a
  timeout.
* `CallLife`: weak fairness of the callbacks and of the waiter's timer. Neither
  the re thread nor the far end is fair.
* `Requests`: weak fairness of the loop as a whole: it runs a callback or a timer
  whenever it has one. Neither the re thread, nor the stack, nor the far ends are
  fair, so `RequestsEnd` rests on the timeouts alone.

## Proofs

`ByteRingProofs` proves, for every capacity, every content and every bound, the
type invariant, `FifoOrder` (what is received is a prefix of what was sent), `NoSharedSlot`, `CountersAreTrue`,
`SizeErrsSafe` and the refinement of `ByteFifo`, from
`ByteRingAssumption` alone. The safety properties are not inductive: nothing in
`FifoOrder` says why a byte read is the right one. `Inv` adds, in `Control`, how
far the indexes, the writer's stale copy of the read index, the reader's snapshot
and the counters can be apart, and in `Data` which slot holds which byte of the
stream: those accepted and not yet read (`StoredInv`), those of the write in
progress (`WrittenInv`), those already copied out (`CopiedInv`). The heart is that
two indexes less than a capacity apart have different slots (`MaskedDistinct`),
hence a write avoids every unread byte.

`HandleTableProofs` proves, for any number of slots, addresses and generations,
the type invariant, `RefsBalanced`, `OneSlotPerObject`, `NoLeakedSlot` (with its
exception: a slot whose call is neither the stack's nor in `failed` does not exist) and
`NoFalseHandle`, from `HandleTableAssumption`. A handler makes several table
operations, so the invariant is stated of a table and of the references held on
its objects while the handler runs (`Good`), each operation is shown to preserve
it, and the actions are composed of those lemmas. `NoFalseHandle` needs what was
true when each handle was issued (`IssuedOK`): the generation in it is the number of
clears of its slot modulo the generations, so an equal generation with fewer
clears since than there are generations means the slot was never cleared, and an
uncleared slot still names its object (`Later`).

`NativeLoopProofs` proves, for any number of threads, commands, restarts and places
in the queue, `QueueOutlivesLoop`, `NothingAfterStop` and `InOrderAtMostOnce`, from
`NativeLoopAssumption`. `Inv` says which thread has `g_in_loop` between the critical
sections of `bp_loop_run` (`LoopInv`), that whoever brings the stack up or down has
the lock and no queue is there (`LockInv`), and that a handled STOP left the gate
closed or its handler is still on the way to the lock (`GateInv`): that last
disjunct is the window in which a command may still be accepted. Order needs
`HistoryInv`: what was accepted into the live queue is what was handled followed by
what waits in it. The histories are sequences per queue, so that no filter of them,
which would be a recursive definition, has to be reasoned about.

`AudioSlotsProofs` proves, for any number of calls, slots, streams, filters and
places in a ring, `SlotsAreLive`, `NoMisdirectedPcm`, `FlushIsPrompt` and
`FlushIsServed`, from `AudioSlotsAssumption`. None is inductive. `SlotInv` and
`StreamInv` tie the table to the streams that are up, one per call. A source thread
uses the slot it has cached without looking it up again, so `CacheInv` says that the
cached slot is the one its ring is in, or will be. `BindInv` says that an epoch
equal to the slot's stands for the stream that is in it: that is why the one
comparison in an accessor is enough, and it holds because every departure of a ring
raises the epoch and a closed call never gets a slot again. `FlushInv` follows a
request through the thread that has passed the test by (`Sees`).

`VideoSlotsProofs` proves, for any number of calls, slots, sources, filters, frames
and places in a ring and any clamp trigger, `SlotsAreLive`, `NoTornFrame`,
`NoMisdirectedFrame` and `CountersAgree`, from `VideoSlotsAssumption`. To the table, the
streams and the bindings it adds `RingInv`, which says of each ring that a copy into it
began with a free place and a copy out of it is of a frame still in it (`RingOK`), and
`CopyInv`: a Python thread that copies has the lock, through a ring that is up and has
that copy begun. `NoTornFrame` follows from `RingOK`, since indexes less than the number
of places apart have different places (`ModDistinct`). `CountersAgree` needs `CountsInv`
besides: a call has one source with a thread (`ThreadInv`, `FilterInv` for the decode
filters), and the counters of a slot are at most two frames, and two rings, from
what that source has taken off its ring (`Tally`, with `Due` for a frame between its
copy and its count). The difference is what the thread of a replaced source counts in
its successor's slot; `Left` is how often it still may, and `Leftover` what the
counters of a slot without a source may hold meanwhile.

`RuntimeLogProofs` proves three things about the runtime and the log capture, for any
number of commands, any range of sequence numbers, any length of the queue, any size
of the ring, the header and the text, and any number of lines and log threads, from
`RuntimeAssumption` and `LogCaptureAssumption` (a record fits the empty ring).

* Of `LogCapture`: `LinesAreWhole`, `NothingIsLeft` and `NoLostWakeup`. `RingInv` says
  where each record would begin if the ring had no end (`Laid`): one behind the other,
  the first to be read at the head, and every byte of those to be read in its place,
  modulo the size. `PutAt` and `GetAt` are what `ring_put` and `ring_get` do to that
  picture. `NoLostWakeup` counts: while somebody sleeps there are at least as many log
  threads on their way as records, since every record that is kept wakes one.
* Of `Runtime`: its type invariant, `NoLostFuture`, `OwnAnswer`, `SuccessorIsSafe`,
  `CloseIsNotDeath`, `NobodyLeftWaiting` and `DrainedStaysIdle`, from `RtInv`.
  `NumberInv` has the number of each command as a function of how often the counter
  was raised, `PendingInv` says that a number in `_pending` was given to nobody since,
  and `MessageInv` that whoever completes a command has its number, hence is the command
  itself or a whole round older: that is `OwnAnswer`. It rests on `Prompt`, the bound
  that the counter does not go around while a coroutine whose future is done has yet
  to resume. `LifeInv` says who is in charge of the SIP thread and what that thread can
  still do, `DeathInv` that a death is reported once, and `QuietInv` that after either
  end nothing is open, but for a coroutine between its state check and its push.
  `DrainInv` follows SET_DRAIN: from the first count on, nothing in the queue can start
  a call, so a count of zero stays true.
* Of the composition: it implements `LogCapture` (`UsesCapture`: every step maps to one
  of the capture's, and no capture starts over another) and `Runtime` (`UsesRuntime`), and
  so has the theorems of both, and `LinesAreKept`. `OffInv` says when the capture is
  off: before `start()`, and from a stop on, which comes only after the SIP thread is
  gone or was given up.

`CallLifeProofs` proves, for any number of operations (the module has one call and
three coroutines), `StateIsReported`, `VerdictIsTrue` and `OnlyTimeoutsOrphan`, from
`CallLifeAssumption`. What makes them hard is the distance between the stack and the
coroutine that speaks about it: an event or an answer is handed over by the re thread,
waits in the loop's queue, is dispatched, wakes a coroutine, which waits its turn.
`Inv` has something to say of each place. `EventInv`: the events on their way are in the
order of a call's life, above what was reported before and not above the stack's
state. `QueueInv` and `DoneInv`: a completion on its way says what is true of the stack,
an `ok` of hangup or reject has the closing event before it, and the numbers of the
ender's commands tell an answer that comes too late from the one awaited. `TaskInv` and
`WakeInv`: a coroutine is scheduled once, and because its future is done. `CallInv`
and `VerdictInv`: what was dispatched is what the Call's state and the coroutines'
futures say.

`RequestsProofs` proves, for any number of calls, operations, digits, requests and
things that happen unasked, `HoldIsTrue`, `TransferVerdict`, `RequestIsNewest`,
`UnregisteredIsGone` and `KeyReleased`, from `RequestsAssumption`. The invariant (`Together`) has two layers. `Base` is about the
machinery that all operations share: a coroutine is scheduled once, and because its
future is done (`WakeInv`); each has at most one order on its way, in the queue, in the
re thread's hand or in the loop's queue, and that one is what it awaits, or it gave up
(`ItemInv`, `OrderInv`); a report is about what the stack says it is about (`NewsInv`).
On it rests one part for each kind of operation, which follows a promise from the
command to the coroutine that speaks of it:

* `KeyInv`: a pressed key has a `send_dtmf()` that still owes its release. Whoever timed
  out while the press was on its way counts, since it never returns.
* `RegisterInv`: once an unregister was carried out, nothing behind it in the queue was
  ordered before it, so the last REGISTER in flight, or the binding, is its own -- or it
  was refused. `AirInv`: REGISTERs are in flight in the order of the coroutines that sent
  them, behind at most one of the stack's own, and before those in the queue. An
  `unregister()` that was told of its own success was therefore the last in flight, and
  left no binding: that is why its own answer has no exception.
* `AloneInv`: while a transfer has its REFER out the flag `_transfer_pending` is set and
  no other runs, but behind an attended transfer, which looks at the flag before its
  holds and not after. `ReferInv`: a REFER is in the queue, at the stack, in a
  report, or has given its verdict, in one of these places and never in two.
  `ToldInv`: hence the verdict that a coroutine heard is of its own REFER, or of one
  whose coroutine is no longer there to hear it.
* `HoldInv`: on a call that is not blurred, with at most one change of hold or direction
  under way, what the far end was told and `_on_hold` differ by exactly that change, and
  what the stack holds differs from both only behind a refused command; and the offer is reported before the completion of its command
  (`OfferFirst`), which is why `saw_offer` may be read as soon as `cmd()` returns.
  `SameRefreshing` and `NoNewRefresh` reduce the steps of other coroutines to this.

The proof that a step keeps `Together` runs along the same division: what a turn of a
coroutine does to its task, its locals, the queue and the objects is stated once for
each kind of step (`TurnTasks`, `TurnNews`, `Turn`, `Hears`, `Serves`, `NetworkTells`), and
each part is then shown to survive these few, whichever operation took them.

Model-checked only: every liveness property (the prover has neither ENABLED nor
fairness), that is `RequestsEnd`, `WaitEnds`, `AcceptedIsHandled`, `CallsReturn`,
`LinesAreRead`, `CloseEnds` and `DeathIsReported`; and what a recursive function computes
for every input (induction over data). Every safety property of a passing run is
proved. No module with a theorem uses a RECURSIVE operator.

## Not modelled, and why

* libre and baresip: external; they appear as an environment that may emit any
  event the code handles, fail where the code checks, and reuse addresses.
* Memory ordering of single instructions: the ring's indexes are acquired and
  released, so a step per access is what the code can show. The indexes
  are unbounded: the code's are 64 bits wide and never wrap in practice, and its
  32-bit offsets and differences are exact because the capacity is a power of two.
* In `Runtime`: the configuration directory and the atexit hook;
  one setting command stands for all of `start()`'s.
* In `CallLife`, `Requests` and `Listeners`: the final statistics, `remote_on_hold`,
  headers, and creating an agent beyond its policy. Arguments that are rejected before
  the first await change nothing and are left out.
* In `AudioSlots`: PCM in the receive ring and the reader's catch-up, health
  counters and warnings, the player (a clock that discards), a second loop in the
  same process.
* In `VideoSlots`: keyframe requests (a command without state), the display, the
  test slot and loop, frames of another size (`bp_video_write` refuses them after slot,
  epoch and source are checked, and changes nothing), the counts of refused and oversize
  frames, and a source that cannot be allocated, or whose thread cannot be created: its
  ring was in no slot, but dropping it raises the epoch of its call's once more, so
  that Python rebinds where it need not.
* In `HandleTable`: a handle of an earlier generation that reaches, after a full wrap, a call
  that was not connected, and events of the stack about such a call, which is
  in no list of the stack's.
* The JSON writer, configuration, errors and statistics: text and records without
  behaviour over time. The build scripts, the examples and the bench run apart from
  the program.
* In `LogCapture`: levels, channels and the text of a line, and the 32 bits of the dropped
  count. In `RuntimeLog`: the log thread that cannot be created; after a failed start
  the loop waits for the log thread, here it goes on, which the capture does not see.

## Plan

Done, in this order: ring with its proofs, handle table with its proofs, native
loop, runtime, calls, audio; then requests, listeners, video, the log capture and its
composition with the runtime; then the proofs about the native loop, audio, video and
the log; then those about the runtime, the life of a call, the counters of video and the requests.

Next:

1. `AudioSlots` extended with the receive ring, its catch-up and the health
   counters, and with a binding per thread, so that a silent rebinding shows.
2. Refinement: `NativeLoop` implements an abstract command channel (accepted
   commands are a queue, handled in order), the one `Runtime` and `LoopTasks` assume;
   an abstract `StreamSlot` (bind, use, be told that it was replaced) that
   `AudioSlots` and `VideoSlots` both implement.
