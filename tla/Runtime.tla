------------------------------- MODULE Runtime -------------------------------
(***************************************************************************)
(* One Runtime of runtime.py: start(), close() and the death of its SIP    *)
(* thread, the commands and their futures, drain() and the watchdog.  The  *)
(* asyncio thread runs one callback at a time; the re thread brings the    *)
(* stack up, handles commands and hands each completion over with          *)
(* call_soon_threadsafe; a worker thread sends STOP.  NativeLoop.tla has   *)
(* the details of the queue, this module only what Python sees of it.      *)
(***************************************************************************)
EXTENDS Integers, Sequences

CONSTANTS SeqMod,    \* sequence numbers are 1 .. SeqMod - 1: 2^32 - 1 of them
          QCap,      \* how many messages the command queue's pipe takes
          MaxCmds    \* bound: calls of cmd()

ASSUME RuntimeAssumption ==
    /\ SeqMod \in Nat /\ SeqMod > 1
    /\ QCap \in Nat \ {0}
    /\ MaxCmds \in Nat

Cmd == 1 .. MaxCmds
Op == {"setting", "ping", "dial", "set_drain", "count"}
Outcome == {"answer", "timeout", "full", "refused", "dead", "closed", "cancelled"}

VARIABLES
    (* the runtime *)
    state,      \* _state
    life,       \* how far start() or close() got
    setting,    \* the command start() awaits, or 0
    active,     \* this runtime is Runtime._active
    poisoned,   \* Runtime._process_poisoned
    sink,       \* _on_native_event is the sink
    pending,    \* _pending: the command whose future waits under a number, or 0
    seq,        \* _seq
    draining,   \* _draining
    ready,      \* callbacks the re thread has handed to the loop
    onDead,     \* how often on_dead was called
    (* the commands *)
    cmds,       \* history: calls of cmd() so far; they are named 1, 2, ...
    calling,    \* the command cmd() is just sending, or 0
    cmd,        \* each command: its number, operation, future and outcome
    (* the coroutines built on cmd() *)
    watch,      \* the watchdog: [at, cmd]
    drain,      \* a drain(): [at, cmd]
    (* the native side *)
    re,         \* where the re thread is
    gate,       \* bp_cmd accepts pushes
    queue,      \* the command queue
    gDrain,     \* g_drain
    live,       \* the stack has a live call
    ours        \* history: the loop left because of the STOP this runtime sent

lifeVars == <<state, life, active, poisoned, sink, onDead>>
cmdVars == <<pending, seq, cmds, calling, cmd>>
taskVars == <<setting, watch, drain, draining>>
reVars == <<re, gate, queue, gDrain, live, ours>>
vars == <<lifeVars, cmdVars, taskVars, reVars, ready>>

NoCommand == [seq |-> 0, tick |-> 0, op |-> "ping", fut |-> "none", from |-> 0,
              zero |-> FALSE, out |-> "none"]

Init ==
    /\ state = "new" /\ life = "new" /\ active = FALSE /\ poisoned = FALSE
    /\ sink = FALSE /\ onDead = 0
    /\ pending = [s \in 1 .. (SeqMod - 1) |-> 0]
    /\ seq = [at |-> 0, tick |-> 0]
    /\ cmds = 0 /\ calling = 0
    /\ cmd = [n \in Cmd |-> NoCommand]
    /\ setting = 0
    /\ watch = [at |-> "off", cmd |-> 0]
    /\ drain = [at |-> "idle", cmd |-> 0]
    /\ draining = FALSE
    /\ re = "none" /\ gate = FALSE /\ queue = <<>> /\ gDrain = FALSE /\ live = FALSE
    /\ ours = FALSE
    /\ ready = <<>>

(* The asyncio thread is free to run a callback: it is not inside cmd(),    *)
(* nor blocked by the cleanup of a failed start.                            *)
LoopFree == calling = 0 /\ life \notin {"fail_stop", "fail_join"}

(* The SIP thread has been started and not yet returned. *)
Alive == re \notin {"none", "failed", "gone"}

-----------------------------------------------------------------------------
(* cmd()                                                                   *)

Free(s) == pending[s] = 0

(* Increments from the last number on, wrapping past 0. *)
After(s, k) == ((s - 1 + k) % (SeqMod - 1)) + 1

(* Mutant of Steps: a number that is still waiting is not skipped. *)
StepsNoSkip(s) == 1

(* _next_seq: how many increments to the next number that is not pending. *)
Steps(s) ==
    CHOOSE k \in 1 .. (SeqMod - 1) :
        Free(After(s, k)) /\ \A j \in 1 .. (k - 1) : ~Free(After(s, j))

(* Bound: the numbers do not go all the way around while a coroutine whose  *)
(* future is done has yet to resume, which it does in the loop's next round. *)
Prompt(tick) ==
    \A m \in Cmd : cmd[m].fut \notin {"none", "open"} /\ cmd[m].out = "none"
                     => tick - cmd[m].tick < SeqMod - 1

(* Mutant of Begin: the lowest number that is not pending. *)
BeginLowest(op) ==
    LET n == cmds + 1
        s == CHOOSE s \in 1 .. (SeqMod - 1) : Free(s) /\ \A u \in 1 .. (s - 1) : ~Free(u)
    IN  /\ LoopFree /\ state = "running" /\ cmds < MaxCmds
        /\ \E t \in 1 .. (SeqMod - 1) : Free(t)
        /\ Prompt(seq.tick + 1)
        /\ cmds' = n
        /\ seq' = [at |-> s, tick |-> seq.tick + 1]
        /\ pending' = [pending EXCEPT ![s] = n]
        /\ cmd' = [cmd EXCEPT ![n] = [NoCommand EXCEPT !.seq = s, !.tick = seq.tick + 1,
                                                       !.op = op, !.fut = "open"]]
        /\ calling' = n

(* The state check, the number and the future.  The re thread may do        *)
(* anything before the push.                                                *)
Begin(op) ==
    LET n == cmds + 1
        k == Steps(seq.at)
        s == After(seq.at, k)
    IN  /\ LoopFree /\ state = "running" /\ cmds < MaxCmds
        /\ \E t \in 1 .. (SeqMod - 1) : Free(t)
        /\ Prompt(seq.tick + k)
        /\ cmds' = n
        /\ seq' = [at |-> s, tick |-> seq.tick + k]
        /\ pending' = [pending EXCEPT ![s] = n]
        /\ cmd' = [cmd EXCEPT ![n] = [NoCommand EXCEPT !.seq = s, !.tick = seq.tick + k,
                                                       !.op = op, !.fut = "open"]]
        /\ calling' = n

Finished(n, outcome) == cmd' = [cmd EXCEPT ![n].out = outcome]

(* The push, and what cmd() makes of its errno.  bp_cmd, and the loop with   *)
(* it, waits while bp_loop_done holds the lock.                              *)
Push ==
    /\ calling # 0 /\ re # "unwind"
    /\ calling' = 0
    /\ LET s == cmd[calling].seq IN
       \/ /\ gate /\ Len(queue) < QCap
          /\ queue' = Append(queue, [op |-> cmd[calling].op, seq |-> s, cmd |-> calling])
          /\ UNCHANGED <<pending, cmd>>
       \/ /\ gate /\ Len(queue) >= QCap
          /\ Finished(calling, "full")
          /\ pending' = [pending EXCEPT ![s] = 0]
          /\ UNCHANGED queue
       \/ /\ ~gate
          /\ Finished(calling, "refused")
          /\ pending' = [pending EXCEPT ![s] = 0]
          /\ UNCHANGED queue
    /\ UNCHANGED <<lifeVars, seq, cmds, taskVars, re, gate, gDrain, live, ours, ready>>

Waiting(n) == cmd[n].fut # "none" /\ cmd[n].out = "none" /\ calling # n

(* The awaiting coroutine resumes with the future's result or exception. *)
Resume(n) ==
    /\ LoopFree /\ Waiting(n) /\ cmd[n].fut \in {"answer", "dead", "closed"}
    /\ Finished(n, cmd[n].fut)
    /\ UNCHANGED <<lifeVars, pending, seq, cmds, calling, taskVars, reVars, ready>>

(* wait_for gives up, even on a future that was completed in the meantime; *)
(* the number is taken out of _pending whoever has it.                     *)
Timeout(n) ==
    /\ LoopFree /\ Waiting(n)
    /\ cmd' = [cmd EXCEPT ![n].out = "timeout",
                          ![n].fut = IF @ = "open" THEN "cancelled" ELSE @]
    /\ pending' = [pending EXCEPT ![cmd[n].seq] = 0]
    /\ UNCHANGED <<lifeVars, seq, cmds, calling, taskVars, reVars, ready>>

(* The awaiting task is cancelled: the future stays in _pending. *)
Cancelled(n) ==
    [cmd EXCEPT ![n].out = "cancelled", ![n].fut = IF @ = "open" THEN "cancelled" ELSE @]

Cancel(n) ==
    /\ LoopFree /\ Waiting(n) /\ n # watch.cmd
    /\ cmd' = Cancelled(n)
    /\ UNCHANGED <<lifeVars, pending, seq, cmds, calling, taskVars, reVars, ready>>

(* _fail_pending: an exception for every future that is not done. *)
FailPending(why, futures) ==
    /\ cmd' = [n \in Cmd |->
                 IF futures[n].fut = "open" /\ \E s \in DOMAIN pending : pending[s] = n
                 THEN [futures[n] EXCEPT !.fut = why] ELSE futures[n]]
    /\ pending' = [s \in DOMAIN pending |-> 0]

-----------------------------------------------------------------------------
(* Callbacks from the re thread, in the order they were handed over.       *)

(* _dispatch of a completion: whatever future has the number gets it. *)
Dispatch ==
    /\ LoopFree /\ ready # <<>> /\ Head(ready).kind = "done"
    /\ ready' = Tail(ready)
    /\ LET done == Head(ready)
           n    == pending[done.seq]
       IN  /\ pending' = [pending EXCEPT ![done.seq] = 0]
           /\ cmd' = IF n # 0 /\ cmd[n].fut = "open"
                     THEN [cmd EXCEPT ![n].fut = "answer", ![n].from = done.cmd,
                                      ![n].zero = done.zero]
                     ELSE cmd
    /\ UNCHANGED <<lifeVars, seq, cmds, calling, taskVars, reVars>>

(* _finish_death *)
FinishDeath ==
    /\ LoopFree /\ ready # <<>> /\ Head(ready).kind = "death"
    /\ ready' = Tail(ready)
    /\ FailPending("dead", cmd)
    /\ onDead' = onDead + 1
    /\ UNCHANGED <<state, life, active, poisoned, sink, seq, cmds, calling, taskVars, reVars>>

-----------------------------------------------------------------------------
(* Coroutines built on cmd().                                              *)

Out(n) == cmd[n].out

(* Mutant of Dial: draining is not looked at. *)
DialAnyway ==
    /\ Begin("dial")
    /\ UNCHANGED <<lifeVars, taskVars, reVars, ready>>

(* dial() is refused from the moment drain() was called. *)
Dial ==
    /\ ~draining
    /\ Begin("dial")
    /\ UNCHANGED <<lifeVars, taskVars, reVars, ready>>

(* The watchdog: PING, sleep, PING; a timeout is reported and it goes on,   *)
(* any other failure ends it.                                               *)
WatchPing ==
    /\ watch.at = "sleeping"
    /\ Begin("ping")
    /\ watch' = [at |-> "pinging", cmd |-> cmds']
    /\ UNCHANGED <<lifeVars, setting, drain, draining, reVars, ready>>

WatchRefused ==
    /\ LoopFree /\ watch.at = "sleeping" /\ state # "running"
    /\ watch' = [at |-> "ended", cmd |-> 0]
    /\ UNCHANGED <<lifeVars, cmdVars, setting, drain, draining, reVars, ready>>

WatchGoesOn ==
    /\ LoopFree /\ watch.at = "pinging" /\ Out(watch.cmd) # "none"
    /\ watch' = IF Out(watch.cmd) \in {"answer", "timeout"}
                THEN [at |-> "sleeping", cmd |-> 0]
                ELSE [at |-> "ended", cmd |-> 0]
    /\ UNCHANGED <<lifeVars, cmdVars, setting, drain, draining, reVars, ready>>

(* drain() sends SET_DRAIN the first time it is called on this runtime, and *)
(* only then; it may be called again, as long as no other call is waiting.  *)
DrainBegin ==
    /\ drain.at = "idle" /\ ~draining
    /\ Begin("set_drain")
    /\ draining' = TRUE
    /\ drain' = [at |-> "setting", cmd |-> cmds']
    /\ UNCHANGED <<lifeVars, setting, watch, reVars, ready>>

DrainAgain ==
    /\ drain.at = "idle" /\ draining
    /\ Begin("count")
    /\ drain' = [at |-> "counting", cmd |-> cmds']
    /\ UNCHANGED <<lifeVars, setting, watch, draining, reVars, ready>>

(* SET_DRAIN was answered, or a count: zero calls and drain() returns. *)
DrainAnswered ==
    /\ LoopFree /\ drain.at \in {"setting", "counting"} /\ Out(drain.cmd) = "answer"
    /\ drain' = [at |-> IF drain.at = "counting" /\ cmd[drain.cmd].zero
                        THEN "returned" ELSE "polling", cmd |-> 0]
    /\ UNCHANGED <<lifeVars, cmdVars, setting, watch, draining, reVars, ready>>

DrainPoll ==
    /\ drain.at = "polling"
    /\ Begin("count")
    /\ drain' = [at |-> "counting", cmd |-> cmds']
    /\ UNCHANGED <<lifeVars, setting, watch, draining, reVars, ready>>

(* cmd() raised, or would have: so does drain(). *)
DrainRaises ==
    /\ LoopFree
    /\ \/ drain.at \in {"setting", "counting"} /\ Out(drain.cmd) \notin {"none", "answer"}
       \/ drain.at = "polling" /\ state # "running"
    /\ drain' = [at |-> "idle", cmd |-> 0]
    /\ UNCHANGED <<lifeVars, cmdVars, setting, watch, draining, reVars, ready>>

-----------------------------------------------------------------------------
(* start()                                                                 *)

(* The runtime becomes the active one and its SIP thread is started, unless *)
(* bp_init or what is done before the thread fails.                         *)
Start ==
    /\ LoopFree /\ life = "new" /\ state = "new" /\ ~active /\ ~poisoned
    /\ life' = "starting" /\ active' = TRUE
    /\ \/ re' = "init" /\ sink' = TRUE
       \/ re' = "none" /\ sink' \in BOOLEAN
    /\ UNCHANGED <<state, poisoned, onDead, cmdVars, taskVars, gate, queue, gDrain, live,
                   ours, ready>>

(* The SIP thread signalled ready: running, whatever happened to the thread *)
(* since.                                                                   *)
Started ==
    /\ LoopFree /\ life = "starting" /\ re \notin {"none", "init", "failed"}
    /\ state' = "running"
    /\ life' = "settings"
    /\ UNCHANGED <<active, poisoned, sink, onDead, cmdVars, taskVars, reVars, ready>>

(* The driver check and the settings are commands like any other. *)
Setting ==
    /\ life = "settings" /\ setting = 0
    /\ Begin("setting")
    /\ setting' = cmds'
    /\ UNCHANGED <<lifeVars, watch, drain, draining, reVars, ready>>

SettingApplied ==
    /\ LoopFree /\ life = "settings" /\ setting # 0 /\ Out(setting) = "answer"
    /\ setting' = 0
    /\ UNCHANGED <<lifeVars, cmdVars, watch, drain, draining, reVars, ready>>

StartReturns ==
    /\ LoopFree /\ life = "settings" /\ setting = 0
    /\ life' = "up"
    /\ watch' = [at |-> "sleeping", cmd |-> 0]
    /\ UNCHANGED <<state, active, poisoned, sink, onDead, cmdVars, setting, drain, draining,
                   reVars, ready>>

(* Anything failed: no ready signal in five seconds, an init error, a       *)
(* setting that could not be sent, was not answered or was answered with a  *)
(* refusal.  From here on the loop is blocked until the cleanup is done.    *)
StartFails ==
    /\ LoopFree
    /\ \/ life = "starting"
       \/ life = "settings" /\ setting = 0 /\ state # "running"
       \/ life = "settings" /\ setting # 0 /\ Out(setting) # "none"
    /\ active' = FALSE
    /\ state' = "closing"
    /\ life' = IF Alive THEN "fail_stop" ELSE "fail_join"
    /\ UNCHANGED <<poisoned, sink, onDead, cmdVars, taskVars, reVars, ready>>

(* Mutant of StartFailed: a thread that did not stop is given up quietly. *)
StartFailedQuietly ==
    /\ life = "fail_join"
    /\ state' = "closed" /\ poisoned' = poisoned
    /\ sink' = FALSE
    /\ life' = "ended"
    /\ UNCHANGED <<active, onDead, cmdVars, taskVars, reVars, ready>>

(* The end of the cleanup: two seconds for the thread to stop. *)
StartFailed ==
    /\ life = "fail_join"
    /\ IF Alive THEN state' = "dead" /\ poisoned' = TRUE
                ELSE state' = "closed" /\ poisoned' = poisoned
    /\ sink' = FALSE
    /\ life' = "ended"
    /\ UNCHANGED <<active, onDead, cmdVars, taskVars, reVars, ready>>

-----------------------------------------------------------------------------
(* close()                                                                 *)

(* Mutant of Close: the state changes only after STOP was sent. *)
CloseUnannounced ==
    /\ LoopFree /\ life = "up" /\ state = "running"
    /\ state' = state
    /\ life' = "close_stop"
    /\ cmd' = IF watch.at = "pinging" /\ Waiting(watch.cmd) THEN Cancelled(watch.cmd) ELSE cmd
    /\ watch' = [at |-> "ended", cmd |-> 0]
    /\ UNCHANGED <<active, poisoned, sink, onDead, pending, seq, cmds, calling, setting,
                   drain, draining, reVars, ready>>

(* Up to the first await; the watchdog is cancelled. *)
Close ==
    /\ LoopFree /\ life = "up" /\ state = "running"
    /\ state' = "closing"
    /\ life' = "close_stop"
    /\ cmd' = IF watch.at = "pinging" /\ Waiting(watch.cmd) THEN Cancelled(watch.cmd) ELSE cmd
    /\ watch' = [at |-> "ended", cmd |-> 0]
    /\ UNCHANGED <<active, poisoned, sink, onDead, pending, seq, cmds, calling, setting,
                   drain, draining, reVars, ready>>

(* _send_stop, on a worker thread in close(), on the loop after a failed    *)
(* start: pushed, or the loop is gone, or given up after every retry found  *)
(* the queue full.  bp_cmd waits for as long as the loop is being brought   *)
(* up or torn down: both hold the lock.                                     *)
SendStop ==
    /\ life \in {"close_stop", "fail_stop"} /\ re \notin {"init", "unwind"}
    /\ \/ ~gate /\ UNCHANGED queue
       \/ gate /\ Len(queue) >= QCap /\ UNCHANGED queue
       \/ gate /\ Len(queue) < QCap /\ queue' = Append(queue, [op |-> "stop", seq |-> 0, cmd |-> 0])
    /\ life' = IF life = "close_stop" THEN "close_join" ELSE "fail_join"
    /\ UNCHANGED <<state, active, poisoned, sink, onDead, cmdVars, taskVars, re, gate,
                   gDrain, live, ours, ready>>

(* Mutant of Joined: close() waits for the thread as long as it takes. *)
JoinedForever ==
    /\ LoopFree /\ life = "close_join" /\ ~Alive
    /\ life' = "close_log"
    /\ FailPending("closed", cmd)
    /\ sink' = FALSE
    /\ UNCHANGED <<state, active, poisoned, onDead, seq, cmds, calling, taskVars, reVars, ready>>

(* Mutant of Joined: the commands that were pending are left to wait. *)
JoinedForgets ==
    /\ LoopFree /\ life = "close_join"
    /\ IF Alive
       THEN /\ state' = "dead" /\ active' = FALSE /\ poisoned' = TRUE
            /\ life' = "ended"
       ELSE /\ UNCHANGED <<state, active, poisoned>>
            /\ life' = "close_log"
    /\ sink' = FALSE
    /\ UNCHANGED <<onDead, cmdVars, taskVars, reVars, ready>>

(* Five seconds later at most: the thread is wedged and the process         *)
(* poisoned, or it is gone.                                                 *)
Joined ==
    /\ LoopFree /\ life = "close_join"
    /\ IF Alive
       THEN /\ state' = "dead" /\ active' = FALSE /\ poisoned' = TRUE
            /\ life' = "ended"
            /\ FailPending("dead", cmd)
       ELSE /\ UNCHANGED <<state, active, poisoned>>
            /\ life' = "close_log"
            /\ FailPending("closed", cmd)
    /\ sink' = FALSE
    /\ UNCHANGED <<onDead, seq, cmds, calling, taskVars, reVars, ready>>

(* The log reader has stopped. *)
Closed ==
    /\ LoopFree /\ life = "close_log"
    /\ life' = "ended"
    /\ state' = "closed"
    /\ active' = FALSE
    /\ UNCHANGED <<poisoned, sink, onDead, cmdVars, taskVars, reVars, ready>>

-----------------------------------------------------------------------------
(* The re thread.                                                          *)

ReInit ==
    /\ re = "init"
    /\ \/ re' = "loop" /\ gate' = TRUE
       \/ re' = "failed" /\ gate' = gate
    /\ UNCHANGED <<lifeVars, cmdVars, taskVars, queue, gDrain, live, ours, ready>>

(* bp_event_h: a completion crosses to the loop while the sink is attached. *)
Emit(m, zero) ==
    ready' = IF sink THEN Append(ready, [kind |-> "done", seq |-> m.seq, cmd |-> m.cmd,
                                         zero |-> zero])
                     ELSE ready

(* cmd_handler: every command is answered once, CALL_COUNT with the calls. *)
Handle ==
    /\ re = "loop" /\ queue # <<>> /\ Head(queue).op # "stop"
    /\ LET m == Head(queue) IN
       /\ Emit(m, m.op = "count" /\ ~live)
       /\ gDrain' = (gDrain \/ m.op = "set_drain")
       /\ live' = (live \/ m.op = "dial")
    /\ queue' = Tail(queue)
    /\ UNCHANGED <<lifeVars, cmdVars, taskVars, re, gate, ours>>

(* BP_CMD_STOP: the gate closes and re_main returns. *)
HandleStop ==
    /\ re = "loop" /\ queue # <<>> /\ Head(queue).op = "stop"
    /\ queue' = Tail(queue)
    /\ gate' = FALSE
    /\ re' = "left"
    /\ ours' = TRUE
    /\ UNCHANGED <<lifeVars, cmdVars, taskVars, gDrain, live, ready>>

(* re_main returns on its own, with the gate still open. *)
LoopFails ==
    /\ re = "loop"
    /\ re' = "left"
    /\ UNCHANGED <<lifeVars, cmdVars, taskVars, gate, queue, gDrain, live, ours, ready>>

(* bp_loop_done takes the lock: what is still queued is lost. *)
LoopDone ==
    /\ re = "left"
    /\ re' = "unwind"
    /\ gate' = FALSE /\ queue' = <<>>
    /\ UNCHANGED <<lifeVars, cmdVars, taskVars, gDrain, live, ours, ready>>

(* loop_unwind has brought the stack down, however long that took, and the  *)
(* lock is free again.                                                      *)
Unwound ==
    /\ re = "unwind"
    /\ re' = "down"
    /\ live' = FALSE
    /\ UNCHANGED <<lifeVars, cmdVars, taskVars, gate, queue, gDrain, ours, ready>>

(* Was this asked for?  The answer is used a while later. *)
CheckClosing ==
    /\ re = "down"
    /\ re' = IF state \in {"closing", "closed"} THEN "gone" ELSE "dying"
    /\ UNCHANGED <<lifeVars, cmdVars, taskVars, gate, queue, gDrain, live, ours, ready>>

(* Mutant of Die: nobody is told. *)
DieSilently ==
    /\ re = "dying"
    /\ state' = "dead" /\ active' = FALSE /\ poisoned' = TRUE /\ sink' = FALSE
    /\ re' = "gone"
    /\ UNCHANGED <<life, onDead, cmdVars, taskVars, gate, queue, gDrain, live, ours, ready>>

(* _die_on_re_thread *)
Die ==
    /\ re = "dying"
    /\ state' = "dead" /\ active' = FALSE /\ poisoned' = TRUE /\ sink' = FALSE
    /\ ready' = Append(ready, [kind |-> "death"])
    /\ re' = "gone"
    /\ UNCHANGED <<life, onDead, cmdVars, taskVars, gate, queue, gDrain, live, ours>>

(* A call comes in, unless it is refused; the last one ends. *)
CallArrives ==
    /\ re = "loop" /\ ~gDrain /\ ~live
    /\ live' = TRUE
    /\ UNCHANGED <<lifeVars, cmdVars, taskVars, re, gate, queue, gDrain, ours, ready>>

CallEnds ==
    /\ re = "loop" /\ live
    /\ live' = FALSE
    /\ UNCHANGED <<lifeVars, cmdVars, taskVars, re, gate, queue, gDrain, ours, ready>>

-----------------------------------------------------------------------------

Callbacks == Dispatch \/ FinishDeath \/ \E n \in Cmd : Resume(n)

Expiries == \E n \in Cmd : Timeout(n)

Coroutines ==
    \/ WatchPing \/ WatchRefused \/ WatchGoesOn
    \/ DrainBegin \/ DrainAgain \/ DrainAnswered \/ DrainPoll \/ DrainRaises

Lifecycle ==
    \/ Started \/ Setting \/ SettingApplied \/ StartReturns \/ StartFails \/ StartFailed
    \/ SendStop \/ Joined \/ Closed

Application == Start \/ Close \/ Dial \/ \E n \in Cmd : Cancel(n)

ReThread == ReInit \/ Handle \/ HandleStop \/ LoopDone \/ Unwound \/ CheckClosing \/ Die

Outside == LoopFails \/ CallArrives \/ CallEnds

Next ==
    \/ Push \/ Callbacks \/ Expiries \/ Coroutines
    \/ Lifecycle \/ Application \/ ReThread \/ Outside

Spec == Init /\ [][Next]_vars

-----------------------------------------------------------------------------

(* Types, and the queue never above its limit. *)
TypeOK ==
    /\ state \in {"new", "running", "closing", "closed", "dead"}
    /\ life \in {"new", "starting", "settings", "up", "fail_stop", "fail_join",
                 "close_stop", "close_join", "close_log", "ended"}
    /\ active \in BOOLEAN /\ poisoned \in BOOLEAN /\ sink \in BOOLEAN
    /\ onDead \in 0 .. 1
    /\ pending \in [1 .. (SeqMod - 1) -> 0 .. MaxCmds]
    /\ seq.at \in 0 .. (SeqMod - 1) /\ seq.tick \in Nat
    /\ cmds \in 0 .. MaxCmds /\ calling \in 0 .. cmds
    /\ \A n \in Cmd :
          /\ cmd[n].seq \in 0 .. (SeqMod - 1) /\ cmd[n].tick \in Nat
          /\ cmd[n].op \in Op /\ cmd[n].from \in 0 .. cmds /\ cmd[n].zero \in BOOLEAN
          /\ cmd[n].fut \in {"none", "open", "answer", "dead", "closed", "cancelled"}
          /\ cmd[n].out \in Outcome \cup {"none"}
    /\ setting \in 0 .. cmds
    /\ watch.at \in {"off", "sleeping", "pinging", "ended"} /\ watch.cmd \in 0 .. cmds
    /\ drain.at \in {"idle", "setting", "polling", "counting", "returned"}
    /\ drain.cmd \in 0 .. cmds
    /\ draining \in BOOLEAN
    /\ re \in {"none", "init", "failed", "loop", "left", "unwind", "down", "dying", "gone"}
    /\ gate \in BOOLEAN /\ gDrain \in BOOLEAN /\ live \in BOOLEAN /\ ours \in BOOLEAN
    /\ Len(queue) <= QCap

(* Every future somebody waits for, and nobody has completed, is in         *)
(* _pending under its own number: whatever times out, is cancelled or wraps *)
(* around, a completion, a death and a close can still reach it.            *)
NoLostFuture ==
    /\ TypeOK
    /\ \A n \in Cmd : Waiting(n) /\ cmd[n].fut = "open" => pending[cmd[n].seq] = n

(* A command is completed by its own completion, however late an answer to  *)
(* a command that timed out comes in -- unless the numbers have wrapped all *)
(* the way around since.                                                    *)
OwnAnswer ==
    \A n \in Cmd :
        LET m == cmd[n].from IN
        cmd[n].fut = "answer" /\ m # n => cmd[n].tick - cmd[m].tick >= SeqMod - 1

(* While a SIP thread of this runtime is up, no other runtime of the        *)
(* process can start: this one is the active one, or the process is         *)
(* poisoned, or the loop is blocked by the cleanup of a failed start.       *)
SuccessorIsSafe == Alive /\ LoopFree => active \/ poisoned

(* A close() never looks like a death: a SIP thread that left its loop      *)
(* because of the STOP this runtime sent does not report one, unless it had *)
(* been given up as wedged.                                                 *)
CloseIsNotDeath == ours /\ re = "dying" => poisoned

(* Nobody waits on a runtime that is over: once close() has joined or given *)
(* up the SIP thread, or the death has been handled on the loop, no command *)
(* waits for an answer that cannot come.                                    *)
NobodyLeftWaiting ==
    (life \in {"close_log", "ended"} /\ state \in {"closing", "closed", "dead"} /\ watch.at = "ended")
    \/ onDead > 0
    => \A n \in Cmd : ~(Waiting(n) /\ cmd[n].fut = "open")

(* A drain() that returned, once SET_DRAIN had reached the SIP thread,      *)
(* means that no call is left and none will come: the last count was taken  *)
(* after the flag was set and after every dial() that was let through.  (By *)
(* any count: its answer may have gone to a later one a round of numbers    *)
(* on.)                                                                    *)
DrainedStaysIdle == drain.at = "returned" /\ gDrain => ~live

(* close() comes to an end, with a SIP thread that is wedged in its loop, in *)
(* a handler or, once STOP was sent, in its teardown too.  Only a teardown    *)
(* that never ends, of a loop that failed before STOP was sent, holds close() *)
(* up for good: the worker that sends STOP waits for its lock, and close()    *)
(* for the worker.                                                            *)
CloseEnds ==
    \/ life \in {"close_stop", "close_join", "close_log"} ~> life = "ended"
    \/ <>[](life = "close_stop" /\ re = "unwind")

(* The same without the exception; a wedged teardown violates it. *)
CloseAlwaysEnds == life \in {"close_stop", "close_join", "close_log"} ~> life = "ended"

(* Death is never silent: a thread that died gets on_dead called. *)
DeathIsReported == re = "dying" ~> onDead > 0

(* What the states are said to be: dead is final. *)
DeadIsFinal == [][state = "dead" => state' = "dead"]_state

(* A drain() that returned has new inbound calls refused. *)
DrainRefuses == drain.at = "returned" /\ re = "loop" => gDrain
=============================================================================
