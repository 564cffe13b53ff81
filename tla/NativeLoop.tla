----------------------------- MODULE NativeLoop ------------------------------
(***************************************************************************)
(* The command queue of _native/shim.c and the loop's lifecycle: bp_cmd on *)
(* any thread, bp_loop_init, bp_loop_run and bp_loop_done on the re thread *)
(* and, misordered, on others, all serialised by g_lock; and cmd_handler,  *)
(* which runs inside re_main without the lock and takes it only to close   *)
(* the gate on a STOP.                                                     *)
(***************************************************************************)
EXTENDS Integers, Sequences, SequencesExt

CONSTANTS Re,         \* re threads: each goes through init, run and done
          Caller,     \* every other thread
          NoThread,   \* the holder of a free lock
          QCap,       \* how many messages the queue's pipe takes
          MaxCmds,    \* bound: calls of bp_cmd
          MaxInits    \* bound: calls of bp_loop_init that allocate a queue

ASSUME NativeLoopAssumption ==
    /\ Re \cap Caller = {}
    /\ NoThread \notin Re \cup Caller
    /\ QCap \in Nat \ {0}
    /\ MaxCmds \in Nat \ {0}
    /\ MaxInits \in Nat

Thread == Re \cup Caller

(* Where a thread is.  A name ending in "?" waits for g_lock. *)
Places == {"out", "cmd?", "init?", "initing", "run?", "loop", "stop?",
           "cancelling", "leave?", "done?", "undoing"}

Message == [id : 1 .. MaxCmds, op : {"ping", "stop"}]

(* What the histories say of each queue. *)
History == [1 .. MaxInits -> Seq(Message)]

VARIABLES
    lock,       \* who holds g_lock
    mq,         \* g_mq: 0 for NULL, or which allocation it is
    running,    \* g_running: the gate bp_cmd checks
    inLoop,     \* g_in_loop
    queue,      \* the messages in the queue mq points to
    place,      \* where each thread is
    msg,        \* the message a thread in bp_cmd has allocated
    using,      \* the queue the re_main a thread is in was entered with
    inits,      \* history: queues allocated
    cmds,       \* history: calls of bp_cmd
    accepted,   \* history: of each queue, the messages bp_cmd returned 0 for
    handled     \* history: of each queue, the messages cmd_handler ran

threadVars == <<place, msg, using>>
vars == <<lock, mq, running, inLoop, queue, place, msg, using, inits, cmds,
          accepted, handled>>

Init ==
    /\ lock = NoThread
    /\ mq = 0
    /\ running = FALSE
    /\ inLoop = FALSE
    /\ queue = <<>>
    /\ place = [t \in Thread |-> "out"]
    /\ msg = [t \in Thread |-> [id |-> 1, op |-> "ping"]]
    /\ using = [t \in Thread |-> 0]
    /\ inits = 0
    /\ cmds = 0
    /\ accepted = [g \in 1 .. MaxInits |-> <<>>]
    /\ handled = [g \in 1 .. MaxInits |-> <<>>]

-----------------------------------------------------------------------------

From(t, here) == place[t] = here

Goes(t, there) == place' = [place EXCEPT ![t] = there]

(* g_lock, taken and released around code nobody else can see a part of. *)
LockFree == lock = NoThread

-----------------------------------------------------------------------------
(* bp_cmd                                                                  *)

(* The message is allocated before the lock is asked for. *)
CmdEnter(t, op) ==
    /\ From(t, "out") /\ cmds < MaxCmds
    /\ cmds' = cmds + 1
    /\ msg' = [msg EXCEPT ![t] = [id |-> cmds + 1, op |-> op]]
    /\ Goes(t, "cmd?")
    /\ UNCHANGED <<lock, mq, running, inLoop, queue, using, inits, accepted, handled>>

(* ESHUTDOWN *)
GateClosed == ~running \/ mq = 0

(* EAGAIN: the pipe takes no more. *)
QueueFull == Len(queue) >= QCap

(* Mutant of Enqueued: STOP does not wait for the commands before it. *)
EnqueuedStopFirst(m) ==
    queue' = IF QueueFull THEN queue
             ELSE IF m.op = "stop" THEN <<m>> \o queue ELSE Append(queue, m)

(* mqueue_push *)
Enqueued(m) == queue' = IF QueueFull THEN queue ELSE Append(queue, m)

(* The gate check and the push, under the lock. *)
CmdPush(t) ==
    /\ From(t, "cmd?") /\ LockFree
    /\ IF GateClosed
       THEN UNCHANGED <<queue, accepted>>
       ELSE /\ Enqueued(msg[t])
            /\ accepted' = IF QueueFull THEN accepted
                           ELSE [accepted EXCEPT ![mq] = Append(@, msg[t])]
    /\ Goes(t, "out")
    /\ UNCHANGED <<lock, mq, running, inLoop, msg, using, inits, cmds, handled>>

-----------------------------------------------------------------------------
(* bp_loop_init                                                            *)

InitEnter(t) ==
    /\ t \in Re /\ From(t, "out")
    /\ mq # 0 \/ inits < MaxInits
    /\ Goes(t, "init?")
    /\ UNCHANGED <<lock, mq, running, inLoop, queue, msg, using, inits, cmds,
                   accepted, handled>>

(* EALREADY, or the lock for as long as the stack takes to come up. *)
InitLock(t) ==
    /\ From(t, "init?") /\ LockFree
    /\ IF mq # 0
       THEN Goes(t, "out") /\ lock' = lock
       ELSE Goes(t, "initing") /\ lock' = t
    /\ UNCHANGED <<mq, running, inLoop, queue, msg, using, inits, cmds, accepted, handled>>

(* Everything came up: the queue is the last step before the gate opens. *)
InitSucceeds(t) ==
    /\ From(t, "initing") /\ inits < MaxInits
    /\ inits' = inits + 1
    /\ mq' = inits + 1
    /\ queue' = <<>>
    /\ running' = TRUE
    /\ lock' = NoThread
    /\ Goes(t, "run?")
    /\ UNCHANGED <<inLoop, msg, using, cmds, accepted, handled>>

(* Mutant of InitFails: a failure path that returns with the lock held. *)
InitFailsLocked(t) ==
    /\ From(t, "initing")
    /\ Goes(t, "out")
    /\ UNCHANGED <<lock, mq, running, inLoop, queue, msg, using, inits, cmds,
                   accepted, handled>>

(* A step failed and what was up was unwound. *)
InitFails(t) ==
    /\ From(t, "initing")
    /\ lock' = NoThread
    /\ Goes(t, "out")
    /\ UNCHANGED <<mq, running, inLoop, queue, msg, using, inits, cmds, accepted, handled>>

-----------------------------------------------------------------------------
(* bp_loop_run                                                             *)

(* EINVAL or EALREADY *)
RunRefused == mq = 0 \/ inLoop

(* The flag is set under the lock, re_main entered after it. *)
RunBody(t, otherwise) ==
    /\ LockFree
    /\ IF RunRefused
       THEN Goes(t, otherwise) /\ UNCHANGED <<inLoop, using>>
       ELSE /\ inLoop' = TRUE
            /\ using' = [using EXCEPT ![t] = mq]
            /\ Goes(t, "loop")
    /\ UNCHANGED <<lock, mq, running, queue, msg, inits, cmds, accepted, handled>>

(* On the re thread, which tears down whatever run returned. *)
Run(t) == From(t, "run?") /\ RunBody(t, "done?")

(* Misordered, on another thread. *)
StrayRun(t) ==
    /\ t \in Caller /\ From(t, "out")
    /\ mq = 0 \/ inLoop
    /\ RunBody(t, "out")

-----------------------------------------------------------------------------
(* cmd_handler, one message at a time inside re_main.                      *)

Handled(t, m) == handled' = [handled EXCEPT ![using[t]] = Append(@, m)]

(* Mutant of HandlePing: only the first of the waiting messages is run. *)
HandlePingDropsRest(t) ==
    /\ From(t, "loop") /\ queue # <<>> /\ Head(queue).op = "ping"
    /\ Handled(t, Head(queue))
    /\ queue' = <<>>
    /\ UNCHANGED <<lock, mq, running, inLoop, threadVars, inits, cmds, accepted>>

HandlePing(t) ==
    /\ From(t, "loop") /\ queue # <<>> /\ Head(queue).op = "ping"
    /\ Handled(t, Head(queue))
    /\ queue' = Tail(queue)
    /\ UNCHANGED <<lock, mq, running, inLoop, threadVars, inits, cmds, accepted>>

HandleStop(t) ==
    /\ From(t, "loop") /\ queue # <<>> /\ Head(queue).op = "stop"
    /\ Handled(t, Head(queue))
    /\ queue' = Tail(queue)
    /\ Goes(t, "stop?")
    /\ UNCHANGED <<lock, mq, running, inLoop, msg, using, inits, cmds, accepted>>

(* Mutant of StopGate: the gate stays open. *)
StopLeavesGate(t) ==
    /\ From(t, "stop?") /\ LockFree
    /\ Goes(t, "cancelling")
    /\ UNCHANGED <<lock, mq, running, inLoop, queue, msg, using, inits, cmds,
                   accepted, handled>>

(* The gate closes under the lock. *)
StopGate(t) ==
    /\ From(t, "stop?") /\ LockFree
    /\ running' = FALSE
    /\ Goes(t, "cancelling")
    /\ UNCHANGED <<lock, mq, inLoop, queue, msg, using, inits, cmds, accepted, handled>>

(* re_cancel: the handler returns and re_main handles nothing more. *)
Cancel(t) ==
    /\ From(t, "cancelling")
    /\ Goes(t, "leave?")
    /\ UNCHANGED <<lock, mq, running, inLoop, queue, msg, using, inits, cmds,
                   accepted, handled>>

(* re_main returns on its own, with an error. *)
LoopFails(t) ==
    /\ From(t, "loop")
    /\ Goes(t, "leave?")
    /\ UNCHANGED <<lock, mq, running, inLoop, queue, msg, using, inits, cmds,
                   accepted, handled>>

(* The end of bp_loop_run. *)
Leave(t) ==
    /\ From(t, "leave?") /\ LockFree
    /\ inLoop' = FALSE
    /\ using' = [using EXCEPT ![t] = 0]
    /\ Goes(t, IF t \in Re THEN "done?" ELSE "out")
    /\ UNCHANGED <<lock, mq, running, queue, msg, inits, cmds, accepted, handled>>

-----------------------------------------------------------------------------
(* bp_loop_done                                                            *)

(* Mutant of DoneRefused: a loop that is running is no reason to refuse. *)
DoneRefusedUninitialised == mq = 0

(* EINVAL or EBUSY *)
DoneRefused == mq = 0 \/ inLoop

(* The gate is closed and the queue freed, with what was in it, before the  *)
(* stack is unwound under the lock.                                         *)
DoneBody(t) ==
    /\ LockFree
    /\ IF DoneRefused
       THEN Goes(t, "out") /\ UNCHANGED <<lock, mq, running, queue>>
       ELSE /\ running' = FALSE
            /\ mq' = 0
            /\ queue' = <<>>
            /\ lock' = t
            /\ Goes(t, "undoing")
    /\ UNCHANGED <<inLoop, msg, using, inits, cmds, accepted, handled>>

Done(t) == From(t, "done?") /\ DoneBody(t)

(* At any time, on another thread: refused, or before the loop ran. *)
StrayDone(t) == t \in Caller /\ From(t, "out") /\ DoneBody(t)

DoneReturns(t) ==
    /\ From(t, "undoing")
    /\ lock' = NoThread
    /\ Goes(t, "out")
    /\ UNCHANGED <<mq, running, inLoop, queue, msg, using, inits, cmds, accepted, handled>>

-----------------------------------------------------------------------------

Calls(t) ==
    \/ \E op \in {"ping", "stop"} : t \in Caller /\ CmdEnter(t, op)
    \/ InitEnter(t) \/ StrayRun(t) \/ StrayDone(t)

TakesLock(t) ==
    \/ CmdPush(t) \/ InitLock(t) \/ Run(t) \/ StopGate(t) \/ Leave(t) \/ Done(t)

Proceeds(t) ==
    \/ InitSucceeds(t) \/ InitFails(t) \/ Cancel(t) \/ DoneReturns(t)
    \/ HandlePing(t) \/ HandleStop(t)

Next == \E t \in Thread : Calls(t) \/ TakesLock(t) \/ Proceeds(t) \/ LoopFails(t)

Spec == Init /\ [][Next]_vars

(* A thread that is not waiting goes on, and one that waits for the lock    *)
(* gets it if it is free again and again.  Nobody has to call anything, and *)
(* the loop does not have to fail.                                          *)
FairSpec ==
    /\ Spec
    /\ \A t \in Thread : WF_vars(Proceeds(t)) /\ SF_vars(TakesLock(t))

-----------------------------------------------------------------------------

(* Types; and the queue never holds more than its pipe takes. *)
TypeOK ==
    /\ lock \in Thread \cup {NoThread}
    /\ mq \in 0 .. inits /\ inits \in 0 .. MaxInits /\ cmds \in 0 .. MaxCmds
    /\ running \in BOOLEAN /\ inLoop \in BOOLEAN
    /\ queue \in Seq(Message) /\ Len(queue) <= QCap
    /\ place \in [Thread -> Places]
    /\ msg \in [Thread -> Message]
    /\ using \in [Thread -> 0 .. MaxInits]
    /\ accepted \in History /\ handled \in History

InReMain(t) == place[t] \in {"loop", "stop?", "cancelling"}

(* The use after free the lock and EBUSY are for: while a thread is inside  *)
(* re_main, the queue its handlers read is the one g_mq still points to,    *)
(* whatever bp_loop_done and bp_loop_init any other thread calls; only one  *)
(* thread is ever inside, and g_in_loop says so.                            *)
QueueOutlivesLoop ==
    /\ TypeOK
    /\ \A t \in Thread : InReMain(t) => using[t] = mq /\ mq # 0 /\ inLoop
    /\ \A t, u \in Thread : InReMain(t) /\ InReMain(u) => t = u

(* Commands are handled in the order they were accepted, at most once, and  *)
(* only if they were accepted: for each queue ever allocated, what was      *)
(* handled is a prefix of what was accepted, and in the live queue exactly  *)
(* the rest is waiting.                                                     *)
InOrderAtMostOnce ==
    \A g \in 1 .. inits :
        /\ IsPrefix(handled[g], accepted[g])
        /\ g = mq => handled[g] \o queue = accepted[g]

(* Once the handler of a STOP has had the lock, no command is accepted until *)
(* the loop is initialised again, however late bp_cmd was called.           *)
NothingAfterStop ==
    [][accepted' # accepted =>
           LET stops == {k \in 1 .. Len(handled[mq]) : handled[mq][k].op = "stop"}
           IN  stops # {} => \E t \in Thread : place[t] = "stop?" /\ using[t] = mq]_vars

(* What bp_cmd returned 0 for is handled, as long as the loop that runs     *)
(* goes on: only a loop that leaves, on a STOP queued before or on an       *)
(* error, loses a command.                                                  *)
AcceptedIsHandled ==
    \A n \in 1 .. MaxCmds :
        (inLoop /\ \E i \in 1 .. Len(queue) : queue[i].id = n)
            ~> (~inLoop \/ \E g \in 1 .. MaxInits :
                               \E k \in 1 .. Len(handled[g]) : handled[g][k].id = n)

(* No call hangs on g_lock: bp_cmd always returns, and a re thread told to  *)
(* initialise gets its answer, even while others tear the loop down.        *)
CallsReturn ==
    \A t \in Thread :
        /\ place[t] = "cmd?" ~> place[t] = "out"
        /\ place[t] \in {"init?", "initing"} ~> place[t] \notin {"init?", "initing"}
        /\ place[t] \in {"done?", "undoing"} ~> place[t] = "out"
=============================================================================
