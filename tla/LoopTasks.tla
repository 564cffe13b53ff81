------------------------------ MODULE LoopTasks ------------------------------
(***************************************************************************)
(* Coroutines of one asyncio loop that send commands to the re thread: the *)
(* part of runtime.py that every operation of call.py and ua.py goes       *)
(* through.  Everything the re thread hands over, and every coroutine a    *)
(* finished future wakes, goes through the loop's one queue of callbacks.  *)
(* The bodies of the coroutines, and what a command or an event does, are  *)
(* left to the modules that extend this one.                               *)
(***************************************************************************)
EXTENDS Integers, Sequences

VARIABLES
    queue,      \* commands on their way to the re thread: [op, by, no, ...]
    telling,    \* what the re thread has still to hand over, one at a time
    ready,      \* the loop's callbacks: [kind, ev], [kind, by, no, res], [kind, by]
    task        \* each coroutine: [at, fut, expired, op, no, out]

loopVars == <<queue, telling, ready, task>>

Idle == [at |-> "idle", fut |-> "none", expired |-> FALSE, op |-> "none",
         no |-> 0, out |-> "none"]

Event(e) == [kind |-> "event", ev |-> e]
Done(c, r) == [kind |-> "done", by |-> c.by, no |-> c.no, res |-> r]
Wake(t) == [kind |-> "wake", by |-> t]

(* A coroutine that awaits its future somewhere, and one that is over. *)
Suspended(at, op, no) ==
    [at |-> at, fut |-> "open", expired |-> FALSE, op |-> op, no |-> no, out |-> "none"]
Finished(op, out) ==
    [at |-> "over", fut |-> "none", expired |-> FALSE, op |-> op, no |-> 0, out |-> out]

Became(t, record) == task' = [task EXCEPT ![t] = record]

-----------------------------------------------------------------------------
(* Runtime.cmd, as a coroutine awaits it.                                  *)

(* The command c, number c.no of the coroutine c.by, is pushed, or rejected *)
(* by a full queue.                                                         *)
Await(c) ==
    \/ /\ queue' = Append(queue, c)
       /\ Became(c.by, Suspended("awaiting", c.op, c.no))
    \/ /\ queue' = queue
       /\ Became(c.by, Finished(c.op, "rejected"))

(* A future is completed: its coroutine is scheduled behind whatever the    *)
(* loop already has to run.                                                 *)
Completes(t, r, record, callbacks) ==
    /\ task' = [record EXCEPT ![t].fut = r]
    /\ ready' = Append(callbacks, Wake(t))

Blocked == {"awaiting", "waiting", "hanging"}

(* Mutant of Expires: the coroutine is not scheduled. *)
ExpiresAsleep(t) ==
    /\ task[t].at \in Blocked /\ ~task[t].expired
    /\ task' = [task EXCEPT ![t].expired = TRUE,
                            ![t].fut = IF @ = "open" THEN "cancelled" ELSE @]
    /\ UNCHANGED <<queue, telling, ready>>

(* The timeout of cmd(), or of wait_for() around an outcome: the coroutine  *)
(* will find itself timed out when it runs, even if its future was completed *)
(* since.                                                                    *)
Expires(t) ==
    /\ task[t].at \in Blocked /\ ~task[t].expired
    /\ task' = [task EXCEPT ![t].expired = TRUE,
                            ![t].fut = IF @ = "open" THEN "cancelled" ELSE @]
    /\ ready' = IF task[t].fut = "open" THEN Append(ready, Wake(t)) ELSE ready
    /\ UNCHANGED <<queue, telling>>

-----------------------------------------------------------------------------
(* The loop's callbacks.                                                   *)

Rest == Tail(ready)

(* _dispatch of a completion: it may be too late for the coroutine. *)
DispatchDone ==
    /\ ready # <<>> /\ Head(ready).kind = "done"
    /\ LET d == Head(ready) IN
       IF /\ task[d.by].at \in {"awaiting", "hanging"} /\ task[d.by].fut = "open"
          /\ task[d.by].no = d.no
       THEN Completes(d.by, d.res, task, Rest)
       ELSE task' = task /\ ready' = Rest
    /\ UNCHANGED <<queue, telling>>

Woken(t) == ready # <<>> /\ Head(ready) = Wake(t) /\ ready' = Rest

-----------------------------------------------------------------------------
(* The re thread.                                                          *)

Tells(callbacks) == telling = <<>> /\ telling' = callbacks

Command(o) == queue # <<>> /\ Head(queue).op \in o /\ queue' = Tail(queue)

(* One event or completion is handed over: call_soon_threadsafe. *)
Report ==
    /\ telling # <<>>
    /\ ready' = Append(ready, Head(telling)) /\ telling' = Tail(telling)
    /\ UNCHANGED <<queue, task>>
=============================================================================
