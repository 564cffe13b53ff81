------------------------------ MODULE Requests -------------------------------
(***************************************************************************)
(* The operations of call.py and ua.py that send a command and take their  *)
(* outcome from events: hold, resume and the video direction, the blind    *)
(* and the attended transfer, the peer's transfer requests and the agent's *)
(* policy about them, DTMF, and registration.  Any of them may overlap;    *)
(* calls are established at the start, and the far end may close them.     *)
(*                                                                         *)
(* The stack is the environment: one session refresh of a call at a time   *)
(* (call_hold and call_set_video_dir say nothing when they could not send  *)
(* theirs), one REFER subscription per call (a new one replaces the old),  *)
(* registrations answered in order.                                        *)
(***************************************************************************)
EXTENDS LoopTasks, SequencesExt

CONSTANTS
    Calls,        \* the established calls of one user agent
    Settings,     \* bound: what a run begins with: [kinds, on, ops, news, calls, policy, registered]
    Digits,       \* bound: digits of one send_dtmf()
    MaxTasks      \* bound: coroutines in all

Operation == {"hold", "resume", "video", "transfer", "attended", "accept", "reject",
              "dtmf", "register", "unregister"}

ASSUME RequestsAssumption ==
    /\ Settings \subseteq [kinds : SUBSET Operation, on : SUBSET Calls, calls : SUBSET Calls,
                           ops : Nat, news : Nat,
                           policy : {"manual", "auto", "reject"}, registered : BOOLEAN]
    /\ Digits \in Nat \ {0} /\ MaxTasks \in Nat
    /\ \A s \in Settings :
          s.ops + (IF s.policy = "manual" THEN 0 ELSE s.news) <= MaxTasks
    /\ 0 \notin Calls

(* The coroutines: the application's operations in the order they begin,    *)
(* and behind them the policy's tasks, by the request they are about.       *)
Task == 1 .. MaxTasks

VARIABLES
    job,        \* each coroutine's locals: [kind, call, with, leg, step, saw, left, req, verdict, whose]
    stack,      \* the stack's side of each call: [live, held, told, busy, refer, asked, key];
                \* history: denied, a hold command was refused and none carried out since
    obj,        \* the Call objects: [up, onHold, pending, request]
    app,        \* the operations the application uses, the agent's policy, the calls there are
    registrar,  \* [bound, air]: the binding, REGISTERs in flight, each the task's it is by, or the
                \* stack's own (0); history: refused, the tasks whose un-REGISTER was refused
    registered, \* UserAgent._registered
    ops,        \* history: the operations begun
    news,       \* history: what the far ends and the stack have begun
    murky,      \* history: calls whose hold and video operations were blurred (see Blurs)
    due         \* history: per call, the newest request reported and not decided: [no, lost]

nativeVars == <<stack, registrar, news>>
vars == <<loopVars, job, nativeVars, obj, app, registered, ops, murky, due>>

Job(k, c) == [kind |-> k, call |-> c, with |-> 0, leg |-> 1, step |-> "none", saw |-> FALSE,
              left |-> 0, req |-> 0, verdict |-> "none", whose |-> 0]

NoJob == Job("none", 0)

Init ==
    /\ queue = <<>> /\ telling = <<>> /\ ready = <<>>
    /\ task = [t \in Task |-> Idle]
    /\ job = [t \in Task |-> NoJob]
    /\ app \in Settings
    /\ stack = [c \in Calls |-> [live |-> c \in app.calls, held |-> FALSE, told |-> FALSE,
                                 denied |-> FALSE, busy |-> FALSE, refer |-> 0, asked |-> 0, key |-> FALSE]]
    /\ obj = [c \in Calls |-> [up |-> c \in app.calls, onHold |-> FALSE, pending |-> FALSE,
                               request |-> 0]]
    /\ registered = app.registered
    /\ registrar = [bound |-> registered, air |-> <<>>, refused |-> {}]
    /\ ops = 0 /\ news = 0
    /\ murky = {}
    /\ due = [c \in Calls |-> [no |-> 0, lost |-> FALSE]]

Running(t) == task[t].at \notin {"idle", "over"}

NextOne == ops + 1
PolicyTask(request) == app.ops + request

(* The call whose hold state an operation is changing. *)
Leg(j) == IF j.kind = "attended" /\ j.leg = 2 THEN j.with ELSE j.call
Want(j) == j.kind # "resume"

(* The coroutines with a session refresh of c out. *)
Refreshing(c) == {t \in Task : task[t].at = "awaiting" /\ Leg(job[t]) = c
                                /\ job[t].step \in {"hold", "undo", "video"}}

-----------------------------------------------------------------------------
(* What a coroutine does when it runs: it sends a command, waits for an     *)
(* outcome, sleeps, or ends.                                                *)

Asks(o, c) == [op |-> o, on |-> c, with |-> c, arg |-> FALSE]
Turns(o, c, b) == [op |-> o, on |-> c, with |-> c, arg |-> b]

Sends(t, j, s, c) ==
    /\ Await([op |-> c.op, on |-> c.on, with |-> c.with, arg |-> c.arg,
              by |-> t, no |-> task[t].no + 1])
    /\ job' = [job EXCEPT ![t] = [j EXCEPT !.step = s, !.saw = FALSE]]

Over(t, j, o) ==
    /\ Became(t, Finished("none", o))
    /\ job' = [job EXCEPT ![t] = [j EXCEPT !.step = "none", !.saw = FALSE]]
    /\ queue' = queue

Waits(t, at, s) ==
    /\ Became(t, [task[t] EXCEPT !.at = at, !.fut = "open", !.expired = FALSE])
    /\ job' = [job EXCEPT ![t].step = s]
    /\ queue' = queue

(* What a command came back with; the timeout goes before the answer. *)
Result(t) == IF task[t].expired THEN "expired" ELSE task[t].fut

(* _execute_transfer up to its first await: the flag is up while the        *)
(* command is out.                                                          *)
Refer(t, j, calls) ==
    /\ Sends(t, j, "refer", IF j.kind = "attended"
                            THEN [Asks("replace", j.call) EXCEPT !.with = j.with]
                            ELSE Asks("transfer", j.call))
    /\ obj' = [calls EXCEPT ![j.call].pending = (task'[t].at = "awaiting")]

(* attended_transfer from one of its legs on: those held already are        *)
(* skipped, a leg that is gone ends it, and after both the REFER goes out.  *)
Attend(t, j, leg, calls) ==
    LET next == IF leg = 1 /\ ~calls[j.call].onHold THEN 1
                ELSE IF leg <= 2 /\ ~calls[j.with].onHold THEN 2 ELSE 3
        c == IF next = 1 THEN j.call ELSE j.with
    IN IF next = 3 THEN Refer(t, j, calls)
       ELSE /\ obj' = calls
            /\ IF calls[c].up
               THEN Sends(t, [j EXCEPT !.leg = next], "hold", Turns("hold", c, TRUE))
               ELSE Over(t, j, "raised")

-----------------------------------------------------------------------------
(* The application begins an operation.  One that raises or returns before  *)
(* its first await changes nothing, and is left out.                        *)

Begins(k) == k \in app.kinds /\ ops < app.ops /\ ops' = ops + 1

(* hold() and resume() *)
SetHold(c, k) ==
    /\ Begins(k)
    /\ obj[c].onHold # Want(Job(k, c)) /\ obj[c].up
    /\ Sends(NextOne, Job(k, c), "hold", Turns("hold", c, k = "hold"))
    /\ obj' = obj

(* set_video_direction() *)
SetVideoDirection(c) ==
    /\ Begins("video") /\ obj[c].up
    /\ Sends(NextOne, Job("video", c), "video", Asks("video", c))
    /\ obj' = obj

(* transfer() *)
Transfer(c) ==
    /\ Begins("transfer") /\ obj[c].up /\ ~obj[c].pending
    /\ Refer(NextOne, Job("transfer", c), obj)

(* attended_transfer() *)
AttendedTransfer(c, d) ==
    /\ Begins("attended") /\ c # d /\ obj[c].up /\ obj[d].up /\ ~obj[c].pending
    /\ Attend(NextOne, [Job("attended", c) EXCEPT !.with = d], 1, obj)

(* accept_transfer() and reject_transfer() *)
Decide(c, k) ==
    /\ Begins(k) /\ obj[c].request # 0
    /\ Sends(NextOne, [Job(k, c) EXCEPT !.req = obj[c].request], k, Asks(k, c))
    /\ obj' = obj

(* send_dtmf() *)
SendDtmf(c) ==
    /\ Begins("dtmf")
    /\ Sends(NextOne, [Job("dtmf", c) EXCEPT !.left = Digits], "press", Turns("digit", c, TRUE))
    /\ obj' = obj

(* register() and unregister() *)
Registration(k) ==
    /\ Begins(k) /\ (k = "unregister" => registered)
    /\ Sends(NextOne, Job(k, 0), k, Asks(k, 0))
    /\ obj' = obj

Application ==
    /\ \/ \E c \in app.on :
              \/ \E k \in {"hold", "resume"} : SetHold(c, k)
              \/ SetVideoDirection(c)
              \/ Transfer(c)
              \/ SendDtmf(c)
              \/ \E d \in Calls : AttendedTransfer(c, d)
              \/ \E k \in {"accept", "reject"} : Decide(c, k)
       \/ \E k \in {"register", "unregister"} : Registration(k)
    /\ UNCHANGED <<nativeVars, telling, ready, app, registered, due>>

-----------------------------------------------------------------------------
(* The loop's callbacks: events.                                           *)

(* The listener of _execute_transfer, *)
TakesOutcome(t, e) ==
    /\ job[t].step \in {"refer", "outcome"} /\ job[t].call = e.on
    /\ e.ev \in {"failed", "transferred", "closed"}

(* and that of _registration_outcome. *)
TakesAnswer(t, e) ==
    /\ job[t].step \in {"register", "unregister", "answer"}
    /\ e.ev \in {"regok", "regfail"}

Takes(t, e) ==
    /\ Running(t) /\ job[t].verdict = "none"
    /\ TakesOutcome(t, e) \/ TakesAnswer(t, e)

(* Mutant of Verdict: any end of the call is a success. *)
VerdictAnyEnd(e) == IF e.ev \in {"transferred", "closed", "regok"} THEN "ok" ELSE "failed"

Verdict(e) == IF e.ev \in {"transferred", "regok"} THEN "ok" ELSE "failed"

(* The listener of _set_hold and set_video_direction. *)
Sees(t, e) ==
    /\ e.ev = "offer" /\ e.on = Leg(job[t]) /\ Running(t) /\ job[t].step \in {"hold", "video"}

JobAfter(t, e) ==
    IF Takes(t, e) THEN [job[t] EXCEPT !.verdict = Verdict(e), !.whose = e.of]
    ELSE IF Sees(t, e) THEN [job[t] EXCEPT !.saw = TRUE]
    ELSE job[t]

(* Call._on_stack_event *)
ObjAfter(c, e) ==
    IF e.on # c \/ ~obj[c].up THEN obj[c]
    ELSE CASE e.ev = "refer"  -> [obj[c] EXCEPT !.request = e.of]
           [] e.ev = "failed" -> [obj[c] EXCEPT !.request = 0]
           [] e.ev \in {"transferred", "closed"} -> [obj[c] EXCEPT !.up = FALSE]
           [] OTHER -> obj[c]

(* History: a request is reported; or given up -- or forgotten, when it is  *)
(* a transfer of ours that failed.                                          *)
DueAfter(c, e) ==
    IF e.on # c THEN due[c]
    ELSE CASE e.ev = "refer" -> [no |-> e.of, lost |-> FALSE]
           [] e.ev = "failed" /\ e.of = 0 -> [no |-> 0, lost |-> FALSE]
           [] e.ev = "failed" /\ e.of # 0 -> [due[c] EXCEPT !.lost = TRUE]
           [] OTHER -> due[c]

(* _deliver_stack_event: the coroutines that wait for their outcome are     *)
(* scheduled, and so is a task of the policy for a transfer request.        *)
DispatchEvent ==
    /\ ready # <<>> /\ Head(ready).kind = "event"
    /\ LET e == Head(ready).ev
           woken == {t \in Task : Takes(t, e) /\ task[t].at = "waiting" /\ task[t].fut = "open"}
           spawned == IF e.ev = "refer" /\ app.policy # "manual" THEN {PolicyTask(e.of)} ELSE {}
       IN /\ obj' = [c \in Calls |-> ObjAfter(c, e)]
          /\ due' = [c \in Calls |-> DueAfter(c, e)]
          /\ job' = [t \in Task |-> IF t \in spawned THEN Job("policy", e.on) ELSE JobAfter(t, e)]
          /\ task' = [t \in Task |-> CASE t \in woken   -> [task[t] EXCEPT !.fut = "ok"]
                                        [] t \in spawned -> [Idle EXCEPT !.at = "starting"]
                                        [] OTHER         -> task[t]]
          /\ \E order \in SetToSeqs(woken \cup spawned) :
                ready' = Rest \o [i \in DOMAIN order |-> Wake(order[i])]
    /\ UNCHANGED <<nativeVars, queue, telling, app, registered, ops>>

-----------------------------------------------------------------------------
(* The loop's callbacks: a coroutine goes on.                              *)

(* Mutant of HoldReturns: the missing offer is not noticed. *)
HoldReturnsTrusting(t) ==
    /\ Woken(t) /\ job[t].step = "hold" /\ registered' = registered /\ due' = due
    /\ LET j == job[t]
           c == Leg(j)
           calls == [obj EXCEPT ![c].onHold = Want(j)]
       IN \/ /\ Result(t) = "ok"
             /\ IF j.kind = "attended" THEN Attend(t, j, j.leg + 1, calls)
                ELSE Over(t, j, "ok") /\ obj' = calls
          \/ /\ Result(t) # "ok"
             /\ Over(t, j, IF Result(t) = "stale" THEN "stale" ELSE "raised") /\ obj' = obj

(* _set_hold after its command: a re-INVITE that was not sent is taken back *)
(* with a second command, so that a later try starts clean.                 *)
HoldReturns(t) ==
    /\ Woken(t) /\ job[t].step = "hold" /\ registered' = registered /\ due' = due
    /\ LET j == job[t]
           c == Leg(j)
           calls == [obj EXCEPT ![c].onHold = Want(j)]
       IN \/ /\ Result(t) = "ok" /\ j.saw
             /\ IF j.kind = "attended" THEN Attend(t, j, j.leg + 1, calls)
                ELSE Over(t, j, "ok") /\ obj' = calls
          \/ /\ Result(t) = "ok" /\ ~j.saw
             /\ Sends(t, j, "undo", Turns("hold", c, ~Want(j))) /\ obj' = obj
          \/ /\ Result(t) # "ok"
             /\ Over(t, j, IF Result(t) = "stale" THEN "stale" ELSE "raised") /\ obj' = obj

(* _set_hold raises, whatever became of the second command. *)
UndoReturns(t) ==
    /\ Woken(t) /\ job[t].step = "undo"
    /\ Over(t, job[t], IF Result(t) \in {"ok", "stale"} THEN "unsent" ELSE "raised")
    /\ UNCHANGED <<obj, registered, due>>

(* set_video_direction after its command: nothing is taken back. *)
VideoReturns(t) ==
    /\ Woken(t) /\ job[t].step = "video"
    /\ Over(t, job[t], CASE Result(t) = "ok" -> IF job[t].saw THEN "ok" ELSE "unsent"
                          [] Result(t) = "stale" -> "stale"
                          [] OTHER -> "raised")
    /\ UNCHANGED <<obj, registered, due>>

(* The end of _execute_transfer, register() or unregister(), by its outcome *)
(* or without one.                                                          *)
Concludes(t, o) ==
    /\ Over(t, job[t], o)
    /\ obj' = IF job[t].kind \in {"transfer", "attended"}
              THEN [obj EXCEPT ![job[t].call].pending = FALSE] ELSE obj
    /\ registered' = IF o = "ok" /\ job[t].kind \in {"register", "unregister"}
                     THEN job[t].kind = "register" ELSE registered

(* Its command is answered: the outcome may be there already. *)
Sent(t) ==
    /\ Woken(t) /\ job[t].step \in {"refer", "register", "unregister"} /\ due' = due
    /\ IF Result(t) # "ok" THEN Concludes(t, "raised")
       ELSE IF job[t].verdict # "none" THEN Concludes(t, job[t].verdict)
       ELSE /\ Waits(t, "waiting", IF job[t].step = "refer" THEN "outcome" ELSE "answer")
            /\ UNCHANGED <<obj, registered>>

(* Its outcome has come, or wait_for's timeout. *)
Outcome(t) ==
    /\ Woken(t) /\ task[t].at = "waiting" /\ due' = due
    /\ Concludes(t, IF task[t].expired THEN "timeout" ELSE job[t].verdict)

(* Mutant of DecisionReturns: the request is cleared before the result is   *)
(* looked at.                                                               *)
DecisionReturnsCleared(t) ==
    /\ Woken(t) /\ job[t].kind \in {"accept", "reject"} /\ registered' = registered
    /\ LET c == job[t].call
           good == Result(t) = "ok"
       IN /\ Over(t, job[t], IF good THEN "ok" ELSE "raised")
          /\ obj' = [obj EXCEPT ![c].request = 0]
          /\ due' = IF ~good THEN due
                    ELSE IF due[c].no = job[t].req THEN [due EXCEPT ![c] = [no |-> 0, lost |-> FALSE]]
                    ELSE [due EXCEPT ![c].lost = TRUE]

(* accept_transfer() and reject_transfer() go on. *)
DecisionReturns(t) ==
    /\ Woken(t) /\ job[t].kind \in {"accept", "reject"} /\ registered' = registered
    /\ LET c == job[t].call
           good == Result(t) = "ok"
       IN /\ Over(t, job[t], IF good THEN "ok" ELSE "raised")
          /\ obj' = IF good THEN [obj EXCEPT ![c].request = 0] ELSE obj
          /\ due' = IF ~good THEN due
                    ELSE IF due[c].no = job[t].req THEN [due EXCEPT ![c] = [no |-> 0, lost |-> FALSE]]
                    ELSE [due EXCEPT ![c].lost = TRUE]

(* _apply_transfer_policy: a request that is no INVITE is refused by either *)
(* policy.                                                                  *)
PolicyStarts(t) ==
    /\ Woken(t) /\ task[t].at = "starting"
    /\ \E k \in IF app.policy = "reject" THEN {"reject"} ELSE {"accept", "reject"} :
          Sends(t, job[t], k, Asks(k, job[t].call))
    /\ UNCHANGED <<obj, registered, due>>

(* It leaves the Call's request as it is, and raises nothing. *)
PolicyReturns(t) ==
    /\ Woken(t) /\ job[t].step \in {"accept", "reject"} /\ job[t].kind = "policy"
    /\ Over(t, job[t], IF Result(t) = "ok" THEN "ok" ELSE "raised")
    /\ UNCHANGED <<obj, registered, due>>

(* Mutant of DigitReturns: the last digit is not released. *)
DigitReturnsPressed(t) ==
    /\ Woken(t) /\ job[t].step \in {"press", "release"}
    /\ IF Result(t) # "ok" THEN Over(t, job[t], "raised")
       ELSE IF job[t].left = 1 THEN Over(t, job[t], "ok")
       ELSE Waits(t, "sleeping", IF job[t].step = "press" THEN "tone" ELSE "gap")
    /\ UNCHANGED <<obj, registered, due>>

(* send_dtmf after a digit or its release: a pause, or the end. *)
DigitReturns(t) ==
    /\ Woken(t) /\ job[t].step \in {"press", "release"}
    /\ IF Result(t) # "ok" THEN Over(t, job[t], "raised")
       ELSE IF job[t].step = "release" /\ job[t].left = 1 THEN Over(t, job[t], "ok")
       ELSE Waits(t, "sleeping", IF job[t].step = "press" THEN "tone" ELSE "gap")
    /\ UNCHANGED <<obj, registered, due>>

(* asyncio.sleep is over. *)
Rings(t) ==
    /\ task[t].at = "sleeping" /\ task[t].fut = "open"
    /\ Completes(t, "ok", task, ready)
    /\ UNCHANGED <<queue, telling, job, obj, registered, due>>

(* send_dtmf after a pause: the release, or the next digit. *)
Slept(t) ==
    /\ Woken(t) /\ task[t].at = "sleeping"
    /\ LET press == job[t].step = "gap" IN
       Sends(t, [job[t] EXCEPT !.left = IF press THEN @ - 1 ELSE @],
             IF press THEN "press" ELSE "release",
             Turns("digit", job[t].call, press))
    /\ UNCHANGED <<obj, registered, due>>

GoesOn(t) ==
    /\ \/ HoldReturns(t) \/ UndoReturns(t) \/ VideoReturns(t)
       \/ Sent(t) \/ Outcome(t)
       \/ DecisionReturns(t) \/ PolicyStarts(t) \/ PolicyReturns(t)
       \/ DigitReturns(t) \/ Slept(t)
    /\ UNCHANGED <<nativeVars, telling, app, ops>>

Callbacks ==
    \/ DispatchEvent
    \/ DispatchDone /\ UNCHANGED <<nativeVars, job, obj, app, registered, ops, due>>
    \/ \E t \in Task : GoesOn(t)

(* A timer: of a command, of an outcome, of a pause. *)
Timer(t) ==
    /\ \/ Rings(t)
       \/ Expires(t) /\ UNCHANGED <<job, obj, registered, due>>
    /\ UNCHANGED <<nativeVars, app, ops>>

-----------------------------------------------------------------------------
(* The re thread: commands.  Each is one of                                *)
(*    - a command for a call that is gone,                                 *)
(*    - one that the stack refuses,                                        *)
(*    - one that is carried out, which may report an event first.          *)

Refresh == {"hold", "video"}
CallCommand == Refresh \cup {"transfer", "replace", "accept", "reject", "digit"}

Live(c) == stack[c.on].live /\ (c.op = "replace" => stack[c.with].live)

HandleGone ==
    /\ Command(CallCommand) /\ ~Live(Head(queue))
    /\ Tells(<<Done(Head(queue), "stale")>>)
    /\ UNCHANGED <<stack, registrar>>

(* call_hold may have turned the flag before it failed, and a failed accept *)
(* has told the transferor so.                                              *)
HandleRefused ==
    /\ Command(CallCommand \cup {"register"})
    /\ LET c == Head(queue) IN
       /\ c.op # "register" => Live(c)
       /\ Tells(<<Done(c, "error")>>)
       /\ CASE c.op = "hold"   -> \E h \in {stack[c.on].held, c.arg} :
                                    stack' = [stack EXCEPT ![c.on] = [@ EXCEPT !.held = h, !.denied = TRUE]]
            [] c.op = "accept" -> stack' = [stack EXCEPT ![c.on].asked = 0]
            [] OTHER           -> stack' = stack
    /\ UNCHANGED registrar

(* call_hold and call_set_video_dir: an offer is reported and sent, and it  *)
(* says whether the call is held -- or nothing happens, if a refresh of the *)
(* call is in flight or there is nothing to change.                         *)
HandleRefresh ==
    /\ Command(Refresh) /\ Live(Head(queue))
    /\ LET c == Head(queue)
           s == stack[c.on]
           held == IF c.op = "hold" THEN c.arg ELSE s.held
           denied == c.op # "hold" /\ s.denied
           quiet == s.busy \/ (c.op = "hold" /\ s.held = held)
       IN IF quiet
          THEN /\ stack' = [stack EXCEPT ![c.on] = [s EXCEPT !.held = held, !.denied = denied]]
               /\ Tells(<<Done(c, "ok")>>)
          ELSE /\ stack' = [stack EXCEPT ![c.on] = [s EXCEPT !.held = held, !.told = held,
                                                            !.denied = denied, !.busy = TRUE]]
               /\ Tells(<<Event([ev |-> "offer", on |-> c.on, of |-> 0]), Done(c, "ok")>>)
    /\ UNCHANGED registrar

(* BP_CMD_CALL_TRANSFER and BP_CMD_CALL_REPLACE_TRANSFER: a REFER. *)
HandleTransfer ==
    /\ Command({"transfer", "replace"}) /\ Live(Head(queue))
    /\ stack' = [stack EXCEPT ![Head(queue).on].refer = Head(queue).by]
    /\ Tells(<<Done(Head(queue), "ok")>>)
    /\ UNCHANGED registrar

(* BP_CMD_CALL_TRANSFER_ACCEPT and _REJECT: the target is dialled, or the   *)
(* transferor is told the refusal -- if it still listens.                   *)
HandleDecision ==
    /\ Command({"accept", "reject"}) /\ Live(Head(queue))
    /\ LET c == Head(queue) IN
       /\ c.op = "reject" => stack[c.on].asked # 0
       /\ stack' = IF c.op = "reject" THEN [stack EXCEPT ![c.on].asked = 0] ELSE stack
       /\ Tells(<<Done(c, "ok")>>)
    /\ UNCHANGED registrar

(* BP_CMD_CALL_SEND_DIGIT *)
HandleDigit ==
    /\ Command({"digit"}) /\ Live(Head(queue))
    /\ stack' = [stack EXCEPT ![Head(queue).on].key = Head(queue).arg]
    /\ Tells(<<Done(Head(queue), "ok")>>)
    /\ UNCHANGED registrar

Register(turn, t) == [turn |-> turn, by |-> t]

(* Mutant of HandleUnregister: the agent is registered again. *)
HandleUnregisterAgain ==
    /\ Command({"unregister"})
    /\ registrar' = [registrar EXCEPT !.air = Append(@, Register("on", Head(queue).by))]
    /\ Tells(<<Done(Head(queue), "ok")>>)
    /\ UNCHANGED stack

(* BP_CMD_UA_REGISTER *)
HandleRegister ==
    /\ Command({"register"})
    /\ registrar' = [registrar EXCEPT !.air = Append(@, Register("on", Head(queue).by))]
    /\ Tells(<<Done(Head(queue), "ok")>>)
    /\ UNCHANGED stack

(* BP_CMD_UA_UNREGISTER: the expires-0 REGISTER. *)
HandleUnregister ==
    /\ Command({"unregister"})
    /\ registrar' = [registrar EXCEPT !.air = Append(@, Register("off", Head(queue).by))]
    /\ Tells(<<Done(Head(queue), "ok")>>)
    /\ UNCHANGED stack

ReThread ==
    /\ \/ Report /\ UNCHANGED <<stack, registrar>>
       \/ /\ \/ HandleGone \/ HandleRefused \/ HandleRefresh \/ HandleTransfer
             \/ HandleDecision \/ HandleDigit \/ HandleRegister \/ HandleUnregister
          /\ UNCHANGED <<ready, task>>
    /\ UNCHANGED <<job, obj, app, registered, ops, news, due>>

-----------------------------------------------------------------------------
(* The re thread: the stack and the far ends.                              *)

Reports(e, c, n) == Tells(<<Event([ev |-> e, on |-> c, of |-> n])>>)

Unasked == news < app.news /\ news' = news + 1

Ended(s) == [s EXCEPT !.live = FALSE, !.busy = FALSE, !.refer = 0, !.asked = 0, !.key = FALSE]

FarEnd(c) ==
    /\ Unasked /\ stack[c].live
    /\ stack' = [stack EXCEPT ![c] = Ended(@)]
    /\ Reports("closed", c, 0) /\ registrar' = registrar

(* The peer's re-INVITE. *)
PeerRefresh(c) ==
    /\ Unasked /\ stack[c].live /\ ~stack[c].busy
    /\ stack' = [stack EXCEPT ![c].busy = TRUE]
    /\ UNCHANGED <<telling, registrar>>

(* The peer's REFER, accepted by the stack. *)
ReferArrives(c) ==
    /\ Unasked /\ stack[c].live
    /\ stack' = [stack EXCEPT ![c].asked = news']
    /\ Reports("refer", c, news') /\ registrar' = registrar

(* The stack registers again before the binding expires. *)
RegistrarRefresh ==
    /\ Unasked /\ registrar.bound /\ registrar.air = <<>>
    /\ registrar' = [registrar EXCEPT !.air = <<Register("on", 0)>>]
    /\ UNCHANGED <<stack, telling>>

(* The ACK that ends a refresh. *)
RefreshEnds(c) ==
    /\ stack[c].busy
    /\ stack' = [stack EXCEPT ![c].busy = FALSE]
    /\ UNCHANGED <<telling, registrar, news>>

(* The peer's NOTIFY about our REFER: it failed, or the call is over. *)
ReferFails(c) ==
    /\ stack[c].refer # 0
    /\ stack' = [stack EXCEPT ![c].refer = 0]
    /\ Reports("failed", c, stack[c].refer) /\ UNCHANGED <<registrar, news>>

ReferSucceeds(c) ==
    /\ stack[c].refer # 0
    /\ stack' = [stack EXCEPT ![c] = Ended(@)]
    /\ Reports("transferred", c, stack[c].refer) /\ UNCHANGED <<registrar, news>>

(* The stack gives up on the peer's request, or the call it was accepted    *)
(* with has failed.                                                         *)
RequestFails(c) ==
    /\ stack[c].asked # 0
    /\ stack' = [stack EXCEPT ![c].asked = 0]
    /\ Reports("failed", c, 0) /\ UNCHANGED <<registrar, news>>

(* The registrar's answer to the oldest REGISTER, or none in time. *)
RegistrarAnswers ==
    /\ registrar.air # <<>>
    /\ LET r == Head(registrar.air)
           rest == [registrar EXCEPT !.air = Tail(@)]
       IN \/ /\ registrar' = [rest EXCEPT !.bound = (r.turn = "on")]
             /\ Reports("regok", 0, r.by)
          \/ /\ registrar' = IF r.turn = "off" THEN [rest EXCEPT !.refused = @ \cup {r.by}]
                             ELSE rest
             /\ Reports("regfail", 0, r.by)
    /\ UNCHANGED <<stack, news>>

Network ==
    /\ \/ \E c \in Calls :
              \/ FarEnd(c) \/ PeerRefresh(c) \/ ReferArrives(c)
              \/ RefreshEnds(c) \/ ReferFails(c) \/ ReferSucceeds(c) \/ RequestFails(c)
       \/ RegistrarRefresh \/ RegistrarAnswers
    /\ UNCHANGED <<queue, ready, task, job, obj, app, registered, ops, due>>

-----------------------------------------------------------------------------

(* History: calls of which nobody can say what the code should know.  Two    *)
(* session refreshes overlapped; one was given up on by its timer, before   *)
(* the answer was taken; taking a hold back met a full queue; or a video    *)
(* change told the far end the hold state that a refused command had left.  *)
(* An operation that was refused blurs nothing by itself.                   *)
Blurs ==
    murky' = murky \cup
        {c \in Calls :
            \/ \E t, u \in Refreshing(c)' : t # u
            \/ \E t \in Refreshing(c) :
                  \/ task'[t].at = "over" /\ task[t].expired
                  \/ task'[t].out = "rejected" /\ ~job[t].saw
            \/ stack[c].denied /\ stack'[c].denied /\ stack'[c].told # stack[c].told}

Loop == Callbacks \/ \E t \in Task : Timer(t)

Next == (Application \/ Loop \/ ReThread \/ Network) /\ Blurs

Spec == Init /\ [][Next]_vars

(* The loop does not sleep while it has a callback to run or a timer that   *)
(* is due.  The SIP thread, the stack and the far ends need not do anything. *)
FairSpec == Spec /\ WF_vars(Loop /\ Blurs)

-----------------------------------------------------------------------------

TypeOK ==
    /\ \A t \in Task :
          /\ task[t].at \in {"idle", "starting", "awaiting", "waiting", "sleeping", "over"}
          /\ task[t].fut \in {"none", "open", "cancelled", "ok", "error", "stale"}
          /\ task[t].no \in Nat
          /\ job[t].left \in 0 .. Digits /\ job[t].leg \in 1 .. 2
          /\ \A i, k \in 1 .. Len(ready) : ready[i] = Wake(t) /\ ready[k] = Wake(t) => i = k
    /\ stack \in [Calls -> [live : BOOLEAN, held : BOOLEAN, told : BOOLEAN, denied : BOOLEAN,
                            busy : BOOLEAN, refer : Task \cup {0}, asked : 0 .. app.news, key : BOOLEAN]]
    /\ obj \in [Calls -> [up : BOOLEAN, onHold : BOOLEAN, pending : BOOLEAN,
                          request : 0 .. app.news]]
    /\ registrar.bound \in BOOLEAN /\ registrar.air \in Seq([turn : {"on", "off"}, by : Task \cup {0}])
    /\ registrar.refused \subseteq Task \cup {0}
    /\ registered \in BOOLEAN /\ ops \in 0 .. app.ops /\ murky \subseteq Calls

Settled(c) == stack[c].live /\ Refreshing(c) = {}

(* A Call that is not being held or resumed says of itself what the far end *)
(* was last told, also after operations that were refused, and also after a *)
(* re-INVITE that could not be sent; and the stack's flag agrees with both, *)
(* unless a hold command was refused last: the next attempt repairs that.   *)
(* Excepted are the calls in murky.                                         *)
HoldIsTrue ==
    /\ TypeOK
    /\ \A c \in Calls \ murky : Settled(c) =>
        /\ obj[c].onHold = stack[c].told
        /\ stack[c].held = stack[c].told \/ stack[c].denied

(* As call.py says, a later retry starts clean: the flag was always taken   *)
(* back.  It is not when the command, or the one that takes it back, fails  *)
(* with the flag moved.                                                     *)
RefusalIsClean == \A c \in Calls \ murky : Settled(c) => stack[c].held = stack[c].told

(* is_on_hold: the last hold or resume that reached the wire, whatever      *)
(* overlapped or timed out.                                                 *)
HeldIsOnTheWire == \A c \in Calls : Settled(c) => obj[c].onHold = stack[c].told

Attended(c) == \E t \in Task : job[t].kind = "attended" /\ job[t].call = c
Transferring(t) == job[t].kind \in {"transfer", "attended"}

(* The REFER u was given up on before its outcome was reported to it, so    *)
(* that a later transfer may be told it.                                    *)
Abandoned(u) == task[u].out \in {"raised", "timeout"} \/ job[u].whose # u \/ Running(u)

Referring(t) == Transferring(t) /\ Running(t) /\ job[t].step \in {"refer", "outcome"}

(* A transfer that returns has ended the call, by being transferred; one    *)
(* that fails was told so of its own REFER, of a peer's request, or of an   *)
(* earlier REFER that nobody was told about -- or of another's, if an       *)
(* attended transfer of the call has let two of them overlap, because it    *)
(* looked for a transfer before it held its two calls.  Nothing else does.  *)
TransferVerdict ==
    /\ \A t, u \in Task : t < u /\ Referring(t) /\ Referring(u) /\ job[t].call = job[u].call
          => \E w \in 1 .. t : job[w].kind = "attended" /\ job[w].call = job[t].call
    /\ \A t \in Task : Transferring(t) =>
        /\ task[t].out = "ok" => ~obj[job[t].call].up /\ ~stack[job[t].call].live /\ job[t].whose # 0
        /\ task[t].out \in {"ok", "failed"} =>
              \/ job[t].whose \in {0, t} \/ Abandoned(job[t].whose)
              \/ Attended(job[t].call)

(* The pending transfer request is the newest one reported, unless a        *)
(* decision on an older one, or a transfer of ours that failed, has wiped   *)
(* it out.                                                                  *)
RequestIsNewest ==
    \A c \in Calls : obj[c].up =>
        obj[c].request = due[c].no \/ (due[c].lost /\ obj[c].request = 0)

(* After an unregister() that returned, and no register() since, the        *)
(* registrar has forgotten us once nothing is in flight -- even if it was   *)
(* the answer to another REGISTER, a refresh of the stack's or a register() *)
(* that was given up, that made it return.  Only in that case may its own   *)
(* be refused behind its back.                                              *)
UnregisteredIsGone ==
    \A t \in Task :
        /\ job[t].kind = "unregister" /\ task[t].out = "ok"
        /\ \A u \in t + 1 .. MaxTasks : job[u].kind \notin {"register", "unregister"}
        /\ registrar.air = <<>>
        => ~registrar.bound \/ (t \in registrar.refused /\ job[t].whose # t)

(* As ua.py says, unregister() returns with the registrar's confirmation:   *)
(* its own REGISTER's.  It takes any REGISTER_OK.                           *)
UnregisterIsConfirmed ==
    \A t \in Task : job[t].kind = "unregister" /\ task[t].out = "ok" => job[t].whose = t

(* No key stays pressed once the send_dtmf()s of a call have returned. *)
KeyReleased ==
    \A c \in Calls :
        (\A t \in Task : job[t].kind = "dtmf" /\ job[t].call = c => task[t].out = "ok")
            => ~stack[c].key

(* Whatever an application awaits comes to an end, though the SIP thread    *)
(* and the far ends may be silent.                                          *)
RequestsEnd == (\E t \in Task : Running(t)) ~> (\A t \in Task : ~Running(t))
=============================================================================
