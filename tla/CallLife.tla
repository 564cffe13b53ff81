------------------------------ MODULE CallLife -------------------------------
(***************************************************************************)
(* The life of one Call of call.py, dialled by ua.py or reported by the    *)
(* stack: who learns of a transition, when, and what the coroutines that   *)
(* wait for one make of it.  LoopTasks has what they share: commands,      *)
(* futures, timeouts and the loop's queue of callbacks.                    *)
(***************************************************************************)
EXTENDS LoopTasks

CONSTANT MaxOps   \* bound: answer(), reject() and hangup() calls in all

ASSUME CallLifeAssumption == MaxOps \in Nat

(* The coroutines: dial(), wait_established() and whoever answers or ends   *)
(* the call.                                                                *)
Task == {"dialer", "waiter", "ender"}
State == {"incoming", "outgoing", "established", "closed"}

(* What the re thread is told, and what it hands over to the loop.          *)
Order == [op : {"dial", "answer", "reject", "hangup"}, by : Task, no : 0 .. MaxOps]

Callback ==
    [kind : {"event"}, ev : State]
        \cup [kind : {"done"}, by : Task, no : 0 .. MaxOps, res : {"ok", "error", "stale"}]
        \cup [kind : {"wake"}, by : Task]

VARIABLES
    native,     \* the stack's call: "none", then as State
    answered,   \* a 200 is on its way: only the ACK is missing
    reported,   \* history: the state the events dispatched so far add up to
    call,       \* the Call object: [state, listens, heard], or "none" at state
    ops         \* history: calls of answer(), reject() and hangup()

nativeVars == <<native, answered>>
vars == <<nativeVars, loopVars, reported, call, ops>>

Init ==
    /\ native = "none" /\ answered = FALSE
    /\ queue = <<>> /\ telling = <<>> /\ ready = <<>>
    /\ reported = "none"
    /\ call = [state |-> "none", listens |-> FALSE, heard |-> FALSE]
    /\ task = [t \in Task |-> Idle]
    /\ ops = 0

Live == native \in {"incoming", "outgoing", "established"}

Exists == call.state # "none"

-----------------------------------------------------------------------------
(* What the application does.                                              *)

(* dial(), while there is no call yet. *)
Dial ==
    /\ native = "none" /\ ~Exists /\ task["dialer"].at = "idle"
    /\ Await([op |-> "dial", by |-> "dialer", no |-> 0])
    /\ UNCHANGED <<nativeVars, telling, ready, reported, call, ops>>

(* answer(), reject() and hangup() *)
Act(o) ==
    /\ Exists /\ task["ender"].at \in {"idle", "over"} /\ ops < MaxOps
    /\ Await([op |-> o, by |-> "ender", no |-> ops])
    /\ ops' = ops + 1
    /\ UNCHANGED <<nativeVars, telling, ready, reported, call>>

(* wait_established(): the state it finds, or a listener. *)
WaitEstablished ==
    /\ Exists /\ task["waiter"].at = "idle"
    /\ Became("waiter",
              CASE call.state = "established" -> Finished("none", "established")
                [] call.state = "closed"      -> Finished("none", "failed")
                [] OTHER                      -> Suspended("waiting", "none", 0))
    /\ UNCHANGED <<nativeVars, telling, queue, ready, reported, call, ops>>

-----------------------------------------------------------------------------
(* The loop's callbacks.                                                   *)

(* The state of a Call that has heard of e. *)
Heard(e) ==
    [state   |-> IF e \in {"established", "closed"} THEN e ELSE call.state,
     listens |-> e # "closed",
     heard   |-> TRUE]

(* The Call an incoming one is adopted as; the listeners to be told of this *)
(* event were counted before it was born.                                   *)
Adopted == [state |-> "incoming", listens |-> TRUE, heard |-> FALSE]

(* Mutant of CallAfter: a Call is not told of its end. *)
CallAfterDeaf(e) ==
    IF e = "incoming" THEN Adopted
    ELSE IF call.listens /\ e # "closed" THEN Heard(e) ELSE call

(* The Call object once e has been dispatched. *)
CallAfter(e) ==
    IF e = "incoming" THEN Adopted
    ELSE IF call.listens THEN Heard(e) ELSE call

(* _dispatch of a stack event: the Call's own listener first, then the one  *)
(* of wait_established() -- which hangs on the Call, so it is told only if  *)
(* the Call is.                                                             *)
DispatchEvent ==
    /\ ready # <<>> /\ Head(ready).kind = "event"
    /\ LET e == Head(ready).ev IN
       /\ reported' = e
       /\ call' = CallAfter(e)
       /\ IF call.listens /\ task["waiter"].at = "waiting" /\ task["waiter"].fut = "open"
             /\ e \in {"established", "closed"}
          THEN Completes("waiter", e, task, Rest)
          ELSE task' = task /\ ready' = Rest
    /\ UNCHANGED <<nativeVars, telling, queue, ops>>

(* dial() goes on: it returns a Call, or raises. *)
DialReturns ==
    /\ Woken("dialer") /\ task["dialer"].at = "awaiting"
    /\ LET good == ~task["dialer"].expired /\ task["dialer"].fut = "ok" IN
       /\ call' = IF good THEN [state |-> "outgoing", listens |-> TRUE, heard |-> FALSE]
                          ELSE call
       /\ Became("dialer", Finished("dial", CASE good -> "ok"
                                              [] task["dialer"].expired -> "timeout"
                                              [] OTHER -> "raised"))
    /\ UNCHANGED <<nativeVars, telling, queue, reported, ops>>

(* answer(), reject() or hangup() goes on. *)
ActReturns ==
    /\ Woken("ender") /\ task["ender"].at = "awaiting"
    /\ Became("ender", Finished(task["ender"].op, IF task["ender"].expired THEN "raised"
                                                  ELSE task["ender"].fut))
    /\ UNCHANGED <<nativeVars, telling, queue, reported, call, ops>>

(* wait_established() goes on: it has its outcome, or it has waited long    *)
(* enough and hangs up.                                                     *)
WaitReturns ==
    /\ Woken("waiter") /\ task["waiter"].at = "waiting"
    /\ IF task["waiter"].expired
       THEN \/ /\ queue' = Append(queue, [op |-> "hangup", by |-> "waiter", no |-> 0])
               /\ Became("waiter", Suspended("hanging", "none", 0))
            \/ /\ queue' = queue
               /\ Became("waiter", Finished("unsent", "timeout"))
       ELSE /\ queue' = queue
            /\ Became("waiter", Finished("none", IF task["waiter"].fut = "established"
                                                 THEN "established" ELSE "failed"))
    /\ UNCHANGED <<nativeVars, telling, reported, call, ops>>

(* The hangup is over, whatever became of it: CallTimeout. *)
HangupReturns ==
    /\ Woken("waiter") /\ task["waiter"].at = "hanging"
    /\ Became("waiter", Finished(IF task["waiter"].expired THEN "unsent" ELSE "hangup", "timeout"))
    /\ UNCHANGED <<nativeVars, telling, queue, reported, call, ops>>

-----------------------------------------------------------------------------
(* The re thread: commands.                                                *)

(* Mutant of HandleDial: a call that gets no handle is not hung up. *)
HandleDialLeaves ==
    /\ Command({"dial"})
    /\ \/ /\ native' = "outgoing"
          /\ \E r \in {"ok", "error"} : Tells(<<Event("outgoing"), Done(Head(queue), r)>>)
       \/ /\ native' = native
          /\ Tells(<<Done(Head(queue), "error")>>)
    /\ UNCHANGED <<answered, ready, reported, call, task, ops>>

(* BP_CMD_UA_CONNECT: OUTGOING is reported before the completion.  A call   *)
(* that finds the handle table full is hung up, its events name no call;    *)
(* one that cannot be connected after OUTGOING is freed without a CLOSED.   *)
HandleDial ==
    /\ Command({"dial"})
    /\ \/ /\ native' = "outgoing"
          /\ Tells(<<Event("outgoing"), Done(Head(queue), "ok")>>)
       \/ /\ native' \in {native, "closed"}
          /\ Tells(<<Done(Head(queue), "error")>>)
       \/ /\ native' = "closed"
          /\ Tells(<<Event("outgoing"), Done(Head(queue), "error")>>)
    /\ UNCHANGED <<answered, ready, reported, call, task, ops>>

(* BP_CMD_CALL_ANSWER *)
HandleAnswer ==
    /\ Command({"answer"})
    /\ LET c == Head(queue) IN
       \/ /\ Live /\ native = "incoming"
          /\ answered' = TRUE
          /\ Tells(<<Done(c, "ok")>>)
       \/ /\ Live
          /\ answered' = answered
          /\ Tells(<<Done(c, "error")>>)
       \/ /\ ~Live
          /\ answered' = answered
          /\ Tells(<<Done(c, "stale")>>)
    /\ UNCHANGED <<native, ready, reported, call, task, ops>>

(* Mutant of HandleEnd: the command is completed first. *)
HandleEndDoneFirst ==
    /\ Command({"hangup", "reject"})
    /\ LET c == Head(queue) IN
       IF Live
       THEN native' = "closed" /\ Tells(<<Done(c, "ok"), Event("closed")>>)
       ELSE native' = native /\ Tells(<<Done(c, "stale")>>)
    /\ UNCHANGED <<answered, ready, reported, call, task, ops>>

(* BP_CMD_CALL_HANGUP, BP_CMD_CALL_REJECT: CLOSED is reported before the    *)
(* completion.                                                              *)
HandleEnd ==
    /\ Command({"hangup", "reject"})
    /\ LET c == Head(queue) IN
       IF Live
       THEN native' = "closed" /\ Tells(<<Event("closed"), Done(c, "ok")>>)
       ELSE native' = native /\ Tells(<<Done(c, "stale")>>)
    /\ UNCHANGED <<answered, ready, reported, call, task, ops>>

-----------------------------------------------------------------------------
(* The re thread: the far end.                                             *)

(* An INVITE arrives for an agent with an on_incoming callback. *)
Invite ==
    /\ native = "none" /\ task["dialer"].at = "idle"
    /\ native' = "incoming"
    /\ Tells(<<Event("incoming")>>)
    /\ UNCHANGED <<answered, queue, ready, reported, call, task, ops>>

(* The far end's 200, or its ACK of ours. *)
Establish ==
    /\ native = "outgoing" \/ (native = "incoming" /\ answered)
    /\ native' = "established"
    /\ Tells(<<Event("established")>>)
    /\ UNCHANGED <<answered, queue, ready, reported, call, task, ops>>

(* The far end hangs up, declines or disappears. *)
FarEnd ==
    /\ Live
    /\ native' = "closed"
    /\ Tells(<<Event("closed")>>)
    /\ UNCHANGED <<answered, queue, ready, reported, call, task, ops>>

-----------------------------------------------------------------------------

Application == Dial \/ WaitEstablished \/ \E o \in {"answer", "reject", "hangup"} : Act(o)

Callbacks ==
    \/ DispatchEvent
    \/ DispatchDone /\ UNCHANGED <<nativeVars, reported, call, ops>>
    \/ DialReturns \/ ActReturns \/ WaitReturns \/ HangupReturns

ReThread ==
    \/ Report /\ UNCHANGED <<nativeVars, reported, call, ops>>
    \/ HandleDial \/ HandleAnswer \/ HandleEnd

Network == Invite \/ Establish \/ FarEnd

TimesOut(t) == Expires(t) /\ UNCHANGED <<nativeVars, reported, call, ops>>

Next == Application \/ Callbacks \/ ReThread \/ Network \/ \E t \in Task : TimesOut(t)

Spec == Init /\ [][Next]_vars

(* The loop runs its callbacks, and its timers when they are due.  The SIP  *)
(* thread and the far end need not do anything.                             *)
FairSpec == Spec /\ WF_vars(Callbacks) /\ \A t \in Task : WF_vars(TimesOut(t))

-----------------------------------------------------------------------------

(* Types; and no coroutine is scheduled twice. *)
TypeOK ==
    /\ native \in State \cup {"none"} /\ answered \in BOOLEAN
    /\ reported \in State \cup {"none"}
    /\ call \in [state : State \cup {"none"}, listens : BOOLEAN, heard : BOOLEAN]
    /\ task \in [Task -> [at : {"idle", "awaiting", "waiting", "hanging", "over"},
                          fut : {"none", "open", "cancelled", "ok", "error", "stale",
                                 "established", "closed"},
                          expired : BOOLEAN,
                          op : {"none", "dial", "answer", "reject", "hangup", "unsent"},
                          no : 0 .. MaxOps,
                          out : {"none", "ok", "error", "stale", "raised", "rejected",
                                 "established", "failed", "timeout"}]]
    /\ ops \in 0 .. MaxOps
    /\ queue \in Seq(Order) /\ telling \in Seq(Callback) /\ ready \in Seq(Callback)
    /\ \A i, j \in 1 .. Len(ready) : ready[i].kind = "wake" /\ ready[i] = ready[j] => i = j

(* Current state, as last reported by the stack -- for every Call that was  *)
(* born of an event, and for a dialled one from the first event it hears.   *)
StateIsReported ==
    /\ TypeOK
    /\ Exists /\ (task["dialer"].at = "idle" \/ call.heard) => call.state = reported

(* The same with no exception: what the property state says of itself. *)
DialledStateIsReported == Exists => call.state = reported

(* What wait_established() says is so: the call was answered, or it is      *)
(* over; a call given up with CallTimeout is over too, if its hangup was    *)
(* answered, even one the far end picked up while it was being given up.    *)
(* hangup() and reject() return only after the Call has been told: whoever  *)
(* awaited them finds the state CLOSED.                                     *)
VerdictIsTrue ==
    /\ task["waiter"].out = "established" => native \in {"established", "closed"}
    /\ task["waiter"].out = "failed" => native = "closed"
    /\ task["waiter"].out = "timeout" /\ task["waiter"].op # "unsent" => native = "closed"
    /\ task["ender"].out = "ok" /\ task["ender"].op \in {"hangup", "reject"}
          => call.state = "closed"

(* Whoever waits for an answer to the call gets one, whatever the SIP       *)
(* thread and the far end do.                                               *)
WaitEnds == task["waiter"].at = "waiting" ~> task["waiter"].at = "over"

(* Only a dial() that timed out leaves a call behind that nobody has a Call *)
(* for: one that was refused, that found the table full or that could not be *)
(* connected, also after OUTGOING, leaves none.  A timeout leaves one        *)
(* whenever the command is, or already was, carried out.                     *)
OnlyTimeoutsOrphan ==
    Live /\ task["dialer"].at = "over" /\ ~Exists => task["dialer"].out = "timeout"

(* The same without the exception: whoever dialled and got no Call has no    *)
(* call.  A dial() that times out violates it, before its command is handled *)
(* or when the answer is already on its way.                                 *)
NoOrphan == Live /\ task["dialer"].at = "over" => Exists
=============================================================================
