---------------------------- MODULE RequestsProofs ----------------------------
(***************************************************************************)
(* Proofs about Requests.tla, for any calls, operations and requests: the  *)
(* types and the pairing of orders, answers and wake-ups (Base), what holds *)
(* of each kind of operation while it is under way (KeyInv, RegisterInv,   *)
(* AirInv, AloneInv, ReferInv, ToldInv, HoldInv), and the safety           *)
(* properties that follow.                                                 *)
(***************************************************************************)
EXTENDS Requests, FiniteSetTheorems, TLAPS

-----------------------------------------------------------------------------
(* Types.                                                                  *)

Op == {"hold", "video", "transfer", "replace", "accept", "reject", "digit",
       "register", "unregister"}
Where == Calls \cup {0}
Step == {"none", "hold", "undo", "video", "refer", "outcome", "register", "unregister", "answer",
         "accept", "reject", "press", "tone", "release", "gap"}

Order == [op : Op, on : Where, with : Where, arg : BOOLEAN, by : Task, no : Nat]
News == [ev : {"offer", "refer", "failed", "transferred", "closed", "regok", "regfail"},
         on : Where, of : Nat]
Told == [kind : {"event"}, ev : News] \cup [kind : {"done"}, by : Task, no : Nat, res : {"ok", "error", "stale"}]
Callback == Told \cup [kind : {"wake"}, by : Task]

Coroutine == [at : {"idle", "starting", "awaiting", "waiting", "sleeping", "over"},
              fut : {"none", "open", "cancelled", "ok", "error", "stale"},
              expired : BOOLEAN, op : Op \cup {"none"}, no : Nat,
              out : {"none", "rejected", "ok", "stale", "raised", "unsent", "failed", "timeout"}]

Local == [kind : Operation \cup {"none", "policy"}, call : Where, with : Where, leg : 1 .. 2,
          step : Step, saw : BOOLEAN, left : 0 .. Digits, req : Nat,
          verdict : {"none", "ok", "failed"}, whose : Nat]

Call == [live : BOOLEAN, held : BOOLEAN, told : BOOLEAN, denied : BOOLEAN, busy : BOOLEAN,
         refer : Task \cup {0}, asked : 0 .. app.news, key : BOOLEAN]
Object == [up : BOOLEAN, onHold : BOOLEAN, pending : BOOLEAN, request : 0 .. app.news]

Sending == [turn : {"on", "off"}, by : Task \cup {0}]
Registrar == [bound : BOOLEAN, air : Seq(Sending), refused : SUBSET (Task \cup {0})]

Types ==
    /\ queue \in Seq(Order) /\ telling \in Seq(Told) /\ ready \in Seq(Callback)
    /\ task \in [Task -> Coroutine] /\ job \in [Task -> Local]
    /\ app \in Settings
    /\ stack \in [Calls -> Call] /\ obj \in [Calls -> Object]
    /\ registrar \in Registrar
    /\ registered \in BOOLEAN /\ ops \in 0 .. app.ops /\ news \in 0 .. app.news
    /\ murky \subseteq Calls
    /\ due \in [Calls -> [no : Nat, lost : BOOLEAN]]

-----------------------------------------------------------------------------
(* The coroutines.                                                         *)

Kinds(s) == CASE s \in {"hold", "undo"} -> {"hold", "resume", "attended"}
              [] s = "video" -> {"video"}
              [] s \in {"refer", "outcome"} -> {"transfer", "attended"}
              [] s = "answer" -> {"register", "unregister"}
              [] s \in {"register", "unregister"} -> {s}
              [] s \in {"accept", "reject"} -> {s, "policy"}
              [] OTHER -> {"dtmf"}

Registers == {"register", "unregister"}
Commanding == {"hold", "undo", "video", "refer", "register", "unregister", "accept", "reject",
               "press", "release"}
Completed == {"ok", "error", "stale"}

(* What the locals of a coroutine say of its operation. *)
JobOK(j) ==
    /\ j.step # "none" => j.kind \in Kinds(j.step)
    /\ j.kind \in Registers => j.call = 0
    /\ j.kind \notin Registers \cup {"none"} => j.call \in Calls
    /\ j.kind = "attended" => j.with \in Calls /\ j.with # j.call
    /\ j.kind = "dtmf" => 1 <= j.left
    /\ j.step = "gap" => 2 <= j.left

(* Where a coroutine can be in the body of its operation, and what its      *)
(* future can have come to there.                                           *)
TaskOK(t) ==
    LET r == task[t]
        j == job[t]
    IN  /\ r.at = "idle" => r = Idle /\ j = NoJob
        /\ r.at = "starting" => r.fut = "none" /\ j.kind = "policy" /\ j.step = "none"
        /\ r.at = "awaiting" => j.step \in Commanding /\ r.fut \in {"open", "cancelled"} \cup Completed
        /\ r.at = "waiting" => j.step \in {"outcome", "answer"} /\ r.fut \in {"open", "cancelled", "ok"}
        /\ r.at = "sleeping" => j.step \in {"tone", "gap"} /\ r.fut \in {"open", "ok"}
        /\ r.at = "over" => r.fut = "none" /\ r.out # "none"
        /\ r.out = "raised" => j.step = "none"
        /\ Running(t) => r.out = "none"
        /\ r.fut = "cancelled" => r.expired
        /\ r.at = "waiting" /\ r.fut = "ok" => j.verdict # "none"
        /\ j.kind = "none" => r.at = "idle"
        /\ JobOK(j)

(* Operations have the first numbers, the policy's tasks the others. *)
NumberOK(t) ==
    /\ ops < t /\ t <= app.ops => task[t].at = "idle"
    /\ app.ops < t => job[t].kind \in {"none", "policy"}
    /\ app.ops + news < t => task[t].at = "idle"

TaskInv == \A t \in Task : TaskOK(t) /\ NumberOK(t)

(* A coroutine is scheduled once, and only because its future is done. *)
Awake(r) ==
    r.at = "starting" \/ (r.at \notin {"idle", "over"} /\ r.fut \notin {"none", "open"})

WakeInv ==
    /\ \A i \in 1 .. Len(ready) : ready[i].kind = "wake" => Awake(task[ready[i].by])
    /\ \A i, k \in 1 .. Len(ready) :
          ready[i].kind = "wake" /\ ready[k].kind = "wake" /\ ready[i].by = ready[k].by => i = k

-----------------------------------------------------------------------------
(* Commands and completions on their way.                                  *)

(* Whose command or completion, number no, can be on its way: of a          *)
(* coroutine that awaits it, or of one that gave up.                        *)
Expects(t, no) ==
    \/ task[t].at = "awaiting" /\ task[t].fut \in {"open", "cancelled"} /\ task[t].no = no
    \/ task[t].at = "over" /\ task[t].out = "raised"

IsDone(x) == x.kind = "done"

(* One of each coroutine at most. *)
ItemInv ==
    /\ \A i \in 1 .. Len(queue) : Expects(queue[i].by, queue[i].no)
    /\ \A i \in 1 .. Len(ready) : IsDone(ready[i]) => Expects(ready[i].by, ready[i].no)
    /\ \A i \in 1 .. Len(telling) : IsDone(telling[i]) => Expects(telling[i].by, telling[i].no)
    /\ \A i, k \in 1 .. Len(queue) : queue[i].by = queue[k].by => i = k
    /\ \A i, k \in 1 .. Len(ready) :
          IsDone(ready[i]) /\ IsDone(ready[k]) /\ ready[i].by = ready[k].by => i = k
    /\ \A i, k \in 1 .. Len(telling) :
          IsDone(telling[i]) /\ IsDone(telling[k]) /\ telling[i].by = telling[k].by => i = k
    /\ \A i \in 1 .. Len(queue), k \in 1 .. Len(ready) : IsDone(ready[k]) => ready[k].by # queue[i].by
    /\ \A i \in 1 .. Len(queue), k \in 1 .. Len(telling) :
          IsDone(telling[k]) => telling[k].by # queue[i].by
    /\ \A i \in 1 .. Len(ready), k \in 1 .. Len(telling) :
          IsDone(ready[i]) /\ IsDone(telling[k]) => ready[i].by # telling[k].by

(* What a command is about, and at which step its coroutine awaits it. *)
OrderOK(c) ==
    LET j == job[c.by]
        here == task[c.by].at = "awaiting"
    IN  /\ c.op \in Refresh => c.on = Leg(j) /\ c.on \in Calls
        /\ c.op = "hold" =>
              /\ j.kind \in {"hold", "resume", "attended"}
              /\ here => \/ j.step = "hold" /\ c.arg = Want(j)
                         \/ j.step = "undo" /\ c.arg = ~Want(j)
        /\ c.op = "video" => j.kind = "video" /\ (here => j.step = "video")
        /\ c.op \in {"transfer", "replace"} =>
              Transferring(c.by) /\ c.on = j.call /\ c.with \in Calls /\ (here => j.step = "refer")
        /\ c.op \in {"accept", "reject"} => j.kind \in {"accept", "reject", "policy"} /\ c.on \in Calls
        /\ c.op = "digit" =>
              /\ j.kind = "dtmf" /\ c.on = j.call
              /\ here => j.step = IF c.arg THEN "press" ELSE "release"
        /\ c.op \in Registers => j.kind = c.op /\ (here => j.step = c.op)

OrderInv == \A i \in 1 .. Len(queue) : OrderOK(queue[i])

(* The stack's news are about what they are said to be about. *)
NewsOK(e) ==
    /\ e.ev \in {"offer", "refer", "failed", "transferred", "closed"} => e.on \in Calls
    /\ e.ev = "refer" => e.of \in 1 .. news
    /\ e.ev = "refer" /\ app.policy # "manual" => task[PolicyTask(e.of)].at = "idle"
    /\ e.ev = "failed" => e.of \in Task \cup {0}
    /\ e.ev = "transferred" => e.of \in Task /\ ~stack[e.on].live
    /\ e.ev \in {"offer", "closed"} => e.of = 0
    /\ e.ev \in {"regok", "regfail"} => e.of \in Task \cup {0}

IsNews(x, k) == x.kind = "event" /\ x.ev.ev \in k

NewsInv ==
    /\ \A i \in 1 .. Len(ready) : ready[i].kind = "event" => NewsOK(ready[i].ev)
    /\ \A i \in 1 .. Len(telling) : telling[i].kind = "event" => NewsOK(telling[i].ev)
    /\ \A i, k \in 1 .. Len(ready) :
          IsNews(ready[i], {"refer"}) /\ IsNews(ready[k], {"refer"}) /\ ready[i].ev.of = ready[k].ev.of
          => i = k
    /\ \A i, k \in 1 .. Len(telling) :
          IsNews(telling[i], {"refer"}) /\ IsNews(telling[k], {"refer"}) /\ telling[i].ev.of = telling[k].ev.of
          => i = k
    /\ \A i \in 1 .. Len(ready), k \in 1 .. Len(telling) :
          IsNews(ready[i], {"refer"}) /\ IsNews(telling[k], {"refer"}) => ready[i].ev.of # telling[k].ev.of

-----------------------------------------------------------------------------
(* Who has been answered what.                                             *)

Asked(t) == \E i \in 1 .. Len(queue) : queue[i].by = t
DoneIn(s, t, r) == \E i \in 1 .. Len(s) : IsDone(s[i]) /\ s[i].by = t /\ s[i].res = r
Answered(t, r) ==
    \/ task[t].at = "awaiting" /\ task[t].fut = r
    \/ DoneIn(ready, t, r) \/ DoneIn(telling, t, r)

(* Keys: whoever has pressed one has still to release it. *)
Owes(t, c) ==
    /\ job[t].kind = "dtmf" /\ job[t].call = c /\ task[t].out # "ok" /\ job[t].step # "gap"
    /\ job[t].step = "release" => ~Answered(t, "ok")

KeyInv ==
    \A c \in Calls : stack[c].key => stack[c].live /\ \E t \in Task : Owes(t, c)

-----------------------------------------------------------------------------
(* The registrar.                                                          *)

Fulfilled(t) ==
    /\ job[t].kind = "unregister"
    /\ Answered(t, "ok") \/ job[t].step = "answer" \/ task[t].out = "ok"

Gone(t) ==
    \/ t \in registrar.refused
    \/ registrar.air # <<>> /\ registrar.air[Len(registrar.air)] = Register("off", t)
    \/ registrar.air = <<>> /\ ~registrar.bound

LastRegistration(t) == \A u \in t + 1 .. MaxTasks : job[u].kind \notin Registers

RegisterInv ==
    /\ \A i, k \in 1 .. Len(queue) :
          i < k /\ queue[i].op \in Registers /\ queue[k].op \in Registers => queue[i].by < queue[k].by
    /\ \A t \in Task : Fulfilled(t) =>
          /\ \A i \in 1 .. Len(queue) : queue[i].op \in Registers => t < queue[i].by
          /\ LastRegistration(t) => Gone(t)

(* The REGISTER of t is confirmed, and the coroutine perhaps told so. *)
Confirms(s, t) == \E i \in 1 .. Len(s) : IsNews(s[i], {"regok"}) /\ s[i].ev.of = t
Confirming(t) == Confirms(ready, t) \/ Confirms(telling, t)
Confirmed(t) == Confirming(t) \/ (job[t].verdict = "ok" /\ job[t].whose = t)

NoRegister == \A k \in 1 .. Len(queue) : queue[k].op \notin Registers
Unbound == registrar.air = <<>> /\ ~registrar.bound /\ NoRegister

(* REGISTERs are in flight in the order of the operations, behind one of    *)
(* the stack's own.                                                         *)
AirOrder ==
    /\ \A i, k \in 1 .. Len(registrar.air) : i < k => registrar.air[i].by < registrar.air[k].by
    /\ \A i \in 1 .. Len(registrar.air) :
          registrar.air[i].by # 0 => job[registrar.air[i].by].kind
                                        = IF registrar.air[i].turn = "on" THEN "register" ELSE "unregister"
    /\ \A i \in 1 .. Len(registrar.air), k \in 1 .. Len(queue) :
          queue[k].op \in Registers => registrar.air[i].by < queue[k].by

AirTold(t) ==
    /\ Confirming(t) => job[t].kind \in Registers
    /\ job[t].kind = "unregister" =>
          /\ task[t].out = "ok" => job[t].verdict = "ok"
          /\ Confirmed(t) /\ LastRegistration(t) => Unbound

AirInv == AirOrder /\ \A t \in Task : AirTold(t)

-----------------------------------------------------------------------------
(* Transfers.                                                              *)

AttendedBefore(t) == \E w \in 1 .. t : job[w].kind = "attended" /\ job[w].call = job[t].call

(* While a transfer's REFER is out, the flag keeps others from beginning. *)
Alone(t) ==
    /\ obj[job[t].call].pending
    /\ \A u \in Task : u # t /\ Transferring(u) /\ job[u].call = job[t].call => ~Running(u)

AloneInv == \A t \in Task : Referring(t) /\ ~AttendedBefore(t) => Alone(t)

Outcomes == {"failed", "transferred"}
OutcomeIn(s, w) == \E i \in 1 .. Len(s) : IsNews(s[i], Outcomes) /\ s[i].ev.of = w

Referred(w) == \E i \in 1 .. Len(queue) : queue[i].by = w /\ queue[i].op \in {"transfer", "replace"}
Subscribed(w) == \E c \in Calls : stack[c].refer = w
Spent(w) == \E t \in Task : Transferring(t) /\ job[t].verdict # "none" /\ job[t].whose = w

(* The REFER of w goes from the queue to the stack, becomes an event, and   *)
(* is told to those who listen, once.                                       *)
ReferOK(w) ==
    /\ Referred(w) \/ Subscribed(w) \/ OutcomeIn(telling, w) \/ OutcomeIn(ready, w) \/ Spent(w)
          => Transferring(w) /\ (job[w].step \in {"refer", "outcome"} \/ task[w].at = "over")
    /\ Referred(w) => ~Subscribed(w) /\ ~OutcomeIn(telling, w) /\ ~OutcomeIn(ready, w) /\ ~Spent(w)
    /\ Subscribed(w) => ~OutcomeIn(telling, w) /\ ~OutcomeIn(ready, w) /\ ~Spent(w)
    /\ OutcomeIn(telling, w) => ~OutcomeIn(ready, w) /\ ~Spent(w)
    /\ OutcomeIn(ready, w) => ~Spent(w)

ReferInv ==
    /\ \A w \in Task : ReferOK(w)
    /\ \A c, d \in Calls : stack[c].refer # 0 /\ stack[c].refer = stack[d].refer => c = d
    /\ \A i, k \in 1 .. Len(ready) :
          /\ IsNews(ready[i], Outcomes) /\ IsNews(ready[k], Outcomes)
          /\ ready[i].ev.of # 0 /\ ready[i].ev.of = ready[k].ev.of
          => i = k
    /\ \A i, k \in 1 .. Len(telling) :
          /\ IsNews(telling[i], Outcomes) /\ IsNews(telling[k], Outcomes)
          /\ telling[i].ev.of # 0 /\ telling[i].ev.of = telling[k].ev.of
          => i = k

ToldOK(t) ==
    /\ task[t].out \in {"ok", "failed"} => job[t].verdict = task[t].out
    /\ job[t].verdict = "ok" =>
          ~obj[job[t].call].up /\ ~stack[job[t].call].live /\ job[t].whose # 0
    /\ job[t].verdict # "none" /\ job[t].whose \notin {0, t} /\ ~Attended(job[t].call)
          => job[t].whose \in Task /\ job[job[t].whose].whose # job[t].whose

ToldInv ==
    \A t \in Task : /\ Transferring(t) => ToldOK(t)
                    /\ job[t].verdict = "none" => job[t].whose = 0

-----------------------------------------------------------------------------
(* Hold.                                                                   *)

IsOffer(x, c) == x.kind = "event" /\ x.ev.ev = "offer" /\ x.ev.on = c
Offers(s, c) == \E i \in 1 .. Len(s) : IsOffer(s[i], c)
Offered(c) == Offers(ready, c) \/ Offers(telling, c)

(* An offer is told before the completion of its command. *)
OfferFirst(t, c) ==
    /\ \A i \in 1 .. Len(ready) : IsDone(ready[i]) /\ ready[i].by = t =>
          ~Offers(telling, c) /\ \A k \in i .. Len(ready) : ~IsOffer(ready[k], c)
    /\ \A i \in 1 .. Len(telling) : IsDone(telling[i]) /\ telling[i].by = t =>
          \A k \in i .. Len(telling) : ~IsOffer(telling[k], c)

(* The flag is what the far end was told, or a refused command moved it. *)
Clean(c) == stack[c].held = stack[c].told \/ stack[c].denied

(* t is changing c: before its command, and after it was answered. *)
RefreshOK(t, c) ==
    LET j == job[t]
        s == stack[c]
    IN  /\ j.step \in {"hold", "undo"} => obj[c].onHold = ~Want(j)
        /\ Asked(t) => /\ ~Offered(c) /\ s.told = obj[c].onHold
                       /\ j.step # "undo" => Clean(c)
                       /\ ~j.saw
        /\ Answered(t, "ok") =>
              IF j.step = "hold" THEN s.held = Want(j) /\ (s.told = Want(j) <=> j.saw \/ Offered(c))
                                 ELSE Clean(c) /\ s.told = obj[c].onHold
        /\ Answered(t, "error") => ~Offered(c) /\ Clean(c) /\ s.told = obj[c].onHold
        /\ task[t].fut = "ok" => ~Offered(c)
        /\ ~Answered(t, "stale")
        /\ OfferFirst(t, c)

HoldOK(c) ==
    /\ \A t, u \in Refreshing(c) : t = u
    /\ Refreshing(c) = {} =>
          obj[c].onHold = stack[c].told /\ Clean(c) /\ ~Offered(c)
    /\ \A i \in 1 .. Len(queue) :
          queue[i].op \in Refresh /\ queue[i].on = c => queue[i].by \in Refreshing(c)
    /\ \A t \in Refreshing(c) : RefreshOK(t, c)

HoldInv == \A c \in Calls \ murky : stack[c].live => HoldOK(c)

Base == Types /\ TaskInv /\ WakeInv /\ ItemInv /\ OrderInv /\ NewsInv
Inv == Base /\ KeyInv /\ RegisterInv /\ AirInv /\ AloneInv /\ ReferInv /\ ToldInv /\ HoldInv /\ RequestIsNewest

-----------------------------------------------------------------------------
(* Sequences.                                                              *)

LEMMA Taken ==
    ASSUME NEW S, NEW q \in Seq(S), q # <<>>
    PROVE  /\ Tail(q) \in Seq(S) /\ Len(Tail(q)) = Len(q) - 1 /\ Len(q) \in Nat \ {0}
           /\ Head(q) \in S /\ Head(q) = q[1]
           /\ \A i \in 1 .. Len(Tail(q)) : i + 1 \in 1 .. Len(q) /\ Tail(q)[i] = q[i + 1]
OBVIOUS

LEMMA Appended ==
    ASSUME NEW S, NEW q \in Seq(S), NEW x \in S
    PROVE  /\ Append(q, x) \in Seq(S) /\ Len(Append(q, x)) = Len(q) + 1
           /\ \A i \in 1 .. Len(q) : Append(q, x)[i] = q[i]
           /\ Append(q, x)[Len(q) + 1] = x
OBVIOUS

-----------------------------------------------------------------------------
(* What the primitives of a coroutine do.                                  *)

Asking == [op : Op, on : Where, with : Where, arg : BOOLEAN]

(* The command that t sends when it asks for c. *)
Full(t, c) == [op |-> c.op, on |-> c.on, with |-> c.with, arg |-> c.arg,
               by |-> t, no |-> task[t].no + 1]

SameJob(a, b) ==
    /\ a.kind = b.kind /\ a.call = b.call /\ a.with = b.with /\ a.leg = b.leg
    /\ a.left = b.left /\ a.req = b.req /\ a.verdict = b.verdict /\ a.whose = b.whose

(* Only t's own task and locals change. *)
Only(t) ==
    /\ task' \in [Task -> Coroutine] /\ job' \in [Task -> Local]
    /\ \A u \in Task : u # t => task'[u] = task[u] /\ job'[u] = job[u]

Pushed(t, c) ==
    /\ queue' = Append(queue, Full(t, c)) /\ Full(t, c) \in Order
    /\ task'[t].at = "awaiting" /\ task'[t].fut = "open" /\ ~task'[t].expired
    /\ task'[t].out = "none" /\ task'[t].no = task[t].no + 1

Leaves(t, o) ==
    /\ queue' = queue
    /\ task'[t].at = "over" /\ task'[t].fut = "none" /\ ~task'[t].expired /\ task'[t].out = o

LEMMA SendsStep ==
    ASSUME Types, NEW t \in Task, NEW j \in Local, NEW s \in Step, NEW c \in Asking,
           Sends(t, j, s, c)
    PROVE  /\ Only(t)
           /\ job'[t].step = s /\ ~job'[t].saw /\ SameJob(job'[t], j)
           /\ Pushed(t, c) \/ Leaves(t, "rejected")
<1>1. task \in [Task -> Coroutine] /\ job \in [Task -> Local]
  BY DEF Types
<1>2. job' = [job EXCEPT ![t] = [j EXCEPT !.step = s, !.saw = FALSE]]
  BY DEF Sends
<1>3. [j EXCEPT !.step = s, !.saw = FALSE] \in Local
  BY DEF Local
<1>4. job' \in [Task -> Local] /\ job'[t] = [j EXCEPT !.step = s, !.saw = FALSE]
      /\ \A u \in Task : u # t => job'[u] = job[u]
  BY <1>1, <1>2, <1>3
<1>5. job'[t].step = s /\ ~job'[t].saw /\ SameJob(job'[t], j)
  BY <1>4 DEF SameJob, Local
<1>6. Full(t, c) \in Order /\ task[t].no \in Nat
  BY <1>1 DEF Full, Order, Asking, Coroutine
<1>7. CASE queue' = Append(queue, Full(t, c)) /\ Became(t, Suspended("awaiting", c.op, task[t].no + 1))
  <2>1. Suspended("awaiting", c.op, task[t].no + 1) \in Coroutine
    BY <1>6 DEF Suspended, Coroutine, Asking
  <2>2. task' \in [Task -> Coroutine] /\ task'[t] = Suspended("awaiting", c.op, task[t].no + 1)
        /\ \A u \in Task : u # t => task'[u] = task[u]
    BY <1>1, <1>7, <2>1 DEF Became
  <2> QED BY <1>4, <1>5, <1>6, <1>7, <2>2 DEF Only, Pushed, Suspended
<1>8. CASE queue' = queue /\ Became(t, Finished(c.op, "rejected"))
  <2>1. Finished(c.op, "rejected") \in Coroutine
    BY DEF Finished, Coroutine, Asking
  <2>2. task' \in [Task -> Coroutine] /\ task'[t] = Finished(c.op, "rejected")
        /\ \A u \in Task : u # t => task'[u] = task[u]
    BY <1>1, <1>8, <2>1 DEF Became
  <2> QED BY <1>4, <1>5, <1>8, <2>2 DEF Only, Leaves, Finished
<1> QED BY <1>7, <1>8 DEF Sends, Await, Full

LEMMA OverStep ==
    ASSUME Types, NEW t \in Task, NEW j \in Local, NEW o, Over(t, j, o),
           o \in {"ok", "stale", "raised", "unsent", "failed", "timeout"}
    PROVE  Only(t) /\ Leaves(t, o) /\ job'[t].step = "none" /\ ~job'[t].saw /\ SameJob(job'[t], j)
<1>1. task \in [Task -> Coroutine] /\ job \in [Task -> Local]
  BY DEF Types
<1>2. [j EXCEPT !.step = "none", !.saw = FALSE] \in Local
  BY DEF Local, Step
<1>3. job' \in [Task -> Local] /\ job'[t] = [j EXCEPT !.step = "none", !.saw = FALSE]
      /\ \A u \in Task : u # t => job'[u] = job[u]
  BY <1>1, <1>2 DEF Over
<1>4. job'[t].step = "none" /\ ~job'[t].saw /\ SameJob(job'[t], j)
  BY <1>3 DEF SameJob, Local
<1>5. Finished("none", o) \in Coroutine
  BY DEF Finished, Coroutine
<1>6. task' \in [Task -> Coroutine] /\ task'[t] = Finished("none", o)
      /\ \A u \in Task : u # t => task'[u] = task[u]
  BY <1>1, <1>5 DEF Became, Over
<1> QED BY <1>3, <1>4, <1>6 DEF Only, Leaves, Finished, Over

LEMMA WaitsStep ==
    ASSUME Types, NEW t \in Task, NEW at \in {"waiting", "sleeping"}, NEW s \in Step,
           Waits(t, at, s)
    PROVE  /\ Only(t) /\ queue' = queue
           /\ task'[t].at = at /\ task'[t].fut = "open" /\ ~task'[t].expired
           /\ task'[t].out = task[t].out
           /\ job'[t].step = s /\ job'[t].saw = job[t].saw /\ SameJob(job'[t], job[t])
<1>1. task \in [Task -> Coroutine] /\ job \in [Task -> Local]
  BY DEF Types
<1>2. [job[t] EXCEPT !.step = s] \in Local
  BY <1>1 DEF Local
<1>3. job' \in [Task -> Local] /\ job'[t] = [job[t] EXCEPT !.step = s]
      /\ \A u \in Task : u # t => job'[u] = job[u]
  BY <1>1, <1>2 DEF Waits
<1>4. job'[t].step = s /\ job'[t].saw = job[t].saw /\ SameJob(job'[t], job[t])
  BY <1>1, <1>3 DEF SameJob, Local
<1>5. [task[t] EXCEPT !.at = at, !.fut = "open", !.expired = FALSE] \in Coroutine
  BY <1>1 DEF Coroutine
<1>6. task' \in [Task -> Coroutine]
      /\ task'[t] = [task[t] EXCEPT !.at = at, !.fut = "open", !.expired = FALSE]
      /\ \A u \in Task : u # t => task'[u] = task[u]
  BY <1>1, <1>5 DEF Became, Waits
<1> QED BY <1>1, <1>3, <1>4, <1>6 DEF Only, Waits, Coroutine

LEMMA JobIs ==
    ASSUME NEW k \in Operation \cup {"policy"}, NEW c \in Where
    PROVE  /\ Job(k, c) \in Local /\ Job(k, c).kind = k /\ Job(k, c).call = c
           /\ Job(k, c).with = 0 /\ Job(k, c).leg = 1 /\ Job(k, c).step = "none"
           /\ ~Job(k, c).saw /\ Job(k, c).left = 0 /\ Job(k, c).verdict = "none"
           /\ Job(k, c).whose = 0
  BY RequestsAssumption DEF Job, Local, Step, Where

LEMMA AskingIs ==
    ASSUME NEW o \in Op, NEW c \in Where, NEW b \in BOOLEAN
    PROVE  /\ Asks(o, c) \in Asking /\ Asks(o, c).op = o /\ Asks(o, c).on = c /\ Asks(o, c).with = c
           /\ ~Asks(o, c).arg
           /\ Turns(o, c, b) \in Asking /\ Turns(o, c, b).op = o /\ Turns(o, c, b).on = c
           /\ Turns(o, c, b).with = c /\ Turns(o, c, b).arg = b
  BY DEF Asks, Turns, Asking

LEMMA WithOnHold ==
    ASSUME NEW f \in [Calls -> Object], NEW c \in Calls, NEW b \in BOOLEAN
    PROVE  LET g == [f EXCEPT ![c].onHold = b] IN
           /\ g \in [Calls -> Object] /\ g[c].onHold = b
           /\ \A d \in Calls : /\ g[d].up = f[d].up /\ g[d].pending = f[d].pending
                               /\ g[d].request = f[d].request
                               /\ d # c => g[d].onHold = f[d].onHold
  BY DEF Object

LEMMA WithPending ==
    ASSUME NEW f \in [Calls -> Object], NEW c \in Calls, NEW b \in BOOLEAN
    PROVE  LET g == [f EXCEPT ![c].pending = b] IN
           /\ g \in [Calls -> Object] /\ g[c].pending = b
           /\ \A d \in Calls : /\ g[d].up = f[d].up /\ g[d].onHold = f[d].onHold
                               /\ g[d].request = f[d].request
                               /\ d # c => g[d].pending = f[d].pending
  BY DEF Object

LEMMA WithRequest ==
    ASSUME Types, NEW f \in [Calls -> Object], NEW c \in Calls
    PROVE  LET g == [f EXCEPT ![c].request = 0] IN
           /\ g \in [Calls -> Object] /\ g[c].request = 0
           /\ \A d \in Calls : /\ g[d].up = f[d].up /\ g[d].onHold = f[d].onHold
                               /\ g[d].pending = f[d].pending
                               /\ d # c => g[d].request = f[d].request
<1>1. 0 \in 0 .. app.news
  BY RequestsAssumption DEF Types
<1>2. \A r \in Object : [r EXCEPT !.request = 0] \in Object
  BY <1>1 DEF Object
<1> QED BY <1>2 DEF Object

(* Of the Call objects, all but the flag of c. *)
ButPending(calls, c) ==
    /\ obj' \in [Calls -> Object]
    /\ \A d \in Calls : /\ obj'[d].up = calls[d].up /\ obj'[d].onHold = calls[d].onHold
                        /\ obj'[d].request = calls[d].request
                        /\ d # c => obj'[d].pending = calls[d].pending

Refers(t, j, calls) ==
    /\ Only(t) /\ job'[t].step = "refer" /\ ~job'[t].saw /\ SameJob(job'[t], j)
    /\ ButPending(calls, j.call)
    /\ \/ /\ obj'[j.call].pending
          /\ \E q \in Asking : /\ Pushed(t, q) /\ q.op \in {"transfer", "replace"}
                               /\ q.on = j.call /\ q.with \in Calls
       \/ Leaves(t, "rejected") /\ ~obj'[j.call].pending

LEMMA ReferStep ==
    ASSUME Types, NEW t \in Task, NEW j \in Local, NEW calls \in [Calls -> Object],
           j.call \in Calls, j.kind = "attended" => j.with \in Calls,
           Refer(t, j, calls)
    PROVE  Refers(t, j, calls)
<1> DEFINE q == IF j.kind = "attended" THEN [Asks("replace", j.call) EXCEPT !.with = j.with]
                ELSE Asks("transfer", j.call)
           b == task'[t].at = "awaiting"
<1>1. q \in Asking /\ q.op \in {"transfer", "replace"} /\ q.on = j.call /\ q.with \in Calls
  <2>1. CASE j.kind = "attended"
    BY <2>1 DEF Asks, Asking, Op, Where
  <2>2. CASE j.kind # "attended"
    BY <2>2 DEF Asks, Asking, Op, Where
  <2> QED BY <2>1, <2>2
<1>2. Sends(t, j, "refer", q) /\ obj' = [calls EXCEPT ![j.call].pending = b]
  BY DEF Refer
<1> HIDE DEF q
<1>3. /\ Only(t) /\ job'[t].step = "refer" /\ ~job'[t].saw /\ SameJob(job'[t], j)
      /\ Pushed(t, q) \/ Leaves(t, "rejected")
  BY <1>1, <1>2, SendsStep DEF Step
<1>4. b \in BOOLEAN /\ (Pushed(t, q) => b) /\ (Leaves(t, "rejected") => ~b)
  BY DEF Pushed, Leaves
<1> HIDE DEF b
<1>5. ButPending(calls, j.call) /\ obj'[j.call].pending = b
  BY <1>2, <1>4, WithPending DEF ButPending
<1> QED BY <1>1, <1>3, <1>4, <1>5 DEF Refers

(* attended_transfer: the next leg is held, the REFER goes out, or neither. *)
HoldsLeg(t, j, n, c, calls) ==
    /\ Only(t) /\ job'[t].step = "hold" /\ ~job'[t].saw
    /\ SameJob(job'[t], [j EXCEPT !.leg = n])
    /\ obj' = calls /\ ~calls[c].onHold
    /\ Pushed(t, Turns("hold", c, TRUE)) \/ Leaves(t, "rejected")

Attends(t, j, leg, calls) ==
    \/ Refers(t, j, calls)
    \/ leg = 1 /\ HoldsLeg(t, j, 1, j.call, calls)
    \/ leg <= 2 /\ HoldsLeg(t, j, 2, j.with, calls)
    \/ /\ Only(t) /\ Leaves(t, "raised") /\ job'[t].step = "none" /\ ~job'[t].saw
       /\ SameJob(job'[t], j) /\ obj' = calls

LEMMA AttendStep ==
    ASSUME Types, NEW t \in Task, NEW j \in Local, NEW calls \in [Calls -> Object],
           j.call \in Calls, j.with \in Calls, NEW leg \in 1 .. 3,
           Attend(t, j, leg, calls)
    PROVE  Attends(t, j, leg, calls)
<1> DEFINE n == IF leg = 1 /\ ~calls[j.call].onHold THEN 1
                ELSE IF leg <= 2 /\ ~calls[j.with].onHold THEN 2 ELSE 3
           c == IF n = 1 THEN j.call ELSE j.with
<1>1. n \in 1 .. 3 /\ (n = 1 => leg = 1) /\ (n = 2 => leg <= 2) /\ (n # 3 => ~calls[c].onHold)
      /\ c \in Calls
  OBVIOUS
<1>2. CASE n = 3
  <2>1. Refer(t, j, calls)
    BY <1>2 DEF Attend
  <2> QED BY <2>1, ReferStep DEF Attends
<1>3. CASE n # 3 /\ ~calls[c].up
  <2>1. obj' = calls /\ Over(t, j, "raised")
    BY <1>3 DEF Attend
  <2> QED BY <2>1, OverStep DEF Attends
<1>4. CASE n # 3 /\ calls[c].up
  <2>1. obj' = calls /\ Sends(t, [j EXCEPT !.leg = n], "hold", Turns("hold", c, TRUE))
    BY <1>4 DEF Attend
  <2>2. [j EXCEPT !.leg = n] \in Local /\ n \in {1, 2} /\ (n = 1 => c = j.call) /\ (n = 2 => c = j.with)
    BY <1>1, <1>4 DEF Local
  <2>3. Turns("hold", c, TRUE) \in Asking
    BY <1>1, AskingIs DEF Op, Where
  <2> HIDE DEF n, c
  <2>4. HoldsLeg(t, j, n, c, calls)
    BY <1>1, <1>4, <2>1, <2>2, <2>3, SendsStep DEF HoldsLeg, Step
  <2> QED BY <1>1, <2>2, <2>4 DEF Attends
<1> QED BY <1>1, <1>2, <1>3, <1>4

(* The end of a transfer or of a registration. *)
Concluded(t, o) ==
    /\ Only(t) /\ Leaves(t, o) /\ job'[t].step = "none" /\ ~job'[t].saw
    /\ SameJob(job'[t], job[t])
    /\ obj' \in [Calls -> Object] /\ registered' \in BOOLEAN
    /\ \A d \in Calls : /\ obj'[d].up = obj[d].up /\ obj'[d].onHold = obj[d].onHold
                        /\ obj'[d].request = obj[d].request
                        /\ obj'[d].pending = IF Transferring(t) /\ d = job[t].call THEN FALSE
                                             ELSE obj[d].pending

LEMMA ConcludesStep ==
    ASSUME Types, NEW t \in Task, NEW o \in {"ok", "failed", "raised", "timeout"}, Concludes(t, o),
           Transferring(t) => job[t].call \in Calls
    PROVE  Concluded(t, o)
<1>1. /\ Only(t) /\ Leaves(t, o) /\ job'[t].step = "none" /\ ~job'[t].saw
      /\ SameJob(job'[t], job[t])
  BY OverStep DEF Concludes, Types
<1>2. registered' \in BOOLEAN
  BY DEF Concludes, Types
<1>3. obj \in [Calls -> Object]
  BY DEF Types
<1>4. CASE Transferring(t)
  <2>1. obj' = [obj EXCEPT ![job[t].call].pending = FALSE]
    BY <1>4 DEF Concludes, Transferring
  <2>2. /\ obj' \in [Calls -> Object] /\ ~obj'[job[t].call].pending
        /\ \A d \in Calls : /\ obj'[d].up = obj[d].up /\ obj'[d].onHold = obj[d].onHold
                            /\ obj'[d].request = obj[d].request
                            /\ d # job[t].call => obj'[d].pending = obj[d].pending
    BY <1>3, <1>4, <2>1 DEF Object
  <2>3. \A d \in Calls : obj'[d].pending \in BOOLEAN
    BY <2>2 DEF Object
  <2>4. \A d \in Calls : obj'[d].pending = IF Transferring(t) /\ d = job[t].call THEN FALSE
                                           ELSE obj[d].pending
    BY <1>4, <2>2, <2>3
  <2> QED BY <1>1, <1>2, <2>2, <2>4 DEF Concluded
<1>5. CASE ~Transferring(t)
  <2>1. obj' = obj
    BY <1>5 DEF Concludes, Transferring
  <2> QED BY <1>1, <1>2, <1>3, <1>5, <2>1 DEF Concluded
<1> QED BY <1>4, <1>5

-----------------------------------------------------------------------------
(* An operation begins.                                                    *)

(* t begins an operation k of the call c. *)
Starts(t, k, c) ==
    /\ Only(t) /\ job'[t].kind = k /\ job'[t].call = c /\ ~job'[t].saw
    /\ job'[t].verdict = "none" /\ job'[t].whose = 0

Asks1(t, q) == Pushed(t, q) \/ Leaves(t, "rejected")

HoldBegins(t, c) ==
    /\ \E k \in {"hold", "resume"} : Starts(t, k, c)
    /\ job'[t].step = "hold" /\ job'[t].leg = 1 /\ obj' = obj
    /\ obj[c].onHold # Want(job'[t])
    /\ Asks1(t, Turns("hold", c, Want(job'[t])))

VideoBegins(t, c) ==
    /\ Starts(t, "video", c) /\ job'[t].step = "video" /\ obj' = obj
    /\ Asks1(t, Asks("video", c))

TransferBegins(t, c) ==
    Starts(t, "transfer", c) /\ ~obj[c].pending /\ Refers(t, Job("transfer", c), obj)

AttendedBegins(t, c, d) ==
    /\ Starts(t, "attended", c) /\ c # d /\ ~obj[c].pending
    /\ job'[t].with = d
    /\ Attends(t, [Job("attended", c) EXCEPT !.with = d], 1, obj)

DecisionBegins(t, c) ==
    \E k \in {"accept", "reject"} :
        /\ Starts(t, k, c) /\ job'[t].step = k /\ obj' = obj
        /\ Asks1(t, Asks(k, c))

DtmfBegins(t, c) ==
    /\ Starts(t, "dtmf", c) /\ job'[t].step = "press" /\ 1 <= job'[t].left /\ obj' = obj
    /\ Asks1(t, Turns("digit", c, TRUE))

RegistrationBegins(t) ==
    \E k \in Registers :
        /\ Starts(t, k, 0) /\ job'[t].step = k /\ obj' = obj
        /\ Asks1(t, Asks(k, 0))

OperationBegins(t) ==
    \/ \E c \in Calls : \/ HoldBegins(t, c) \/ VideoBegins(t, c) \/ TransferBegins(t, c)
                        \/ DecisionBegins(t, c) \/ DtmfBegins(t, c)
                        \/ \E d \in Calls : AttendedBegins(t, c, d)
    \/ RegistrationBegins(t)

LEMMA FirstNumber ==
    ASSUME Types, TaskInv, ops < app.ops
    PROVE  NextOne \in Task /\ NextOne <= app.ops /\ task[NextOne] = Idle /\ job[NextOne] = NoJob
<1>1. app.ops \in Nat /\ app.ops <= MaxTasks /\ ops \in Nat /\ MaxTasks \in Nat
  <2>1. /\ app.ops \in Nat /\ app.news \in Nat /\ MaxTasks \in Nat
        /\ app.ops + (IF app.policy = "manual" THEN 0 ELSE app.news) <= MaxTasks
    BY RequestsAssumption DEF Types
  <2>2. ops \in 0 .. app.ops
    BY DEF Types
  <2> QED BY <2>1, <2>2
<1>2. NextOne \in Task /\ NextOne <= app.ops /\ ops < NextOne
  BY <1>1 DEF NextOne, Task
<1>3. TaskOK(NextOne) /\ NumberOK(NextOne)
  BY <1>2 DEF TaskInv
<1> QED BY <1>2, <1>3 DEF TaskOK, NumberOK

LEMMA WantIs ==
    ASSUME NEW j, j.kind \in {"hold", "resume"}
    PROVE  Want(j) = (j.kind = "hold") /\ Want(j) \in BOOLEAN
  BY DEF Want

LEMMA Beginning ==
    ASSUME Types, TaskInv, Application
    PROVE  /\ NextOne \in Task /\ NextOne <= app.ops /\ ops' = NextOne
           /\ task[NextOne] = Idle /\ job[NextOne] = NoJob
           /\ OperationBegins(NextOne)
<1> DEFINE t == NextOne
<1>1. ops < app.ops /\ ops' = ops + 1
  BY DEF Application, SetHold, SetVideoDirection, Transfer, SendDtmf, AttendedTransfer, Decide,
           Registration, Begins
<1>2. t \in Task /\ t <= app.ops /\ ops' = t /\ task[t] = Idle /\ job[t] = NoJob
  BY <1>1, FirstNumber DEF NextOne
<1>3. app.on \subseteq Calls /\ Calls \subseteq Where /\ 0 \in Where /\ Digits \in Nat
      /\ obj \in [Calls -> Object]
  BY RequestsAssumption DEF Types, Where
<1> HIDE DEF t
<1>4. ASSUME NEW c \in app.on, NEW k \in {"hold", "resume"}, SetHold(c, k)
      PROVE  HoldBegins(t, c)
  <2>1. Sends(t, Job(k, c), "hold", Turns("hold", c, k = "hold")) /\ obj' = obj
        /\ obj[c].onHold # Want(Job(k, c))
    BY <1>4 DEF SetHold, t
  <2>2. /\ Job(k, c) \in Local /\ Job(k, c).kind = k /\ Job(k, c).call = c /\ Job(k, c).leg = 1
        /\ Job(k, c).verdict = "none" /\ Job(k, c).whose = 0
    BY <1>3, JobIs DEF Operation
  <2>3. Turns("hold", c, k = "hold") \in Asking
    BY <1>3, AskingIs DEF Op
  <2>4. /\ Only(t) /\ job'[t].step = "hold" /\ ~job'[t].saw /\ SameJob(job'[t], Job(k, c))
        /\ Asks1(t, Turns("hold", c, k = "hold"))
    BY <1>2, <2>1, <2>2, <2>3, SendsStep DEF Step, Asks1
  <2>5. Want(job'[t]) = (k = "hold") /\ Want(Job(k, c)) = (k = "hold")
    BY <2>2, <2>4 DEF SameJob, Want
  <2> QED BY <2>1, <2>2, <2>4, <2>5 DEF HoldBegins, Starts, SameJob
<1>5. ASSUME NEW c \in app.on, SetVideoDirection(c)
      PROVE  VideoBegins(t, c)
  <2>1. Sends(t, Job("video", c), "video", Asks("video", c)) /\ obj' = obj
    BY <1>5 DEF SetVideoDirection, t
  <2>2. /\ Job("video", c) \in Local /\ Job("video", c).kind = "video" /\ Job("video", c).call = c
        /\ Job("video", c).verdict = "none" /\ Job("video", c).whose = 0
    BY <1>3, JobIs DEF Operation
  <2>3. Asks("video", c) \in Asking
    BY <1>3, AskingIs DEF Op
  <2>4. /\ Only(t) /\ job'[t].step = "video" /\ ~job'[t].saw /\ SameJob(job'[t], Job("video", c))
        /\ Asks1(t, Asks("video", c))
    BY <1>2, <2>1, <2>2, <2>3, SendsStep DEF Step, Asks1
  <2> QED BY <2>1, <2>2, <2>4 DEF VideoBegins, Starts, SameJob
<1>6. ASSUME NEW c \in app.on, Transfer(c)
      PROVE  TransferBegins(t, c)
  <2>1. Refer(t, Job("transfer", c), obj) /\ ~obj[c].pending
    BY <1>6 DEF Transfer, t
  <2>2. /\ Job("transfer", c) \in Local /\ Job("transfer", c).kind = "transfer"
        /\ Job("transfer", c).call = c
        /\ Job("transfer", c).verdict = "none" /\ Job("transfer", c).whose = 0
    BY <1>3, JobIs DEF Operation
  <2>3. Refers(t, Job("transfer", c), obj)
    BY <1>2, <1>3, <2>1, <2>2, ReferStep
  <2> QED BY <2>1, <2>2, <2>3 DEF TransferBegins, Starts, SameJob, Refers
<1>7. ASSUME NEW c \in app.on, NEW k \in {"accept", "reject"}, Decide(c, k)
      PROVE  DecisionBegins(t, c)
  <2> DEFINE j == [Job(k, c) EXCEPT !.req = obj[c].request]
  <2>1. Sends(t, j, k, Asks(k, c)) /\ obj' = obj
    BY <1>7 DEF Decide, t
  <2>2. j \in Local /\ j.kind = k /\ j.call = c /\ j.verdict = "none" /\ j.whose = 0
    <3>1. obj[c].request \in Nat
      BY <1>3, RequestsAssumption DEF Object, Types
    <3>2. /\ Job(k, c) \in Local /\ Job(k, c).kind = k /\ Job(k, c).call = c
          /\ Job(k, c).verdict = "none" /\ Job(k, c).whose = 0
      BY <1>3, JobIs DEF Operation
    <3> QED BY <3>1, <3>2 DEF Local
  <2>3. Asks(k, c) \in Asking
    BY <1>3, <1>7 DEF Asks, Asking, Op
  <2> HIDE DEF j
  <2>4. /\ Only(t) /\ job'[t].step = k /\ ~job'[t].saw /\ SameJob(job'[t], j)
        /\ Asks1(t, Asks(k, c))
    BY <1>2, <2>1, <2>2, <2>3, SendsStep DEF Step, Asks1
  <2> QED BY <2>1, <2>2, <2>4 DEF DecisionBegins, Starts, SameJob
<1>8. ASSUME NEW c \in app.on, SendDtmf(c)
      PROVE  DtmfBegins(t, c)
  <2> DEFINE j == [Job("dtmf", c) EXCEPT !.left = Digits]
  <2>1. Sends(t, j, "press", Turns("digit", c, TRUE)) /\ obj' = obj
    BY <1>8 DEF SendDtmf, t
  <2>2. /\ j \in Local /\ j.kind = "dtmf" /\ j.call = c /\ j.verdict = "none" /\ j.whose = 0
        /\ 1 <= j.left
    <3>1. /\ Job("dtmf", c) \in Local /\ Job("dtmf", c).kind = "dtmf" /\ Job("dtmf", c).call = c
          /\ Job("dtmf", c).verdict = "none" /\ Job("dtmf", c).whose = 0
      BY <1>3, JobIs DEF Operation
    <3> QED BY <1>3, <3>1, RequestsAssumption DEF Local
  <2>3. Turns("digit", c, TRUE) \in Asking
    BY <1>3, AskingIs DEF Op
  <2> HIDE DEF j
  <2>4. /\ Only(t) /\ job'[t].step = "press" /\ ~job'[t].saw /\ SameJob(job'[t], j)
        /\ Asks1(t, Turns("digit", c, TRUE))
    BY <1>2, <2>1, <2>2, <2>3, SendsStep DEF Step, Asks1
  <2> QED BY <2>1, <2>2, <2>4 DEF DtmfBegins, Starts, SameJob
<1>9. ASSUME NEW c \in app.on, NEW d \in Calls, AttendedTransfer(c, d)
      PROVE  AttendedBegins(t, c, d)
  <2> DEFINE j == [Job("attended", c) EXCEPT !.with = d]
  <2>1. Attend(t, j, 1, obj) /\ ~obj[c].pending /\ c # d
    BY <1>9 DEF AttendedTransfer, t
  <2>2. /\ j \in Local /\ j.kind = "attended" /\ j.call = c /\ j.with = d
        /\ j.verdict = "none" /\ j.whose = 0
    <3>1. /\ Job("attended", c) \in Local /\ Job("attended", c).kind = "attended"
          /\ Job("attended", c).call = c
          /\ Job("attended", c).verdict = "none" /\ Job("attended", c).whose = 0
      BY <1>3, JobIs DEF Operation
    <3> QED BY <1>3, <3>1 DEF Local
  <2> HIDE DEF j
  <2>3. Attends(t, j, 1, obj)
    BY <1>2, <1>3, <2>1, <2>2, AttendStep
  <2>4. Only(t) /\ ~job'[t].saw /\ job'[t].kind = "attended" /\ job'[t].call = c /\ job'[t].with = d
        /\ job'[t].verdict = "none" /\ job'[t].whose = 0
    <3>1. ASSUME NEW n \in 1 .. 2, SameJob(job'[t], [j EXCEPT !.leg = n])
          PROVE  SameJob(job'[t], j) \/ /\ job'[t].kind = j.kind /\ job'[t].call = j.call
                                        /\ job'[t].with = j.with /\ job'[t].verdict = j.verdict
                                        /\ job'[t].whose = j.whose
      BY <2>2, <3>1 DEF SameJob, Local
    <3>2. CASE Refers(t, j, obj)
      BY <2>2, <3>2 DEF Refers, SameJob
    <3>3. ASSUME NEW n \in 1 .. 2, NEW l \in Calls, HoldsLeg(t, j, n, l, obj)
          PROVE  Only(t) /\ ~job'[t].saw /\ job'[t].kind = "attended" /\ job'[t].call = c
                 /\ job'[t].with = d /\ job'[t].verdict = "none" /\ job'[t].whose = 0
      BY <2>2, <3>1, <3>3 DEF HoldsLeg, SameJob
    <3>4. CASE Only(t) /\ Leaves(t, "raised") /\ ~job'[t].saw /\ SameJob(job'[t], j)
      BY <2>2, <3>4 DEF SameJob
    <3> QED BY <1>3, <2>2, <2>3, <3>2, <3>3, <3>4 DEF Attends
  <2> QED BY <2>1, <2>3, <2>4 DEF AttendedBegins, Starts, j
<1>10. ASSUME NEW k \in Registers, Registration(k)
       PROVE  RegistrationBegins(t)
  <2>1. Sends(t, Job(k, 0), k, Asks(k, 0)) /\ obj' = obj
    BY <1>10 DEF Registration, t
  <2>2. /\ Job(k, 0) \in Local /\ Job(k, 0).kind = k /\ Job(k, 0).call = 0
        /\ Job(k, 0).verdict = "none" /\ Job(k, 0).whose = 0
    BY <1>3, JobIs DEF Operation, Registers
  <2>3. Asks(k, 0) \in Asking
    BY <1>3, <1>10 DEF Asks, Asking, Op, Registers
  <2>4. /\ Only(t) /\ job'[t].step = k /\ ~job'[t].saw /\ SameJob(job'[t], Job(k, 0))
        /\ Asks1(t, Asks(k, 0))
    BY <1>2, <2>1, <2>2, <2>3, SendsStep DEF Step, Asks1, Registers
  <2> QED BY <2>1, <2>2, <2>4 DEF RegistrationBegins, Starts, SameJob
<1>11. OperationBegins(t)
  BY <1>3, <1>4, <1>5, <1>6, <1>7, <1>8, <1>9, <1>10 DEF Application, OperationBegins, Registers
<1> QED BY <1>2, <1>11 DEF t

-----------------------------------------------------------------------------
(* A coroutine goes on.                                                    *)

SameOp(a, b) ==
    /\ a.kind = b.kind /\ a.call = b.call /\ a.with = b.with
    /\ a.verdict = b.verdict /\ a.whose = b.whose

Returns(t, o) ==
    /\ Only(t) /\ Leaves(t, o) /\ job'[t].step = "none" /\ ~job'[t].saw
    /\ SameJob(job'[t], job[t])

(* The requests of the Call objects are kept, or decided. *)
Objects ==
    /\ obj' \in [Calls -> Object] /\ registered' \in BOOLEAN
    /\ due' \in [Calls -> [no : Nat, lost : BOOLEAN]]
    /\ \A d \in Calls : obj'[d].up = obj[d].up
    /\ \A d \in Calls : \/ obj'[d].request = obj[d].request /\ due'[d] = due[d]
                        \/ obj'[d].request = 0 /\ (due'[d].no = 0 \/ due'[d].lost)

Pauses(t, at, s) ==
    /\ Only(t) /\ queue' = queue /\ SameJob(job'[t], job[t]) /\ job'[t].step = s
    /\ task'[t].at = at /\ task'[t].fut = "open" /\ ~task'[t].expired /\ task'[t].out = "none"

(* The Call objects after a hold or resume that was carried out. *)
HeldCalls(t) == [obj EXCEPT ![Leg(job[t])].onHold = Want(job[t])]

HoldGoesOn(t) ==
    /\ task[t].at = "awaiting" /\ job[t].step = "hold" /\ Leg(job[t]) \in Calls
    /\ \/ /\ Result(t) = "ok" /\ job[t].saw /\ job[t].kind = "attended"
          /\ Attends(t, job[t], job[t].leg + 1, HeldCalls(t))
       \/ /\ Result(t) = "ok" /\ job[t].saw /\ job[t].kind # "attended"
          /\ Returns(t, "ok") /\ obj' = HeldCalls(t)
       \/ /\ Result(t) = "ok" /\ ~job[t].saw /\ obj' = obj
          /\ Only(t) /\ SameJob(job'[t], job[t]) /\ job'[t].step = "undo" /\ ~job'[t].saw
          /\ Asks1(t, Turns("hold", Leg(job[t]), ~Want(job[t])))
       \/ Result(t) = "stale" /\ Returns(t, "stale") /\ obj' = obj
       \/ Result(t) \notin {"ok", "stale"} /\ Returns(t, "raised") /\ obj' = obj

UndoGoesOn(t) ==
    /\ task[t].at = "awaiting" /\ job[t].step = "undo" /\ Leg(job[t]) \in Calls /\ obj' = obj
    /\ \/ Result(t) \in {"ok", "stale"} /\ Returns(t, "unsent")
       \/ Result(t) \notin {"ok", "stale"} /\ Returns(t, "raised")

VideoGoesOn(t) ==
    /\ task[t].at = "awaiting" /\ job[t].step = "video" /\ obj' = obj
    /\ \/ Result(t) = "ok" /\ \E o \in {"ok", "unsent"} : Returns(t, o)
       \/ Result(t) = "stale" /\ Returns(t, "stale")
       \/ Result(t) \notin {"ok", "stale"} /\ Returns(t, "raised")

Awaited == {"refer", "register", "unregister"}

SentGoesOn(t) ==
    /\ task[t].at = "awaiting" /\ job[t].step \in Awaited
    /\ \/ Result(t) # "ok" /\ Concluded(t, "raised")
       \/ /\ Result(t) = "ok" /\ job[t].verdict # "none"
          /\ Concluded(t, job[t].verdict)
       \/ /\ Result(t) = "ok" /\ job[t].verdict = "none" /\ obj' = obj
          /\ Pauses(t, "waiting", IF job[t].step = "refer" THEN "outcome" ELSE "answer")

OutcomeGoesOn(t) ==
    /\ task[t].at = "waiting"
    /\ \/ task[t].expired /\ Concluded(t, "timeout")
       \/ job[t].verdict # "none" /\ Concluded(t, job[t].verdict)

DecisionGoesOn(t) ==
    /\ task[t].at = "awaiting" /\ job[t].kind \in {"accept", "reject"}
    /\ \/ Result(t) = "ok" /\ Returns(t, "ok")
       \/ Result(t) # "ok" /\ Returns(t, "raised")
    /\ \A d \in Calls : obj'[d].onHold = obj[d].onHold /\ obj'[d].pending = obj[d].pending

PolicyGoesOn(t) ==
    /\ job[t].kind = "policy" /\ obj' = obj
    /\ \/ /\ task[t].at = "starting"
          /\ \E k \in {"accept", "reject"} :
                /\ Only(t) /\ SameJob(job'[t], job[t]) /\ job'[t].step = k
                /\ Asks1(t, Asks(k, job[t].call))
       \/ /\ task[t].at = "awaiting"
          /\ \/ Result(t) = "ok" /\ Returns(t, "ok")
             \/ Result(t) # "ok" /\ Returns(t, "raised")

DigitGoesOn(t) ==
    /\ job[t].kind = "dtmf" /\ obj' = obj
    /\ \/ /\ task[t].at = "awaiting" /\ job[t].step \in {"press", "release"}
          /\ \/ Result(t) # "ok" /\ Returns(t, "raised")
             \/ Result(t) = "ok" /\ job[t].step = "release" /\ Returns(t, "ok")
             \/ Result(t) = "ok" /\ job[t].step = "press" /\ Pauses(t, "sleeping", "tone")
             \/ Result(t) = "ok" /\ job[t].step = "release" /\ job[t].left # 1 /\ Pauses(t, "sleeping", "gap")
       \/ /\ task[t].at = "sleeping"
          /\ Only(t) /\ SameOp(job'[t], job[t]) /\ 1 <= job'[t].left
          /\ \/ /\ job[t].step = "tone" /\ job'[t].step = "release"
                /\ Asks1(t, Turns("digit", job[t].call, FALSE))
             \/ /\ job[t].step = "gap" /\ job'[t].step = "press"
                /\ Asks1(t, Turns("digit", job[t].call, TRUE))

Resumes(t) ==
    /\ ready # <<>> /\ Head(ready) = Wake(t) /\ ready' = Tail(ready)
    /\ Running(t) /\ (task[t].at = "starting" \/ task[t].fut \notin {"none", "open"})
    /\ Objects
    /\ \/ HoldGoesOn(t) \/ UndoGoesOn(t) \/ VideoGoesOn(t) \/ SentGoesOn(t) \/ OutcomeGoesOn(t)
       \/ DecisionGoesOn(t) \/ PolicyGoesOn(t) \/ DigitGoesOn(t)

LEMMA WokenIs ==
    ASSUME Types, WakeInv, NEW t \in Task, Woken(t)
    PROVE  /\ ready # <<>> /\ Head(ready) = Wake(t) /\ ready' = Tail(ready)
           /\ Running(t) /\ (task[t].at = "starting" \/ task[t].fut \notin {"none", "open"})
<1>1. ready # <<>> /\ Head(ready) = Wake(t) /\ ready' = Tail(ready)
  BY DEF Woken, Rest
<1>2. Head(ready) = ready[1] /\ 1 \in 1 .. Len(ready)
  BY <1>1, Taken DEF Types
<1>3. ready[1].kind = "wake" /\ ready[1].by = t
  BY <1>1, <1>2 DEF Wake
<1> QED BY <1>1, <1>2, <1>3 DEF WakeInv, Awake, Running

(* The step of a coroutine that runs tells where it is. *)
LEMMA WhereItIs ==
    ASSUME Types, TaskInv, NEW t \in Task, Running(t)
    PROVE  /\ task[t].at \in {"starting", "awaiting", "waiting", "sleeping"}
           /\ job[t].step \in Commanding => task[t].at = "awaiting" /\ job[t].kind \in Kinds(job[t].step)
           /\ task[t].at = "awaiting" => job[t].step \in Commanding
           /\ task[t].at = "waiting" =>
                job[t].step \in {"outcome", "answer"} /\ job[t].kind \in Kinds(job[t].step)
           /\ task[t].at = "sleeping" => job[t].step \in {"tone", "gap"} /\ job[t].kind = "dtmf"
           /\ task[t].at = "starting" => job[t].kind = "policy" /\ job[t].step = "none"
           /\ task[t].out = "none"
           /\ job[t].kind \notin Registers \cup {"none"} => job[t].call \in Calls
           /\ job[t].kind = "attended" => job[t].with \in Calls
<1>1. TaskOK(t) /\ task[t].at \notin {"idle", "over"}
  BY DEF TaskInv, Running
<1>2. task[t].at \in {"starting", "awaiting", "waiting", "sleeping"}
  BY <1>1 DEF Types, Coroutine
<1> QED BY <1>1, <1>2 DEF TaskOK, JobOK, Kinds, Commanding

(* Another change of the Call objects than of their requests. *)
LEMMA ObjectsKept ==
    ASSUME Types, registered' \in BOOLEAN, due' = due, obj' \in [Calls -> Object],
           \A d \in Calls : obj'[d].up = obj[d].up /\ obj'[d].request = obj[d].request
    PROVE  Objects
  BY DEF Objects, Types

LEMMA HeldCallsIs ==
    ASSUME Types, TaskInv, NEW t \in Task, Running(t), job[t].step \in {"hold", "undo"}
    PROVE  /\ Leg(job[t]) \in Calls /\ Want(job[t]) \in BOOLEAN
           /\ HeldCalls(t) \in [Calls -> Object] /\ HeldCalls(t)[Leg(job[t])].onHold = Want(job[t])
           /\ \A d \in Calls : /\ HeldCalls(t)[d].up = obj[d].up
                               /\ HeldCalls(t)[d].pending = obj[d].pending
                               /\ HeldCalls(t)[d].request = obj[d].request
                               /\ d # Leg(job[t]) => HeldCalls(t)[d].onHold = obj[d].onHold
<1>1. job[t].kind \in {"hold", "resume", "attended"}
  BY WhereItIs DEF Kinds, Commanding
<1>2. Leg(job[t]) \in Calls
  BY <1>1, WhereItIs DEF Leg, Registers
<1>3. Want(job[t]) \in BOOLEAN /\ obj \in [Calls -> Object]
  BY DEF Want, Types
<1> QED BY <1>2, <1>3, WithOnHold DEF HeldCalls

(* What attended_transfer makes of the Call objects. *)
LEMMA AttendsObjects ==
    ASSUME NEW t \in Task, NEW j \in Local, NEW leg \in 1 .. 3, NEW calls \in [Calls -> Object],
           j.call \in Calls, Attends(t, j, leg, calls)
    PROVE  /\ obj' \in [Calls -> Object]
           /\ \A d \in Calls : /\ obj'[d].up = calls[d].up /\ obj'[d].onHold = calls[d].onHold
                               /\ obj'[d].request = calls[d].request
                               /\ d # j.call => obj'[d].pending = calls[d].pending
<1>1. CASE Refers(t, j, calls)
  BY <1>1 DEF Refers, ButPending
<1>2. CASE obj' = calls
  BY <1>2
<1> QED BY <1>1, <1>2 DEF Attends, HoldsLeg

LEMMA HoldReturnsStep ==
    ASSUME Types, TaskInv, WakeInv, NEW t \in Task, HoldReturns(t)
    PROVE  HoldGoesOn(t) /\ Objects
<1> DEFINE j == job[t]
           c == Leg(j)
<1>1. Running(t) /\ j.step = "hold" /\ registered' = registered /\ due' = due /\ j \in Local
  BY WokenIs DEF HoldReturns, Types
<1>2. /\ task[t].at = "awaiting" /\ j.kind \in {"hold", "resume", "attended"}
      /\ j.call \in Calls /\ (j.kind = "attended" => j.with \in Calls) /\ j.leg \in 1 .. 2
  BY <1>1, WhereItIs DEF Kinds, Commanding, Registers, Local
<1>3. /\ c \in Calls /\ Want(j) \in BOOLEAN /\ HeldCalls(t) \in [Calls -> Object]
      /\ \A d \in Calls : /\ HeldCalls(t)[d].up = obj[d].up
                          /\ HeldCalls(t)[d].request = obj[d].request
  BY <1>1, HeldCallsIs
<1>4. obj \in [Calls -> Object] /\ registered' \in BOOLEAN
  BY <1>1 DEF Types
<1>5. CASE Result(t) = "ok" /\ j.saw /\ j.kind = "attended" /\ Attend(t, j, j.leg + 1, HeldCalls(t))
  <2>1. j.leg + 1 \in 1 .. 3
    BY <1>2
  <2>2. Attends(t, j, j.leg + 1, HeldCalls(t))
    BY <1>1, <1>2, <1>3, <1>5, <2>1, AttendStep
  <2>3. /\ obj' \in [Calls -> Object]
        /\ \A d \in Calls : obj'[d].up = obj[d].up /\ obj'[d].request = obj[d].request
    BY <1>1, <1>2, <1>3, <2>1, <2>2, AttendsObjects
  <2>4. Objects
    BY <1>1, <1>4, <2>3, ObjectsKept
  <2> QED BY <1>1, <1>2, <1>3, <1>5, <2>2, <2>4 DEF HoldGoesOn
<1>6. CASE Result(t) = "ok" /\ j.saw /\ j.kind # "attended" /\ Over(t, j, "ok") /\ obj' = HeldCalls(t)
  <2>1. Returns(t, "ok")
    BY <1>1, <1>6, OverStep DEF Returns
  <2>2. Objects
    BY <1>1, <1>3, <1>4, <1>6, ObjectsKept
  <2> QED BY <1>1, <1>2, <1>3, <1>6, <2>1, <2>2 DEF HoldGoesOn
<1>7. CASE Result(t) = "ok" /\ ~j.saw /\ Sends(t, j, "undo", Turns("hold", c, ~Want(j))) /\ obj' = obj
  <2>1. Turns("hold", c, ~Want(j)) \in Asking
    BY <1>3, AskingIs DEF Op, Where
  <2>2. /\ Only(t) /\ SameJob(job'[t], j) /\ job'[t].step = "undo" /\ ~job'[t].saw
        /\ Asks1(t, Turns("hold", c, ~Want(j)))
    BY <1>1, <1>7, <2>1, SendsStep DEF Step, Asks1
  <2>3. Objects
    BY <1>1, <1>4, <1>7, ObjectsKept
  <2> QED BY <1>1, <1>2, <1>3, <1>7, <2>2, <2>3 DEF HoldGoesOn
<1>8. CASE Result(t) # "ok" /\ Over(t, j, IF Result(t) = "stale" THEN "stale" ELSE "raised") /\ obj' = obj
  <2>1. Objects
    BY <1>1, <1>4, <1>8, ObjectsKept
  <2>2. CASE Result(t) = "stale"
    <3>1. Returns(t, "stale")
      BY <1>1, <1>8, <2>2, OverStep DEF Returns
    <3> QED BY <1>1, <1>2, <1>3, <1>8, <2>1, <2>2, <3>1 DEF HoldGoesOn
  <2>3. CASE Result(t) # "stale"
    <3>1. Returns(t, "raised")
      BY <1>1, <1>8, <2>3, OverStep DEF Returns
    <3> QED BY <1>1, <1>2, <1>3, <1>8, <2>1, <2>3, <3>1 DEF HoldGoesOn
  <2> QED BY <2>2, <2>3
<1> QED BY <1>5, <1>6, <1>7, <1>8 DEF HoldReturns, HeldCalls

LEMMA UndoReturnsStep ==
    ASSUME Types, TaskInv, WakeInv, NEW t \in Task, UndoReturns(t)
    PROVE  UndoGoesOn(t) /\ Objects
<1>1. Running(t) /\ job[t].step = "undo" /\ obj' = obj /\ registered' = registered /\ due' = due
      /\ job[t] \in Local
  BY WokenIs DEF UndoReturns, Types
<1>2. task[t].at = "awaiting" /\ Leg(job[t]) \in Calls
  BY <1>1, WhereItIs, HeldCallsIs DEF Commanding
<1>3. Objects
  BY <1>1, ObjectsKept DEF Types
<1>4. CASE Result(t) \in {"ok", "stale"}
  <2>1. Returns(t, "unsent")
    BY <1>1, <1>4, OverStep DEF UndoReturns, Returns
  <2> QED BY <1>1, <1>2, <1>3, <1>4, <2>1 DEF UndoGoesOn
<1>5. CASE Result(t) \notin {"ok", "stale"}
  <2>1. Returns(t, "raised")
    BY <1>1, <1>5, OverStep DEF UndoReturns, Returns
  <2> QED BY <1>1, <1>2, <1>3, <1>5, <2>1 DEF UndoGoesOn
<1> QED BY <1>4, <1>5

LEMMA VideoReturnsStep ==
    ASSUME Types, TaskInv, WakeInv, NEW t \in Task, VideoReturns(t)
    PROVE  VideoGoesOn(t) /\ Objects
<1>1. Running(t) /\ job[t].step = "video" /\ obj' = obj /\ registered' = registered /\ due' = due
      /\ job[t] \in Local
  BY WokenIs DEF VideoReturns, Types
<1>2. task[t].at = "awaiting"
  BY <1>1, WhereItIs DEF Commanding
<1>3. Objects
  BY <1>1, ObjectsKept DEF Types
<1>4. CASE Result(t) = "ok"
  <2>1. PICK o \in {"ok", "unsent"} : Over(t, job[t], o)
    BY <1>4 DEF VideoReturns
  <2>2. Returns(t, o)
    BY <1>1, <2>1, OverStep DEF Returns
  <2> QED BY <1>1, <1>2, <1>3, <1>4, <2>2 DEF VideoGoesOn
<1>5. CASE Result(t) = "stale"
  <2>1. Returns(t, "stale")
    BY <1>1, <1>5, OverStep DEF VideoReturns, Returns
  <2> QED BY <1>1, <1>2, <1>3, <1>5, <2>1 DEF VideoGoesOn
<1>6. CASE Result(t) \notin {"ok", "stale"}
  <2>1. Returns(t, "raised")
    BY <1>1, <1>6, OverStep DEF VideoReturns, Returns
  <2> QED BY <1>1, <1>2, <1>3, <1>6, <2>1 DEF VideoGoesOn
<1> QED BY <1>4, <1>5, <1>6

LEMMA ConcludedObjects ==
    ASSUME Types, NEW t \in Task, NEW o, Concluded(t, o), due' = due
    PROVE  Objects
  BY ObjectsKept DEF Concluded

LEMMA SentStep ==
    ASSUME Types, TaskInv, WakeInv, NEW t \in Task, Sent(t)
    PROVE  SentGoesOn(t) /\ Objects
<1>1. Running(t) /\ job[t].step \in Awaited /\ due' = due /\ job[t] \in Local
  BY WokenIs DEF Sent, Awaited, Types
<1>2. /\ task[t].at = "awaiting" /\ (Transferring(t) => job[t].call \in Calls)
      /\ task[t].out = "none" /\ job[t].verdict \in {"none", "ok", "failed"}
  BY <1>1, WhereItIs DEF Commanding, Awaited, Transferring, Registers, Local
<1>3. CASE Result(t) # "ok"
  <2>1. Concluded(t, "raised")
    BY <1>2, <1>3, ConcludesStep DEF Sent
  <2> QED BY <1>1, <1>2, <1>3, <2>1, ConcludedObjects DEF SentGoesOn
<1>4. CASE Result(t) = "ok" /\ job[t].verdict # "none"
  <2>1. Concluded(t, job[t].verdict)
    BY <1>2, <1>4, ConcludesStep DEF Sent
  <2> QED BY <1>1, <1>2, <1>4, <2>1, ConcludedObjects DEF SentGoesOn
<1>5. CASE Result(t) = "ok" /\ job[t].verdict = "none"
  <2> DEFINE s == IF job[t].step = "refer" THEN "outcome" ELSE "answer"
  <2>1. Waits(t, "waiting", s) /\ obj' = obj /\ registered' = registered
    BY <1>5 DEF Sent
  <2>2. Pauses(t, "waiting", s)
    BY <1>2, <2>1, WaitsStep DEF Pauses, Step
  <2>3. Objects
    BY <1>1, <2>1, ObjectsKept DEF Types
  <2> QED BY <1>1, <1>2, <1>5, <2>1, <2>2, <2>3 DEF SentGoesOn
<1> QED BY <1>3, <1>4, <1>5

LEMMA OutcomeStep ==
    ASSUME Types, TaskInv, WakeInv, NEW t \in Task, Outcome(t)
    PROVE  OutcomeGoesOn(t) /\ Objects
<1>1. /\ Running(t) /\ task[t].at = "waiting" /\ due' = due /\ task[t].fut \notin {"none", "open"}
  BY WokenIs DEF Outcome
<1>2. /\ (Transferring(t) => job[t].call \in Calls) /\ job[t].verdict \in {"none", "ok", "failed"}
  BY <1>1, WhereItIs DEF Transferring, Registers, Local, Types
<1>3. CASE task[t].expired
  <2>1. Concluded(t, "timeout")
    BY <1>2, <1>3, ConcludesStep DEF Outcome
  <2> QED BY <1>1, <1>3, <2>1, ConcludedObjects DEF OutcomeGoesOn
<1>4. CASE ~task[t].expired
  <2>1. job[t].verdict # "none"
    BY <1>1, <1>4 DEF TaskInv, TaskOK, JobOK
  <2>2. Concluded(t, job[t].verdict)
    BY <1>2, <1>4, <2>1, ConcludesStep DEF Outcome
  <2> QED BY <1>1, <2>1, <2>2, ConcludedObjects DEF OutcomeGoesOn
<1> QED BY <1>3, <1>4

LEMMA DecisionReturnsStep ==
    ASSUME Types, TaskInv, WakeInv, NEW t \in Task, DecisionReturns(t)
    PROVE  DecisionGoesOn(t) /\ Objects
<1> DEFINE c == job[t].call
<1>1. Running(t) /\ job[t].kind \in {"accept", "reject"} /\ registered' = registered
      /\ job[t] \in Local
  BY WokenIs DEF DecisionReturns, Types
<1>2. /\ task[t].at = "awaiting" /\ c \in Calls
  BY <1>1, WhereItIs DEF Kinds, Commanding, Registers
<1>3. obj \in [Calls -> Object] /\ due \in [Calls -> [no : Nat, lost : BOOLEAN]]
      /\ registered' \in BOOLEAN
  BY <1>1 DEF Types
<1>4. CASE Result(t) = "ok"
  <2>1. Returns(t, "ok")
    BY <1>1, <1>4, OverStep DEF DecisionReturns, Returns
  <2>2. obj' = [obj EXCEPT ![c].request = 0]
    BY <1>4 DEF DecisionReturns
  <2>3. /\ obj' \in [Calls -> Object] /\ obj'[c].request = 0
        /\ \A d \in Calls : /\ obj'[d].up = obj[d].up /\ obj'[d].onHold = obj[d].onHold
                            /\ obj'[d].pending = obj[d].pending
                            /\ d # c => obj'[d].request = obj[d].request
    BY <1>2, <1>3, <2>2, WithRequest
  <2>4. /\ due' \in [Calls -> [no : Nat, lost : BOOLEAN]]
        /\ due'[c].no = 0 \/ due'[c].lost
        /\ \A d \in Calls : d # c => due'[d] = due[d]
    <3>1. CASE due[c].no = job[t].req
      <4>1. due' = [due EXCEPT ![c] = [no |-> 0, lost |-> FALSE]]
        BY <1>4, <3>1 DEF DecisionReturns
      <4> QED BY <1>2, <1>3, <4>1
    <3>2. CASE due[c].no # job[t].req
      <4>1. due' = [due EXCEPT ![c].lost = TRUE]
        BY <1>4, <3>2 DEF DecisionReturns
      <4> QED BY <1>2, <1>3, <4>1
    <3> QED BY <3>1, <3>2
  <2>5. Objects
    BY <1>3, <2>3, <2>4 DEF Objects
  <2> QED BY <1>1, <1>2, <1>4, <2>1, <2>3, <2>5 DEF DecisionGoesOn
<1>5. CASE Result(t) # "ok"
  <2>1. Returns(t, "raised")
    BY <1>1, <1>5, OverStep DEF DecisionReturns, Returns
  <2>2. obj' = obj /\ due' = due
    BY <1>5 DEF DecisionReturns
  <2>3. Objects
    BY <1>3, <2>2, ObjectsKept
  <2> QED BY <1>1, <1>2, <1>5, <2>1, <2>2, <2>3 DEF DecisionGoesOn
<1> QED BY <1>4, <1>5

LEMMA PolicyStep ==
    ASSUME Types, TaskInv, WakeInv, NEW t \in Task, PolicyStarts(t) \/ PolicyReturns(t)
    PROVE  PolicyGoesOn(t) /\ Objects
<1>1. Running(t) /\ obj' = obj /\ registered' = registered /\ due' = due /\ job[t] \in Local
  BY WokenIs DEF PolicyStarts, PolicyReturns, Types
<1>2. Objects
  BY <1>1, ObjectsKept DEF Types
<1>3. CASE PolicyStarts(t)
  <2>1. task[t].at = "starting" /\ job[t].kind = "policy" /\ job[t].call \in Calls
    BY <1>1, <1>3, WhereItIs DEF PolicyStarts, Registers
  <2>2. PICK k \in {"accept", "reject"} : Sends(t, job[t], k, Asks(k, job[t].call))
    BY <1>3 DEF PolicyStarts
  <2>3. Asks(k, job[t].call) \in Asking
    BY <2>1, <2>2 DEF Asks, Asking, Op, Where
  <2>4. /\ Only(t) /\ SameJob(job'[t], job[t]) /\ job'[t].step = k
        /\ Asks1(t, Asks(k, job[t].call))
    BY <1>1, <2>2, <2>3, SendsStep DEF Step, Asks1
  <2> QED BY <1>1, <1>2, <2>1, <2>4 DEF PolicyGoesOn
<1>4. CASE PolicyReturns(t)
  <2>1. job[t].kind = "policy" /\ task[t].at = "awaiting"
    BY <1>1, <1>4, WhereItIs DEF PolicyReturns, Commanding
  <2>2. CASE Result(t) = "ok"
    <3>1. Returns(t, "ok")
      BY <1>1, <1>4, <2>2, OverStep DEF PolicyReturns, Returns
    <3> QED BY <1>1, <1>2, <2>1, <2>2, <3>1 DEF PolicyGoesOn
  <2>3. CASE Result(t) # "ok"
    <3>1. Returns(t, "raised")
      BY <1>1, <1>4, <2>3, OverStep DEF PolicyReturns, Returns
    <3> QED BY <1>1, <1>2, <2>1, <2>3, <3>1 DEF PolicyGoesOn
  <2> QED BY <2>2, <2>3
<1> QED BY <1>3, <1>4

LEMMA DigitStep ==
    ASSUME Types, TaskInv, WakeInv, NEW t \in Task, DigitReturns(t) \/ Slept(t)
    PROVE  DigitGoesOn(t) /\ Objects
<1>1. Running(t) /\ obj' = obj /\ registered' = registered /\ due' = due /\ job[t] \in Local
  BY WokenIs DEF DigitReturns, Slept, Types
<1>2. Objects
  BY <1>1, ObjectsKept DEF Types
<1>3. CASE DigitReturns(t)
  <2>1. /\ job[t].kind = "dtmf" /\ task[t].at = "awaiting" /\ task[t].out = "none"
        /\ job[t].step \in {"press", "release"}
    BY <1>1, <1>3, WhereItIs DEF DigitReturns, Commanding, Kinds
  <2>2. CASE Over(t, job[t], "raised") /\ Result(t) # "ok"
    <3>1. Returns(t, "raised")
      BY <1>1, <2>2, OverStep DEF Returns
    <3> QED BY <1>1, <1>2, <2>1, <2>2, <3>1 DEF DigitGoesOn
  <2>3. CASE Over(t, job[t], "ok") /\ Result(t) = "ok" /\ job[t].step = "release"
    <3>1. Returns(t, "ok")
      BY <1>1, <2>3, OverStep DEF Returns
    <3> QED BY <1>1, <1>2, <2>1, <2>3, <3>1 DEF DigitGoesOn
  <2>4. CASE Result(t) = "ok" /\ (job[t].step = "release" => job[t].left # 1) /\ Waits(t, "sleeping", IF job[t].step = "press" THEN "tone" ELSE "gap")
    <3>1. CASE job[t].step = "press"
      <4>1. Pauses(t, "sleeping", "tone")
        BY <2>1, <2>4, <3>1, WaitsStep DEF Pauses, Step
      <4> QED BY <1>1, <1>2, <2>1, <2>4, <3>1, <4>1 DEF DigitGoesOn
    <3>2. CASE job[t].step = "release"
      <4>1. Pauses(t, "sleeping", "gap")
        BY <2>1, <2>4, <3>2, WaitsStep DEF Pauses, Step
      <4> QED BY <1>1, <1>2, <2>1, <2>4, <3>2, <4>1 DEF DigitGoesOn
    <3> QED BY <2>1, <3>1, <3>2
  <2> QED BY <1>3, <2>2, <2>3, <2>4 DEF DigitReturns
<1>4. CASE Slept(t)
  <2> DEFINE press == job[t].step = "gap"
             j == [job[t] EXCEPT !.left = IF press THEN job[t].left - 1 ELSE job[t].left]
             s == IF press THEN "press" ELSE "release"
  <2>1. /\ job[t].kind = "dtmf" /\ task[t].at = "sleeping" /\ job[t].step \in {"tone", "gap"}
        /\ job[t].call \in Calls
    BY <1>1, <1>4, WhereItIs DEF Slept, Registers
  <2>2. Sends(t, j, s, Turns("digit", job[t].call, press))
    BY <1>4 DEF Slept
  <2>3. Turns("digit", job[t].call, press) \in Asking
    BY <2>1, AskingIs DEF Op, Where
  <2>4. j \in Local /\ SameOp(j, job[t]) /\ 1 <= j.left
    <3>1. 1 <= job[t].left /\ (press => 2 <= job[t].left)
      BY <2>1 DEF TaskInv, TaskOK, JobOK
    <3> QED BY <1>1, <3>1, RequestsAssumption DEF Local, SameOp
  <2>5. /\ Only(t) /\ SameJob(job'[t], j) /\ job'[t].step = s
        /\ Asks1(t, Turns("digit", job[t].call, press))
    BY <2>2, <2>3, <2>4, SendsStep DEF Step, Asks1
  <2>6. SameOp(job'[t], job[t]) /\ 1 <= job'[t].left
    BY <2>4, <2>5 DEF SameJob, SameOp
  <2>7. CASE press
    <3>1. Asks1(t, Turns("digit", job[t].call, TRUE)) /\ job'[t].step = "press"
      BY <2>5, <2>7
    <3> QED BY <1>1, <1>2, <2>1, <2>5, <2>6, <2>7, <3>1 DEF DigitGoesOn
  <2>8. CASE ~press
    <3>1. Asks1(t, Turns("digit", job[t].call, FALSE)) /\ job'[t].step = "release"
      BY <2>5, <2>8
    <3> QED BY <1>1, <1>2, <2>1, <2>5, <2>6, <2>8, <3>1 DEF DigitGoesOn
  <2> QED BY <2>7, <2>8
<1> QED BY <1>3, <1>4

LEMMA Resuming ==
    ASSUME Types, TaskInv, WakeInv, NEW t \in Task, GoesOn(t)
    PROVE  Resumes(t)
<1>1. Woken(t)
  BY DEF GoesOn, HoldReturns, UndoReturns, VideoReturns, Sent, Outcome, DecisionReturns,
           PolicyStarts, PolicyReturns, DigitReturns, Slept
<1>2. /\ ready # <<>> /\ Head(ready) = Wake(t) /\ ready' = Tail(ready)
      /\ Running(t) /\ (task[t].at = "starting" \/ task[t].fut \notin {"none", "open"})
  BY <1>1, WokenIs
<1>3. CASE HoldReturns(t)
  BY <1>2, <1>3, HoldReturnsStep DEF Resumes
<1>4. CASE UndoReturns(t)
  BY <1>2, <1>4, UndoReturnsStep DEF Resumes
<1>5. CASE VideoReturns(t)
  BY <1>2, <1>5, VideoReturnsStep DEF Resumes
<1>6. CASE Sent(t)
  BY <1>2, <1>6, SentStep DEF Resumes
<1>7. CASE Outcome(t)
  BY <1>2, <1>7, OutcomeStep DEF Resumes
<1>8. CASE DecisionReturns(t)
  BY <1>2, <1>8, DecisionReturnsStep DEF Resumes
<1>9. CASE PolicyStarts(t) \/ PolicyReturns(t)
  BY <1>2, <1>9, PolicyStep DEF Resumes
<1>10. CASE DigitReturns(t) \/ Slept(t)
  BY <1>2, <1>10, DigitStep DEF Resumes
<1> QED BY <1>3, <1>4, <1>5, <1>6, <1>7, <1>8, <1>9, <1>10 DEF GoesOn

-----------------------------------------------------------------------------
(* What the coroutine that begins or goes on does to the rest.             *)

Pushes(t, q) ==
    /\ queue' = Append(queue, q) /\ q.by = t /\ q.no = task'[t].no
    /\ task'[t].at = "awaiting" /\ task'[t].fut = "open"

(* It gave up on its command, which may still be on its way. *)
GaveUp(t) == task[t].at = "awaiting" /\ task[t].fut = "cancelled"

Runs(t) ==
    /\ Only(t) /\ TaskOK(t)' /\ job'[t].kind # "none"
    /\ \/ queue' = queue
       \/ \E q \in Order : Pushes(t, q) /\ OrderOK(q)'
    /\ GaveUp(t) => Leaves(t, "raised") /\ job'[t].step = "none" /\ SameJob(job'[t], job[t])

LEMMA PushedRuns ==
    ASSUME Types, NEW t \in Task, NEW q \in Asking, Only(t), Pushed(t, q), JobOK(job'[t]),
           job'[t].kind # "none", job'[t].step \in Commanding, ~GaveUp(t),
           \A r \in Order : r = Full(t, q) => OrderOK(r)'
    PROVE  Runs(t)
<1>1. TaskOK(t)'
  BY DEF TaskOK, Pushed, Only, Commanding, Running, JobOK
<1>2. Full(t, q).by = t /\ Full(t, q).no = task[t].no + 1
  BY DEF Full
<1>3. Full(t, q) \in Order /\ Pushes(t, Full(t, q))
  BY <1>2 DEF Pushed, Pushes
<1> QED BY <1>1, <1>3 DEF Runs

LEMMA LeavesRuns ==
    ASSUME Types, NEW t \in Task, NEW o, Only(t), Leaves(t, o), o # "none", JobOK(job'[t]),
           job'[t].kind # "none",
           o = "raised" => job'[t].step = "none",
           ~GaveUp(t) \/ (o = "raised" /\ SameJob(job'[t], job[t]))
    PROVE  Runs(t)
<1>1. TaskOK(t)'
  BY DEF TaskOK, Leaves, Only, Running, JobOK
<1> QED BY <1>1 DEF Runs, Leaves

LEMMA PausesRuns ==
    ASSUME Types, NEW t \in Task, NEW at, NEW s, Pauses(t, at, s), JobOK(job'[t]),
           job'[t].kind # "none", ~GaveUp(t),
           \/ at = "waiting" /\ s \in {"outcome", "answer"}
           \/ at = "sleeping" /\ s \in {"tone", "gap"}
    PROVE  Runs(t)
<1>1. TaskOK(t)'
  BY DEF TaskOK, Pauses, Only, Running, JobOK
<1> QED BY <1>1 DEF Runs, Pauses

(* A push, or the rejection by a full queue. *)
LEMMA Asks1Runs ==
    ASSUME Types, NEW t \in Task, NEW q \in Asking, Only(t), Asks1(t, q), JobOK(job'[t]),
           job'[t].kind # "none", job'[t].step \in Commanding, ~GaveUp(t),
           Pushed(t, q) => \A r \in Order : r = Full(t, q) => OrderOK(r)'
    PROVE  Runs(t)
<1>1. CASE Pushed(t, q)
  BY <1>1, PushedRuns
<1>2. CASE Leaves(t, "rejected")
  BY <1>2, LeavesRuns
<1> QED BY <1>1, <1>2 DEF Asks1

LEMMA RefersRuns ==
    ASSUME Types, NEW t \in Task, NEW j \in Local, NEW calls, Refers(t, j, calls),
           JobOK(j), j.kind \in {"transfer", "attended"}, ~GaveUp(t)
    PROVE  Runs(t)
<1>1. Only(t) /\ job'[t].step = "refer" /\ SameJob(job'[t], j)
  BY DEF Refers
<1>2. JobOK(job'[t]) /\ job'[t].kind \in {"transfer", "attended"} /\ j.call \in Calls
  BY <1>1 DEF JobOK, SameJob, Kinds, Registers
<1>3. CASE Leaves(t, "rejected")
  BY <1>1, <1>2, <1>3, LeavesRuns
<1>4. ASSUME NEW q \in Asking, Pushed(t, q), q.op \in {"transfer", "replace"}, q.on = j.call,
             q.with \in Calls
      PROVE  Runs(t)
  <2>1. ASSUME NEW r \in Order, r = Full(t, q)
        PROVE  OrderOK(r)'
    <3>1. r.by = t /\ r.op = q.op /\ r.on = q.on /\ r.with = q.with
      BY <2>1 DEF Full
    <3> QED BY <1>1, <1>2, <1>4, <3>1 DEF OrderOK, Transferring, SameJob, Refresh, Registers
  <2> QED BY <1>1, <1>2, <1>4, <2>1, PushedRuns DEF Commanding
<1> QED BY <1>3, <1>4 DEF Refers

LEMMA HoldsLegRuns ==
    ASSUME Types, NEW t \in Task, NEW j \in Local, NEW n \in 1 .. 2, NEW c \in Calls, NEW calls,
           HoldsLeg(t, j, n, c, calls), c = (IF n = 1 THEN j.call ELSE j.with),
           JobOK(j), j.kind = "attended", ~GaveUp(t)
    PROVE  Runs(t)
<1>1. Only(t) /\ job'[t].step = "hold" /\ SameJob(job'[t], [j EXCEPT !.leg = n])
  BY DEF HoldsLeg
<1>2. /\ job'[t].kind = "attended" /\ job'[t].call = j.call /\ job'[t].with = j.with
      /\ job'[t].leg = n
  BY <1>1 DEF SameJob, Local
<1>3. JobOK(job'[t]) /\ Leg(job'[t]) = c /\ Want(job'[t])
  BY <1>1, <1>2 DEF JobOK, Kinds, Registers, Leg, Want
<1>4. Turns("hold", c, TRUE) \in Asking
  BY AskingIs DEF Op, Where
<1>5. ASSUME Pushed(t, Turns("hold", c, TRUE))
      PROVE  \A q \in Order : q = Full(t, Turns("hold", c, TRUE)) => OrderOK(q)'
  <2> SUFFICES ASSUME NEW q \in Order, q = Full(t, Turns("hold", c, TRUE))
               PROVE  OrderOK(q)'
    OBVIOUS
  <2>1. q.by = t /\ q.op = "hold" /\ q.on = c /\ q.arg
    BY DEF Full, Turns
  <2> QED BY <1>1, <1>2, <1>3, <2>1 DEF OrderOK, Refresh, Registers
<1> QED BY <1>1, <1>2, <1>3, <1>4, <1>5, Asks1Runs DEF HoldsLeg, Asks1, Commanding

LEMMA AttendsRuns ==
    ASSUME Types, NEW t \in Task, NEW j \in Local, NEW leg, NEW calls, Attends(t, j, leg, calls),
           JobOK(j), j.kind = "attended", ~GaveUp(t)
    PROVE  Runs(t)
<1>1. j.call \in Calls /\ j.with \in Calls
  BY DEF JobOK, Registers
<1>2. CASE Refers(t, j, calls)
  BY <1>2, RefersRuns
<1>3. CASE HoldsLeg(t, j, 1, j.call, calls)
  BY <1>1, <1>3, HoldsLegRuns
<1>4. CASE HoldsLeg(t, j, 2, j.with, calls)
  BY <1>1, <1>4, HoldsLegRuns
<1>5. CASE Only(t) /\ Leaves(t, "raised") /\ job'[t].step = "none" /\ SameJob(job'[t], j)
  <2>1. JobOK(job'[t]) /\ job'[t].kind # "none"
    BY <1>5 DEF JobOK, SameJob, Kinds, Registers
  <2> QED BY <1>5, <2>1, LeavesRuns
<1> QED BY <1>2, <1>3, <1>4, <1>5 DEF Attends

LEMMA BeginsRuns ==
    ASSUME Types, TaskInv, NEW t \in Task, task[t] = Idle, OperationBegins(t)
    PROVE  Runs(t)
<1>1. ~GaveUp(t) /\ Calls \subseteq Where /\ 0 \in Where /\ 0 \notin Calls
  BY RequestsAssumption DEF GaveUp, Idle, Where
<1>2. ASSUME NEW c \in Calls, HoldBegins(t, c)
      PROVE  Runs(t)
  <2> DEFINE q == Turns("hold", c, Want(job'[t]))
  <2>1. PICK k \in {"hold", "resume"} : Starts(t, k, c)
    BY <1>2 DEF HoldBegins
  <2>2. /\ JobOK(job'[t]) /\ Leg(job'[t]) = c /\ job'[t].kind \in {"hold", "resume"}
        /\ Want(job'[t]) \in BOOLEAN
    BY <1>1, <1>2, <2>1 DEF HoldBegins, Starts, JobOK, Leg, Want, Kinds, Registers
  <2>3. q \in Asking /\ q.op = "hold" /\ q.on = c /\ q.arg = Want(job'[t])
    BY <1>1, <2>2, AskingIs DEF Op
  <2> HIDE DEF q
  <2>4. ASSUME NEW r \in Order, r = Full(t, q)
        PROVE  OrderOK(r)'
    <3>1. r.by = t /\ r.op = "hold" /\ r.on = c /\ r.arg = Want(job'[t])
      BY <2>3, <2>4 DEF Full
    <3> QED BY <1>2, <2>2, <3>1 DEF OrderOK, HoldBegins, Refresh, Registers
  <2>5. Only(t) /\ Asks1(t, q) /\ job'[t].step = "hold"
    BY <1>2, <2>1 DEF HoldBegins, Starts, q
  <2> QED BY <1>1, <2>2, <2>3, <2>4, <2>5, Asks1Runs DEF Commanding
<1>3. ASSUME NEW c \in Calls, VideoBegins(t, c)
      PROVE  Runs(t)
  <2> DEFINE q == Asks("video", c)
  <2>1. /\ JobOK(job'[t]) /\ Leg(job'[t]) = c /\ job'[t].kind = "video"
    BY <1>1, <1>3 DEF VideoBegins, Starts, JobOK, Leg, Kinds, Registers
  <2>2. q \in Asking /\ q.op = "video" /\ q.on = c
    BY <1>1 DEF Asks, Turns, Asking, Op
  <2> HIDE DEF q
  <2>3. ASSUME NEW r \in Order, r = Full(t, q)
        PROVE  OrderOK(r)'
    <3>1. r.by = t /\ r.op = "video" /\ r.on = c
      BY <2>2, <2>3 DEF Full
    <3> QED BY <1>3, <2>1, <3>1 DEF OrderOK, VideoBegins, Refresh, Registers
  <2>4. Only(t) /\ Asks1(t, q) /\ job'[t].step = "video"
    BY <1>3 DEF VideoBegins, Starts, q
  <2> QED BY <1>1, <2>1, <2>2, <2>3, <2>4, Asks1Runs DEF Commanding
<1>4. ASSUME NEW c \in Calls, TransferBegins(t, c)
      PROVE  Runs(t)
  <2>1. Job("transfer", c) \in Local /\ JobOK(Job("transfer", c)) /\ Job("transfer", c).kind = "transfer"
    BY <1>1, JobIs DEF JobOK, Kinds, Registers, Operation
  <2> QED BY <1>1, <1>4, <2>1, RefersRuns DEF TransferBegins
<1>5. ASSUME NEW c \in Calls, NEW d \in Calls, AttendedBegins(t, c, d)
      PROVE  Runs(t)
  <2> DEFINE j == [Job("attended", c) EXCEPT !.with = d]
  <2>1. /\ Job("attended", c) \in Local /\ Job("attended", c).kind = "attended"
        /\ Job("attended", c).call = c /\ Job("attended", c).step = "none"
    BY <1>1, JobIs DEF Operation
  <2>2. /\ j \in Local /\ j.kind = "attended" /\ j.call = c /\ j.step = "none" /\ j.with = d
        /\ c # d
    BY <1>1, <1>5, <2>1 DEF Local, AttendedBegins
  <2>3. Attends(t, j, 1, obj)
    BY <1>5 DEF AttendedBegins
  <2> HIDE DEF j
  <2>4. JobOK(j)
    BY <2>2 DEF JobOK, Kinds, Registers
  <2> QED BY <1>1, <2>2, <2>3, <2>4, AttendsRuns
<1>6. ASSUME NEW c \in Calls, DecisionBegins(t, c)
      PROVE  Runs(t)
  <2>1. PICK k \in {"accept", "reject"} : /\ Starts(t, k, c) /\ job'[t].step = k
                                          /\ Asks1(t, Asks(k, c))
    BY <1>6 DEF DecisionBegins
  <2> DEFINE q == Asks(k, c)
  <2>2. /\ JobOK(job'[t]) /\ job'[t].kind = k
    BY <1>1, <2>1 DEF Starts, JobOK, Kinds, Registers
  <2>3. q \in Asking /\ q.op = k /\ q.on = c
    BY <1>1, <2>1 DEF Asks, Asking, Op
  <2>4. Only(t) /\ Asks1(t, q) /\ job'[t].step = k
    BY <2>1 DEF Starts
  <2> HIDE DEF q
  <2>5. ASSUME NEW r \in Order, r = Full(t, q)
        PROVE  OrderOK(r)'
    <3>1. r.by = t /\ r.op = k /\ r.on = c
      BY <2>3, <2>5 DEF Full
    <3> QED BY <2>2, <2>4, <3>1 DEF OrderOK, Refresh, Registers
  <2> QED BY <1>1, <2>2, <2>3, <2>4, <2>5, Asks1Runs DEF Commanding
<1>7. ASSUME NEW c \in Calls, DtmfBegins(t, c)
      PROVE  Runs(t)
  <2> DEFINE q == Turns("digit", c, TRUE)
  <2>1. /\ JobOK(job'[t]) /\ job'[t].kind = "dtmf" /\ job'[t].call = c
    BY <1>1, <1>7 DEF DtmfBegins, Starts, JobOK, Kinds, Registers
  <2>2. q \in Asking /\ q.op = "digit" /\ q.on = c /\ q.arg
    BY <1>1 DEF Asks, Turns, Asking, Op
  <2> HIDE DEF q
  <2>3. ASSUME NEW r \in Order, r = Full(t, q)
        PROVE  OrderOK(r)'
    <3>1. r.by = t /\ r.op = "digit" /\ r.on = c /\ r.arg
      BY <2>2, <2>3 DEF Full
    <3> QED BY <1>7, <2>1, <3>1 DEF OrderOK, DtmfBegins, Refresh, Registers
  <2>4. Only(t) /\ Asks1(t, q) /\ job'[t].step = "press"
    BY <1>7 DEF DtmfBegins, Starts, q
  <2> QED BY <1>1, <2>1, <2>2, <2>3, <2>4, Asks1Runs DEF Commanding
<1>8. CASE RegistrationBegins(t)
  <2>1. PICK k \in Registers : /\ Starts(t, k, 0) /\ job'[t].step = k
                               /\ Asks1(t, Asks(k, 0))
    BY <1>8 DEF RegistrationBegins
  <2> DEFINE q == Asks(k, 0)
  <2>2. /\ JobOK(job'[t]) /\ job'[t].kind = k
    BY <1>1, <2>1 DEF Starts, JobOK, Kinds, Registers
  <2>3. q \in Asking /\ q.op = k
    BY <1>1, <2>1 DEF Asks, Asking, Op, Registers
  <2>4. Only(t) /\ Asks1(t, q) /\ job'[t].step = k
    BY <2>1 DEF Starts
  <2> HIDE DEF q
  <2>5. ASSUME NEW r \in Order, r = Full(t, q)
        PROVE  OrderOK(r)'
    <3>1. r.by = t /\ r.op = k
      BY <2>3, <2>5 DEF Full
    <3> QED BY <2>1, <2>2, <2>4, <3>1 DEF OrderOK, Refresh, Registers
  <2> QED BY <1>1, <2>1, <2>2, <2>3, <2>4, <2>5, Asks1Runs DEF Commanding, Registers
<1> QED BY <1>2, <1>3, <1>4, <1>5, <1>6, <1>7, <1>8 DEF OperationBegins

LEMMA GaveUpRaises ==
    ASSUME TaskInv, NEW t \in Task, Resumes(t), GaveUp(t)
    PROVE  Returns(t, "raised") \/ Concluded(t, "raised")
<1>1. Result(t) = "expired" /\ task[t].at = "awaiting"
  BY DEF GaveUp, Result, TaskInv, TaskOK
<1> QED BY <1>1 DEF Resumes, HoldGoesOn, UndoGoesOn, VideoGoesOn, SentGoesOn, OutcomeGoesOn,
              DecisionGoesOn, PolicyGoesOn, DigitGoesOn

LEMMA ReturnsRuns ==
    ASSUME Types, TaskInv, NEW t \in Task, Running(t), NEW o, o # "none",
           Returns(t, o) \/ Concluded(t, o), ~GaveUp(t) \/ o = "raised"
    PROVE  Runs(t) /\ SameOp(job'[t], job[t]) /\ queue' = queue
<1>1. Only(t) /\ Leaves(t, o) /\ job'[t].step = "none" /\ SameJob(job'[t], job[t])
  BY DEF Returns, Concluded
<1>2. JobOK(job[t]) /\ job[t].kind # "none"
  BY DEF TaskInv, TaskOK, Running
<1>3. JobOK(job'[t]) /\ job'[t].kind # "none"
  BY <1>1, <1>2 DEF JobOK, SameJob, Kinds, Registers
<1> QED BY <1>1, <1>3, LeavesRuns DEF SameOp, SameJob, Leaves

LEMMA PausesAre ==
    ASSUME Types, TaskInv, NEW t \in Task, Running(t), ~GaveUp(t), NEW at, NEW s, Pauses(t, at, s),
           \/ at = "waiting" /\ s \in {"outcome", "answer"}
           \/ at = "sleeping" /\ s \in {"tone", "gap"},
           job[t].kind \in Kinds(s), s = "gap" => job[t].left # 1
    PROVE  Runs(t) /\ SameOp(job'[t], job[t]) /\ queue' = queue
<1>1. Only(t) /\ job'[t].step = s /\ SameJob(job'[t], job[t]) /\ queue' = queue
  BY DEF Pauses
<1>2. JobOK(job[t]) /\ job[t].kind # "none"
  BY DEF TaskInv, TaskOK, Running
<1>3. job[t].left \in Nat
  BY RequestsAssumption DEF Types, Local
<1>4. JobOK(job'[t]) /\ job'[t].kind # "none"
  BY <1>1, <1>2, <1>3 DEF JobOK, SameJob, Kinds, Registers
<1> QED BY <1>1, <1>4, PausesRuns DEF SameOp, SameJob

LEMMA ResumesRuns ==
    ASSUME Types, TaskInv, NEW t \in Task, Resumes(t)
    PROVE  /\ Runs(t) /\ SameOp(job'[t], job[t])
           /\ \A q \in Order : queue' = Append(queue, q) =>
                  q.op \notin Registers
<1> DEFINE Fine == /\ Runs(t) /\ SameOp(job'[t], job[t])
                   /\ \A q \in Order : queue' = Append(queue, q) => q.op \notin Registers
<1>0. /\ Running(t) /\ JobOK(job[t]) /\ job[t].kind # "none" /\ job[t] \in Local
      /\ queue \in Seq(Order) /\ TaskOK(t)
  BY DEF TaskInv, TaskOK, Running, Resumes, Types
<1>1. \A q \in Order : Append(queue, q) # queue
  BY <1>0, Appended
<1>2. \A q, r \in Order : Append(queue, q) = Append(queue, r) => q = r
  BY <1>0, Appended
<1>3. ASSUME NEW o, o # "none", Returns(t, o) \/ Concluded(t, o), ~GaveUp(t) \/ o = "raised"
      PROVE  Fine
  BY <1>0, <1>1, <1>3, ReturnsRuns
<1>4. CASE GaveUp(t)
  BY <1>3, <1>4, GaveUpRaises
<1>5. ASSUME ~GaveUp(t), NEW at, NEW s, Pauses(t, at, s),
             \/ at = "waiting" /\ s \in {"outcome", "answer"}
             \/ at = "sleeping" /\ s \in {"tone", "gap"},
             job[t].kind \in Kinds(s), s = "gap" => job[t].left # 1
      PROVE  Fine
  BY <1>0, <1>1, <1>5, PausesAre
<1>6. ASSUME NEW q \in Asking, q.op \notin Registers, queue' = queue \/ queue' = Append(queue, Full(t, q)),
             Full(t, q) \in Order
      PROVE  \A r \in Order : queue' = Append(queue, r) => r.op \notin Registers
  <2>1. Full(t, q).op = q.op
    BY DEF Full
  <2> QED BY <1>1, <1>2, <1>6, <2>1
<1>7. ASSUME NEW q \in Asking, Asks1(t, q)
      PROVE  (queue' = queue \/ queue' = Append(queue, Full(t, q))) /\ Full(t, q) \in Order
  <2>1. task[t].no \in Nat
    BY DEF Types, Coroutine
  <2> QED BY <1>7, <2>1 DEF Asks1, Pushed, Leaves, Full, Order, Asking
<1>8. CASE ~GaveUp(t) /\ HoldGoesOn(t)
  <2>1. /\ job[t].kind \in {"hold", "resume", "attended"} /\ job[t].call \in Calls
        /\ Leg(job[t]) \in Calls /\ Want(job[t]) \in BOOLEAN
    BY <1>0, <1>8 DEF HoldGoesOn, JobOK, Kinds, Registers, Want
  <2>2. CASE job[t].kind = "attended" /\ Attends(t, job[t], job[t].leg + 1, HeldCalls(t))
    <3>1. Runs(t)
      BY <1>0, <1>8, <2>2, AttendsRuns
    <3>2. SameOp(job'[t], job[t])
      <4>1. ASSUME NEW n \in 1 .. 2, SameJob(job'[t], [job[t] EXCEPT !.leg = n])
            PROVE  SameOp(job'[t], job[t])
        BY <1>0, <4>1 DEF SameJob, SameOp, Local
      <4>2. SameJob(job'[t], job[t]) => SameOp(job'[t], job[t])
        BY DEF SameJob, SameOp
      <4>3. \/ SameJob(job'[t], job[t])
            \/ SameJob(job'[t], [job[t] EXCEPT !.leg = 1])
            \/ SameJob(job'[t], [job[t] EXCEPT !.leg = 2])
        BY <2>2 DEF Attends, Refers, HoldsLeg
      <4>4. 1 \in 1 .. 2 /\ 2 \in 1 .. 2
        OBVIOUS
      <4> QED BY <4>1, <4>2, <4>3, <4>4
    <3>3. \A q \in Order : queue' = Append(queue, q) => q.op \notin Registers
      <4>1. ASSUME NEW q \in Asking, Pushed(t, q), q.op \in {"transfer", "replace"}
            PROVE  \A r \in Order : queue' = Append(queue, r) => r.op \notin Registers
        BY <1>6, <4>1 DEF Registers, Pushed
      <4>2. ASSUME NEW c \in Calls, Asks1(t, Turns("hold", c, TRUE))
            PROVE  \A r \in Order : queue' = Append(queue, r) => r.op \notin Registers
        <5>1. Turns("hold", c, TRUE) \in Asking /\ Turns("hold", c, TRUE).op = "hold"
          BY DEF Turns, Asking, Op, Where
        <5> QED BY <1>6, <1>7, <4>2, <5>1 DEF Registers
      <4>3. ASSUME NEW o, Leaves(t, o)
            PROVE  \A r \in Order : queue' = Append(queue, r) => r.op \notin Registers
        BY <1>1, <4>3 DEF Leaves
      <4>4. job[t].with \in Calls /\ job[t].call \in Calls
        BY <1>0, <2>1, <2>2 DEF JobOK
      <4> QED BY <2>2, <4>1, <4>2, <4>3, <4>4 DEF Attends, Refers, HoldsLeg, Asks1
    <3> QED BY <3>1, <3>2, <3>3
  <2>3. CASE Only(t) /\ SameJob(job'[t], job[t]) /\ job'[t].step = "undo"
             /\ Asks1(t, Turns("hold", Leg(job[t]), ~Want(job[t])))
    <3> DEFINE q == Turns("hold", Leg(job[t]), ~Want(job[t]))
    <3>1. q \in Asking /\ q.op = "hold" /\ q.on = Leg(job[t]) /\ q.arg = ~Want(job[t])
      BY <2>1 DEF Turns, Asking, Op, Where
    <3>2. Asks1(t, q)
      BY <2>3
    <3> HIDE DEF q
    <3>3. Leg(job'[t]) = Leg(job[t]) /\ Want(job'[t]) = Want(job[t]) /\ JobOK(job'[t])
          /\ job'[t].kind = job[t].kind
      BY <1>0, <2>1, <2>3 DEF SameJob, Leg, Want, JobOK, Kinds
    <3>4. ASSUME NEW r \in Order, r = Full(t, q)
          PROVE  OrderOK(r)'
      <4>1. r.by = t /\ r.op = "hold" /\ r.on = Leg(job[t]) /\ r.arg = ~Want(job[t])
        BY <3>1, <3>4 DEF Full
      <4> QED BY <2>1, <2>3, <3>3, <4>1 DEF OrderOK, Refresh, Registers
    <3>5. Runs(t)
      BY <1>8, <2>1, <2>3, <3>1, <3>2, <3>3, <3>4, Asks1Runs DEF Commanding
    <3> QED BY <1>6, <1>7, <2>3, <3>1, <3>2, <3>5 DEF Registers, SameJob, SameOp
  <2>4. CASE \E o \in {"ok", "stale", "raised"} : Returns(t, o)
    BY <1>3, <1>8, <2>4
  <2> QED BY <1>8, <2>2, <2>3, <2>4 DEF HoldGoesOn
<1>9. CASE ~GaveUp(t) /\ UndoGoesOn(t)
  BY <1>3, <1>9 DEF UndoGoesOn
<1>10. CASE ~GaveUp(t) /\ VideoGoesOn(t)
  BY <1>3, <1>10 DEF VideoGoesOn
<1>11. CASE ~GaveUp(t) /\ SentGoesOn(t)
  <2>1. CASE Pauses(t, "waiting", IF job[t].step = "refer" THEN "outcome" ELSE "answer")
    <3>1. job[t].kind \in Kinds(IF job[t].step = "refer" THEN "outcome" ELSE "answer")
      BY <1>0, <1>11 DEF SentGoesOn, JobOK, Kinds, Awaited
    <3> QED BY <1>5, <1>11, <2>1, <3>1
  <2> QED BY <1>3, <1>11, <2>1 DEF SentGoesOn
<1>12. CASE ~GaveUp(t) /\ OutcomeGoesOn(t)
  BY <1>3, <1>12 DEF OutcomeGoesOn
<1>13. CASE ~GaveUp(t) /\ DecisionGoesOn(t)
  BY <1>3, <1>13 DEF DecisionGoesOn
<1>14. CASE ~GaveUp(t) /\ PolicyGoesOn(t)
  <2>1. ASSUME NEW k \in {"accept", "reject"}, Only(t), SameJob(job'[t], job[t]), job'[t].step = k,
               Asks1(t, Asks(k, job[t].call)), job[t].kind = "policy"
        PROVE  Fine
    <3> DEFINE q == Asks(k, job[t].call)
    <3>1. job[t].call \in Calls
      BY <1>0, <2>1 DEF JobOK, Registers
    <3>2. q \in Asking /\ q.op = k /\ q.on = job[t].call
      BY <3>1 DEF Asks, Asking, Op, Where
    <3>3. Asks1(t, q)
      BY <2>1
    <3> HIDE DEF q
    <3>4. JobOK(job'[t]) /\ job'[t].kind = "policy"
      BY <1>0, <2>1 DEF SameJob, JobOK, Kinds, Registers
    <3>5. ASSUME NEW r \in Order, r = Full(t, q)
          PROVE  OrderOK(r)'
      <4>1. r.by = t /\ r.op = k /\ r.on = job[t].call
        BY <3>2, <3>5 DEF Full
      <4> QED BY <3>1, <3>4, <4>1 DEF OrderOK, Refresh, Registers
    <3>6. Runs(t)
      BY <1>14, <2>1, <3>2, <3>3, <3>4, <3>5, Asks1Runs DEF Commanding
    <3> QED BY <1>6, <1>7, <2>1, <3>2, <3>3, <3>6 DEF Registers, SameJob, SameOp
  <2> QED BY <1>3, <1>14, <2>1 DEF PolicyGoesOn
<1>15. CASE ~GaveUp(t) /\ DigitGoesOn(t)
  <2>1. CASE \E o \in {"ok", "raised"} : Returns(t, o)
    BY <1>3, <1>15, <2>1
  <2>2. CASE Pauses(t, "sleeping", "tone") \/ (job[t].left # 1 /\ Pauses(t, "sleeping", "gap"))
    <3>1. job[t].kind \in Kinds("tone") /\ job[t].kind \in Kinds("gap")
      BY <1>15 DEF DigitGoesOn, Kinds
    <3> QED BY <1>5, <1>15, <2>2, <3>1
  <2>3. ASSUME NEW b \in BOOLEAN, job'[t].step = IF b THEN "press" ELSE "release",
               Only(t), SameOp(job'[t], job[t]), 1 <= job'[t].left,
               Asks1(t, Turns("digit", job[t].call, b))
        PROVE  Fine
    <3> DEFINE q == Turns("digit", job[t].call, b)
    <3>1. job[t].call \in Calls /\ job[t].kind = "dtmf"
      BY <1>0, <1>15 DEF JobOK, Registers, DigitGoesOn
    <3>2. q \in Asking /\ q.op = "digit" /\ q.on = job[t].call /\ q.arg = b
      BY <3>1 DEF Turns, Asking, Op, Where
    <3>3. Asks1(t, q)
      BY <2>3
    <3> HIDE DEF q
    <3>4. JobOK(job'[t]) /\ job'[t].kind = "dtmf" /\ job'[t].call = job[t].call
      BY <1>0, <2>3, <3>1 DEF SameOp, JobOK, Kinds, Registers
    <3>5. ASSUME NEW r \in Order, r = Full(t, q)
          PROVE  OrderOK(r)'
      <4>1. r.by = t /\ r.op = "digit" /\ r.on = job[t].call /\ r.arg = b
        BY <3>2, <3>5 DEF Full
      <4> QED BY <2>3, <3>1, <3>4, <4>1 DEF OrderOK, Refresh, Registers
    <3>6. Runs(t)
      BY <1>15, <2>3, <3>2, <3>3, <3>4, <3>5, Asks1Runs DEF Commanding
    <3> QED BY <1>6, <1>7, <2>3, <3>2, <3>3, <3>6 DEF Registers
  <2>4. CASE job'[t].step = "release" /\ Only(t) /\ SameOp(job'[t], job[t]) /\ 1 <= job'[t].left
             /\ Asks1(t, Turns("digit", job[t].call, FALSE))
    BY <2>3, <2>4
  <2>5. CASE job'[t].step = "press" /\ Only(t) /\ SameOp(job'[t], job[t]) /\ 1 <= job'[t].left
             /\ Asks1(t, Turns("digit", job[t].call, TRUE))
    BY <2>3, <2>5
  <2> QED BY <1>15, <2>1, <2>2, <2>4, <2>5 DEF DigitGoesOn
<1> QED BY <1>4, <1>8, <1>9, <1>10, <1>11, <1>12, <1>13, <1>14, <1>15 DEF Resumes

-----------------------------------------------------------------------------
(* A coroutine takes its turn: it begins, or goes on.                      *)

Begun(t) ==
    /\ t = NextOne /\ t <= app.ops /\ ops' = t /\ task[t] = Idle /\ job[t] = NoJob
    /\ ready' = ready

Woke(t) ==
    /\ ready # <<>> /\ Head(ready) = Wake(t) /\ ready' = Tail(ready)
    /\ Running(t) /\ (task[t].at = "starting" \/ task[t].fut \notin {"none", "open"})
    /\ ops' = ops /\ SameOp(job'[t], job[t])

Turn(t) ==
    /\ Runs(t) /\ Objects /\ UNCHANGED <<nativeVars, telling, app>>
    /\ Begun(t) \/ Woke(t)

LEMMA ApplicationTurn ==
    ASSUME Types, TaskInv, Application
    PROVE  NextOne \in Task /\ OperationBegins(NextOne) /\ Begun(NextOne) /\ Turn(NextOne)
<1> DEFINE t == NextOne
<1>1. /\ t \in Task /\ t <= app.ops /\ ops' = t /\ task[t] = Idle /\ job[t] = NoJob
      /\ OperationBegins(t)
  BY Beginning
<1>2. /\ UNCHANGED <<nativeVars, telling, app>> /\ ready' = ready
      /\ registered' = registered /\ due' = due
  BY DEF Application
<1> HIDE DEF t
<1>3. Runs(t)
  BY <1>1, BeginsRuns
<1>4. obj' \in [Calls -> Object]
      /\ \A d \in Calls : obj'[d].up = obj[d].up /\ obj'[d].request = obj[d].request
  <2>1. obj \in [Calls -> Object] /\ Calls \subseteq Where
    BY DEF Types, Where
  <2>2. CASE obj' = obj
    BY <2>1, <2>2
  <2>3. ASSUME NEW c, NEW j, Refers(t, j, obj)
        PROVE  obj' \in [Calls -> Object]
               /\ \A d \in Calls : obj'[d].up = obj[d].up /\ obj'[d].request = obj[d].request
    BY <2>3 DEF Refers, ButPending
  <2>4. CASE \E c \in Calls : TransferBegins(t, c)
    BY <2>3, <2>4 DEF TransferBegins
  <2>5. CASE \E c, d \in Calls : AttendedBegins(t, c, d)
    BY <2>2, <2>3, <2>5 DEF AttendedBegins, Attends, HoldsLeg
  <2> QED BY <1>1, <2>2, <2>4, <2>5 DEF OperationBegins, HoldBegins, VideoBegins, DecisionBegins,
                                       DtmfBegins, RegistrationBegins
<1>5. Objects
  BY <1>2, <1>4, ObjectsKept DEF Types
<1> QED BY <1>1, <1>2, <1>3, <1>5 DEF Turn, Begun, t

LEMMA GoesOnTurn ==
    ASSUME Types, TaskInv, WakeInv, NEW t \in Task, GoesOn(t)
    PROVE  Resumes(t) /\ Woke(t) /\ Turn(t)
<1>1. Resumes(t)
  BY Resuming
<1>2. Runs(t) /\ SameOp(job'[t], job[t])
  BY <1>1, ResumesRuns
<1>3. UNCHANGED <<nativeVars, telling, app>> /\ ops' = ops
  BY DEF GoesOn
<1> QED BY <1>1, <1>2, <1>3 DEF Turn, Woke, Resumes

LEMMA TurnTypes ==
    ASSUME Types, NEW t \in Task, Turn(t), Blurs
    PROVE  Types'
<1>0. queue \in Seq(Order) /\ ready \in Seq(Callback) /\ telling \in Seq(Told)
  BY DEF Types
<1>1. queue' \in Seq(Order)
  <2>1. ASSUME NEW q \in Order
        PROVE  Append(queue, q) \in Seq(Order)
    BY <1>0, <2>1, Appended
  <2> QED BY <1>0, <2>1 DEF Turn, Runs, Pushes
<1>2. ready' \in Seq(Callback) /\ telling' \in Seq(Told)
  <2>1. ready # <<>> => Tail(ready) \in Seq(Callback)
    BY <1>0, Taken
  <2> QED BY <1>0, <2>1 DEF Turn, Begun, Woke
<1>3. task' \in [Task -> Coroutine] /\ job' \in [Task -> Local]
  BY DEF Turn, Runs, Only
<1>4. murky' \subseteq Calls
  BY DEF Types, Blurs
<1>5. ops' \in 0 .. app.ops
  BY DEF Turn, Begun, Woke, Types, Task
<1>6. app' = app /\ stack' = stack /\ registrar' = registrar /\ news' = news /\ telling' = telling
  BY DEF Turn, nativeVars
<1>7. app' \in Settings /\ stack' \in [Calls -> Call'] /\ news' \in 0 .. app'.news
      /\ registrar' \in Registrar
  BY <1>6 DEF Types, Call
<1>8. obj' \in [Calls -> Object'] /\ registered' \in BOOLEAN
      /\ due' \in [Calls -> [no : Nat, lost : BOOLEAN]]
  BY <1>6 DEF Turn, Objects, Object
<1> QED BY <1>1, <1>2, <1>3, <1>4, <1>5, <1>6, <1>7, <1>8 DEF Types

LEMMA TurnTasks ==
    ASSUME Types, TaskInv, NEW t \in Task, Turn(t)
    PROVE  TaskInv'
<1> SUFFICES ASSUME NEW u \in Task
             PROVE  TaskOK(u)' /\ NumberOK(u)'
  BY DEF TaskInv
<1>1. /\ Only(t) /\ TaskOK(t)' /\ app' = app /\ news' = news
      /\ TaskOK(u) /\ NumberOK(u) /\ ops \in Nat /\ app.ops \in Nat /\ u \in Nat /\ t \in Nat
  <2>1. Only(t) /\ TaskOK(t)' /\ app' = app /\ news' = news
    BY DEF Turn, Runs, nativeVars
  <2>2. TaskOK(u) /\ NumberOK(u) /\ u \in Nat /\ t \in Nat
    BY DEF TaskInv, Task
  <2>3. app \in Settings /\ ops \in 0 .. app.ops
    BY DEF Types
  <2>4. app.ops \in Nat
    BY <2>3, RequestsAssumption
  <2>5. ops \in Nat
    BY <2>3, <2>4
  <2> QED BY <2>1, <2>2, <2>4, <2>5
<1>2. CASE u # t
  <2>1. task'[u] = task[u] /\ job'[u] = job[u]
    BY <1>1, <1>2 DEF Only
  <2>2. ops' = ops \/ ops' = ops + 1
    BY DEF Turn, Begun, Woke, NextOne
  <2> QED BY <1>1, <2>1, <2>2 DEF TaskOK, NumberOK, Running
<1>3. CASE u = t /\ Begun(t)
  BY <1>1, <1>3 DEF Begun, NumberOK, NextOne, Types
<1>4. CASE u = t /\ Woke(t)
  BY <1>1, <1>4 DEF Woke, NumberOK, Running, SameOp
<1> QED BY <1>2, <1>3, <1>4 DEF Turn

LEMMA TurnWakes ==
    ASSUME Types, WakeInv, NEW t \in Task, Turn(t)
    PROVE  WakeInv'
<1>1. Only(t) /\ ready \in Seq(Callback)
  BY DEF Turn, Runs, Types
<1>2. CASE Begun(t)
  <2>1. \A i \in 1 .. Len(ready) : ready[i].kind = "wake" => ready[i].by # t /\ ready[i].by \in Task
    <3>1. task[t].at = "idle" /\ ~Running(t)
      BY <1>2 DEF Begun, Idle, Running
    <3>2. \A i \in 1 .. Len(ready) : ready[i] \in Callback
      BY <1>1
    <3>3. \A x \in Callback : x.kind = "wake" => x.by \in Task
      BY DEF Callback, Told
    <3> QED BY <3>1, <3>2, <3>3 DEF WakeInv, Awake, Running
  <2>2. ready' = ready
    BY <1>2 DEF Begun
  <2> QED BY <1>1, <2>1, <2>2 DEF WakeInv, Only
<1>3. CASE Woke(t)
  <2>1. /\ ready' \in Seq(Callback) /\ Len(ready') = Len(ready) - 1 /\ Len(ready) \in Nat \ {0}
        /\ ready[1] = Wake(t)
        /\ \A i \in 1 .. Len(ready') : i + 1 \in 1 .. Len(ready) /\ ready'[i] = ready[i + 1]
    BY <1>1, <1>3, Taken DEF Woke
  <2>2. ready[1].kind = "wake" /\ ready[1].by = t /\ 1 \in 1 .. Len(ready)
    BY <2>1 DEF Wake
  <2>3. \A i \in 1 .. Len(ready') : ready'[i].kind = "wake" => ready'[i].by # t /\ ready'[i].by \in Task
    <3>1. \A x \in Callback : x.kind = "wake" => x.by \in Task
      BY DEF Callback, Told
    <3>2. \A i \in 1 .. Len(ready') : ready'[i] \in Callback
      BY <2>1
    <3>3. \A i \in 1 .. Len(ready') : i + 1 # 1
      OBVIOUS
    <3> QED BY <2>1, <2>2, <3>1, <3>2, <3>3 DEF WakeInv
  <2>4. \A i, k \in 1 .. Len(ready') :
            ready'[i].kind = "wake" /\ ready'[k].kind = "wake" /\ ready'[i].by = ready'[k].by => i = k
    <3>1. \A i, k \in 1 .. Len(ready') : i + 1 = k + 1 => i = k
      OBVIOUS
    <3> QED BY <2>1, <3>1 DEF WakeInv
  <2>5. \A i \in 1 .. Len(ready') : ready'[i].kind = "wake" =>
            task'[ready'[i].by] = task[ready'[i].by]
    BY <1>1, <2>3 DEF Only
  <2> QED BY <2>1, <2>3, <2>4, <2>5 DEF WakeInv
<1> QED BY <1>2, <1>3 DEF Turn

(* What a turn makes of the queues. *)
LEMMA QueueAfter ==
    ASSUME Types, NEW t \in Task, Turn(t)
    PROVE  \A i \in 1 .. Len(queue') :
              \/ i \in 1 .. Len(queue) /\ queue'[i] = queue[i]
              \/ /\ i = Len(queue) + 1 /\ queue'[i].by = t /\ queue'[i].no = task'[t].no
                 /\ OrderOK(queue[i])' /\ queue'[i] \in Order /\ queue' = Append(queue, queue'[i])
                 /\ task'[t].at = "awaiting" /\ task'[t].fut = "open" /\ ~GaveUp(t)
<1>1. queue \in Seq(Order) /\ Len(queue) \in Nat
  BY DEF Types
<1>2. CASE queue' = queue
  BY <1>2
<1>3. ASSUME NEW q \in Order, Pushes(t, q), OrderOK(q)'
      PROVE  \A i \in 1 .. Len(queue') :
              \/ i \in 1 .. Len(queue) /\ queue'[i] = queue[i]
              \/ /\ i = Len(queue) + 1 /\ queue'[i].by = t /\ queue'[i].no = task'[t].no
                 /\ OrderOK(queue[i])' /\ queue'[i] \in Order /\ queue' = Append(queue, queue'[i])
                 /\ task'[t].at = "awaiting" /\ task'[t].fut = "open" /\ ~GaveUp(t)
  <2>1. queue' = Append(queue, q) /\ q.by = t /\ q.no = task'[t].no
        /\ task'[t].at = "awaiting" /\ task'[t].fut = "open"
    BY <1>3 DEF Pushes
  <2>2. /\ Len(queue') = Len(queue) + 1 /\ queue'[Len(queue) + 1] = q
        /\ \A i \in 1 .. Len(queue) : queue'[i] = queue[i]
    BY <1>1, <2>1, Appended
  <2>3. ~GaveUp(t)
    <3>1. queue' # queue
      BY <1>1, <2>2
    <3> QED BY <3>1 DEF Turn, Runs, Leaves
  <2> QED BY <1>1, <1>3, <2>1, <2>2, <2>3
<1> QED BY <1>2, <1>3 DEF Turn, Runs

LEMMA ReadyAfter ==
    ASSUME Types, NEW t \in Task, Turn(t)
    PROVE  \E m \in 0 .. 1 : \A i \in 1 .. Len(ready') :
                i + m \in 1 .. Len(ready) /\ ready'[i] = ready[i + m]
<1>1. ready \in Seq(Callback)
  BY DEF Types
<1>2. CASE Begun(t)
  <2>1. \A i \in 1 .. Len(ready') : i + 0 \in 1 .. Len(ready) /\ ready'[i] = ready[i + 0]
    BY <1>2 DEF Begun
  <2> QED BY <2>1
<1>3. CASE Woke(t)
  <2>1. \A i \in 1 .. Len(ready') : i + 1 \in 1 .. Len(ready) /\ ready'[i] = ready[i + 1]
    BY <1>1, <1>3, Taken DEF Woke
  <2> QED BY <2>1
<1> QED BY <1>2, <1>3 DEF Turn

LEMMA ExpectsAfter ==
    ASSUME Types, NEW t \in Task, Turn(t)
    PROVE  /\ \A u \in Task : \A no \in Nat : Expects(u, no) => Expects(u, no)'
           /\ \A no \in Nat : Expects(t, no) => GaveUp(t)
<1>1. ASSUME NEW no \in Nat, Expects(t, no)
      PROVE  GaveUp(t)
  <2>1. CASE Begun(t)
    BY <1>1, <2>1 DEF Begun, Idle, Expects
  <2>2. CASE Woke(t)
    BY <1>1, <2>2 DEF Woke, Expects, GaveUp, Running
  <2> QED BY <2>1, <2>2 DEF Turn
<1>2. GaveUp(t) => task'[t].at = "over" /\ task'[t].out = "raised"
  BY DEF Turn, Runs, Leaves
<1>3. \A u \in Task : u # t => task'[u] = task[u]
  BY DEF Turn, Runs, Only
<1> QED BY <1>1, <1>2, <1>3 DEF Expects

LEMMA TurnItems ==
    ASSUME Types, ItemInv, NEW t \in Task, Turn(t)
    PROVE  ItemInv'
<1>1. /\ queue \in Seq(Order) /\ Len(queue) \in Nat /\ telling' = telling
      /\ ready \in Seq(Callback) /\ telling \in Seq(Told)
      /\ \A i \in 1 .. Len(queue) : queue[i] \in Order
      /\ \A i \in 1 .. Len(ready) : ready[i] \in Callback
      /\ \A i \in 1 .. Len(telling) : telling[i] \in Told
  BY DEF Types, Turn
<1>2. /\ \A x \in Order : x.by \in Task /\ x.no \in Nat
      /\ \A x \in Callback \cup Told : IsDone(x) => x.by \in Task /\ x.no \in Nat
  BY DEF Order, Callback, Told, IsDone
<1>3. PICK m \in 0 .. 1 : \A i \in 1 .. Len(ready') :
                i + m \in 1 .. Len(ready) /\ ready'[i] = ready[i + m]
  BY ReadyAfter
<1>4. \A i \in 1 .. Len(queue') :
              \/ i \in 1 .. Len(queue) /\ queue'[i] = queue[i]
              \/ /\ i = Len(queue) + 1 /\ queue'[i].by = t /\ queue'[i].no = task'[t].no
                 /\ task'[t].at = "awaiting" /\ task'[t].fut = "open" /\ ~GaveUp(t)
  BY QueueAfter
<1>5. /\ \A u \in Task : \A no \in Nat : Expects(u, no) => Expects(u, no)'
      /\ \A no \in Nat : Expects(t, no) => GaveUp(t)
  BY ExpectsAfter
<1>6. /\ \A i \in 1 .. Len(queue) : queue[i].by = t => GaveUp(t)
      /\ \A i \in 1 .. Len(ready) : IsDone(ready[i]) /\ ready[i].by = t => GaveUp(t)
      /\ \A i \in 1 .. Len(telling) : IsDone(telling[i]) /\ telling[i].by = t => GaveUp(t)
  BY <1>1, <1>2, <1>5 DEF ItemInv
<1>7. \A i \in 1 .. Len(queue') : Expects(queue[i].by, queue[i].no)'
  <2>1. task' \in [Task -> Coroutine]
    BY DEF Turn, Runs, Only
  <2> SUFFICES ASSUME NEW i \in 1 .. Len(queue')
               PROVE  \/ /\ task'[queue'[i].by].at = "awaiting" /\ task'[queue'[i].by].fut \in {"open", "cancelled"}
                         /\ task'[queue'[i].by].no = queue'[i].no
                      \/ task'[queue'[i].by].at = "over" /\ task'[queue'[i].by].out = "raised"
    BY DEF Expects
  <2>2. CASE i \in 1 .. Len(queue) /\ queue'[i] = queue[i]
    <3>1. Expects(queue[i].by, queue[i].no) /\ queue[i].by \in Task /\ queue[i].no \in Nat
      BY <1>1, <1>2, <2>2 DEF ItemInv
    <3> QED BY <1>5, <2>2, <3>1 DEF Expects
  <2> QED BY <1>4, <2>2
<1>8. \A i \in 1 .. Len(ready') : IsDone(ready'[i]) => Expects(ready[i].by, ready[i].no)'
  <2> SUFFICES ASSUME NEW i \in 1 .. Len(ready'), IsDone(ready'[i])
               PROVE  \/ /\ task'[ready'[i].by].at = "awaiting" /\ task'[ready'[i].by].fut \in {"open", "cancelled"}
                         /\ task'[ready'[i].by].no = ready'[i].no
                      \/ task'[ready'[i].by].at = "over" /\ task'[ready'[i].by].out = "raised"
    BY DEF Expects
  <2>1. /\ Expects(ready[i + m].by, ready[i + m].no) /\ ready[i + m].by \in Task
        /\ ready[i + m].no \in Nat /\ ready'[i] = ready[i + m]
    BY <1>1, <1>2, <1>3 DEF ItemInv
  <2> QED BY <1>5, <2>1 DEF Expects
<1>9. \A i \in 1 .. Len(telling) : IsDone(telling[i]) =>
          \/ /\ task'[telling[i].by].at = "awaiting" /\ task'[telling[i].by].fut \in {"open", "cancelled"}
             /\ task'[telling[i].by].no = telling[i].no
          \/ task'[telling[i].by].at = "over" /\ task'[telling[i].by].out = "raised"
  BY <1>1, <1>2, <1>5 DEF ItemInv, Expects
<1>10. \A i, k \in 1 .. Len(queue') : queue'[i].by = queue'[k].by => i = k
  BY <1>1, <1>4, <1>6 DEF ItemInv
<1>11. \A i, k \in 1 .. Len(ready') :
          IsDone(ready'[i]) /\ IsDone(ready'[k]) /\ ready'[i].by = ready'[k].by => i = k
  <2>1. \A i, k \in 1 .. Len(ready') : i + m = k + m => i = k
    OBVIOUS
  <2> QED BY <1>3, <2>1 DEF ItemInv, IsDone
<1>12. \A i \in 1 .. Len(queue'), k \in 1 .. Len(ready') : IsDone(ready'[k]) => ready'[k].by # queue'[i].by
  BY <1>3, <1>4, <1>6 DEF ItemInv
<1>13. \A i \in 1 .. Len(queue'), k \in 1 .. Len(telling) :
          IsDone(telling[k]) => telling[k].by # queue'[i].by
  BY <1>4, <1>6 DEF ItemInv
<1>14. \A i \in 1 .. Len(ready'), k \in 1 .. Len(telling) :
          IsDone(ready'[i]) /\ IsDone(telling[k]) => ready'[i].by # telling[k].by
  BY <1>3 DEF ItemInv
<1> QED BY <1>1, <1>7, <1>8, <1>9, <1>10, <1>11, <1>12, <1>13, <1>14 DEF ItemInv, Expects, IsDone

LEMMA TurnOrders ==
    ASSUME Types, ItemInv, OrderInv, NEW t \in Task, Turn(t)
    PROVE  OrderInv'
<1> SUFFICES ASSUME NEW i \in 1 .. Len(queue')
             PROVE  OrderOK(queue[i])'
  BY DEF OrderInv
<1>1. CASE i \in 1 .. Len(queue) /\ queue'[i] = queue[i]
  <2> DEFINE q == queue[i]
  <2>0. queue \in Seq(Order)
    BY DEF Types
  <2>1. OrderOK(q) /\ q \in Order /\ q.by \in Task /\ Expects(q.by, q.no) /\ q.no \in Nat
    <3>1. OrderOK(q)
      BY <1>1 DEF OrderInv
    <3>2. Expects(q.by, q.no)
      BY <1>1 DEF ItemInv
    <3>3. q \in Order
      BY <1>1, <2>0
    <3> HIDE DEF q
    <3>4. q.by \in Task /\ q.no \in Nat
      BY <3>3 DEF Order
    <3> QED BY <3>1, <3>2, <3>3, <3>4
  <2>2. CASE q.by # t
    <3>1. task'[q.by] = task[q.by] /\ job'[q.by] = job[q.by]
      BY <2>1, <2>2 DEF Turn, Runs, Only
    <3>2. Leg(job'[q.by]) = Leg(job[q.by]) /\ Want(job'[q.by]) = Want(job[q.by])
      BY <3>1
    <3> QED BY <1>1, <2>1, <3>1, <3>2 DEF OrderOK, Transferring
  <2>3. CASE q.by = t
    <3>1. GaveUp(t)
      BY <2>1, <2>3, ExpectsAfter
    <3>2. task'[t].at = "over" /\ SameJob(job'[t], job[t])
      BY <3>1 DEF Turn, Runs, Leaves
    <3>3. Leg(job'[t]) = Leg(job[t]) /\ job'[t].kind = job[t].kind /\ job'[t].call = job[t].call
      BY <3>2 DEF SameJob, Leg
    <3> QED BY <1>1, <2>1, <2>3, <3>2, <3>3 DEF OrderOK, Transferring
  <2> QED BY <2>2, <2>3
<1> QED BY <1>1, QueueAfter

LEMMA TurnNews ==
    ASSUME Types, NewsInv, NEW t \in Task, Turn(t)
    PROVE  NewsInv'
<1>1. /\ telling' = telling /\ stack' = stack /\ app' = app /\ news' = news
      /\ \A u \in Task : u # t => task'[u] = task[u]
  BY DEF Turn, nativeVars, Runs, Only
<1>2. PICK m \in 0 .. 1 : \A i \in 1 .. Len(ready') :
                i + m \in 1 .. Len(ready) /\ ready'[i] = ready[i + m]
  BY ReadyAfter
<1>3. ASSUME NEW e, NewsOK(e)
      PROVE  NewsOK(e)'
  <2>1. CASE e.ev = "refer" /\ app.policy # "manual"
    <3>1. /\ e.of \in 1 .. news /\ task[PolicyTask(e.of)].at = "idle" /\ news \in 0 .. app.news
          /\ app.ops \in Nat /\ app.news \in Nat /\ app.ops + app.news <= MaxTasks
      BY <1>3, <2>1, RequestsAssumption DEF NewsOK, Types
    <3>2. PolicyTask(e.of) \in Task /\ app.ops < PolicyTask(e.of)
      BY <3>1, RequestsAssumption DEF PolicyTask, Task
    <3>3. PolicyTask(e.of) # t
      <4>1. CASE Begun(t)
        BY <3>1, <3>2, <4>1 DEF Begun, Task
      <4>2. CASE Woke(t)
        BY <3>1, <4>2 DEF Woke, Running
      <4> QED BY <4>1, <4>2 DEF Turn
    <3>4. task'[PolicyTask(e.of)].at = "idle" /\ PolicyTask(e.of)' = PolicyTask(e.of)
      BY <1>1, <3>1, <3>2, <3>3 DEF PolicyTask
    <3> QED BY <1>1, <1>3, <2>1, <3>1, <3>4 DEF NewsOK
  <2>2. CASE ~(e.ev = "refer" /\ app.policy # "manual")
    BY <1>1, <1>3, <2>2 DEF NewsOK
  <2> QED BY <2>1, <2>2
<1>4. \A i \in 1 .. Len(ready') : ready'[i].kind = "event" => NewsOK(ready[i].ev)'
  <2> SUFFICES ASSUME NEW i \in 1 .. Len(ready'), ready'[i].kind = "event"
               PROVE  NewsOK(ready[i].ev)'
    OBVIOUS
  <2>1. NewsOK(ready[i + m].ev) /\ ready'[i] = ready[i + m]
    BY <1>2 DEF NewsInv
  <2>2. \A e : NewsOK(e) => NewsOK(e)'
    BY <1>3
  <2> QED BY <2>1, <2>2 DEF NewsOK
<1>5. \A i \in 1 .. Len(telling') : telling'[i].kind = "event" => NewsOK(telling[i].ev)'
  <2> SUFFICES ASSUME NEW i \in 1 .. Len(telling), telling[i].kind = "event"
               PROVE  NewsOK(telling[i].ev)'
    BY <1>1
  <2>1. NewsOK(telling[i].ev) /\ telling'[i] = telling[i]
    BY <1>1 DEF NewsInv
  <2>2. \A e : NewsOK(e) => NewsOK(e)'
    BY <1>3
  <2> QED BY <2>1, <2>2 DEF NewsOK
<1>6. \A i, k \in 1 .. Len(ready') :
          /\ IsNews(ready'[i], {"refer"}) /\ IsNews(ready'[k], {"refer"})
          /\ ready'[i].ev.of = ready'[k].ev.of
          => i = k
  <2> SUFFICES ASSUME NEW i \in 1 .. Len(ready'), NEW k \in 1 .. Len(ready'),
                      IsNews(ready'[i], {"refer"}), IsNews(ready'[k], {"refer"}),
                      ready'[i].ev.of = ready'[k].ev.of
               PROVE  i = k
    OBVIOUS
  <2>1. /\ i + m \in 1 .. Len(ready) /\ ready'[i] = ready[i + m]
        /\ k + m \in 1 .. Len(ready) /\ ready'[k] = ready[k + m]
    BY <1>2
  <2>2. i + m = k + m
    BY <2>1 DEF NewsInv
  <2> QED BY <2>2
<1>7. \A i \in 1 .. Len(ready'), k \in 1 .. Len(telling) :
          IsNews(ready'[i], {"refer"}) /\ IsNews(telling[k], {"refer"}) => ready'[i].ev.of # telling[k].ev.of
  BY <1>2 DEF NewsInv
<1> QED BY <1>1, <1>4, <1>5, <1>6, <1>7 DEF NewsInv, IsNews

-----------------------------------------------------------------------------
(* The loop's other callbacks, and its timers.                             *)

(* The callbacks that are not wakes stay, but for the one that ran. *)
Slid(m) ==
    \A i \in 1 .. Len(ready') : \/ ready'[i].kind = "wake"
                                \/ i + m \in 1 .. Len(ready) /\ ready'[i] = ready[i + m]

LEMMA Ordered ==
    ASSUME NEW S \in SUBSET Task, NEW order \in SetToSeqs(S)
    PROVE  /\ Len(order) \in Nat /\ DOMAIN order = 1 .. Len(order)
           /\ \A i \in 1 .. Len(order) : order[i] \in S
           /\ \A i, k \in 1 .. Len(order) : order[i] = order[k] => i = k
<1>1. IsFiniteSet(Task)
  BY FS_Interval, RequestsAssumption DEF Task
<1>2. IsFiniteSet(S)
  BY <1>1, FS_Subset
<1>3. Cardinality(S) \in Nat
  BY <1>2, FS_CardinalityType
<1>4. /\ order \in [1 .. Cardinality(S) -> S]
      /\ \A i, k \in 1 .. Cardinality(S) : i # k => order[i] # order[k]
  BY DEF SetToSeqs
<1>5. Len(order) = Cardinality(S)
  BY <1>3, <1>4
<1> QED BY <1>3, <1>4, <1>5

(* What the event e makes of the coroutine u. *)
Spawns(u, e) ==
    /\ e.ev = "refer" /\ app.policy # "manual" /\ u = PolicyTask(e.of)
    /\ task[u] = Idle /\ job[u] = NoJob
    /\ task'[u].at = "starting" /\ task'[u].fut = "none" /\ task'[u].out = "none"
    /\ ~task'[u].expired
    /\ job'[u] = Job("policy", e.on)

Hears(u, e) ==
    /\ job'[u].kind = job[u].kind /\ job'[u].call = job[u].call /\ job'[u].with = job[u].with
    /\ job'[u].leg = job[u].leg /\ job'[u].step = job[u].step /\ job'[u].left = job[u].left
    /\ task'[u].at = task[u].at /\ task'[u].no = task[u].no /\ task'[u].out = task[u].out
    /\ task'[u].expired = task[u].expired
    /\ \/ task'[u].fut = task[u].fut
       \/ task[u].at = "waiting" /\ task[u].fut = "open" /\ task'[u].fut = "ok"
    /\ IF Takes(u, e)
       THEN job'[u].verdict = Verdict(e) /\ job'[u].whose = e.of /\ job'[u].saw = job[u].saw
       ELSE /\ job'[u].verdict = job[u].verdict /\ job'[u].whose = job[u].whose
            /\ job'[u].saw = (job[u].saw \/ Sees(u, e))
            /\ task'[u].fut = task[u].fut
    /\ ~Running(u) => task'[u] = task[u] /\ job'[u] = job[u]

(* The wakes behind the callbacks that were there are of coroutines that    *)
(* were not scheduled.                                                      *)
Schedules(S) ==
    \A i \in 1 .. Len(ready') :
        \/ i + 1 \in 1 .. Len(ready) /\ ready'[i] = ready[i + 1]
        \/ /\ i >= Len(ready) /\ ready'[i].kind = "wake" /\ ready'[i].by \in S
           /\ \A k \in 1 .. Len(ready') : k >= Len(ready) /\ ready'[k].by = ready'[i].by => k = i

LEMMA PolicyTaskIs ==
    ASSUME Types, NEW n \in 1 .. news, app.policy # "manual"
    PROVE  PolicyTask(n) \in Task /\ app.ops < PolicyTask(n) /\ PolicyTask(n) <= app.ops + news
           /\ app.ops \in Nat
<1>1. /\ news \in 0 .. app.news /\ app.ops \in Nat /\ app.news \in Nat
      /\ app.ops + app.news <= MaxTasks /\ MaxTasks \in Nat
  BY RequestsAssumption DEF Types
<1> QED BY <1>1 DEF PolicyTask, Task

LEMMA EventStep ==
    ASSUME Types, TaskInv, NewsInv, DispatchEvent
    PROVE  /\ ready # <<>> /\ Head(ready) = ready[1] /\ Head(ready).kind = "event"
           /\ Head(ready).ev \in News /\ NewsOK(Head(ready).ev)
           /\ task' \in [Task -> Coroutine] /\ job' \in [Task -> Local]
           /\ \A u \in Task : Spawns(u, Head(ready).ev) \/ Hears(u, Head(ready).ev)
           /\ Slid(1) /\ ready' \in Seq(Callback)
           /\ Schedules({u \in Task : \/ task'[u].at = "starting" /\ task[u].at = "idle"
                                      \/ task[u].at = "waiting" /\ task[u].fut = "open"
                                         /\ task'[u].fut = "ok"})
<1> DEFINE e == Head(ready).ev
           woken == {t \in Task : Takes(t, e) /\ task[t].at = "waiting" /\ task[t].fut = "open"}
           spawned == IF e.ev = "refer" /\ app.policy # "manual" THEN {PolicyTask(e.of)} ELSE {}
           S == {u \in Task : \/ task'[u].at = "starting" /\ task[u].at = "idle"
                              \/ task[u].at = "waiting" /\ task[u].fut = "open" /\ task'[u].fut = "ok"}
<1>1. ready # <<>> /\ Head(ready).kind = "event"
  BY DEF DispatchEvent
<1>2. ready \in Seq(Callback) /\ Head(ready) = ready[1] /\ 1 \in 1 .. Len(ready) /\ ready[1] \in Callback
  BY <1>1, Taken DEF Types
<1>3. e \in News /\ NewsOK(e)
  BY <1>1, <1>2 DEF NewsInv, Callback, Told
<1>4. /\ job' = [t \in Task |-> IF t \in spawned THEN Job("policy", e.on) ELSE JobAfter(t, e)]
      /\ task' = [t \in Task |-> CASE t \in woken   -> [task[t] EXCEPT !.fut = "ok"]
                                  [] t \in spawned -> [Idle EXCEPT !.at = "starting"]
                                  [] OTHER         -> task[t]]
  BY DEF DispatchEvent
<1>5. PICK order \in SetToSeqs(woken \cup spawned) :
                ready' = Rest \o [i \in DOMAIN order |-> Wake(order[i])]
  BY DEF DispatchEvent
<1> HIDE DEF e
<1>6. \A u \in spawned : /\ u \in Task /\ e.ev = "refer" /\ app.policy # "manual" /\ u = PolicyTask(e.of)
                         /\ task[u] = Idle /\ job[u] = NoJob /\ e.on \in Calls
  <2>1. ASSUME e.ev = "refer", app.policy # "manual"
        PROVE  /\ PolicyTask(e.of) \in Task /\ task[PolicyTask(e.of)].at = "idle" /\ e.on \in Calls
    BY <1>3, <2>1, PolicyTaskIs DEF NewsOK
  <2>2. \A u \in Task : task[u].at = "idle" => task[u] = Idle /\ job[u] = NoJob
    BY DEF TaskInv, TaskOK
  <2> QED BY <2>1, <2>2
<1>7. /\ task \in [Task -> Coroutine] /\ job \in [Task -> Local]
  BY DEF Types
<1>8. ASSUME NEW u \in Task
      PROVE  /\ task'[u] \in Coroutine /\ job'[u] \in Local
             /\ Spawns(u, e) \/ Hears(u, e)
             /\ u \in woken \cup spawned => u \in S
  <2>1. CASE u \in spawned
    <3>1. u \notin woken
      BY <1>6, <2>1 DEF Takes, Running, Idle
    <3>2. job'[u] = Job("policy", e.on) /\ task'[u] = [Idle EXCEPT !.at = "starting"]
      BY <1>4, <2>1, <3>1
    <3>3. Job("policy", e.on) \in Local
      BY <1>6, <2>1, JobIs DEF Where
    <3>4. Spawns(u, e)
      BY <1>6, <2>1, <3>2 DEF Spawns, Idle
    <3>5. task'[u] \in Coroutine
      <4>1. task'[u] = [at |-> "starting", fut |-> "none", expired |-> FALSE, op |-> "none",
                        no |-> 0, out |-> "none"]
        BY <3>2 DEF Idle
      <4> QED BY <4>1 DEF Coroutine
    <3>6. task'[u].at = "starting" /\ task[u].at = "idle"
      BY <1>6, <2>1, <3>2 DEF Idle
    <3> QED BY <3>2, <3>3, <3>4, <3>5, <3>6
  <2>2. CASE u \notin spawned /\ u \in woken
    <3>1. task'[u] = [task[u] EXCEPT !.fut = "ok"]
      BY <1>4, <2>2
    <3>2. /\ job'[u] = [job[u] EXCEPT !.verdict = Verdict(e), !.whose = e.of]
      BY <1>4, <2>2 DEF JobAfter
    <3>3. Verdict(e) \in {"ok", "failed"} /\ e.of \in Nat
      BY <1>3 DEF Verdict, News
    <3>4. task'[u] \in Coroutine /\ job'[u] \in Local
      BY <1>7, <3>1, <3>2, <3>3 DEF Coroutine, Local
    <3>5. Hears(u, e)
      BY <1>7, <2>2, <3>1, <3>2 DEF Hears, Coroutine, Local, Running
    <3>6. u \in S
      BY <1>7, <2>2, <3>1 DEF Coroutine
    <3> QED BY <3>4, <3>5, <3>6
  <2>3. CASE u \notin spawned /\ u \notin woken
    <3>1. task'[u] = task[u] /\ job'[u] = JobAfter(u, e)
      BY <1>4, <2>3
    <3>2. CASE Takes(u, e)
      <4>1. /\ job'[u] = [job[u] EXCEPT !.verdict = Verdict(e), !.whose = e.of]
        BY <3>1, <3>2 DEF JobAfter
      <4>2. Verdict(e) \in {"ok", "failed"} /\ e.of \in Nat
        BY <1>3 DEF Verdict, News
      <4>3. job'[u] \in Local
        BY <1>7, <4>1, <4>2 DEF Local
      <4>4. Hears(u, e)
        BY <1>7, <3>1, <3>2, <4>1 DEF Hears, Local, Takes
      <4> QED BY <1>7, <2>3, <3>1, <4>3, <4>4
    <3>3. CASE ~Takes(u, e) /\ Sees(u, e)
      <4>1. job'[u] = [job[u] EXCEPT !.saw = TRUE]
        BY <3>1, <3>3 DEF JobAfter
      <4>3. job'[u] \in Local
        BY <1>7, <4>1 DEF Local
      <4>2. Running(u) /\ (job[u].saw \/ Sees(u, e)) /\ task'[u] = task[u] /\ job'[u].saw
        BY <1>7, <3>1, <3>3, <4>1 DEF Sees, Local
      <4>7. job'[u].saw = TRUE
        BY <1>7, <4>1 DEF Local
      <4>5. job'[u].saw = (job[u].saw \/ Sees(u, e))
        BY <4>2, <4>7
      <4>6. /\ job'[u].kind = job[u].kind /\ job'[u].call = job[u].call /\ job'[u].with = job[u].with
            /\ job'[u].leg = job[u].leg /\ job'[u].step = job[u].step /\ job'[u].left = job[u].left
            /\ job'[u].verdict = job[u].verdict /\ job'[u].whose = job[u].whose
        BY <1>7, <4>1 DEF Local
      <4>4. Hears(u, e)
        BY <3>3, <4>2, <4>5, <4>6 DEF Hears
      <4> QED BY <1>7, <2>3, <3>1, <4>3, <4>4
    <3>4. CASE ~Takes(u, e) /\ ~Sees(u, e)
      <4>1. job'[u] = job[u]
        BY <3>1, <3>4 DEF JobAfter
      <4>2. job[u].saw \in BOOLEAN
        BY <1>7 DEF Local
      <4>4. Hears(u, e)
        BY <3>1, <3>4, <4>1, <4>2 DEF Hears
      <4> QED BY <1>7, <2>3, <3>1, <4>1, <4>4
    <3> QED BY <3>2, <3>3, <3>4
  <2> QED BY <2>1, <2>2, <2>3
<1>9. task' \in [Task -> Coroutine] /\ job' \in [Task -> Local]
  BY <1>4, <1>8
<1>10. /\ Rest \in Seq(Callback) /\ Len(Rest) = Len(ready) - 1 /\ Len(ready) \in Nat \ {0}
       /\ \A i \in 1 .. Len(Rest) : i + 1 \in 1 .. Len(ready) /\ Rest[i] = ready[i + 1]
  BY <1>1, <1>2, Taken DEF Rest
<1>11. woken \cup spawned \in SUBSET Task
  BY <1>6
<1> DEFINE W == woken \cup spawned
           wakes == [i \in DOMAIN order |-> Wake(order[i])]
<1>12. /\ Len(order) \in Nat /\ DOMAIN order = 1 .. Len(order)
       /\ \A i \in 1 .. Len(order) : order[i] \in W
       /\ \A i, k \in 1 .. Len(order) : order[i] = order[k] => i = k
  BY <1>5, <1>11, Ordered
<1>13. W \subseteq S /\ W \subseteq Task
  BY <1>8, <1>11
<1> HIDE DEF W, woken, spawned, S
<1>14. /\ wakes \in Seq(Callback) /\ Len(wakes) = Len(order)
       /\ \A i \in 1 .. Len(order) : wakes[i] = Wake(order[i])
  <2>1. \A i \in 1 .. Len(order) : Wake(order[i]) \in Callback
    BY <1>12, <1>13 DEF Wake, Callback
  <2> QED BY <1>12, <2>1
<1> HIDE DEF wakes
<1>15. /\ ready' \in Seq(Callback) /\ Len(ready') = Len(Rest) + Len(wakes)
       /\ \A i \in 1 .. Len(Rest) : ready'[i] = Rest[i]
       /\ \A i \in 1 .. Len(ready') : i > Len(Rest) =>
             i - Len(Rest) \in 1 .. Len(wakes) /\ ready'[i] = wakes[i - Len(Rest)]
  <2>1. ready' = Rest \o wakes
    BY <1>5 DEF wakes
  <2> QED BY <1>10, <1>14, <2>1
<1>16. \A i \in 1 .. Len(ready') : i > Len(Rest) =>
           /\ i - Len(Rest) \in 1 .. Len(order)
           /\ ready'[i].kind = "wake" /\ ready'[i].by = order[i - Len(Rest)] /\ ready'[i].by \in S
  <2> SUFFICES ASSUME NEW i \in 1 .. Len(ready'), i > Len(Rest)
               PROVE  /\ i - Len(Rest) \in 1 .. Len(order)
                      /\ ready'[i].kind = "wake" /\ ready'[i].by = order[i - Len(Rest)]
                      /\ ready'[i].by \in S
    OBVIOUS
  <2>1. i - Len(Rest) \in 1 .. Len(order) /\ ready'[i] = Wake(order[i - Len(Rest)])
    BY <1>14, <1>15
  <2> QED BY <1>12, <1>13, <2>1 DEF Wake
<1>17. Slid(1)
  BY <1>10, <1>15, <1>16 DEF Slid
<1>18. Schedules(S)
  <2> SUFFICES ASSUME NEW i \in 1 .. Len(ready')
               PROVE  \/ i + 1 \in 1 .. Len(ready) /\ ready'[i] = ready[i + 1]
                      \/ /\ i >= Len(ready) /\ ready'[i].kind = "wake" /\ ready'[i].by \in S
                         /\ \A k \in 1 .. Len(ready') :
                                k >= Len(ready) /\ ready'[k].by = ready'[i].by => k = i
    BY DEF Schedules
  <2>1. CASE i <= Len(Rest)
    BY <1>10, <1>15, <2>1
  <2>2. CASE i > Len(Rest)
    <3>1. i >= Len(ready) /\ ready'[i].kind = "wake" /\ ready'[i].by \in S
          /\ i - Len(Rest) \in 1 .. Len(order) /\ ready'[i].by = order[i - Len(Rest)]
      BY <1>10, <1>16, <2>2
    <3>2. ASSUME NEW k \in 1 .. Len(ready'), k >= Len(ready), ready'[k].by = ready'[i].by
          PROVE  k = i
      <4>1. k - Len(Rest) \in 1 .. Len(order) /\ ready'[k].by = order[k - Len(Rest)]
        BY <1>10, <1>16, <3>2
      <4>2. k - Len(Rest) = i - Len(Rest)
        BY <1>12, <3>1, <3>2, <4>1
      <4> QED BY <1>10, <4>2
    <3> QED BY <3>1, <3>2
  <2> QED BY <1>10, <2>1, <2>2
<1> QED BY <1>1, <1>2, <1>3, <1>8, <1>9, <1>15, <1>17, <1>18 DEF e, S

(* Only what the future of u has come to may change, and what it was told. *)
Mild(u) ==
    /\ job'[u].kind = job[u].kind /\ job'[u].call = job[u].call /\ job'[u].with = job[u].with
    /\ job'[u].leg = job[u].leg /\ job'[u].step = job[u].step
    /\ task'[u].at = task[u].at /\ task'[u].no = task[u].no /\ task'[u].out = task[u].out

(* The commands that stay are about what they were about. *)
LEMMA MildOrders ==
    ASSUME Types, ItemInv, OrderInv, \A u \in Task : Mild(u) \/ task[u].at = "idle",
           NEW m \in 0 .. 1,
           \A i \in 1 .. Len(queue') : i + m \in 1 .. Len(queue) /\ queue'[i] = queue[i + m]
    PROVE  OrderInv'
<1> SUFFICES ASSUME NEW i \in 1 .. Len(queue')
             PROVE  OrderOK(queue[i])'
  BY DEF OrderInv
<1> DEFINE q == queue[i + m]
<1>1. i + m \in 1 .. Len(queue) /\ queue'[i] = q
  OBVIOUS
<1>2. OrderOK(q) /\ Expects(q.by, q.no)
  BY <1>1 DEF OrderInv, ItemInv
<1>3. q \in Order
  BY <1>1 DEF Types
<1> HIDE DEF q
<1>4. q.by \in Task
  BY <1>3 DEF Order
<1>5. Mild(q.by)
  BY <1>2, <1>4 DEF Expects
<1>6. Leg(job'[q.by]) = Leg(job[q.by]) /\ Want(job'[q.by]) = Want(job[q.by])
  BY <1>5 DEF Mild, Leg, Want
<1> QED BY <1>1, <1>2, <1>5, <1>6 DEF OrderOK, Mild, Transferring

(* The completions that stay are expected by those of K. *)
LEMMA SlidItems ==
    ASSUME Types, ItemInv, telling' = telling, queue' = queue, NEW m \in 0 .. 1, Slid(m), NEW K,
           \A u \in Task : \A no \in Nat : Expects(u, no) /\ u \in K => Expects(u, no)',
           \A i \in 1 .. Len(queue) : queue[i].by \in K,
           \A i \in 1 .. Len(ready) : IsDone(ready[i]) /\ i > m => ready[i].by \in K,
           \A i \in 1 .. Len(telling) : IsDone(telling[i]) => telling[i].by \in K
    PROVE  ItemInv'
<1>1. /\ queue \in Seq(Order) /\ ready \in Seq(Callback) /\ telling \in Seq(Told)
      /\ \A i \in 1 .. Len(queue) : queue[i] \in Order
      /\ \A i \in 1 .. Len(ready) : ready[i] \in Callback
      /\ \A i \in 1 .. Len(telling) : telling[i] \in Told
  BY DEF Types
<1>2. /\ \A x \in Order : x.by \in Task /\ x.no \in Nat
      /\ \A x \in Callback \cup Told : IsDone(x) => x.by \in Task /\ x.no \in Nat
  BY DEF Order, Callback, Told, IsDone
<1>3. \A i \in 1 .. Len(ready') : IsDone(ready'[i]) =>
          i + m \in 1 .. Len(ready) /\ ready'[i] = ready[i + m] /\ i + m > m
  BY DEF Slid, IsDone
<1>4. \A i \in 1 .. Len(queue) : Expects(queue[i].by, queue[i].no)'
  <2> SUFFICES ASSUME NEW i \in 1 .. Len(queue)
               PROVE  Expects(queue[i].by, queue[i].no)'
    OBVIOUS
  <2>1. /\ Expects(queue[i].by, queue[i].no) /\ queue[i].by \in Task
        /\ queue[i].no \in Nat /\ queue'[i] = queue[i]
    BY <1>1, <1>2 DEF ItemInv
  <2> QED BY <2>1 DEF Expects
<1>5. \A i \in 1 .. Len(ready') : IsDone(ready'[i]) => Expects(ready[i].by, ready[i].no)'
  <2> SUFFICES ASSUME NEW i \in 1 .. Len(ready'), IsDone(ready'[i])
               PROVE  Expects(ready[i].by, ready[i].no)'
    OBVIOUS
  <2>1. /\ Expects(ready[i + m].by, ready[i + m].no) /\ ready[i + m].by \in Task
        /\ ready[i + m].no \in Nat /\ ready'[i] = ready[i + m] /\ ready[i + m].by \in K
    BY <1>1, <1>2, <1>3 DEF ItemInv
  <2> QED BY <2>1 DEF Expects
<1>6. \A i \in 1 .. Len(telling) : IsDone(telling[i]) => Expects(telling[i].by, telling[i].no)'
  <2> SUFFICES ASSUME NEW i \in 1 .. Len(telling), IsDone(telling[i])
               PROVE  Expects(telling[i].by, telling[i].no)'
    OBVIOUS
  <2>1. /\ Expects(telling[i].by, telling[i].no) /\ telling[i].by \in Task
        /\ telling[i].no \in Nat /\ telling'[i] = telling[i]
    BY <1>1, <1>2 DEF ItemInv
  <2> QED BY <2>1 DEF Expects
<1>7. \A i, k \in 1 .. Len(ready') :
          IsDone(ready'[i]) /\ IsDone(ready'[k]) /\ ready'[i].by = ready'[k].by => i = k
  <2>1. \A i, k \in 1 .. Len(ready') : i + m = k + m => i = k
    OBVIOUS
  <2> QED BY <1>3, <2>1 DEF ItemInv, IsDone
<1>8. \A i \in 1 .. Len(queue), k \in 1 .. Len(ready') : IsDone(ready'[k]) => ready'[k].by # queue[i].by
  BY <1>3 DEF ItemInv
<1>9. \A i \in 1 .. Len(ready'), k \in 1 .. Len(telling) :
          IsDone(ready'[i]) /\ IsDone(telling[k]) => ready'[i].by # telling[k].by
  BY <1>3 DEF ItemInv
<1> QED BY <1>4, <1>5, <1>6, <1>7, <1>8, <1>9 DEF ItemInv, IsDone

(* The events that stay, those of N, are about what they were about. *)
LEMMA SlidNews ==
    ASSUME Types, NewsInv, telling' = telling, NEW m \in 0 .. 1, Slid(m), NEW N,
           \A e \in N : NewsOK(e) => NewsOK(e)',
           \A i \in 1 .. Len(ready) : ready[i].kind = "event" /\ i > m => ready[i].ev \in N,
           \A i \in 1 .. Len(telling) : telling[i].kind = "event" => telling[i].ev \in N
    PROVE  NewsInv'
<1>1. \A i \in 1 .. Len(ready') : ready'[i].kind = "event" =>
          i + m \in 1 .. Len(ready) /\ ready'[i] = ready[i + m] /\ i + m > m
  BY DEF Slid
<1>2. ASSUME NEW i \in 1 .. Len(ready'), ready'[i].kind = "event"
      PROVE  NewsOK(ready[i].ev)'
  <2>1. NewsOK(ready[i + m].ev) /\ ready[i + m].ev \in N /\ ready'[i] = ready[i + m]
    BY <1>1, <1>2 DEF NewsInv
  <2> QED BY <2>1 DEF NewsOK
<1>3. ASSUME NEW i \in 1 .. Len(telling), telling[i].kind = "event"
      PROVE  NewsOK(telling[i].ev)'
  <2>1. NewsOK(telling[i].ev) /\ telling[i].ev \in N /\ telling'[i] = telling[i]
    BY <1>3 DEF NewsInv
  <2> QED BY <2>1 DEF NewsOK
<1>4. \A i \in 1 .. Len(ready') : IsNews(ready'[i], {"refer"}) =>
          i + m \in 1 .. Len(ready) /\ ready'[i] = ready[i + m]
  BY <1>1 DEF IsNews
<1>5. \A i, k \in 1 .. Len(ready') :
          /\ IsNews(ready'[i], {"refer"}) /\ IsNews(ready'[k], {"refer"})
          /\ ready'[i].ev.of = ready'[k].ev.of
          => i = k
  <2>1. \A i, k \in 1 .. Len(ready') : i + m = k + m => i = k
    OBVIOUS
  <2> QED BY <1>4, <2>1 DEF NewsInv, IsNews
<1>6. \A i \in 1 .. Len(ready'), k \in 1 .. Len(telling) :
          IsNews(ready'[i], {"refer"}) /\ IsNews(telling[k], {"refer"}) => ready'[i].ev.of # telling[k].ev.of
  BY <1>4 DEF NewsInv
<1> QED BY <1>2, <1>3, <1>5, <1>6 DEF NewsInv, IsNews

(* What the event e makes of the Call objects. *)
EventObjects(e) ==
    /\ obj' \in [Calls -> Object] /\ due' \in [Calls -> [no : Nat, lost : BOOLEAN]]
    /\ \A c \in Calls : /\ obj'[c].pending = obj[c].pending /\ obj'[c].onHold = obj[c].onHold
                        /\ obj'[c].up = (obj[c].up /\ ~(e.on = c /\ e.ev \in {"transferred", "closed"}))
                        /\ \/ obj'[c].request = due'[c].no
                           \/ due'[c].lost /\ obj'[c].request = 0
                           \/ obj'[c].request = obj[c].request /\ due'[c] = due[c]
                           \/ ~obj[c].up

LEMMA EventObjectsStep ==
    ASSUME Types, TaskInv, NewsInv, DispatchEvent
    PROVE  EventObjects(Head(ready).ev)
<1> DEFINE e == Head(ready).ev
<1>1. e \in News /\ NewsOK(e)
  BY EventStep
<1>2. obj' = [c \in Calls |-> ObjAfter(c, e)] /\ due' = [c \in Calls |-> DueAfter(c, e)]
  BY DEF DispatchEvent
<1> HIDE DEF e
<1>3. obj \in [Calls -> Object] /\ due \in [Calls -> [no : Nat, lost : BOOLEAN]]
      /\ news \in 0 .. app.news /\ app.news \in Nat
  BY RequestsAssumption DEF Types
<1>4. e.ev = "refer" => e.of \in 0 .. app.news
  BY <1>1, <1>3 DEF NewsOK
<1>5. 0 \in 0 .. app.news /\ e.of \in Nat
  BY <1>1, <1>3 DEF News
<1>6. ASSUME NEW c \in Calls
      PROVE  /\ ObjAfter(c, e) \in Object /\ DueAfter(c, e) \in [no : Nat, lost : BOOLEAN]
             /\ ObjAfter(c, e).pending = obj[c].pending /\ ObjAfter(c, e).onHold = obj[c].onHold
             /\ ObjAfter(c, e).up = (obj[c].up /\ ~(e.on = c /\ e.ev \in {"transferred", "closed"}))
             /\ \/ ObjAfter(c, e).request = DueAfter(c, e).no
                \/ DueAfter(c, e).lost /\ ObjAfter(c, e).request = 0
                \/ ObjAfter(c, e).request = obj[c].request /\ DueAfter(c, e) = due[c]
                \/ ~obj[c].up
  <2>1. obj[c] \in Object /\ due[c] \in [no : Nat, lost : BOOLEAN]
    BY <1>3
  <2>2. CASE e.on # c
    <3>1. ObjAfter(c, e) = obj[c] /\ DueAfter(c, e) = due[c]
      BY <2>2 DEF ObjAfter, DueAfter
    <3>2. obj[c].up \in BOOLEAN
      BY <2>1 DEF Object
    <3> QED BY <2>1, <2>2, <3>1, <3>2
  <2>3. CASE e.on = c
    <3>1. DueAfter(c, e) \in [no : Nat, lost : BOOLEAN]
      BY <1>5, <2>1, <2>3 DEF DueAfter
    <3>2. CASE ~obj[c].up
      <4>1. ObjAfter(c, e) = obj[c] /\ obj[c].up = FALSE
        BY <2>1, <3>2 DEF ObjAfter, Object
      <4> QED BY <2>1, <3>1, <3>2, <4>1
    <3>3. CASE obj[c].up /\ e.ev = "refer"
      <4>1. ObjAfter(c, e) = [obj[c] EXCEPT !.request = e.of] /\ DueAfter(c, e).no = e.of
        BY <2>3, <3>3 DEF ObjAfter, DueAfter
      <4>2. ObjAfter(c, e) \in Object /\ ObjAfter(c, e).up = obj[c].up
            /\ ObjAfter(c, e).pending = obj[c].pending /\ ObjAfter(c, e).onHold = obj[c].onHold
            /\ ObjAfter(c, e).request = e.of
        BY <1>4, <2>1, <3>3, <4>1 DEF Object
      <4>3. ObjAfter(c, e).up = TRUE
        BY <2>1, <3>3, <4>2 DEF Object
      <4> QED BY <3>1, <3>3, <4>1, <4>2, <4>3
    <3>4. CASE obj[c].up /\ e.ev = "failed"
      <4>1. ObjAfter(c, e) = [obj[c] EXCEPT !.request = 0]
        BY <2>3, <3>4 DEF ObjAfter
      <4>2. ObjAfter(c, e) \in Object /\ ObjAfter(c, e).up = obj[c].up
            /\ ObjAfter(c, e).pending = obj[c].pending /\ ObjAfter(c, e).onHold = obj[c].onHold
            /\ ObjAfter(c, e).request = 0
        BY <1>5, <2>1, <3>4, <4>1 DEF Object
      <4>3. DueAfter(c, e).no = 0 \/ DueAfter(c, e).lost
        <5>1. e.of # 0 => DueAfter(c, e) = [due[c] EXCEPT !.lost = TRUE]
          BY <2>3, <3>4 DEF DueAfter
        <5>2. e.of = 0 => DueAfter(c, e) = [no |-> 0, lost |-> FALSE]
          BY <2>3, <3>4 DEF DueAfter
        <5> QED BY <2>1, <5>1, <5>2
      <4>4. ObjAfter(c, e).up = TRUE
        BY <2>1, <3>4, <4>2 DEF Object
      <4> QED BY <3>1, <3>4, <4>2, <4>3, <4>4
    <3>5. CASE obj[c].up /\ e.ev \in {"transferred", "closed"}
      <4>1. ObjAfter(c, e) = [obj[c] EXCEPT !.up = FALSE] /\ DueAfter(c, e) = due[c]
        BY <2>3, <3>5 DEF ObjAfter, DueAfter
      <4>2. ObjAfter(c, e) \in Object /\ ObjAfter(c, e).up = FALSE
            /\ ObjAfter(c, e).pending = obj[c].pending /\ ObjAfter(c, e).onHold = obj[c].onHold
            /\ ObjAfter(c, e).request = obj[c].request
        BY <2>1, <4>1 DEF Object
      <4> QED BY <2>3, <3>1, <3>5, <4>1, <4>2
    <3>6. CASE obj[c].up /\ e.ev \notin {"refer", "failed", "transferred", "closed"}
      <4>1. ObjAfter(c, e) = obj[c] /\ DueAfter(c, e) = due[c]
        BY <2>3, <3>6 DEF ObjAfter, DueAfter
      <4>2. obj[c].up = TRUE
        BY <2>1, <3>6 DEF Object
      <4> QED BY <2>1, <3>1, <3>6, <4>1, <4>2
    <3> QED BY <3>2, <3>3, <3>4, <3>5, <3>6
  <2> QED BY <2>2, <2>3
<1>7. EventObjects(e)
  BY <1>2, <1>6 DEF EventObjects
<1> QED BY <1>7 DEF e

LEMMA EventTypes ==
    ASSUME Types, TaskInv, NewsInv, DispatchEvent, Blurs
    PROVE  Types'
<1>1. task' \in [Task -> Coroutine] /\ job' \in [Task -> Local] /\ ready' \in Seq(Callback)
  BY EventStep
<1>2. EventObjects(Head(ready).ev)
  BY EventObjectsStep
<1>3. obj' \in [Calls -> Object] /\ due' \in [Calls -> [no : Nat, lost : BOOLEAN]]
  BY <1>2 DEF EventObjects
<1>4. UNCHANGED <<nativeVars, queue, telling, app, registered, ops>> /\ murky' \subseteq Calls
  BY DEF DispatchEvent, Blurs, Types
<1> QED BY <1>1, <1>3, <1>4 DEF Types, nativeVars, Object, Call

LEMMA EventTasks ==
    ASSUME Types, TaskInv, NewsInv, DispatchEvent
    PROVE  TaskInv' /\ \A u \in Task : Mild(u) \/ task[u].at = "idle"
<1> DEFINE e == Head(ready).ev
<1>1. NewsOK(e) /\ \A u \in Task : Spawns(u, e) \/ Hears(u, e)
  BY EventStep
<1>2. app' = app /\ news' = news /\ ops' = ops
  BY DEF DispatchEvent, nativeVars
<1> HIDE DEF e
<1>3. ASSUME NEW u \in Task
      PROVE  (TaskOK(u) /\ NumberOK(u))' /\ (Mild(u) \/ task[u].at = "idle")
  <2>0. TaskOK(u) /\ NumberOK(u)
    BY DEF TaskInv
  <2>1. CASE Spawns(u, e)
    <3>1. e.of \in 1 .. news /\ e.on \in Calls /\ u = PolicyTask(e.of) /\ app.policy # "manual"
      BY <1>1, <2>1 DEF Spawns, NewsOK
    <3>2. app.ops < u /\ u <= app.ops + news /\ app.ops \in Nat /\ news \in Nat /\ u \in Nat
      BY <3>1, PolicyTaskIs DEF Task, Types
    <3>3. /\ job'[u].kind = "policy" /\ job'[u].call = e.on /\ job'[u].step = "none"
          /\ job'[u].verdict = "none"
      <4>1. job'[u] = Job("policy", e.on)
        BY <2>1 DEF Spawns
      <4> QED BY <3>1, <4>1, JobIs DEF Where
    <3>4. TaskOK(u)'
      BY <2>1, <3>1, <3>3 DEF Spawns, TaskOK, JobOK, Registers, Kinds, Running
    <3>5. NumberOK(u)'
      BY <1>2, <2>1, <3>2, <3>3 DEF NumberOK, Spawns
    <3> QED BY <2>1, <3>4, <3>5 DEF Spawns, Idle
  <2>2. CASE Hears(u, e)
    <3>1. Mild(u)
      BY <2>2 DEF Hears, Mild
    <3>2. NumberOK(u)'
      BY <1>2, <2>0, <2>2 DEF NumberOK, Hears
    <3>3. TaskOK(u)'
      <4>1. CASE ~Running(u)
        BY <2>0, <2>2, <4>1 DEF Hears, TaskOK, Running
      <4>2. CASE Running(u) /\ Takes(u, e)
        BY <2>0, <2>2, <4>2 DEF Hears, TaskOK, Running, JobOK, Takes, Verdict
      <4>3. CASE Running(u) /\ ~Takes(u, e)
        BY <2>0, <2>2, <4>3 DEF Hears, TaskOK, Running, JobOK
      <4> QED BY <4>1, <4>2, <4>3
    <3> QED BY <3>1, <3>2, <3>3
  <2> QED BY <1>1, <2>1, <2>2
<1> QED BY <1>3 DEF TaskInv

LEMMA EventExpects ==
    ASSUME Types, TaskInv, NewsInv, DispatchEvent
    PROVE  \A u \in Task : \A no \in Nat : Expects(u, no) => Expects(u, no)'
<1> SUFFICES ASSUME NEW u \in Task, NEW no \in Nat, Expects(u, no)
             PROVE  Expects(u, no)'
  OBVIOUS
<1>1. Spawns(u, Head(ready).ev) \/ Hears(u, Head(ready).ev)
  BY EventStep
<1> QED BY <1>1 DEF Expects, Spawns, Hears, Idle

LEMMA EventItems ==
    ASSUME Types, TaskInv, NewsInv, ItemInv, OrderInv, DispatchEvent
    PROVE  ItemInv' /\ OrderInv'
<1>1. telling' = telling /\ queue' = queue
  BY DEF DispatchEvent
<1>2. Slid(1) /\ \A u \in Task : Mild(u) \/ task[u].at = "idle"
  BY EventStep, EventTasks
<1>3. \A u \in Task : \A no \in Nat : Expects(u, no) => Expects(u, no)'
  BY EventExpects
<1>4. /\ \A i \in 1 .. Len(queue) : queue[i].by \in Task
      /\ \A i \in 1 .. Len(ready) : IsDone(ready[i]) => ready[i].by \in Task
      /\ \A i \in 1 .. Len(telling) : IsDone(telling[i]) => telling[i].by \in Task
  <2>1. /\ \A x \in Order : x.by \in Task
        /\ \A x \in Callback \cup Told : IsDone(x) => x.by \in Task
    BY DEF Order, Callback, Told, IsDone
  <2> QED BY <2>1 DEF Types
<1>5. ItemInv'
  <2>1. /\ \A u \in Task : \A no \in Nat : Expects(u, no) /\ u \in Task => Expects(u, no)'
        /\ \A i \in 1 .. Len(ready) : IsDone(ready[i]) /\ i > 1 => ready[i].by \in Task
        /\ 1 \in 0 .. 1 /\ Slid(1)
    BY <1>2, <1>3, <1>4
  <2> QED BY <1>1, <1>4, <2>1, SlidItems
<1>6. \A i \in 1 .. Len(queue') : i + 0 \in 1 .. Len(queue) /\ queue'[i] = queue[i + 0]
  BY <1>1
<1>7. OrderInv'
  BY <1>2, <1>6, MildOrders
<1> QED BY <1>5, <1>7

LEMMA EventNews ==
    ASSUME Types, TaskInv, NewsInv, DispatchEvent
    PROVE  NewsInv'
<1> DEFINE e == Head(ready).ev
           N == {x \in News : ~(e.ev = "refer" /\ x.ev = "refer" /\ x.of = e.of)}
<1>1. /\ ready # <<>> /\ Head(ready) = ready[1] /\ Head(ready).kind = "event" /\ e \in News
      /\ \A u \in Task : Spawns(u, e) \/ Hears(u, e)
      /\ Slid(1) /\ ready \in Seq(Callback) /\ telling \in Seq(Told)
  BY EventStep DEF Types
<1>2. telling' = telling /\ stack' = stack /\ app' = app /\ news' = news
  BY DEF DispatchEvent, nativeVars
<1>3. 1 \in 1 .. Len(ready) /\ ready[1].ev = e /\ ready[1].kind = "event"
  BY <1>1, Taken
<1> HIDE DEF e
<1>4. ASSUME NEW x \in N, NewsOK(x)
      PROVE  NewsOK(x)'
  <2>1. CASE x.ev = "refer" /\ app.policy # "manual"
    <3>1. x.of \in 1 .. news /\ task[PolicyTask(x.of)].at = "idle"
      BY <1>4, <2>1 DEF NewsOK
    <3>2. PolicyTask(x.of) \in Task
      BY <2>1, <3>1, PolicyTaskIs
    <3>3. ~Spawns(PolicyTask(x.of), e)
      <4>1. SUFFICES ASSUME e.ev = "refer", PolicyTask(x.of) = PolicyTask(e.of)
                     PROVE  FALSE
        BY DEF Spawns
      <4>2. app.ops \in Nat /\ x.of \in Nat /\ e.of \in Nat
        BY <1>1, <1>4, RequestsAssumption DEF Types, News
      <4>3. x.of = e.of
        BY <4>1, <4>2 DEF PolicyTask
      <4> QED BY <1>4, <2>1, <4>1, <4>3
    <3>4. task'[PolicyTask(x.of)].at = "idle" /\ PolicyTask(x.of)' = PolicyTask(x.of)
      BY <1>1, <1>2, <3>1, <3>2, <3>3 DEF Hears, PolicyTask
    <3> QED BY <1>2, <1>4, <2>1, <3>1, <3>4 DEF NewsOK
  <2>2. CASE ~(x.ev = "refer" /\ app.policy # "manual")
    BY <1>2, <1>4, <2>2 DEF NewsOK
  <2> QED BY <2>1, <2>2
<1>5. ASSUME NEW i \in 1 .. Len(ready), ready[i].kind = "event", i > 1
      PROVE  ready[i].ev \in N
  <2>1. ready[i].ev \in News
    BY <1>1, <1>5 DEF Callback, Told
  <2>2. ~(e.ev = "refer" /\ ready[i].ev.ev = "refer" /\ ready[i].ev.of = e.of)
    BY <1>3, <1>5 DEF NewsInv, IsNews
  <2> QED BY <2>1, <2>2
<1>6. ASSUME NEW i \in 1 .. Len(telling), telling[i].kind = "event"
      PROVE  telling[i].ev \in N
  <2>1. telling[i].ev \in News
    BY <1>1, <1>6 DEF Told
  <2>2. ~(e.ev = "refer" /\ telling[i].ev.ev = "refer" /\ telling[i].ev.of = e.of)
    BY <1>3, <1>6 DEF NewsInv, IsNews
  <2> QED BY <2>1, <2>2
<1> HIDE DEF N
<1>7. \A x \in N : NewsOK(x) => NewsOK(x)'
  BY <1>4
<1>8. /\ \A i \in 1 .. Len(ready) : ready[i].kind = "event" /\ i > 1 => ready[i].ev \in N
      /\ \A i \in 1 .. Len(telling) : telling[i].kind = "event" => telling[i].ev \in N
      /\ 1 \in 0 .. 1 /\ Slid(1)
  BY <1>1, <1>5, <1>6
<1> QED BY <1>2, <1>7, <1>8, SlidNews

LEMMA EventWakes ==
    ASSUME Types, TaskInv, NewsInv, WakeInv, DispatchEvent
    PROVE  WakeInv'
<1> DEFINE e == Head(ready).ev
           S == {u \in Task : \/ task'[u].at = "starting" /\ task[u].at = "idle"
                              \/ task[u].at = "waiting" /\ task[u].fut = "open" /\ task'[u].fut = "ok"}
<1>1. /\ \A u \in Task : Spawns(u, e) \/ Hears(u, e)
      /\ Schedules(S) /\ ready \in Seq(Callback) /\ ready' \in Seq(Callback) /\ ready # <<>>
  BY EventStep DEF Types
<1> HIDE DEF e
<1>2. \A x \in Callback : x.kind = "wake" => x.by \in Task
  BY DEF Callback, Told
<1>3. ASSUME NEW u \in Task, Awake(task[u])
      PROVE  Awake(task'[u]) /\ u \notin S
  <2>1. Hears(u, e)
    BY <1>1, <1>3 DEF Spawns, Idle, Awake
  <2> QED BY <1>3, <2>1 DEF Hears, Awake
<1>4. ASSUME NEW u \in S
      PROVE  Awake(task'[u])
  <2>1. CASE task'[u].at = "starting"
    BY <2>1 DEF Awake
  <2>2. CASE task[u].at = "waiting" /\ task[u].fut = "open" /\ task'[u].fut = "ok"
    <3>1. Hears(u, e)
      BY <1>1, <2>2 DEF Spawns, Idle
    <3> QED BY <2>2, <3>1 DEF Hears, Awake
  <2> QED BY <1>4, <2>1, <2>2
<1> HIDE DEF S
<1>5. \A i \in 1 .. Len(ready) : ready[i].kind = "wake" =>
          Awake(task'[ready[i].by]) /\ ready[i].by \notin S
  <2>1. \A i \in 1 .. Len(ready) : ready[i].kind = "wake" =>
            ready[i].by \in Task /\ Awake(task[ready[i].by])
    BY <1>1, <1>2 DEF WakeInv
  <2> QED BY <1>3, <2>1
<1>6. \A i \in 1 .. Len(ready') :
          \/ i + 1 \in 1 .. Len(ready) /\ ready'[i] = ready[i + 1]
          \/ /\ i >= Len(ready) /\ ready'[i].kind = "wake" /\ ready'[i].by \in S
             /\ \A k \in 1 .. Len(ready') : k >= Len(ready) /\ ready'[k].by = ready'[i].by => k = i
  BY <1>1 DEF Schedules
<1>7. \A i \in 1 .. Len(ready') : ready'[i].kind = "wake" => Awake(task'[ready'[i].by])
  BY <1>4, <1>5, <1>6
<1>8. ASSUME NEW i \in 1 .. Len(ready'), NEW k \in 1 .. Len(ready'),
             ready'[i].kind = "wake", ready'[k].kind = "wake", ready'[i].by = ready'[k].by
      PROVE  i = k
  <2>1. CASE i >= Len(ready) /\ k >= Len(ready)
    <3>1. ~(i + 1 \in 1 .. Len(ready))
      BY <1>1, <2>1
    <3> QED BY <1>6, <1>8, <2>1, <3>1
  <2>2. CASE /\ i + 1 \in 1 .. Len(ready) /\ ready'[i] = ready[i + 1]
             /\ k + 1 \in 1 .. Len(ready) /\ ready'[k] = ready[k + 1]
    <3>1. i + 1 = k + 1
      BY <1>8, <2>2 DEF WakeInv
    <3> QED BY <3>1
  <2>3. CASE i + 1 \in 1 .. Len(ready) /\ ready'[i] = ready[i + 1] /\ ready'[k].by \in S
    BY <1>5, <1>8, <2>3
  <2>4. CASE k + 1 \in 1 .. Len(ready) /\ ready'[k] = ready[k + 1] /\ ready'[i].by \in S
    BY <1>5, <1>8, <2>4
  <2> QED BY <1>6, <2>1, <2>2, <2>3, <2>4
<1> QED BY <1>7, <1>8 DEF WakeInv

(* The future of u is done, or finds itself timed out; the callback before  *)
(* the m-th is gone.                                                        *)
Settles(u, m) ==
    /\ task' \in [Task -> Coroutine] /\ \A v \in Task : v # u => task'[v] = task[v]
    /\ task'[u].at = task[u].at /\ task'[u].no = task[u].no /\ task'[u].out = task[u].out
    /\ UNCHANGED <<nativeVars, queue, telling, job, obj, app, registered, ops, due>>
    /\ ready' \in Seq(Callback)
    /\ \/ /\ \A i \in 1 .. Len(ready') : i + m \in 1 .. Len(ready) /\ ready'[i] = ready[i + m]
          /\ Awake(task[u]) => Awake(task'[u])
       \/ /\ ~Awake(task[u]) /\ Awake(task'[u]) /\ Len(ready') + m = Len(ready) + 1
          /\ \A i \in 1 .. Len(ready') : \/ i + m \in 1 .. Len(ready) /\ ready'[i] = ready[i + m]
                                         \/ i = Len(ready') /\ ready'[i] = Wake(u)

LEMMA DoneStep ==
    ASSUME Types, TaskInv, DispatchDone,
           UNCHANGED <<nativeVars, job, obj, app, registered, ops, due>>
    PROVE  \E u \in Task :
              /\ ready # <<>> /\ Head(ready) = ready[1] /\ IsDone(Head(ready)) /\ Head(ready).by = u
              /\ Settles(u, 1) /\ TaskOK(u)'
              /\ \/ task' = task
                 \/ /\ task[u].at = "awaiting" /\ task[u].fut = "open"
                    /\ task'[u].fut = Head(ready).res
                    /\ task'[u].expired = task[u].expired
<1> DEFINE d == Head(ready)
<1>1. ready # <<>> /\ d.kind = "done" /\ queue' = queue /\ telling' = telling
  BY DEF DispatchDone
<1>2. /\ ready \in Seq(Callback) /\ d \in Callback /\ d = ready[1] /\ Len(ready) \in Nat \ {0}
      /\ Rest \in Seq(Callback) /\ Len(Rest) = Len(ready) - 1
      /\ \A i \in 1 .. Len(Rest) : i + 1 \in 1 .. Len(ready) /\ Rest[i] = ready[i + 1]
  BY <1>1, Taken DEF Types, Rest
<1>3. PICK u \in Task : d.by = u
  BY <1>1, <1>2 DEF Callback, Told
<1>8. d.no \in Nat /\ d.res \in Completed
  BY <1>1, <1>2 DEF Callback, Told, Completed
<1>4. task \in [Task -> Coroutine] /\ task[u] \in Coroutine /\ TaskOK(u)
  BY <1>3 DEF Types, TaskInv
<1> DEFINE good == task[u].at \in {"awaiting", "hanging"} /\ task[u].fut = "open" /\ task[u].no = d.no
<1>5. /\ good => Completes(u, d.res, task, Rest)
      /\ ~good => task' = task /\ ready' = Rest
  BY <1>3 DEF DispatchDone
<1> HIDE DEF d, good
<1>6. CASE good
  <2>1. task' = [task EXCEPT ![u].fut = d.res] /\ ready' = Append(Rest, Wake(u))
    BY <1>5, <1>6 DEF Completes
  <2>2. [task[u] EXCEPT !.fut = d.res] \in Coroutine
    BY <1>3, <1>8, <1>4 DEF Coroutine, Completed
  <2>3. /\ task' \in [Task -> Coroutine] /\ task'[u] = [task[u] EXCEPT !.fut = d.res]
        /\ \A v \in Task : v # u => task'[v] = task[v]
    BY <1>3, <1>8, <1>4, <2>1, <2>2
  <2>4. /\ task'[u].at = task[u].at /\ task'[u].no = task[u].no /\ task'[u].out = task[u].out
        /\ task'[u].fut = d.res /\ task'[u].expired = task[u].expired
        /\ task[u].at = "awaiting" /\ task[u].fut = "open"
    BY <1>4, <1>6, <2>3 DEF Coroutine, good
  <2>5. ~Awake(task[u]) /\ Awake(task'[u])
    BY <1>3, <1>8, <2>4 DEF Awake, Completed
  <2>6. Wake(u) \in Callback
    BY <1>3 DEF Wake, Callback
  <2>7. /\ ready' \in Seq(Callback) /\ Len(ready') = Len(ready)
        /\ \A i \in 1 .. Len(ready') : \/ i + 1 \in 1 .. Len(ready) /\ ready'[i] = ready[i + 1]
                                       \/ i = Len(ready') /\ ready'[i] = Wake(u)
    <3>1. /\ ready' \in Seq(Callback) /\ Len(ready') = Len(Rest) + 1
          /\ \A i \in 1 .. Len(Rest) : ready'[i] = Rest[i]
          /\ ready'[Len(Rest) + 1] = Wake(u)
      BY <1>2, <2>1, <2>6, Appended
    <3> QED BY <1>2, <3>1
  <2>8. Settles(u, 1)
    BY <1>1, <1>2, <2>3, <2>4, <2>5, <2>7 DEF Settles
  <2>9. TaskOK(u)'
    BY <1>3, <1>8, <1>4, <2>4 DEF TaskOK, Running, JobOK, Completed
  <2> QED BY <1>1, <1>2, <1>3, <1>8, <2>4, <2>8, <2>9 DEF d, IsDone
<1>7. CASE ~good
  <2>1. task' = task /\ ready' = Rest
    BY <1>5, <1>7
  <2>2. Settles(u, 1)
    BY <1>1, <1>2, <1>4, <2>1 DEF Settles
  <2>3. TaskOK(u)'
    BY <1>4, <2>1 DEF TaskOK, Running
  <2> QED BY <1>1, <1>2, <1>3, <1>8, <2>1, <2>2, <2>3 DEF d, IsDone
<1> QED BY <1>6, <1>7

LEMMA TimerStep ==
    ASSUME Types, TaskInv, NEW t \in Task, Timer(t)
    PROVE  /\ Settles(t, 0) /\ TaskOK(t)'
           /\ task'[t].fut = task[t].fut \/ (task[t].fut = "open" /\ task'[t].fut = "cancelled")
                                         \/ (task[t].at = "sleeping" /\ task'[t].fut = "ok")
<1>1. task \in [Task -> Coroutine] /\ task[t] \in Coroutine /\ TaskOK(t) /\ ready \in Seq(Callback)
  BY DEF Types, TaskInv
<1>2. Wake(t) \in Callback
  BY DEF Wake, Callback
<1>3. /\ Append(ready, Wake(t)) \in Seq(Callback) /\ Len(Append(ready, Wake(t))) = Len(ready) + 1
      /\ \A i \in 1 .. Len(Append(ready, Wake(t))) :
            \/ i + 0 \in 1 .. Len(ready) /\ Append(ready, Wake(t))[i] = ready[i + 0]
            \/ i = Len(Append(ready, Wake(t))) /\ Append(ready, Wake(t))[i] = Wake(t)
  BY <1>1, <1>2, Appended
<1>4. CASE Rings(t)
  <2>1. /\ task' = [task EXCEPT ![t].fut = "ok"] /\ ready' = Append(ready, Wake(t))
        /\ task[t].at = "sleeping" /\ task[t].fut = "open"
        /\ UNCHANGED <<nativeVars, queue, telling, job, obj, app, registered, ops, due>>
    BY <1>4 DEF Rings, Completes, Timer
  <2>2. [task[t] EXCEPT !.fut = "ok"] \in Coroutine
    BY <1>1 DEF Coroutine
  <2>3. /\ task' \in [Task -> Coroutine] /\ task'[t] = [task[t] EXCEPT !.fut = "ok"]
        /\ \A v \in Task : v # t => task'[v] = task[v]
    BY <1>1, <2>1, <2>2
  <2>4. /\ task'[t].at = task[t].at /\ task'[t].no = task[t].no /\ task'[t].out = task[t].out
        /\ task'[t].fut = "ok" /\ task'[t].expired = task[t].expired
    BY <1>1, <2>3 DEF Coroutine
  <2>5. ~Awake(task[t]) /\ Awake(task'[t])
    BY <2>1, <2>4 DEF Awake
  <2>8. /\ ready' \in Seq(Callback) /\ Len(ready') + 0 = Len(ready) + 1
        /\ \A i \in 1 .. Len(ready') : \/ i + 0 \in 1 .. Len(ready) /\ ready'[i] = ready[i + 0]
                                       \/ i = Len(ready') /\ ready'[i] = Wake(t)
    BY <1>1, <1>3, <2>1
  <2>6. Settles(t, 0)
    BY <2>1, <2>3, <2>4, <2>5, <2>8 DEF Settles
  <2>7. TaskOK(t)'
    BY <1>1, <2>1, <2>4 DEF TaskOK, Running, JobOK
  <2> QED BY <2>1, <2>4, <2>6, <2>7
<1>5. CASE Expires(t)
  <2>1. /\ task' = [task EXCEPT ![t].expired = TRUE,
                                ![t].fut = IF task[t].fut = "open" THEN "cancelled" ELSE task[t].fut]
        /\ ready' = (IF task[t].fut = "open" THEN Append(ready, Wake(t)) ELSE ready)
        /\ task[t].at \in Blocked
        /\ UNCHANGED <<nativeVars, queue, telling, job, obj, app, registered, ops, due>>
    BY <1>5 DEF Expires, Timer, Rings
  <2> DEFINE r == [task[t] EXCEPT !.expired = TRUE,
                                  !.fut = IF task[t].fut = "open" THEN "cancelled" ELSE task[t].fut]
  <2>2. r \in Coroutine
    BY <1>1 DEF Coroutine
  <2>3. /\ task' \in [Task -> Coroutine] /\ task'[t] = r
        /\ \A v \in Task : v # t => task'[v] = task[v]
    BY <1>1, <2>1, <2>2
  <2>4. /\ task'[t].at = task[t].at /\ task'[t].no = task[t].no /\ task'[t].out = task[t].out
        /\ task'[t].fut = (IF task[t].fut = "open" THEN "cancelled" ELSE task[t].fut)
        /\ task'[t].expired
    BY <1>1, <2>3 DEF Coroutine
  <2>5. task[t].at \in {"awaiting", "waiting"}
    BY <1>1, <2>1 DEF Blocked, Coroutine
  <2>6. TaskOK(t)'
    BY <1>1, <2>1, <2>4, <2>5 DEF TaskOK, Running, JobOK
  <2>7. CASE task[t].fut = "open"
    <3>1. ~Awake(task[t]) /\ Awake(task'[t])
      BY <2>4, <2>5, <2>7 DEF Awake
    <3>3. /\ ready' \in Seq(Callback) /\ Len(ready') + 0 = Len(ready) + 1
          /\ \A i \in 1 .. Len(ready') : \/ i + 0 \in 1 .. Len(ready) /\ ready'[i] = ready[i + 0]
                                         \/ i = Len(ready') /\ ready'[i] = Wake(t)
      BY <1>1, <1>3, <2>1, <2>7
    <3>2. Settles(t, 0)
      BY <2>1, <2>3, <2>4, <3>1, <3>3 DEF Settles
    <3> QED BY <2>4, <2>6, <2>7, <3>2
  <2>8. CASE task[t].fut # "open"
    <3>1. Awake(task[t]) => Awake(task'[t])
      BY <2>4, <2>8 DEF Awake
    <3>2. Settles(t, 0)
      BY <1>1, <2>1, <2>3, <2>4, <2>8, <3>1 DEF Settles
    <3> QED BY <2>4, <2>6, <2>8, <3>2
  <2> QED BY <2>7, <2>8
<1> QED BY <1>4, <1>5 DEF Timer

LEMMA Parties ==
    ASSUME Types
    PROVE  /\ \A i \in 1 .. Len(queue) : queue[i] \in Order /\ queue[i].by \in Task /\ queue[i].no \in Nat
           /\ \A i \in 1 .. Len(ready) : /\ ready[i] \in Callback
                                         /\ IsDone(ready[i]) => ready[i].by \in Task /\ ready[i].no \in Nat
                                         /\ ready[i].kind = "wake" => ready[i].by \in Task
                                         /\ ready[i].kind = "event" => ready[i].ev \in News
           /\ \A i \in 1 .. Len(telling) : /\ telling[i] \in Told
                                           /\ IsDone(telling[i]) => telling[i].by \in Task /\ telling[i].no \in Nat
                                           /\ telling[i].kind = "event" => telling[i].ev \in News
<1>1. \A x \in Order : x.by \in Task /\ x.no \in Nat
  BY DEF Order
<1>2. \A x \in Told : /\ IsDone(x) => x.by \in Task /\ x.no \in Nat
                      /\ x.kind = "event" => x.ev \in News
  BY DEF Told, IsDone
<1>3. \A x \in Callback : /\ IsDone(x) => x.by \in Task /\ x.no \in Nat
                          /\ x.kind = "wake" => x.by \in Task
                          /\ x.kind = "event" => x.ev \in News
  BY DEF Callback, Told, IsDone
<1> QED BY <1>1, <1>2, <1>3 DEF Types

LEMMA SettlesBase ==
    ASSUME Base, NEW u \in Task, NEW m \in 0 .. 1, Settles(u, m), TaskOK(u)', Blurs
    PROVE  /\ Types' /\ TaskInv' /\ WakeInv' /\ OrderInv' /\ NewsInv' /\ Slid(m)
           /\ \A v \in Task : Mild(v)
<1>1. Types /\ TaskInv /\ WakeInv /\ ItemInv /\ OrderInv /\ NewsInv
  BY DEF Base
<1>2. /\ UNCHANGED <<nativeVars, queue, telling, job, obj, app, registered, ops, due>>
      /\ task' \in [Task -> Coroutine] /\ ready' \in Seq(Callback) /\ Len(ready) \in Nat
      /\ Len(ready') \in Nat
  BY <1>1 DEF Settles, Types
<1>3. Types'
  BY <1>1, <1>2 DEF Types, nativeVars, Object, Call, Blurs
<1>4. \A v \in Task : task'[v].at = task[v].at /\ task'[v].no = task[v].no /\ task'[v].out = task[v].out
  BY DEF Settles
<1>5. \A v \in Task : Mild(v)
  BY <1>2, <1>4 DEF Mild
<1>6. TaskInv'
  <2> SUFFICES ASSUME NEW v \in Task
               PROVE  TaskOK(v)' /\ NumberOK(v)'
    BY DEF TaskInv
  <2>1. TaskOK(v) /\ NumberOK(v)
    BY <1>1 DEF TaskInv
  <2>2. TaskOK(v)'
    <3>1. CASE v # u
      <4>1. task'[v] = task[v] /\ job' = job
        BY <1>2, <3>1 DEF Settles
      <4> QED BY <2>1, <4>1 DEF TaskOK, Running
    <3> QED BY <3>1
  <2>3. NumberOK(v)'
    BY <1>2, <1>4, <2>1 DEF NumberOK, nativeVars
  <2> QED BY <2>2, <2>3
<1>7. OrderInv'
  <2>1. \A i \in 1 .. Len(queue') : i + 0 \in 1 .. Len(queue) /\ queue'[i] = queue[i + 0]
    BY <1>2
  <2>2. 0 \in 0 .. 1
    OBVIOUS
  <2> QED BY <1>1, <1>5, <2>1, <2>2, MildOrders
<1>8. \A i \in 1 .. Len(ready') : \/ i + m \in 1 .. Len(ready) /\ ready'[i] = ready[i + m]
                                  \/ /\ i = Len(ready') /\ ready'[i] = Wake(u) /\ Len(ready') + m = Len(ready) + 1
                                     /\ ~Awake(task[u]) /\ Awake(task'[u])
  BY DEF Settles
<1>9. Wake(u).kind = "wake" /\ Wake(u).by = u
  BY DEF Wake
<1>10. Slid(m)
  BY <1>8, <1>9 DEF Slid
<1>11. NewsInv'
  <2>1. \A e \in News : NewsOK(e) => NewsOK(e)'
    <3> SUFFICES ASSUME NEW e \in News, NewsOK(e)
                 PROVE  NewsOK(e)'
      OBVIOUS
    <3>1. news' = news /\ stack' = stack /\ app' = app
      BY <1>2 DEF nativeVars
    <3>2. CASE e.ev = "refer" /\ app.policy # "manual"
      <4>1. e.of \in 1 .. news /\ task[PolicyTask(e.of)].at = "idle" /\ PolicyTask(e.of) \in Task
        BY <1>1, <3>2, PolicyTaskIs DEF NewsOK
      <4>2. task'[PolicyTask(e.of)].at = "idle" /\ PolicyTask(e.of)' = PolicyTask(e.of)
        BY <1>4, <3>1, <4>1 DEF PolicyTask
      <4> QED BY <3>1, <3>2, <4>1, <4>2 DEF NewsOK
    <3>3. CASE ~(e.ev = "refer" /\ app.policy # "manual")
      BY <3>1, <3>3 DEF NewsOK
    <3> QED BY <3>2, <3>3
  <2>2. /\ \A i \in 1 .. Len(ready) : ready[i].kind = "event" /\ i > m => ready[i].ev \in News
        /\ \A i \in 1 .. Len(telling) : telling[i].kind = "event" => telling[i].ev \in News
    BY <1>1, Parties
  <2> QED BY <1>1, <1>2, <1>10, <2>1, <2>2, SlidNews
<1>12. WakeInv'
  <2>1. \A v \in Task : Awake(task[v]) => Awake(task'[v])
    BY DEF Settles
  <2>2. \A i \in 1 .. Len(ready) : ready[i].kind = "wake" => ready[i].by \in Task /\ Awake(task[ready[i].by])
    BY <1>1, Parties DEF WakeInv
  <2>3. \A i \in 1 .. Len(ready') : ready'[i].kind = "wake" => Awake(task'[ready'[i].by])
    BY <1>8, <1>9, <2>1, <2>2
  <2>4. ASSUME NEW i \in 1 .. Len(ready'), NEW k \in 1 .. Len(ready'),
               ready'[i].kind = "wake", ready'[k].kind = "wake", ready'[i].by = ready'[k].by
        PROVE  i = k
    <3>1. CASE i + m \in 1 .. Len(ready) /\ ready'[i] = ready[i + m] /\ k + m \in 1 .. Len(ready) /\ ready'[k] = ready[k + m]
      <4>1. i + m = k + m
        BY <1>1, <2>4, <3>1 DEF WakeInv
      <4> QED BY <4>1
    <3>2. CASE i + m \in 1 .. Len(ready) /\ ready'[i] = ready[i + m] /\ ready'[k] = Wake(u) /\ ~Awake(task[u])
      BY <1>9, <2>2, <2>4, <3>2
    <3>3. CASE k + m \in 1 .. Len(ready) /\ ready'[k] = ready[k + m] /\ ready'[i] = Wake(u) /\ ~Awake(task[u])
      BY <1>9, <2>2, <2>4, <3>3
    <3> QED BY <1>8, <3>1, <3>2, <3>3
  <2> QED BY <2>3, <2>4 DEF WakeInv
<1> QED BY <1>3, <1>5, <1>6, <1>7, <1>10, <1>11, <1>12

LEMMA DoneBase ==
    ASSUME Base, DispatchDone, UNCHANGED <<nativeVars, job, obj, app, registered, ops, due>>, Blurs
    PROVE  Base'
<1>1. Types /\ TaskInv /\ ItemInv
  BY DEF Base
<1>2. PICK u \in Task :
        /\ ready # <<>> /\ Head(ready) = ready[1] /\ IsDone(Head(ready)) /\ Head(ready).by = u
        /\ Settles(u, 1) /\ TaskOK(u)'
  BY <1>1, DoneStep
<1>3. Types' /\ TaskInv' /\ WakeInv' /\ OrderInv' /\ NewsInv' /\ Slid(1)
  BY <1>2, SettlesBase
<1>4. ItemInv'
  <2> DEFINE K == Task \ {u}
  <2>1. queue' = queue /\ telling' = telling
    BY <1>2 DEF Settles
  <2>2. ASSUME NEW v \in Task, NEW no \in Nat, Expects(v, no), v \in K
        PROVE  Expects(v, no)'
    BY <1>2, <2>2 DEF Settles, Expects
  <2>3. 1 \in 1 .. Len(ready) /\ 1 \in 0 .. 1
    BY <1>1, <1>2, Taken DEF Types
  <2>4. \A i \in 1 .. Len(queue) : queue[i].by \in K
    BY <1>1, <1>2, <2>3, Parties DEF ItemInv
  <2>5. \A i \in 1 .. Len(ready) : IsDone(ready[i]) /\ i > 1 => ready[i].by \in K
    BY <1>1, <1>2, <2>3, Parties DEF ItemInv
  <2>6. \A i \in 1 .. Len(telling) : IsDone(telling[i]) => telling[i].by \in K
    BY <1>1, <1>2, <2>3, Parties DEF ItemInv
  <2> HIDE DEF K
  <2>7. \A v \in Task : \A no \in Nat : Expects(v, no) /\ v \in K => Expects(v, no)'
    BY <2>2
  <2> QED BY <1>1, <1>3, <2>1, <2>3, <2>4, <2>5, <2>6, <2>7, SlidItems
<1> QED BY <1>3, <1>4 DEF Base

LEMMA TimerBase ==
    ASSUME Base, NEW t \in Task, Timer(t), Blurs
    PROVE  Base'
<1>1. Types /\ TaskInv /\ ItemInv
  BY DEF Base
<1>2. /\ Settles(t, 0) /\ TaskOK(t)'
      /\ task'[t].fut = task[t].fut \/ (task[t].fut = "open" /\ task'[t].fut = "cancelled")
                                    \/ (task[t].at = "sleeping" /\ task'[t].fut = "ok")
  BY <1>1, TimerStep
<1>3. Types' /\ TaskInv' /\ WakeInv' /\ OrderInv' /\ NewsInv' /\ Slid(0)
  BY <1>2, SettlesBase
<1>4. ItemInv'
  <2>1. queue' = queue /\ telling' = telling
    BY <1>2 DEF Settles
  <2>2. \A v \in Task : \A no \in Nat : Expects(v, no) /\ v \in Task => Expects(v, no)'
    BY <1>2 DEF Settles, Expects
  <2>3. /\ \A i \in 1 .. Len(queue) : queue[i].by \in Task
        /\ \A i \in 1 .. Len(ready) : IsDone(ready[i]) /\ i > 0 => ready[i].by \in Task
        /\ \A i \in 1 .. Len(telling) : IsDone(telling[i]) => telling[i].by \in Task
        /\ 0 \in 0 .. 1
    BY <1>1, Parties
  <2> QED BY <1>1, <1>3, <2>1, <2>2, <2>3, SlidItems
<1> QED BY <1>3, <1>4 DEF Base

-----------------------------------------------------------------------------
(* The re thread.                                                          *)

LEMMA ReportBase ==
    ASSUME Base, Report, UNCHANGED <<nativeVars, job, obj, app, registered, ops, due>>, Blurs
    PROVE  /\ Base'
           /\ \A i \in 1 .. Len(ready') : \/ i \in 1 .. Len(ready) /\ ready'[i] = ready[i]
                                          \/ i = Len(ready) + 1 /\ ready'[i] = telling[1]
           /\ \A i \in 1 .. Len(telling') : i + 1 \in 1 .. Len(telling) /\ telling'[i] = telling[i + 1]
           /\ telling # <<>> /\ 1 \in 1 .. Len(telling) /\ ready' = Append(ready, telling[1])
           /\ Len(ready') = Len(ready) + 1 /\ Len(ready) \in Nat /\ Len(telling) \in Nat
<1>1. Types /\ TaskInv /\ WakeInv /\ ItemInv /\ OrderInv /\ NewsInv
  BY DEF Base
<1>2. /\ telling # <<>> /\ ready' = Append(ready, Head(telling)) /\ telling' = Tail(telling)
      /\ queue' = queue /\ task' = task
  BY DEF Report
<1>3. /\ telling \in Seq(Told) /\ ready \in Seq(Callback) /\ Told \subseteq Callback
      /\ Len(telling) \in Nat /\ Len(ready) \in Nat
  BY <1>1 DEF Types, Callback
<1>4. /\ telling' \in Seq(Told) /\ Head(telling) = telling[1] /\ 1 \in 1 .. Len(telling)
      /\ telling[1] \in Told
      /\ \A i \in 1 .. Len(telling') : i + 1 \in 1 .. Len(telling) /\ telling'[i] = telling[i + 1]
  BY <1>2, <1>3, Taken
<1>5. /\ ready' \in Seq(Callback) /\ Len(ready') = Len(ready) + 1
      /\ \A i \in 1 .. Len(ready) : ready'[i] = ready[i]
      /\ ready'[Len(ready) + 1] = telling[1]
  BY <1>2, <1>3, <1>4, Appended
<1>6. \A i \in 1 .. Len(ready') : \/ i \in 1 .. Len(ready) /\ ready'[i] = ready[i]
                                  \/ i = Len(ready) + 1 /\ ready'[i] = telling[1]
  BY <1>3, <1>5
<1>7. telling[1].kind # "wake"
  BY <1>4 DEF Told
<1>8. Types'
  BY <1>1, <1>2, <1>4, <1>5 DEF Types, nativeVars, Object, Call, Blurs
<1>9. TaskInv'
  BY <1>1, <1>2 DEF TaskInv, TaskOK, NumberOK, Running, nativeVars
<1>10. WakeInv'
  <2>1. \A i \in 1 .. Len(ready') : ready'[i].kind = "wake" =>
            i \in 1 .. Len(ready) /\ ready'[i] = ready[i]
    BY <1>6, <1>7
  <2> QED BY <1>1, <1>2, <2>1 DEF WakeInv
<1>11. OrderInv'
  <2>1. \A i \in 1 .. Len(queue') : i + 0 \in 1 .. Len(queue) /\ queue'[i] = queue[i + 0]
    BY <1>2
  <2>2. 0 \in 0 .. 1 /\ \A u \in Task : Mild(u)
    BY <1>2 DEF Mild
  <2> QED BY <1>1, <2>1, <2>2, MildOrders
<1>12. ItemInv'
  <2>1. \A i \in 1 .. Len(queue') : Expects(queue[i].by, queue[i].no)'
    BY <1>1, <1>2 DEF ItemInv, Expects
  <2>2. \A i \in 1 .. Len(ready') : IsDone(ready'[i]) => Expects(ready[i].by, ready[i].no)'
    BY <1>1, <1>2, <1>4, <1>6 DEF ItemInv, Expects
  <2>3. \A i \in 1 .. Len(telling') : IsDone(telling'[i]) => Expects(telling[i].by, telling[i].no)'
    <3> SUFFICES ASSUME NEW i \in 1 .. Len(telling'), IsDone(telling'[i])
                 PROVE  Expects(telling[i].by, telling[i].no)'
      OBVIOUS
    <3>1. i + 1 \in 1 .. Len(telling) /\ telling'[i] = telling[i + 1]
      BY <1>4
    <3>2. Expects(telling[i + 1].by, telling[i + 1].no)
      BY <1>1, <3>1 DEF ItemInv
    <3> QED BY <1>2, <3>1, <3>2 DEF Expects
  <2>4. \A i, k \in 1 .. Len(queue') : queue'[i].by = queue'[k].by => i = k
    BY <1>1, <1>2 DEF ItemInv
  <2>5. \A i, k \in 1 .. Len(ready') :
            IsDone(ready'[i]) /\ IsDone(ready'[k]) /\ ready'[i].by = ready'[k].by => i = k
    <3> SUFFICES ASSUME NEW i \in 1 .. Len(ready'), NEW k \in 1 .. Len(ready'),
                        IsDone(ready'[i]), IsDone(ready'[k]), ready'[i].by = ready'[k].by
                 PROVE  i = k
      OBVIOUS
    <3>1. CASE i \in 1 .. Len(ready) /\ k \in 1 .. Len(ready)
      BY <1>1, <1>5, <3>1 DEF ItemInv
    <3>2. \A n \in 1 .. Len(ready) : IsDone(ready[n]) /\ IsDone(telling[1]) => ready[n].by # telling[1].by
      BY <1>1, <1>4 DEF ItemInv
    <3> QED BY <1>6, <3>1, <3>2
  <2>6. \A i, k \in 1 .. Len(telling') :
            IsDone(telling'[i]) /\ IsDone(telling'[k]) /\ telling'[i].by = telling'[k].by => i = k
    <3> SUFFICES ASSUME NEW i \in 1 .. Len(telling'), NEW k \in 1 .. Len(telling'),
                        IsDone(telling'[i]), IsDone(telling'[k]), telling'[i].by = telling'[k].by
                 PROVE  i = k
      OBVIOUS
    <3>1. /\ i + 1 \in 1 .. Len(telling) /\ telling'[i] = telling[i + 1]
          /\ k + 1 \in 1 .. Len(telling) /\ telling'[k] = telling[k + 1]
      BY <1>4
    <3>2. i + 1 = k + 1
      BY <1>1, <3>1 DEF ItemInv
    <3> QED BY <3>2
  <2>7. \A i \in 1 .. Len(queue'), k \in 1 .. Len(ready') : IsDone(ready'[k]) => ready'[k].by # queue'[i].by
    BY <1>1, <1>2, <1>4, <1>6 DEF ItemInv
  <2>8. \A i \in 1 .. Len(queue'), k \in 1 .. Len(telling') :
            IsDone(telling'[k]) => telling'[k].by # queue'[i].by
    BY <1>1, <1>2, <1>4 DEF ItemInv
  <2>9. \A i \in 1 .. Len(ready'), k \in 1 .. Len(telling') :
            IsDone(ready'[i]) /\ IsDone(telling'[k]) => ready'[i].by # telling'[k].by
    <3> SUFFICES ASSUME NEW i \in 1 .. Len(ready'), NEW k \in 1 .. Len(telling'),
                        IsDone(ready'[i]), IsDone(telling'[k]), ready'[i].by = telling'[k].by
                 PROVE  FALSE
      OBVIOUS
    <3>1. k + 1 \in 1 .. Len(telling) /\ telling'[k] = telling[k + 1] /\ k + 1 # 1
      BY <1>4
    <3>2. CASE i \in 1 .. Len(ready) /\ ready'[i] = ready[i]
      BY <1>1, <3>1, <3>2 DEF ItemInv
    <3>3. CASE ready'[i] = telling[1]
      BY <1>1, <1>4, <3>1, <3>3 DEF ItemInv
    <3> QED BY <1>6, <3>2, <3>3
  <2> QED BY <2>1, <2>2, <2>3, <2>4, <2>5, <2>6, <2>7, <2>8, <2>9 DEF ItemInv, IsDone
<1>13. NewsInv'
  <2>1. \A e : NewsOK(e) => NewsOK(e)'
    BY <1>2 DEF NewsOK, nativeVars, PolicyTask
  <2>2. \A i \in 1 .. Len(ready') : ready'[i].kind = "event" => NewsOK(ready[i].ev)'
    <3> SUFFICES ASSUME NEW i \in 1 .. Len(ready'), ready'[i].kind = "event"
                 PROVE  NewsOK(ready[i].ev)'
      OBVIOUS
    <3>1. CASE i \in 1 .. Len(ready) /\ ready'[i] = ready[i]
      BY <1>1, <2>1, <3>1 DEF NewsInv, NewsOK
    <3>2. CASE ready'[i] = telling[1]
      BY <1>1, <1>4, <2>1, <3>2 DEF NewsInv, NewsOK
    <3> QED BY <1>6, <3>1, <3>2
  <2>3. \A i \in 1 .. Len(telling') : telling'[i].kind = "event" => NewsOK(telling[i].ev)'
    <3> SUFFICES ASSUME NEW i \in 1 .. Len(telling'), telling'[i].kind = "event"
                 PROVE  NewsOK(telling[i].ev)'
      OBVIOUS
    <3>1. i + 1 \in 1 .. Len(telling) /\ telling'[i] = telling[i + 1]
      BY <1>4
    <3>2. PICK e : e = telling[i + 1].ev
      OBVIOUS
    <3>3. NewsOK(e)
      BY <1>1, <3>1, <3>2 DEF NewsInv
    <3>4. NewsOK(e)'
      BY <2>1, <3>3
    <3> QED BY <3>1, <3>2, <3>4 DEF NewsOK
  <2>4. \A i, k \in 1 .. Len(ready') :
          /\ IsNews(ready'[i], {"refer"}) /\ IsNews(ready'[k], {"refer"})
          /\ ready'[i].ev.of = ready'[k].ev.of
          => i = k
    <3> SUFFICES ASSUME NEW i \in 1 .. Len(ready'), NEW k \in 1 .. Len(ready'),
                        IsNews(ready'[i], {"refer"}), IsNews(ready'[k], {"refer"}),
                        ready'[i].ev.of = ready'[k].ev.of
                 PROVE  i = k
      OBVIOUS
    <3>1. CASE i \in 1 .. Len(ready) /\ k \in 1 .. Len(ready)
      BY <1>1, <1>5, <3>1 DEF NewsInv
    <3>2. \A n \in 1 .. Len(ready) : IsNews(ready[n], {"refer"}) /\ IsNews(telling[1], {"refer"})
                => ready[n].ev.of # telling[1].ev.of
      BY <1>1, <1>4 DEF NewsInv
    <3> QED BY <1>6, <3>1, <3>2
  <2>5. \A i, k \in 1 .. Len(telling') :
          /\ IsNews(telling'[i], {"refer"}) /\ IsNews(telling'[k], {"refer"})
          /\ telling'[i].ev.of = telling'[k].ev.of
          => i = k
    <3> SUFFICES ASSUME NEW i \in 1 .. Len(telling'), NEW k \in 1 .. Len(telling'),
                        IsNews(telling'[i], {"refer"}), IsNews(telling'[k], {"refer"}),
                        telling'[i].ev.of = telling'[k].ev.of
                 PROVE  i = k
      OBVIOUS
    <3>1. /\ i + 1 \in 1 .. Len(telling) /\ telling'[i] = telling[i + 1]
          /\ k + 1 \in 1 .. Len(telling) /\ telling'[k] = telling[k + 1]
      BY <1>4
    <3>2. i + 1 = k + 1
      BY <1>1, <3>1 DEF NewsInv
    <3> QED BY <3>2
  <2>6. \A i \in 1 .. Len(ready'), k \in 1 .. Len(telling') :
          IsNews(ready'[i], {"refer"}) /\ IsNews(telling'[k], {"refer"}) => ready'[i].ev.of # telling'[k].ev.of
    <3> SUFFICES ASSUME NEW i \in 1 .. Len(ready'), NEW k \in 1 .. Len(telling'),
                        IsNews(ready'[i], {"refer"}), IsNews(telling'[k], {"refer"}),
                        ready'[i].ev.of = telling'[k].ev.of
                 PROVE  FALSE
      OBVIOUS
    <3>1. k + 1 \in 1 .. Len(telling) /\ telling'[k] = telling[k + 1] /\ k + 1 # 1
      BY <1>4
    <3>2. CASE i \in 1 .. Len(ready) /\ ready'[i] = ready[i]
      BY <1>1, <3>1, <3>2 DEF NewsInv
    <3>3. CASE ready'[i] = telling[1]
      BY <1>1, <1>4, <3>1, <3>3 DEF NewsInv
    <3> QED BY <1>6, <3>2, <3>3
  <2> QED BY <2>2, <2>3, <2>4, <2>5, <2>6 DEF NewsInv, IsNews
<1> QED BY <1>2, <1>3, <1>4, <1>5, <1>6, <1>8, <1>9, <1>10, <1>11, <1>12, <1>13 DEF Base

Handles ==
    \/ HandleGone \/ HandleRefused \/ HandleRefresh \/ HandleTransfer
    \/ HandleDecision \/ HandleDigit \/ HandleRegister \/ HandleUnregister

Kept == UNCHANGED <<ready, task, job, obj, app, registered, ops, news, due>>

OfferOf(q) == Event([ev |-> "offer", on |-> q.on, of |-> 0])

(* The re thread takes q from the queue, and answers it with r. *)
Serves(q, r) ==
    /\ queue # <<>> /\ q = Head(queue) /\ q = queue[1] /\ 1 \in 1 .. Len(queue)
    /\ Len(queue) \in Nat /\ queue' \in Seq(Order) /\ Len(queue') = Len(queue) - 1
    /\ \A i \in 1 .. Len(queue') : i + 1 \in 1 .. Len(queue) /\ queue'[i] = queue[i + 1]
    /\ telling = <<>>
    /\ \/ telling' = <<Done(q, r)>>
       \/ q.op \in Refresh /\ r = "ok" /\ telling' = <<OfferOf(q), Done(q, r)>>
    /\ stack' \in [Calls -> Call] /\ \A d \in Calls : stack'[d].live = stack[d].live
    /\ registrar' \in Registrar

LEMMA CommandOn ==
    ASSUME Base, queue # <<>>
    PROVE  /\ Head(queue) \in Order /\ Head(queue) = queue[1] /\ 1 \in 1 .. Len(queue)
           /\ Len(queue) \in Nat /\ Tail(queue) \in Seq(Order) /\ Len(Tail(queue)) = Len(queue) - 1
           /\ \A i \in 1 .. Len(Tail(queue)) : i + 1 \in 1 .. Len(queue) /\ Tail(queue)[i] = queue[i + 1]
           /\ OrderOK(Head(queue)) /\ Head(queue).by \in Task /\ Head(queue).on \in Where
           /\ Head(queue).arg \in BOOLEAN /\ Head(queue).no \in Nat /\ Head(queue).op \in Op
           /\ Head(queue).op \in CallCommand => Head(queue).on \in Calls
<1>1. Types /\ TaskInv /\ OrderInv /\ queue \in Seq(Order)
  BY DEF Base, Types
<1>2. /\ Head(queue) \in Order /\ Head(queue) = queue[1] /\ 1 \in 1 .. Len(queue)
      /\ Len(queue) \in Nat /\ Tail(queue) \in Seq(Order) /\ Len(Tail(queue)) = Len(queue) - 1
      /\ \A i \in 1 .. Len(Tail(queue)) : i + 1 \in 1 .. Len(queue) /\ Tail(queue)[i] = queue[i + 1]
  BY <1>1, Taken
<1>3. PICK q \in Order : q = Head(queue)
  BY <1>2
<1>4. OrderOK(q) /\ q.by \in Task /\ q.on \in Where /\ q.arg \in BOOLEAN /\ q.no \in Nat /\ q.op \in Op
  BY <1>1, <1>2, <1>3 DEF OrderInv, Order
<1>5. JobOK(job[q.by])
  BY <1>1, <1>4 DEF TaskInv, TaskOK
<1>6. q.op \in CallCommand => q.on \in Calls
  BY <1>4, <1>5 DEF OrderOK, JobOK, CallCommand, Refresh, Transferring, Registers
<1> QED BY <1>2, <1>3, <1>4, <1>6

LEMMA Calling ==
    ASSUME stack \in [Calls -> Call], app \in Settings
    PROVE  \A d \in Calls :
              /\ stack[d].live \in BOOLEAN
              /\ \A b, n \in BOOLEAN : [stack[d] EXCEPT !.held = b, !.denied = n] \in Call
              /\ \A b, n \in BOOLEAN : [stack[d] EXCEPT !.held = b, !.told = b, !.denied = n, !.busy = TRUE] \in Call
              /\ \A b \in BOOLEAN : [stack[d] EXCEPT !.key = b] \in Call
              /\ \A b \in BOOLEAN : [stack[d] EXCEPT !.busy = b] \in Call
              /\ \A u \in Task \cup {0} : [stack[d] EXCEPT !.refer = u] \in Call
              /\ \A n \in 0 .. app.news : [stack[d] EXCEPT !.asked = n] \in Call
              /\ Ended(stack[d]) \in Call
<1> SUFFICES ASSUME NEW d \in Calls
             PROVE  /\ stack[d].live \in BOOLEAN
                    /\ \A b, n \in BOOLEAN : [stack[d] EXCEPT !.held = b, !.denied = n] \in Call
                    /\ \A b, n \in BOOLEAN : [stack[d] EXCEPT !.held = b, !.told = b, !.denied = n, !.busy = TRUE] \in Call
                    /\ \A b \in BOOLEAN : [stack[d] EXCEPT !.key = b] \in Call
                    /\ \A b \in BOOLEAN : [stack[d] EXCEPT !.busy = b] \in Call
                    /\ \A u \in Task \cup {0} : [stack[d] EXCEPT !.refer = u] \in Call
                    /\ \A n \in 0 .. app.news : [stack[d] EXCEPT !.asked = n] \in Call
                    /\ Ended(stack[d]) \in Call
  OBVIOUS
<1>1. stack[d] \in Call
  OBVIOUS
<1>2. 0 \in 0 .. app.news
  BY RequestsAssumption
<1> QED BY <1>1, <1>2 DEF Call, Ended

(* What carrying out q, or refusing it, makes of a call and of the registrar. *)
CallAfter(q, r, d) ==
    /\ stack'[d].live = stack[d].live
    /\ d # q.on => stack'[d] = stack[d]
    /\ stack'[d].refer = IF q.op \in {"transfer", "replace"} /\ r = "ok" /\ d = q.on
                         THEN q.by ELSE stack[d].refer
    /\ stack'[d].key = IF q.op = "digit" /\ r = "ok" /\ d = q.on THEN q.arg ELSE stack[d].key
    /\ q.op \notin Refresh => stack'[d].held = stack[d].held /\ stack'[d].told = stack[d].told
    /\ q.op # "hold" => stack'[d].held = stack[d].held /\ stack'[d].denied = stack[d].denied
    /\ q.op = "hold" /\ r = "error" /\ d = q.on => stack'[d].denied
    /\ q.op = "hold" /\ r = "ok" /\ d = q.on => stack'[d].held = q.arg
    /\ telling' = <<Done(q, r)>> => stack'[d].told = stack[d].told
    /\ telling' = <<OfferOf(q), Done(q, r)>> /\ d = q.on => stack'[d].told = stack'[d].held
    /\ telling' = <<Done(q, r)>> /\ r = "ok" /\ q.op = "hold" /\ d = q.on =>
          stack[d].busy \/ stack[d].held = q.arg

Sent1(q) == Register(IF q.op = "register" THEN "on" ELSE "off", q.by)

RegistrarAfter(q, r) ==
    /\ q.op \in Registers /\ r = "ok" =>
          registrar' = [registrar EXCEPT !.air = Append(@, Sent1(q))]
    /\ ~(q.op \in Registers /\ r = "ok") => registrar' = registrar

Carries(q, r) ==
    /\ Serves(q, r) /\ RegistrarAfter(q, r) /\ (\A d \in Calls : CallAfter(q, r, d))
    /\ r = "stale" => q.op \in CallCommand /\ ~Live(q)
    /\ r # "stale" /\ q.op \in CallCommand => stack[q.on].live
    /\ q.op = "unregister" => r = "ok"

LEMMA HandleGoneStep ==
    ASSUME Base, HandleGone
    PROVE  \E q \in Order, r \in Completed : Carries(q, r)
<1>1. /\ stack \in [Calls -> Call] /\ app \in Settings
      /\ registrar \in Registrar
  BY DEF Base, Types
<1>2. queue # <<>> /\ queue' = Tail(queue) /\ Head(queue).op \in CallCommand /\ ~Live(Head(queue))
      /\ stack' = stack /\ registrar' = registrar /\ telling = <<>>
      /\ telling' = <<Done(Head(queue), "stale")>>
  BY DEF HandleGone, Command, Tells
<1>3. PICK q \in Order : q = Head(queue)
  BY <1>2, CommandOn
<1>4. Serves(q, "stale")
  BY <1>1, <1>2, <1>3, CommandOn DEF Serves
<1>5. telling' # <<OfferOf(q), Done(q, "stale")>>
  BY <1>2, <1>3
<1>6. \A d \in Calls : CallAfter(q, "stale", d)
  BY <1>2, <1>5 DEF CallAfter
<1>7. RegistrarAfter(q, "stale") /\ "stale" \in Completed /\ q.op # "unregister"
  BY <1>2, <1>3 DEF RegistrarAfter, Completed, CallCommand, Refresh
<1> QED BY <1>2, <1>3, <1>4, <1>6, <1>7 DEF Carries

LEMMA HandleRefusedStep ==
    ASSUME Base, HandleRefused
    PROVE  \E q \in Order, r \in Completed : Carries(q, r)
<1>1. /\ stack \in [Calls -> Call] /\ app \in Settings
      /\ registrar \in Registrar
  BY DEF Base, Types
<1>2. queue # <<>> /\ queue' = Tail(queue) /\ Head(queue).op \in CallCommand \cup {"register"}
      /\ registrar' = registrar /\ telling = <<>>
      /\ telling' = <<Done(Head(queue), "error")>>
      /\ (Head(queue).op # "register" => Live(Head(queue)))
  BY DEF HandleRefused, Command, Tells
<1>3. PICK q \in Order : q = Head(queue)
  BY <1>2, CommandOn
<1>4. q.op \in CallCommand => q.on \in Calls /\ stack[q.on].live
  BY <1>2, <1>3, CommandOn DEF Live, CallCommand, Refresh
<1>5. \/ /\ q.op = "hold"
         /\ \E h \in {stack[q.on].held, q.arg} :
                stack' = [stack EXCEPT ![q.on] = [stack[q.on] EXCEPT !.held = h, !.denied = TRUE]]
      \/ q.op = "accept" /\ stack' = [stack EXCEPT ![q.on].asked = 0]
      \/ q.op # "hold" /\ stack' = stack
  BY <1>2, <1>3, <1>1, CommandOn DEF HandleRefused, CallCommand, Refresh
<1>6. /\ stack' \in [Calls -> Call]
      /\ \A d \in Calls : /\ stack'[d].live = stack[d].live /\ stack'[d].refer = stack[d].refer
                          /\ stack'[d].key = stack[d].key /\ stack'[d].told = stack[d].told
                          /\ d # q.on => stack'[d] = stack[d]
                          /\ q.op # "hold" => stack'[d].held = stack[d].held /\ stack'[d].denied = stack[d].denied
                          /\ q.op = "hold" /\ d = q.on => stack'[d].denied
  <2>1. CASE q.op # "hold" /\ stack' = stack
    BY <1>1, <2>1
  <2>2. ASSUME q.op = "hold", NEW h \in {stack[q.on].held, q.arg},
               stack' = [stack EXCEPT ![q.on] = [stack[q.on] EXCEPT !.held = h, !.denied = TRUE]]
        PROVE  /\ stack' \in [Calls -> Call]
               /\ \A d \in Calls : /\ stack'[d].live = stack[d].live /\ stack'[d].refer = stack[d].refer
                                   /\ stack'[d].key = stack[d].key /\ stack'[d].told = stack[d].told
                                   /\ d # q.on => stack'[d] = stack[d]
                                   /\ d = q.on => stack'[d].denied
    <3>1. q.on \in Calls /\ q.arg \in BOOLEAN
      BY <1>3, <1>4, <2>2 DEF CallCommand, Refresh, Order
    <3>2. h \in BOOLEAN
      BY <1>1, <2>2, <3>1 DEF Call
    <3>3. [stack[q.on] EXCEPT !.held = h, !.denied = TRUE] \in Call
      BY <1>1, <3>1, <3>2, Calling
    <3> QED BY <1>1, <2>2, <3>1, <3>3 DEF Call
  <2>3. CASE q.op = "accept" /\ stack' = [stack EXCEPT ![q.on].asked = 0]
    <3>1. q.on \in Calls
      BY <1>4, <2>3 DEF CallCommand
    <3>2. 0 \in 0 .. app.news
      BY <1>1, RequestsAssumption
    <3>3. [stack[q.on] EXCEPT !.asked = 0] \in Call
      BY <1>1, <3>1, <3>2, Calling
    <3> QED BY <1>1, <2>3, <3>1, <3>3 DEF Call
  <2> QED BY <1>5, <2>1, <2>2, <2>3
<1>7. Serves(q, "error")
  BY <1>1, <1>2, <1>3, <1>6, CommandOn DEF Serves
<1>8. telling' # <<OfferOf(q), Done(q, "error")>>
  BY <1>2, <1>3
<1>9. \A d \in Calls : CallAfter(q, "error", d)
  BY <1>6, <1>8 DEF CallAfter, Refresh
<1>10. RegistrarAfter(q, "error") /\ "error" \in Completed /\ q.op # "unregister"
  BY <1>2, <1>3 DEF RegistrarAfter, Completed, CallCommand, Refresh
<1> QED BY <1>4, <1>7, <1>9, <1>10 DEF Carries

LEMMA HandleRefreshStep ==
    ASSUME Base, HandleRefresh
    PROVE  \E q \in Order, r \in Completed : Carries(q, r)
<1>1. /\ stack \in [Calls -> Call] /\ app \in Settings
      /\ registrar \in Registrar
  BY DEF Base, Types
<1>2. queue # <<>> /\ queue' = Tail(queue) /\ Head(queue).op \in Refresh
      /\ registrar' = registrar /\ telling = <<>> /\ Live(Head(queue))
  BY DEF HandleRefresh, Command, Tells
<1>3. PICK q \in Order : q = Head(queue)
  BY <1>2, CommandOn
<1>4. q.op \in Refresh /\ q.on \in Calls /\ stack[q.on].live /\ q.arg \in BOOLEAN
  BY <1>2, <1>3, CommandOn DEF Live, CallCommand
<1> DEFINE held == IF q.op = "hold" THEN q.arg ELSE stack[q.on].held
           denied == q.op # "hold" /\ stack[q.on].denied
           quiet == stack[q.on].busy \/ (q.op = "hold" /\ stack[q.on].held = held)
           still == [stack[q.on] EXCEPT !.held = held, !.denied = denied]
           offering == [stack[q.on] EXCEPT !.held = held, !.told = held, !.denied = denied, !.busy = TRUE]
<1>5. \/ /\ quiet /\ telling' = <<Done(q, "ok")>>
         /\ stack' = [stack EXCEPT ![q.on] = still]
      \/ /\ telling' = <<OfferOf(q), Done(q, "ok")>>
         /\ stack' = [stack EXCEPT ![q.on] = offering]
  BY <1>3 DEF HandleRefresh, Tells, OfferOf
<1>6. held \in BOOLEAN /\ denied \in BOOLEAN /\ (q.op # "hold" => held = stack[q.on].held) /\ (q.op = "hold" => held = q.arg)
      /\ (quiet /\ q.op = "hold" => stack[q.on].busy \/ stack[q.on].held = q.arg)
  BY <1>1, <1>4 DEF Call
<1>12. q.op # "hold" => denied = stack[q.on].denied
  BY <1>1, <1>4 DEF Call
<1>13. /\ still \in Call /\ still.held = held /\ still.denied = denied /\ still.told = stack[q.on].told
       /\ offering \in Call /\ offering.held = held /\ offering.denied = denied /\ offering.told = held
       /\ \A x \in {still, offering} : x.live = stack[q.on].live /\ x.refer = stack[q.on].refer
                                       /\ x.key = stack[q.on].key
  <2>1. stack[q.on] \in Call
    BY <1>1, <1>4
  <2>2. still \in Call /\ offering \in Call
    BY <1>1, <1>4, <1>6, Calling
  <2> HIDE DEF held, denied
  <2> QED BY <2>1, <2>2 DEF Call
<1> HIDE DEF held, denied, quiet, still, offering
<1>7. /\ stack' \in [Calls -> Call]
      /\ \A d \in Calls : /\ stack'[d].live = stack[d].live /\ stack'[d].refer = stack[d].refer
                          /\ stack'[d].key = stack[d].key
                          /\ d # q.on => stack'[d] = stack[d]
                          /\ d = q.on => stack'[d].held = held /\ stack'[d].denied = denied
                          /\ telling' = <<Done(q, "ok")>> => stack'[d].told = stack[d].told
                          /\ telling' = <<OfferOf(q), Done(q, "ok")>> /\ d = q.on => stack'[d].told = held
  <2>1. CASE telling' = <<Done(q, "ok")>> /\ stack' = [stack EXCEPT ![q.on] = still]
    <3>1. telling' # <<OfferOf(q), Done(q, "ok")>>
      BY <2>1
    <3> QED BY <1>1, <1>4, <1>13, <2>1, <3>1
  <2>2. CASE telling' = <<OfferOf(q), Done(q, "ok")>> /\ stack' = [stack EXCEPT ![q.on] = offering]
    <3>1. telling' # <<Done(q, "ok")>>
      BY <2>2
    <3> QED BY <1>1, <1>4, <1>13, <2>2, <3>1
  <2> QED BY <1>5, <2>1, <2>2
<1>8. Serves(q, "ok")
  BY <1>1, <1>2, <1>3, <1>4, <1>5, <1>7, CommandOn DEF Serves
<1>9. telling' = <<Done(q, "ok")>> /\ q.op = "hold" => stack[q.on].busy \/ stack[q.on].held = q.arg
  <2>1. <<Done(q, "ok")>> # <<OfferOf(q), Done(q, "ok")>>
    OBVIOUS
  <2> QED BY <1>5, <1>6, <2>1
<1>10. \A d \in Calls : CallAfter(q, "ok", d)
  BY <1>4, <1>6, <1>7, <1>9, <1>12 DEF CallAfter, Refresh
<1>11. RegistrarAfter(q, "ok") /\ "ok" \in Completed /\ q.op # "unregister"
  BY <1>2, <1>4 DEF RegistrarAfter, Completed, Refresh, Registers
<1> QED BY <1>4, <1>8, <1>10, <1>11 DEF Carries

LEMMA HandleTransferStep ==
    ASSUME Base, HandleTransfer
    PROVE  \E q \in Order, r \in Completed : Carries(q, r)
<1>1. /\ stack \in [Calls -> Call] /\ app \in Settings
      /\ registrar \in Registrar
  BY DEF Base, Types
<1>2. queue # <<>> /\ queue' = Tail(queue) /\ Head(queue).op \in {"transfer", "replace"}
      /\ registrar' = registrar /\ telling = <<>> /\ Live(Head(queue))
      /\ telling' = <<Done(Head(queue), "ok")>>
      /\ stack' = [stack EXCEPT ![Head(queue).on].refer = Head(queue).by]
  BY DEF HandleTransfer, Command, Tells
<1>3. PICK q \in Order : q = Head(queue)
  BY <1>2, CommandOn
<1>4. q.op \in {"transfer", "replace"} /\ q.on \in Calls /\ stack[q.on].live /\ q.by \in Task
  BY <1>2, <1>3, CommandOn DEF Live, CallCommand
<1>5. [stack[q.on] EXCEPT !.refer = q.by] \in Call
  BY <1>1, <1>4, Calling
<1>6. /\ stack' \in [Calls -> Call]
      /\ \A d \in Calls : /\ stack'[d].live = stack[d].live /\ stack'[d].key = stack[d].key
                          /\ stack'[d].told = stack[d].told /\ stack'[d].held = stack[d].held
                          /\ stack'[d].denied = stack[d].denied
                          /\ d # q.on => stack'[d] = stack[d]
                          /\ d = q.on => stack'[d].refer = q.by
  BY <1>1, <1>2, <1>3, <1>4, <1>5 DEF Call
<1>7. Serves(q, "ok")
  BY <1>1, <1>2, <1>3, <1>6, CommandOn DEF Serves
<1>8. telling' # <<OfferOf(q), Done(q, "ok")>>
  BY <1>2, <1>3
<1>9. \A d \in Calls : CallAfter(q, "ok", d)
  BY <1>4, <1>6, <1>8 DEF CallAfter, Refresh
<1>10. RegistrarAfter(q, "ok") /\ "ok" \in Completed /\ q.op # "unregister"
  BY <1>2, <1>3 DEF RegistrarAfter, Completed, Registers
<1> QED BY <1>4, <1>7, <1>9, <1>10 DEF Carries

LEMMA HandleDecisionStep ==
    ASSUME Base, HandleDecision
    PROVE  \E q \in Order, r \in Completed : Carries(q, r)
<1>1. /\ stack \in [Calls -> Call] /\ app \in Settings
      /\ registrar \in Registrar
  BY DEF Base, Types
<1>2. queue # <<>> /\ queue' = Tail(queue) /\ Head(queue).op \in {"accept", "reject"}
      /\ registrar' = registrar /\ telling = <<>> /\ Live(Head(queue))
      /\ telling' = <<Done(Head(queue), "ok")>>
      /\ (stack' = [stack EXCEPT ![Head(queue).on].asked = 0] \/ stack' = stack)
  BY DEF HandleDecision, Command, Tells
<1>3. PICK q \in Order : q = Head(queue)
  BY <1>2, CommandOn
<1>4. q.op \in {"accept", "reject"} /\ q.on \in Calls /\ stack[q.on].live
  BY <1>2, <1>3, CommandOn DEF Live, CallCommand
<1>5. [stack[q.on] EXCEPT !.asked = 0] \in Call
  <2>1. 0 \in 0 .. app.news
    BY <1>1, RequestsAssumption
  <2> QED BY <1>1, <1>4, <2>1, Calling
<1>6. /\ stack' \in [Calls -> Call]
      /\ \A d \in Calls : /\ stack'[d].live = stack[d].live /\ stack'[d].key = stack[d].key
                          /\ stack'[d].told = stack[d].told /\ stack'[d].held = stack[d].held
                          /\ stack'[d].denied = stack[d].denied
                          /\ d # q.on => stack'[d] = stack[d]
                          /\ stack'[d].refer = stack[d].refer
  <2>1. CASE stack' = stack
    BY <1>1, <2>1
  <2>2. CASE stack' = [stack EXCEPT ![q.on].asked = 0]
    BY <1>1, <1>4, <1>5, <2>2 DEF Call
  <2> QED BY <1>2, <1>3, <2>1, <2>2
<1>7. Serves(q, "ok")
  BY <1>1, <1>2, <1>3, <1>6, CommandOn DEF Serves
<1>8. telling' # <<OfferOf(q), Done(q, "ok")>>
  BY <1>2, <1>3
<1>9. \A d \in Calls : CallAfter(q, "ok", d)
  BY <1>4, <1>6, <1>8 DEF CallAfter, Refresh
<1>10. RegistrarAfter(q, "ok") /\ "ok" \in Completed /\ q.op # "unregister"
  BY <1>2, <1>3 DEF RegistrarAfter, Completed, Registers
<1> QED BY <1>4, <1>7, <1>9, <1>10 DEF Carries

LEMMA HandleDigitStep ==
    ASSUME Base, HandleDigit
    PROVE  \E q \in Order, r \in Completed : Carries(q, r)
<1>1. /\ stack \in [Calls -> Call] /\ app \in Settings
      /\ registrar \in Registrar
  BY DEF Base, Types
<1>2. queue # <<>> /\ queue' = Tail(queue) /\ Head(queue).op = "digit"
      /\ registrar' = registrar /\ telling = <<>> /\ Live(Head(queue))
      /\ telling' = <<Done(Head(queue), "ok")>>
      /\ stack' = [stack EXCEPT ![Head(queue).on].key = Head(queue).arg]
  BY DEF HandleDigit, Command, Tells
<1>3. PICK q \in Order : q = Head(queue)
  BY <1>2, CommandOn
<1>4. q.op = "digit" /\ q.on \in Calls /\ stack[q.on].live /\ q.arg \in BOOLEAN
  BY <1>2, <1>3, CommandOn DEF Live, CallCommand
<1>5. [stack[q.on] EXCEPT !.key = q.arg] \in Call
  BY <1>1, <1>4, Calling
<1>6. /\ stack' \in [Calls -> Call]
      /\ \A d \in Calls : /\ stack'[d].live = stack[d].live
                          /\ stack'[d].told = stack[d].told /\ stack'[d].held = stack[d].held
                          /\ stack'[d].denied = stack[d].denied
                          /\ d # q.on => stack'[d] = stack[d]
                          /\ d = q.on => stack'[d].key = q.arg
                          /\ stack'[d].refer = stack[d].refer
  BY <1>1, <1>2, <1>3, <1>4, <1>5 DEF Call
<1>7. Serves(q, "ok")
  BY <1>1, <1>2, <1>3, <1>6, CommandOn DEF Serves
<1>8. telling' # <<OfferOf(q), Done(q, "ok")>>
  BY <1>2, <1>3
<1>9. \A d \in Calls : CallAfter(q, "ok", d)
  BY <1>4, <1>6, <1>8 DEF CallAfter, Refresh
<1>10. RegistrarAfter(q, "ok") /\ "ok" \in Completed /\ q.op # "unregister"
  BY <1>2, <1>3 DEF RegistrarAfter, Completed, Registers
<1> QED BY <1>4, <1>7, <1>9, <1>10 DEF Carries

LEMMA HandleRegistersStep ==
    ASSUME Base, HandleRegister \/ HandleUnregister
    PROVE  \E q \in Order, r \in Completed : Carries(q, r)
<1>1. /\ stack \in [Calls -> Call] /\ app \in Settings
      /\ registrar \in Registrar
  BY DEF Base, Types
<1>2. queue # <<>> /\ queue' = Tail(queue) /\ Head(queue).op \in Registers
      /\ stack' = stack /\ telling = <<>>
      /\ telling' = <<Done(Head(queue), "ok")>>
      /\ registrar' = [registrar EXCEPT !.air = Append(@, Sent1(Head(queue)))]
  BY DEF HandleRegister, HandleUnregister, Command, Tells, Registers, Sent1
<1>3. PICK q \in Order : q = Head(queue)
  BY <1>2, CommandOn
<1>4. registrar' \in Registrar
  <2>1. registrar.air \in Seq(Sending) /\ Sent1(q) \in Sending
    BY <1>1 DEF Registrar, Sending, Sent1, Register, Order
  <2>2. Append(registrar.air, Sent1(q)) \in Seq(Sending)
    BY <2>1
  <2> QED BY <1>1, <1>2, <1>3, <2>2 DEF Registrar
<1>5. Serves(q, "ok")
  BY <1>1, <1>2, <1>3, <1>4, CommandOn DEF Serves
<1>6. telling' # <<OfferOf(q), Done(q, "ok")>>
  BY <1>2, <1>3
<1>7. \A d \in Calls : CallAfter(q, "ok", d)
  BY <1>2, <1>3, <1>6 DEF CallAfter, Refresh, Registers
<1>8. RegistrarAfter(q, "ok") /\ "ok" \in Completed /\ q.op \notin CallCommand
  BY <1>2, <1>3 DEF RegistrarAfter, Completed, Registers, CallCommand, Refresh
<1> QED BY <1>5, <1>7, <1>8 DEF Carries

LEMMA HandlesCarry ==
    ASSUME Base, Handles
    PROVE  \E q \in Order, r \in Completed : Carries(q, r)
BY HandleGoneStep, HandleRefusedStep, HandleRefreshStep, HandleTransferStep, HandleDecisionStep,
   HandleDigitStep, HandleRegistersStep DEF Handles

(* What there is to tell then: the completion of q, last, and at most the   *)
(* offer before it.                                                         *)
LEMMA TellsDone ==
    ASSUME NEW q \in Order, NEW r \in Completed, Serves(q, r)
    PROVE  /\ telling' \in Seq(Told) /\ Len(telling') \in 1 .. 2
           /\ IsDone(telling'[Len(telling')]) /\ telling'[Len(telling')] = Done(q, r)
           /\ \A i \in 1 .. Len(telling') :
                \/ i = Len(telling') /\ telling'[i] = Done(q, r) /\ ~(telling'[i].kind = "event")
                \/ /\ i = 1 /\ Len(telling') = 2 /\ telling'[i] = OfferOf(q) /\ ~IsDone(telling'[i])
                   /\ q.op \in Refresh /\ r = "ok" /\ telling' = <<OfferOf(q), Done(q, r)>>
<1>1. Done(q, r) \in Told /\ IsDone(Done(q, r)) /\ Done(q, r).kind # "event"
  BY DEF Done, Told, Order, IsDone, Completed
<1>2. OfferOf(q) \in Told /\ ~IsDone(OfferOf(q))
  BY DEF OfferOf, Event, Told, Order, IsDone, News
<1>3. CASE telling' = <<Done(q, r)>>
  BY <1>1, <1>3
<1>4. CASE q.op \in Refresh /\ r = "ok" /\ telling' = <<OfferOf(q), Done(q, r)>>
  BY <1>1, <1>2, <1>4
<1> QED BY <1>3, <1>4 DEF Serves

LEMMA HandlesBase ==
    ASSUME Base, Kept, Blurs, NEW q \in Order, NEW r \in Completed, Carries(q, r)
    PROVE  Base'
<1>1. Types /\ TaskInv /\ WakeInv /\ ItemInv /\ OrderInv /\ NewsInv
  BY DEF Base
<1>2. Serves(q, r)
  BY DEF Carries
<1>3. /\ q = queue[1] /\ 1 \in 1 .. Len(queue) /\ queue' \in Seq(Order) /\ telling = <<>>
      /\ \A i \in 1 .. Len(queue') : i + 1 \in 1 .. Len(queue) /\ queue'[i] = queue[i + 1]
      /\ Len(queue) \in Nat /\ Len(queue') = Len(queue) - 1
      /\ stack' \in [Calls -> Call] /\ \A d \in Calls : stack'[d].live = stack[d].live
      /\ registrar' \in Registrar
  BY <1>2 DEF Serves
<1>4. /\ telling' \in Seq(Told) /\ Len(telling') \in 1 .. 2
      /\ \A i \in 1 .. Len(telling') :
                \/ i = Len(telling') /\ telling'[i] = Done(q, r) /\ ~(telling'[i].kind = "event")
                \/ i = 1 /\ telling'[i] = OfferOf(q) /\ ~IsDone(telling'[i]) /\ q.op \in Refresh
  BY <1>2, TellsDone
<1>5. Types'
  <2>1. murky' \subseteq Calls
    BY <1>1 DEF Types, Blurs
  <2> QED BY <1>1, <1>3, <1>4, <2>1 DEF Types, Kept, Call, Object
<1>6. TaskInv'
  BY <1>1 DEF TaskInv, TaskOK, NumberOK, Running, Kept
<1>7. WakeInv'
  BY <1>1 DEF WakeInv, Kept
<1>8. OrderInv'
  <2>1. 1 \in 0 .. 1 /\ \A u \in Task : Mild(u) \/ task[u].at = "idle"
    BY DEF Mild, Kept
  <2>2. \A i \in 1 .. Len(queue') : i + 1 \in 1 .. Len(queue) /\ queue'[i] = queue[i + 1]
    BY <1>3
  <2> QED BY <1>1, <2>1, <2>2, MildOrders
<1>9. ready' = ready /\ task' = task /\ job' = job
  BY DEF Kept
<1>10. q.by \in Task /\ q.no \in Nat /\ Expects(q.by, q.no)
  BY <1>1, <1>3 DEF ItemInv, Order
<1>11. \A i \in 1 .. Len(telling') : IsDone(telling'[i]) =>
            i = Len(telling') /\ telling'[i].by = q.by /\ telling'[i].no = q.no
  BY <1>4 DEF Done
<1>12. ItemInv'
  <2>1. \A i \in 1 .. Len(queue') : Expects(queue[i].by, queue[i].no)'
    <3> SUFFICES ASSUME NEW i \in 1 .. Len(queue')
                 PROVE  Expects(queue[i].by, queue[i].no)'
      OBVIOUS
    <3>1. i + 1 \in 1 .. Len(queue) /\ queue'[i] = queue[i + 1]
      BY <1>3
    <3>2. Expects(queue[i + 1].by, queue[i + 1].no)
      BY <1>1, <3>1 DEF ItemInv
    <3> QED BY <1>9, <3>1, <3>2 DEF Expects
  <2>2. \A i \in 1 .. Len(ready') : IsDone(ready'[i]) => Expects(ready[i].by, ready[i].no)'
    BY <1>1, <1>9 DEF ItemInv, Expects
  <2>3. \A i \in 1 .. Len(telling') : IsDone(telling'[i]) => Expects(telling[i].by, telling[i].no)'
    BY <1>9, <1>10, <1>11 DEF Expects
  <2>4. \A i, k \in 1 .. Len(queue') : queue'[i].by = queue'[k].by => i = k
    <3> SUFFICES ASSUME NEW i \in 1 .. Len(queue'), NEW k \in 1 .. Len(queue'), queue'[i].by = queue'[k].by
                 PROVE  i = k
      OBVIOUS
    <3>1. /\ i + 1 \in 1 .. Len(queue) /\ queue'[i] = queue[i + 1]
          /\ k + 1 \in 1 .. Len(queue) /\ queue'[k] = queue[k + 1]
      BY <1>3
    <3>2. i + 1 = k + 1
      BY <1>1, <3>1 DEF ItemInv
    <3> QED BY <3>2
  <2>5. \A i, k \in 1 .. Len(ready') :
            IsDone(ready'[i]) /\ IsDone(ready'[k]) /\ ready'[i].by = ready'[k].by => i = k
    BY <1>1, <1>9 DEF ItemInv
  <2>6. \A i, k \in 1 .. Len(telling') :
            IsDone(telling'[i]) /\ IsDone(telling'[k]) /\ telling'[i].by = telling'[k].by => i = k
    BY <1>11
  <2>7. \A i \in 1 .. Len(queue'), k \in 1 .. Len(ready') : IsDone(ready'[k]) => ready'[k].by # queue'[i].by
    <3> SUFFICES ASSUME NEW i \in 1 .. Len(queue'), NEW k \in 1 .. Len(ready'), IsDone(ready'[k])
                 PROVE  ready'[k].by # queue'[i].by
      OBVIOUS
    <3>1. i + 1 \in 1 .. Len(queue) /\ queue'[i] = queue[i + 1]
      BY <1>3
    <3> QED BY <1>1, <1>9, <3>1 DEF ItemInv
  <2>8. \A i \in 1 .. Len(queue'), k \in 1 .. Len(telling') :
            IsDone(telling'[k]) => telling'[k].by # queue'[i].by
    <3> SUFFICES ASSUME NEW i \in 1 .. Len(queue'), NEW k \in 1 .. Len(telling'), IsDone(telling'[k]),
                        telling'[k].by = queue'[i].by
                 PROVE  FALSE
      OBVIOUS
    <3>1. i + 1 \in 1 .. Len(queue) /\ queue'[i] = queue[i + 1] /\ i + 1 # 1
      BY <1>3
    <3>2. queue[i + 1].by = queue[1].by
      BY <1>3, <1>11, <3>1
    <3>3. i + 1 = 1
      BY <1>1, <1>3, <3>1, <3>2 DEF ItemInv
    <3> QED BY <3>1, <3>3
  <2>9. \A i \in 1 .. Len(ready'), k \in 1 .. Len(telling') :
            IsDone(ready'[i]) /\ IsDone(telling'[k]) => ready'[i].by # telling'[k].by
    <3>1. \A i \in 1 .. Len(ready) : IsDone(ready[i]) => ready[i].by # queue[1].by
      BY <1>1, <1>3 DEF ItemInv
    <3> QED BY <1>3, <1>9, <1>11, <3>1
  <2> QED BY <2>1, <2>2, <2>3, <2>4, <2>5, <2>6, <2>7, <2>8, <2>9 DEF ItemInv, IsDone
<1>13. NewsInv'
  <2>1. \A e \in News : NewsOK(e) => NewsOK(e)'
    BY <1>3 DEF NewsOK, Kept, PolicyTask
  <2>2. \A i \in 1 .. Len(ready') : ready'[i].kind = "event" => NewsOK(ready[i].ev)'
    <3> SUFFICES ASSUME NEW i \in 1 .. Len(ready), ready[i].kind = "event"
                 PROVE  NewsOK(ready[i].ev)'
      BY <1>9
    <3>1. PICK e \in News : e = ready[i].ev
      <4>1. ready[i] \in Callback
        BY <1>1 DEF Types
      <4> QED BY <4>1 DEF Callback, Told
    <3>2. NewsOK(e)'
      BY <1>1, <2>1, <3>1 DEF NewsInv
    <3> QED BY <1>9, <3>1, <3>2
  <2>3. \A i \in 1 .. Len(telling') : telling'[i].kind = "event" => telling'[i] = OfferOf(q) /\ q.op \in Refresh
    BY <1>4
  <2>4. q.op \in Refresh => OfferOf(q).ev.ev = "offer" /\ OfferOf(q).ev.of = 0 /\ q.on \in Calls
    BY <1>1, <1>3 DEF OrderInv, OrderOK, OfferOf, Event
  <2>5. \A i \in 1 .. Len(telling') : telling'[i].kind = "event" => NewsOK(telling[i].ev)'
    <3> SUFFICES ASSUME NEW i \in 1 .. Len(telling'), telling'[i].kind = "event"
                 PROVE  NewsOK(telling[i].ev)'
      OBVIOUS
    <3>1. telling'[i].ev.ev = "offer" /\ telling'[i].ev.of = 0 /\ telling'[i].ev.on = q.on /\ q.on \in Calls
      BY <2>3, <2>4 DEF OfferOf, Event
    <3> QED BY <3>1 DEF NewsOK
  <2>6. \A i \in 1 .. Len(telling') : ~IsNews(telling'[i], {"refer"})
    BY <2>3, <2>4 DEF IsNews
  <2>7. \A i, k \in 1 .. Len(ready') :
          IsNews(ready'[i], {"refer"}) /\ IsNews(ready'[k], {"refer"}) /\ ready'[i].ev.of = ready'[k].ev.of
          => i = k
    BY <1>1, <1>9 DEF NewsInv
  <2> QED BY <2>2, <2>5, <2>6, <2>7 DEF NewsInv, IsNews
<1> QED BY <1>5, <1>6, <1>7, <1>8, <1>12, <1>13 DEF Base

NetworkKept == UNCHANGED <<queue, ready, task, job, obj, app, registered, ops, due>>

(* What the far ends and the registrar leave of the stack's side, *)
NetworkStack ==
    /\ stack' \in [Calls -> Call]
    /\ \A d \in Calls :
          /\ stack'[d].held = stack[d].held /\ stack'[d].told = stack[d].told
          /\ stack'[d].denied = stack[d].denied
          /\ stack'[d].live => stack[d].live
          /\ stack'[d].key => stack[d].key /\ stack'[d].live = stack[d].live
          /\ stack'[d].refer \in {stack[d].refer, 0}
    /\ registrar' \in Registrar
    /\ news' \in 0 .. app.news /\ news' \in {news, news + 1}
    /\ \A t \in Task : Gone(t) => Gone(t)'

(* and what they report. *)
NetworkTells(e) ==
    /\ telling = <<>> /\ telling' = <<Event(e)>>
    /\ e.ev # "offer" /\ (e.ev \in {"failed", "refer", "closed", "transferred"} => e.on \in Calls)
    /\ e.ev = "refer" => e.of = news + 1 /\ news' = news + 1
    /\ e.ev = "failed" => e.of \in Task \cup {0}
    /\ e.ev = "transferred" => e.of \in Task /\ ~stack'[e.on].live
    /\ e.ev = "closed" => e.of = 0
    /\ e.ev \in {"regok", "regfail"} => e.of \in Task \cup {0}
    /\ e.ev \in Outcomes /\ e.of # 0 => stack[e.on].refer = e.of /\ stack'[e.on].refer = 0

Reporting == \E e \in News : NetworkTells(e)

(* One call's side of the stack changes. *)
LEMMA OneCall ==
    ASSUME Types, NEW c \in Calls, NEW s \in Call, stack' = [stack EXCEPT ![c] = s],
           registrar' = registrar, news' \in 0 .. app.news, news' \in {news, news + 1},
           s.held = stack[c].held, s.told = stack[c].told, s.denied = stack[c].denied, s.live => stack[c].live,
           s.key => stack[c].key /\ s.live = stack[c].live, s.refer \in {stack[c].refer, 0}
    PROVE  NetworkStack /\ stack'[c] = s /\ \A d \in Calls : d # c => stack'[d] = stack[d]
<1>1. stack \in [Calls -> Call]
      /\ registrar \in Registrar
  BY DEF Types
<1>2. stack' \in [Calls -> Call] /\ stack'[c] = s /\ \A d \in Calls : d # c => stack'[d] = stack[d]
  BY <1>1
<1>3. ASSUME NEW d \in Calls
      PROVE  /\ stack'[d].held = stack[d].held /\ stack'[d].told = stack[d].told
             /\ stack'[d].denied = stack[d].denied /\ (stack'[d].live => stack[d].live)
             /\ stack'[d].key => stack[d].key /\ stack'[d].live = stack[d].live
             /\ stack'[d].refer \in {stack[d].refer, 0}
  <2>1. CASE d = c
    BY <1>2, <2>1
  <2>2. CASE d # c
    BY <1>2, <2>2
  <2> QED BY <2>1, <2>2
<1>4. \A t \in Task : Gone(t) => Gone(t)'
  BY DEF Gone
<1> QED BY <1>1, <1>2, <1>3, <1>4 DEF NetworkStack

LEMMA EndedIs ==
    ASSUME NEW s \in Call
    PROVE  /\ Ended(s).held = s.held /\ Ended(s).told = s.told /\ Ended(s).denied = s.denied /\ ~Ended(s).live /\ ~Ended(s).key
           /\ Ended(s).refer = 0
BY DEF Ended, Call

LEMMA Answering ==
    ASSUME Base, NEW c \in Calls, FarEnd(c) \/ PeerRefresh(c) \/ RefreshEnds(c) \/ RequestFails(c)
    PROVE  NetworkStack /\ (telling' = telling \/ Reporting)
<1>1. /\ Types /\ stack \in [Calls -> Call] /\ stack[c] \in Call /\ app \in Settings
      /\ news \in 0 .. app.news /\ app.news \in Nat
  BY RequestsAssumption DEF Base, Types
<1>2. (Unasked => news' \in 0 .. app.news /\ news' \in {news, news + 1})
      /\ (news' = news => news' \in 0 .. app.news /\ news' \in {news, news + 1})
  BY <1>1 DEF Unasked
<1>3. CASE FarEnd(c)
  <2>1. Ended(stack[c]) \in Call /\ stack' = [stack EXCEPT ![c] = Ended(stack[c])]
    BY <1>1, <1>3, Calling DEF FarEnd
  <2>2. NetworkStack
    BY <1>1, <1>2, <1>3, <2>1, EndedIs, OneCall DEF FarEnd
  <2> DEFINE e == [ev |-> "closed", on |-> c, of |-> 0]
  <2>3. e \in News /\ e.ev = "closed" /\ e.of = 0 /\ e.on = c
    BY DEF News, Where
  <2>4. telling = <<>> /\ telling' = <<Event(e)>>
    BY <1>3 DEF FarEnd, Reports, Tells
  <2> HIDE DEF e
  <2>5. NetworkTells(e)
    BY <2>3, <2>4 DEF NetworkTells, Outcomes
  <2> QED BY <2>2, <2>3, <2>5 DEF Reporting
<1>4. CASE PeerRefresh(c)
  <2> DEFINE s == [stack[c] EXCEPT !.busy = TRUE]
  <2>1. s \in Call /\ stack' = [stack EXCEPT ![c] = s]
    BY <1>1, <1>4, Calling DEF PeerRefresh
  <2>2. /\ s.held = stack[c].held /\ s.told = stack[c].told /\ s.denied = stack[c].denied /\ s.live = stack[c].live
        /\ s.key = stack[c].key /\ s.refer = stack[c].refer
    BY <1>1 DEF Call
  <2> HIDE DEF s
  <2> QED BY <1>1, <1>2, <1>4, <2>1, <2>2, OneCall DEF PeerRefresh
<1>5. CASE RefreshEnds(c)
  <2> DEFINE s == [stack[c] EXCEPT !.busy = FALSE]
  <2>1. s \in Call /\ stack' = [stack EXCEPT ![c] = s]
    BY <1>1, <1>5, Calling DEF RefreshEnds
  <2>2. /\ s.held = stack[c].held /\ s.told = stack[c].told /\ s.denied = stack[c].denied /\ s.live = stack[c].live
        /\ s.key = stack[c].key /\ s.refer = stack[c].refer
    BY <1>1 DEF Call
  <2> HIDE DEF s
  <2> QED BY <1>1, <1>2, <1>5, <2>1, <2>2, OneCall DEF RefreshEnds
<1>6. CASE RequestFails(c)
  <2> DEFINE s == [stack[c] EXCEPT !.asked = 0]
             e == [ev |-> "failed", on |-> c, of |-> 0]
  <2>1. s \in Call /\ stack' = [stack EXCEPT ![c] = s]
    <3>1. 0 \in 0 .. app.news
      BY <1>1
    <3> QED BY <1>1, <1>6, <3>1, Calling DEF RequestFails
  <2>2. /\ s.held = stack[c].held /\ s.told = stack[c].told /\ s.denied = stack[c].denied /\ s.live = stack[c].live
        /\ s.key = stack[c].key /\ s.refer = stack[c].refer
    BY <1>1 DEF Call
  <2>3. e \in News /\ e.ev = "failed" /\ e.of = 0 /\ e.on = c
    BY DEF News, Where
  <2>4. telling = <<>> /\ telling' = <<Event(e)>> /\ news' = news /\ registrar' = registrar
    BY <1>6 DEF RequestFails, Reports, Tells
  <2> HIDE DEF s, e
  <2>5. NetworkStack
    BY <1>1, <1>2, <2>1, <2>2, <2>4, OneCall
  <2>6. NetworkTells(e)
    BY <2>3, <2>4 DEF NetworkTells
  <2> QED BY <2>3, <2>5, <2>6 DEF Reporting
<1> QED BY <1>3, <1>4, <1>5, <1>6

LEMMA Referrals ==
    ASSUME Base, NEW c \in Calls, ReferArrives(c) \/ ReferFails(c) \/ ReferSucceeds(c)
    PROVE  NetworkStack /\ Reporting
<1>1. /\ Types /\ stack \in [Calls -> Call] /\ stack[c] \in Call /\ app \in Settings
      /\ news \in 0 .. app.news /\ app.news \in Nat
  BY RequestsAssumption DEF Base, Types
<1>2. (Unasked => news' \in 0 .. app.news /\ news' \in {news, news + 1} /\ news' = news + 1 /\ news' \in Nat)
      /\ (news' = news => news' \in 0 .. app.news /\ news' \in {news, news + 1})
  BY <1>1 DEF Unasked
<1>3. CASE ReferArrives(c)
  <2>0. Unasked /\ registrar' = registrar
    BY <1>3 DEF ReferArrives
  <2> DEFINE s == [stack[c] EXCEPT !.asked = news']
             e == [ev |-> "refer", on |-> c, of |-> news']
  <2>1. s \in Call /\ stack' = [stack EXCEPT ![c] = s]
    BY <1>1, <1>2, <1>3, <2>0, Calling DEF ReferArrives
  <2>2. /\ s.held = stack[c].held /\ s.told = stack[c].told /\ s.denied = stack[c].denied /\ s.live = stack[c].live
        /\ s.key = stack[c].key /\ s.refer = stack[c].refer
    BY <1>1 DEF Call
  <2>3. e \in News /\ e.ev = "refer" /\ e.of = news + 1 /\ e.on = c
    BY <1>2, <2>0 DEF News, Where
  <2>4. telling = <<>> /\ telling' = <<Event(e)>>
    BY <1>3 DEF ReferArrives, Reports, Tells
  <2> HIDE DEF s, e
  <2>5. NetworkStack
    BY <1>1, <1>2, <2>0, <2>1, <2>2, OneCall
  <2>6. NetworkTells(e)
    BY <1>2, <2>0, <2>3, <2>4 DEF NetworkTells, Outcomes
  <2> QED BY <2>3, <2>5, <2>6 DEF Reporting
<1>4. CASE ReferFails(c)
  <2> DEFINE s == [stack[c] EXCEPT !.refer = 0]
             e == [ev |-> "failed", on |-> c, of |-> stack[c].refer]
  <2>0. stack[c].refer \in Task
    BY <1>1, <1>4 DEF ReferFails, Call
  <2>1. s \in Call /\ stack' = [stack EXCEPT ![c] = s]
    BY <1>1, <1>4, Calling DEF ReferFails
  <2>2. /\ s.held = stack[c].held /\ s.told = stack[c].told /\ s.denied = stack[c].denied /\ s.live = stack[c].live
        /\ s.key = stack[c].key /\ s.refer = 0
    BY <1>1 DEF Call
  <2>3. e \in News /\ e.ev = "failed" /\ e.of = stack[c].refer /\ e.on = c
    BY <2>0 DEF News, Where, Task
  <2>4. telling = <<>> /\ telling' = <<Event(e)>> /\ news' = news /\ registrar' = registrar
    BY <1>4 DEF ReferFails, Reports, Tells
  <2> HIDE DEF s, e
  <2>5. NetworkStack /\ stack'[c] = s
    BY <1>1, <1>2, <2>1, <2>2, <2>4, OneCall
  <2>6. NetworkTells(e)
    BY <2>0, <2>2, <2>3, <2>4, <2>5 DEF NetworkTells, Outcomes
  <2> QED BY <2>3, <2>5, <2>6 DEF Reporting
<1>5. CASE ReferSucceeds(c)
  <2> DEFINE e == [ev |-> "transferred", on |-> c, of |-> stack[c].refer]
  <2>0. stack[c].refer \in Task
    BY <1>1, <1>5 DEF ReferSucceeds, Call
  <2>1. Ended(stack[c]) \in Call /\ stack' = [stack EXCEPT ![c] = Ended(stack[c])]
    BY <1>1, <1>5, Calling DEF ReferSucceeds
  <2>3. e \in News /\ e.ev = "transferred" /\ e.of = stack[c].refer /\ e.on = c
    BY <2>0 DEF News, Where, Task
  <2>4. telling = <<>> /\ telling' = <<Event(e)>> /\ news' = news /\ registrar' = registrar
    BY <1>5 DEF ReferSucceeds, Reports, Tells
  <2> HIDE DEF e
  <2>5. NetworkStack /\ stack'[c] = Ended(stack[c])
    BY <1>1, <1>2, <2>1, <2>4, EndedIs, OneCall
  <2>6. NetworkTells(e)
    BY <1>1, <2>0, <2>3, <2>4, <2>5, EndedIs DEF NetworkTells, Outcomes
  <2> QED BY <2>3, <2>5, <2>6 DEF Reporting
<1> QED BY <1>3, <1>4, <1>5

(* The last one in flight decides, and stays the last one. *)
LEMMA Registering ==
    ASSUME Base, RegistrarRefresh \/ RegistrarAnswers
    PROVE  NetworkStack /\ (telling' = telling \/ Reporting)
<1>1. /\ stack \in [Calls -> Call] /\ app \in Settings
      /\ registrar \in Registrar
      /\ news \in 0 .. app.news /\ app.news \in Nat
  BY RequestsAssumption DEF Base, Types
<1>2. /\ stack' = stack /\ stack' \in [Calls -> Call] /\ 0 \in Where
      /\ \A d \in Calls : stack'[d].refer \in {stack[d].refer, 0}
  BY <1>1 DEF RegistrarRefresh, RegistrarAnswers, Where
<1>3. CASE RegistrarRefresh
  <2>1. /\ news' \in 0 .. app.news /\ news' \in {news, news + 1} /\ telling' = telling
        /\ registrar.bound /\ registrar.air = <<>>
        /\ registrar' = [registrar EXCEPT !.air = <<Register("on", 0)>>]
    BY <1>1, <1>3 DEF RegistrarRefresh, Unasked
  <2>2. Register("on", 0) \in Sending /\ <<Register("on", 0)>> \in Seq(Sending)
    BY DEF Register, Sending
  <2>3. registrar' \in Registrar /\ registrar'.refused = registrar.refused
    BY <1>1, <2>1, <2>2 DEF Registrar
  <2>4. \A t \in Task : Gone(t) => Gone(t)'
    BY <2>1, <2>3 DEF Gone
  <2> QED BY <1>2, <2>1, <2>3, <2>4 DEF NetworkStack
<1>4. CASE RegistrarAnswers
  <2> DEFINE air == registrar.air
             rest == [registrar EXCEPT !.air = Tail(air)]
             good == [ev |-> "regok", on |-> 0, of |-> Head(air).by]
             bad == [ev |-> "regfail", on |-> 0, of |-> Head(air).by]
  <2>1. air # <<>> /\ air \in Seq(Sending) /\ news' = news
    BY <1>1, <1>4 DEF RegistrarAnswers, Registrar
  <2>2. /\ Tail(air) \in Seq(Sending) /\ Len(Tail(air)) = Len(air) - 1 /\ Len(air) \in Nat \ {0}
        /\ Head(air) \in Sending /\ Head(air) = air[1]
        /\ \A i \in 1 .. Len(Tail(air)) : i + 1 \in 1 .. Len(air) /\ Tail(air)[i] = air[i + 1]
    BY <2>1, Taken
  <2>3. \/ registrar' = [rest EXCEPT !.bound = (Head(air).turn = "on")] /\ Reports("regok", 0, Head(air).by)
        \/ /\ registrar' = IF Head(air).turn = "off" THEN [rest EXCEPT !.refused = @ \cup {Head(air).by}]
                           ELSE rest
           /\ Reports("regfail", 0, Head(air).by)
    BY <1>4 DEF RegistrarAnswers
  <2>4. /\ rest \in Registrar /\ Head(air).by \in Task \cup {0}
        /\ rest.air = Tail(air) /\ rest.bound = registrar.bound /\ rest.refused = registrar.refused
    BY <1>1, <2>2 DEF Registrar, Sending
  <2>5. /\ registrar' \in Registrar /\ registrar'.air = Tail(air)
        /\ registrar.refused \subseteq registrar'.refused
        /\ Head(air).turn = "off" => Head(air).by \in registrar'.refused \/ ~registrar'.bound
    <3>1. CASE registrar' = [rest EXCEPT !.bound = (Head(air).turn = "on")]
      BY <2>4, <3>1 DEF Registrar
    <3>2. CASE registrar' = [rest EXCEPT !.refused = @ \cup {Head(air).by}]
      BY <2>4, <3>2 DEF Registrar
    <3>3. CASE registrar' = rest /\ Head(air).turn # "off"
      BY <2>4, <3>3
    <3> QED BY <2>3, <3>1, <3>2, <3>3
  <2>7. ASSUME NEW t \in Task, Gone(t)
        PROVE  Gone(t)'
    <3>1. CASE t \in registrar.refused
      BY <2>5, <3>1 DEF Gone
    <3>2. CASE air[Len(air)] = Register("off", t) /\ Len(air) = 1
      <4>1. Tail(air) = <<>> /\ Head(air).turn = "off" /\ Head(air).by = t
        <5>1. PICK left \in Seq(Sending) : left = Tail(air)
          BY <2>2
        <5>2. Len(left) = 0
          BY <2>2, <3>2, <5>1
        <5>3. Head(air) = Register("off", t)
          BY <2>2, <3>2
        <5> QED BY <5>1, <5>2, <5>3 DEF Register
      <4> QED BY <2>5, <4>1 DEF Gone
    <3>3. CASE air[Len(air)] = Register("off", t) /\ Len(air) # 1
      <4>1. PICK left \in Seq(Sending) : left = Tail(air)
        BY <2>2
      <4>2. \A n \in Nat \ {0} : n # 1 => n - 1 \in 1 .. n - 1 /\ (n - 1) + 1 = n
        OBVIOUS
      <4>3. Len(left) \in 1 .. Len(left) /\ Len(left) + 1 = Len(air)
        BY <2>2, <3>3, <4>1, <4>2
      <4>4. left[Len(left)] = Register("off", t) /\ left # <<>>
        <5>1. \A i \in 1 .. Len(left) : left[i] = air[i + 1]
          BY <2>2, <4>1
        <5>2. left[Len(left)] = air[Len(air)]
          BY <4>3, <5>1
        <5>3. left # <<>>
          BY <4>3
        <5> QED BY <3>3, <5>2, <5>3
      <4>5. registrar'.air = left
        BY <2>5, <4>1
      <4> QED BY <4>4, <4>5 DEF Gone
    <3> QED BY <2>1, <2>7, <3>1, <3>2, <3>3 DEF Gone
  <2>8. NetworkStack
    BY <1>1, <1>2, <2>1, <2>5, <2>7 DEF NetworkStack
  <2>9. /\ good \in News /\ bad \in News /\ good.ev = "regok" /\ bad.ev = "regfail"
        /\ good.of \in Task \cup {0} /\ bad.of \in Task \cup {0}
    BY <1>2, <2>4 DEF News, Task
  <2>10. telling = <<>> /\ (telling' = <<Event(good)>> \/ telling' = <<Event(bad)>>)
    BY <2>3 DEF Reports, Tells
  <2> HIDE DEF good, bad
  <2>11. NetworkTells(good) \/ NetworkTells(bad)
    BY <2>9, <2>10 DEF NetworkTells, Outcomes
  <2> QED BY <2>8, <2>9, <2>11 DEF Reporting
<1> QED BY <1>3, <1>4

LEMMA NetworkStep ==
    ASSUME Base, Network
    PROVE  NetworkStack /\ NetworkKept /\ (telling' = telling \/ Reporting)
<1>1. NetworkKept
  BY DEF Network, NetworkKept
<1>2. CASE RegistrarRefresh \/ RegistrarAnswers
  BY <1>1, <1>2, Registering
<1>3. ASSUME NEW c \in Calls,
             \/ FarEnd(c) \/ PeerRefresh(c) \/ ReferArrives(c)
             \/ RefreshEnds(c) \/ ReferFails(c) \/ ReferSucceeds(c) \/ RequestFails(c)
      PROVE  NetworkStack /\ (telling' = telling \/ Reporting)
  BY <1>3, Answering, Referrals
<1> QED BY <1>1, <1>2, <1>3 DEF Network

LEMMA NetworkBase ==
    ASSUME Base, Network, Blurs
    PROVE  Base'
<1>1. Types /\ TaskInv /\ WakeInv /\ ItemInv /\ OrderInv /\ NewsInv
  BY DEF Base
<1>2. NetworkStack /\ (telling' = telling \/ Reporting)
      /\ queue' = queue /\ ready' = ready /\ task' = task /\ job' = job /\ obj' = obj /\ app' = app
      /\ registered' = registered /\ ops' = ops /\ due' = due
  BY NetworkStep DEF NetworkKept
<1>3. /\ \A i \in 1 .. Len(telling') : \/ telling' = telling
                                       \/ i = 1 /\ Len(telling') = 1 /\ telling'[1].kind = "event"
                                          /\ ~IsDone(telling'[1]) /\ NetworkTells(telling'[1].ev)
      /\ telling' \in Seq(Told)
  <2>1. CASE telling' = telling
    BY <1>1, <2>1 DEF Types
  <2>2. ASSUME NEW e \in News, NetworkTells(e)
        PROVE  /\ \A i \in 1 .. Len(telling') : i = 1 /\ Len(telling') = 1 /\ telling'[1].kind = "event"
                                          /\ ~IsDone(telling'[1]) /\ NetworkTells(telling'[1].ev)
               /\ telling' \in Seq(Told)
    <3>1. telling' = <<Event(e)>>
      BY <2>2 DEF NetworkTells
    <3>2. Event(e) \in Told /\ Event(e).kind = "event" /\ ~IsDone(Event(e)) /\ Event(e).ev = e
      BY DEF Event, Told, IsDone
    <3> QED BY <2>2, <3>1, <3>2
  <2> QED BY <1>2, <2>1, <2>2 DEF Reporting
<1>4. Types'
  <2>1. murky' \subseteq Calls
    BY <1>1 DEF Types, Blurs
  <2> QED BY <1>1, <1>2, <1>3, <2>1 DEF Types, NetworkStack, Call, Object
<1>5. TaskInv'
  <2> SUFFICES ASSUME NEW u \in Task
               PROVE  TaskOK(u)' /\ NumberOK(u)'
    BY DEF TaskInv
  <2>1. TaskOK(u) /\ NumberOK(u) /\ news' \in {news, news + 1} /\ news \in Nat /\ app.ops \in Nat /\ u \in Nat
    BY <1>1, <1>2, RequestsAssumption DEF TaskInv, NetworkStack, Types, Task
  <2>2. TaskOK(u)'
    BY <1>2, <2>1 DEF TaskOK, Running
  <2>3. app'.ops + news' < u => app.ops + news < u
    BY <1>2, <2>1
  <2> QED BY <1>2, <2>1, <2>2, <2>3 DEF NumberOK
<1>6. WakeInv'
  BY <1>1, <1>2 DEF WakeInv
<1>7. OrderInv'
  BY <1>1, <1>2 DEF OrderInv, OrderOK, Transferring
<1>8. ItemInv'
  <2>1. CASE telling' = telling
    BY <1>1, <1>2, <2>1 DEF ItemInv, Expects
  <2>2. CASE \A i \in 1 .. Len(telling') : ~IsDone(telling'[i])
    BY <1>1, <1>2, <2>2 DEF ItemInv, Expects, IsDone
  <2> QED BY <1>3, <2>1, <2>2
<1>9. NewsInv'
  <2>1. \A e : NewsOK(e) => NewsOK(e)'
    <3>1. \A n : n \in 1 .. news => n \in 1 .. news'
      BY <1>1, <1>2, RequestsAssumption DEF Types, NetworkStack
    <3> QED BY <1>2, <3>1 DEF NewsOK, NetworkStack, PolicyTask
  <2>2. \A i \in 1 .. Len(ready') : ready'[i].kind = "event" => NewsOK(ready[i].ev)'
    <3> SUFFICES ASSUME NEW i \in 1 .. Len(ready), ready[i].kind = "event"
                 PROVE  NewsOK(ready[i].ev)'
      BY <1>2
    <3>1. PICK e : e = ready[i].ev
      OBVIOUS
    <3>2. NewsOK(e)'
      BY <1>1, <2>1, <3>1 DEF NewsInv
    <3> QED BY <1>2, <3>1, <3>2
  <2>3. \A e : NetworkTells(e) => NewsOK(e)'
    <3> SUFFICES ASSUME NEW e, NetworkTells(e)
                 PROVE  NewsOK(e)'
      OBVIOUS
    <3>1. /\ news \in Nat /\ app.ops \in Nat /\ app.news \in Nat /\ MaxTasks \in Nat
          /\ news' \in 0 .. app.news
          /\ app.policy # "manual" => app.ops + app.news <= MaxTasks
      BY <1>1, <1>2, RequestsAssumption DEF Types, NetworkStack
    <3>2. e.ev = "refer" => e.of \in 1 .. news'
      BY <3>1 DEF NetworkTells
    <3>3. ASSUME e.ev = "refer", app.policy # "manual"
          PROVE  task[PolicyTask(e.of)].at = "idle"
      <4>1. PolicyTask(e.of) = app.ops + news + 1 /\ news' = news + 1
        BY <3>1, <3>3 DEF NetworkTells, PolicyTask
      <4>2. PolicyTask(e.of) \in Task /\ app.ops + news < PolicyTask(e.of)
        BY <3>1, <3>3, <4>1 DEF Task
      <4> QED BY <1>1, <4>2 DEF TaskInv, NumberOK
    <3> QED BY <1>2, <3>2, <3>3 DEF NewsOK, NetworkTells, PolicyTask
  <2>4. \A i \in 1 .. Len(telling') : telling'[i].kind = "event" => NewsOK(telling[i].ev)'
    <3> SUFFICES ASSUME NEW i \in 1 .. Len(telling'), telling'[i].kind = "event"
                 PROVE  NewsOK(telling[i].ev)'
      OBVIOUS
    <3>1. PICK e : e = telling'[i].ev
      OBVIOUS
    <3>2. CASE telling' = telling
      BY <1>1, <2>1, <3>1, <3>2 DEF NewsInv
    <3>3. CASE i = 1 /\ NetworkTells(telling'[1].ev)
      BY <2>3, <3>1, <3>3
    <3>4. NewsOK(e)'
      BY <1>1, <1>3, <2>1, <2>3, <3>1 DEF NewsInv
    <3> QED BY <3>1, <3>4
  <2>5. \A i, k \in 1 .. Len(telling') :
          IsNews(telling'[i], {"refer"}) /\ IsNews(telling'[k], {"refer"}) /\ telling'[i].ev.of = telling'[k].ev.of
          => i = k
    BY <1>1, <1>3 DEF NewsInv
  <2>6. \A i, k \in 1 .. Len(ready') :
          IsNews(ready'[i], {"refer"}) /\ IsNews(ready'[k], {"refer"}) /\ ready'[i].ev.of = ready'[k].ev.of
          => i = k
    BY <1>1, <1>2 DEF NewsInv
  <2>7. \A i \in 1 .. Len(ready) : IsNews(ready[i], {"refer"}) => ready[i].ev.of \in 1 .. news
    BY <1>1 DEF NewsInv, NewsOK, IsNews
  <2>8. \A i \in 1 .. Len(ready'), k \in 1 .. Len(telling') :
          IsNews(ready'[i], {"refer"}) /\ IsNews(telling'[k], {"refer"}) => ready'[i].ev.of # telling'[k].ev.of
    <3>1. CASE telling' = telling
      BY <1>1, <1>2, <3>1 DEF NewsInv
    <3>2. ASSUME NEW k \in 1 .. Len(telling'), NetworkTells(telling'[k].ev), IsNews(telling'[k], {"refer"}),
                 NEW i \in 1 .. Len(ready), IsNews(ready[i], {"refer"})
          PROVE  ready[i].ev.of # telling'[k].ev.of
      <4>1. telling'[k].ev.of = news + 1 /\ news \in Nat
        BY <1>1, <3>2, RequestsAssumption DEF NetworkTells, IsNews, Types
      <4> QED BY <2>7, <3>2, <4>1
    <3> QED BY <1>2, <1>3, <3>1, <3>2
  <2> QED BY <2>2, <2>4, <2>5, <2>6, <2>8 DEF NewsInv, IsNews
<1> QED BY <1>4, <1>5, <1>6, <1>7, <1>8, <1>9 DEF Base

-----------------------------------------------------------------------------
(* Every step is one of these.                                             *)

AppKept == UNCHANGED <<nativeVars, job, obj, app, registered, ops, due>>

Stepping ==
    \/ Application \/ DispatchEvent
    \/ DispatchDone /\ AppKept
    \/ \E t \in Task : GoesOn(t)
    \/ \E t \in Task : Timer(t)
    \/ Report /\ AppKept
    \/ \E q \in Order, r \in Completed : Carries(q, r) /\ Kept
    \/ Network

LEMMA NextSteps ==
    ASSUME Base, Next
    PROVE  Stepping /\ Blurs
<1>1. Blurs
  BY DEF Next
<1>2. CASE Loop
  <2>1. \/ DispatchEvent
        \/ DispatchDone /\ UNCHANGED <<nativeVars, job, obj, app, registered, ops, due>>
        \/ \E t \in Task : GoesOn(t)
        \/ \E t \in Task : Timer(t)
    BY <1>2 DEF Loop, Callbacks
  <2>2. UNCHANGED <<nativeVars, job, obj, app, registered, ops, due>> => AppKept
    BY DEF AppKept
  <2>3. Stepping
    BY <2>1, <2>2 DEF Stepping
  <2> QED BY <1>1, <2>3
<1>3. CASE ReThread
  <2>1. CASE Report /\ UNCHANGED <<stack, registrar>> /\ UNCHANGED <<job, obj, app, registered, ops, news, due>>
    <3>1. AppKept
      BY <2>1 DEF AppKept, nativeVars
    <3>2. Stepping
      BY <2>1, <3>1 DEF Stepping
    <3> QED BY <1>1, <3>2
  <2>2. CASE Handles /\ UNCHANGED <<ready, task>> /\ UNCHANGED <<job, obj, app, registered, ops, news, due>>
    <3>1. Kept
      BY <2>2 DEF Kept
    <3>2. \E q \in Order, r \in Completed : Carries(q, r)
      BY <2>2, HandlesCarry
    <3>3. Stepping
      BY <3>1, <3>2 DEF Stepping
    <3> QED BY <1>1, <3>3
  <2> QED BY <1>3, <2>1, <2>2 DEF ReThread, Handles
<1> QED BY <1>1, <1>2, <1>3 DEF Next, Stepping

LEMMA TurnBase ==
    ASSUME Base, NEW t \in Task, Turn(t), Blurs
    PROVE  Base'
<1>1. Types /\ TaskInv /\ WakeInv /\ ItemInv /\ OrderInv /\ NewsInv
  BY DEF Base
<1> QED BY <1>1, TurnTypes, TurnTasks, TurnWakes, TurnItems, TurnOrders, TurnNews DEF Base

LEMMA EventBase ==
    ASSUME Base, DispatchEvent, Blurs
    PROVE  Base'
<1>1. Types /\ TaskInv /\ WakeInv /\ ItemInv /\ OrderInv /\ NewsInv
  BY DEF Base
<1> QED BY <1>1, EventTypes, EventTasks, EventItems, EventNews, EventWakes DEF Base

LEMMA BaseNext ==
    ASSUME Base, [Next]_vars
    PROVE  Base'
<1>1. CASE Next
  <2>1. Stepping /\ Blurs
    BY <1>1, NextSteps
  <2>2. CASE Application
    <3>1. NextOne \in Task /\ Turn(NextOne)
      BY <2>2, ApplicationTurn DEF Base
    <3>2. PICK t \in Task : Turn(t)
      BY <3>1
    <3> QED BY <2>1, <3>2, TurnBase
  <2>3. CASE DispatchEvent
    BY <2>1, <2>3, EventBase
  <2>4. CASE DispatchDone /\ AppKept
    BY <2>1, <2>4, DoneBase DEF AppKept
  <2>5. ASSUME NEW t \in Task, GoesOn(t)
        PROVE  Base'
    <3>1. Turn(t)
      BY <2>5, GoesOnTurn DEF Base
    <3> QED BY <2>1, <3>1, TurnBase
  <2>6. ASSUME NEW t \in Task, Timer(t)
        PROVE  Base'
    BY <2>1, <2>6, TimerBase
  <2>7. CASE Report /\ AppKept
    BY <2>1, <2>7, ReportBase DEF AppKept
  <2>8. ASSUME NEW q \in Order, NEW r \in Completed, Carries(q, r) /\ Kept
        PROVE  Base'
    BY <2>1, <2>8, HandlesBase
  <2>9. CASE Network
    BY <2>1, <2>9, NetworkBase
  <2> QED BY <2>1, <2>2, <2>3, <2>4, <2>5, <2>6, <2>7, <2>8, <2>9 DEF Stepping
<1>2. CASE vars' = vars
  <2>1. /\ queue' = queue /\ telling' = telling /\ ready' = ready /\ task' = task /\ job' = job
        /\ stack' = stack /\ registrar' = registrar /\ news' = news /\ obj' = obj /\ app' = app
        /\ registered' = registered /\ ops' = ops /\ murky' = murky /\ due' = due
    BY <1>2 DEF vars, loopVars, nativeVars
  <2>2. Types /\ TaskInv /\ WakeInv /\ ItemInv /\ OrderInv /\ NewsInv
    BY DEF Base
  <2>3. Types'
    BY <2>1, <2>2 DEF Types, Call, Object
  <2>4. TaskInv' /\ WakeInv'
    BY <2>1, <2>2 DEF TaskInv, TaskOK, NumberOK, Running, WakeInv
  <2>5. ItemInv'
    BY <2>1, <2>2 DEF ItemInv, Expects
  <2>6. OrderInv'
    BY <2>1, <2>2 DEF OrderInv, OrderOK, Transferring
  <2>7. NewsInv'
    BY <2>1, <2>2 DEF NewsInv, NewsOK, PolicyTask
  <2> QED BY <2>3, <2>4, <2>5, <2>6, <2>7 DEF Base
<1> QED BY <1>1, <1>2

LEMMA InitBase ==
    ASSUME Init
    PROVE  Base
<1>1. /\ queue = <<>> /\ telling = <<>> /\ ready = <<>> /\ task = [t \in Task |-> Idle]
      /\ job = [t \in Task |-> NoJob] /\ app \in Settings /\ ops = 0 /\ news = 0 /\ murky = {}
      /\ app.ops \in Nat /\ app.news \in Nat /\ app.registered \in BOOLEAN
  BY RequestsAssumption DEF Init
<1>2. Idle \in Coroutine /\ NoJob \in Local /\ NoJob.kind = "none" /\ Idle.at = "idle"
  BY RequestsAssumption DEF Idle, Coroutine, NoJob, Job, Local, Where, Step
<1>3. Types
  <2>1. stack \in [Calls -> Call]
    BY <1>1 DEF Init, Call
  <2>2. obj \in [Calls -> Object]
    <3>1. \A c \in Calls : (c \in app.calls) \in BOOLEAN /\ 0 \in 0 .. app.news
      BY <1>1
    <3>2. obj = [c \in Calls |-> [up |-> c \in app.calls, onHold |-> FALSE, pending |-> FALSE, request |-> 0]]
      BY DEF Init
    <3> QED BY <3>1, <3>2 DEF Object
  <2>3. due \in [Calls -> [no : Nat, lost : BOOLEAN]]
    BY DEF Init
  <2>4. registered \in BOOLEAN
    BY <1>1 DEF Init
  <2>6. registrar = [bound |-> registered, air |-> <<>>, refused |-> {}] /\ <<>> \in Seq(Sending)
    BY DEF Init
  <2>7. registrar \in Registrar
    BY <2>4, <2>6 DEF Registrar
  <2>5. queue \in Seq(Order) /\ telling \in Seq(Told) /\ ready \in Seq(Callback)
    BY <1>1
  <2> QED BY <1>1, <1>2, <2>1, <2>2, <2>3, <2>4, <2>5, <2>7 DEF Types
<1>4. TaskInv
  <2> SUFFICES ASSUME NEW t \in Task
               PROVE  TaskOK(t) /\ NumberOK(t)
    BY DEF TaskInv
  <2>1. task[t] = Idle /\ job[t] = NoJob
    BY <1>1
  <2>2. TaskOK(t)
    BY <2>1 DEF TaskOK, JobOK, Idle, NoJob, Job, Running
  <2> QED BY <1>2, <2>1, <2>2 DEF NumberOK
<1>5. WakeInv /\ ItemInv /\ OrderInv /\ NewsInv
  <2>1. Len(queue) = 0 /\ Len(ready) = 0 /\ Len(telling) = 0
    BY <1>1
  <2>2. \A i \in 1 .. 0 : FALSE
    OBVIOUS
  <2> QED BY <2>1, <2>2 DEF WakeInv, ItemInv, OrderInv, NewsInv
<1> QED BY <1>3, <1>4, <1>5 DEF Base

-----------------------------------------------------------------------------
(* The pending request.                                                    *)

LEMMA NewestNext ==
    ASSUME Base, RequestIsNewest, [Next]_vars
    PROVE  RequestIsNewest'
<1>1. Types /\ TaskInv /\ WakeInv /\ NewsInv
  BY DEF Base
<1>2. CASE Objects
  BY <1>1, <1>2 DEF RequestIsNewest, Objects
<1>3. CASE obj' = obj /\ due' = due
  BY <1>3 DEF RequestIsNewest
<1>4. CASE DispatchEvent
  <2>1. EventObjects(Head(ready).ev)
    BY <1>1, <1>4, EventObjectsStep
  <2> SUFFICES ASSUME NEW c \in Calls, obj'[c].up
               PROVE  obj'[c].request = due'[c].no \/ (due'[c].lost /\ obj'[c].request = 0)
    BY DEF RequestIsNewest
  <2>2. obj[c].up
    BY <1>1, <2>1 DEF EventObjects, Types, Object
  <2> QED BY <2>1, <2>2 DEF EventObjects, RequestIsNewest
<1>5. CASE Next
  <2>1. Stepping
    BY <1>5, NextSteps
  <2>2. CASE Application
    BY <1>1, <1>2, <2>2, ApplicationTurn DEF Turn
  <2>3. ASSUME NEW t \in Task, GoesOn(t)
        PROVE  RequestIsNewest'
    BY <1>1, <1>2, <2>3, GoesOnTurn DEF Turn
  <2>4. ASSUME NEW t \in Task, Timer(t)
        PROVE  RequestIsNewest'
    <3>1. Settles(t, 0)
      BY <1>1, <2>4, TimerStep
    <3> QED BY <1>3, <3>1 DEF Settles
  <2>5. CASE AppKept
    BY <1>3, <2>5 DEF AppKept
  <2>6. CASE Kept
    BY <1>3, <2>6 DEF Kept
  <2>7. CASE Network
    BY <1>3, <2>7 DEF Network
  <2> QED BY <1>4, <2>1, <2>2, <2>3, <2>4, <2>5, <2>6, <2>7 DEF Stepping
<1>6. CASE vars' = vars
  BY <1>3, <1>6 DEF vars
<1> QED BY <1>5, <1>6

(* A coroutine awaits exactly what was sent for it, every order is answered *)
(* at most once and to whoever gave it, and no news is told twice.          *)
THEOREM BaseAlways == Spec => []Base
<1>1. Init => Base
  BY InitBase
<1>2. Base /\ [Next]_vars => Base'
  BY BaseNext
<1> QED BY <1>1, <1>2, PTL DEF Spec

-----------------------------------------------------------------------------
(* Only the re thread answers: whoever is answered after any other step had *)
(* been answered before.                                                    *)

Quiet == \A u \in Task, r \in Completed : Answered(u, r)' => Answered(u, r)

LEMMA SlidAnswers ==
    ASSUME Types, NEW m \in 0 .. 1, Slid(m), telling' = telling,
           \A u \in Task, r \in Completed :
              task'[u].at = "awaiting" /\ task'[u].fut = r => Answered(u, r)
    PROVE  Quiet
<1> SUFFICES ASSUME NEW u \in Task, NEW r \in Completed, Answered(u, r)'
             PROVE  Answered(u, r)
  BY DEF Quiet
<1>1. CASE task'[u].at = "awaiting" /\ task'[u].fut = r
  BY <1>1
<1>2. CASE DoneIn(ready, u, r)'
  <2>1. PICK i \in 1 .. Len(ready') : IsDone(ready'[i]) /\ ready'[i].by = u /\ ready'[i].res = r
    BY <1>2 DEF DoneIn, IsDone
  <2>2. i + m \in 1 .. Len(ready) /\ ready'[i] = ready[i + m]
    BY <2>1 DEF Slid, IsDone
  <2> QED BY <2>1, <2>2 DEF Answered, DoneIn
<1>3. CASE DoneIn(telling, u, r)'
  BY <1>3 DEF Answered, DoneIn
<1> QED BY <1>1, <1>2, <1>3 DEF Answered

LEMMA TurnAnswers ==
    ASSUME Base, NEW t \in Task, Turn(t)
    PROVE  /\ \A u \in Task, r \in Completed :
                 Answered(u, r)' => \/ Answered(u, r)
                                    \/ u = t /\ task'[t].at = "awaiting" /\ task'[t].fut = r
           /\ ~GaveUp(t) => \A r : ~DoneIn(ready, t, r)' /\ ~DoneIn(telling, t, r)'
           /\ ~GaveUp(t) => ~Asked(t)
<1>1. Types /\ ItemInv /\ telling' = telling
  BY DEF Base, Turn
<1>2. PICK m \in 0 .. 1 : \A i \in 1 .. Len(ready') :
                i + m \in 1 .. Len(ready) /\ ready'[i] = ready[i + m]
  BY <1>1, ReadyAfter
<1>3. \A u \in Task : u # t => task'[u] = task[u]
  BY DEF Turn, Runs, Only
<1>4. \A u, r : DoneIn(ready, u, r)' => DoneIn(ready, u, r)
  BY <1>2 DEF DoneIn
<1>5. \A u, r : DoneIn(telling, u, r)' => DoneIn(telling, u, r)
  BY <1>1 DEF DoneIn
<1>6. \A no \in Nat : Expects(t, no) => GaveUp(t)
  BY <1>1, ExpectsAfter
<1>7. ~GaveUp(t) => \A r : ~DoneIn(ready, t, r) /\ ~DoneIn(telling, t, r)
  BY <1>1, <1>6, Parties DEF DoneIn, ItemInv
<1>8. ~GaveUp(t) => ~Asked(t)
  BY <1>1, <1>6, Parties DEF Asked, ItemInv
<1>9. ASSUME NEW u \in Task, NEW r \in Completed, Answered(u, r)',
             ~(u = t /\ task'[t].at = "awaiting" /\ task'[t].fut = r)
      PROVE  Answered(u, r)
  BY <1>3, <1>4, <1>5, <1>9 DEF Answered
<1> QED BY <1>4, <1>5, <1>7, <1>8, <1>9

LEMMA EventAnswers ==
    ASSUME Base, DispatchEvent
    PROVE  Quiet
<1>0. Types /\ TaskInv /\ NewsInv /\ telling' = telling /\ 1 \in 0 .. 1
  BY DEF Base, DispatchEvent
<1>1. Slid(1) /\ \A u \in Task : Spawns(u, Head(ready).ev) \/ Hears(u, Head(ready).ev)
  BY <1>0, EventStep
<1>2. ASSUME NEW u \in Task, NEW r \in Completed, task'[u].at = "awaiting" /\ task'[u].fut = r
      PROVE  Answered(u, r)
  BY <1>1, <1>2 DEF Spawns, Hears, Answered
<1> QED BY <1>0, <1>1, <1>2, SlidAnswers

LEMMA SettlesSlid ==
    ASSUME Base, NEW u \in Task, NEW m \in 0 .. 1, Settles(u, m)
    PROVE  Slid(m) /\ telling' = telling
BY DEF Settles, Slid, Wake

LEMMA DoneAnswers ==
    ASSUME Base, DispatchDone, AppKept
    PROVE  Quiet
<1>1. Types /\ 1 \in 0 .. 1
  BY DEF Base
<1>2. PICK v \in Task :
              /\ ready # <<>> /\ Head(ready) = ready[1] /\ IsDone(Head(ready)) /\ Head(ready).by = v
              /\ Settles(v, 1)
              /\ \/ task' = task
                 \/ task[v].at = "awaiting" /\ task'[v].fut = Head(ready).res
  BY DoneStep DEF Base, AppKept
<1>3. Slid(1) /\ telling' = telling
  BY <1>1, <1>2, SettlesSlid
<1>4. 1 \in 1 .. Len(ready)
  BY <1>1, <1>2, Taken DEF Types
<1>5. ASSUME NEW u \in Task, NEW r \in Completed, task'[u].at = "awaiting" /\ task'[u].fut = r
      PROVE  Answered(u, r)
  <2>1. CASE task'[u] = task[u]
    BY <1>5, <2>1 DEF Answered
  <2>2. CASE u = v /\ task'[v].fut = Head(ready).res
    BY <1>2, <1>4, <1>5, <2>2 DEF Answered, DoneIn
  <2> QED BY <1>2, <2>1, <2>2 DEF Settles
<1> QED BY <1>1, <1>3, <1>5, SlidAnswers

LEMMA TimerAnswers ==
    ASSUME Base, NEW t \in Task, Timer(t)
    PROVE  Quiet
<1>1. Types /\ 0 \in 0 .. 1
  BY DEF Base
<1>2. /\ Settles(t, 0)
      /\ task'[t].fut = task[t].fut \/ (task[t].fut = "open" /\ task'[t].fut = "cancelled")
                                    \/ (task[t].at = "sleeping" /\ task'[t].fut = "ok")
  BY TimerStep DEF Base
<1>3. Slid(0) /\ telling' = telling
  BY <1>1, <1>2, SettlesSlid
<1>4. ASSUME NEW u \in Task, NEW r \in Completed, task'[u].at = "awaiting" /\ task'[u].fut = r
      PROVE  Answered(u, r)
  BY <1>2, <1>4 DEF Answered, Settles, Completed
<1> QED BY <1>1, <1>3, <1>4, SlidAnswers

LEMMA ReportAnswers ==
    ASSUME Base, Report, AppKept, Blurs
    PROVE  Quiet
<1>1. /\ \A i \in 1 .. Len(ready') : \/ i \in 1 .. Len(ready) /\ ready'[i] = ready[i]
                                     \/ i = Len(ready) + 1 /\ ready'[i] = telling[1]
      /\ \A i \in 1 .. Len(telling') : i + 1 \in 1 .. Len(telling) /\ telling'[i] = telling[i + 1]
      /\ 1 \in 1 .. Len(telling) /\ task' = task
  BY ReportBase DEF AppKept, Report
<1>2. ASSUME NEW u, NEW r, DoneIn(ready, u, r)'
      PROVE  DoneIn(ready, u, r) \/ DoneIn(telling, u, r)
  <2>1. PICK i \in 1 .. Len(ready') : IsDone(ready'[i]) /\ ready'[i].by = u /\ ready'[i].res = r
    BY <1>2 DEF DoneIn, IsDone
  <2> QED BY <1>1, <2>1 DEF DoneIn
<1>3. ASSUME NEW u, NEW r, DoneIn(telling, u, r)'
      PROVE  DoneIn(telling, u, r)
  <2>1. PICK i \in 1 .. Len(telling') : IsDone(telling'[i]) /\ telling'[i].by = u /\ telling'[i].res = r
    BY <1>3 DEF DoneIn, IsDone
  <2> QED BY <1>1, <2>1 DEF DoneIn
<1> QED BY <1>1, <1>2, <1>3 DEF Quiet, Answered

LEMMA NetworkAnswers ==
    ASSUME Base, Network
    PROVE  Quiet
<1>1. task' = task /\ ready' = ready /\ (telling' = telling \/ Reporting)
  BY NetworkStep DEF NetworkKept
<1>2. ASSUME NEW u, NEW r, DoneIn(telling, u, r)'
      PROVE  DoneIn(telling, u, r)
  <2>1. PICK i \in 1 .. Len(telling') : IsDone(telling'[i]) /\ telling'[i].by = u /\ telling'[i].res = r
    BY <1>2 DEF DoneIn, IsDone
  <2>2. CASE telling' = telling
    BY <2>1, <2>2 DEF DoneIn
  <2>3. ASSUME NEW e \in News, telling' = <<Event(e)>>
        PROVE  FALSE
    BY <2>1, <2>3 DEF IsDone, Event
  <2> QED BY <1>1, <2>2, <2>3 DEF Reporting, NetworkTells
<1> QED BY <1>1, <1>2 DEF Quiet, Answered, DoneIn

LEMMA CarriesAnswers ==
    ASSUME Base, NEW q \in Order, NEW r \in Completed, Carries(q, r), Kept
    PROVE  \A u \in Task, x \in Completed : Answered(u, x)' => Answered(u, x) \/ (u = q.by /\ x = r)
<1> SUFFICES ASSUME NEW u \in Task, NEW x \in Completed, Answered(u, x)'
             PROVE  Answered(u, x) \/ (u = q.by /\ x = r)
  OBVIOUS
<1>1. task' = task /\ ready' = ready
  BY DEF Kept
<1>2. CASE DoneIn(telling, u, x)'
  <2>1. PICK i \in 1 .. Len(telling') : IsDone(telling'[i]) /\ telling'[i].by = u /\ telling'[i].res = x
    BY <1>2 DEF DoneIn, IsDone
  <2>2. telling'[i] = Done(q, r)
    BY <2>1, TellsDone DEF Carries
  <2> QED BY <2>1, <2>2 DEF Done
<1> QED BY <1>1, <1>2 DEF Answered, DoneIn

-----------------------------------------------------------------------------
(* Keys.                                                                   *)

(* Whoever has a key to release still has, after a step that answers nobody. *)
LEMMA OwesOn ==
    ASSUME Quiet, NEW u \in Task, NEW c \in Calls, Owes(u, c),
           job'[u].kind = job[u].kind, job'[u].call = job[u].call, job'[u].step = job[u].step,
           task'[u].out = task[u].out
    PROVE  Owes(u, c)'
<1>1. "ok" \in Completed
  BY DEF Completed
<1> QED BY <1>1 DEF Owes, Quiet

LEMMA KeysHeld ==
    ASSUME Types, KeyInv, \A d \in Calls : stack'[d].key => stack[d].key /\ stack'[d].live = stack[d].live,
           \A u \in Task, c \in Calls : Owes(u, c) => Owes(u, c)'
    PROVE  KeyInv'
BY DEF KeyInv

LEMMA DigitOwes ==
    ASSUME Base, NEW t \in Task, Resumes(t), Turn(t), NEW c \in Calls, Owes(t, c)
    PROVE  Owes(t, c)'
<1>1. Types /\ TaskInv /\ ItemInv
  BY DEF Base
<1>2. /\ job[t].kind = "dtmf" /\ job[t].call = c /\ task[t].out # "ok" /\ job[t].step # "gap"
      /\ job[t].step = "release" => ~Answered(t, "ok")
  BY DEF Owes
<1>3. Running(t)
  BY DEF Resumes
<1>4. DigitGoesOn(t)
  <2>1. job[t].step \in Commanding => job[t].kind \in Kinds(job[t].step)
    BY <1>1, <1>3, WhereItIs
  <2>2. task[t].at = "waiting" => job[t].step \in {"outcome", "answer"} /\ job[t].kind \in Kinds(job[t].step)
    BY <1>1, <1>3, WhereItIs
  <2>3. ~HoldGoesOn(t) /\ ~UndoGoesOn(t) /\ ~VideoGoesOn(t) /\ ~SentGoesOn(t)
    BY <1>2, <2>1 DEF HoldGoesOn, UndoGoesOn, VideoGoesOn, SentGoesOn, Awaited, Commanding, Kinds
  <2>4. ~OutcomeGoesOn(t)
    BY <1>2, <2>2 DEF OutcomeGoesOn, Kinds
  <2>5. ~DecisionGoesOn(t) /\ ~PolicyGoesOn(t)
    BY <1>2 DEF DecisionGoesOn, PolicyGoesOn
  <2> QED BY <2>3, <2>4, <2>5 DEF Resumes
<1>5. job'[t].kind = "dtmf" /\ job'[t].call = c
  BY <1>2, <1>4 DEF DigitGoesOn, Returns, Pauses, SameJob, SameOp
<1>6. CASE task[t].at = "awaiting"
  <2>1. CASE Result(t) # "ok" /\ Returns(t, "raised")
    BY <1>5, <2>1 DEF Owes, Returns, Leaves
  <2>2. CASE Result(t) = "ok" /\ job[t].step = "release"
    BY <1>2, <1>6, <2>2 DEF Result, Answered
  <2>3. CASE Pauses(t, "sleeping", "tone")
    BY <1>5, <2>3 DEF Owes, Pauses
  <2> QED BY <1>4, <1>6, <2>1, <2>2, <2>3 DEF DigitGoesOn
<1>7. CASE task[t].at = "sleeping" /\ Asks1(t, Turns("digit", job[t].call, FALSE)) /\ job'[t].step = "release"
  <2>1. ~GaveUp(t)
    BY <1>7 DEF GaveUp
  <2>2. ~DoneIn(ready, t, "ok")' /\ ~DoneIn(telling, t, "ok")'
    BY <2>1, TurnAnswers
  <2>3. task'[t].out # "ok" /\ ~(task'[t].at = "awaiting" /\ task'[t].fut = "ok")
    BY <1>7 DEF Asks1, Pushed, Leaves
  <2> QED BY <1>5, <1>7, <2>2, <2>3 DEF Owes, Answered
<1> QED BY <1>2, <1>4, <1>6, <1>7 DEF DigitGoesOn

LEMMA TurnKeys ==
    ASSUME Base, KeyInv, NEW t \in Task, Turn(t), Resumes(t) \/ Begun(t)
    PROVE  KeyInv'
<1>1. Types /\ stack' = stack
  BY DEF Base, Turn, nativeVars
<1>2. ASSUME NEW u \in Task, NEW c \in Calls, Owes(u, c)
      PROVE  Owes(u, c)'
  <2>1. CASE u # t
    <3>1. job'[u] = job[u] /\ task'[u] = task[u]
      BY <2>1 DEF Turn, Runs, Only
    <3>2. Answered(u, "ok")' => Answered(u, "ok")
      <4>1. "ok" \in Completed
        BY DEF Completed
      <4> QED BY <2>1, <4>1, TurnAnswers
    <3> QED BY <1>2, <3>1, <3>2 DEF Owes
  <2>2. CASE u = t /\ Begun(t)
    BY <1>2, <2>2 DEF Begun, Owes, NoJob, Job
  <2>3. CASE u = t /\ Resumes(t)
    BY <1>2, <2>3, DigitOwes
  <2> QED BY <2>1, <2>2, <2>3
<1>3. \A d \in Calls : stack'[d].key => stack[d].key /\ stack'[d].live = stack[d].live
  BY <1>1
<1> QED BY <1>1, <1>2, <1>3, KeysHeld

LEMMA EventKeys ==
    ASSUME Base, KeyInv, DispatchEvent
    PROVE  KeyInv'
<1>1. Types /\ TaskInv /\ NewsInv /\ stack' = stack
  BY DEF Base, DispatchEvent, nativeVars
<1>2. \A u \in Task : Spawns(u, Head(ready).ev) \/ Hears(u, Head(ready).ev)
  BY <1>1, EventStep
<1>3. Quiet
  BY EventAnswers
<1>4. ASSUME NEW u \in Task, NEW c \in Calls, Owes(u, c)
      PROVE  Owes(u, c)'
  <2>1. CASE Spawns(u, Head(ready).ev)
    BY <1>4, <2>1 DEF Spawns, Owes, NoJob, Job
  <2>2. CASE Hears(u, Head(ready).ev)
    BY <1>3, <1>4, <2>2, OwesOn DEF Hears
  <2> QED BY <1>2, <2>1, <2>2
<1>5. \A d \in Calls : stack'[d].key => stack[d].key /\ stack'[d].live = stack[d].live
  BY <1>1
<1> QED BY <1>1, <1>4, <1>5, KeysHeld

(* The steps that leave the coroutines where they are. *)
LEMMA StillKeys ==
    ASSUME Base, KeyInv, Quiet, job' = job, \A u \in Task : task'[u].out = task[u].out,
           \A d \in Calls : stack'[d].key => stack[d].key /\ stack'[d].live = stack[d].live
    PROVE  KeyInv'
<1>1. \A u \in Task, c \in Calls : Owes(u, c) => Owes(u, c)'
  BY OwesOn
<1> QED BY <1>1, KeysHeld DEF Base

LEMMA CarriesKeys ==
    ASSUME Base, KeyInv, NEW q \in Order, NEW r \in Completed, Carries(q, r), Kept
    PROVE  KeyInv'
<1>1. /\ Types /\ OrderInv /\ ItemInv /\ TaskInv /\ task' = task /\ job' = job
  BY DEF Base, Kept
<1>2. /\ OrderOK(q) /\ Expects(q.by, q.no) /\ q.by \in Task /\ q.no \in Nat
      /\ \A d \in Calls : CallAfter(q, r, d)
  BY <1>1 DEF Carries, Serves, OrderInv, ItemInv, Order
<1>3. \A u \in Task : Answered(u, "ok")' => Answered(u, "ok") \/ (u = q.by /\ r = "ok")
  <2>1. "ok" \in Completed
    BY DEF Completed
  <2> QED BY <2>1, CarriesAnswers
<1>4. ASSUME NEW u \in Task, NEW c \in Calls, Owes(u, c), ~(u = q.by /\ r = "ok" /\ job[u].step = "release")
      PROVE  Owes(u, c)'
  BY <1>1, <1>3, <1>4 DEF Owes
<1>5. ASSUME NEW c \in Calls, job[q.by].step = "release", Owes(q.by, c)
      PROVE  q.op = "digit" /\ ~q.arg /\ q.on = c
  <2>1. task[q.by].at = "awaiting" /\ job[q.by].kind = "dtmf" /\ job[q.by].call = c
    BY <1>1, <1>2, <1>5 DEF Expects, TaskInv, TaskOK, Owes
  <2>2. q.op \in Op
    BY DEF Order
  <2>3. q.op = "digit"
    BY <2>1, <2>2, <1>2 DEF OrderOK, Op, Transferring, Registers
  <2> QED BY <1>2, <1>5, <2>1, <2>3 DEF OrderOK
<1>6. ASSUME NEW c \in Calls, q.op = "digit", q.arg, q.on = c
      PROVE  Owes(q.by, c)'
  <2>1. job[q.by].kind = "dtmf" /\ job[q.by].call = c
        /\ (task[q.by].at = "awaiting" => job[q.by].step = "press")
    BY <1>2, <1>6 DEF OrderOK
  <2>2. TaskOK(q.by)
    BY <1>1, <1>2 DEF TaskInv
  <2>3. CASE task[q.by].at = "awaiting"
    BY <1>1, <2>1, <2>2, <2>3 DEF Owes, TaskOK, Running
  <2>4. CASE task[q.by].at = "over" /\ task[q.by].out = "raised"
    BY <1>1, <2>1, <2>2, <2>4 DEF Owes, TaskOK
  <2> QED BY <1>2, <2>3, <2>4 DEF Expects
<1> SUFFICES ASSUME NEW c \in Calls, stack'[c].key
             PROVE  stack'[c].live /\ \E t \in Task : Owes(t, c)'
  BY DEF KeyInv
<1>7. /\ stack'[c].live = stack[c].live
      /\ stack'[c].key = IF q.op = "digit" /\ r = "ok" /\ c = q.on THEN q.arg ELSE stack[c].key
  BY <1>2 DEF CallAfter
<1>8. CASE q.op = "digit" /\ r = "ok" /\ c = q.on
  <2>1. q.arg /\ Owes(q.by, c)'
    BY <1>6, <1>7, <1>8
  <2>2. stack[c].live
    BY <1>8 DEF Carries, CallCommand
  <2> QED BY <1>2, <1>7, <2>1, <2>2
<1>9. CASE ~(q.op = "digit" /\ r = "ok" /\ c = q.on)
  <2>1. stack[c].key /\ stack[c].live
    BY <1>7, <1>9 DEF KeyInv
  <2>2. PICK u \in Task : Owes(u, c)
    BY <2>1 DEF KeyInv
  <2>3. Owes(u, c)'
    BY <1>4, <1>5, <1>9, <2>2
  <2> QED BY <1>7, <2>1, <2>3
<1> QED BY <1>8, <1>9

(* The steps that leave the coroutines where they are: a completion that is *)
(* dispatched, a timer, a report, news from the network.                    *)
LEMMA Stays ==
    ASSUME Base, Blurs, (DispatchDone /\ AppKept) \/ (\E t \in Task : Timer(t)) \/ (Report /\ AppKept)
    PROVE  /\ Quiet /\ job' = job /\ obj' = obj /\ app' = app /\ stack' = stack /\ registrar' = registrar
           /\ queue' = queue /\ ops' = ops /\ news' = news /\ due' = due /\ registered' = registered
           /\ task' \in [Task -> Coroutine]
           /\ \A u \in Task : task'[u].at = task[u].at /\ task'[u].out = task[u].out /\ task'[u].no = task[u].no
<1>0. Types
  BY DEF Base
<1>1. CASE DispatchDone /\ AppKept
  <2>1. PICK v \in Task : Settles(v, 1)
    BY <1>1, DoneStep DEF Base, AppKept
  <2> QED BY <1>1, <2>1, DoneAnswers DEF Settles, nativeVars
<1>2. ASSUME NEW t \in Task, Timer(t)
      PROVE  /\ Quiet /\ job' = job /\ obj' = obj /\ app' = app /\ stack' = stack /\ registrar' = registrar
             /\ queue' = queue /\ ops' = ops /\ news' = news /\ due' = due /\ registered' = registered
             /\ task' \in [Task -> Coroutine]
             /\ \A u \in Task : task'[u].at = task[u].at /\ task'[u].out = task[u].out /\ task'[u].no = task[u].no
  <2>1. Settles(t, 0)
    BY <1>2, TimerStep DEF Base
  <2>2. Quiet
    BY <1>2, TimerAnswers
  <2>3. registered' = registered
    BY <1>2 DEF Timer, Rings
  <2> QED BY <2>1, <2>2, <2>3 DEF Settles, nativeVars
<1>3. CASE Report /\ AppKept
  BY <1>0, <1>3, ReportAnswers DEF Report, AppKept, nativeVars, Types
<1> QED BY <1>1, <1>2, <1>3

LEMMA KeyNext ==
    ASSUME Base, KeyInv, Next
    PROVE  KeyInv'
<1>1. Stepping /\ Blurs
  BY NextSteps
<1>2. CASE Application
  <2>1. NextOne \in Task /\ Begun(NextOne) /\ Turn(NextOne)
    BY <1>2, ApplicationTurn DEF Base
  <2>2. PICK t \in Task : Begun(t) /\ Turn(t)
    BY <2>1
  <2> QED BY <2>2, TurnKeys
<1>3. ASSUME NEW t \in Task, GoesOn(t)
      PROVE  KeyInv'
  <2>1. Resumes(t) /\ Turn(t)
    BY <1>3, GoesOnTurn DEF Base
  <2> QED BY <2>1, TurnKeys
<1>4. CASE DispatchEvent
  BY <1>4, EventKeys
<1>5. CASE (DispatchDone /\ AppKept) \/ (\E t \in Task : Timer(t)) \/ (Report /\ AppKept)
  <2>1. Quiet /\ job' = job /\ stack' = stack /\ \A u \in Task : task'[u].out = task[u].out
    BY <1>1, <1>5, Stays
  <2>2. \A d \in Calls : stack'[d].key => stack[d].key /\ stack'[d].live = stack[d].live
    BY <2>1
  <2> QED BY <2>1, <2>2, StillKeys
<1>6. ASSUME NEW q \in Order, NEW r \in Completed, Carries(q, r) /\ Kept
      PROVE  KeyInv'
  BY <1>6, CarriesKeys
<1>7. CASE Network
  <2>1. Quiet /\ job' = job /\ task' = task
        /\ \A d \in Calls : stack'[d].key => stack[d].key /\ stack'[d].live = stack[d].live
    BY <1>7, NetworkStep, NetworkAnswers DEF NetworkStack, NetworkKept
  <2> QED BY <2>1, StillKeys
<1> QED BY <1>1, <1>2, <1>3, <1>4, <1>5, <1>6, <1>7 DEF Stepping

-----------------------------------------------------------------------------
(* The registrar.                                                          *)

(* Whoever has registered or unregistered is one of the operations begun. *)
LEMMA RegistersBegun ==
    ASSUME Base, NEW u \in Task, job[u].kind \in Registers
    PROVE  u <= ops /\ u < NextOne
<1>1. /\ TaskOK(u) /\ NumberOK(u) /\ ops \in Nat /\ app.ops \in Nat /\ u \in Nat
  BY RequestsAssumption DEF Base, TaskInv, Types, Task
<1>2. task[u].at # "idle"
  BY <1>1 DEF TaskOK, NoJob, Job, Registers
<1>3. u <= app.ops
  BY <1>1 DEF NumberOK, Registers
<1>4. u <= ops
  BY <1>1, <1>2, <1>3 DEF NumberOK
<1> QED BY <1>1, <1>4 DEF NextOne

(* The un-REGISTERs that count had counted before. *)
Fulfilling == \A u \in Task : Fulfilled(u)' => Fulfilled(u)
KindsKept == \A u \in Task : job[u].kind \in Registers => job'[u].kind \in Registers

LEMMA RegisterKept ==
    ASSUME Base, RegisterInv, queue' = queue, Fulfilling, KindsKept, \A t \in Task : Gone(t) => Gone(t)'
    PROVE  RegisterInv'
<1>1. ASSUME NEW t \in Task, LastRegistration(t)'
      PROVE  LastRegistration(t)
  <2>1. \A u \in t + 1 .. MaxTasks : u \in Task
    BY RequestsAssumption DEF Task
  <2> QED BY <1>1, <2>1 DEF LastRegistration, KindsKept
<1> QED BY <1>1 DEF RegisterInv, Fulfilling

LEMMA BeginRegisters ==
    ASSUME Base, RegisterInv, NEW t \in Task, t = NextOne, OperationBegins(t), Begun(t), Turn(t)
    PROVE  RegisterInv'
<1>1. Types /\ TaskInv /\ OrderInv /\ registrar' = registrar
  BY DEF Base, Turn, nativeVars
<1>2. /\ task[t] = Idle /\ job[t] = NoJob /\ ~GaveUp(t)
      /\ \A u \in Task : u # t => task'[u] = task[u] /\ job'[u] = job[u]
  BY DEF Begun, GaveUp, Idle, Turn, Runs, Only
<1>3. \A i \in 1 .. Len(queue) : queue[i].op \in Registers => queue[i].by < t /\ queue[i].by \in Task
  <2> SUFFICES ASSUME NEW i \in 1 .. Len(queue), queue[i].op \in Registers
               PROVE  queue[i].by < t /\ queue[i].by \in Task
    OBVIOUS
  <2>1. PICK u \in Task : u = queue[i].by
    BY <1>1, Parties
  <2>2. job[u].kind \in Registers
    BY <1>1, <2>1 DEF OrderInv, OrderOK
  <2> QED BY <2>1, <2>2, RegistersBegun
<1>4. \A i \in 1 .. Len(queue') :
              \/ i \in 1 .. Len(queue) /\ queue'[i] = queue[i]
              \/ i = Len(queue) + 1 /\ queue'[i].by = t
  BY <1>1, QueueAfter
<1>5. ~Fulfilled(t)'
  <2>1. ASSUME Fulfilled(t)'
        PROVE  FALSE
    <3>1. job'[t].kind = "unregister"
      BY <2>1 DEF Fulfilled
    <3>2. RegistrationBegins(t)
      BY <3>1 DEF OperationBegins, HoldBegins, VideoBegins, TransferBegins, DecisionBegins, DtmfBegins,
                    AttendedBegins, Starts
    <3>3. /\ job'[t].step # "answer" /\ task'[t].out # "ok"
          /\ ~(task'[t].at = "awaiting" /\ task'[t].fut = "ok")
      BY <3>2 DEF RegistrationBegins, Asks1, Pushed, Leaves, Registers
    <3>4. ~DoneIn(ready, t, "ok")' /\ ~DoneIn(telling, t, "ok")'
      BY <1>2, TurnAnswers
    <3> QED BY <2>1, <3>3, <3>4 DEF Fulfilled, Answered
  <2> QED BY <2>1
<1>6. ASSUME NEW u \in Task, Fulfilled(u)'
      PROVE  u # t /\ Fulfilled(u) /\ u < t
  <2>1. u # t
    BY <1>5, <1>6
  <2>2. Answered(u, "ok")' => Answered(u, "ok")
    <3>1. "ok" \in Completed
      BY DEF Completed
    <3> QED BY <2>1, <3>1, TurnAnswers
  <2>3. Fulfilled(u)
    BY <1>2, <1>6, <2>1, <2>2 DEF Fulfilled
  <2>4. job[u].kind \in Registers
    BY <2>3 DEF Fulfilled, Registers
  <2> QED BY <2>1, <2>3, <2>4, RegistersBegun
<1>7. ASSUME NEW u \in Task, LastRegistration(u)'
      PROVE  LastRegistration(u)
  <2>1. \A v \in u + 1 .. MaxTasks : v \in Task
    BY RequestsAssumption DEF Task
  <2>2. job[t].kind \notin Registers
    BY <1>2 DEF NoJob, Job, Registers
  <2> QED BY <1>2, <1>7, <2>1, <2>2 DEF LastRegistration
<1>8. \A u \in Task : Gone(u) => Gone(u)'
  BY <1>1 DEF Gone
<1>9. \A i, k \in 1 .. Len(queue') :
          i < k /\ queue'[i].op \in Registers /\ queue'[k].op \in Registers => queue'[i].by < queue'[k].by
  <2> SUFFICES ASSUME NEW i \in 1 .. Len(queue'), NEW k \in 1 .. Len(queue'), i < k,
                      queue'[i].op \in Registers, queue'[k].op \in Registers
               PROVE  queue'[i].by < queue'[k].by
    OBVIOUS
  <2>1. Len(queue) \in Nat /\ i \in Nat /\ k \in Nat
    BY <1>1 DEF Types
  <2>2. CASE k \in 1 .. Len(queue) /\ queue'[k] = queue[k]
    <3>1. i \in 1 .. Len(queue) /\ queue'[i] = queue[i]
      BY <1>4, <2>1, <2>2
    <3> QED BY <2>2, <3>1 DEF RegisterInv
  <2>3. CASE k = Len(queue) + 1 /\ queue'[k].by = t
    <3>1. i \in 1 .. Len(queue) /\ queue'[i] = queue[i]
      BY <1>4, <2>1, <2>3
    <3> QED BY <1>3, <2>3, <3>1
  <2> QED BY <1>4, <2>2, <2>3
<1>10. ASSUME NEW u \in Task, Fulfilled(u)', NEW i \in 1 .. Len(queue'), queue'[i].op \in Registers
       PROVE  u < queue'[i].by
  BY <1>4, <1>6, <1>10 DEF RegisterInv
<1>11. ASSUME NEW u \in Task, Fulfilled(u)', LastRegistration(u)'
       PROVE  Gone(u)'
  BY <1>6, <1>7, <1>8, <1>11 DEF RegisterInv
<1> QED BY <1>9, <1>10, <1>11 DEF RegisterInv

LEMMA ResumeRegisters ==
    ASSUME Base, RegisterInv, NEW t \in Task, Resumes(t), Turn(t)
    PROVE  RegisterInv'
<1>1. Types /\ TaskInv /\ registrar' = registrar
  BY DEF Base, Turn, nativeVars
<1>2. /\ SameOp(job'[t], job[t]) /\ Running(t)
      /\ \A q \in Order : queue' = Append(queue, q) => q.op \notin Registers
  BY <1>1, ResumesRuns DEF Resumes
<1>3. \A u \in Task : u # t => task'[u] = task[u] /\ job'[u] = job[u]
  BY DEF Turn, Runs, Only
<1>4. \A u \in Task : job'[u].kind = job[u].kind
  BY <1>2, <1>3 DEF SameOp
<1>5. \A i \in 1 .. Len(queue') :
              \/ i \in 1 .. Len(queue) /\ queue'[i] = queue[i]
              \/ queue'[i].op \notin Registers
  <2> SUFFICES ASSUME NEW i \in 1 .. Len(queue')
               PROVE  \/ i \in 1 .. Len(queue) /\ queue'[i] = queue[i]
                      \/ queue'[i].op \notin Registers
    OBVIOUS
  <2>1. CASE i = Len(queue) + 1 /\ queue'[i] \in Order /\ queue' = Append(queue, queue'[i])
    <3>1. PICK q \in Order : q = queue'[i]
      BY <2>1
    <3> QED BY <1>2, <2>1, <3>1
  <2> QED BY <1>1, <2>1, QueueAfter
<1>6. Fulfilled(t)' => Fulfilled(t)
  <2> SUFFICES ASSUME Fulfilled(t)'
               PROVE  Fulfilled(t)
    OBVIOUS
  <2>1. job[t].kind = "unregister"
    BY <1>4 DEF Fulfilled
  <2>2. /\ task[t].at \in {"starting", "awaiting", "waiting", "sleeping"}
        /\ job[t].step \in Commanding => task[t].at = "awaiting" /\ job[t].kind \in Kinds(job[t].step)
        /\ task[t].at = "awaiting" => job[t].step \in Commanding
        /\ task[t].at = "waiting" => job[t].step \in {"outcome", "answer"} /\ job[t].kind \in Kinds(job[t].step)
        /\ task[t].at = "sleeping" => job[t].kind = "dtmf"
        /\ task[t].at = "starting" => job[t].kind = "policy"
    BY <1>1, <1>2, WhereItIs
  <2>3. CASE task[t].at = "waiting"
    BY <2>1, <2>2, <2>3 DEF Fulfilled, Kinds
  <2>4. CASE task[t].at = "awaiting"
    <3>1. job[t].step = "unregister"
      BY <2>1, <2>2, <2>4 DEF Kinds, Commanding, Registers
    <3>2. SentGoesOn(t)
      BY <2>1, <2>4, <3>1 DEF Resumes, HoldGoesOn, UndoGoesOn, VideoGoesOn, OutcomeGoesOn,
                          DecisionGoesOn, PolicyGoesOn, DigitGoesOn
    <3>3. CASE Result(t) = "ok"
      <4>1. task[t].fut = "ok"
        BY <3>3 DEF Result
      <4> QED BY <2>1, <2>4, <4>1 DEF Fulfilled, Answered
    <3>4. CASE Concluded(t, "raised")
      <4>1. task'[t].at = "over" /\ task'[t].out = "raised" /\ job'[t].step = "none"
        BY <3>4 DEF Concluded, Leaves
      <4>2. Answered(t, "ok")'
        BY <4>1 DEF Fulfilled
      <4>3. Answered(t, "ok")
        <5>1. "ok" \in Completed
          BY DEF Completed
        <5> QED BY <4>1, <4>2, <5>1, TurnAnswers
      <4> QED BY <2>1, <4>3 DEF Fulfilled
    <3> QED BY <3>2, <3>3, <3>4 DEF SentGoesOn
  <2> QED BY <2>1, <2>2, <2>3, <2>4
<1>7. ASSUME NEW u \in Task, Fulfilled(u)'
      PROVE  Fulfilled(u)
  <2>1. CASE u # t
    <3>1. Answered(u, "ok")' => Answered(u, "ok")
      <4>1. "ok" \in Completed
        BY DEF Completed
      <4> QED BY <2>1, <4>1, TurnAnswers
    <3> QED BY <1>3, <1>7, <2>1, <3>1 DEF Fulfilled
  <2> QED BY <1>6, <1>7, <2>1
<1>8. ASSUME NEW u \in Task, LastRegistration(u)'
      PROVE  LastRegistration(u)
  <2>1. \A v \in u + 1 .. MaxTasks : v \in Task
    BY RequestsAssumption DEF Task
  <2> QED BY <1>4, <1>8, <2>1 DEF LastRegistration
<1>9. \A u \in Task : Gone(u) => Gone(u)'
  BY <1>1 DEF Gone
<1>10. \A i, k \in 1 .. Len(queue') :
          i < k /\ queue'[i].op \in Registers /\ queue'[k].op \in Registers => queue'[i].by < queue'[k].by
  BY <1>5 DEF RegisterInv
<1>11. ASSUME NEW u \in Task, Fulfilled(u)', NEW i \in 1 .. Len(queue'), queue'[i].op \in Registers
       PROVE  u < queue'[i].by
  BY <1>5, <1>7, <1>11 DEF RegisterInv
<1>12. ASSUME NEW u \in Task, Fulfilled(u)', LastRegistration(u)'
       PROVE  Gone(u)'
  BY <1>7, <1>8, <1>9, <1>12 DEF RegisterInv
<1> QED BY <1>10, <1>11, <1>12 DEF RegisterInv

(* An un-REGISTER is where it was. *)
Unmoved(u) ==
    \/ job'[u].kind = job[u].kind /\ job'[u].step = job[u].step /\ task'[u].out = task[u].out
    \/ job'[u].kind \notin Registers /\ job[u].kind \notin Registers

LEMMA StillFulfilling ==
    ASSUME Quiet, \A u \in Task : Unmoved(u)
    PROVE  Fulfilling /\ KindsKept
<1>1. "ok" \in Completed
  BY DEF Completed
<1> QED BY <1>1 DEF Fulfilling, KindsKept, Fulfilled, Quiet, Registers, Unmoved

LEMMA EventRegisters ==
    ASSUME Base, RegisterInv, DispatchEvent
    PROVE  RegisterInv'
<1>1. Types /\ TaskInv /\ NewsInv /\ queue' = queue /\ registrar' = registrar
  BY DEF Base, DispatchEvent, nativeVars
<1>2. \A u \in Task : Spawns(u, Head(ready).ev) \/ Hears(u, Head(ready).ev)
  BY <1>1, EventStep
<1>3. Quiet
  BY EventAnswers
<1>4. \A u \in Task : Unmoved(u)
  BY <1>2 DEF Spawns, Hears, Job, NoJob, Registers, Unmoved
<1>5. Fulfilling /\ KindsKept
  BY <1>3, <1>4, StillFulfilling
<1>6. \A u \in Task : Gone(u) => Gone(u)'
  BY <1>1 DEF Gone
<1> QED BY <1>1, <1>5, <1>6, RegisterKept

LEMMA CarriesRegisters ==
    ASSUME Base, RegisterInv, NEW q \in Order, NEW r \in Completed, Carries(q, r), Kept
    PROVE  RegisterInv'
<1>1. /\ Types /\ OrderInv /\ ItemInv /\ TaskInv /\ task' = task /\ job' = job
  BY DEF Base, Kept
<1>2. /\ OrderOK(q) /\ q.by \in Task /\ RegistrarAfter(q, r) /\ q = queue[1] /\ 1 \in 1 .. Len(queue)
      /\ \A i \in 1 .. Len(queue') : i + 1 \in 1 .. Len(queue) /\ queue'[i] = queue[i + 1]
      /\ (q.op = "unregister" => r = "ok") /\ q.op \in Op
  BY <1>1 DEF Carries, Serves, OrderInv, Order
<1>3. \A u \in Task : Answered(u, "ok")' => Answered(u, "ok") \/ (u = q.by /\ r = "ok")
  <2>1. "ok" \in Completed
    BY DEF Completed
  <2> QED BY <2>1, CarriesAnswers
<1>4. \A u \in Task : Fulfilled(u)' => Fulfilled(u) \/ (u = q.by /\ r = "ok" /\ job[u].kind = "unregister")
  BY <1>1, <1>3 DEF Fulfilled
<1>5. job[q.by].kind = "unregister" => q.op = "unregister"
  BY <1>2 DEF OrderOK, Op, Transferring, Registers, Refresh
<1>6. registrar.air \in Seq(Sending) /\ registrar \in Registrar
  BY <1>1 DEF Types, Registrar
<1>7. ASSUME NEW u \in Task, u = q.by, q.op = "unregister"
      PROVE  Gone(u)'
  <2>1. registrar' = [registrar EXCEPT !.air = Append(@, Sent1(q))] /\ Sent1(q) = Register("off", u)
    BY <1>2, <1>7 DEF RegistrarAfter, Registers, Sent1
  <2>2. registrar'.air = Append(registrar.air, Register("off", u))
    BY <1>6, <2>1 DEF Registrar
  <2>3. registrar'.air # <<>> /\ registrar'.air[Len(registrar'.air)] = Register("off", u)
    BY <1>6, <2>2
  <2> QED BY <2>3 DEF Gone
<1>8. \A i, k \in 1 .. Len(queue') :
          i < k /\ queue'[i].op \in Registers /\ queue'[k].op \in Registers => queue'[i].by < queue'[k].by
  <2> SUFFICES ASSUME NEW i \in 1 .. Len(queue'), NEW k \in 1 .. Len(queue'), i < k,
                      queue'[i].op \in Registers, queue'[k].op \in Registers
               PROVE  queue'[i].by < queue'[k].by
    OBVIOUS
  <2>1. /\ i + 1 \in 1 .. Len(queue) /\ queue'[i] = queue[i + 1]
        /\ k + 1 \in 1 .. Len(queue) /\ queue'[k] = queue[k + 1] /\ i + 1 < k + 1
    BY <1>2
  <2> QED BY <2>1 DEF RegisterInv
<1>9. ASSUME NEW u \in Task, Fulfilled(u)', NEW i \in 1 .. Len(queue'), queue'[i].op \in Registers
      PROVE  u < queue'[i].by
  <2>1. i + 1 \in 1 .. Len(queue) /\ queue'[i] = queue[i + 1] /\ 1 < i + 1
    BY <1>2
  <2>2. CASE Fulfilled(u)
    BY <1>9, <2>1, <2>2 DEF RegisterInv
  <2>3. CASE u = q.by /\ q.op = "unregister"
    <3>1. queue[1].op \in Registers /\ queue[i + 1].op \in Registers
      BY <1>2, <1>9, <2>1, <2>3 DEF Registers
    <3>2. queue[1].by < queue[i + 1].by
      BY <1>2, <2>1, <3>1 DEF RegisterInv
    <3> QED BY <1>2, <2>1, <2>3, <3>2
  <2> QED BY <1>4, <1>5, <1>9, <2>2, <2>3
<1>10. ASSUME NEW u \in Task, Fulfilled(u)', LastRegistration(u)'
       PROVE  Gone(u)'
  <2>1. LastRegistration(u)
    BY <1>1, <1>10 DEF LastRegistration
  <2>2. CASE Fulfilled(u)
    <3>1. Gone(u)
      BY <2>1, <2>2 DEF RegisterInv
    <3>2. q.op \notin Registers
      <4>1. ASSUME q.op \in Registers
            PROVE  FALSE
        <5>1. u < q.by
          BY <1>2, <2>2, <4>1 DEF RegisterInv
        <5>2. q.by \in u + 1 .. MaxTasks
          BY <1>2, <5>1, RequestsAssumption DEF Task
        <5>3. job[q.by].kind \in Registers
          BY <1>2, <4>1 DEF OrderOK
        <5> QED BY <2>1, <5>2, <5>3 DEF LastRegistration
      <4> QED BY <4>1
    <3> QED BY <1>2, <3>1, <3>2 DEF RegistrarAfter, Gone
  <2>3. CASE u = q.by /\ job[u].kind = "unregister"
    BY <1>5, <1>7, <2>3
  <2> QED BY <1>4, <1>10, <2>2, <2>3
<1> QED BY <1>8, <1>9, <1>10 DEF RegisterInv

LEMMA RegisterNext ==
    ASSUME Base, RegisterInv, Next
    PROVE  RegisterInv'
<1>1. Stepping /\ Blurs
  BY NextSteps
<1>2. CASE Application
  <2>1. NextOne \in Task /\ OperationBegins(NextOne) /\ Begun(NextOne) /\ Turn(NextOne)
    BY <1>2, ApplicationTurn DEF Base
  <2>2. PICK t \in Task : t = NextOne /\ OperationBegins(t) /\ Begun(t) /\ Turn(t)
    BY <2>1
  <2> QED BY <2>2, BeginRegisters
<1>3. ASSUME NEW t \in Task, GoesOn(t)
      PROVE  RegisterInv'
  <2>1. Resumes(t) /\ Turn(t)
    BY <1>3, GoesOnTurn DEF Base
  <2> QED BY <2>1, ResumeRegisters
<1>4. CASE DispatchEvent
  BY <1>4, EventRegisters
<1>5. CASE (DispatchDone /\ AppKept) \/ (\E t \in Task : Timer(t)) \/ (Report /\ AppKept)
  <2>1. Quiet /\ job' = job /\ registrar' = registrar /\ queue' = queue
        /\ \A u \in Task : task'[u].out = task[u].out
    BY <1>1, <1>5, Stays
  <2>2. \A u \in Task : Unmoved(u)
    BY <2>1 DEF Unmoved
  <2>3. Fulfilling /\ KindsKept
    BY <2>1, <2>2, StillFulfilling
  <2>4. \A u \in Task : Gone(u) => Gone(u)'
    BY <2>1 DEF Gone
  <2> QED BY <2>1, <2>3, <2>4, RegisterKept
<1>6. ASSUME NEW q \in Order, NEW r \in Completed, Carries(q, r) /\ Kept
      PROVE  RegisterInv'
  BY <1>6, CarriesRegisters
<1>7. CASE Network
  <2>1. Quiet /\ job' = job /\ task' = task /\ queue' = queue /\ (\A u \in Task : Gone(u) => Gone(u)')
    BY <1>7, NetworkStep, NetworkAnswers DEF NetworkStack, NetworkKept
  <2>2. \A u \in Task : Unmoved(u)
    BY <2>1 DEF Unmoved
  <2>3. Fulfilling /\ KindsKept
    BY <2>1, <2>2, StillFulfilling
  <2> QED BY <2>1, <2>3, RegisterKept
<1> QED BY <1>1, <1>2, <1>3, <1>4, <1>5, <1>6, <1>7 DEF Stepping

-----------------------------------------------------------------------------
(* Transfers.                                                              *)

LEMMA OperationBegun ==
    ASSUME Base, NEW u \in Task, job[u].kind \notin {"none", "policy"}
    PROVE  u <= ops /\ u < NextOne
<1>1. /\ TaskOK(u) /\ NumberOK(u) /\ ops \in Nat /\ app.ops \in Nat /\ u \in Nat
  BY RequestsAssumption DEF Base, TaskInv, Types, Task
<1>2. task[u].at # "idle"
  BY <1>1 DEF TaskOK, NoJob, Job
<1>3. u <= app.ops
  BY <1>1 DEF NumberOK
<1>4. u <= ops
  BY <1>1, <1>2, <1>3 DEF NumberOK
<1> QED BY <1>1, <1>4 DEF NextOne

LEMMA TransferRefers ==
    ASSUME Base, NEW u \in Task, Running(u), job[u].kind = "transfer"
    PROVE  Referring(u)
<1>1. Types /\ TaskInv
  BY DEF Base
<1>2. /\ task[u].at \in {"starting", "awaiting", "waiting", "sleeping"}
      /\ job[u].step \in Commanding => job[u].kind \in Kinds(job[u].step)
      /\ task[u].at = "awaiting" => job[u].step \in Commanding
      /\ task[u].at = "waiting" => job[u].step \in {"outcome", "answer"} /\ job[u].kind \in Kinds(job[u].step)
      /\ task[u].at = "sleeping" => job[u].kind = "dtmf"
      /\ task[u].at = "starting" => job[u].kind = "policy"
  BY <1>1, WhereItIs
<1>3. job[u].step \in {"refer", "outcome"}
  <2>1. CASE task[u].at = "awaiting"
    BY <1>2, <2>1 DEF Kinds, Commanding, Registers
  <2>2. CASE task[u].at = "waiting"
    BY <1>2, <2>2 DEF Kinds
  <2> QED BY <1>2, <2>1, <2>2
<1> QED BY <1>3 DEF Referring, Transferring

(* The flag of a call is turned by its own transfers only. *)
LEMMA BeginsPending ==
    ASSUME Base, NEW t \in Task, OperationBegins(t)
    PROVE  /\ \A d \in Calls : obj'[d].pending = obj[d].pending \/ (Transferring(t)' /\ d = job'[t].call)
           /\ Transferring(t)' => job'[t].call \in Calls /\ ~obj[job'[t].call].pending
<1>1. CASE \E c \in Calls : HoldBegins(t, c) \/ VideoBegins(t, c) \/ DecisionBegins(t, c) \/ DtmfBegins(t, c)
  BY <1>1 DEF HoldBegins, VideoBegins, DecisionBegins, DtmfBegins, Starts, Transferring
<1>2. CASE RegistrationBegins(t)
  BY <1>2 DEF RegistrationBegins, Starts, Transferring, Registers
<1>3. ASSUME NEW c \in Calls, TransferBegins(t, c)
      PROVE  /\ \A d \in Calls : obj'[d].pending = obj[d].pending \/ (Transferring(t)' /\ d = job'[t].call)
             /\ Transferring(t)' => job'[t].call \in Calls /\ ~obj[job'[t].call].pending
  <2>1. job'[t].kind = "transfer" /\ job'[t].call = c /\ ~obj[c].pending
    BY <1>3 DEF TransferBegins, Starts
  <2>2. Job("transfer", c).call = c
    BY DEF Job
  <2>3. \A d \in Calls : d # c => obj'[d].pending = obj[d].pending
    BY <1>3, <2>2 DEF TransferBegins, Refers, ButPending
  <2> QED BY <2>1, <2>3 DEF Transferring
<1>4. ASSUME NEW c \in Calls, NEW e \in Calls, AttendedBegins(t, c, e)
      PROVE  /\ \A d \in Calls : obj'[d].pending = obj[d].pending \/ (Transferring(t)' /\ d = job'[t].call)
             /\ Transferring(t)' => job'[t].call \in Calls /\ ~obj[job'[t].call].pending
  <2>1. job'[t].kind = "attended" /\ job'[t].call = c /\ ~obj[c].pending
    BY <1>4 DEF AttendedBegins, Starts
  <2> DEFINE j == [Job("attended", c) EXCEPT !.with = e]
  <2>2. j.call = c /\ j \in Local
    <3>1. c \in Where /\ e \in Where /\ "attended" \in Operation \cup {"policy"}
      BY DEF Where, Operation
    <3>2. Job("attended", c) \in Local /\ Job("attended", c).call = c
      BY <3>1, JobIs
    <3> QED BY <3>1, <3>2 DEF Local
  <2> HIDE DEF j
  <2>3. obj \in [Calls -> Object] /\ Attends(t, j, 1, obj) /\ 1 \in 1 .. 3
    BY <1>4 DEF AttendedBegins, j, Base, Types
  <2>4. \A d \in Calls : d # j.call => obj'[d].pending = obj[d].pending
    BY <2>2, <2>3, AttendsObjects
  <2> QED BY <2>1, <2>2, <2>4 DEF Transferring
<1> QED BY <1>1, <1>2, <1>3, <1>4 DEF OperationBegins

LEMMA ResumesPending ==
    ASSUME Base, NEW t \in Task, Resumes(t)
    PROVE  \A d \in Calls : obj'[d].pending = obj[d].pending \/ (Transferring(t) /\ d = job[t].call)
<1>1. Types /\ TaskInv /\ Running(t)
  BY DEF Base, Resumes
<1>2. CASE HoldGoesOn(t)
  <2>1. job[t].step \in {"hold", "undo"}
    BY <1>2 DEF HoldGoesOn
  <2>2. /\ HeldCalls(t) \in [Calls -> Object]
        /\ \A d \in Calls : HeldCalls(t)[d].pending = obj[d].pending
    BY <1>1, <2>1, HeldCallsIs
  <2>3. CASE obj' = obj
    BY <2>3
  <2>4. CASE obj' = HeldCalls(t)
    BY <2>2, <2>4
  <2>5. CASE job[t].kind = "attended" /\ Attends(t, job[t], job[t].leg + 1, HeldCalls(t))
    <3>1. job[t] \in Local /\ job[t].call \in Calls
      BY <1>1, <2>5, WhereItIs DEF Types, Registers
    <3>2. job[t].leg + 1 \in 1 .. 3
      BY <3>1 DEF Local
    <3>3. \A d \in Calls : d # job[t].call => obj'[d].pending = HeldCalls(t)[d].pending
      BY <2>2, <2>5, <3>1, <3>2, AttendsObjects
    <3> QED BY <2>2, <2>5, <3>3 DEF Transferring
  <2> QED BY <1>2, <2>3, <2>4, <2>5 DEF HoldGoesOn
<1>3. CASE UndoGoesOn(t) \/ VideoGoesOn(t) \/ DecisionGoesOn(t) \/ PolicyGoesOn(t) \/ DigitGoesOn(t)
  BY <1>3 DEF UndoGoesOn, VideoGoesOn, DecisionGoesOn, PolicyGoesOn, DigitGoesOn
<1>4. CASE SentGoesOn(t) \/ OutcomeGoesOn(t)
  BY <1>4 DEF SentGoesOn, OutcomeGoesOn, Concluded
<1> QED BY <1>2, <1>3, <1>4 DEF Resumes

(* A step that leaves the transfers and the flags as they are. *)
StillTransfers ==
    /\ \A c \in Calls : obj'[c].pending = obj[c].pending
    /\ \A u \in Task : \/ /\ job'[u].kind = job[u].kind /\ job'[u].call = job[u].call
                          /\ job'[u].step = job[u].step /\ (Running(u)' <=> Running(u))
                       \/ ~Transferring(u) /\ ~Transferring(u)'

LEMMA StillAlone ==
    ASSUME Base, AloneInv, StillTransfers
    PROVE  AloneInv'
<1> SUFFICES ASSUME NEW t \in Task, Referring(t)', ~AttendedBefore(t)'
             PROVE  Alone(t)'
  BY DEF AloneInv
<1>1. /\ job'[t].kind = job[t].kind /\ job'[t].call = job[t].call /\ job'[t].step = job[t].step
      /\ Referring(t)
  BY DEF StillTransfers, Referring, Transferring
<1>2. ~AttendedBefore(t)
  <2>1. \A w \in 1 .. t : w \in Task
    BY RequestsAssumption DEF Task
  <2> QED BY <1>1, <2>1 DEF AttendedBefore, StillTransfers, Transferring
<1>3. Alone(t)
  BY <1>1, <1>2 DEF AloneInv
<1>4. job[t].call \in Calls
  BY <1>1, WhereItIs DEF Base, Referring, Transferring, Registers
<1> QED BY <1>1, <1>3, <1>4 DEF Alone, StillTransfers, Transferring

LEMMA BeginAlone ==
    ASSUME Base, AloneInv, NEW t \in Task, t = NextOne, OperationBegins(t), Begun(t), Turn(t)
    PROVE  AloneInv'
<1>1. /\ task[t] = Idle /\ job[t] = NoJob
      /\ \A u \in Task : u # t => task'[u] = task[u] /\ job'[u] = job[u]
      /\ ~Transferring(t) /\ ~Running(t)
  BY DEF Begun, Turn, Runs, Only, Transferring, NoJob, Job, Running, Idle
<1>2. /\ \A d \in Calls : obj'[d].pending = obj[d].pending \/ (Transferring(t)' /\ d = job'[t].call)
      /\ Transferring(t)' => job'[t].call \in Calls /\ ~obj[job'[t].call].pending
  BY BeginsPending
<1>3. \A u \in Task : u # t => /\ Running(u)' <=> Running(u)
                               /\ Transferring(u)' <=> Transferring(u)
                               /\ Referring(u)' <=> Referring(u)
  BY <1>1 DEF Running, Transferring, Referring
<1>4. \A u \in Task : Transferring(u) => u < t /\ job[u].call \in Calls
  <2>1. ASSUME NEW u \in Task, Transferring(u)
        PROVE  u < t /\ job[u].call \in Calls
    <3>1. JobOK(job[u])
      BY DEF Base, TaskInv, TaskOK
    <3> QED BY <2>1, <3>1, OperationBegun DEF Transferring, JobOK, Registers
  <2> QED BY <2>1
<1>5. \A u \in Task : u < t => (AttendedBefore(u)' <=> AttendedBefore(u))
  <2> SUFFICES ASSUME NEW u \in Task, u < t
               PROVE  AttendedBefore(u)' <=> AttendedBefore(u)
    OBVIOUS
  <2>1. \A w \in 1 .. u : w \in Task /\ w # t
    BY RequestsAssumption DEF Task
  <2>2. \A w \in 1 .. u : job'[w] = job[w]
    BY <1>1, <2>1
  <2>3. job'[u] = job[u]
    BY <1>1, RequestsAssumption DEF Task
  <2> QED BY <2>2, <2>3 DEF AttendedBefore
<1> SUFFICES ASSUME NEW v \in Task, Referring(v)', ~AttendedBefore(v)'
             PROVE  Alone(v)'
  BY DEF AloneInv
<1>6. CASE v # t
  <2>1. Referring(v) /\ Transferring(v) /\ v < t /\ job[v].call \in Calls
    BY <1>3, <1>4, <1>6 DEF Referring
  <2>2. Alone(v)
    BY <1>5, <2>1 DEF AloneInv
  <2>3. ~(Transferring(t)' /\ job'[t].call = job[v].call)
    BY <1>2, <2>2 DEF Alone
  <2>4. obj'[job[v].call].pending
    BY <1>2, <2>1, <2>2, <2>3 DEF Alone
  <2>5. ASSUME NEW u \in Task, u # v, Transferring(u)', job'[u].call = job'[v].call
        PROVE  ~Running(u)'
    <3>1. u # t
      BY <1>1, <1>6, <2>3, <2>5
    <3> QED BY <1>1, <1>3, <1>6, <2>2, <2>5, <3>1 DEF Alone
  <2> QED BY <1>1, <1>6, <2>4, <2>5 DEF Alone
<1>7. CASE v = t
  <2>1. Transferring(t)' /\ job'[t].kind # "attended"
    <3>1. t \in 1 .. t
      BY RequestsAssumption DEF Task
    <3> QED BY <1>7, <3>1 DEF Referring, AttendedBefore, Transferring
  <2>2. PICK c \in Calls : TransferBegins(t, c)
    BY <2>1 DEF OperationBegins, HoldBegins, VideoBegins, DecisionBegins, DtmfBegins, AttendedBegins,
                  RegistrationBegins, Starts, Transferring, Registers
  <2>3. job'[t].call = c /\ job'[t].kind = "transfer" /\ Job("transfer", c).call = c
    BY <2>2 DEF TransferBegins, Starts, Job
  <2>4. obj'[c].pending
    BY <1>7, <2>2, <2>3 DEF TransferBegins, Refers, Leaves, Referring, Running
  <2>5. ASSUME NEW u \in Task, u # t, Transferring(u), job[u].call = c, Running(u)
        PROVE  FALSE
    <3>1. u < t
      BY <1>4, <2>5
    <3>2. \A w \in 1 .. u : w \in 1 .. t /\ w # t /\ w \in Task
      BY <3>1, RequestsAssumption DEF Task
    <3>3. ~AttendedBefore(u)
      BY <1>1, <1>7, <2>3, <2>5, <3>2 DEF AttendedBefore
    <3>4. job[u].kind # "attended"
      <4>1. u \in 1 .. u
        BY RequestsAssumption DEF Task
      <4> QED BY <3>3, <4>1 DEF AttendedBefore
    <3>5. Referring(u)
      BY <2>5, <3>4, TransferRefers DEF Transferring
    <3>6. obj[c].pending
      BY <2>5, <3>3, <3>5 DEF AloneInv, Alone
    <3> QED BY <1>2, <2>1, <2>3, <3>6
  <2> QED BY <1>1, <1>3, <1>7, <2>3, <2>4, <2>5 DEF Alone
<1> QED BY <1>6, <1>7

LEMMA ResumeAlone ==
    ASSUME Base, AloneInv, NEW t \in Task, Resumes(t), Turn(t)
    PROVE  AloneInv'
<1>1. /\ SameOp(job'[t], job[t]) /\ Running(t)
      /\ \A u \in Task : u # t => task'[u] = task[u] /\ job'[u] = job[u]
  BY ResumesRuns DEF Base, Resumes, Turn, Runs, Only
<1>2. \A d \in Calls : obj'[d].pending = obj[d].pending \/ (Transferring(t) /\ d = job[t].call)
  BY ResumesPending
<1>3. \A u \in Task : /\ job'[u].kind = job[u].kind /\ job'[u].call = job[u].call
                      /\ (Transferring(u)' <=> Transferring(u))
                      /\ (Running(u)' => Running(u))
  BY <1>1 DEF SameOp, Transferring, Running
<1>4. \A u \in Task : AttendedBefore(u)' <=> AttendedBefore(u)
  <2>1. \A u \in Task : \A w \in 1 .. u : w \in Task
    BY RequestsAssumption DEF Task
  <2> QED BY <1>3, <2>1 DEF AttendedBefore
<1> SUFFICES ASSUME NEW v \in Task, Referring(v)', ~AttendedBefore(v)'
             PROVE  Alone(v)'
  BY DEF AloneInv
<1>5. Referring(v)
  <2>1. job[v].kind = "transfer" /\ Running(v)
    <3>1. v \in 1 .. v
      BY RequestsAssumption DEF Task
    <3> QED BY <1>3, <1>4, <3>1 DEF Referring, AttendedBefore, Transferring
  <2> QED BY <2>1, TransferRefers
<1>6. Alone(v) /\ job[v].call \in Calls
  <2>1. JobOK(job[v])
    BY DEF Base, TaskInv, TaskOK
  <2> QED BY <1>4, <1>5, <2>1 DEF AloneInv, Referring, Transferring, JobOK, Registers
<1>7. obj'[job[v].call].pending
  <2>1. CASE v # t
    BY <1>1, <1>2, <1>6, <2>1 DEF Alone
  <2>2. CASE v = t
    <3>1. Transferring(t) /\ job[t].step \in {"refer", "outcome"} /\ task'[t].at # "over"
      BY <1>5, <2>2 DEF Referring, Running
    <3>2. ~HoldGoesOn(t) /\ ~UndoGoesOn(t) /\ ~VideoGoesOn(t)
      BY <3>1 DEF HoldGoesOn, UndoGoesOn, VideoGoesOn
    <3>3. ~DecisionGoesOn(t) /\ ~PolicyGoesOn(t) /\ ~DigitGoesOn(t)
      BY <3>1 DEF DecisionGoesOn, PolicyGoesOn, DigitGoesOn, Transferring
    <3>4. ~\E o : Concluded(t, o)
      BY <3>1 DEF Concluded, Leaves
    <3>5. obj' = obj
      BY <3>2, <3>3, <3>4 DEF Resumes, SentGoesOn, OutcomeGoesOn
    <3> QED BY <1>6, <3>5 DEF Alone
  <2> QED BY <2>1, <2>2
<1> QED BY <1>3, <1>6, <1>7 DEF Alone

LEMMA AloneNext ==
    ASSUME Base, AloneInv, Next
    PROVE  AloneInv'
<1>1. Stepping /\ Blurs
  BY NextSteps
<1>2. CASE Application
  <2>1. NextOne \in Task /\ OperationBegins(NextOne) /\ Begun(NextOne) /\ Turn(NextOne)
    BY <1>2, ApplicationTurn DEF Base
  <2>2. PICK t \in Task : t = NextOne /\ OperationBegins(t) /\ Begun(t) /\ Turn(t)
    BY <2>1
  <2> QED BY <2>2, BeginAlone
<1>3. ASSUME NEW t \in Task, GoesOn(t)
      PROVE  AloneInv'
  <2>1. Resumes(t) /\ Turn(t)
    BY <1>3, GoesOnTurn DEF Base
  <2> QED BY <2>1, ResumeAlone
<1>4. CASE DispatchEvent
  <2>1. /\ \A u \in Task : Spawns(u, Head(ready).ev) \/ Hears(u, Head(ready).ev)
        /\ EventObjects(Head(ready).ev)
    BY <1>4, EventStep, EventObjectsStep DEF Base
  <2>2. StillTransfers
    BY <2>1 DEF StillTransfers, EventObjects, Spawns, Hears, Transferring, Running, Job, NoJob
  <2> QED BY <2>2, StillAlone
<1>5. CASE (DispatchDone /\ AppKept) \/ (\E t \in Task : Timer(t)) \/ (Report /\ AppKept)
  <2>1. job' = job /\ obj' = obj /\ \A u \in Task : task'[u].at = task[u].at
    BY <1>1, <1>5, Stays
  <2>2. StillTransfers
    BY <2>1 DEF StillTransfers, Running
  <2> QED BY <2>2, StillAlone
<1>6. ASSUME job' = job, obj' = obj, task' = task
      PROVE  AloneInv'
  <2>1. StillTransfers
    BY <1>6 DEF StillTransfers, Running
  <2> QED BY <2>1, StillAlone
<1>7. ASSUME NEW q \in Order, NEW r \in Completed, Carries(q, r) /\ Kept
      PROVE  AloneInv'
  BY <1>6, <1>7 DEF Kept
<1>8. CASE Network
  BY <1>6, <1>8 DEF Network
<1> QED BY <1>1, <1>2, <1>3, <1>4, <1>5, <1>7, <1>8 DEF Stepping

-----------------------------------------------------------------------------
(* The way of a REFER.                                                     *)

Active(w) == Transferring(w) /\ (job[w].step \in {"refer", "outcome"} \/ task[w].at = "over")

OneOutcome(s) ==
    \A i, k \in 1 .. Len(s) :
        /\ IsNews(s[i], Outcomes) /\ IsNews(s[k], Outcomes)
        /\ s[i].ev.of # 0 /\ s[i].ev.of = s[k].ev.of
        => i = k

OneSubscription ==
    \A c, d \in Calls : stack[c].refer # 0 /\ stack[c].refer = stack[d].refer => c = d

LEMMA ReferParts ==
    ReferInv <=> (\A w \in Task : ReferOK(w)) /\ OneSubscription /\ OneOutcome(ready) /\ OneOutcome(telling)
BY DEF ReferInv, OneSubscription, OneOutcome

LEMMA ReferPartsNext ==
    ReferInv' <=> (\A w \in Task : ReferOK(w)') /\ OneSubscription' /\ OneOutcome(ready)' /\ OneOutcome(telling)'
BY DEF ReferInv, OneSubscription, OneOutcome

(* Nothing comes to be where the REFER of w is. *)
Stops(w) ==
    /\ Referred(w)' => Referred(w)
    /\ Subscribed(w)' => Subscribed(w)
    /\ OutcomeIn(telling, w)' => OutcomeIn(telling, w)
    /\ OutcomeIn(ready, w)' => OutcomeIn(ready, w)
    /\ Spent(w)' => Spent(w)

LEMMA StopsOK ==
    ASSUME NEW w \in Task, ReferOK(w), Stops(w), Active(w) => Active(w)'
    PROVE  ReferOK(w)'
BY DEF ReferOK, Stops, Active

LEMMA SpentKept ==
    ASSUME \A u \in Task : \/ Transferring(u)' = Transferring(u) /\ job'[u].verdict = job[u].verdict
                              /\ job'[u].whose = job[u].whose
                           \/ ~Transferring(u)' \/ job'[u].verdict = "none"
    PROVE  \A w \in Task : Spent(w)' => Spent(w)
BY DEF Spent

LEMMA SlidOutcomes ==
    ASSUME Types, NEW m \in 0 .. 1, Slid(m)
    PROVE  /\ \A w : OutcomeIn(ready, w)' => \E i \in 1 .. Len(ready) :
                        i > m /\ IsNews(ready[i], Outcomes) /\ ready[i].ev.of = w
           /\ OneOutcome(ready) => OneOutcome(ready)'
<1>0. Len(ready) \in Nat
  BY DEF Types
<1>1. ASSUME NEW i \in 1 .. Len(ready'), IsNews(ready'[i], Outcomes)
      PROVE  i + m \in 1 .. Len(ready) /\ ready'[i] = ready[i + m] /\ i + m > m
  BY <1>1 DEF Slid, IsNews
<1>2. ASSUME NEW w, OutcomeIn(ready, w)'
      PROVE  \E i \in 1 .. Len(ready) :
                        i > m /\ IsNews(ready[i], Outcomes) /\ ready[i].ev.of = w
  <2>1. PICK i \in 1 .. Len(ready') : IsNews(ready'[i], Outcomes) /\ ready'[i].ev.of = w
    BY <1>2 DEF OutcomeIn, IsNews
  <2> QED BY <1>1, <2>1
<1>3. ASSUME OneOutcome(ready), NEW i \in 1 .. Len(ready'), NEW k \in 1 .. Len(ready'),
             IsNews(ready'[i], Outcomes), IsNews(ready'[k], Outcomes),
             ready'[i].ev.of # 0, ready'[i].ev.of = ready'[k].ev.of
      PROVE  i = k
  <2>1. /\ i + m \in 1 .. Len(ready) /\ ready'[i] = ready[i + m]
        /\ k + m \in 1 .. Len(ready) /\ ready'[k] = ready[k + m]
    BY <1>1, <1>3
  <2>2. i + m = k + m
    BY <1>3, <2>1 DEF OneOutcome
  <2> QED BY <2>2
<1> QED BY <1>2, <1>3 DEF OneOutcome, IsNews

LEMMA QuietRefers ==
    ASSUME Base, ReferInv, queue' = queue, telling' = telling, stack' = stack, NEW m \in 0 .. 1, Slid(m),
           \A u \in Task : \/ Transferring(u)' = Transferring(u) /\ job'[u].verdict = job[u].verdict
                              /\ job'[u].whose = job[u].whose
                           \/ ~Transferring(u)' \/ job'[u].verdict = "none",
           \A u \in Task : Active(u) => Active(u)'
    PROVE  ReferInv'
<1>1. Types /\ (\A w \in Task : ReferOK(w)) /\ OneSubscription /\ OneOutcome(ready) /\ OneOutcome(telling)
  BY ReferParts DEF Base
<1>2. \A w \in Task : Spent(w)' => Spent(w)
  BY SpentKept
<1>3. /\ \A w : OutcomeIn(ready, w)' => OutcomeIn(ready, w)
      /\ OneOutcome(ready)'
  BY <1>1, SlidOutcomes DEF OutcomeIn
<1>4. \A w \in Task : Stops(w)
  BY <1>2, <1>3 DEF Stops, Referred, Subscribed, OutcomeIn
<1>5. \A w \in Task : ReferOK(w)'
  BY <1>1, <1>4, StopsOK
<1>6. OneSubscription' /\ OneOutcome(telling)'
  BY <1>1 DEF OneSubscription, OneOutcome
<1> QED BY <1>3, <1>5, <1>6, ReferPartsNext

(* Who sends a REFER had none, *)
LEMMA BeginsAfresh ==
    ASSUME Base, NEW t \in Task, OperationBegins(t), Begun(t)
    PROVE  job'[t].verdict = "none" /\ ~Active(t)
<1>1. ~Active(t)
  BY DEF Begun, Active, Transferring, NoJob, Job
<1>2. \E k, c : Starts(t, k, c)
  BY DEF OperationBegins, HoldBegins, VideoBegins, TransferBegins, DecisionBegins, DtmfBegins,
           AttendedBegins, RegistrationBegins
<1> QED BY <1>1, <1>2 DEF Starts

(* and who has sent it sends nothing more. *)
LEMMA ActiveResumes ==
    ASSUME Base, NEW t \in Task, Resumes(t), Active(t)
    PROVE  queue' = queue /\ Active(t)'
<1>1. Transferring(t) /\ job[t].step \in {"refer", "outcome"}
  BY DEF Active, Resumes, Running
<1>2. ~HoldGoesOn(t) /\ ~UndoGoesOn(t) /\ ~VideoGoesOn(t)
  BY <1>1 DEF HoldGoesOn, UndoGoesOn, VideoGoesOn
<1>3. ~DecisionGoesOn(t) /\ ~PolicyGoesOn(t) /\ ~DigitGoesOn(t)
  BY <1>1 DEF DecisionGoesOn, PolicyGoesOn, DigitGoesOn, Transferring
<1>4. ASSUME NEW o, Concluded(t, o)
      PROVE  queue' = queue /\ Active(t)'
  BY <1>1, <1>4 DEF Concluded, Leaves, Active, Transferring, SameJob
<1>5. CASE job[t].step = "refer" /\ Pauses(t, "waiting", "outcome")
  BY <1>1, <1>5 DEF Pauses, Active, Transferring, SameJob
<1>6. CASE SentGoesOn(t)
  BY <1>1, <1>4, <1>5, <1>6 DEF SentGoesOn, Awaited
<1> QED BY <1>2, <1>3, <1>4, <1>6 DEF Resumes, OutcomeGoesOn

LEMMA TurnRefers ==
    ASSUME Base, ReferInv, NEW t \in Task, Turn(t), Resumes(t) \/ (OperationBegins(t) /\ Begun(t))
    PROVE  ReferInv'
<1>1. Types /\ (\A w \in Task : ReferOK(w)) /\ OneSubscription /\ OneOutcome(ready) /\ OneOutcome(telling)
  BY ReferParts DEF Base
<1>2. telling' = telling /\ stack' = stack /\ \A u \in Task : u # t => job'[u] = job[u] /\ task'[u] = task[u]
  BY DEF Turn, nativeVars, Runs, Only
<1>3. PICK m \in 0 .. 1 : Slid(m)
  BY <1>1, ReadyAfter DEF Slid
<1>4. /\ \A w : OutcomeIn(ready, w)' => OutcomeIn(ready, w)
      /\ OneOutcome(ready)'
  BY <1>1, <1>3, SlidOutcomes DEF OutcomeIn
<1>5. \A w \in Task : Spent(w)' => Spent(w)
  <2>1. CASE Resumes(t)
    <3>1. SameOp(job'[t], job[t])
      BY <2>1, ResumesRuns DEF Base
    <3> QED BY <1>2, <3>1 DEF Spent, Transferring, SameOp
  <2>2. CASE OperationBegins(t) /\ Begun(t)
    <3>1. job'[t].verdict = "none"
      BY <2>2, BeginsAfresh
    <3> QED BY <1>2, <3>1 DEF Spent, Transferring
  <2> QED BY <2>1, <2>2
<1>6. Active(t) => queue' = queue /\ Active(t)'
  <2>1. CASE Resumes(t)
    BY <2>1, ActiveResumes
  <2>2. CASE OperationBegins(t) /\ Begun(t)
    BY <2>2, BeginsAfresh
  <2> QED BY <2>1, <2>2
<1>7. \A u \in Task : Active(u) => Active(u)'
  BY <1>2, <1>6 DEF Active, Transferring
<1>8. \A w \in Task : /\ Subscribed(w)' => Subscribed(w)
                      /\ OutcomeIn(telling, w)' => OutcomeIn(telling, w)
  BY <1>2 DEF Subscribed, OutcomeIn
<1>9. ASSUME NEW w \in Task, Referred(w)'
      PROVE  Referred(w) \/ (w = t /\ Active(t)' /\ queue' # queue)
  <2>1. PICK i \in 1 .. Len(queue') : queue'[i].by = w /\ queue'[i].op \in {"transfer", "replace"}
    BY <1>9 DEF Referred
  <2>2. CASE i \in 1 .. Len(queue) /\ queue'[i] = queue[i]
    BY <2>1, <2>2 DEF Referred
  <2>3. CASE /\ i = Len(queue) + 1 /\ queue'[i].by = t
             /\ OrderOK(queue[i])' /\ queue'[i] \in Order /\ queue' = Append(queue, queue'[i])
             /\ task'[t].at = "awaiting"
    <3>1. w = t /\ Transferring(t)' /\ job'[t].step = "refer"
      BY <2>1, <2>3 DEF OrderOK, Refresh, Registers, Transferring
    <3>2. queue' # queue
      <4>1. Len(queue') = Len(queue) + 1 /\ Len(queue) \in Nat
        BY <1>1, <2>3, Appended DEF Types
      <4> QED BY <4>1
    <3> QED BY <3>1, <3>2 DEF Active, Transferring
  <2> QED BY <1>1, <2>2, <2>3, QueueAfter
<1>10. ASSUME NEW w \in Task
       PROVE  ReferOK(w)'
  <2>1. CASE Referred(w)' => Referred(w)
    <3>1. Stops(w)
      BY <1>4, <1>5, <1>8, <2>1 DEF Stops
    <3> QED BY <1>1, <1>7, <3>1, StopsOK
  <2>2. CASE w = t /\ Active(t)' /\ queue' # queue
    <3>1. ~Active(t)
      BY <1>6, <2>2
    <3>2. ~Subscribed(t) /\ ~OutcomeIn(telling, t) /\ ~OutcomeIn(ready, t) /\ ~Spent(t)
      BY <1>1, <3>1 DEF ReferOK, Active
    <3>3. ~Subscribed(t)' /\ ~OutcomeIn(telling, t)' /\ ~OutcomeIn(ready, t)' /\ ~Spent(t)'
      BY <1>4, <1>5, <1>8, <3>2
    <3> QED BY <2>2, <3>3 DEF ReferOK, Active
  <2> QED BY <1>9, <2>1, <2>2
<1>11. OneSubscription' /\ OneOutcome(telling)'
  BY <1>1, <1>2 DEF OneSubscription, OneOutcome
<1> QED BY <1>4, <1>10, <1>11, ReferPartsNext

LEMMA EventRefers ==
    ASSUME Base, ReferInv, DispatchEvent
    PROVE  ReferInv'
<1>1. Types /\ TaskInv /\ NewsInv /\ (\A w \in Task : ReferOK(w)) /\ OneSubscription
      /\ OneOutcome(ready) /\ OneOutcome(telling)
  BY ReferParts DEF Base
<1>2. PICK e \in News : e = Head(ready).ev
  BY <1>1, EventStep
<1>3. /\ ready # <<>> /\ Head(ready) = ready[1] /\ ready[1].kind = "event" /\ ready[1].ev = e /\ NewsOK(e)
      /\ \A u \in Task : Spawns(u, e) \/ Hears(u, e)
      /\ Slid(1)
  BY <1>1, <1>2, EventStep
<1>4. queue' = queue /\ telling' = telling /\ stack' = stack
  BY DEF DispatchEvent, nativeVars
<1>5. /\ \A w : OutcomeIn(ready, w)' => \E i \in 1 .. Len(ready) :
                        i > 1 /\ IsNews(ready[i], Outcomes) /\ ready[i].ev.of = w
      /\ OneOutcome(ready)'
  <2>1. 1 \in 0 .. 1
    OBVIOUS
  <2> QED BY <1>1, <1>3, <2>1, SlidOutcomes
<1>6. \A u \in Task : Active(u) => Active(u)'
  BY <1>3 DEF Active, Transferring, Spawns, Hears, NoJob, Job
<1>7. 1 \in 1 .. Len(ready)
  BY <1>1, <1>3, Taken DEF Types
<1>8. ASSUME NEW w \in Task, Spent(w)', ~Spent(w)
      PROVE  IsNews(ready[1], Outcomes) /\ e.of = w
  <2>1. PICK u \in Task : Transferring(u)' /\ job'[u].verdict # "none" /\ job'[u].whose = w
    BY <1>8 DEF Spent, Transferring
  <2>2. ~Spawns(u, e)
    BY <2>1 DEF Spawns, Job
  <2>3. Hears(u, e)
    BY <1>3, <2>2
  <2>4. Takes(u, e) /\ e.of = w /\ Transferring(u)
    BY <1>8, <2>1, <2>3 DEF Hears, Spent, Transferring
  <2>5. JobOK(job[u])
    BY <1>1 DEF TaskInv, TaskOK
  <2>6. TakesOutcome(u, e)
    BY <2>4, <2>5 DEF Takes, TakesAnswer, JobOK, Kinds, Transferring
  <2>7. w # 0
    BY <1>8, RequestsAssumption DEF Task
  <2> QED BY <1>3, <2>4, <2>6, <2>7 DEF TakesOutcome, NewsOK, IsNews, Outcomes
<1>9. ASSUME NEW w \in Task
      PROVE  ReferOK(w)'
  <2>1. /\ Referred(w)' => Referred(w)
        /\ Subscribed(w)' => Subscribed(w)
        /\ OutcomeIn(telling, w)' => OutcomeIn(telling, w)
        /\ OutcomeIn(ready, w)' => OutcomeIn(ready, w)
    BY <1>4, <1>5 DEF Referred, Subscribed, OutcomeIn
  <2>2. CASE Spent(w)' => Spent(w)
    <3>1. Stops(w)
      BY <2>1, <2>2 DEF Stops
    <3> QED BY <1>1, <1>6, <3>1, StopsOK
  <2>3. CASE IsNews(ready[1], Outcomes) /\ e.of = w
    <3>1. OutcomeIn(ready, w)
      BY <1>3, <1>7, <2>3 DEF OutcomeIn
    <3>2. Active(w) /\ ~Referred(w) /\ ~Subscribed(w) /\ ~OutcomeIn(telling, w)
      BY <1>1, <3>1 DEF ReferOK, Active
    <3>3. ~OutcomeIn(ready, w)'
      <4>1. w # 0
        BY <1>9, RequestsAssumption DEF Task
      <4>2. ASSUME NEW i \in 1 .. Len(ready), i > 1, IsNews(ready[i], Outcomes), ready[i].ev.of = w
            PROVE  FALSE
        BY <1>1, <1>3, <1>7, <2>3, <4>1, <4>2 DEF OneOutcome
      <4> QED BY <1>5, <4>2
    <3>4. Active(w)' /\ ~Referred(w)' /\ ~Subscribed(w)' /\ ~OutcomeIn(telling, w)'
      BY <1>6, <2>1, <3>2
    <3> QED BY <3>3, <3>4 DEF ReferOK, Active
  <2> QED BY <1>8, <2>2, <2>3
<1>10. OneSubscription' /\ OneOutcome(telling)'
  BY <1>1, <1>4 DEF OneSubscription, OneOutcome
<1> QED BY <1>5, <1>9, <1>10, ReferPartsNext

LEMMA ReportRefers ==
    ASSUME Base, Blurs, ReferInv, Report, AppKept
    PROVE  ReferInv'
<1>1. Types /\ NewsInv /\ (\A w \in Task : ReferOK(w)) /\ OneSubscription
      /\ OneOutcome(ready) /\ OneOutcome(telling)
  BY ReferParts DEF Base
<1>2. /\ \A i \in 1 .. Len(ready') : \/ i \in 1 .. Len(ready) /\ ready'[i] = ready[i]
                                     \/ i = Len(ready) + 1 /\ ready'[i] = telling[1]
      /\ \A i \in 1 .. Len(telling') : i + 1 \in 1 .. Len(telling) /\ telling'[i] = telling[i + 1]
      /\ 1 \in 1 .. Len(telling)
      /\ task' = task /\ queue' = queue /\ job' = job /\ stack' = stack
  BY ReportBase DEF AppKept, Report, nativeVars
<1>3. ASSUME NEW w, OutcomeIn(ready, w)'
      PROVE  OutcomeIn(ready, w) \/ (IsNews(telling[1], Outcomes) /\ telling[1].ev.of = w)
  <2>1. PICK i \in 1 .. Len(ready') : IsNews(ready'[i], Outcomes) /\ ready'[i].ev.of = w
    BY <1>3 DEF OutcomeIn, IsNews
  <2> QED BY <1>2, <2>1 DEF OutcomeIn
<1>4. ASSUME NEW w, OutcomeIn(telling, w)'
      PROVE  OutcomeIn(telling, w) /\ (w # 0 => ~(IsNews(telling[1], Outcomes) /\ telling[1].ev.of = w))
  <2>1. PICK i \in 1 .. Len(telling') : IsNews(telling'[i], Outcomes) /\ telling'[i].ev.of = w
    BY <1>4 DEF OutcomeIn, IsNews
  <2>2. i + 1 \in 1 .. Len(telling) /\ telling'[i] = telling[i + 1] /\ i + 1 # 1
    BY <1>2
  <2> QED BY <1>1, <1>2, <2>1, <2>2 DEF OutcomeIn, OneOutcome
<1>5. \A w : /\ Referred(w)' => Referred(w)
             /\ Subscribed(w)' => Subscribed(w)
             /\ Spent(w)' => Spent(w)
  BY <1>2 DEF Referred, Subscribed, Spent, Transferring
<1>6. \A u \in Task : Active(u) => Active(u)'
  BY <1>2 DEF Active, Transferring
<1>7. ASSUME NEW w \in Task
      PROVE  ReferOK(w)'
  <2>1. CASE OutcomeIn(ready, w)' => OutcomeIn(ready, w)
    <3>1. Stops(w)
      BY <1>4, <1>5, <2>1 DEF Stops
    <3> QED BY <1>1, <1>6, <3>1, StopsOK
  <2>2. CASE IsNews(telling[1], Outcomes) /\ telling[1].ev.of = w
    <3>1. OutcomeIn(telling, w)
      BY <1>2, <2>2 DEF OutcomeIn
    <3>2. Active(w) /\ ~Referred(w) /\ ~Subscribed(w) /\ ~Spent(w)
      BY <1>1, <3>1 DEF ReferOK, Active
    <3>3. ~OutcomeIn(telling, w)'
      <4>1. w # 0
        BY <1>7, RequestsAssumption DEF Task
      <4> QED BY <1>4, <2>2, <4>1
    <3>4. Active(w)' /\ ~Referred(w)' /\ ~Subscribed(w)' /\ ~Spent(w)'
      BY <1>5, <1>6, <3>2
    <3> QED BY <3>3, <3>4 DEF ReferOK, Active
  <2> QED BY <1>3, <2>1, <2>2
<1>8. OneSubscription'
  BY <1>1, <1>2 DEF OneSubscription
<1>9. OneOutcome(telling)'
  <2> SUFFICES ASSUME NEW i \in 1 .. Len(telling'), NEW k \in 1 .. Len(telling'),
                      IsNews(telling'[i], Outcomes), IsNews(telling'[k], Outcomes),
                      telling'[i].ev.of # 0, telling'[i].ev.of = telling'[k].ev.of
               PROVE  i = k
    BY DEF OneOutcome, IsNews
  <2>1. /\ i + 1 \in 1 .. Len(telling) /\ telling'[i] = telling[i + 1]
        /\ k + 1 \in 1 .. Len(telling) /\ telling'[k] = telling[k + 1]
    BY <1>2
  <2>2. i + 1 = k + 1
    BY <1>1, <2>1 DEF OneOutcome
  <2> QED BY <2>2
<1>10. OneOutcome(ready)'
  <2> SUFFICES ASSUME NEW i \in 1 .. Len(ready'), NEW k \in 1 .. Len(ready'),
                      IsNews(ready'[i], Outcomes), IsNews(ready'[k], Outcomes),
                      ready'[i].ev.of # 0, ready'[i].ev.of = ready'[k].ev.of
               PROVE  i = k
    BY DEF OneOutcome, IsNews
  <2>1. ASSUME NEW n \in 1 .. Len(ready), ready[n].ev.of # 0, IsNews(ready[n], Outcomes),
               IsNews(telling[1], Outcomes), telling[1].ev.of = ready[n].ev.of
        PROVE  FALSE
    <3>1. NewsOK(ready[n].ev)
      BY <1>1, <2>1 DEF NewsInv, IsNews
    <3>2. PICK w \in Task : w = ready[n].ev.of
      BY <2>1, <3>1 DEF NewsOK, IsNews, Outcomes
    <3>3. OutcomeIn(ready, w) /\ OutcomeIn(telling, w)
      BY <1>2, <2>1, <3>2 DEF OutcomeIn
    <3> QED BY <1>1, <3>3 DEF ReferOK
  <2>2. CASE i \in 1 .. Len(ready) /\ ready'[i] = ready[i] /\ k \in 1 .. Len(ready) /\ ready'[k] = ready[k]
    BY <1>1, <2>2 DEF OneOutcome
  <2>3. CASE i \in 1 .. Len(ready) /\ ready'[i] = ready[i] /\ k = Len(ready) + 1 /\ ready'[k] = telling[1]
    BY <2>1, <2>3
  <2>4. CASE i = Len(ready) + 1 /\ ready'[i] = telling[1] /\ k \in 1 .. Len(ready) /\ ready'[k] = ready[k]
    BY <2>1, <2>4
  <2> QED BY <1>2, <2>2, <2>3, <2>4
<1> QED BY <1>7, <1>8, <1>9, <1>10, ReferPartsNext

LEMMA CarriesRefers ==
    ASSUME Base, ReferInv, NEW q \in Order, NEW r \in Completed, Carries(q, r), Kept
    PROVE  ReferInv'
<1>1. Types /\ ItemInv /\ (\A w \in Task : ReferOK(w)) /\ OneSubscription
      /\ OneOutcome(ready) /\ OneOutcome(telling)
  BY ReferParts DEF Base
<1>2. /\ task' = task /\ ready' = ready /\ job' = job /\ q.by \in Task
      /\ q = queue[1] /\ 1 \in 1 .. Len(queue)
      /\ \A i \in 1 .. Len(queue') : i + 1 \in 1 .. Len(queue) /\ queue'[i] = queue[i + 1]
      /\ \A d \in Calls : stack'[d].refer = IF q.op \in {"transfer", "replace"} /\ r = "ok" /\ d = q.on
                                            THEN q.by ELSE stack[d].refer
  BY DEF Carries, Serves, Kept, Order, CallAfter
<1>3. \A w : ~OutcomeIn(telling, w)'
  <2>1. ASSUME NEW i \in 1 .. Len(telling'), IsNews(telling'[i], Outcomes)
        PROVE  FALSE
    <3>1. telling'[i] = Done(q, r) \/ telling'[i] = OfferOf(q)
      BY TellsDone DEF Carries
    <3> QED BY <2>1, <3>1 DEF IsNews, Outcomes, Done, OfferOf, Event
  <2> QED BY <2>1 DEF OutcomeIn, IsNews
<1>4. \A w : Referred(w)' => Referred(w) /\ w # q.by
  <2> SUFFICES ASSUME NEW w, Referred(w)'
               PROVE  Referred(w) /\ w # q.by
    OBVIOUS
  <2>1. PICK i \in 1 .. Len(queue') : queue'[i].by = w /\ queue'[i].op \in {"transfer", "replace"}
    BY DEF Referred
  <2>2. i + 1 \in 1 .. Len(queue) /\ queue'[i] = queue[i + 1] /\ i + 1 # 1
    BY <1>2
  <2>3. queue[i + 1].by # queue[1].by
    BY <1>1, <1>2, <2>2 DEF ItemInv
  <2> QED BY <1>2, <2>1, <2>2, <2>3 DEF Referred
<1>5. \A w : /\ Spent(w)' => Spent(w)
             /\ OutcomeIn(ready, w)' => OutcomeIn(ready, w)
  BY <1>2 DEF Spent, Transferring, OutcomeIn
<1>6. \A u \in Task : Active(u) => Active(u)'
  BY <1>2 DEF Active, Transferring
<1>7. CASE q.op \in {"transfer", "replace"} /\ r = "ok"
  <2>1. Referred(q.by)
    BY <1>2, <1>7 DEF Referred
  <2>2. /\ Active(q.by) /\ ~Subscribed(q.by) /\ ~OutcomeIn(ready, q.by) /\ ~Spent(q.by)
        /\ ~OutcomeIn(telling, q.by)
    BY <1>1, <1>2, <2>1 DEF ReferOK, Active
  <2>3. \A w : w # q.by => (Subscribed(w)' => Subscribed(w))
    BY <1>2 DEF Subscribed
  <2>4. ASSUME NEW w \in Task
        PROVE  ReferOK(w)'
    <3>1. CASE w = q.by
      <4>1. Active(w)' /\ ~Referred(w)' /\ ~OutcomeIn(ready, w)' /\ ~Spent(w)' /\ ~OutcomeIn(telling, w)'
        BY <1>3, <1>4, <1>5, <1>6, <2>2, <3>1
      <4> QED BY <4>1 DEF ReferOK, Active
    <3>2. CASE w # q.by
      <4>1. Stops(w)
        BY <1>3, <1>4, <1>5, <2>3, <3>2 DEF Stops
      <4> QED BY <1>1, <1>6, <4>1, StopsOK
    <3> QED BY <3>1, <3>2
  <2>5. OneSubscription'
    <3>1. \A d \in Calls : stack[d].refer # q.by
      BY <2>2 DEF Subscribed
    <3> QED BY <1>1, <1>2, <3>1 DEF OneSubscription
  <2>6. OneOutcome(ready)' /\ OneOutcome(telling)'
    BY <1>1, <1>2, <1>3 DEF OneOutcome, OutcomeIn
  <2> QED BY <2>4, <2>5, <2>6, ReferPartsNext
<1>8. CASE ~(q.op \in {"transfer", "replace"} /\ r = "ok")
  <2>1. \A d \in Calls : stack'[d].refer = stack[d].refer
    BY <1>2, <1>8
  <2>2. \A w : Subscribed(w)' => Subscribed(w)
    BY <2>1 DEF Subscribed
  <2>3. \A w \in Task : Stops(w)
    BY <1>3, <1>4, <1>5, <2>2 DEF Stops
  <2>4. \A w \in Task : ReferOK(w)'
    BY <1>1, <1>6, <2>3, StopsOK
  <2>5. OneSubscription'
    BY <1>1, <2>1 DEF OneSubscription
  <2>6. OneOutcome(ready)' /\ OneOutcome(telling)'
    BY <1>1, <1>2, <1>3 DEF OneOutcome, OutcomeIn
  <2> QED BY <2>4, <2>5, <2>6, ReferPartsNext
<1> QED BY <1>7, <1>8

LEMMA NetworkRefers ==
    ASSUME Base, ReferInv, Network
    PROVE  ReferInv'
<1>1. Types /\ (\A w \in Task : ReferOK(w)) /\ OneSubscription
      /\ OneOutcome(ready) /\ OneOutcome(telling)
  BY ReferParts DEF Base
<1>2. NetworkStack /\ NetworkKept /\ (telling' = telling \/ Reporting)
  BY NetworkStep
<1>3. /\ task' = task /\ ready' = ready /\ job' = job /\ queue' = queue
      /\ \A d \in Calls : stack'[d].refer \in {stack[d].refer, 0}
  BY <1>2 DEF NetworkKept, NetworkStack
<1>4. \A w \in Task : /\ Subscribed(w)' => Subscribed(w)
                      /\ Referred(w)' => Referred(w)
                      /\ Spent(w)' => Spent(w)
                      /\ OutcomeIn(ready, w)' => OutcomeIn(ready, w)
  BY <1>3, RequestsAssumption DEF Subscribed, Referred, Spent, OutcomeIn, Transferring, Task
<1>5. \A u \in Task : Active(u) => Active(u)'
  BY <1>3 DEF Active, Transferring
<1>6. OneSubscription' /\ OneOutcome(ready)'
  BY <1>1, <1>3 DEF OneSubscription, OneOutcome
<1>7. CASE telling' = telling
  <2>1. \A w \in Task : Stops(w)
    BY <1>4, <1>7 DEF Stops, OutcomeIn
  <2>2. \A w \in Task : ReferOK(w)'
    BY <1>1, <1>5, <2>1, StopsOK
  <2>3. OneOutcome(telling)'
    BY <1>1, <1>7 DEF OneOutcome
  <2> QED BY <1>6, <2>2, <2>3, ReferPartsNext
<1>8. ASSUME NEW e \in News, NetworkTells(e)
      PROVE  ReferInv'
  <2>1. /\ telling' = <<Event(e)>>
        /\ e.ev \in Outcomes /\ e.of # 0 => e.on \in Calls /\ stack[e.on].refer = e.of /\ stack'[e.on].refer = 0
    BY <1>8 DEF NetworkTells, Outcomes
  <2>2. Event(e).kind = "event" /\ Event(e).ev = e
    BY DEF Event
  <2>3. OneOutcome(telling)'
    BY <2>1 DEF OneOutcome
  <2>4. ASSUME NEW w \in Task, OutcomeIn(telling, w)'
        PROVE  e.ev \in Outcomes /\ e.of = w
    BY <2>1, <2>2, <2>4 DEF OutcomeIn, IsNews
  <2>5. ASSUME NEW w \in Task
        PROVE  ReferOK(w)'
    <3>1. CASE ~OutcomeIn(telling, w)'
      <4>1. Stops(w)
        BY <1>4, <3>1 DEF Stops
      <4> QED BY <1>1, <1>5, <4>1, StopsOK
    <3>2. CASE e.ev \in Outcomes /\ e.of = w
      <4>1. w # 0
        BY <2>5, RequestsAssumption DEF Task
      <4>2. e.on \in Calls /\ stack[e.on].refer = w /\ stack'[e.on].refer = 0
        BY <2>1, <3>2, <4>1
      <4>3. Subscribed(w)
        BY <4>2 DEF Subscribed
      <4>4. Active(w) /\ ~Referred(w) /\ ~OutcomeIn(ready, w) /\ ~Spent(w)
        BY <1>1, <4>3 DEF ReferOK, Active
      <4>5. ~Subscribed(w)'
        <5>1. ASSUME NEW d \in Calls, stack'[d].refer = w
              PROVE  FALSE
          <6>1. stack[d].refer = w
            BY <1>3, <4>1, <5>1
          <6>2. d = e.on
            BY <1>1, <4>1, <4>2, <6>1 DEF OneSubscription
          <6> QED BY <4>1, <4>2, <5>1, <6>2
        <5> QED BY <5>1 DEF Subscribed
      <4>6. Active(w)' /\ ~Referred(w)' /\ ~OutcomeIn(ready, w)' /\ ~Spent(w)'
        BY <1>4, <1>5, <4>4
      <4> QED BY <4>5, <4>6 DEF ReferOK, Active
    <3> QED BY <2>4, <3>1, <3>2
  <2> QED BY <1>6, <2>3, <2>5, ReferPartsNext
<1> QED BY <1>2, <1>7, <1>8 DEF Reporting

LEMMA ReferNext ==
    ASSUME Base, ReferInv, Next
    PROVE  ReferInv'
<1>1. Stepping /\ Blurs
  BY NextSteps
<1>2. CASE Application
  <2>1. NextOne \in Task /\ OperationBegins(NextOne) /\ Begun(NextOne) /\ Turn(NextOne)
    BY <1>2, ApplicationTurn DEF Base
  <2>2. PICK t \in Task : OperationBegins(t) /\ Begun(t) /\ Turn(t)
    BY <2>1
  <2> QED BY <2>2, TurnRefers
<1>3. ASSUME NEW t \in Task, GoesOn(t)
      PROVE  ReferInv'
  <2>1. Resumes(t) /\ Turn(t)
    BY <1>3, GoesOnTurn DEF Base
  <2> QED BY <2>1, TurnRefers
<1>4. CASE DispatchEvent
  BY <1>4, EventRefers
<1>5. ASSUME job' = job, queue' = queue, telling' = telling, stack' = stack,
             \A u \in Task : task'[u].at = task[u].at, NEW m \in 0 .. 1, Slid(m)
      PROVE  ReferInv'
  <2>1. \A u \in Task : \/ Transferring(u)' = Transferring(u) /\ job'[u].verdict = job[u].verdict
                              /\ job'[u].whose = job[u].whose
                        \/ ~Transferring(u)' \/ job'[u].verdict = "none"
    BY <1>5 DEF Transferring
  <2>2. \A u \in Task : Active(u) => Active(u)'
    BY <1>5 DEF Active, Transferring
  <2> QED BY <1>5, <2>1, <2>2, QuietRefers
<1>6. CASE DispatchDone /\ AppKept
  <2>1. PICK v \in Task : Settles(v, 1)
    BY <1>6, DoneStep DEF Base, AppKept
  <2>2. 1 \in 0 .. 1
    OBVIOUS
  <2>3. Slid(1)
    BY <2>1, <2>2, SettlesSlid
  <2> QED BY <1>5, <2>1, <2>2, <2>3 DEF Settles, nativeVars
<1>7. ASSUME NEW t \in Task, Timer(t)
      PROVE  ReferInv'
  <2>1. Settles(t, 0)
    BY <1>7, TimerStep DEF Base
  <2>2. 0 \in 0 .. 1
    OBVIOUS
  <2>3. Slid(0)
    BY <2>1, <2>2, SettlesSlid
  <2> QED BY <1>5, <2>1, <2>2, <2>3 DEF Settles, nativeVars
<1>8. CASE Report /\ AppKept
  BY <1>1, <1>8, ReportRefers
<1>9. ASSUME NEW q \in Order, NEW r \in Completed, Carries(q, r) /\ Kept
      PROVE  ReferInv'
  BY <1>9, CarriesRefers
<1>10. CASE Network
  BY <1>10, NetworkRefers
<1> QED BY <1>1, <1>2, <1>3, <1>4, <1>6, <1>7, <1>8, <1>9, <1>10 DEF Stepping

-----------------------------------------------------------------------------
(* Who is told what.                                                       *)

(* What u was told is kept, *)
WhoseKept(u) ==
    \/ job'[u].verdict = job[u].verdict /\ job'[u].whose = job[u].whose
    \/ job'[u].verdict = "none" /\ job'[u].whose = 0

(* and so is what it returned. *)
ReturnKept(u) ==
    Transferring(u)' =>
        \/ /\ Transferring(u) /\ job'[u].call = job[u].call
           /\ job'[u].verdict = job[u].verdict /\ job'[u].whose = job[u].whose
           /\ task'[u].out \in {"ok", "failed"} => task'[u].out \in {job[u].verdict, task[u].out}
        \/ job'[u].verdict = "none" /\ task'[u].out \notin {"ok", "failed"}

AttendedKept(u) ==
    Transferring(u) => job'[u].kind = job[u].kind /\ job'[u].call = job[u].call

EndsKept ==
    \A c \in Calls : (obj'[c].up => obj[c].up) /\ (stack'[c].live => stack[c].live)

LEMMA AttendedStays ==
    ASSUME \A u \in Task : AttendedKept(u)
    PROVE  \A c : Attended(c) => Attended(c)'
BY DEF Attended, AttendedKept, Transferring

LEMMA ToldKept ==
    ASSUME Base, ToldInv, EndsKept, \A u \in Task : WhoseKept(u) /\ ReturnKept(u) /\ AttendedKept(u)
    PROVE  ToldInv'
<1>1. ASSUME NEW t \in Task, job'[t].verdict = "none"
      PROVE  job'[t].whose = 0
  BY <1>1 DEF ToldInv, WhoseKept
<1>2. ASSUME NEW t \in Task, Transferring(t)'
      PROVE  ToldOK(t)'
  <2>1. CASE job'[t].verdict = "none" /\ task'[t].out \notin {"ok", "failed"}
    BY <2>1 DEF ToldOK
  <2>2. CASE /\ Transferring(t) /\ job'[t].call = job[t].call
             /\ job'[t].verdict = job[t].verdict /\ job'[t].whose = job[t].whose
             /\ task'[t].out \in {"ok", "failed"} => task'[t].out \in {job[t].verdict, task[t].out}
    <3>1. ToldOK(t) /\ job[t].call \in Calls
      <4>1. JobOK(job[t])
        BY DEF Base, TaskInv, TaskOK
      <4> QED BY <2>2, <4>1 DEF ToldInv, JobOK, Transferring, Registers
    <3>2. task'[t].out \in {"ok", "failed"} => job'[t].verdict = task'[t].out
      BY <2>2, <3>1 DEF ToldOK
    <3>3. job'[t].verdict = "ok" =>
              ~obj'[job'[t].call].up /\ ~stack'[job'[t].call].live /\ job'[t].whose # 0
      BY <2>2, <3>1 DEF ToldOK, EndsKept
    <3>4. ASSUME job'[t].verdict # "none", job'[t].whose \notin {0, t}, ~Attended(job[t].call)'
          PROVE  job'[t].whose \in Task /\ \A w \in Task : w = job'[t].whose => job'[w].whose # w
      <4>1. ~Attended(job[t].call)
        <5>1. PICK c \in Calls : c = job[t].call
          BY <3>1
        <5>2. ~Attended(c)'
          BY <2>2, <3>4, <5>1
        <5> QED BY <5>1, <5>2, AttendedStays
      <4>2. PICK w \in Task : w = job[t].whose /\ job[w].whose # w
        BY <2>2, <3>1, <3>4, <4>1 DEF ToldOK
      <4>3. job'[w].whose # w
        BY <4>2, RequestsAssumption DEF WhoseKept, Task
      <4> QED BY <2>2, <4>2, <4>3
    <3> QED BY <2>2, <3>2, <3>3, <3>4 DEF ToldOK
  <2> QED BY <1>2, <2>1, <2>2 DEF ReturnKept
<1> QED BY <1>1, <1>2 DEF ToldInv

(* What a transfer returns is the outcome it was told. *)
LEMMA ResumesOut ==
    ASSUME Base, NEW t \in Task, Resumes(t), Transferring(t), task'[t].out \in {"ok", "failed"}
    PROVE  task'[t].out = job[t].verdict
<1>1. Types /\ TaskInv /\ Running(t)
  BY DEF Base, Resumes
<1>2. job[t].step \in Commanding => job[t].kind \in Kinds(job[t].step)
  BY <1>1, WhereItIs
<1>3. ASSUME HoldGoesOn(t)
      PROVE  task'[t].out \notin {"ok", "failed"}
  <2>1. ~(job[t].kind # "attended" /\ Returns(t, "ok"))
    <3>1. job[t].kind \in {"hold", "resume", "attended"}
      BY <1>2, <1>3 DEF HoldGoesOn, Kinds, Commanding
    <3> QED BY <3>1 DEF Transferring
  <2>2. CASE Attends(t, job[t], job[t].leg + 1, HeldCalls(t))
    BY <2>2 DEF Attends, Refers, HoldsLeg, Pushed, Leaves
  <2> QED BY <1>3, <2>1, <2>2 DEF HoldGoesOn, Returns, Asks1, Pushed, Leaves
<1>4. ASSUME UndoGoesOn(t)
      PROVE  task'[t].out \notin {"ok", "failed"}
  BY <1>4 DEF UndoGoesOn, Returns, Leaves
<1>5. ~VideoGoesOn(t)
  BY <1>2 DEF VideoGoesOn, Kinds, Commanding, Transferring
<1>6. ~DecisionGoesOn(t) /\ ~PolicyGoesOn(t) /\ ~DigitGoesOn(t)
  BY DEF DecisionGoesOn, PolicyGoesOn, DigitGoesOn, Transferring
<1>7. ASSUME SentGoesOn(t) \/ OutcomeGoesOn(t)
      PROVE  task'[t].out = job[t].verdict
  BY <1>7 DEF SentGoesOn, OutcomeGoesOn, Concluded, Pauses, Leaves
<1> QED BY <1>3, <1>4, <1>5, <1>6, <1>7 DEF Resumes

LEMMA BeginsOut ==
    ASSUME NEW t \in Task, OperationBegins(t)
    PROVE  /\ task'[t].out \in {"none", "rejected", "raised"}
           /\ job'[t].verdict = "none" /\ job'[t].whose = 0
<1>1. \E k, c : Starts(t, k, c)
  BY DEF OperationBegins, HoldBegins, VideoBegins, TransferBegins, DecisionBegins, DtmfBegins,
           AttendedBegins, RegistrationBegins
<1>2. (\E q : Pushed(t, q)) \/ Leaves(t, "rejected") \/ Leaves(t, "raised")
  BY DEF OperationBegins, HoldBegins, VideoBegins, TransferBegins, DecisionBegins, DtmfBegins,
           AttendedBegins, RegistrationBegins, Refers, Attends, HoldsLeg, Asks1
<1> QED BY <1>1, <1>2 DEF Starts, Pushed, Leaves

LEMMA TurnTold ==
    ASSUME Base, ToldInv, NEW t \in Task, Turn(t), Resumes(t) \/ (OperationBegins(t) /\ Begun(t))
    PROVE  ToldInv'
<1>1. Types /\ stack' = stack /\ \A u \in Task : u # t => job'[u] = job[u] /\ task'[u] = task[u]
  BY DEF Base, Turn, nativeVars, Runs, Only
<1>2. EndsKept
  BY <1>1 DEF Turn, Objects, EndsKept
<1>3. WhoseKept(t) /\ ReturnKept(t) /\ AttendedKept(t)
  <2>1. CASE Resumes(t)
    <3>1. SameOp(job'[t], job[t])
      BY <2>1, ResumesRuns DEF Base
    <3>2. Transferring(t) /\ task'[t].out \in {"ok", "failed"} => task'[t].out = job[t].verdict
      BY <2>1, ResumesOut
    <3> QED BY <3>1, <3>2 DEF SameOp, WhoseKept, ReturnKept, AttendedKept, Transferring
  <2>2. CASE OperationBegins(t) /\ Begun(t)
    BY <2>2, BeginsOut DEF WhoseKept, ReturnKept, AttendedKept, Begun, NoJob, Job, Transferring
  <2> QED BY <2>1, <2>2
<1>4. \A u \in Task : WhoseKept(u) /\ ReturnKept(u) /\ AttendedKept(u)
  BY <1>1, <1>3 DEF WhoseKept, ReturnKept, AttendedKept, Transferring
<1> QED BY <1>2, <1>4, ToldKept

(* Whoever is told the outcome of another's REFER was waiting beside it, or *)
(* the other is not told.                                                   *)
LEMMA NotBoth ==
    ASSUME Base, AloneInv, NEW t \in Task, NEW u \in Task, t # u, Referring(t), Referring(u),
           job[t].call = job[u].call
    PROVE  Attended(job[t].call)
<1>1. CASE AttendedBefore(t)
  <2>1. \A w \in 1 .. t : w \in Task
    BY RequestsAssumption DEF Task
  <2> QED BY <1>1, <2>1 DEF AttendedBefore, Attended
<1>2. CASE ~AttendedBefore(t)
  <2>1. Alone(t)
    BY <1>2 DEF AloneInv
  <2> QED BY <2>1 DEF Alone, Referring
<1> QED BY <1>1, <1>2

LEMMA EventTold ==
    ASSUME Base, ReferInv, AloneInv, ToldInv, DispatchEvent
    PROVE  ToldInv'
<1>1. Types /\ TaskInv /\ NewsInv /\ (\A w \in Task : ReferOK(w)) /\ stack' = stack
  BY ReferParts DEF Base, DispatchEvent, nativeVars
<1>2. PICK e \in News : e = Head(ready).ev
  BY <1>1, EventStep
<1>3. /\ ready # <<>> /\ Head(ready) = ready[1] /\ ready[1].kind = "event" /\ ready[1].ev = e /\ NewsOK(e)
      /\ \A u \in Task : Spawns(u, e) \/ Hears(u, e)
  BY <1>1, <1>2, EventStep
<1>4. EventObjects(e)
  BY <1>1, <1>2, EventObjectsStep
<1>5. EndsKept
  BY <1>1, <1>4 DEF EndsKept, EventObjects, Types, Object
<1>6. 1 \in 1 .. Len(ready)
  BY <1>1, <1>3, Taken DEF Types
<1>7. \A u \in Task : AttendedKept(u)
  BY <1>3 DEF AttendedKept, Spawns, Hears, Transferring, NoJob, Job
<1>8. ASSUME NEW t \in Task, job'[t].verdict = "none"
      PROVE  job'[t].whose = 0
  <2>1. CASE Spawns(t, e)
    BY <2>1 DEF Spawns, Job
  <2>2. CASE Hears(t, e)
    BY <1>8, <2>2 DEF Hears, ToldInv, Verdict
  <2> QED BY <1>3, <2>1, <2>2
<1>9. ASSUME NEW t \in Task, Transferring(t)'
      PROVE  /\ Transferring(t) /\ Hears(t, e) /\ job'[t].call = job[t].call /\ job[t].call \in Calls
             /\ Takes(t, e) => TakesOutcome(t, e)
             /\ task'[t].out = task[t].out
  <2>1. Hears(t, e)
    BY <1>3, <1>9 DEF Spawns, Transferring, Job
  <2>2. Transferring(t) /\ job'[t].call = job[t].call /\ task'[t].out = task[t].out
    BY <1>9, <2>1 DEF Hears, Transferring
  <2>3. JobOK(job[t])
    BY <1>1 DEF TaskInv, TaskOK
  <2> QED BY <2>1, <2>2, <2>3 DEF Takes, TakesAnswer, JobOK, Kinds, Transferring, Registers
<1>10. ASSUME NEW w \in Task, Takes(w, e), Transferring(w)
       PROVE  Referring(w) /\ job[w].call = e.on /\ e.ev \in {"failed", "transferred", "closed"}
  <2>1. JobOK(job[w])
    BY <1>1 DEF TaskInv, TaskOK
  <2>2. TakesOutcome(w, e)
    BY <1>10, <2>1 DEF Takes, TakesAnswer, JobOK, Kinds, Transferring
  <2> QED BY <1>10, <2>2 DEF Takes, TakesOutcome, Referring
(* The REFER w that the event is about, if it is about one. *)
<1>11. ASSUME e.ev \in Outcomes, e.of # 0
       PROVE  /\ e.of \in Task /\ Transferring(e.of) /\ job[e.of].whose # e.of
  <2>1. PICK w \in Task : w = e.of
    BY <1>3, <1>11 DEF NewsOK, Outcomes
  <2>2. OutcomeIn(ready, w)
    BY <1>3, <1>6, <1>11, <2>1 DEF OutcomeIn, IsNews
  <2>3. Transferring(w) /\ ~Spent(w)
    BY <1>1, <2>2 DEF ReferOK
  <2>4. job[w].whose # w
    BY <2>3, RequestsAssumption DEF Spent, ToldInv, Task
  <2> QED BY <2>1, <2>3, <2>4
<1>12. ASSUME NEW t \in Task, Transferring(t)'
       PROVE  ToldOK(t)'
  <2>1. ToldOK(t) /\ Transferring(t) /\ Hears(t, e) /\ job'[t].call = job[t].call /\ job[t].call \in Calls
        /\ task'[t].out = task[t].out
    BY <1>9, <1>12 DEF ToldInv
  <2>2. CASE Takes(t, e)
    <3>1. /\ job'[t].verdict = Verdict(e) /\ job'[t].whose = e.of /\ Running(t)
          /\ Referring(t) /\ job[t].call = e.on /\ e.ev \in {"failed", "transferred", "closed"}
      BY <1>10, <2>1, <2>2 DEF Hears, Takes
    <3>2. task'[t].out = "none"
      BY <1>1, <2>1, <3>1 DEF TaskInv, TaskOK
    <3>3. ASSUME job'[t].verdict = "ok"
          PROVE  ~obj'[job'[t].call].up /\ ~stack'[job'[t].call].live /\ job'[t].whose # 0
      <4>1. e.ev = "transferred"
        BY <3>1, <3>3 DEF Verdict
      <4>2. e.of \in Task /\ ~stack[e.on].live
        BY <1>3, <4>1 DEF NewsOK
      <4>3. ~obj'[e.on].up
        BY <1>4, <2>1, <3>1, <4>1 DEF EventObjects
      <4> QED BY <1>1, <2>1, <3>1, <4>2, <4>3, RequestsAssumption DEF Task
    <3>4. ASSUME job'[t].whose \notin {0, t}, ~Attended(job[t].call)'
          PROVE  job'[t].whose \in Task /\ \A w \in Task : w = job'[t].whose => job'[w].whose # w
      <4>1. ~Attended(job[t].call)
        <5>1. PICK c \in Calls : c = job[t].call
          BY <2>1
        <5>2. ~Attended(c)'
          BY <2>1, <3>4, <5>1
        <5> QED BY <1>7, <5>1, <5>2, AttendedStays
      <4>2. e.of # 0 /\ e.of # t /\ e.ev \in Outcomes
        BY <1>3, <3>1, <3>4 DEF NewsOK, Outcomes
      <4>3. PICK w \in Task : w = e.of /\ Transferring(w) /\ job[w].whose # w
        BY <1>11, <4>2
      <4>4. ~Takes(w, e)
        <5>1. ASSUME Takes(w, e)
              PROVE  FALSE
          <6>1. Referring(w) /\ job[w].call = job[t].call /\ w # t
            BY <1>10, <3>1, <4>2, <4>3, <5>1
          <6> QED BY <3>1, <4>1, <6>1, NotBoth
        <5> QED BY <5>1
      <4>5. Hears(w, e)
        BY <1>3, <4>3 DEF Spawns, Transferring, NoJob, Job
      <4>6. job'[w].whose # w
        BY <4>3, <4>4, <4>5 DEF Hears
      <4> QED BY <3>1, <4>3, <4>6
    <3> QED BY <2>1, <3>2, <3>3, <3>4 DEF ToldOK
  <2>3. CASE ~Takes(t, e)
    <3>1. job'[t].verdict = job[t].verdict /\ job'[t].whose = job[t].whose
      BY <2>1, <2>3 DEF Hears
    <3>2. task'[t].out \in {"ok", "failed"} => job'[t].verdict = task'[t].out
      BY <2>1, <3>1 DEF ToldOK
    <3>3. job'[t].verdict = "ok" =>
              ~obj'[job'[t].call].up /\ ~stack'[job'[t].call].live /\ job'[t].whose # 0
      BY <1>5, <2>1, <3>1 DEF ToldOK, EndsKept
    <3>4. ASSUME job'[t].verdict # "none", job'[t].whose \notin {0, t}, ~Attended(job[t].call)'
          PROVE  job'[t].whose \in Task /\ \A w \in Task : w = job'[t].whose => job'[w].whose # w
      <4>1. ~Attended(job[t].call)
        <5>1. PICK c \in Calls : c = job[t].call
          BY <2>1
        <5>2. ~Attended(c)'
          BY <2>1, <3>4, <5>1
        <5> QED BY <1>7, <5>1, <5>2, AttendedStays
      <4>2. PICK w \in Task : w = job[t].whose /\ job[w].whose # w
        BY <2>1, <3>1, <3>4, <4>1 DEF ToldOK
      <4>3. Spent(w)
        BY <2>1, <3>1, <3>4, <4>2 DEF Spent
      <4>4. ~OutcomeIn(ready, w) /\ Transferring(w)
        BY <1>1, <4>3 DEF ReferOK
      <4>5. ~(e.ev \in Outcomes /\ e.of = w)
        BY <1>3, <1>6, <4>4 DEF OutcomeIn, IsNews
      <4>6. Hears(w, e)
        BY <1>3, <4>4 DEF Spawns, Transferring, NoJob, Job
      <4>7. job'[w].whose # w
        <5>1. CASE Takes(w, e)
          <6>1. e.ev \in {"failed", "transferred", "closed"} /\ job'[w].whose = e.of
            BY <1>10, <4>4, <4>6, <5>1 DEF Hears
          <6>2. w # 0
            BY RequestsAssumption DEF Task
          <6> QED BY <1>3, <4>5, <6>1, <6>2 DEF NewsOK, Outcomes
        <5>2. CASE ~Takes(w, e)
          BY <4>2, <4>6, <5>2 DEF Hears
        <5> QED BY <5>1, <5>2
      <4> QED BY <3>1, <4>2, <4>7
    <3> QED BY <2>1, <3>2, <3>3, <3>4 DEF ToldOK
  <2> QED BY <2>2, <2>3
<1> QED BY <1>8, <1>12 DEF ToldInv

LEMMA ToldNext ==
    ASSUME Base, ReferInv, AloneInv, ToldInv, Next
    PROVE  ToldInv'
<1>1. Stepping /\ Blurs
  BY NextSteps
<1>2. CASE Application
  <2>1. NextOne \in Task /\ OperationBegins(NextOne) /\ Begun(NextOne) /\ Turn(NextOne)
    BY <1>2, ApplicationTurn DEF Base
  <2>2. PICK t \in Task : OperationBegins(t) /\ Begun(t) /\ Turn(t)
    BY <2>1
  <2> QED BY <2>2, TurnTold
<1>3. ASSUME NEW t \in Task, GoesOn(t)
      PROVE  ToldInv'
  <2>1. Resumes(t) /\ Turn(t)
    BY <1>3, GoesOnTurn DEF Base
  <2> QED BY <2>1, TurnTold
<1>4. CASE DispatchEvent
  BY <1>4, EventTold
<1>5. ASSUME job' = job, obj' = obj, \A u \in Task : task'[u].out = task[u].out,
             \A c \in Calls : stack'[c].live => stack[c].live
      PROVE  ToldInv'
  <2>1. EndsKept
    BY <1>5 DEF EndsKept
  <2>2. \A u \in Task : WhoseKept(u) /\ ReturnKept(u) /\ AttendedKept(u)
    BY <1>5 DEF WhoseKept, ReturnKept, AttendedKept, Transferring
  <2> QED BY <2>1, <2>2, ToldKept
<1>6. CASE (DispatchDone /\ AppKept) \/ (\E t \in Task : Timer(t)) \/ (Report /\ AppKept)
  <2>1. job' = job /\ obj' = obj /\ stack' = stack /\ \A u \in Task : task'[u].out = task[u].out
    BY <1>1, <1>6, Stays
  <2> QED BY <1>5, <2>1
<1>7. ASSUME NEW q \in Order, NEW r \in Completed, Carries(q, r) /\ Kept
      PROVE  ToldInv'
  BY <1>5, <1>7 DEF Kept, Carries, CallAfter
<1>8. CASE Network
  <2>1. job' = job /\ obj' = obj /\ task' = task /\ \A c \in Calls : stack'[c].live => stack[c].live
    BY <1>8, NetworkStep DEF NetworkKept, NetworkStack
  <2> QED BY <1>5, <2>1
<1> QED BY <1>1, <1>2, <1>3, <1>4, <1>6, <1>7, <1>8 DEF Stepping



-----------------------------------------------------------------------------
(* The REGISTERs in flight, and the one that was confirmed.                *)

(* What a step that leaves the registrar alone does to u. *)
AirSame(u) ==
    /\ job[u].kind \in Registers => job'[u].kind = job[u].kind
    /\ Confirming(u)' => Confirming(u)
    /\ job'[u].kind = "unregister" =>
          /\ job[u].kind = "unregister"
          /\ task'[u].out = "ok" => job'[u].verdict = "ok"
          /\ Confirmed(u)' => Confirmed(u)

OrdersKept ==
    \A k \in 1 .. Len(queue') : queue'[k].op \in Registers =>
        \E i \in 1 .. Len(queue) : queue[i] = queue'[k]

LEMMA LastKept ==
    ASSUME \A u \in Task : job[u].kind \in Registers => job'[u].kind = job[u].kind,
           NEW t \in Task, LastRegistration(t)'
    PROVE  LastRegistration(t)
<1>1. \A u \in t + 1 .. MaxTasks : u \in Task
  BY RequestsAssumption DEF Task
<1> QED BY <1>1 DEF LastRegistration

LEMMA AirByIs ==
    ASSUME Types, NEW i \in 1 .. Len(registrar.air)
    PROVE  /\ registrar.air[i].by \in Task \cup {0} /\ registrar.air[i].turn \in {"on", "off"}
           /\ registrar.air \in Seq(Sending) /\ Len(registrar.air) \in Nat
<1>1. registrar.air \in Seq(Sending)
  BY DEF Types, Registrar
<1>2. PICK air \in Seq(Sending) : air = registrar.air
  BY <1>1
<1>3. Len(air) \in Nat /\ air[i] \in Sending
  BY <1>2
<1> QED BY <1>2, <1>3 DEF Sending

LEMMA AirKept ==
    ASSUME Base, AirInv, registrar' = registrar, OrdersKept, \A u \in Task : AirSame(u)
    PROVE  AirInv'
<1>1. Types
  BY DEF Base
<1>2. \A u \in Task : job[u].kind \in Registers => job'[u].kind = job[u].kind
  BY DEF AirSame
<1>3. AirOrder'
  <2>1. ASSUME NEW i \in 1 .. Len(registrar.air), registrar.air[i].by # 0
        PROVE  job'[registrar.air[i].by].kind
                  = IF registrar.air[i].turn = "on" THEN "register" ELSE "unregister"
    <3>1. PICK u \in Task : u = registrar.air[i].by
      BY <1>1, <2>1, AirByIs
    <3>2. job[u].kind = IF registrar.air[i].turn = "on" THEN "register" ELSE "unregister"
      BY <2>1, <3>1 DEF AirInv, AirOrder
    <3> QED BY <1>2, <3>1, <3>2 DEF Registers
  <2>2. \A i \in 1 .. Len(registrar.air), k \in 1 .. Len(queue') :
          queue'[k].op \in Registers => registrar.air[i].by < queue'[k].by
    BY DEF AirInv, AirOrder, OrdersKept
  <2> QED BY <2>1, <2>2 DEF AirOrder, AirInv
<1>4. ASSUME NEW t \in Task
      PROVE  AirTold(t)'
  <2>1. AirSame(t) /\ AirTold(t)
    BY DEF AirInv
  <2>2. ASSUME job'[t].kind = "unregister", Confirmed(t)', LastRegistration(t)'
        PROVE  Unbound'
    <3>1. Unbound
      BY <1>2, <2>1, <2>2, LastKept DEF AirSame, AirTold
    <3> QED BY <3>1 DEF Unbound, NoRegister, OrdersKept
  <2>3. Confirming(t)' => job'[t].kind \in Registers
    BY <2>1 DEF AirSame, AirTold
  <2>4. job'[t].kind = "unregister" => (task'[t].out = "ok" => job'[t].verdict = "ok")
    BY <2>1 DEF AirSame
  <2> QED BY <2>2, <2>3, <2>4 DEF AirTold
<1> QED BY <1>3, <1>4 DEF AirInv

LEMMA SlidConfirms ==
    ASSUME Types, NEW m \in 0 .. 1, Slid(m), telling' = telling
    PROVE  \A u : Confirming(u)' => Confirming(u)
<1>1. ASSUME NEW u, Confirms(ready, u)'
      PROVE  Confirms(ready, u)
  <2>1. PICK i \in 1 .. Len(ready') : IsNews(ready'[i], {"regok"}) /\ ready'[i].ev.of = u
    BY <1>1 DEF Confirms, IsNews
  <2>2. i + m \in 1 .. Len(ready) /\ ready'[i] = ready[i + m]
    BY <2>1 DEF Slid, IsNews
  <2> QED BY <2>1, <2>2 DEF Confirms
<1>2. \A u : Confirms(telling, u)' => Confirms(telling, u)
  BY DEF Confirms
<1> QED BY <1>1, <1>2 DEF Confirming

(* unregister() returns what it was told. *)
LEMMA RegistrationOut ==
    ASSUME Base, NEW t \in Task, Resumes(t), job[t].kind \in Registers, task'[t].out = "ok"
    PROVE  job[t].verdict = "ok"
<1>1. Types /\ TaskInv /\ Running(t)
  BY DEF Base, Resumes
<1>2. /\ task[t].at \in {"starting", "awaiting", "waiting", "sleeping"}
      /\ job[t].step \in Commanding => task[t].at = "awaiting" /\ job[t].kind \in Kinds(job[t].step)
  BY <1>1, WhereItIs
<1>3. ~HoldGoesOn(t) /\ ~UndoGoesOn(t) /\ ~VideoGoesOn(t)
  BY <1>2 DEF HoldGoesOn, UndoGoesOn, VideoGoesOn, Kinds, Commanding, Registers
<1>4. ~DecisionGoesOn(t) /\ ~PolicyGoesOn(t) /\ ~DigitGoesOn(t)
  BY DEF DecisionGoesOn, PolicyGoesOn, DigitGoesOn, Registers
<1> QED BY <1>3, <1>4 DEF Resumes, SentGoesOn, OutcomeGoesOn, Concluded, Pauses, Leaves

LEMMA ResumeAir ==
    ASSUME Base, AirInv, NEW t \in Task, Resumes(t), Turn(t)
    PROVE  AirInv'
<1>1. Types /\ registrar' = registrar /\ telling' = telling
  BY DEF Base, Turn, nativeVars
<1>2. /\ SameOp(job'[t], job[t]) /\ Running(t)
      /\ \A q \in Order : queue' = Append(queue, q) => q.op \notin Registers
  BY ResumesRuns DEF Resumes, Base
<1>3. \A u \in Task : u # t => task'[u] = task[u] /\ job'[u] = job[u]
  BY DEF Turn, Runs, Only
<1>4. \A u \in Task : job'[u].kind = job[u].kind /\ job'[u].verdict = job[u].verdict
                        /\ job'[u].whose = job[u].whose
  BY <1>2, <1>3 DEF SameOp
<1>5. OrdersKept
  <2> SUFFICES ASSUME NEW i \in 1 .. Len(queue'), queue'[i].op \in Registers
               PROVE  i \in 1 .. Len(queue) /\ queue'[i] = queue[i]
    BY DEF OrdersKept
  <2>1. CASE i = Len(queue) + 1 /\ queue'[i] \in Order /\ queue' = Append(queue, queue'[i])
    <3>1. PICK q \in Order : q = queue'[i]
      BY <2>1
    <3> QED BY <1>2, <2>1, <3>1
  <2> QED BY <1>1, <2>1, QueueAfter
<1>6. PICK m \in 0 .. 1 : Slid(m)
  BY <1>1, ReadyAfter DEF Slid
<1>7. \A u \in Task : Confirming(u)' => Confirming(u)
  BY <1>1, <1>6, SlidConfirms
<1>8. ASSUME NEW u \in Task
      PROVE  AirSame(u)
  <2>1. job[u].kind = "unregister" /\ task'[u].out = "ok" => job[u].verdict = "ok"
    <3>1. CASE u = t
      BY <3>1, RegistrationOut DEF Registers
    <3>2. CASE u # t
      BY <1>3, <3>2 DEF AirInv, AirTold
    <3> QED BY <3>1, <3>2
  <2>2. Confirmed(u)' => Confirmed(u)
    BY <1>4, <1>7 DEF Confirmed
  <2> QED BY <1>4, <1>7, <2>1, <2>2 DEF AirSame
<1> QED BY <1>1, <1>5, <1>8, AirKept

LEMMA BeginAir ==
    ASSUME Base, AirInv, NEW t \in Task, t = NextOne, OperationBegins(t), Begun(t), Turn(t)
    PROVE  AirInv'
<1>1. Types /\ registrar' = registrar /\ telling' = telling /\ ready' = ready
  BY DEF Base, Turn, nativeVars, Begun
<1>2. /\ job[t].kind = "none"
      /\ \A u \in Task : u # t => task'[u] = task[u] /\ job'[u] = job[u]
  BY DEF Begun, Turn, Runs, Only, NoJob, Job
<1>3. \A u \in Task : Confirming(u)' <=> Confirming(u)
  BY <1>1 DEF Confirming, Confirms
<1>4. \A i \in 1 .. Len(queue') :
              \/ i \in 1 .. Len(queue) /\ queue'[i] = queue[i]
              \/ i = Len(queue) + 1 /\ queue'[i].by = t /\ OrderOK(queue[i])'
  BY <1>1, QueueAfter
<1>5. AirOrder'
  <2>1. ASSUME NEW i \in 1 .. Len(registrar.air), registrar.air[i].by # 0
        PROVE  /\ registrar.air[i].by < t
               /\ job'[registrar.air[i].by].kind
                    = IF registrar.air[i].turn = "on" THEN "register" ELSE "unregister"
    <3>1. PICK u \in Task : u = registrar.air[i].by
      BY <1>1, <2>1, AirByIs
    <3>2. job[u].kind = IF registrar.air[i].turn = "on" THEN "register" ELSE "unregister"
      BY <2>1, <3>1 DEF AirInv, AirOrder
    <3>3. u < t
      BY <3>2, RegistersBegun DEF Registers
    <3>4. u # t
      BY <1>2, <3>2
    <3> QED BY <1>2, <3>1, <3>2, <3>3, <3>4
  <2>2. ASSUME NEW i \in 1 .. Len(registrar.air)
        PROVE  registrar.air[i].by < t
    <3>1. 0 < t
      BY RequestsAssumption DEF Task
    <3>2. CASE registrar.air[i].by = 0
      BY <3>1, <3>2
    <3> QED BY <2>1, <3>2
  <2>3. ASSUME NEW i \in 1 .. Len(registrar.air), NEW k \in 1 .. Len(queue'), queue'[k].op \in Registers
        PROVE  registrar.air[i].by < queue'[k].by
    <3>1. CASE k \in 1 .. Len(queue) /\ queue'[k] = queue[k]
      BY <2>3, <3>1 DEF AirInv, AirOrder
    <3>2. CASE queue'[k].by = t
      BY <2>2, <3>2
    <3> QED BY <1>4, <3>1, <3>2
  <2> QED BY <1>1, <2>1, <2>3 DEF AirOrder, AirInv
<1>6. AirTold(t)'
  <2>1. ~Confirming(t)'
    BY <1>2, <1>3 DEF AirInv, AirTold, Registers
  <2>2. job'[t].verdict = "none" /\ task'[t].out # "ok"
    BY BeginsOut
  <2> QED BY <2>1, <2>2 DEF AirTold, Confirmed
<1>7. ASSUME NEW u \in Task, u # t
      PROVE  AirTold(u)'
  <2>1. AirTold(u) /\ task'[u] = task[u] /\ job'[u] = job[u] /\ (Confirming(u)' <=> Confirming(u))
    BY <1>2, <1>3, <1>7 DEF AirInv
  <2>2. ASSUME job[u].kind = "unregister", Confirmed(u)', LastRegistration(u)'
        PROVE  Unbound'
    <3>1. u < t
      BY <2>2, RegistersBegun DEF Registers
    <3>2. t \in u + 1 .. MaxTasks
      BY <3>1, RequestsAssumption DEF Task
    <3>3. job'[t].kind \notin Registers
      BY <2>2, <3>2 DEF LastRegistration
    <3>4. \A v \in u + 1 .. MaxTasks : v \in Task
      BY RequestsAssumption DEF Task
    <3>5. LastRegistration(u)
      <4>1. job[t].kind \notin Registers
        BY <1>2 DEF Registers
      <4> QED BY <1>2, <2>2, <3>4, <4>1 DEF LastRegistration
    <3>6. Unbound
      BY <2>1, <2>2, <3>5 DEF AirTold, Confirmed
    <3>7. NoRegister'
      <4> SUFFICES ASSUME NEW k \in 1 .. Len(queue')
                   PROVE  queue'[k].op \notin Registers
        BY DEF NoRegister
      <4>1. CASE k \in 1 .. Len(queue) /\ queue'[k] = queue[k]
        BY <3>6, <4>1 DEF Unbound, NoRegister
      <4>2. CASE queue'[k].by = t /\ OrderOK(queue[k])'
        BY <3>3, <4>2 DEF OrderOK
      <4> QED BY <1>4, <4>1, <4>2
    <3> QED BY <1>1, <3>6, <3>7 DEF Unbound
  <2> QED BY <2>1, <2>2 DEF AirTold
<1> QED BY <1>5, <1>6, <1>7 DEF AirInv

LEMMA EventAir ==
    ASSUME Base, AirInv, DispatchEvent
    PROVE  AirInv'
<1>1. Types /\ TaskInv /\ NewsInv /\ queue' = queue /\ registrar' = registrar /\ telling' = telling
  BY DEF Base, DispatchEvent, nativeVars
<1>2. PICK e \in News : e = Head(ready).ev
  BY <1>1, EventStep
<1>3. /\ ready # <<>> /\ Head(ready) = ready[1] /\ ready[1].kind = "event" /\ ready[1].ev = e /\ NewsOK(e)
      /\ \A u \in Task : Spawns(u, e) \/ Hears(u, e)
      /\ Slid(1) /\ 1 \in 0 .. 1
  BY <1>1, <1>2, EventStep
<1>4. 1 \in 1 .. Len(ready)
  BY <1>1, <1>3, Taken DEF Types
<1>5. \A u \in Task : Confirming(u)' => Confirming(u)
  BY <1>1, <1>3, SlidConfirms
<1>6. ASSUME NEW u \in Task
      PROVE  AirSame(u)
  <2>1. CASE Spawns(u, e)
    BY <1>5, <2>1 DEF Spawns, AirSame, NoJob, Job, Registers
  <2>2. CASE Hears(u, e)
    <3>1. job'[u].kind = job[u].kind /\ task'[u].out = task[u].out
      BY <2>2 DEF Hears
    <3>2. CASE ~Takes(u, e)
      <4>1. job'[u].verdict = job[u].verdict /\ job'[u].whose = job[u].whose
        BY <2>2, <3>2 DEF Hears
      <4> QED BY <1>5, <3>1, <4>1 DEF AirSame, Confirmed, AirInv, AirTold
    <3>3. CASE Takes(u, e)
      <4>1. job[u].verdict = "none" /\ Running(u) /\ job'[u].verdict = Verdict(e) /\ job'[u].whose = e.of
        BY <2>2, <3>3 DEF Hears, Takes
      <4>2. job[u].kind = "unregister" => task[u].out # "ok"
        BY <4>1 DEF AirInv, AirTold
      <4>3. ASSUME job[u].kind = "unregister", Confirmed(u)'
            PROVE  Confirmed(u)
        <5>1. CASE Confirming(u)'
          BY <1>5, <5>1 DEF Confirmed
        <5>2. CASE Verdict(e) = "ok" /\ e.of = u
          <6>1. JobOK(job[u])
            BY <1>1 DEF TaskInv, TaskOK
          <6>2. ~TakesOutcome(u, e)
            BY <4>3, <6>1 DEF TakesOutcome, JobOK, Kinds
          <6>3. e.ev = "regok"
            BY <3>3, <5>2, <6>2 DEF Takes, TakesAnswer, Verdict
          <6> QED BY <1>3, <1>4, <5>2, <6>3 DEF Confirmed, Confirming, Confirms, IsNews
        <5> QED BY <4>1, <4>3, <5>1, <5>2 DEF Confirmed
      <4> QED BY <1>5, <3>1, <4>2, <4>3 DEF AirSame
    <3> QED BY <3>2, <3>3
  <2> QED BY <1>3, <2>1, <2>2
<1>7. OrdersKept
  BY <1>1 DEF OrdersKept
<1> QED BY <1>1, <1>6, <1>7, AirKept

LEMMA StayAir ==
    ASSUME Base, AirInv, job' = job, registrar' = registrar, OrdersKept,
           \A u \in Task : task'[u].out = task[u].out,
           \A u \in Task : Confirming(u)' => Confirming(u)
    PROVE  AirInv'
<1>1. \A u \in Task : AirSame(u)
  BY DEF AirSame, Confirmed, AirInv, AirTold
<1> QED BY <1>1, AirKept

LEMMA ReportAir ==
    ASSUME Base, Blurs, AirInv, Report, AppKept
    PROVE  AirInv'
<1>1. /\ \A i \in 1 .. Len(ready') : \/ i \in 1 .. Len(ready) /\ ready'[i] = ready[i]
                                     \/ i = Len(ready) + 1 /\ ready'[i] = telling[1]
      /\ \A i \in 1 .. Len(telling') : i + 1 \in 1 .. Len(telling) /\ telling'[i] = telling[i + 1]
      /\ 1 \in 1 .. Len(telling)
      /\ task' = task /\ queue' = queue /\ job' = job /\ registrar' = registrar
  BY ReportBase DEF AppKept, Report, nativeVars
<1>2. ASSUME NEW u, Confirms(ready, u)'
      PROVE  Confirming(u)
  <2>1. PICK i \in 1 .. Len(ready') : IsNews(ready'[i], {"regok"}) /\ ready'[i].ev.of = u
    BY <1>2 DEF Confirms, IsNews
  <2> QED BY <1>1, <2>1 DEF Confirms, Confirming
<1>3. ASSUME NEW u, Confirms(telling, u)'
      PROVE  Confirming(u)
  <2>1. PICK i \in 1 .. Len(telling') : IsNews(telling'[i], {"regok"}) /\ telling'[i].ev.of = u
    BY <1>3 DEF Confirms, IsNews
  <2> QED BY <1>1, <2>1 DEF Confirms, Confirming
<1>4. OrdersKept
  BY <1>1 DEF OrdersKept
<1> QED BY <1>1, <1>2, <1>3, <1>4, StayAir DEF Confirming

LEMMA CarriesAir ==
    ASSUME Base, RegisterInv, AirInv, NEW q \in Order, NEW r \in Completed, Carries(q, r), Kept
    PROVE  AirInv'
<1>1. Types /\ OrderInv /\ ItemInv /\ task' = task /\ job' = job /\ ready' = ready
  BY DEF Base, Kept
<1>2. /\ OrderOK(q) /\ q.by \in Task /\ RegistrarAfter(q, r) /\ q = queue[1] /\ 1 \in 1 .. Len(queue)
      /\ \A i \in 1 .. Len(queue') : i + 1 \in 1 .. Len(queue) /\ queue'[i] = queue[i + 1]
  BY <1>1 DEF Carries, Serves, OrderInv, Order
<1>3. \A u : ~Confirms(telling, u)'
  <2>1. ASSUME NEW i \in 1 .. Len(telling'), IsNews(telling'[i], {"regok"})
        PROVE  FALSE
    <3>1. telling'[i] = Done(q, r) \/ telling'[i] = OfferOf(q)
      BY TellsDone DEF Carries
    <3> QED BY <2>1, <3>1 DEF IsNews, Done, OfferOf, Event
  <2> QED BY <2>1 DEF Confirms, IsNews
<1>4. \A u \in Task : Confirming(u)' => Confirming(u)
  BY <1>1, <1>3 DEF Confirming, Confirms
<1>5. OrdersKept
  BY <1>2 DEF OrdersKept
<1>6. CASE registrar' = registrar
  BY <1>1, <1>4, <1>5, <1>6, StayAir
<1>7. CASE q.op \in Registers /\ r = "ok"
  <2> DEFINE air == registrar.air
  <2>1. /\ air \in Seq(Sending) /\ registrar \in Registrar /\ Sent1(q) \in Sending
        /\ registrar' = [registrar EXCEPT !.air = Append(@, Sent1(q))]
    BY <1>1, <1>2, <1>7 DEF Types, Registrar, RegistrarAfter, Sending, Sent1, Register
  <2>2. registrar'.air = Append(air, Sent1(q))
    BY <2>1 DEF Registrar
  <2>3. /\ Len(registrar'.air) = Len(air) + 1 /\ Len(air) \in Nat
        /\ \A i \in 1 .. Len(air) : registrar'.air[i] = air[i]
        /\ registrar'.air[Len(air) + 1] = Sent1(q)
    BY <2>1, <2>2, Appended
  <2>4. /\ Sent1(q).by = q.by /\ q.by # 0
        /\ job[q.by].kind = IF Sent1(q).turn = "on" THEN "register" ELSE "unregister"
    BY <1>2, <1>7, RequestsAssumption DEF Sent1, Register, OrderOK, Registers, Task
  <2>5. \A i \in 1 .. Len(air) : air[i].by < q.by
    BY <1>2, <1>7 DEF AirInv, AirOrder
  <2>6. \A k \in 1 .. Len(queue') : queue'[k].op \in Registers =>
            q.by < queue'[k].by /\ \A i \in 1 .. Len(air) : air[i].by < queue'[k].by
    <3> SUFFICES ASSUME NEW k \in 1 .. Len(queue'), queue'[k].op \in Registers
                 PROVE  q.by < queue'[k].by /\ \A i \in 1 .. Len(air) : air[i].by < queue'[k].by
      OBVIOUS
    <3>1. k + 1 \in 1 .. Len(queue) /\ queue'[k] = queue[k + 1] /\ 1 < k + 1
      BY <1>2
    <3>2. q.by < queue'[k].by
      BY <1>2, <1>7, <3>1 DEF RegisterInv
    <3> QED BY <3>1, <3>2 DEF AirInv, AirOrder
  <2>7. AirOrder'
    <3>1. ASSUME NEW i \in 1 .. Len(registrar'.air)
          PROVE  \/ i \in 1 .. Len(air) /\ registrar'.air[i] = air[i]
                 \/ i = Len(air) + 1 /\ registrar'.air[i] = Sent1(q)
      BY <2>3
    <3>2. ASSUME NEW i \in 1 .. Len(registrar'.air), NEW k \in 1 .. Len(registrar'.air), i < k
          PROVE  registrar'.air[i].by < registrar'.air[k].by
      <4>1. i \in 1 .. Len(air) /\ registrar'.air[i] = air[i]
        BY <2>3, <3>2
      <4>2. CASE k \in 1 .. Len(air) /\ registrar'.air[k] = air[k]
        BY <3>2, <4>1, <4>2 DEF AirInv, AirOrder
      <4>3. CASE registrar'.air[k] = Sent1(q)
        BY <2>4, <2>5, <4>1, <4>3
      <4> QED BY <3>1, <4>2, <4>3
    <3>3. ASSUME NEW i \in 1 .. Len(registrar'.air), registrar'.air[i].by # 0
          PROVE  job[registrar'.air[i].by].kind
                    = IF registrar'.air[i].turn = "on" THEN "register" ELSE "unregister"
      BY <2>4, <3>1, <3>3 DEF AirInv, AirOrder
    <3>4. ASSUME NEW i \in 1 .. Len(registrar'.air), NEW k \in 1 .. Len(queue'), queue'[k].op \in Registers
          PROVE  registrar'.air[i].by < queue'[k].by
      BY <2>4, <2>6, <3>1, <3>4
    <3> QED BY <1>1, <3>2, <3>3, <3>4 DEF AirOrder
  <2>8. ASSUME NEW t \in Task
        PROVE  AirTold(t)'
    <3>1. ~Unbound
      BY <1>2, <1>7 DEF Unbound, NoRegister
    <3>2. Confirmed(t)' => Confirmed(t)
      BY <1>1, <1>4 DEF Confirmed
    <3>3. LastRegistration(t)' <=> LastRegistration(t)
      BY <1>1 DEF LastRegistration
    <3> QED BY <1>1, <1>4, <3>1, <3>2, <3>3 DEF AirInv, AirTold
  <2> QED BY <2>7, <2>8 DEF AirInv
<1> QED BY <1>2, <1>6, <1>7 DEF RegistrarAfter

(* What the far ends and the registrar do to REGISTERs in flight. *)
LEMMA RegistrarMoves ==
    ASSUME Base, Network
    PROVE  \/ /\ registrar' = registrar
              /\ telling' = telling \/ \E e \in News : telling' = <<Event(e)>> /\ e.ev # "regok"
           \/ registrar.bound /\ registrar'.air = <<Register("on", 0)>> /\ telling' = telling
           \/ /\ registrar.air # <<>> /\ registrar'.air = Tail(registrar.air)
              /\ \/ \E e \in News : telling' = <<Event(e)>> /\ e.ev # "regok"
                 \/ /\ registrar'.bound = (Head(registrar.air).turn = "on")
                    /\ telling' = <<Event([ev |-> "regok", on |-> 0, of |-> Head(registrar.air).by])>>
<1>0. Types /\ registrar \in Registrar
  BY DEF Base, Types
<1>1. CASE RegistrarRefresh
  BY <1>0, <1>1 DEF RegistrarRefresh, Registrar
<1>2. CASE RegistrarAnswers
  <2> DEFINE air == registrar.air
             rest == [registrar EXCEPT !.air = Tail(air)]
             bad == [ev |-> "regfail", on |-> 0, of |-> Head(air).by]
  <2>1. rest.air = Tail(air) /\ air # <<>>
    BY <1>0, <1>2 DEF Registrar, RegistrarAnswers
  <2>2. CASE registrar' = [rest EXCEPT !.bound = (Head(air).turn = "on")] /\ Reports("regok", 0, Head(air).by)
    BY <1>0, <2>1, <2>2 DEF Registrar, Reports, Tells
  <2>3. CASE /\ registrar' = IF Head(air).turn = "off" THEN [rest EXCEPT !.refused = @ \cup {Head(air).by}]
                             ELSE rest
             /\ Reports("regfail", 0, Head(air).by)
    <3>1. registrar'.air = Tail(air)
      BY <1>0, <2>1, <2>3 DEF Registrar
    <3>2. Head(air) \in Sending
      BY <1>0, <2>1, Taken DEF Registrar
    <3>3. bad \in News /\ bad.ev # "regok"
      BY <3>2 DEF News, Where, Sending, Task
    <3>4. telling' = <<Event(bad)>>
      BY <2>3 DEF Reports, Tells
    <3> HIDE DEF bad
    <3> QED BY <2>1, <3>1, <3>3, <3>4
  <2> QED BY <1>2, <2>2, <2>3 DEF RegistrarAnswers
<1>3. ASSUME NEW c \in Calls,
             \/ FarEnd(c) \/ PeerRefresh(c) \/ ReferArrives(c)
             \/ RefreshEnds(c) \/ ReferFails(c) \/ ReferSucceeds(c) \/ RequestFails(c)
      PROVE  /\ registrar' = registrar
             /\ telling' = telling \/ \E e \in News : telling' = <<Event(e)>> /\ e.ev # "regok"
  <2>1. registrar' = registrar
    BY <1>3 DEF FarEnd, PeerRefresh, ReferArrives, RefreshEnds, ReferFails, ReferSucceeds, RequestFails
  <2>2. telling' = telling \/ \E n : \E v \in {"closed", "refer", "failed", "transferred"} : Reports(v, c, n)
    BY <1>3 DEF FarEnd, PeerRefresh, ReferArrives, RefreshEnds, ReferFails, ReferSucceeds, RequestFails
  <2>3. telling' = telling \/ \E e \in News : telling' = <<Event(e)>>
    BY NetworkStep DEF Reporting, NetworkTells
  <2>4. ASSUME NEW e \in News, telling' = <<Event(e)>>, telling' # telling
        PROVE  e.ev # "regok"
    <3>1. PICK v : v # "regok" /\ \E n : Reports(v, c, n)
      BY <2>2, <2>4
    <3>2. PICK n : Reports(v, c, n)
      BY <3>1
    <3>3. <<Event([ev |-> v, on |-> c, of |-> n])>> = <<Event(e)>>
      BY <2>4, <3>2 DEF Reports, Tells
    <3> QED BY <3>1, <3>3 DEF Event
  <2> QED BY <2>1, <2>3, <2>4
<1> QED BY <1>1, <1>2, <1>3 DEF Network

LEMMA NetworkAir ==
    ASSUME Base, AirInv, Network
    PROVE  AirInv'
<1>1. /\ Types /\ OrderInv /\ queue' = queue /\ ready' = ready /\ task' = task /\ job' = job
  BY NetworkStep DEF Base, NetworkKept
<1>2. ASSUME NEW e \in News, telling' = <<Event(e)>>, e.ev # "regok"
      PROVE  \A u \in Task : Confirming(u)' => Confirming(u)
  BY <1>1, <1>2 DEF Confirming, Confirms, IsNews, Event
<1>3. telling' = telling => \A u \in Task : Confirming(u)' => Confirming(u)
  BY <1>1 DEF Confirming, Confirms
<1>4. CASE /\ registrar' = registrar
           /\ telling' = telling \/ \E e \in News : telling' = <<Event(e)>> /\ e.ev # "regok"
  <2>1. OrdersKept
    BY <1>1 DEF OrdersKept
  <2> QED BY <1>1, <1>2, <1>3, <1>4, <2>1, StayAir
<1>5. \A t \in Task : LastRegistration(t)' <=> LastRegistration(t)
  BY <1>1 DEF LastRegistration
<1>6. ASSUME ~Unbound, \A u \in Task : Confirming(u)' => Confirming(u), NEW t \in Task
      PROVE  AirTold(t)'
  <2>1. Confirmed(t)' => Confirmed(t)
    BY <1>1, <1>6 DEF Confirmed
  <2> QED BY <1>1, <1>5, <1>6, <2>1 DEF AirInv, AirTold
<1>7. \A k \in 1 .. Len(queue) : queue[k].by \in Task
  BY <1>1, Parties
<1>8. CASE registrar.bound /\ registrar'.air = <<Register("on", 0)>> /\ telling' = telling
  <2>1. Len(registrar'.air) = 1 /\ registrar'.air[1].by = 0
    BY <1>8 DEF Register
  <2>2. \A n \in Task : 0 < n
    BY RequestsAssumption DEF Task
  <2>3. AirOrder'
    BY <1>1, <1>7, <2>1, <2>2 DEF AirOrder
  <2> QED BY <1>3, <1>6, <1>8, <2>3 DEF AirInv, Unbound
<1>9. CASE /\ registrar.air # <<>> /\ registrar'.air = Tail(registrar.air)
           /\ \/ \E e \in News : telling' = <<Event(e)>> /\ e.ev # "regok"
              \/ /\ registrar'.bound = (Head(registrar.air).turn = "on")
                 /\ telling' = <<Event([ev |-> "regok", on |-> 0, of |-> Head(registrar.air).by])>>
  <2> DEFINE air == registrar.air
             left == registrar'.air
  <2>1. /\ left \in Seq(Sending) /\ Len(left) = Len(air) - 1 /\ Len(air) \in Nat \ {0}
        /\ Head(air) \in Sending /\ Head(air) = air[1] /\ 1 \in 1 .. Len(air)
        /\ \A i \in 1 .. Len(left) : i + 1 \in 1 .. Len(air) /\ left[i] = air[i + 1]
    BY <1>1, <1>9, Taken DEF Types, Registrar
  <2>2. AirOrder'
    <3>1. ASSUME NEW i \in 1 .. Len(left), NEW k \in 1 .. Len(left), i < k
          PROVE  left[i].by < left[k].by
      <4>1. /\ i + 1 \in 1 .. Len(air) /\ left[i] = air[i + 1]
            /\ k + 1 \in 1 .. Len(air) /\ left[k] = air[k + 1]
        BY <2>1
      <4>2. i + 1 < k + 1
        BY <3>1
      <4> QED BY <4>1, <4>2 DEF AirInv, AirOrder
    <3>2. ASSUME NEW i \in 1 .. Len(left), left[i].by # 0
          PROVE  job[left[i].by].kind = IF left[i].turn = "on" THEN "register" ELSE "unregister"
      BY <2>1, <3>2 DEF AirInv, AirOrder
    <3>3. ASSUME NEW i \in 1 .. Len(left), NEW k \in 1 .. Len(queue), queue[k].op \in Registers
          PROVE  left[i].by < queue[k].by
      BY <2>1, <3>3 DEF AirInv, AirOrder
    <3> HIDE DEF left
    <3> QED BY <1>1, <3>1, <3>2, <3>3 DEF AirOrder, left
  <2>3. CASE \A u \in Task : Confirming(u)' => Confirming(u)
    BY <1>6, <1>9, <2>2, <2>3 DEF AirInv, Unbound
  <2>4. CASE /\ registrar'.bound = (Head(air).turn = "on")
             /\ telling' = <<Event([ev |-> "regok", on |-> 0, of |-> Head(air).by])>>
    <3> DEFINE e == [ev |-> "regok", on |-> 0, of |-> Head(air).by]
    <3>1. ASSUME NEW u \in Task, Confirming(u)'
          PROVE  Confirming(u) \/ u = Head(air).by
      BY <1>1, <2>4, <3>1 DEF Confirming, Confirms, IsNews, Event
    <3>2. ASSUME NEW t \in Task
          PROVE  AirTold(t)'
      <4>1. CASE t # Head(air).by
        <5>1. Confirmed(t)' => Confirmed(t)
          BY <1>1, <3>1, <4>1 DEF Confirmed
        <5> QED BY <1>1, <1>5, <1>9, <3>1, <4>1, <5>1 DEF AirInv, AirTold, Unbound
      <4>2. CASE t = Head(air).by
        <5>1. t = air[1].by /\ t # 0
          BY <2>1, <4>2, RequestsAssumption DEF Task
        <5>2. job[t].kind = IF air[1].turn = "on" THEN "register" ELSE "unregister"
          BY <2>1, <5>1 DEF AirInv, AirOrder
        <5>3. ASSUME job[t].kind = "unregister", LastRegistration(t)
              PROVE  Unbound'
          <6>1. ~registrar'.bound
            BY <2>1, <2>4, <5>2, <5>3
          <6>2. ASSUME NEW u \in Task, t < u, job[u].kind \in Registers
                PROVE  FALSE
            <7>1. u \in t + 1 .. MaxTasks
              BY <6>2, RequestsAssumption DEF Task
            <7> QED BY <5>3, <6>2, <7>1 DEF LastRegistration
          <6>3. Len(air) = 1
            <7>1. ASSUME 2 \in 1 .. Len(air)
                  PROVE  FALSE
              <8>1. t < air[2].by
                BY <2>1, <5>1, <7>1 DEF AirInv, AirOrder
              <8>2. air[2].by \in Task \cup {0} /\ air[2].by # 0
                BY <1>1, <7>1, <8>1, AirByIs, RequestsAssumption DEF Task
              <8>3. job[air[2].by].kind \in Registers
                BY <7>1, <8>2 DEF AirInv, AirOrder, Registers
              <8> QED BY <6>2, <8>1, <8>2, <8>3
            <7>2. \A n \in Nat \ {0} : n = 1 \/ 2 \in 1 .. n
              OBVIOUS
            <7>3. Len(air) \in Nat \ {0}
              BY <2>1
            <7> HIDE DEF air
            <7> QED BY <7>1, <7>2, <7>3
          <6>4. registrar'.air = <<>>
            BY <2>1, <6>3
          <6>5. ASSUME NEW k \in 1 .. Len(queue), queue[k].op \in Registers
                PROVE  FALSE
            <7>1. t < queue[k].by /\ queue[k].by \in Task
              BY <1>7, <2>1, <5>1, <6>5 DEF AirInv, AirOrder
            <7>2. job[queue[k].by].kind \in Registers
              BY <1>1, <6>5 DEF OrderInv, OrderOK
            <7> QED BY <6>2, <7>1, <7>2
          <6>6. NoRegister'
            BY <1>1, <6>5 DEF NoRegister
          <6> QED BY <6>1, <6>4, <6>6 DEF Unbound
        <5>4. task[t].out = "ok" => (job[t].kind = "unregister" => job[t].verdict = "ok")
          BY DEF AirInv, AirTold
        <5> QED BY <1>1, <1>5, <5>2, <5>3, <5>4 DEF AirTold, Registers
      <4> QED BY <4>1, <4>2
    <3> QED BY <2>2, <3>2 DEF AirInv
  <2> QED BY <1>2, <1>9, <2>3, <2>4
<1> QED BY <1>4, <1>8, <1>9, RegistrarMoves

LEMMA AirNext ==
    ASSUME Base, RegisterInv, AirInv, Next
    PROVE  AirInv'
<1>1. Stepping /\ Blurs
  BY NextSteps
<1>2. CASE Application
  <2>1. NextOne \in Task /\ OperationBegins(NextOne) /\ Begun(NextOne) /\ Turn(NextOne)
    BY <1>2, ApplicationTurn DEF Base
  <2>2. PICK t \in Task : t = NextOne /\ OperationBegins(t) /\ Begun(t) /\ Turn(t)
    BY <2>1
  <2> QED BY <2>2, BeginAir
<1>3. ASSUME NEW t \in Task, GoesOn(t)
      PROVE  AirInv'
  <2>1. Resumes(t) /\ Turn(t)
    BY <1>3, GoesOnTurn DEF Base
  <2> QED BY <2>1, ResumeAir
<1>4. CASE DispatchEvent
  BY <1>4, EventAir
<1>5. ASSUME NEW m \in 0 .. 1, NEW u \in Task, Settles(u, m),
             (DispatchDone /\ AppKept) \/ (\E t \in Task : Timer(t))
      PROVE  AirInv'
  <2>1. Types /\ Slid(m) /\ telling' = telling
    BY <1>5, SettlesSlid DEF Base
  <2>2. \A v : Confirming(v)' => Confirming(v)
    BY <2>1, SlidConfirms
  <2>3. /\ job' = job /\ registrar' = registrar /\ queue' = queue
        /\ \A v \in Task : task'[v].out = task[v].out
    BY <1>1, <1>5, Stays
  <2>4. OrdersKept
    BY <2>3 DEF OrdersKept
  <2> QED BY <2>2, <2>3, <2>4, StayAir
<1>6. CASE DispatchDone /\ AppKept
  <2>1. PICK v \in Task : Settles(v, 1)
    BY <1>6, DoneStep DEF Base, AppKept
  <2>2. 1 \in 0 .. 1
    OBVIOUS
  <2> QED BY <1>5, <1>6, <2>1, <2>2
<1>7. ASSUME NEW t \in Task, Timer(t)
      PROVE  AirInv'
  <2>1. Settles(t, 0) /\ 0 \in 0 .. 1
    BY <1>7, TimerStep DEF Base
  <2> QED BY <1>5, <1>7, <2>1
<1>8. CASE Report /\ AppKept
  BY <1>1, <1>8, ReportAir
<1>9. ASSUME NEW q \in Order, NEW r \in Completed, Carries(q, r) /\ Kept
      PROVE  AirInv'
  BY <1>9, CarriesAir
<1>10. CASE Network
  BY <1>10, NetworkAir
<1> QED BY <1>1, <1>2, <1>3, <1>4, <1>6, <1>7, <1>8, <1>9, <1>10 DEF Stepping

-----------------------------------------------------------------------------
(* Hold.  The callbacks that were there stay, in their order.              *)

Keeps(m) ==
    \A i \in 1 .. Len(ready) : i > m => i - m \in 1 .. Len(ready') /\ ready'[i - m] = ready[i]

LEMMA TurnKeeps ==
    ASSUME Types, NEW t \in Task, Turn(t)
    PROVE  \E m \in 0 .. 1 : Slid(m) /\ Keeps(m) /\ (m = 1 => ready # <<>> /\ ready[1].kind = "wake")
<1>1. ready \in Seq(Callback)
  BY DEF Types
<1>2. CASE Begun(t)
  <2>1. /\ \A i \in 1 .. Len(ready') : i + 0 \in 1 .. Len(ready) /\ ready'[i] = ready[i + 0]
        /\ \A i \in 1 .. Len(ready) : i - 0 \in 1 .. Len(ready') /\ ready'[i - 0] = ready[i]
    BY <1>2 DEF Begun
  <2>2. 0 \in 0 .. 1 /\ Slid(0) /\ Keeps(0)
    BY <2>1 DEF Slid, Keeps
  <2> QED BY <2>2
<1>3. CASE Woke(t)
  <2>1. /\ ready # <<>> /\ ready' = Tail(ready) /\ Len(ready') = Len(ready) - 1 /\ Len(ready) \in Nat
        /\ Head(ready) = ready[1]
        /\ \A i \in 1 .. Len(ready') : i + 1 \in 1 .. Len(ready) /\ ready'[i] = ready[i + 1]
    BY <1>1, <1>3, Taken DEF Woke
  <2>2. Slid(1)
    BY <2>1 DEF Slid
  <2>3. \A i \in 1 .. Len(ready) : i > 1 => i - 1 \in 1 .. Len(ready') /\ ready'[i - 1] = ready[i]
    <3> SUFFICES ASSUME NEW i \in 1 .. Len(ready), i > 1
                 PROVE  i - 1 \in 1 .. Len(ready') /\ ready'[i - 1] = ready[i]
      OBVIOUS
    <3>1. i - 1 \in 1 .. Len(ready') /\ (i - 1) + 1 = i
      BY <2>1
    <3> QED BY <2>1, <3>1
  <2>4. 1 \in 0 .. 1 /\ Keeps(1)
    BY <2>3 DEF Keeps
  <2>5. ready[1].kind = "wake"
    BY <1>3, <2>1 DEF Woke, Wake
  <2> QED BY <2>1, <2>2, <2>4, <2>5
<1> QED BY <1>2, <1>3 DEF Turn

(* What follows the first callback stays in front of whatever is appended. *)
LEMMA RestKeeps ==
    ASSUME Types, ready # <<>>, NEW s \in Seq(Callback), ready' = Tail(ready) \o s
    PROVE  Keeps(1)
<1>1. /\ Tail(ready) \in Seq(Callback) /\ Len(Tail(ready)) = Len(ready) - 1 /\ Len(ready) \in Nat
      /\ \A i \in 1 .. Len(Tail(ready)) : i + 1 \in 1 .. Len(ready) /\ Tail(ready)[i] = ready[i + 1]
  BY Taken DEF Types
<1>2. /\ Len(ready') = Len(Tail(ready)) + Len(s) /\ Len(s) \in Nat
      /\ \A i \in 1 .. Len(Tail(ready)) : ready'[i] = Tail(ready)[i]
  BY <1>1
<1> SUFFICES ASSUME NEW i \in 1 .. Len(ready), i > 1
             PROVE  i - 1 \in 1 .. Len(ready') /\ ready'[i - 1] = ready[i]
  BY DEF Keeps
<1>3. i - 1 \in 1 .. Len(Tail(ready)) /\ i - 1 \in 1 .. Len(ready') /\ (i - 1) + 1 = i
  BY <1>1, <1>2
<1> QED BY <1>1, <1>2, <1>3

LEMMA EventKeeps ==
    ASSUME Types, TaskInv, NewsInv, DispatchEvent
    PROVE  Keeps(1)
<1> DEFINE e == Head(ready).ev
           woken == {t \in Task : Takes(t, e) /\ task[t].at = "waiting" /\ task[t].fut = "open"}
           spawned == IF e.ev = "refer" /\ app.policy # "manual" THEN {PolicyTask(e.of)} ELSE {}
<1>1. ready # <<>> /\ e \in News /\ NewsOK(e)
  BY EventStep
<1>2. PICK order \in SetToSeqs(woken \cup spawned) :
                ready' = Rest \o [i \in DOMAIN order |-> Wake(order[i])]
  BY DEF DispatchEvent
<1>3. woken \cup spawned \in SUBSET Task
  <2>1. ASSUME e.ev = "refer", app.policy # "manual"
        PROVE  PolicyTask(e.of) \in Task
    BY <1>1, <2>1, PolicyTaskIs DEF NewsOK
  <2> QED BY <2>1
<1> HIDE DEF e
<1> DEFINE W == woken \cup spawned
<1>4. /\ Len(order) \in Nat /\ DOMAIN order = 1 .. Len(order)
      /\ \A i \in 1 .. Len(order) : order[i] \in W
  BY <1>2, <1>3, Ordered
<1>5. W \subseteq Task
  BY <1>3
<1> HIDE DEF W, woken, spawned
<1>6. \A i \in 1 .. Len(order) : Wake(order[i]) \in Callback
  BY <1>4, <1>5 DEF Wake, Callback
<1>7. [i \in DOMAIN order |-> Wake(order[i])] \in Seq(Callback)
  BY <1>4, <1>6
<1> QED BY <1>1, <1>2, <1>7, RestKeeps DEF Rest

LEMMA DoneKeeps ==
    ASSUME Types, DispatchDone
    PROVE  Keeps(1)
<1>1. ready # <<>> /\ Tail(ready) \in Seq(Callback)
  BY Taken DEF DispatchDone, Types
<1>2. \A u : ready' = Append(Tail(ready), Wake(u)) => ready' = Tail(ready) \o <<Wake(u)>>
  BY <1>1
<1>3. ready' = Tail(ready) => ready' = Tail(ready) \o <<>>
  BY <1>1
<1>4. Head(ready).by \in Task
  <2>1. Head(ready) \in Callback
    BY <1>1, Taken DEF Types
  <2> QED BY <2>1 DEF DispatchDone, Callback, Told
<1>5. <<Wake(Head(ready).by)>> \in Seq(Callback) /\ <<>> \in Seq(Callback)
  BY <1>4 DEF Wake, Callback
<1>6. ready' = Tail(ready) \/ ready' = Append(Tail(ready), Wake(Head(ready).by))
  BY DEF DispatchDone, Completes, Rest
<1> QED BY <1>1, <1>2, <1>3, <1>5, <1>6, RestKeeps

LEMMA TimerKeeps ==
    ASSUME Types, NEW t \in Task, Timer(t)
    PROVE  Keeps(0)
<1>1. ready' = ready \/ ready' = Append(ready, Wake(t))
  BY DEF Timer, Rings, Expires, Completes
<1>2. ready \in Seq(Callback) /\ Wake(t) \in Callback
  BY DEF Types, Wake, Callback
<1>3. \A i \in 1 .. Len(ready) : i \in 1 .. Len(ready') /\ ready'[i] = ready[i]
  BY <1>1, <1>2, Appended
<1>4. \A i \in 1 .. Len(ready) : i - 0 = i
  OBVIOUS
<1> QED BY <1>3, <1>4 DEF Keeps

(* An offer that is not dispatched is still to be dispatched, and before    *)
(* the completion of its command.                                           *)
LEMMA FirstSlid ==
    ASSUME Types, NEW m \in 0 .. 1, Slid(m), telling' = telling, NEW u, NEW c, OfferFirst(u, c)
    PROVE  OfferFirst(u, c)'
<1>1. ASSUME NEW i \in 1 .. Len(ready'), IsDone(ready'[i]), ready'[i].by = u
      PROVE  ~Offers(telling', c) /\ \A k \in i .. Len(ready') : ~IsOffer(ready'[k], c)
  <2>1. i + m \in 1 .. Len(ready) /\ ready'[i] = ready[i + m]
    BY <1>1 DEF Slid, IsDone
  <2>2. ~Offers(telling, c) /\ \A k \in i + m .. Len(ready) : ~IsOffer(ready[k], c)
    BY <1>1, <2>1 DEF OfferFirst
  <2>3. ASSUME NEW k \in i .. Len(ready'), IsOffer(ready'[k], c)
        PROVE  FALSE
    <3>1. k \in 1 .. Len(ready') /\ ready'[k].kind = "event"
      BY <2>3 DEF IsOffer
    <3>2. k + m \in 1 .. Len(ready) /\ ready'[k] = ready[k + m]
      BY <3>1 DEF Slid
    <3>3. k + m \in i + m .. Len(ready)
      BY <3>2
    <3> QED BY <2>2, <2>3, <3>2, <3>3
  <2> QED BY <2>2, <2>3 DEF Offers
<1>2. ASSUME NEW i \in 1 .. Len(telling'), IsDone(telling'[i]), telling'[i].by = u
      PROVE  \A k \in i .. Len(telling') : ~IsOffer(telling'[k], c)
  BY <1>2 DEF OfferFirst
<1> QED BY <1>1, <1>2 DEF OfferFirst, Offers

LEMMA OffersSlid ==
    ASSUME Types, NEW m \in 0 .. 1, Slid(m), Keeps(m), telling' = telling, NEW c,
           m = 1 => ~IsOffer(ready[1], c)
    PROVE  Offered(c)' <=> Offered(c)
<1>1. ASSUME NEW i \in 1 .. Len(ready'), IsOffer(ready'[i], c)
      PROVE  Offers(ready, c)
  <2>1. i + m \in 1 .. Len(ready) /\ ready'[i] = ready[i + m]
    BY <1>1 DEF Slid, IsOffer
  <2> QED BY <1>1, <2>1 DEF Offers
<1>2. ASSUME NEW i \in 1 .. Len(ready), IsOffer(ready[i], c)
      PROVE  Offers(ready, c)'
  <2>1. i > m
    <3>1. CASE m = 0
      BY <3>1
    <3>2. CASE m = 1
      <4>1. i # 1
        BY <1>2, <3>2
      <4> QED BY <3>2, <4>1
    <3> QED BY <3>1, <3>2
  <2>2. i - m \in 1 .. Len(ready') /\ ready'[i - m] = ready[i]
    BY <2>1 DEF Keeps
  <2>3. IsOffer(ready'[i - m], c)
    BY <1>2, <2>2
  <2> QED BY <2>2, <2>3 DEF Offers
<1>3. Offers(telling, c)' <=> Offers(telling, c)
  BY DEF Offers
<1>4. Offers(ready, c)' <=> Offers(ready, c)
  BY <1>1, <1>2 DEF Offers
<1> QED BY <1>3, <1>4 DEF Offered

(* A step that leaves whoever changes c as it is, and the far end's side of *)
(* it too.                                                                  *)
Steady(u, c) ==
    /\ job'[u].kind = job[u].kind /\ job'[u].step = job[u].step /\ job'[u].saw = job[u].saw
    /\ Asked(u)' => Asked(u)
    /\ \A r \in Completed : Answered(u, r)' => Answered(u, r)
    /\ task'[u].fut = "ok" => task[u].fut = "ok" \/ ~Offered(c)
    /\ OfferFirst(u, c)'

SameRefreshing(c) == \A u \in Task : u \in Refreshing(c)' <=> u \in Refreshing(c)

NoNewRefresh(c) ==
    \A i \in 1 .. Len(queue') : queue'[i].op \in Refresh /\ queue'[i].on = c =>
        \E k \in 1 .. Len(queue) : queue[k] = queue'[i]

SameHold(c) ==
    stack'[c].held = stack[c].held /\ stack'[c].told = stack[c].told /\ stack'[c].denied = stack[c].denied

Undisturbed(c) ==
    /\ SameRefreshing(c) /\ NoNewRefresh(c)
    /\ obj'[c].onHold = obj[c].onHold
    /\ SameHold(c)
    /\ Offered(c)' <=> Offered(c)
    /\ \A u \in Refreshing(c) : Steady(u, c)

LEMMA RefreshingIs ==
    \A c : Refreshing(c) \subseteq Task
  BY DEF Refreshing

LEMMA SteadyOK ==
    ASSUME NEW c, NEW u, RefreshOK(u, c), Steady(u, c), Offered(c)' <=> Offered(c),
           obj'[c].onHold = obj[c].onHold, SameHold(c)
    PROVE  RefreshOK(u, c)'
<1>1. Want(job'[u]) = Want(job[u])
  BY DEF Steady, Want
<1>2. /\ "ok" \in Completed /\ "stale" \in Completed /\ "error" \in Completed
      /\ Clean(c)' <=> Clean(c)
  BY DEF Completed, Clean, SameHold
<1>3. (Answered(u, "ok")' => Answered(u, "ok")) /\ (Answered(u, "stale")' => Answered(u, "stale"))
      /\ (Answered(u, "error")' => Answered(u, "error"))
  BY <1>2 DEF Steady
<1>4. /\ job'[u].step \in {"hold", "undo"} => obj'[c].onHold = ~Want(job'[u])
      /\ Asked(u)' => /\ ~Offered(c)' /\ stack'[c].told = obj'[c].onHold
                      /\ job'[u].step # "undo" => Clean(c)'
                      /\ ~job'[u].saw
  BY <1>1, <1>2 DEF RefreshOK, Steady, SameHold
<1>5. CASE job[u].step = "hold"
  BY <1>1, <1>2, <1>3, <1>4, <1>5 DEF RefreshOK, Steady, SameHold
<1>6. CASE job[u].step # "hold"
  BY <1>1, <1>2, <1>3, <1>4, <1>6 DEF RefreshOK, Steady, SameHold
<1> QED BY <1>5, <1>6

LEMMA UndisturbedOK ==
    ASSUME NEW c \in Calls, HoldOK(c), Undisturbed(c)
    PROVE  HoldOK(c)'
<1>1. \A u : u \in Refreshing(c)' => u \in Task
  BY DEF Refreshing
<1>2. \A u \in Refreshing(c) : u \in Task
  BY RefreshingIs
<1>3. \A u : u \in Refreshing(c)' <=> u \in Refreshing(c)
  BY <1>1, <1>2 DEF Undisturbed, SameRefreshing
<1>4. \A u \in Refreshing(c) : RefreshOK(u, c)'
  BY SteadyOK DEF HoldOK, Undisturbed
<1>5. \A i \in 1 .. Len(queue') : queue'[i].op \in Refresh /\ queue'[i].on = c =>
           queue'[i].by \in Refreshing(c)
  BY DEF HoldOK, Undisturbed, NoNewRefresh
<1>6. Refreshing(c)' = Refreshing(c)
  BY <1>3
<1>7. /\ \A t, u \in Refreshing(c)' : t = u
      /\ Refreshing(c)' = {} =>
            obj'[c].onHold = stack'[c].told /\ Clean(c)' /\ ~Offered(c)'
  BY <1>6 DEF HoldOK, Undisturbed, Clean, SameHold
<1> QED BY <1>4, <1>5, <1>6, <1>7 DEF HoldOK

(* The coroutines and the commands stay where they are. *)
StillAsking ==
    /\ queue' = queue
    /\ \A u \in Task : /\ job'[u].kind = job[u].kind /\ job'[u].call = job[u].call
                       /\ job'[u].with = job[u].with /\ job'[u].leg = job[u].leg
                       /\ job'[u].step = job[u].step /\ task'[u].at = task[u].at

LEMMA StillRefreshing ==
    ASSUME StillAsking
    PROVE  /\ \A c : SameRefreshing(c) /\ NoNewRefresh(c)
           /\ \A u \in Task : Asked(u)' <=> Asked(u)
<1>1. \A u \in Task : Leg(job'[u]) = Leg(job[u])
  BY DEF StillAsking, Leg
<1>2. \A c : SameRefreshing(c)
  BY <1>1 DEF StillAsking, SameRefreshing, Refreshing
<1>3. \A c : NoNewRefresh(c)
  BY DEF StillAsking, NoNewRefresh
<1>4. \A u \in Task : Asked(u)' <=> Asked(u)
  BY DEF StillAsking, Asked
<1> QED BY <1>2, <1>3, <1>4

LEMMA StillHold ==
    ASSUME Quiet, StillAsking, NEW c \in Calls, HoldOK(c),
           obj'[c].onHold = obj[c].onHold, SameHold(c),
           Offered(c)' <=> Offered(c),
           \A u \in Refreshing(c) :
              /\ job'[u].saw = job[u].saw
              /\ task'[u].fut = "ok" => task[u].fut = "ok" \/ ~Offered(c)
              /\ OfferFirst(u, c) => OfferFirst(u, c)'
    PROVE  HoldOK(c)'
<1>1. SameRefreshing(c) /\ NoNewRefresh(c) /\ \A u \in Task : Asked(u)' <=> Asked(u)
  BY StillRefreshing
<1>2. \A u \in Refreshing(c) : u \in Task
  BY RefreshingIs
<1>3. \A u \in Refreshing(c) : Steady(u, c)
  <2> SUFFICES ASSUME NEW u \in Refreshing(c)
               PROVE  Steady(u, c)
    OBVIOUS
  <2>1. u \in Task /\ OfferFirst(u, c)
    BY <1>2 DEF HoldOK, RefreshOK
  <2>2. \A r \in Completed : Answered(u, r)' => Answered(u, r)
    BY <2>1 DEF Quiet
  <2>3. (Asked(u)' => Asked(u)) /\ job'[u].kind = job[u].kind /\ job'[u].step = job[u].step
    BY <1>1, <2>1 DEF StillAsking
  <2> QED BY <2>1, <2>2, <2>3 DEF Steady
<1>4. Undisturbed(c)
  BY <1>1, <1>3 DEF Undisturbed
<1> QED BY <1>4, UndisturbedOK

HoldSteps == \A c \in Calls : stack[c].live /\ stack'[c].live /\ HoldOK(c) => HoldOK(c)'

LEMMA StayHold ==
    ASSUME Base, Blurs, (DispatchDone /\ AppKept) \/ (\E t \in Task : Timer(t))
    PROVE  HoldSteps
<1> SUFFICES ASSUME NEW c \in Calls, HoldOK(c)
             PROVE  HoldOK(c)'
  BY DEF HoldSteps
<1>1. /\ Quiet /\ job' = job /\ obj' = obj /\ stack' = stack /\ queue' = queue
      /\ SameHold(c) /\ \A u \in Task : task'[u].at = task[u].at
  BY Stays DEF SameHold
<1>2. StillAsking
  BY <1>1 DEF StillAsking
<1>3. Types /\ TaskInv /\ WakeInv
  BY DEF Base
<1>4. \A u \in Refreshing(c) : u \in Task /\ task[u].at = "awaiting"
  BY DEF Refreshing
<1>5. CASE DispatchDone /\ AppKept
  <2>1. PICK v \in Task :
              /\ ready # <<>> /\ Head(ready) = ready[1] /\ IsDone(Head(ready)) /\ Head(ready).by = v
              /\ Settles(v, 1)
              /\ \/ task' = task
                 \/ task[v].at = "awaiting" /\ task[v].fut = "open" /\ task'[v].fut = Head(ready).res
    BY <1>3, <1>5, DoneStep DEF AppKept
  <2>2. 1 \in 0 .. 1 /\ Slid(1) /\ telling' = telling
    <3>1. 1 \in 0 .. 1
      OBVIOUS
    <3> QED BY <2>1, <3>1, SettlesSlid
  <2>3. Keeps(1)
    BY <1>3, <1>5, DoneKeeps
  <2>4. ~IsOffer(ready[1], c)
    BY <2>1 DEF IsOffer, IsDone
  <2>5. Offered(c)' <=> Offered(c)
    BY <1>3, <2>2, <2>3, <2>4, OffersSlid
  <2>6. \A u : OfferFirst(u, c) => OfferFirst(u, c)'
    BY <1>3, <2>2, FirstSlid
  <2>7. ASSUME NEW u \in Refreshing(c), task'[u].fut = "ok"
        PROVE  task[u].fut = "ok" \/ ~Offered(c)
    <3>1. CASE u # v \/ task' = task
      BY <1>4, <2>1, <2>7, <3>1 DEF Settles
    <3>2. CASE u = v
      <4>1. OfferFirst(u, c)
        BY DEF HoldOK, RefreshOK
      <4>2. IsDone(ready[1]) /\ ready[1].by = u /\ 1 \in 1 .. Len(ready)
        <5>1. Len(ready) \in Nat /\ Len(ready) # 0
          BY <1>3, <2>1, Taken DEF Types
        <5> QED BY <2>1, <3>2, <5>1
      <4>3. ~Offers(telling, c) /\ \A k \in 1 .. Len(ready) : ~IsOffer(ready[k], c)
        BY <4>1, <4>2 DEF OfferFirst
      <4> QED BY <4>3 DEF Offered, Offers
    <3> QED BY <3>1, <3>2
  <2> QED BY <1>1, <1>2, <2>5, <2>6, <2>7, StillHold
<1>6. ASSUME NEW t \in Task, Timer(t)
      PROVE  HoldOK(c)'
  <2>1. /\ Settles(t, 0)
        /\ task'[t].fut = task[t].fut \/ (task[t].fut = "open" /\ task'[t].fut = "cancelled")
                                      \/ (task[t].at = "sleeping" /\ task'[t].fut = "ok")
    BY <1>3, <1>6, TimerStep
  <2>2. 0 \in 0 .. 1 /\ Slid(0) /\ telling' = telling
    <3>1. 0 \in 0 .. 1
      OBVIOUS
    <3> QED BY <2>1, <3>1, SettlesSlid
  <2>3. Keeps(0)
    BY <1>3, <1>6, TimerKeeps
  <2>5. Offered(c)' <=> Offered(c)
    BY <1>3, <2>2, <2>3, OffersSlid
  <2>6. \A u : OfferFirst(u, c) => OfferFirst(u, c)'
    BY <1>3, <2>2, FirstSlid
  <2>7. ASSUME NEW u \in Refreshing(c), task'[u].fut = "ok"
        PROVE  task[u].fut = "ok" \/ ~Offered(c)
    BY <1>4, <2>1, <2>7 DEF Settles
  <2> QED BY <1>1, <1>2, <2>5, <2>6, <2>7, StillHold
<1> QED BY <1>5, <1>6

LEMMA ReportHold ==
    ASSUME Base, Blurs, Report, AppKept
    PROVE  HoldSteps
<1> SUFFICES ASSUME NEW c \in Calls, HoldOK(c)
             PROVE  HoldOK(c)'
  BY DEF HoldSteps
<1>1. /\ Quiet /\ job' = job /\ obj' = obj /\ stack' = stack /\ queue' = queue /\ task' = task
      /\ SameHold(c)
  BY Stays DEF Report, SameHold
<1>2. StillAsking
  BY <1>1 DEF StillAsking
<1>3. /\ \A i \in 1 .. Len(ready') : \/ i \in 1 .. Len(ready) /\ ready'[i] = ready[i]
                                     \/ i = Len(ready) + 1 /\ ready'[i] = telling[1]
      /\ \A i \in 1 .. Len(telling') : i + 1 \in 1 .. Len(telling) /\ telling'[i] = telling[i + 1]
      /\ 1 \in 1 .. Len(telling) /\ Len(ready') = Len(ready) + 1
      /\ Len(ready) \in Nat /\ Len(telling) \in Nat /\ telling # <<>>
  BY ReportBase DEF AppKept
<1>4. /\ \A i \in 1 .. Len(ready) : i \in 1 .. Len(ready') /\ ready'[i] = ready[i]
      /\ Len(ready) + 1 \in 1 .. Len(ready') /\ ready'[Len(ready) + 1] = telling[1]
  BY <1>3
<1>5. \A k \in 1 .. Len(telling) : k # 1 => k - 1 \in 1 .. Len(telling') /\ telling'[k - 1] = telling[k]
  <2> SUFFICES ASSUME NEW k \in 1 .. Len(telling), k # 1
               PROVE  k - 1 \in 1 .. Len(telling') /\ telling'[k - 1] = telling[k]
    OBVIOUS
  <2>1. telling' = Tail(telling) /\ Len(telling') = Len(telling) - 1
    BY <1>3, Taken DEF Report, Base, Types
  <2>2. k - 1 \in 1 .. Len(telling') /\ (k - 1) + 1 = k
    BY <1>3, <2>1
  <2> QED BY <1>3, <2>2
<1>6. Offered(c) => Offered(c)'
  <2>1. Offers(ready, c) => Offers(ready, c)'
    BY <1>4 DEF Offers
  <2>2. ASSUME NEW k \in 1 .. Len(telling), IsOffer(telling[k], c)
        PROVE  Offers(ready, c)' \/ Offers(telling, c)'
    <3>1. CASE k = 1
      <4>1. IsOffer(ready'[Len(ready) + 1], c)
        BY <1>4, <2>2, <3>1
      <4> QED BY <1>4, <4>1 DEF Offers
    <3>2. CASE k # 1
      <4>1. k - 1 \in 1 .. Len(telling') /\ IsOffer(telling'[k - 1], c)
        BY <1>5, <2>2, <3>2
      <4> QED BY <4>1 DEF Offers
    <3> QED BY <3>1, <3>2
  <2> QED BY <2>1, <2>2 DEF Offered, Offers
<1>7. Offers(telling, c)' => Offers(telling, c)
  BY <1>3 DEF Offers
<1>8. \A i \in 1 .. Len(ready') : IsOffer(ready'[i], c) =>
           \/ i \in 1 .. Len(ready) /\ IsOffer(ready[i], c)
           \/ i = Len(ready) + 1 /\ IsOffer(telling[1], c)
  BY <1>3
<1>9. Offers(ready, c)' => Offers(ready, c) \/ Offers(telling, c)
  BY <1>3, <1>8 DEF Offers
<1>10. Offered(c)' <=> Offered(c)
  BY <1>6, <1>7, <1>9 DEF Offered
<1>11. ASSUME NEW u, OfferFirst(u, c)
       PROVE  OfferFirst(u, c)'
  <2>1. ASSUME NEW i \in 1 .. Len(ready'), IsDone(ready'[i]), ready'[i].by = u
        PROVE  ~Offers(telling, c)' /\ \A k \in i .. Len(ready') : ~IsOffer(ready'[k], c)
    <3>1. CASE i \in 1 .. Len(ready) /\ ready'[i] = ready[i]
      <4>1. ~Offers(telling, c) /\ \A k \in i .. Len(ready) : ~IsOffer(ready[k], c)
        BY <1>11, <2>1, <3>1 DEF OfferFirst
      <4>2. ~IsOffer(telling[1], c)
        BY <1>3, <4>1 DEF Offers
      <4>3. \A k \in i .. Len(ready') : k \in 1 .. Len(ready')
        BY <2>1
      <4>4. \A k \in i .. Len(ready') : k \in 1 .. Len(ready) => k \in i .. Len(ready)
        OBVIOUS
      <4> QED BY <1>7, <1>8, <4>1, <4>2, <4>3, <4>4
    <3>2. CASE i = Len(ready) + 1 /\ ready'[i] = telling[1]
      <4>1. \A k \in 1 .. Len(telling) : ~IsOffer(telling[k], c)
        BY <1>3, <1>11, <2>1, <3>2 DEF OfferFirst
      <4>2. \A k \in i .. Len(ready') : k = i
        BY <1>3, <3>2
      <4>3. ~IsOffer(ready'[i], c)
        BY <2>1 DEF IsOffer, IsDone
      <4> QED BY <1>7, <4>1, <4>2, <4>3 DEF Offers
    <3> QED BY <1>3, <3>1, <3>2
  <2>2. ASSUME NEW i \in 1 .. Len(telling'), IsDone(telling'[i]), telling'[i].by = u
        PROVE  \A k \in i .. Len(telling') : ~IsOffer(telling'[k], c)
    <3>1. i + 1 \in 1 .. Len(telling) /\ telling'[i] = telling[i + 1]
      BY <1>3
    <3>2. \A k \in i + 1 .. Len(telling) : ~IsOffer(telling[k], c)
      BY <1>11, <2>2, <3>1 DEF OfferFirst
    <3>3. \A k \in i .. Len(telling') : k \in 1 .. Len(telling')
      BY <2>2
    <3>4. \A k \in i .. Len(telling') : k + 1 \in i + 1 .. Len(telling) /\ telling'[k] = telling[k + 1]
      BY <1>3, <3>3
    <3> QED BY <3>2, <3>4
  <2> QED BY <2>1, <2>2 DEF OfferFirst
<1> QED BY <1>1, <1>2, <1>10, <1>11, StillHold

LEMMA NetworkHold ==
    ASSUME Base, Network
    PROVE  HoldSteps
<1> SUFFICES ASSUME NEW c \in Calls, HoldOK(c)
             PROVE  HoldOK(c)'
  BY DEF HoldSteps
<1>1. /\ Quiet /\ job' = job /\ obj' = obj /\ queue' = queue /\ task' = task /\ ready' = ready
      /\ SameHold(c) /\ (telling' = telling \/ Reporting)
  BY NetworkAnswers, NetworkStep DEF NetworkKept, NetworkStack, SameHold
<1>2. StillAsking
  BY <1>1 DEF StillAsking
<1>3. CASE telling' = telling
  <2>1. (Offered(c)' <=> Offered(c)) /\ \A u : OfferFirst(u, c) => OfferFirst(u, c)'
    BY <1>1, <1>3 DEF Offered, Offers, OfferFirst
  <2> QED BY <1>1, <1>2, <2>1, StillHold
<1>4. CASE Reporting
  <2>1. PICK e \in News : NetworkTells(e)
    BY <1>4 DEF Reporting
  <2>2. telling = <<>> /\ telling' = <<Event(e)>> /\ e.ev # "offer"
    BY <2>1 DEF NetworkTells
  <2>3. Len(telling) = 0 /\ Len(telling') = 1 /\ telling'[1] = Event(e)
    BY <2>2
  <2>4. ~IsOffer(telling'[1], c) /\ ~IsDone(telling'[1])
    BY <2>2, <2>3 DEF IsOffer, IsDone, Event
  <2>5. \A i \in 1 .. Len(telling') : ~IsOffer(telling'[i], c) /\ ~IsDone(telling'[i])
    BY <2>3, <2>4
  <2>6. ~Offers(telling, c) /\ ~Offers(telling, c)'
    BY <2>3, <2>5 DEF Offers
  <2>7. Offered(c)' <=> Offered(c)
    BY <1>1, <2>6 DEF Offered, Offers
  <2>8. ASSUME NEW u, OfferFirst(u, c)
        PROVE  OfferFirst(u, c)'
    BY <1>1, <2>5, <2>6, <2>8 DEF OfferFirst
  <2> QED BY <1>1, <1>2, <2>7, <2>8, StillHold
<1> QED BY <1>1, <1>3, <1>4

LEMMA EventHold ==
    ASSUME Base, DispatchEvent
    PROVE  HoldSteps
<1> SUFFICES ASSUME NEW c \in Calls, HoldOK(c)
             PROVE  HoldOK(c)'
  BY DEF HoldSteps
<1>1. Types /\ TaskInv /\ NewsInv
  BY DEF Base
<1> DEFINE e == Head(ready).ev
<1>2. /\ ready # <<>> /\ Head(ready) = ready[1] /\ Head(ready).kind = "event"
      /\ \A u \in Task : Spawns(u, e) \/ Hears(u, e)
      /\ Slid(1) /\ Keeps(1)
  BY <1>1, EventStep, EventKeeps
<1>3. queue' = queue /\ telling' = telling /\ stack' = stack /\ SameHold(c)
  BY DEF DispatchEvent, nativeVars, SameHold
<1>4. obj'[c].onHold = obj[c].onHold
  BY <1>1, EventObjectsStep DEF EventObjects
<1> HIDE DEF e
<1>5. \A u \in Task : u \in Refreshing(c) => Hears(u, e)
  BY <1>2 DEF Spawns, Refreshing, Idle
<1>6. \A u \in Task : Hears(u, e) => Leg(job'[u]) = Leg(job[u])
  BY DEF Hears, Leg
<1>7. \A u \in Task : u \in Refreshing(c)' <=> u \in Refreshing(c)
  <2> SUFFICES ASSUME NEW u \in Task
               PROVE  u \in Refreshing(c)' <=> u \in Refreshing(c)
    OBVIOUS
  <2>1. CASE Spawns(u, e)
    BY <2>1 DEF Spawns, Refreshing, Idle
  <2>2. CASE Hears(u, e)
    BY <1>6, <2>2 DEF Hears, Refreshing
  <2> QED BY <1>2, <2>1, <2>2
<1>8. Quiet
  BY EventAnswers
<1>9. 1 \in 0 .. 1
  OBVIOUS
<1>10. \A u : OfferFirst(u, c) => OfferFirst(u, c)'
  BY <1>1, <1>2, <1>3, <1>9, FirstSlid
<1>11. \A u \in Refreshing(c) : /\ u \in Task /\ Hears(u, e) /\ task[u].at = "awaiting"
                                /\ Leg(job[u]) = c /\ job[u].step \in {"hold", "undo", "video"}
  BY <1>5 DEF Refreshing
<1>12. \A u \in Refreshing(c) : job'[u].kind = job[u].kind /\ job'[u].step = job[u].step
                                /\ task'[u].fut = task[u].fut
  BY <1>11 DEF Hears
<1>13. (\A u \in Task : Asked(u)' <=> Asked(u)) /\ NoNewRefresh(c)
  BY <1>3 DEF Asked, NoNewRefresh
<1>14. CASE ~IsOffer(ready[1], c)
  <2>1. Offered(c)' <=> Offered(c)
    BY <1>1, <1>2, <1>3, <1>9, <1>14, OffersSlid
  <2>2. ~(e.ev = "offer" /\ e.on = c)
    BY <1>2, <1>14 DEF e, IsOffer
  <2>3. \A u \in Refreshing(c) : job[u].saw \in BOOLEAN
    BY <1>1, <1>11 DEF Types, Local
  <2>4. \A u \in Refreshing(c) : job'[u].saw = job[u].saw
    BY <1>11, <2>2, <2>3 DEF Hears, Sees
  <2>5. \A u \in Refreshing(c) : Steady(u, c)
    <3> SUFFICES ASSUME NEW u \in Refreshing(c)
                 PROVE  Steady(u, c)
      OBVIOUS
    <3>1. OfferFirst(u, c)'
      BY <1>10 DEF HoldOK, RefreshOK
    <3>2. \A r \in Completed : Answered(u, r)' => Answered(u, r)
      BY <1>8, <1>11 DEF Quiet
    <3> QED BY <1>11, <1>12, <1>13, <2>4, <3>1, <3>2 DEF Steady
  <2> QED BY <1>3, <1>4, <1>7, <1>13, <2>1, <2>5, UndisturbedOK DEF Undisturbed, SameRefreshing
<1>15. CASE IsOffer(ready[1], c)
  <2>1. e.ev = "offer" /\ e.on = c
    BY <1>2, <1>15 DEF e, IsOffer
  <2>2. Offered(c)
    <3>1. 1 \in 1 .. Len(ready)
      BY <1>1, <1>2, Taken DEF Types
    <3> QED BY <1>15, <3>1 DEF Offered, Offers
  <2>3. Refreshing(c) # {}
    BY <2>2 DEF HoldOK
  <2>4. Refreshing(c)' = Refreshing(c)
    BY <1>7 DEF Refreshing
  <2>5. \A i \in 1 .. Len(queue') : queue'[i].op \in Refresh /\ queue'[i].on = c =>
             queue'[i].by \in Refreshing(c)'
    BY <1>3, <2>4 DEF HoldOK
  <2>6. ASSUME NEW u \in Refreshing(c)
        PROVE  RefreshOK(u, c)'
    <3>1. RefreshOK(u, c) /\ Hears(u, e) /\ u \in Task
      BY <1>11 DEF HoldOK
    <3>2. ~Asked(u)' /\ task'[u].fut # "ok"
      BY <1>11, <1>12, <1>13, <2>2, <3>1 DEF RefreshOK
    <3>3. "ok" \in Completed /\ "stale" \in Completed /\ "error" \in Completed
      BY DEF Completed
    <3>4. (Answered(u, "ok")' => Answered(u, "ok")) /\ ~Answered(u, "stale")' /\ ~Answered(u, "error")'
      BY <1>8, <2>2, <3>1, <3>3 DEF Quiet, RefreshOK
    <3>5. OfferFirst(u, c)'
      BY <1>10, <3>1 DEF RefreshOK
    <3>6. job[u].step = "hold" => job'[u].saw
      <4>1. ASSUME job[u].step = "hold"
            PROVE  Sees(u, e) /\ ~Takes(u, e)
        BY <1>11, <2>1, <4>1 DEF Sees, Takes, TakesOutcome, TakesAnswer, Running
      <4> QED BY <3>1, <4>1 DEF Hears
    <3>7. job'[u].step = job[u].step /\ Want(job'[u]) = Want(job[u])
      BY <1>12 DEF Want
    <3>8. Answered(u, "ok")' =>
              IF job[u].step = "hold" THEN stack'[c].held = Want(job[u]) /\ stack'[c].told = Want(job[u])
                                      ELSE Clean(c)' /\ stack'[c].told = obj'[c].onHold
      BY <1>3, <1>4, <2>2, <3>1, <3>4 DEF RefreshOK, Clean
    <3>9. job[u].step \in {"hold", "undo"} => obj'[c].onHold = ~Want(job'[u])
      BY <1>4, <3>1, <3>7 DEF RefreshOK
    <3> QED BY <3>2, <3>4, <3>5, <3>6, <3>7, <3>8, <3>9 DEF RefreshOK
  <2> QED BY <2>3, <2>4, <2>5, <2>6 DEF HoldOK
<1> QED BY <1>14, <1>15

(* Whoever changes c awaits a command on c: no other is its own. *)
LEMMA OwnCommand ==
    ASSUME Base, NEW q \in Order, OrderOK(q), NEW c \in Calls, q.by \in Refreshing(c)
    PROVE  q.op \in Refresh /\ q.on = c
<1>1. /\ q.by \in Task /\ task[q.by].at = "awaiting" /\ Leg(job[q.by]) = c
      /\ job[q.by].step \in {"hold", "undo", "video"}
  BY DEF Refreshing
<1>2. job[q.by].kind \in Kinds(job[q.by].step)
  BY <1>1 DEF Base, TaskInv, TaskOK, JobOK
<1>3. q.op \in Op
  BY DEF Order
<1>4. q.op \in Refresh
  BY <1>1, <1>2, <1>3 DEF OrderOK, Kinds, Refresh, Op, Registers
<1> QED BY <1>1, <1>4 DEF OrderOK

(* Whoever's command is in the queue has not been answered. *)
LEMMA NotAnswered ==
    ASSUME Base, NEW u \in Task, task[u].at = "awaiting", Asked(u)
    PROVE  /\ \A r \in Completed : ~Answered(u, r)
           /\ \A i \in 1 .. Len(ready) : ~(IsDone(ready[i]) /\ ready[i].by = u)
           /\ \A i \in 1 .. Len(telling) : ~(IsDone(telling[i]) /\ telling[i].by = u)
<1>1. ItemInv
  BY DEF Base
<1>2. PICK k \in 1 .. Len(queue) : queue[k].by = u
  BY DEF Asked
<1>3. task[u].fut \in {"open", "cancelled"}
  BY <1>1, <1>2 DEF ItemInv, Expects
<1>4. /\ \A i \in 1 .. Len(ready) : ~(IsDone(ready[i]) /\ ready[i].by = u)
      /\ \A i \in 1 .. Len(telling) : ~(IsDone(telling[i]) /\ telling[i].by = u)
  BY <1>1, <1>2 DEF ItemInv
<1>5. \A r \in Completed : ~Answered(u, r)
  BY <1>3, <1>4 DEF Answered, DoneIn, Completed
<1> QED BY <1>4, <1>5

(* The command that was carried out is not in the queue any more. *)
LEMMA ServedOnce ==
    ASSUME Base, NEW q \in Order, NEW r \in Completed, Serves(q, r)
    PROVE  ~Asked(q.by)'
<1>1. ItemInv /\ q.by = queue[1].by /\ 1 \in 1 .. Len(queue)
      /\ \A i \in 1 .. Len(queue') : i + 1 \in 1 .. Len(queue) /\ queue'[i] = queue[i + 1]
  BY DEF Base, Serves
<1> SUFFICES ASSUME NEW i \in 1 .. Len(queue'), queue'[i].by = q.by
             PROVE  FALSE
  BY DEF Asked
<1>2. i + 1 \in 1 .. Len(queue) /\ queue[i + 1].by = queue[1].by
  BY <1>1
<1>3. i + 1 = 1
  BY <1>1, <1>2 DEF ItemInv
<1> QED BY <1>3

LEMMA OtherCommandHold ==
    ASSUME Base, NEW q \in Order, NEW r \in Completed, Carries(q, r), Kept,
           NEW c \in Calls, HoldOK(c), ~(q.op \in Refresh /\ q.on = c)
    PROVE  HoldOK(c)'
<1>1. /\ ready' = ready /\ task' = task /\ job' = job /\ obj' = obj
  BY DEF Kept
<1>2. Serves(q, r) /\ CallAfter(q, r, c) /\ OrderOK(q)
  BY CommandOn DEF Carries, Serves
<1>3. /\ \A i \in 1 .. Len(queue') : i + 1 \in 1 .. Len(queue) /\ queue'[i] = queue[i + 1]
      /\ telling = <<>>
  BY <1>2 DEF Serves
<1>4. SameHold(c)
  BY <1>2 DEF CallAfter, SameHold, Refresh
<1>5. q.by \notin Refreshing(c)
  BY <1>2, OwnCommand
<1>6. \A i \in 1 .. Len(telling') :
         \/ telling'[i] = Done(q, r)
         \/ telling'[i] = OfferOf(q) /\ q.op \in Refresh
  BY <1>2, TellsDone
<1>7. ~IsOffer(Done(q, r), c) /\ Done(q, r).by = q.by /\ (q.op \in Refresh => ~IsOffer(OfferOf(q), c))
      /\ ~IsDone(OfferOf(q))
  BY DEF IsOffer, IsDone, Done, OfferOf, Event
<1>8. \A i \in 1 .. Len(telling') : /\ ~IsOffer(telling'[i], c)
                                    /\ IsDone(telling'[i]) => telling'[i].by = q.by
  BY <1>6, <1>7
<1>9. ~Offers(telling, c)' /\ ~Offers(telling, c)
  BY <1>3, <1>8 DEF Offers
<1>10. Offered(c)' <=> Offered(c)
  BY <1>1, <1>9 DEF Offered, Offers
<1>11. SameRefreshing(c)
  BY <1>1 DEF SameRefreshing, Refreshing
<1>12. NoNewRefresh(c) /\ \A u : Asked(u)' => Asked(u)
  BY <1>3 DEF NoNewRefresh, Asked
<1>13. ASSUME NEW u \in Refreshing(c)
       PROVE  Steady(u, c)
  <2>1. u \in Task /\ u # q.by /\ OfferFirst(u, c)
    BY <1>5 DEF Refreshing, HoldOK, RefreshOK
  <2>2. OfferFirst(u, c)'
    BY <1>1, <1>8, <1>9, <2>1 DEF OfferFirst
  <2>3. \A x \in Completed : Answered(u, x)' => Answered(u, x)
    BY <2>1, CarriesAnswers
  <2> QED BY <1>1, <1>12, <2>2, <2>3 DEF Steady
<1> QED BY <1>1, <1>4, <1>10, <1>11, <1>12, <1>13, UndisturbedOK DEF Undisturbed

(* No offer tells what a refused command has left. *)
NotMisled(c) == stack[c].denied /\ stack'[c].denied => stack'[c].told = stack[c].told

LEMMA OwnCommandHold ==
    ASSUME Base, NEW q \in Order, NEW r \in Completed, Carries(q, r), Kept,
           NEW c \in Calls, HoldOK(c), q.op \in Refresh, q.on = c, stack[c].live, NotMisled(c)
    PROVE  HoldOK(c)'
<1>1. /\ ready' = ready /\ task' = task /\ job' = job /\ obj' = obj
  BY DEF Kept
<1>2. Serves(q, r) /\ CallAfter(q, r, c) /\ OrderOK(q)
  BY CommandOn DEF Carries, Serves
<1>3. /\ \A i \in 1 .. Len(queue') : i + 1 \in 1 .. Len(queue) /\ queue'[i] = queue[i + 1]
      /\ telling = <<>> /\ q = queue[1] /\ 1 \in 1 .. Len(queue)
  BY <1>2 DEF Serves
<1> DEFINE u == q.by
<1>4. u \in Refreshing(c) /\ Asked(u)
  BY <1>3 DEF HoldOK, Asked
<1>5. /\ u \in Task /\ task[u].at = "awaiting" /\ job[u].step \in {"hold", "undo", "video"}
      /\ RefreshOK(u, c)
  BY <1>4 DEF Refreshing, HoldOK
<1>6. Refreshing(c)' = Refreshing(c)
  BY <1>1 DEF Refreshing
<1>7. \A v \in Refreshing(c)' : v = u
  BY <1>4, <1>6 DEF HoldOK
<1>8. \A i \in 1 .. Len(queue') : queue'[i].op \in Refresh /\ queue'[i].on = c =>
           queue'[i].by \in Refreshing(c)'
  BY <1>3, <1>6 DEF HoldOK
<1>9. /\ \A x \in Completed : ~Answered(u, x)
      /\ \A i \in 1 .. Len(ready) : ~(IsDone(ready[i]) /\ ready[i].by = u)
  BY <1>4, <1>5, NotAnswered
<1>10. ~Asked(u)'
  BY <1>2, ServedOnce
<1>11. r \in {"ok", "error"}
  <2>1. r # "stale"
    BY DEF Carries, Live, Refresh
  <2> QED BY <2>1 DEF Completed
<1>12. "ok" \in Completed /\ "stale" \in Completed /\ "error" \in Completed
  BY DEF Completed
<1>13. /\ (Answered(u, "ok")' => r = "ok") /\ (Answered(u, "error")' => r = "error")
       /\ ~Answered(u, "stale")' /\ task'[u].fut # "ok"
  <2>1. \A x \in Completed : Answered(u, x)' => x = r
    BY <1>5, <1>9, CarriesAnswers
  <2>2. task[u].fut # "ok"
    BY <1>5, <1>9, <1>12 DEF Answered
  <2> QED BY <1>1, <1>11, <1>12, <2>1, <2>2
<1>14. /\ ~Offered(c) /\ stack[c].told = obj[c].onHold /\ ~job[u].saw
       /\ job[u].step # "undo" => Clean(c)
       /\ job[u].step \in {"hold", "undo"} => obj[c].onHold = ~Want(job[u])
  BY <1>4, <1>5 DEF RefreshOK
<1>15. OfferFirst(u, c)'
  <2>1. \A i \in 1 .. Len(telling') :
           \/ i = Len(telling') /\ ~(telling'[i].kind = "event")
           \/ ~IsDone(telling'[i])
    BY <1>2, TellsDone
  <2>2. \A i \in 1 .. Len(telling') : IsDone(telling'[i]) =>
            \A k \in i .. Len(telling') : ~IsOffer(telling'[k], c)
    <3> SUFFICES ASSUME NEW i \in 1 .. Len(telling'), IsDone(telling'[i]),
                        NEW k \in i .. Len(telling')
                 PROVE  ~IsOffer(telling'[k], c)
      OBVIOUS
    <3>1. i = Len(telling') /\ ~(telling'[i].kind = "event")
      BY <2>1
    <3>2. k = i
      BY <3>1
    <3> QED BY <3>1, <3>2 DEF IsOffer
  <2> QED BY <1>1, <1>9, <2>2 DEF OfferFirst
<1>16. Serves(q, r) /\ (telling' = <<Done(q, r)>> \/ telling' = <<OfferOf(q), Done(q, r)>>)
  BY <1>2 DEF Serves
<1>17. telling' = <<Done(q, r)>> => ~Offered(c)'
  <2> SUFFICES ASSUME telling' = <<Done(q, r)>>
               PROVE  ~Offered(c)'
    OBVIOUS
  <2>1. Len(telling') = 1 /\ telling'[1] = Done(q, r)
    OBVIOUS
  <2>2. ~IsOffer(Done(q, r), c)
    BY DEF IsOffer, Done
  <2>3. ~Offers(telling, c)'
    BY <2>1, <2>2 DEF Offers
  <2>4. Offers(ready, c)' => Offers(ready, c)
    BY <1>1 DEF Offers
  <2> QED BY <1>14, <2>3, <2>4 DEF Offered
<1>18. telling' = <<OfferOf(q), Done(q, r)>> => Offered(c)'
  <2> SUFFICES ASSUME telling' = <<OfferOf(q), Done(q, r)>>
               PROVE  Offered(c)'
    OBVIOUS
  <2>1. 1 \in 1 .. Len(telling') /\ telling'[1] = OfferOf(q)
    OBVIOUS
  <2>2. IsOffer(OfferOf(q), c)
    BY DEF IsOffer, OfferOf, Event
  <2>3. Offers(telling, c)'
    BY <2>1, <2>2 DEF Offers
  <2> QED BY <2>3 DEF Offered
<1>19. q.op = "hold" \/ q.op = "video"
  BY DEF Refresh
<1>20. /\ q.op = "hold" => \/ job[u].step = "hold" /\ q.arg = Want(job[u])
                           \/ job[u].step = "undo" /\ q.arg = ~Want(job[u])
       /\ q.op = "video" => job[u].step = "video"
  BY <1>2, <1>5 DEF OrderOK
<1>21. /\ q.op = "video" => stack'[c].held = stack[c].held /\ stack'[c].denied = stack[c].denied
       /\ q.op = "hold" /\ r = "error" => stack'[c].denied
       /\ q.op = "hold" /\ r = "ok" => stack'[c].held = q.arg
       /\ telling' = <<Done(q, r)>> => stack'[c].told = stack[c].told
       /\ telling' = <<OfferOf(q), Done(q, r)>> => stack'[c].told = stack'[c].held
  BY <1>2 DEF CallAfter
<1>22. Want(job[u]) \in BOOLEAN
  BY DEF Want
<1> HIDE DEF u
<1>27. q.op = "video" => Clean(c)' /\ stack'[c].told = obj[c].onHold
  <2> SUFFICES ASSUME q.op = "video"
               PROVE  Clean(c)' /\ stack'[c].told = obj[c].onHold
    OBVIOUS
  <2>1. stack'[c].held = stack[c].held /\ stack'[c].denied = stack[c].denied /\ Clean(c)
    BY <1>14, <1>20, <1>21
  <2>2. stack'[c].told = stack[c].told
    <3>1. CASE telling' = <<Done(q, r)>>
      BY <1>21, <3>1
    <3>2. CASE telling' = <<OfferOf(q), Done(q, r)>>
      BY <1>21, <2>1, <3>2 DEF Clean, NotMisled
    <3> QED BY <1>16, <3>1, <3>2
  <2> QED BY <1>14, <2>1, <2>2 DEF Clean
<1>28. r = "error" => ~Offered(c)' /\ Clean(c)' /\ stack'[c].told = obj[c].onHold
  <2> SUFFICES ASSUME r = "error"
               PROVE  ~Offered(c)' /\ Clean(c)' /\ stack'[c].told = obj[c].onHold
    OBVIOUS
  <2>1. telling' = <<Done(q, r)>>
    BY <1>16 DEF Serves
  <2>2. q.op = "hold" => Clean(c)'
    BY <1>21 DEF Clean
  <2> QED BY <1>14, <1>17, <1>19, <1>21, <1>27, <2>1, <2>2
<1>23. r = "ok" => IF job[u].step = "hold"
                   THEN stack'[c].held = Want(job[u]) /\ (stack'[c].told = Want(job[u]) <=> job[u].saw \/ Offered(c)')
                   ELSE Clean(c)' /\ stack'[c].told = obj[c].onHold
  <2> SUFFICES ASSUME r = "ok"
               PROVE  IF job[u].step = "hold"
                      THEN stack'[c].held = Want(job[u]) /\ (stack'[c].told = Want(job[u]) <=> job[u].saw \/ Offered(c)')
                      ELSE Clean(c)' /\ stack'[c].told = obj[c].onHold
    OBVIOUS
  <2>1. CASE job[u].step = "hold"
    <3>1. q.op = "hold" /\ stack'[c].held = Want(job[u]) /\ obj[c].onHold = ~Want(job[u])
      BY <1>14, <1>19, <1>20, <1>21, <2>1
    <3>2. CASE telling' = <<Done(q, r)>>
      BY <1>14, <1>17, <1>21, <1>22, <2>1, <3>1, <3>2
    <3>3. CASE telling' = <<OfferOf(q), Done(q, r)>>
      BY <1>14, <1>18, <1>21, <1>22, <2>1, <3>1, <3>3
    <3> QED BY <1>16, <3>2, <3>3
  <2>2. CASE job[u].step = "undo"
    <3>1. stack'[c].held = obj[c].onHold
      BY <1>14, <1>19, <1>20, <1>21, <2>2
    <3> QED BY <1>14, <1>16, <1>21, <2>2, <3>1 DEF Clean
  <2>3. CASE job[u].step = "video"
    <3>1. q.op = "video"
      BY <1>19, <1>20, <2>3
    <3> QED BY <1>27, <2>3, <3>1
  <2> QED BY <1>5, <2>1, <2>2, <2>3 DEF u
<1>24. RefreshOK(u, c)'
  <2>1. \A w \in Task : w = u => RefreshOK(w, c)'
    <3> SUFFICES ASSUME NEW w \in Task, w = u
                 PROVE  RefreshOK(w, c)'
      OBVIOUS
    <3> QED BY <1>1, <1>10, <1>13, <1>14, <1>15, <1>23, <1>28 DEF RefreshOK, u
  <2> QED BY <1>5, <2>1 DEF u
<1>25. \A v \in Refreshing(c)' : RefreshOK(v, c)'
  BY <1>7, <1>24
<1>26. Refreshing(c)' # {}
  BY <1>4, <1>6 DEF u
<1> QED BY <1>7, <1>8, <1>25, <1>26 DEF HoldOK

LEMMA CarriesHold ==
    ASSUME Base, NEW q \in Order, NEW r \in Completed, Carries(q, r), Kept,
           NEW c \in Calls, HoldOK(c), stack[c].live, NotMisled(c)
    PROVE  HoldOK(c)'
<1>1. CASE q.op \in Refresh /\ q.on = c
  BY <1>1, OwnCommandHold
<1>2. CASE ~(q.op \in Refresh /\ q.on = c)
  BY <1>2, OtherCommandHold
<1> QED BY <1>1, <1>2

(* What a turn of t makes of the hold state of c, and of its own part in it. *)
BeginsChange(t, c) ==
    /\ job'[t].step \in {"hold", "video"} /\ ~job'[t].saw
    /\ job'[t].step = "hold" => obj'[c].onHold = ~Want(job'[t])
    /\ task'[t].fut = "open"

TakesBack(t, c) ==
    /\ job[t].step = "hold" /\ job'[t].step = "undo" /\ Result(t) = "ok"
    /\ ~job[t].saw /\ ~job'[t].saw
    /\ obj'[c].onHold = obj[c].onHold /\ Want(job'[t]) = Want(job[t])
    /\ task'[t].fut = "open"

EndsChange(t, c) ==
    \/ task'[t].at = "over" /\ task[t].expired
    \/ task'[t].out = "rejected" /\ ~job[t].saw
    \/ Result(t) = "stale"
    \/ Result(t) = "error" /\ obj'[c].onHold = obj[c].onHold
    \/ /\ Result(t) = "ok"
       /\ IF job[t].step = "hold" THEN job[t].saw /\ obj'[c].onHold = Want(job[t])
                                  ELSE obj'[c].onHold = obj[c].onHold

HoldEffect(t, c) ==
    IF t \in Refreshing(c)
    THEN IF t \in Refreshing(c)' THEN TakesBack(t, c) ELSE EndsChange(t, c)
    ELSE obj'[c].onHold = obj[c].onHold /\ (t \in Refreshing(c)' => BeginsChange(t, c))

(* Who is over, or waits for something else, changes no call. *)
LEMMA NotRefreshing ==
    ASSUME NEW t \in Task, NEW c
    PROVE  /\ task'[t].at # "awaiting" \/ job'[t].step \notin {"hold", "undo", "video"}
                  => t \notin Refreshing(c)'
           /\ task[t].at # "awaiting" \/ job[t].step \notin {"hold", "undo", "video"}
                  => t \notin Refreshing(c)
  BY DEF Refreshing

LEMMA ReturnsNothing ==
    ASSUME NEW t \in Task, NEW c, NEW o, Leaves(t, o)
    PROVE  t \notin Refreshing(c)' /\ task'[t].out = o /\ task'[t].at = "over"
  BY NotRefreshing DEF Leaves

(* A refusal, or the timeout, leaves the Call as it is. *)
LEMMA Refuses ==
    ASSUME TaskInv, NEW t \in Task, Resumes(t), task[t].at = "awaiting", NEW o, Returns(t, o),
           Result(t) \notin {"ok", "stale"}, obj' = obj, NEW c
    PROVE  HoldEffect(t, c)
<1>1. t \notin Refreshing(c)' /\ task'[t].at = "over"
  BY ReturnsNothing DEF Returns
<1>2. task[t].fut \in {"cancelled"} \cup Completed /\ (task[t].fut = "cancelled" => task[t].expired)
  BY DEF Resumes, TaskInv, TaskOK
<1>3. task[t].expired \/ Result(t) = "error"
  BY <1>2 DEF Result, Completed
<1> QED BY <1>1, <1>3 DEF HoldEffect, EndsChange

LEMMA SameLeg ==
    ASSUME NEW a, NEW b, SameJob(a, b)
    PROVE  Leg(a) = Leg(b) /\ Want(a) = Want(b)
  BY DEF SameJob, Leg, Want

(* attended_transfer goes to the next of its calls, or leaves them alone. *)
GoesTo(t, j, leg, c) ==
    t \in Refreshing(c)' =>
        /\ job'[t].step = "hold" /\ ~job'[t].saw /\ task'[t].fut = "open"
        /\ obj'[c].onHold = ~Want(job'[t])
        /\ leg \in 1 .. 2 /\ (leg = 2 => c = j.with)

LEMMA AttendsHold ==
    ASSUME NEW t \in Task, NEW j \in Local, j.kind = "attended", NEW leg \in 1 .. 3,
           NEW calls \in [Calls -> Object], j.call \in Calls, j.with \in Calls,
           Attends(t, j, leg, calls), NEW c \in Calls
    PROVE  obj'[c].onHold = calls[c].onHold /\ GoesTo(t, j, leg, c)
<1>1. obj'[c].onHold = calls[c].onHold
  BY AttendsObjects
<1>2. CASE Refers(t, j, calls)
  <2>1. job'[t].step = "refer"
    BY <1>2 DEF Refers
  <2> QED BY <1>1, <2>1, NotRefreshing DEF GoesTo
<1>3. ASSUME NEW n \in 1 .. 2, NEW d \in Calls, HoldsLeg(t, j, n, d, calls), leg <= n,
             d = IF n = 1 THEN j.call ELSE j.with
      PROVE  GoesTo(t, j, leg, c)
  <2> SUFFICES ASSUME t \in Refreshing(c)'
               PROVE  GoesTo(t, j, leg, c)
    BY DEF GoesTo
  <2>1. /\ job'[t].step = "hold" /\ ~job'[t].saw /\ SameJob(job'[t], [j EXCEPT !.leg = n])
        /\ obj' = calls /\ ~calls[d].onHold
    BY <1>3 DEF HoldsLeg
  <2>2. job'[t].kind = "attended" /\ job'[t].leg = n /\ job'[t].call = j.call /\ job'[t].with = j.with
    BY <2>1 DEF SameJob, Local
  <2>3. Leg(job'[t]) = d /\ Want(job'[t])
    BY <1>3, <2>2 DEF Leg, Want
  <2>4. Leg(job'[t]) = c
    BY DEF Refreshing
  <2>5. calls[d].onHold \in BOOLEAN
    BY DEF Object
  <2>6. obj'[c].onHold = ~Want(job'[t])
    BY <2>1, <2>3, <2>4, <2>5
  <2>7. task'[t].fut = "open"
    BY <1>3, ReturnsNothing DEF HoldsLeg, Pushed
  <2>8. leg \in 1 .. 2 /\ (leg = 2 => c = j.with)
    <3>1. leg \in 1 .. 2 /\ (leg = 2 => n = 2)
      BY <1>3
    <3> QED BY <1>3, <2>3, <2>4, <3>1
  <2> QED BY <2>1, <2>6, <2>7, <2>8 DEF GoesTo
<1>4. leg = 1 /\ HoldsLeg(t, j, 1, j.call, calls) =>
         GoesTo(t, j, leg, c)
  <2>1. 1 \in 1 .. 2
    OBVIOUS
  <2> QED BY <1>3, <2>1
<1>5. leg <= 2 /\ HoldsLeg(t, j, 2, j.with, calls) =>
         GoesTo(t, j, leg, c)
  <2>1. 2 \in 1 .. 2
    OBVIOUS
  <2> QED BY <1>3, <2>1
<1>6. CASE Leaves(t, "raised")
  BY <1>1, <1>6, ReturnsNothing DEF GoesTo
<1> QED BY <1>1, <1>2, <1>4, <1>5, <1>6 DEF Attends

LEMMA BeginsHold ==
    ASSUME Types, NEW t \in Task, task[t] = Idle, OperationBegins(t), NEW c \in Calls
    PROVE  HoldEffect(t, c)
<1>1. t \notin Refreshing(c)
  BY NotRefreshing DEF Idle
<1> SUFFICES obj'[c].onHold = obj[c].onHold /\ (t \in Refreshing(c)' => BeginsChange(t, c))
  BY <1>1 DEF HoldEffect
<1>2. obj \in [Calls -> Object]
  BY DEF Types
<1>3. ASSUME NEW d \in Calls, HoldBegins(t, d)
      PROVE  obj'[c].onHold = obj[c].onHold /\ (t \in Refreshing(c)' => BeginsChange(t, c))
  <2> SUFFICES ASSUME t \in Refreshing(c)'
               PROVE  BeginsChange(t, c)
    BY <1>3 DEF HoldBegins
  <2>1. /\ job'[t].step = "hold" /\ job'[t].leg = 1 /\ ~job'[t].saw /\ job'[t].call = d
        /\ obj[d].onHold # Want(job'[t]) /\ obj' = obj
        /\ Asks1(t, Turns("hold", d, Want(job'[t])))
    BY <1>3 DEF HoldBegins, Starts
  <2>2. task'[t].fut = "open"
    BY <2>1, ReturnsNothing DEF Asks1, Pushed
  <2>3. c = d
    BY <2>1 DEF Refreshing, Leg
  <2>4. obj[d].onHold \in BOOLEAN /\ Want(job'[t]) \in BOOLEAN
    BY <1>2 DEF Object, Want
  <2> QED BY <2>1, <2>2, <2>3, <2>4 DEF BeginsChange
<1>4. ASSUME NEW d \in Calls, VideoBegins(t, d)
      PROVE  obj'[c].onHold = obj[c].onHold /\ (t \in Refreshing(c)' => BeginsChange(t, c))
  <2>1. job'[t].step = "video" /\ ~job'[t].saw /\ obj' = obj /\ Asks1(t, Asks("video", d))
    BY <1>4 DEF VideoBegins, Starts
  <2>2. t \in Refreshing(c)' => task'[t].fut = "open"
    BY <2>1, ReturnsNothing DEF Asks1, Pushed
  <2> QED BY <2>1, <2>2 DEF BeginsChange
<1>5. ASSUME NEW d \in Calls, TransferBegins(t, d)
      PROVE  obj'[c].onHold = obj[c].onHold /\ (t \in Refreshing(c)' => BeginsChange(t, c))
  <2>1. job'[t].step = "refer" /\ obj'[c].onHold = obj[c].onHold
    BY <1>5 DEF TransferBegins, Refers, ButPending
  <2> QED BY <2>1, NotRefreshing
<1>6. ASSUME NEW d \in Calls, DecisionBegins(t, d) \/ DtmfBegins(t, d) \/ RegistrationBegins(t)
      PROVE  obj'[c].onHold = obj[c].onHold /\ (t \in Refreshing(c)' => BeginsChange(t, c))
  <2>1. job'[t].step \notin {"hold", "undo", "video"} /\ obj' = obj
    BY <1>6 DEF DecisionBegins, DtmfBegins, RegistrationBegins, Registers
  <2> QED BY <2>1, NotRefreshing
<1>7. ASSUME NEW d \in Calls, NEW w \in Calls, AttendedBegins(t, d, w)
      PROVE  obj'[c].onHold = obj[c].onHold /\ (t \in Refreshing(c)' => BeginsChange(t, c))
  <2> DEFINE j == [Job("attended", d) EXCEPT !.with = w]
  <2>1. Job("attended", d) \in Local /\ Job("attended", d).kind = "attended"
        /\ Job("attended", d).call = d
    BY JobIs DEF Operation, Where
  <2>2. j \in Local /\ j.kind = "attended" /\ j.call \in Calls /\ j.with \in Calls
    BY <2>1 DEF Local, Where
  <2>3. Attends(t, j, 1, obj)
    BY <1>7 DEF AttendedBegins
  <2> HIDE DEF j
  <2>4. 1 \in 1 .. 3
    OBVIOUS
  <2> QED BY <1>2, <2>2, <2>3, <2>4, AttendsHold DEF BeginsChange, GoesTo
<1>8. c \in Calls
  OBVIOUS
<1> QED BY <1>3, <1>4, <1>5, <1>6, <1>7, <1>8 DEF OperationBegins

LEMMA HoldGoesOnHold ==
    ASSUME Types, TaskInv, NEW t \in Task, Resumes(t), HoldGoesOn(t), NEW c \in Calls
    PROVE  HoldEffect(t, c)
<1> DEFINE L == Leg(job[t])
<1>1. task[t].at = "awaiting" /\ job[t].step = "hold" /\ L \in Calls
  BY DEF HoldGoesOn
<1>2. t \in Refreshing(c) <=> c = L
  BY <1>1 DEF Refreshing
<1>3. /\ HeldCalls(t) \in [Calls -> Object] /\ HeldCalls(t)[L].onHold = Want(job[t])
      /\ \A d \in Calls : d # L => HeldCalls(t)[d].onHold = obj[d].onHold
  BY <1>1, HeldCallsIs DEF Running
<1>4. job[t] \in Local /\ JobOK(job[t]) /\ job[t].kind \in {"hold", "resume", "attended"}
  BY <1>1 DEF Types, TaskInv, TaskOK, JobOK, Kinds
<1>5. CASE /\ Result(t) = "ok" /\ job[t].saw /\ job[t].kind = "attended"
           /\ Attends(t, job[t], job[t].leg + 1, HeldCalls(t))
  <2>1. /\ job[t].call \in Calls /\ job[t].with \in Calls /\ job[t].with # job[t].call
        /\ job[t].leg \in 1 .. 2
    BY <1>4, <1>5 DEF JobOK, Registers, Local
  <2>2. job[t].leg + 1 \in 1 .. 3 /\ (job[t].leg + 1 \in 1 .. 2 => job[t].leg = 1 /\ job[t].leg + 1 = 2)
    BY <2>1
  <2>3. /\ obj'[c].onHold = HeldCalls(t)[c].onHold
        /\ t \in Refreshing(c)' =>
                 /\ job'[t].step = "hold" /\ ~job'[t].saw /\ task'[t].fut = "open"
                 /\ obj'[c].onHold = ~Want(job'[t])
                 /\ job[t].leg + 1 \in 1 .. 2 /\ (job[t].leg + 1 = 2 => c = job[t].with)
    BY <1>3, <1>4, <1>5, <2>1, <2>2, AttendsHold DEF GoesTo
  <2>4. CASE c = L
    <3>1. t \notin Refreshing(c)'
      <4> SUFFICES ASSUME t \in Refreshing(c)'
                   PROVE  FALSE
        OBVIOUS
      <4>1. job[t].leg = 1 /\ c = job[t].with
        BY <2>2, <2>3
      <4>2. L = job[t].call
        BY <4>1 DEF Leg
      <4> QED BY <2>1, <2>4, <4>1, <4>2
    <3>2. EndsChange(t, c)
      BY <1>1, <1>3, <1>5, <2>3, <2>4 DEF EndsChange
    <3> QED BY <1>2, <2>4, <3>1, <3>2 DEF HoldEffect
  <2>5. CASE c # L
    BY <1>2, <1>3, <2>3, <2>5 DEF HoldEffect, BeginsChange
  <2> QED BY <2>4, <2>5
<1>6. ASSUME NEW o, Returns(t, o)
      PROVE  t \notin Refreshing(c)' /\ task'[t].out = o
  BY <1>6, ReturnsNothing DEF Returns
<1>7. CASE Result(t) = "ok" /\ job[t].saw /\ Returns(t, "ok") /\ obj' = HeldCalls(t)
  BY <1>1, <1>2, <1>3, <1>6, <1>7 DEF HoldEffect, EndsChange
<1>8. CASE /\ Result(t) = "ok" /\ ~job[t].saw /\ obj' = obj
           /\ Only(t) /\ SameJob(job'[t], job[t]) /\ job'[t].step = "undo" /\ ~job'[t].saw
           /\ Asks1(t, Turns("hold", Leg(job[t]), ~Want(job[t])))
  <2>1. Leg(job'[t]) = L /\ Want(job'[t]) = Want(job[t])
    BY <1>8, SameLeg
  <2>2. t \in Refreshing(c)' => c = L
    BY <2>1 DEF Refreshing
  <2>3. CASE Leaves(t, "rejected")
    BY <1>2, <1>8, <2>3, ReturnsNothing DEF HoldEffect, EndsChange
  <2>4. CASE Pushed(t, Turns("hold", Leg(job[t]), ~Want(job[t])))
    <3>1. task'[t].at = "awaiting" /\ task'[t].fut = "open"
      BY <2>4 DEF Pushed
    <3>2. c = L => t \in Refreshing(c)'
      BY <1>8, <2>1, <3>1 DEF Refreshing
    <3>3. TakesBack(t, c)
      BY <1>1, <1>8, <2>1, <3>1 DEF TakesBack
    <3> QED BY <1>2, <1>8, <2>2, <3>2, <3>3 DEF HoldEffect
  <2> QED BY <1>8, <2>3, <2>4 DEF Asks1
<1>9. CASE Result(t) = "stale" /\ Returns(t, "stale") /\ obj' = obj
  BY <1>6, <1>9 DEF HoldEffect, EndsChange
<1>10. CASE Result(t) \notin {"ok", "stale"} /\ Returns(t, "raised") /\ obj' = obj
  BY <1>1, <1>10, Refuses
<1> QED BY <1>5, <1>7, <1>8, <1>9, <1>10 DEF HoldGoesOn

LEMMA ResumesHold ==
    ASSUME Types, TaskInv, NEW t \in Task, Resumes(t), NEW c \in Calls
    PROVE  HoldEffect(t, c)
<1>1. Running(t)
  BY DEF Resumes
<1>2. ASSUME NEW o, Returns(t, o) \/ Concluded(t, o)
      PROVE  t \notin Refreshing(c)' /\ task'[t].out = o
  BY <1>2, ReturnsNothing DEF Returns, Concluded
<1>3. CASE UndoGoesOn(t)
  BY <1>2, <1>3, Refuses DEF UndoGoesOn, HoldEffect, EndsChange
<1>4. CASE VideoGoesOn(t)
  BY <1>2, <1>4, Refuses DEF VideoGoesOn, HoldEffect, EndsChange
<1>5. ASSUME task[t].at # "awaiting" \/ job[t].step \notin {"hold", "undo", "video"},
             task'[t].at # "awaiting" \/ job'[t].step \notin {"hold", "undo", "video"},
             obj'[c].onHold = obj[c].onHold
      PROVE  HoldEffect(t, c)
  BY <1>5, NotRefreshing DEF HoldEffect
<1>6. CASE SentGoesOn(t) \/ OutcomeGoesOn(t)
  <2>1. task[t].at # "awaiting" \/ job[t].step \notin {"hold", "undo", "video"}
    BY <1>6 DEF SentGoesOn, OutcomeGoesOn, Awaited
  <2>2. ASSUME NEW o, Concluded(t, o)
        PROVE  task'[t].at # "awaiting" /\ obj'[c].onHold = obj[c].onHold
    BY <2>2 DEF Concluded, Leaves
  <2>3. ASSUME NEW s, Pauses(t, "waiting", s), obj' = obj
        PROVE  task'[t].at # "awaiting" /\ obj'[c].onHold = obj[c].onHold
    BY <2>3 DEF Pauses
  <2>4. task'[t].at # "awaiting" /\ obj'[c].onHold = obj[c].onHold
    BY <1>6, <2>2, <2>3 DEF SentGoesOn, OutcomeGoesOn
  <2> QED BY <1>5, <2>1, <2>4
<1>7. ASSUME job[t].kind \in {"accept", "reject", "policy", "dtmf"}
      PROVE  task[t].at # "awaiting" \/ job[t].step \notin {"hold", "undo", "video"}
  <2>1. job[t].step \in {"hold", "undo", "video"} => job[t].kind \in {"hold", "resume", "attended", "video"}
    BY <1>1, WhereItIs DEF Kinds, Commanding
  <2> QED BY <1>7, <2>1
<1>8. CASE DecisionGoesOn(t)
  <2>1. task'[t].at # "awaiting"
    BY <1>8 DEF DecisionGoesOn, Returns, Leaves
  <2> QED BY <1>5, <1>7, <1>8, <2>1 DEF DecisionGoesOn
<1>9. CASE PolicyGoesOn(t)
  <2>1. task'[t].at # "awaiting" \/ job'[t].step \in {"accept", "reject"}
    BY <1>9 DEF PolicyGoesOn, Returns, Leaves
  <2> QED BY <1>5, <1>7, <1>9, <2>1 DEF PolicyGoesOn
<1>10. CASE DigitGoesOn(t)
  <2>1. task'[t].at # "awaiting" \/ job'[t].step \in {"press", "release"}
    BY <1>10 DEF DigitGoesOn, Returns, Leaves, Pauses
  <2> QED BY <1>5, <1>7, <1>10, <2>1 DEF DigitGoesOn
<1>11. CASE HoldGoesOn(t)
  BY <1>11, HoldGoesOnHold
<1> QED BY <1>3, <1>4, <1>6, <1>8, <1>9, <1>10, <1>11 DEF Resumes

(* Who sends a command has no answer yet. *)
LEMMA FreshAnswers ==
    ASSUME Base, NEW t \in Task, Turn(t), NEW c, t \in Refreshing(c)', task'[t].fut = "open"
    PROVE  /\ \A r \in Completed : ~Answered(t, r)'
           /\ OfferFirst(t, c)'
<1>1. ~GaveUp(t)
  BY ReturnsNothing DEF Turn, Runs
<1>2. \A r : ~DoneIn(ready, t, r)' /\ ~DoneIn(telling, t, r)'
  BY <1>1, TurnAnswers
<1>3. \A r \in Completed : ~Answered(t, r)'
  BY <1>2 DEF Answered, Completed
<1>4. ASSUME NEW i \in 1 .. Len(ready'), IsDone(ready'[i]), ready'[i].by = t
      PROVE  FALSE
  <2>1. PICK r : r = ready'[i].res
    OBVIOUS
  <2> QED BY <1>2, <1>4, <2>1 DEF DoneIn
<1>5. ASSUME NEW i \in 1 .. Len(telling'), IsDone(telling'[i]), telling'[i].by = t
      PROVE  FALSE
  <2>1. PICK r : r = telling'[i].res
    OBVIOUS
  <2> QED BY <1>2, <1>5, <2>1 DEF DoneIn
<1> QED BY <1>3, <1>4, <1>5 DEF OfferFirst

(* The commands on c are of those who change it. *)
LEMMA TurnCommands ==
    ASSUME Base, NEW t \in Task, Turn(t), NEW c \in Calls, HoldOK(c),
           \A u \in Task : u # t => (u \in Refreshing(c)' <=> u \in Refreshing(c)),
           GaveUp(t) => t \notin Refreshing(c)
    PROVE  \A i \in 1 .. Len(queue') : queue'[i].op \in Refresh /\ queue'[i].on = c =>
               queue'[i].by \in Refreshing(c)'
<1> SUFFICES ASSUME NEW i \in 1 .. Len(queue'), queue'[i].op \in Refresh, queue'[i].on = c
             PROVE  queue'[i].by \in Refreshing(c)'
  OBVIOUS
<1>1. Types
  BY DEF Base
<1>2. CASE i \in 1 .. Len(queue) /\ queue'[i] = queue[i]
  <2>1. queue[i].by \in Refreshing(c) /\ queue[i].by \in Task
    BY <1>2 DEF HoldOK, Refreshing
  <2>2. queue[i].by # t
    <3> SUFFICES ASSUME queue[i].by = t
                 PROVE  FALSE
      OBVIOUS
    <3>1. Asked(t)
      BY <1>2 DEF Asked
    <3>2. GaveUp(t)
      BY <3>1, TurnAnswers
    <3> QED BY <2>1, <3>2
  <2> QED BY <1>2, <2>1, <2>2
<1>3. CASE queue'[i].by = t /\ OrderOK(queue[i])' /\ task'[t].at = "awaiting"
  <2>1. \A q : q = queue'[i] => OrderOK(q)'
    BY <1>3 DEF OrderOK
  <2>2. PICK q : q = queue'[i]
    OBVIOUS
  <2>3. OrderOK(q)' /\ q.by = t /\ q.op \in Refresh /\ q.on = c
    BY <1>3, <2>1, <2>2
  <2>4. c = Leg(job'[t]) /\ job'[t].step \in {"hold", "undo", "video"}
    BY <1>3, <2>3 DEF OrderOK, Refresh
  <2> QED BY <1>3, <2>4 DEF Refreshing
<1> QED BY <1>1, <1>2, <1>3, QueueAfter

LEMMA TurnHold ==
    ASSUME Base, NEW t \in Task, Turn(t), Resumes(t) \/ (OperationBegins(t) /\ Begun(t)), Blurs,
           NEW c \in Calls, c \notin murky', HoldOK(c)
    PROVE  HoldOK(c)'
<1>1. Types /\ TaskInv
  BY DEF Base
<1>2. HoldEffect(t, c)
  BY <1>1, BeginsHold, ResumesHold DEF Begun
<1>3. /\ \A u, w \in Refreshing(c)' : u = w
      /\ \A u \in Refreshing(c) : /\ ~(task'[u].at = "over" /\ task[u].expired)
                                  /\ ~(task'[u].out = "rejected" /\ ~job[u].saw)
  BY DEF Blurs
<1>4. GaveUp(t) => t \notin Refreshing(c) /\ t \notin Refreshing(c)'
  BY <1>1, <1>3, ReturnsNothing DEF Turn, Runs, GaveUp, TaskInv, TaskOK
<1>5. stack' = stack /\ telling' = telling /\ SameHold(c) /\ (Clean(c)' <=> Clean(c))
  BY DEF Turn, nativeVars, SameHold, Clean
<1>6. \A u \in Task : u # t => task'[u] = task[u] /\ job'[u] = job[u]
  BY DEF Turn, Runs, Only
<1>7. \A u \in Task : u # t => (u \in Refreshing(c)' <=> u \in Refreshing(c))
  BY <1>6 DEF Refreshing
<1>8. \A i \in 1 .. Len(queue') : queue'[i].op \in Refresh /\ queue'[i].on = c =>
           queue'[i].by \in Refreshing(c)'
  BY <1>4, <1>7, TurnCommands
<1>9. (Offered(c)' <=> Offered(c)) /\ \A u : OfferFirst(u, c) => OfferFirst(u, c)'
  <2>1. PICK m \in 0 .. 1 : Slid(m) /\ Keeps(m) /\ (m = 1 => ready # <<>> /\ ready[1].kind = "wake")
    BY <1>1, TurnKeeps
  <2>2. m = 1 => ~IsOffer(ready[1], c)
    BY <2>1 DEF IsOffer
  <2> QED BY <1>1, <1>5, <2>1, <2>2, OffersSlid, FirstSlid
<1>10. "ok" \in Completed /\ "stale" \in Completed /\ "error" \in Completed
  BY DEF Completed
<1>11. \A u \in Refreshing(c) : u \in Task
  BY DEF Refreshing
<1>12. \A u \in Refreshing(c)' : u \in Task
  BY DEF Refreshing
<1>13. CASE t \notin Refreshing(c) /\ t \notin Refreshing(c)'
  <2>1. \A u \in Task : u \in Refreshing(c)' <=> u \in Refreshing(c)
    BY <1>7, <1>13
  <2>2. Refreshing(c)' = Refreshing(c)
    BY <1>11, <1>12, <2>1
  <2>3. ASSUME NEW u \in Refreshing(c)
        PROVE  Steady(u, c)
    <3>1. u \in Task /\ u # t /\ OfferFirst(u, c)
      BY <1>11, <1>13 DEF HoldOK, RefreshOK
    <3>2. task'[u] = task[u] /\ job'[u] = job[u]
      BY <1>6, <3>1
    <3>3. Asked(u)' => Asked(u)
      BY <1>1, <3>1, QueueAfter DEF Asked
    <3>4. \A r \in Completed : Answered(u, r)' => Answered(u, r)
      BY <3>1, TurnAnswers
    <3> QED BY <1>9, <3>1, <3>2, <3>3, <3>4 DEF Steady
  <2>4. obj'[c].onHold = obj[c].onHold
    BY <1>2, <1>13 DEF HoldEffect
  <2>5. \A u \in Refreshing(c)' : RefreshOK(u, c)'
    BY <1>5, <1>9, <2>2, <2>3, <2>4, SteadyOK DEF HoldOK
  <2>6. Refreshing(c)' = {} =>
            obj'[c].onHold = stack'[c].told /\ Clean(c)' /\ ~Offered(c)'
    BY <1>5, <1>9, <2>2, <2>4 DEF HoldOK
  <2> QED BY <1>3, <1>8, <2>5, <2>6 DEF HoldOK
<1>14. CASE t \in Refreshing(c)'
  <2>1. \A u \in Refreshing(c)' : u = t
    BY <1>3, <1>14
  <2>2. \A u \in Refreshing(c) : u = t
    BY <1>7, <1>11, <2>1
  <2>3. task'[t].fut = "open" /\ ~job'[t].saw
    BY <1>2, <1>14 DEF HoldEffect, BeginsChange, TakesBack
  <2>4. (\A r \in Completed : ~Answered(t, r)') /\ OfferFirst(t, c)'
    BY <1>14, <2>3, FreshAnswers
  <2>5. obj'[c].onHold = obj[c].onHold
    BY <1>2, <1>14 DEF HoldEffect, TakesBack
  <2>6. job'[t].step \in {"hold", "undo"} => obj'[c].onHold = ~Want(job'[t])
    <3>1. CASE t \in Refreshing(c)
      <4>1. TakesBack(t, c) /\ RefreshOK(t, c)
        BY <1>2, <1>14, <3>1 DEF HoldEffect, HoldOK
      <4> QED BY <4>1 DEF TakesBack, RefreshOK
    <3>2. CASE t \notin Refreshing(c)
      BY <1>2, <1>14, <3>2 DEF HoldEffect, BeginsChange
    <3> QED BY <3>1, <3>2
  <2>7. /\ ~Offered(c) /\ stack[c].told = obj[c].onHold
        /\ job'[t].step # "undo" => Clean(c)
    <3>1. CASE t \in Refreshing(c)
      <4>1. TakesBack(t, c) /\ RefreshOK(t, c)
        BY <1>2, <1>14, <3>1 DEF HoldEffect, HoldOK
      <4>2. task[t].fut = "ok" /\ task[t].at = "awaiting" /\ job[t].step = "hold" /\ ~job[t].saw
            /\ job'[t].step = "undo"
        BY <3>1, <4>1 DEF TakesBack, Result, Refreshing
      <4>3. Answered(t, "ok") /\ ~Offered(c)
        BY <4>1, <4>2 DEF Answered, RefreshOK
      <4>4. obj[c].onHold = ~Want(job[t]) /\ stack[c].told # Want(job[t])
        BY <4>1, <4>2, <4>3 DEF RefreshOK
      <4>5. stack[c].told \in BOOLEAN /\ Want(job[t]) \in BOOLEAN
        BY <1>1 DEF Types, Call, Want
      <4> QED BY <4>2, <4>3, <4>4, <4>5
    <3>2. CASE t \notin Refreshing(c)
      <4>1. Refreshing(c) = {}
        BY <2>2, <3>2
      <4> QED BY <4>1 DEF HoldOK
    <3> QED BY <3>1, <3>2
  <2>8. RefreshOK(t, c)'
    BY <1>5, <1>9, <1>10, <2>3, <2>4, <2>5, <2>6, <2>7 DEF RefreshOK
  <2>9. \A u \in Refreshing(c)' : RefreshOK(u, c)'
    BY <2>1, <2>8
  <2> QED BY <1>3, <1>8, <1>14, <2>9 DEF HoldOK
<1>15. CASE t \in Refreshing(c) /\ t \notin Refreshing(c)'
  <2>1. Refreshing(c)' = {}
    BY <1>7, <1>11, <1>12, <1>15 DEF HoldOK
  <2>2. /\ EndsChange(t, c) /\ RefreshOK(t, c)
        /\ ~(task'[t].at = "over" /\ task[t].expired) /\ ~(task'[t].out = "rejected" /\ ~job[t].saw)
    BY <1>2, <1>3, <1>15 DEF HoldEffect, HoldOK
  <2>3. task[t].at = "awaiting" /\ job[t].step \in {"hold", "undo", "video"}
    BY <1>15 DEF Refreshing
  <2>4. Result(t) # "stale"
    BY <2>2, <2>3 DEF Result, RefreshOK, Answered
  <2>5. CASE Result(t) = "error" /\ obj'[c].onHold = obj[c].onHold
    <3>1. Answered(t, "error")
      BY <2>3, <2>5 DEF Answered, Result
    <3>2. ~Offered(c) /\ Clean(c) /\ stack[c].told = obj[c].onHold
      BY <2>2, <3>1 DEF RefreshOK
    <3> QED BY <1>5, <1>8, <1>9, <2>1, <2>5, <3>2 DEF HoldOK
  <2>6. CASE /\ Result(t) = "ok"
             /\ IF job[t].step = "hold" THEN job[t].saw /\ obj'[c].onHold = Want(job[t])
                                        ELSE obj'[c].onHold = obj[c].onHold
    <3>1. task[t].fut = "ok"
      BY <2>6 DEF Result
    <3>2. Answered(t, "ok") /\ ~Offered(c)
      BY <2>2, <2>3, <3>1 DEF Answered, RefreshOK
    <3>3. stack[c].told \in BOOLEAN /\ Want(job[t]) \in BOOLEAN
      BY <1>1 DEF Types, Call, Want
    <3>4. obj'[c].onHold = stack[c].told /\ Clean(c)
      <4>1. CASE job[t].step = "hold"
        <5>1. stack[c].held = Want(job[t]) /\ (stack[c].told = Want(job[t]) <=> job[t].saw \/ Offered(c))
          BY <2>2, <3>2, <4>1 DEF RefreshOK
        <5> QED BY <2>6, <4>1, <5>1 DEF Clean
      <4>2. CASE job[t].step # "hold"
        <5>1. Clean(c) /\ stack[c].told = obj[c].onHold
          BY <2>2, <3>2, <4>2 DEF RefreshOK
        <5> QED BY <2>6, <4>2, <5>1
      <4> QED BY <4>1, <4>2
    <3> QED BY <1>5, <1>8, <1>9, <2>1, <3>2, <3>4 DEF HoldOK
  <2> QED BY <2>2, <2>4, <2>5, <2>6 DEF EndsChange
<1> QED BY <1>13, <1>14, <1>15

LEMMA HoldNext ==
    ASSUME Base, HoldInv, Next
    PROVE  HoldInv'
<1>1. Stepping /\ Blurs
  BY NextSteps
<1> SUFFICES ASSUME NEW c \in Calls, c \notin murky', stack'[c].live
             PROVE  HoldOK(c)'
  BY DEF HoldInv
<1>2. c \notin murky
  BY <1>1 DEF Blurs
<1>3. stack[c].live => HoldOK(c)
  BY <1>2 DEF HoldInv
<1>4. CASE Application
  <2>1. NextOne \in Task /\ OperationBegins(NextOne) /\ Begun(NextOne) /\ Turn(NextOne)
    BY <1>4, ApplicationTurn DEF Base
  <2>2. PICK t \in Task : OperationBegins(t) /\ Begun(t) /\ Turn(t)
    BY <2>1
  <2>3. stack[c].live
    BY <2>2 DEF Turn, nativeVars
  <2> QED BY <1>1, <1>3, <2>2, <2>3, TurnHold
<1>5. ASSUME NEW t \in Task, GoesOn(t)
      PROVE  HoldOK(c)'
  <2>1. Resumes(t) /\ Turn(t)
    BY <1>5, GoesOnTurn DEF Base
  <2>2. stack[c].live
    BY <2>1 DEF Turn, nativeVars
  <2> QED BY <1>1, <1>3, <2>1, <2>2, TurnHold
<1>6. CASE DispatchEvent
  <2>1. stack' = stack
    BY <1>6 DEF DispatchEvent, nativeVars
  <2> QED BY <1>3, <1>6, <2>1, EventHold DEF HoldSteps
<1>7. CASE (DispatchDone /\ AppKept) \/ (\E t \in Task : Timer(t))
  <2>1. stack' = stack
    BY <1>1, <1>7, Stays
  <2> QED BY <1>1, <1>3, <1>7, <2>1, StayHold DEF HoldSteps
<1>8. CASE Report /\ AppKept
  <2>1. stack' = stack
    BY <1>8 DEF AppKept, nativeVars
  <2> QED BY <1>1, <1>3, <1>8, <2>1, ReportHold DEF HoldSteps
<1>9. ASSUME NEW q \in Order, NEW r \in Completed, Carries(q, r) /\ Kept
      PROVE  HoldOK(c)'
  <2>1. stack[c].live
    BY <1>9 DEF Carries, Serves
  <2>2. NotMisled(c)
    BY <1>1 DEF Blurs, NotMisled
  <2> QED BY <1>3, <1>9, <2>1, <2>2, CarriesHold
<1>10. CASE Network
  <2>1. stack[c].live
    BY <1>10, NetworkStep DEF NetworkStack
  <2> QED BY <1>3, <1>10, <2>1, NetworkHold DEF HoldSteps
<1> QED BY <1>1, <1>4, <1>5, <1>6, <1>7, <1>8, <1>9, <1>10 DEF Stepping

-----------------------------------------------------------------------------
(* All of these hold from the start.                                       *)

LEMMA InitRest ==
    ASSUME Init
    PROVE  KeyInv /\ RegisterInv /\ AirInv /\ AloneInv /\ ReferInv /\ ToldInv /\ HoldInv /\ RequestIsNewest
<1>1. /\ queue = <<>> /\ telling = <<>> /\ ready = <<>> /\ task = [t \in Task |-> Idle]
      /\ job = [t \in Task |-> NoJob] /\ due = [c \in Calls |-> [no |-> 0, lost |-> FALSE]]
      /\ Len(queue) = 0 /\ Len(ready) = 0 /\ Len(telling) = 0
  BY DEF Init
<1>2. \A c \in Calls : ~stack[c].key /\ stack[c].refer = 0 /\ obj[c].request = 0 /\ due[c].no = 0
  BY DEF Init
<1>3. \A t \in Task : job[t] = NoJob /\ NoJob.kind = "none" /\ NoJob.step = "none"
                      /\ NoJob.verdict = "none" /\ NoJob.whose = 0
  BY <1>1 DEF NoJob, Job
<1>4. \A i \in 1 .. 0 : FALSE
  OBVIOUS
<1>5. KeyInv
  BY <1>2 DEF KeyInv
<1>6. RegisterInv
  BY <1>1, <1>3, <1>4 DEF RegisterInv, Fulfilled
<1>7. AloneInv
  BY <1>3 DEF AloneInv, Referring
<1>8. ReferInv
  <2> SUFFICES ASSUME NEW w \in Task
               PROVE  ReferOK(w)
    BY <1>1, <1>2, <1>4 DEF ReferInv
  <2>1. w # 0
    BY RequestsAssumption DEF Task
  <2> QED BY <1>1, <1>2, <1>3, <1>4, <2>1 DEF ReferOK, Referred, Subscribed, OutcomeIn, Spent
<1>9. ToldInv
  BY <1>3 DEF ToldInv, Transferring
<1>10. RequestIsNewest
  BY <1>2 DEF RequestIsNewest
<1>11. HoldInv
  <2>1. \A c \in Calls : ~obj[c].onHold /\ ~stack[c].held /\ ~stack[c].told
    BY DEF Init
  <2>2. \A c \in Calls : obj[c].onHold \in BOOLEAN /\ stack[c].held \in BOOLEAN /\ stack[c].told \in BOOLEAN
    BY InitBase DEF Base, Types, Object, Call
  <2>3. \A c \in Calls : Refreshing(c) = {}
    BY <1>3 DEF Refreshing
  <2>4. \A c \in Calls : ~Offered(c)
    BY <1>1, <1>4 DEF Offered, Offers
  <2> QED BY <1>1, <1>4, <2>1, <2>2, <2>3, <2>4 DEF HoldInv, HoldOK, Clean
<1>12. AirInv
  <2>1. registrar.air = <<>>
    BY DEF Init
  <2> QED BY <1>1, <1>3, <1>4, <2>1 DEF AirInv, AirOrder, AirTold, Confirmed, Confirming, Confirms
<1> QED BY <1>5, <1>6, <1>7, <1>8, <1>9, <1>10, <1>11, <1>12

(* They are about what a stuttering step leaves alone. *)
LEMMA Stutter ==
    ASSUME vars' = vars
    PROVE  /\ KeyInv => KeyInv'
           /\ RegisterInv => RegisterInv'
           /\ AirInv => AirInv'
           /\ AloneInv => AloneInv'
           /\ ReferInv => ReferInv'
           /\ ToldInv => ToldInv'
           /\ HoldInv => HoldInv'
<1>1. /\ queue' = queue /\ telling' = telling /\ ready' = ready /\ task' = task /\ job' = job
      /\ stack' = stack /\ registrar' = registrar /\ news' = news /\ obj' = obj /\ app' = app
      /\ murky' = murky
  BY DEF vars, loopVars, nativeVars
<1>2. \A t \in Task : \A r : Answered(t, r)' <=> Answered(t, r)
  BY <1>1 DEF Answered, DoneIn
<1>3. KeyInv => KeyInv'
  <2>1. \A t \in Task, c \in Calls : Owes(t, c)' <=> Owes(t, c)
    BY <1>1, <1>2 DEF Owes
  <2> QED BY <1>1, <2>1 DEF KeyInv
<1>4. RegisterInv => RegisterInv'
  <2>1. \A t \in Task : (Fulfilled(t)' <=> Fulfilled(t)) /\ (LastRegistration(t)' <=> LastRegistration(t))
    BY <1>1, <1>2 DEF Fulfilled, LastRegistration
  <2>2. \A t \in Task : Gone(t)' <=> Gone(t)
    BY <1>1 DEF Gone
  <2> QED BY <1>1, <2>1, <2>2 DEF RegisterInv
<1>5. AloneInv => AloneInv'
  BY <1>1 DEF AloneInv, Referring, Running, Transferring, AttendedBefore, Alone
<1>6. ReferInv => ReferInv'
  <2>1. /\ OneSubscription' = OneSubscription /\ OneOutcome(ready)' = OneOutcome(ready)
        /\ OneOutcome(telling)' = OneOutcome(telling)
    BY <1>1 DEF OneSubscription, OneOutcome
  <2>2. \A w \in Task : Stops(w) /\ (Active(w) => Active(w)')
    BY <1>1 DEF Stops, Active, Referred, Subscribed, OutcomeIn, Spent, Transferring
  <2>3. (\A w \in Task : ReferOK(w)) => \A w \in Task : ReferOK(w)'
    BY <2>2, StopsOK
  <2> QED BY <2>1, <2>3, ReferParts, ReferPartsNext
<1>7. ToldInv => ToldInv'
  BY <1>1 DEF ToldInv, ToldOK, Transferring, Attended
<1>8. HoldInv => HoldInv'
  <2>1. ASSUME NEW c \in Calls, HoldOK(c)
        PROVE  HoldOK(c)'
    <3>1. /\ SameRefreshing(c) /\ NoNewRefresh(c) /\ (Offered(c)' <=> Offered(c))
          /\ \A u : (Asked(u)' <=> Asked(u)) /\ (OfferFirst(u, c)' <=> OfferFirst(u, c))
      BY <1>1 DEF SameRefreshing, Refreshing, NoNewRefresh, Offered, Offers, Asked, OfferFirst
    <3>2. \A u \in Refreshing(c) : u \in Task /\ OfferFirst(u, c)
      BY <2>1 DEF Refreshing, HoldOK, RefreshOK
    <3>3. \A u \in Refreshing(c) : Steady(u, c)
      BY <1>1, <1>2, <3>1, <3>2 DEF Steady
    <3>4. Undisturbed(c)
      BY <1>1, <3>1, <3>3 DEF Undisturbed, SameHold
    <3> QED BY <2>1, <3>4, UndisturbedOK
  <2> QED BY <1>1, <2>1 DEF HoldInv
<1>9. AirInv => AirInv'
  BY <1>1 DEF AirInv, AirOrder, AirTold, Confirmed, Confirming, Confirms, Unbound, NoRegister, LastRegistration
<1> QED BY <1>3, <1>4, <1>5, <1>6, <1>7, <1>8, <1>9

Together ==
    Base /\ KeyInv /\ RegisterInv /\ AirInv /\ AloneInv /\ ReferInv /\ ToldInv /\ HoldInv /\ RequestIsNewest

LEMMA InitTogether ==
    ASSUME Init
    PROVE  Together
  BY InitBase, InitRest DEF Together

LEMMA NextTogether ==
    ASSUME Together, [Next]_vars
    PROVE  Together'
<1>1. Base' /\ RequestIsNewest'
  BY BaseNext, NewestNext DEF Together
<1>2. CASE Next
  BY <1>1, <1>2, KeyNext, RegisterNext, AirNext, AloneNext, ReferNext, ToldNext, HoldNext DEF Together
<1>3. CASE vars' = vars
  BY <1>1, <1>3, Stutter DEF Together
<1> QED BY <1>2, <1>3

(* The inductive invariant: everything that is known of the operations      *)
(* under way, of the orders they gave and of what the stack holds for them. *)
THEOREM TogetherAlways == Spec => []Together
<1>1. Init => Together
  BY InitTogether
<1>2. Together /\ [Next]_vars => Together'
  BY NextTogether
<1> QED BY <1>1, <1>2, PTL DEF Spec

LEMMA TypesOK ==
    ASSUME Base
    PROVE  TypeOK
<1>1. Types /\ TaskInv /\ WakeInv
  BY DEF Base
<1>2. \A t \in Task, i, k \in 1 .. Len(ready) : ready[i] = Wake(t) /\ ready[k] = Wake(t) => i = k
  BY <1>1 DEF WakeInv, Wake
<1>3. \A t \in Task : task[t] \in Coroutine /\ job[t] \in Local
  BY <1>1 DEF Types
<1>4. \A t \in Task :
        /\ task[t].at \in {"idle", "starting", "awaiting", "waiting", "sleeping", "over"}
        /\ task[t].fut \in {"none", "open", "cancelled", "ok", "error", "stale"}
        /\ task[t].no \in Nat
        /\ job[t].left \in 0 .. Digits /\ job[t].leg \in 1 .. 2
  BY <1>3 DEF Coroutine, Local
<1>5. /\ registrar.bound \in BOOLEAN /\ registrar.refused \subseteq Task \cup {0}
      /\ registrar.air \in Seq([turn : {"on", "off"}, by : Task \cup {0}])
  BY <1>1 DEF Types, Registrar, Sending
<1>6. /\ registered \in BOOLEAN /\ ops \in 0 .. app.ops /\ murky \subseteq Calls
      /\ stack \in [Calls -> Call] /\ obj \in [Calls -> Object]
  BY <1>1 DEF Types
<1> HIDE <1>1
<1> QED BY <1>2, <1>4, <1>5, <1>6 DEF TypeOK, Call, Object

LEMMA KeysReleased ==
    ASSUME KeyInv
    PROVE  KeyReleased
  BY DEF KeyInv, KeyReleased, Owes

LEMMA UnregistersGone ==
    ASSUME RegisterInv, AirInv
    PROVE  UnregisteredIsGone
<1> SUFFICES ASSUME NEW t \in Task, job[t].kind = "unregister", task[t].out = "ok",
                    \A u \in t + 1 .. MaxTasks : job[u].kind \notin {"register", "unregister"},
                    registrar.air = <<>>
             PROVE  ~registrar.bound \/ (t \in registrar.refused /\ job[t].whose # t)
  BY DEF UnregisteredIsGone
<1>1. Fulfilled(t) /\ LastRegistration(t)
  BY DEF Fulfilled, LastRegistration, Registers
<1>2. Gone(t)
  BY <1>1 DEF RegisterInv
<1>3. job[t].whose = t => ~registrar.bound
  BY <1>1 DEF AirInv, AirTold, Confirmed, Unbound
<1> QED BY <1>2, <1>3 DEF Gone

LEMMA TransfersTrue ==
    ASSUME AloneInv, ToldInv
    PROVE  TransferVerdict
<1>1. ASSUME NEW t \in Task, NEW u \in Task, t < u, Referring(t), Referring(u), job[t].call = job[u].call
      PROVE  \E w \in 1 .. t : job[w].kind = "attended" /\ job[w].call = job[t].call
  <2>1. CASE AttendedBefore(t)
    BY <2>1 DEF AttendedBefore
  <2>2. CASE ~AttendedBefore(t)
    <3>1. u # t /\ Transferring(u) /\ Running(u)
      BY <1>1 DEF Referring, Task
    <3> QED BY <1>1, <2>2, <3>1 DEF AloneInv, Alone
  <2> QED BY <2>1, <2>2
<1>2. ASSUME NEW t \in Task, Transferring(t)
      PROVE  /\ task[t].out = "ok" => ~obj[job[t].call].up /\ ~stack[job[t].call].live /\ job[t].whose # 0
             /\ task[t].out \in {"ok", "failed"} =>
                   \/ job[t].whose \in {0, t} \/ Abandoned(job[t].whose)
                   \/ Attended(job[t].call)
  <2>1. ToldOK(t)
    BY <1>2 DEF ToldInv
  <2> QED BY <2>1 DEF ToldOK, Abandoned
<1> QED BY <1>1, <1>2 DEF TransferVerdict

(* Every value is of its type, and no coroutine is scheduled twice. *)
THEOREM TypeCorrect == Spec => []TypeOK
<1>1. Together => TypeOK
  BY TypesOK DEF Together
<1> QED BY <1>1, TogetherAlways, PTL

(* The pending transfer request of a Call is the newest one reported to it, *)
(* unless what was decided or failed since has wiped it out.                *)
THEOREM RequestsNewest == Spec => []RequestIsNewest
<1>1. Together => RequestIsNewest
  BY DEF Together
<1> QED BY <1>1, TogetherAlways, PTL

(* No key stays pressed at the stack once the send_dtmf()s of its call have *)
(* returned, whatever else runs and whichever of them timed out.            *)
THEOREM NoKeyStuck == Spec => []KeyReleased
<1>1. Together => KeyReleased
  BY KeysReleased DEF Together
<1> QED BY <1>1, TogetherAlways, PTL

(* After an unregister() that returned, with no register() since, the       *)
(* registrar has forgotten the agent once nothing is in flight; only if it  *)
(* was another REGISTER that was confirmed may it have refused to.          *)
THEOREM UnregisterWorks == Spec => []UnregisteredIsGone
<1>1. Together => UnregisteredIsGone
  BY UnregistersGone DEF Together
<1> QED BY <1>1, TogetherAlways, PTL

(* Two transfers of a call overlap only behind an attended one; one that    *)
(* returns has ended the call, and a transfer is told another's outcome     *)
(* only if that one was given up on, or behind an attended one.             *)
THEOREM VerdictsTrue == Spec => []TransferVerdict
<1>1. Together => TransferVerdict
  BY TransfersTrue DEF Together
<1> QED BY <1>1, TogetherAlways, PTL

LEMMA HoldsTrue ==
    ASSUME Base, HoldInv
    PROVE  HoldIsTrue
<1>1. TypeOK
  BY TypesOK
<1>2. ASSUME NEW c \in Calls \ murky, Settled(c)
      PROVE  obj[c].onHold = stack[c].told /\ (stack[c].held = stack[c].told \/ stack[c].denied)
  BY <1>2 DEF HoldInv, HoldOK, Settled, Clean
<1> QED BY <1>1, <1>2 DEF HoldIsTrue

(* A Call that nobody is holding or resuming agrees with what the far end   *)
(* was told, also after refusals, and the stack's flag agrees with both or  *)
(* a hold command was refused last -- unless the call is in murky.          *)
THEOREM HoldTrue == Spec => []HoldIsTrue
<1>1. Together => HoldIsTrue
  BY HoldsTrue DEF Together
<1> QED BY <1>1, TogetherAlways, PTL
=============================================================================
