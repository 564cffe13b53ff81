--------------------------- MODULE CallLifeProofs ----------------------------
(***************************************************************************)
(* Proofs about CallLife.tla, for any number of calls of answer(), reject() *)
(* and hangup().                                                           *)
(***************************************************************************)
EXTENDS CallLife, SequenceTheorems, TLAPS

USE CallLifeAssumption

-----------------------------------------------------------------------------
(* The inductive invariant.                                                *)

(* How far a call in this state has got. *)
Rank(s) == CASE s = "none" -> 0
             [] s \in {"incoming", "outgoing"} -> 1
             [] s = "established" -> 2
             [] OTHER -> 3

Dialled == task["dialer"].at # "idle"

(* No dial command is on its way. *)
Undialled == \A i \in 1 .. Len(queue) : queue[i].by # "dialer"

(* The event e is among the callbacks s, or before the i-th of them. *)
Reports(s, e) == \E k \in 1 .. Len(s) : s[k].kind = "event" /\ s[k].ev = e
Before(s, i, e) == \E k \in 1 .. i - 1 : s[k].kind = "event" /\ s[k].ev = e

(* What the re thread hands over at a time: an event, a completion, or an   *)
(* event and then a completion.                                             *)
ShapeInv ==
    /\ Len(telling) <= 2
    /\ \A i \in 1 .. Len(telling) :
          telling[i].kind # "wake" /\ (i # 1 => telling[i].kind = "done")

(* Where each coroutine can be, and what its future can have come to there. *)
TaskInv ==
    /\ task["dialer"].at \in {"idle", "awaiting", "over"} /\ task["dialer"].no = 0
    /\ task["waiter"].at \in {"idle", "waiting", "hanging", "over"} /\ task["waiter"].no = 0
    /\ task["ender"].at \in {"idle", "awaiting", "over"}
    /\ \A t \in Task :
          /\ task[t].at \notin Blocked => task[t].fut = "none"
          /\ task[t].at \in Blocked => task[t].fut # "none"
          /\ task[t].at # "over" => task[t].out = "none"
          /\ task[t].fut = "cancelled" => task[t].expired
    /\ task["dialer"].at = "awaiting" =>
          task["dialer"].fut \in {"open", "cancelled", "ok", "error"}
    /\ task["ender"].at = "awaiting" =>
          /\ task["ender"].fut \in {"open", "cancelled", "ok", "error", "stale"}
          /\ task["ender"].op \in {"answer", "reject", "hangup"} /\ task["ender"].no < ops
    /\ task["waiter"].at = "waiting" =>
          task["waiter"].fut \in {"open", "cancelled", "established", "closed"}
    /\ task["waiter"].at = "hanging" =>
          task["waiter"].fut \in {"open", "cancelled", "ok", "stale"}
    /\ task["dialer"].at = "over" =>
          task["dialer"].out \in {"ok", "timeout", "raised", "rejected"}

(* A coroutine is scheduled once, and only because its future is done. *)
WakeInv ==
    /\ \A i \in 1 .. Len(ready) : ready[i].kind = "wake" =>
          task[ready[i].by].at \in Blocked /\ task[ready[i].by].fut # "open"
    /\ \A i, j \in 1 .. Len(ready) :
          ready[i].kind = "wake" /\ ready[j].kind = "wake" /\ ready[i].by = ready[j].by => i = j

(* An event on its way is later than what was reported, and no later than   *)
(* the stack's own state; only a dialled call was ever outgoing.            *)
EventsIn(s) ==
    \A i \in 1 .. Len(s) : s[i].kind = "event" =>
        /\ Rank(reported) < Rank(s[i].ev) /\ Rank(s[i].ev) <= Rank(native)
        /\ s[i].ev = "incoming" => ~Dialled
        /\ s[i].ev = "outgoing" => Dialled

(* The events arrive in the order of the call's life. *)
EventInv ==
    /\ Rank(reported) <= Rank(native)
    /\ native = "incoming" \/ reported = "incoming" => ~Dialled
    /\ native = "outgoing" \/ reported = "outgoing" => Dialled
    /\ EventsIn(ready) /\ EventsIn(telling)
    /\ \A i, j \in 1 .. Len(ready) :
          ready[i].kind = "event" /\ ready[j].kind = "event" /\ i < j
              => Rank(ready[i].ev) < Rank(ready[j].ev)
    /\ \A i \in 1 .. Len(ready), j \in 1 .. Len(telling) :
          ready[i].kind = "event" /\ telling[j].kind = "event"
              => Rank(ready[i].ev) < Rank(telling[j].ev)

(* One dial command at most, before there is a call; the others are about a *)
(* Call that exists, and the number of the ender's tells them apart.        *)
QueueInv ==
    /\ \A i \in 1 .. Len(queue) :
          /\ queue[i].by = "dialer" <=> queue[i].op = "dial"
          /\ queue[i].by = "dialer" => native = "none" /\ Dialled
          /\ queue[i].by = "waiter" => Exists /\ queue[i].op = "hangup"
          /\ queue[i].by = "ender" =>
                /\ Exists /\ queue[i].no < ops
                /\ task["ender"].at = "awaiting" /\ task["ender"].no = queue[i].no
                      => task["ender"].op = queue[i].op
    /\ \A i, j \in 1 .. Len(queue) : queue[i].by = "dialer" /\ queue[j].by = "dialer" => i = j

(* d completes what the ender awaits, a hangup or a reject, and says that   *)
(* the call was ended by it.                                                *)
Ends(d) ==
    /\ d.kind = "done" /\ d.by = "ender" /\ d.res = "ok"
    /\ task["ender"].at = "awaiting" /\ task["ender"].no = d.no /\ task["ender"].op # "answer"

(* d says that the dialled call was made. *)
Makes(d) == d.kind = "done" /\ d.by = "dialer" /\ d.res = "ok"

(* What a completion on its way says is true of the stack. *)
DonesIn(s) ==
    \A i \in 1 .. Len(s) : s[i].kind = "done" =>
        /\ s[i].by = "dialer" =>
              /\ Dialled /\ Undialled
              /\ s[i].res = "ok" \/ (s[i].res = "error" /\ ~Live)
        /\ s[i].by = "waiter" => native = "closed" /\ s[i].res \in {"ok", "stale"}
        /\ s[i].by = "ender" => Exists /\ s[i].no < ops

(* And an event that a completion vouches for comes before it. *)
DoneInv ==
    /\ DonesIn(ready) /\ DonesIn(telling)
    /\ \A i \in 1 .. Len(ready) :
          /\ Makes(ready[i]) => reported # "none" \/ Before(ready, i, "outgoing")
          /\ Ends(ready[i]) => call.state = "closed" \/ Before(ready, i, "closed")
    /\ \A i \in 1 .. Len(telling) :
          /\ Makes(telling[i]) => \/ reported # "none" \/ Reports(ready, "outgoing")
                                  \/ Before(telling, i, "outgoing")
          /\ Ends(telling[i]) => \/ call.state = "closed" \/ Reports(ready, "closed")
                                 \/ Before(telling, i, "closed")

(* The Call follows the events from the first it hears. *)
CallInv ==
    /\ Exists => reported # "none"
    /\ Exists => call.state = IF Dialled /\ ~call.heard THEN "outgoing" ELSE reported
    /\ Exists /\ ~call.listens => reported = "closed"
    /\ call.listens => Exists
    /\ Exists /\ Dialled => task["dialer"].at = "over"
    /\ task["waiter"].at # "idle" \/ task["ender"].at # "idle" => Exists

(* What the coroutines have been told, or will be when they run, is true. *)
VerdictInv ==
    /\ task["dialer"].fut = "ok" => reported # "none"
    /\ task["dialer"].fut = "error" \/ task["dialer"].out \in {"rejected", "raised"} => ~Live
    /\ task["dialer"].fut \in {"ok", "error"} \/ task["dialer"].out \in {"ok", "rejected", "raised"}
          => Undialled
    /\ task["dialer"].out = "ok" => Exists
    /\ task["waiter"].at = "waiting" =>
          /\ task["waiter"].fut = "established" => Rank(reported) >= 2
          /\ task["waiter"].fut = "closed" => reported = "closed"
    /\ task["waiter"].at = "hanging" /\ task["waiter"].fut \in {"ok", "stale"} => native = "closed"
    /\ task["ender"].at = "awaiting" /\ task["ender"].fut = "ok" /\ task["ender"].op # "answer"
          => call.state = "closed"
    /\ VerdictIsTrue

Inv == /\ TypeOK /\ ShapeInv /\ TaskInv /\ WakeInv /\ EventInv
       /\ QueueInv /\ DoneInv /\ CallInv /\ VerdictInv

-----------------------------------------------------------------------------
(* Ranks, callbacks, sequences.                                            *)

LEMMA Ranks ==
    /\ Rank("none") = 0 /\ Rank("incoming") = 1 /\ Rank("outgoing") = 1
    /\ Rank("established") = 2 /\ Rank("closed") = 3
    /\ \A s \in State \cup {"none"} :
          /\ Rank(s) \in 0 .. 3
          /\ Rank(s) = 0 => s = "none"
          /\ Rank(s) = 1 => s \in {"incoming", "outgoing"}
          /\ Rank(s) = 2 => s = "established"
          /\ Rank(s) = 3 => s = "closed"
<1>1. /\ Rank("none") = 0 /\ Rank("incoming") = 1 /\ Rank("outgoing") = 1
      /\ Rank("established") = 2 /\ Rank("closed") = 3
    BY DEF Rank
<1>2. \A s \in State \cup {"none"} : s \in {"none", "incoming", "outgoing", "established", "closed"}
    BY DEF State
<1> QED BY <1>1, <1>2

LEMMA Kinds ==
    ASSUME NEW d \in Callback
    PROVE  /\ d.kind \in {"event", "done", "wake"}
           /\ d.kind = "event" => d.ev \in State
           /\ d.kind = "done" => d.by \in Task /\ d.no \in 0 .. MaxOps /\ d.res \in {"ok", "error", "stale"}
           /\ d.kind = "wake" => d.by \in Task
BY DEF Callback

LEMMA Made ==
    /\ \A e \in State : Event(e) \in Callback /\ Event(e).kind = "event" /\ Event(e).ev = e
    /\ \A t \in Task : Wake(t) \in Callback /\ Wake(t).kind = "wake" /\ Wake(t).by = t
    /\ \A c \in Order, r \in {"ok", "error", "stale"} :
          /\ Done(c, r) \in Callback /\ Done(c, r).kind = "done"
          /\ Done(c, r).by = c.by /\ Done(c, r).no = c.no /\ Done(c, r).res = r
<1>1. \A e \in State : Event(e) \in Callback /\ Event(e).kind = "event" /\ Event(e).ev = e
    BY DEF Callback, Event
<1>2. \A t \in Task : Wake(t) \in Callback /\ Wake(t).kind = "wake" /\ Wake(t).by = t
    BY DEF Callback, Wake
<1>3. \A c \in Order, r \in {"ok", "error", "stale"} :
          /\ Done(c, r) \in Callback /\ Done(c, r).kind = "done"
          /\ Done(c, r).by = c.by /\ Done(c, r).no = c.no /\ Done(c, r).res = r
    BY DEF Callback, Done, Order
<1> QED BY <1>1, <1>2, <1>3

LEMMA WakeIs ==
    ASSUME NEW d \in Callback, NEW t \in Task, d = Wake(t)
    PROVE  d.kind = "wake" /\ d.by = t
BY Made

LEMMA AppendFacts ==
    ASSUME NEW S, NEW s \in Seq(S), NEW x \in S
    PROVE  /\ Append(s, x) \in Seq(S) /\ Len(Append(s, x)) = Len(s) + 1 /\ Len(s) \in Nat
           /\ \A i \in 1 .. Len(s) : Append(s, x)[i] = s[i] /\ s[i] \in S
           /\ Append(s, x)[Len(s) + 1] = x
OBVIOUS

LEMMA TailFacts ==
    ASSUME NEW S, NEW s \in Seq(S), s # <<>>
    PROVE  /\ Tail(s) \in Seq(S) /\ Len(Tail(s)) = Len(s) - 1 /\ Len(s) \in Nat \ {0}
           /\ Head(s) = s[1] /\ Head(s) \in S
           /\ \A i \in 1 .. Len(Tail(s)) : /\ Tail(s)[i] = s[i + 1] /\ s[i + 1] \in S
                                           /\ i + 1 \in 1 .. Len(s)
OBVIOUS

(* What came before comes before when the first callback has been run, if   *)
(* that was not it; and when one is appended.                               *)
LEMMA BeforeTail ==
    ASSUME NEW s \in Seq(Callback), s # <<>>, NEW e, NEW i \in 1 .. Len(Tail(s)),
           ~(s[1].kind = "event" /\ s[1].ev = e), Before(s, i + 1, e)
    PROVE  Before(Tail(s), i, e)
<1>1. PICK k \in 1 .. i : s[k].kind = "event" /\ s[k].ev = e
    BY DEF Before
<1>2. k # 1 /\ k \in Nat
    BY <1>1
<1>3. k - 1 \in 1 .. i - 1 /\ k - 1 \in 1 .. Len(Tail(s)) /\ (k - 1) + 1 = k
    BY <1>1, <1>2, TailFacts
<1>4. Tail(s)[k - 1] = s[k]
    BY <1>3, TailFacts
<1> QED BY <1>1, <1>3, <1>4 DEF Before

LEMMA ReportsTail ==
    ASSUME NEW s \in Seq(Callback), s # <<>>, NEW e,
           ~(s[1].kind = "event" /\ s[1].ev = e), Reports(s, e)
    PROVE  Reports(Tail(s), e)
<1>1. PICK k \in 1 .. Len(s) : s[k].kind = "event" /\ s[k].ev = e
    BY DEF Reports
<1>2. k # 1 /\ k \in Nat
    BY <1>1
<1>3. k - 1 \in 1 .. Len(Tail(s)) /\ (k - 1) + 1 = k
    BY <1>1, <1>2, TailFacts
<1>4. Tail(s)[k - 1] = s[k]
    BY <1>3, TailFacts
<1> QED BY <1>1, <1>3, <1>4 DEF Reports

LEMMA AppendKeeps ==
    ASSUME NEW s \in Seq(Callback), NEW x \in Callback, NEW e
    PROVE  /\ Reports(s, e) => Reports(Append(s, x), e)
           /\ \A i \in 1 .. Len(s) : Before(s, i, e) => Before(Append(s, x), i, e)
           /\ Reports(s, e) => Before(Append(s, x), Len(s) + 1, e)
           /\ x.kind = "event" /\ x.ev = e => Reports(Append(s, x), e)
<1>1. /\ Len(Append(s, x)) = Len(s) + 1 /\ Len(s) \in Nat
      /\ \A i \in 1 .. Len(s) : Append(s, x)[i] = s[i]
      /\ Append(s, x)[Len(s) + 1] = x
    BY AppendFacts
<1>2. Reports(s, e) => Reports(Append(s, x), e)
    BY <1>1 DEF Reports
<1>3. \A i \in 1 .. Len(s) : Before(s, i, e) => Before(Append(s, x), i, e)
    BY <1>1 DEF Before
<1>4. Reports(s, e) => Before(Append(s, x), Len(s) + 1, e)
    BY <1>1 DEF Before, Reports
<1>5. x.kind = "event" /\ x.ev = e => Reports(Append(s, x), e)
    BY <1>1 DEF Reports
<1> QED BY <1>2, <1>3, <1>4, <1>5

(* What the types say of the elements. *)
LEMMA Elements ==
    ASSUME TypeOK
    PROVE  /\ \A i \in 1 .. Len(ready) : ready[i] \in Callback
           /\ \A i \in 1 .. Len(telling) : telling[i] \in Callback
           /\ \A i \in 1 .. Len(queue) : queue[i] \in Order /\ queue[i].by \in Task /\ queue[i].no \in 0 .. MaxOps
           /\ Len(ready) \in Nat /\ Len(telling) \in Nat /\ Len(queue) \in Nat
           /\ Rank(native) \in 0 .. 3 /\ Rank(reported) \in 0 .. 3
<1>1. queue \in Seq(Order) /\ ready \in Seq(Callback) /\ telling \in Seq(Callback)
    BY DEF TypeOK
<1>2. Rank(native) \in 0 .. 3 /\ Rank(reported) \in 0 .. 3
    BY Ranks DEF TypeOK
<1>3. \A i \in 1 .. Len(queue) : queue[i] \in Order
    BY <1>1
<1> QED BY <1>1, <1>2, <1>3 DEF Order

LEMMA InitInv == Init => Inv
<1> SUFFICES ASSUME Init PROVE Inv
    OBVIOUS
<1>1. TypeOK
  <2>1. queue \in Seq(Order) /\ telling \in Seq(Callback) /\ ready \in Seq(Callback)
      BY DEF Init
  <2>2. task \in [Task -> [at : {"idle", "awaiting", "waiting", "hanging", "over"},
                          fut : {"none", "open", "cancelled", "ok", "error", "stale",
                                 "established", "closed"},
                          expired : BOOLEAN,
                          op : {"none", "dial", "answer", "reject", "hangup", "unsent"},
                          no : 0 .. MaxOps,
                          out : {"none", "ok", "error", "stale", "raised", "rejected",
                                 "established", "failed", "timeout"}]]
      BY DEF Init, Idle
  <2>3. call \in [state : State \cup {"none"}, listens : BOOLEAN, heard : BOOLEAN]
      BY DEF Init
  <2>4. native \in State \cup {"none"} /\ reported \in State \cup {"none"} /\ ops \in 0 .. MaxOps
      BY DEF Init
  <2>6. answered \in BOOLEAN
      BY DEF Init
  <2>5. \A i, j \in 1 .. Len(ready) : ready[i].kind = "wake" /\ ready[i] = ready[j] => i = j
      BY DEF Init
  <2> QED BY <2>1, <2>2, <2>3, <2>4, <2>5, <2>6 DEF TypeOK
<1>2. ShapeInv /\ WakeInv
    BY DEF Init, ShapeInv, WakeInv
<1>3. \A t \in Task : task[t] = Idle
    BY DEF Init
<1>4. TaskInv
    BY <1>3 DEF TaskInv, Idle, Task, Blocked
<1>5. EventInv
    BY <1>3, Ranks DEF Init, EventInv, EventsIn, Idle, Task, Dialled
<1>6. QueueInv /\ DoneInv
    BY DEF Init, QueueInv, DoneInv, DonesIn
<1>7. CallInv
    BY <1>3 DEF Init, CallInv, Exists, Idle, Task
<1>8. VerdictInv
    BY <1>3 DEF VerdictInv, VerdictIsTrue, Idle, Task
<1> QED BY <1>1, <1>2, <1>4, <1>5, <1>6, <1>7, <1>8 DEF Inv

-----------------------------------------------------------------------------
(* A coroutine that is run takes its callback off the loop's queue.        *)

Outcome == {"none", "ok", "error", "stale", "raised", "rejected", "established", "failed", "timeout"}

TaskType == [at : {"idle", "awaiting", "waiting", "hanging", "over"},
             fut : {"none", "open", "cancelled", "ok", "error", "stale", "established", "closed"},
             expired : BOOLEAN,
             op : {"none", "dial", "answer", "reject", "hangup", "unsent"},
             no : 0 .. MaxOps,
             out : Outcome]

(* What is left of the loop's queue is in order and as true as it was.     *)
LEMMA PoppedTypes ==
    ASSUME TypeOK, ready # <<>>, ready' = Tail(ready)
    PROVE  /\ ready' \in Seq(Callback)
           /\ \A i, j \in 1 .. Len(ready') :
                 ready'[i].kind = "wake" /\ ready'[i] = ready'[j] => i = j
<1>1. ready \in Seq(Callback)
    BY DEF TypeOK
<1>2. /\ ready' \in Seq(Callback) /\ Len(ready) \in Nat \ {0} /\ Len(ready') = Len(ready) - 1
      /\ \A i \in 1 .. Len(ready') : ready'[i] = ready[i + 1] /\ i + 1 \in 1 .. Len(ready)
    BY <1>1, TailFacts
<1>3. ASSUME NEW i \in 1 .. Len(ready'), NEW j \in 1 .. Len(ready'),
             ready'[i].kind = "wake", ready'[i] = ready'[j]
      PROVE  i = j
  <2>1. i + 1 \in 1 .. Len(ready) /\ j + 1 \in 1 .. Len(ready)
        /\ ready[i + 1].kind = "wake" /\ ready[i + 1] = ready[j + 1]
      BY <1>2, <1>3
  <2>2. i + 1 = j + 1
      BY <2>1 DEF TypeOK
  <2> QED BY <1>2, <2>2
<1> QED BY <1>2, <1>3

LEMMA PoppedWakes ==
    ASSUME TypeOK, WakeInv, ready # <<>>, ready' = Tail(ready),
           \A u \in Task : task'[u] = task[u] \/ (ready[1].kind = "wake" /\ ready[1].by = u)
    PROVE  WakeInv'
<1>1. ready \in Seq(Callback)
    BY DEF TypeOK
<1>2. /\ ready' \in Seq(Callback) /\ Len(ready) \in Nat \ {0} /\ Len(ready') = Len(ready) - 1
      /\ \A i \in 1 .. Len(ready') : /\ ready'[i] = ready[i + 1] /\ ready[i + 1] \in Callback
                                     /\ i + 1 \in 1 .. Len(ready)
    BY <1>1, TailFacts
<1>3. ASSUME NEW i \in 1 .. Len(ready'), ready'[i].kind = "wake"
      PROVE  task'[ready'[i].by].at \in Blocked /\ task'[ready'[i].by].fut # "open"
  <2> DEFINE u == ready[i + 1].by
  <2>1. ready'[i] = ready[i + 1] /\ i + 1 \in 1 .. Len(ready) /\ ready[i + 1].kind = "wake" /\ u \in Task
      BY <1>2, <1>3, Kinds
  <2>2. ~(ready[1].kind = "wake" /\ ready[1].by = u)
    <3>1. 1 \in 1 .. Len(ready) /\ i + 1 # 1
        BY <1>2
    <3> QED BY <2>1, <3>1 DEF WakeInv
  <2>3. task'[u] = task[u]
      BY <2>1, <2>2
  <2> QED BY <2>1, <2>3 DEF WakeInv
<1>4. ASSUME NEW i \in 1 .. Len(ready'), NEW j \in 1 .. Len(ready'),
             ready'[i].kind = "wake", ready'[j].kind = "wake", ready'[i].by = ready'[j].by
      PROVE  i = j
  <2>1. i + 1 = j + 1
      BY <1>2, <1>4 DEF WakeInv
  <2> QED BY <1>2, <2>1
<1> QED BY <1>3, <1>4 DEF WakeInv

(* ... and so are the events, if that was none of them. *)
LEMMA PoppedEvents ==
    ASSUME TypeOK, EventInv, ready # <<>>, ready' = Tail(ready),
           UNCHANGED <<telling, native, reported>>, Dialled' = Dialled
    PROVE  EventInv'
<1>1. ready \in Seq(Callback)
    BY DEF TypeOK
<1>2. /\ Len(ready) \in Nat \ {0} /\ Len(ready') = Len(ready) - 1
      /\ \A i \in 1 .. Len(ready') : ready'[i] = ready[i + 1] /\ i + 1 \in 1 .. Len(ready)
    BY <1>1, TailFacts
<1>3. EventsIn(ready)'
    BY <1>2 DEF EventInv, EventsIn
<1>4. EventsIn(telling)'
    BY DEF EventInv, EventsIn
<1>5. ASSUME NEW i \in 1 .. Len(ready'), NEW j \in 1 .. Len(ready'),
             ready'[i].kind = "event", ready'[j].kind = "event", i < j
      PROVE  Rank(ready'[i].ev) < Rank(ready'[j].ev)
  <2>1. i + 1 < j + 1 /\ i + 1 \in 1 .. Len(ready) /\ j + 1 \in 1 .. Len(ready)
      BY <1>2, <1>5
  <2> QED BY <1>2, <1>5, <2>1 DEF EventInv
<1>6. ASSUME NEW i \in 1 .. Len(ready'), NEW j \in 1 .. Len(telling'),
             ready'[i].kind = "event", telling'[j].kind = "event"
      PROVE  Rank(ready'[i].ev) < Rank(telling'[j].ev)
    BY <1>2, <1>6 DEF EventInv
<1> QED BY <1>3, <1>4, <1>5, <1>6 DEF EventInv

(* ... and so are the completions, if what they say of the Call and of the  *)
(* commands stays so.                                                       *)
LEMMA PoppedDones ==
    ASSUME TypeOK, DoneInv, ready # <<>>, ready' = Tail(ready), ready[1].kind # "event",
           UNCHANGED <<telling, native, reported, ops>>,
           Dialled => Dialled', Undialled => Undialled', Exists => Exists',
           call.state = "closed" => call'.state = "closed",
           task'["ender"] = task["ender"] \/ task'["ender"].at # "awaiting"
    PROVE  DoneInv'
<1>1. ready \in Seq(Callback) /\ telling \in Seq(Callback)
    BY DEF TypeOK
<1>2. /\ Len(ready) \in Nat \ {0} /\ Len(ready') = Len(ready) - 1
      /\ \A i \in 1 .. Len(ready') : /\ ready'[i] = ready[i + 1] /\ ready[i + 1] \in Callback
                                     /\ i + 1 \in 1 .. Len(ready)
    BY <1>1, TailFacts
<1>3. DonesIn(ready)'
    BY <1>2 DEF DoneInv, DonesIn, Live
<1>4. DonesIn(telling)'
    BY DEF DoneInv, DonesIn, Live
<1>5. ASSUME NEW i \in 1 .. Len(ready')
      PROVE  /\ Makes(ready'[i]) => reported' # "none" \/ Before(ready', i, "outgoing")
             /\ Ends(ready[i])' => call'.state = "closed" \/ Before(ready', i, "closed")
  <2>1. ready'[i] = ready[i + 1] /\ i + 1 \in 1 .. Len(ready) /\ ready[i + 1] \in Callback
      BY <1>2
  <2>2. \A e : Before(ready, i + 1, e) => Before(ready', i, e)
      BY <1>1, BeforeTail
  <2>3. Makes(ready[i + 1]) => reported # "none" \/ Before(ready, i + 1, "outgoing")
      BY <2>1 DEF DoneInv
  <2>4. Ends(ready[i + 1]) => call.state = "closed" \/ Before(ready, i + 1, "closed")
      BY <2>1 DEF DoneInv
  <2>5. Ends(ready[i])' => Ends(ready[i + 1])
      BY <2>1 DEF Ends
  <2> QED BY <2>1, <2>2, <2>3, <2>4, <2>5
<1>6. ASSUME NEW i \in 1 .. Len(telling')
      PROVE  /\ Makes(telling'[i]) => \/ reported' # "none" \/ Reports(ready', "outgoing")
                                      \/ Before(telling', i, "outgoing")
             /\ Ends(telling[i])' => \/ call'.state = "closed" \/ Reports(ready', "closed")
                                    \/ Before(telling', i, "closed")
  <2>1. telling[i] \in Callback /\ telling' = telling
      BY <1>1
  <2>2. \A e : Reports(ready, e) => Reports(ready', e)
      BY <1>1, ReportsTail
  <2>3. Makes(telling[i]) => \/ reported # "none" \/ Reports(ready, "outgoing")
                             \/ Before(telling, i, "outgoing")
      BY <2>1 DEF DoneInv
  <2>4. Ends(telling[i]) => \/ call.state = "closed" \/ Reports(ready, "closed")
                            \/ Before(telling, i, "closed")
      BY <2>1 DEF DoneInv
  <2>5. Ends(telling[i])' => Ends(telling[i])
      BY <2>1 DEF Ends
  <2> QED BY <2>1, <2>2, <2>3, <2>4, <2>5
<1> QED BY <1>3, <1>4, <1>5, <1>6 DEF DoneInv, Makes

LEMMA WokenFacts ==
    ASSUME Inv, NEW t \in Task, Woken(t)
    PROVE  /\ ready # <<>> /\ ready' = Tail(ready)
           /\ ready[1].kind = "wake" /\ ready[1].by = t
           /\ task[t].at \in Blocked /\ task[t].fut # "open"
           /\ task[t].fut = "cancelled" => task[t].expired
<1>1. ready # <<>> /\ ready' = Tail(ready) /\ Head(ready) = Wake(t) /\ ready \in Seq(Callback)
    BY DEF Woken, Rest, Inv, TypeOK
<1>2. ready[1] = Wake(t) /\ ready[1] \in Callback /\ 1 \in 1 .. Len(ready)
    BY <1>1, TailFacts
<1>3. ready[1].kind = "wake" /\ ready[1].by = t
    BY <1>2, WakeIs
<1>4. task[t].at \in Blocked /\ task[t].fut # "open"
    BY <1>2, <1>3 DEF Inv, WakeInv
<1>5. task[t].fut = "cancelled" => task[t].expired
    BY DEF Inv, TaskInv
<1> QED BY <1>1, <1>3, <1>4, <1>5

CallType == [state : State \cup {"none"}, listens : BOOLEAN, heard : BOOLEAN]

LEMMA TaskTypes ==
    ASSUME TypeOK, NEW t \in Task, NEW record \in TaskType, Became(t, record)
    PROVE  /\ task' \in [Task -> TaskType] /\ task'[t] = record
           /\ \A u \in Task : u # t => task'[u] = task[u]
<1>1. task \in [Task -> TaskType]
    BY DEF TypeOK, TaskType, Outcome
<1> QED BY <1>1 DEF Became

LEMMA Resume ==
    ASSUME Inv, NEW t \in Task, Woken(t), NEW record \in TaskType, Became(t, record),
           record.at # "idle", t = "ender" => record.at # "awaiting",
           UNCHANGED <<native, answered, telling, reported, ops>>,
           queue' \in Seq(Order), call' \in CallType,
           Undialled => Undialled', Exists => Exists', call.state = "closed" => call'.state = "closed"
    PROVE  TypeOK' /\ ShapeInv' /\ WakeInv' /\ EventInv' /\ DoneInv'
<1>1. /\ ready # <<>> /\ ready' = Tail(ready) /\ ready[1].kind = "wake" /\ ready[1].by = t
      /\ task[t].at \in Blocked
    BY WokenFacts
<1>2. /\ task' \in [Task -> TaskType] /\ task'[t] = record
      /\ \A u \in Task : u # t => task'[u] = task[u]
    BY TaskTypes DEF Inv
<1>3. TypeOK'
  <2>1. /\ ready' \in Seq(Callback)
        /\ \A i, j \in 1 .. Len(ready') :
              ready'[i].kind = "wake" /\ ready'[i] = ready'[j] => i = j
      BY <1>1, PoppedTypes DEF Inv
  <2>2. telling' \in Seq(Callback) /\ answered' \in BOOLEAN
      BY DEF Inv, TypeOK
  <2>3. native' \in State \cup {"none"} /\ reported' \in State \cup {"none"} /\ ops' \in 0 .. MaxOps
      BY DEF Inv, TypeOK
  <2> QED BY <1>2, <2>1, <2>2, <2>3 DEF TypeOK, TaskType, Outcome, CallType
<1>4. ShapeInv'
    BY DEF Inv, ShapeInv
<1>5. WakeInv'
    BY <1>1, <1>2, PoppedWakes DEF Inv
<1>6. Dialled' = Dialled
    BY <1>1, <1>2 DEF Dialled, Blocked, Task
<1>7. EventInv'
    BY <1>1, <1>6, PoppedEvents DEF Inv
<1>8. task'["ender"] = task["ender"] \/ task'["ender"].at # "awaiting"
    BY <1>2 DEF Task
<1>9. DoneInv'
    BY <1>1, <1>6, <1>8, PoppedDones DEF Inv
<1> QED BY <1>3, <1>4, <1>5, <1>7, <1>9

(* The records a coroutine becomes. *)
LEMMA FinishedType ==
    ASSUME NEW op \in {"none", "dial", "answer", "reject", "hangup", "unsent"}, NEW out \in Outcome
    PROVE  /\ Finished(op, out) \in TaskType /\ Finished(op, out).at = "over"
           /\ Finished(op, out).fut = "none" /\ Finished(op, out).no = 0
           /\ ~Finished(op, out).expired /\ Finished(op, out).op = op
           /\ Finished(op, out).out = out
<1>1. Finished(op, out) \in TaskType
    BY DEF TaskType, Finished
<1>2. /\ Finished(op, out).at = "over" /\ Finished(op, out).fut = "none" /\ Finished(op, out).no = 0
      /\ ~Finished(op, out).expired /\ Finished(op, out).op = op /\ Finished(op, out).out = out
    BY DEF Finished
<1> QED BY <1>1, <1>2

LEMMA SuspendedType ==
    ASSUME NEW op \in {"none", "dial", "answer", "reject", "hangup", "unsent"}, NEW no \in 0 .. MaxOps,
           NEW at \in Blocked
    PROVE  /\ Suspended(at, op, no) \in TaskType /\ Suspended(at, op, no).at = at
           /\ Suspended(at, op, no).fut = "open" /\ Suspended(at, op, no).no = no
           /\ ~Suspended(at, op, no).expired /\ Suspended(at, op, no).op = op
           /\ Suspended(at, op, no).out = "none"
<1>1. Suspended(at, op, no) \in TaskType
    BY DEF TaskType, Suspended, Blocked, Outcome
<1>2. /\ Suspended(at, op, no).at = at /\ Suspended(at, op, no).fut = "open"
      /\ Suspended(at, op, no).no = no /\ ~Suspended(at, op, no).expired
      /\ Suspended(at, op, no).op = op /\ Suspended(at, op, no).out = "none"
    BY DEF Suspended
<1> QED BY <1>1, <1>2

LEMMA DialReturnsInv ==
    ASSUME Inv, DialReturns
    PROVE  Inv'
<1> DEFINE good == ~task["dialer"].expired /\ task["dialer"].fut = "ok"
           o == CASE good -> "ok" [] task["dialer"].expired -> "timeout" [] OTHER -> "raised"
           record == Finished("dial", o)
<1>1. /\ Woken("dialer") /\ task["dialer"].at = "awaiting" /\ Became("dialer", record)
      /\ call' = IF good THEN [state |-> "outgoing", listens |-> TRUE, heard |-> FALSE] ELSE call
      /\ UNCHANGED <<native, answered, telling, queue, reported, ops>>
    BY DEF DialReturns, nativeVars
<1>2. /\ record \in TaskType /\ record.at = "over" /\ record.fut = "none" /\ record.no = 0
      /\ ~record.expired
      /\ record.out = IF good THEN "ok" ELSE IF task["dialer"].expired THEN "timeout" ELSE "raised"
  <2>1. o = IF good THEN "ok" ELSE IF task["dialer"].expired THEN "timeout" ELSE "raised"
      OBVIOUS
  <2>2. o \in Outcome
      BY <2>1 DEF Outcome
  <2> HIDE DEF o
  <2> QED BY <2>1, <2>2, FinishedType
<1> HIDE DEF record, o
<1>3. "dialer" \in Task /\ "waiter" \in Task /\ "ender" \in Task
    BY DEF Task
<1>4. ~Exists
    BY <1>1 DEF Inv, CallInv, Dialled
<1>5. /\ task["dialer"].fut # "open" /\ (task["dialer"].fut = "cancelled" => task["dialer"].expired)
    BY <1>1, <1>3, WokenFacts
<1>6. good \/ task["dialer"].expired \/ task["dialer"].fut = "error"
    BY <1>1, <1>5 DEF Inv, TaskInv
<1>7. call' \in CallType /\ queue' \in Seq(Order)
    BY <1>1 DEF Inv, TypeOK, CallType, State
<1>8. /\ task' \in [Task -> TaskType] /\ task'["dialer"] = record
      /\ \A u \in Task : u # "dialer" => task'[u] = task[u]
    BY <1>1, <1>2, <1>3, TaskTypes DEF Inv
<1>9. call.state = "closed" => call'.state = "closed"
    BY <1>4 DEF Exists
<1>10. TypeOK' /\ ShapeInv' /\ WakeInv' /\ EventInv' /\ DoneInv'
    BY <1>1, <1>2, <1>3, <1>4, <1>7, <1>9, Resume DEF Undialled
<1>11. task'["waiter"] = task["waiter"] /\ task'["ender"] = task["ender"]
    BY <1>3, <1>8
<1>12. TaskInv'
  <2>1. \A t \in Task :
          /\ task'[t].at \notin Blocked => task'[t].fut = "none"
          /\ task'[t].at \in Blocked => task'[t].fut # "none"
          /\ task'[t].at # "over" => task'[t].out = "none"
          /\ task'[t].fut = "cancelled" => task'[t].expired
      BY <1>2, <1>8 DEF Inv, TaskInv, Blocked
  <2> QED BY <1>1, <1>2, <1>8, <1>11, <2>1 DEF Inv, TaskInv
<1>13. QueueInv'
  <2>1. Dialled /\ Dialled'
      BY <1>1, <1>2, <1>8 DEF Dialled
  <2> QED BY <1>1, <1>4, <1>11, <2>1 DEF Inv, QueueInv
<1>14. CallInv'
  <2>1. Dialled /\ Dialled' /\ task'["dialer"].at = "over"
      BY <1>1, <1>2, <1>8 DEF Dialled
  <2>2. CASE good
    <3>1. call'.state = "outgoing" /\ call'.listens = TRUE /\ call'.heard = FALSE /\ reported # "none"
        BY <1>1, <2>2 DEF Inv, VerdictInv
    <3> QED BY <1>1, <2>1, <3>1 DEF CallInv, Exists
  <2>3. CASE ~good
      BY <1>1, <1>4, <1>11, <2>1, <2>3 DEF Inv, CallInv, Exists
  <2> QED BY <2>2, <2>3
<1>15. VerdictInv'
  <2>1. good => Exists' /\ Undialled
      BY <1>1 DEF Exists, Inv, VerdictInv
  <2>2. task["dialer"].fut = "error" => ~Live /\ Undialled
      BY DEF Inv, VerdictInv
  <2>3. Live' = Live /\ Undialled' = Undialled
      BY <1>1 DEF Live, Undialled
  <2>4. record.out = "ok" => good
      BY <1>2
  <2>5. record.out \in {"rejected", "raised"} => task["dialer"].fut = "error"
      BY <1>2, <1>6
  <2>6. ~Exists => call.state # "closed"
      BY DEF Exists
  <2> QED BY <1>1, <1>2, <1>4, <1>8, <1>9, <1>11, <2>1, <2>2, <2>3, <2>4, <2>5 DEF Inv, VerdictInv, VerdictIsTrue
<1> QED BY <1>10, <1>12, <1>13, <1>14, <1>15 DEF Inv

LEMMA ActReturnsInv ==
    ASSUME Inv, ActReturns
    PROVE  Inv'
<1> DEFINE o == IF task["ender"].expired THEN "raised" ELSE task["ender"].fut
           record == Finished(task["ender"].op, o)
<1>1. /\ Woken("ender") /\ task["ender"].at = "awaiting" /\ Became("ender", record)
      /\ UNCHANGED <<native, answered, telling, queue, reported, call, ops>>
    BY DEF ActReturns, nativeVars
<1>3. "dialer" \in Task /\ "waiter" \in Task /\ "ender" \in Task
    BY DEF Task
<1>2. /\ record \in TaskType /\ record.at = "over" /\ record.fut = "none" /\ record.no = 0
      /\ ~record.expired /\ record.out = o /\ record.op = task["ender"].op
  <2>1. task["ender"].op \in {"answer", "reject", "hangup"}
      BY <1>1 DEF Inv, TaskInv
  <2>2. /\ task["ender"].fut \in {"open", "cancelled", "ok", "error", "stale"}
        /\ task["ender"].fut # "open" /\ (task["ender"].fut = "cancelled" => task["ender"].expired)
      BY <1>1, <1>3, WokenFacts DEF Inv, TaskInv
  <2>3. o \in Outcome
      BY <2>2 DEF Outcome
  <2> HIDE DEF o
  <2> QED BY <2>1, <2>3, FinishedType
<1>4. o = "ok" => task["ender"].fut = "ok"
    OBVIOUS
<1> HIDE DEF record, o
<1>8. /\ task' \in [Task -> TaskType] /\ task'["ender"] = record
      /\ \A u \in Task : u # "ender" => task'[u] = task[u]
    BY <1>1, <1>2, <1>3, TaskTypes DEF Inv
<1>7. call' \in CallType /\ queue' \in Seq(Order)
    BY <1>1 DEF Inv, TypeOK, CallType
<1>10. TypeOK' /\ ShapeInv' /\ WakeInv' /\ EventInv' /\ DoneInv'
    BY <1>1, <1>2, <1>3, <1>7, Resume DEF Undialled, Exists
<1>11. task'["waiter"] = task["waiter"] /\ task'["dialer"] = task["dialer"]
    BY <1>3, <1>8
<1>12. TaskInv'
  <2>1. \A t \in Task :
          /\ task'[t].at \notin Blocked => task'[t].fut = "none"
          /\ task'[t].at \in Blocked => task'[t].fut # "none"
          /\ task'[t].at # "over" => task'[t].out = "none"
          /\ task'[t].fut = "cancelled" => task'[t].expired
      BY <1>2, <1>8 DEF Inv, TaskInv, Blocked
  <2> QED BY <1>1, <1>2, <1>8, <1>11, <2>1 DEF Inv, TaskInv
<1>13. QueueInv'
    BY <1>1, <1>2, <1>8, <1>11 DEF Inv, QueueInv, Dialled, Exists
<1>14. CallInv'
    BY <1>1, <1>2, <1>8, <1>11 DEF Inv, CallInv, Dialled, Exists
<1>15. VerdictInv'
  <2>1. record.out = "ok" /\ record.op \in {"hangup", "reject"} => call.state = "closed"
      BY <1>1, <1>2, <1>4 DEF Inv, VerdictInv
  <2> QED BY <1>1, <1>2, <1>8, <1>11, <2>1 DEF Inv, VerdictInv, VerdictIsTrue, Undialled, Exists, Live
<1> QED BY <1>10, <1>12, <1>13, <1>14, <1>15 DEF Inv

(* The waiter becomes record, and queues a hangup or nothing. *)
LEMMA WaiterBecame ==
    ASSUME Inv, Woken("waiter"), NEW record \in TaskType, Became("waiter", record),
           UNCHANGED <<native, answered, telling, reported, call, ops>>,
           \/ queue' = queue
           \/ queue' = Append(queue, [op |-> "hangup", by |-> "waiter", no |-> 0]),
           \/ record.at = "over" /\ record.fut = "none"
           \/ record.at = "hanging" /\ record.fut = "open" /\ record.out = "none",
           record.no = 0, ~record.expired,
           record.out = "established" => Rank(reported) >= 2,
           record.out = "failed" => native = "closed",
           record.out = "timeout" /\ record.op # "unsent" => native = "closed"
    PROVE  Inv'
<1>1. "dialer" \in Task /\ "waiter" \in Task /\ "ender" \in Task
    BY DEF Task
<1>2. queue \in Seq(Order) /\ [op |-> "hangup", by |-> "waiter", no |-> 0] \in Order
    BY DEF Inv, TypeOK, Order, Task
<1>3. /\ queue' \in Seq(Order) /\ Len(queue) \in Nat
      /\ Len(queue') = Len(queue) \/ Len(queue') = Len(queue) + 1
      /\ \A i \in 1 .. Len(queue) : queue'[i] = queue[i]
      /\ Len(queue') = Len(queue) + 1 =>
            queue'[Len(queue) + 1].op = "hangup" /\ queue'[Len(queue) + 1].by = "waiter"
  <2>1. CASE queue' = queue
      BY <1>2, <2>1
  <2>2. CASE queue' = Append(queue, [op |-> "hangup", by |-> "waiter", no |-> 0])
      BY <1>2, <2>2, AppendFacts
  <2> QED BY <2>1, <2>2
<1>4. Undialled => Undialled'
    BY <1>3 DEF Undialled
<1>5. call' \in CallType
    BY DEF Inv, TypeOK, CallType
<1>6. TypeOK' /\ ShapeInv' /\ WakeInv' /\ EventInv' /\ DoneInv'
    BY <1>1, <1>3, <1>4, <1>5, Resume DEF Exists
<1>7. /\ task' \in [Task -> TaskType] /\ task'["waiter"] = record
      /\ \A u \in Task : u # "waiter" => task'[u] = task[u]
    BY <1>1, TaskTypes DEF Inv
<1>8. task'["ender"] = task["ender"] /\ task'["dialer"] = task["dialer"]
    BY <1>1, <1>7
<1>9. TaskInv'
  <2>1. \A t \in Task :
          /\ task'[t].at \notin Blocked => task'[t].fut = "none"
          /\ task'[t].at \in Blocked => task'[t].fut # "none"
          /\ task'[t].at # "over" => task'[t].out = "none"
          /\ task'[t].fut = "cancelled" => task'[t].expired
      BY <1>7 DEF Inv, TaskInv, Blocked
  <2> QED BY <1>7, <1>8, <2>1 DEF Inv, TaskInv
<1>10. Exists
  <2>1. task["waiter"].at \in Blocked
      BY <1>1, WokenFacts
  <2> QED BY <2>1 DEF Inv, CallInv, Blocked
<1>11. QueueInv'
  <2>1. ASSUME NEW i \in 1 .. Len(queue')
        PROVE  /\ queue'[i].by = "dialer" <=> queue'[i].op = "dial"
               /\ queue'[i].by = "dialer" => i \in 1 .. Len(queue) /\ native = "none" /\ Dialled
               /\ queue'[i].by = "waiter" => Exists /\ queue'[i].op = "hangup"
               /\ queue'[i].by = "ender" =>
                     /\ Exists /\ queue'[i].no < ops
                     /\ task["ender"].at = "awaiting" /\ task["ender"].no = queue'[i].no
                           => task["ender"].op = queue'[i].op
    <3>1. CASE i \in 1 .. Len(queue)
        BY <1>3, <3>1 DEF Inv, QueueInv
    <3>2. CASE i \notin 1 .. Len(queue)
      <4>1. i = Len(queue) + 1 /\ Len(queue') = Len(queue) + 1
          BY <1>3, <3>2
      <4> QED BY <1>3, <1>10, <4>1
    <3> QED BY <3>1, <3>2
  <2>2. \A i, j \in 1 .. Len(queue') : queue'[i].by = "dialer" /\ queue'[j].by = "dialer" => i = j
      BY <1>3, <2>1 DEF Inv, QueueInv
  <2>3. Dialled' = Dialled /\ Exists' = Exists
      BY <1>8 DEF Dialled, Exists
  <2> QED BY <1>8, <2>1, <2>2, <2>3 DEF QueueInv
<1>12. CallInv'
    BY <1>7, <1>8, <1>10 DEF Inv, CallInv, Dialled, Exists
<1>13. VerdictInv'
  <2>1. Rank(reported) >= 2 => native \in {"established", "closed"}
    <3>1. Rank(reported) <= Rank(native) /\ native \in State \cup {"none"} /\ reported \in State \cup {"none"}
        BY DEF Inv, EventInv, TypeOK
    <3> QED BY <3>1, Ranks
  <2> QED BY <1>4, <1>7, <1>8, <2>1 DEF Inv, VerdictInv, VerdictIsTrue, Exists, Live
<1> QED BY <1>6, <1>9, <1>11, <1>12, <1>13 DEF Inv

LEMMA WaitReturnsInv ==
    ASSUME Inv, WaitReturns
    PROVE  Inv'
<1> USE DEF nativeVars
<1>1. /\ Woken("waiter") /\ task["waiter"].at = "waiting"
      /\ UNCHANGED <<native, answered, telling, reported, call, ops>>
    BY DEF WaitReturns
<1>2. "waiter" \in Task
    BY DEF Task
<1>3. CASE task["waiter"].expired
  <2>1. CASE /\ queue' = Append(queue, [op |-> "hangup", by |-> "waiter", no |-> 0])
             /\ Became("waiter", Suspended("hanging", "none", 0))
    <3> DEFINE record == Suspended("hanging", "none", 0)
    <3>1. /\ record \in TaskType /\ record.at = "hanging" /\ record.fut = "open" /\ record.no = 0
          /\ ~record.expired /\ record.out = "none"
      <4>1. "hanging" \in Blocked /\ 0 \in 0 .. MaxOps
          BY DEF Blocked
      <4> QED BY <4>1, SuspendedType
    <3> HIDE DEF record
    <3> QED BY <1>1, <2>1, <3>1, WaiterBecame DEF record
  <2>2. CASE /\ queue' = queue
             /\ Became("waiter", Finished("unsent", "timeout"))
    <3> DEFINE record == Finished("unsent", "timeout")
    <3>1. /\ record \in TaskType /\ record.at = "over" /\ record.fut = "none" /\ record.no = 0
          /\ ~record.expired /\ record.op = "unsent" /\ record.out = "timeout"
      <4>1. "timeout" \in Outcome
          BY DEF Outcome
      <4> QED BY <4>1, FinishedType
    <3>2. Became("waiter", record)
        BY <2>2
    <3> HIDE DEF record
    <3> QED BY <1>1, <2>2, <3>1, <3>2, WaiterBecame
  <2> QED BY <1>3, <2>1, <2>2 DEF WaitReturns
<1>4. CASE ~task["waiter"].expired
  <2> DEFINE o == IF task["waiter"].fut = "established" THEN "established" ELSE "failed"
             record == Finished("none", o)
  <2>1. Became("waiter", record) /\ queue' = queue
      BY <1>4 DEF WaitReturns
  <2>2. task["waiter"].fut \in {"established", "closed"}
      BY <1>1, <1>2, <1>4, WokenFacts DEF Inv, TaskInv
  <2>3. /\ o = "established" => Rank(reported) >= 2
        /\ o = "failed" => native = "closed"
    <3>1. task["waiter"].fut = "closed" => native = "closed"
      <4>1. Rank(reported) <= Rank(native) /\ native \in State \cup {"none"}
          BY DEF Inv, EventInv, TypeOK
      <4>2. Rank(native) \in 0 .. 3 /\ Rank("closed") = 3 /\ (Rank(native) = 3 => native = "closed")
          BY <4>1, Ranks
      <4> QED BY <1>1, <4>1, <4>2 DEF Inv, VerdictInv
    <3> QED BY <1>1, <2>2, <3>1 DEF Inv, VerdictInv
  <2>4. o \in {"established", "failed"}
      OBVIOUS
  <2> HIDE DEF o
  <2>5. /\ record \in TaskType /\ record.at = "over" /\ record.fut = "none" /\ record.no = 0
        /\ ~record.expired /\ record.out = o
    <3>1. o \in Outcome
        BY <2>4 DEF Outcome
    <3> QED BY <3>1, FinishedType
  <2> HIDE DEF record
  <2> QED BY <1>1, <2>1, <2>3, <2>4, <2>5, WaiterBecame
<1> QED BY <1>3, <1>4

LEMMA HangupReturnsInv ==
    ASSUME Inv, HangupReturns
    PROVE  Inv'
<1> DEFINE p == IF task["waiter"].expired THEN "unsent" ELSE "hangup"
           record == Finished(p, "timeout")
<1>1. /\ Woken("waiter") /\ task["waiter"].at = "hanging" /\ Became("waiter", record)
      /\ UNCHANGED <<native, answered, telling, queue, reported, call, ops>>
    BY DEF HangupReturns, nativeVars
<1>2. "waiter" \in Task
    BY DEF Task
<1>3. p \in {"unsent", "hangup"} /\ (p # "unsent" => native = "closed")
    BY <1>1, <1>2, WokenFacts DEF Inv, TaskInv, VerdictInv
<1> HIDE DEF p
<1>4. /\ record \in TaskType /\ record.at = "over" /\ record.fut = "none" /\ record.no = 0
      /\ ~record.expired /\ record.out = "timeout" /\ record.op = p
  <2>1. "timeout" \in Outcome
      BY DEF Outcome
  <2> QED BY <1>3, <2>1, FinishedType
<1> HIDE DEF record
<1> QED BY <1>1, <1>3, <1>4, WaiterBecame

-----------------------------------------------------------------------------
(* The application begins an operation: nothing of it has happened yet.    *)

LEMMA Begin ==
    ASSUME Inv, NEW t \in Task, task[t].at \notin Blocked, NEW record \in TaskType,
           Became(t, record), UNCHANGED <<native, answered, ready, telling, reported, call>>,
           queue' \in Seq(Order), ops' \in 0 .. MaxOps
    PROVE  /\ TypeOK' /\ ShapeInv' /\ WakeInv'
           /\ task'[t] = record /\ \A u \in Task : u # t => task'[u] = task[u]
<1>1. /\ task' \in [Task -> TaskType] /\ task'[t] = record
      /\ \A u \in Task : u # t => task'[u] = task[u]
    BY TaskTypes DEF Inv
<1>2. TypeOK'
  <2>1. telling' \in Seq(Callback) /\ ready' \in Seq(Callback)
        /\ \A i, j \in 1 .. Len(ready') : ready'[i].kind = "wake" /\ ready'[i] = ready'[j] => i = j
      BY DEF Inv, TypeOK
  <2>2. answered' \in BOOLEAN
      BY DEF Inv, TypeOK
  <2>3. native' \in State \cup {"none"} /\ reported' \in State \cup {"none"}
      BY DEF Inv, TypeOK
  <2>4. call' \in [state : State \cup {"none"}, listens : BOOLEAN, heard : BOOLEAN]
      BY DEF Inv, TypeOK
  <2> QED BY <1>1, <2>1, <2>2, <2>3, <2>4 DEF TypeOK, TaskType, Outcome
<1>3. ShapeInv'
    BY DEF Inv, ShapeInv
<1>4. WakeInv'
  <2>1. ASSUME NEW i \in 1 .. Len(ready), ready[i].kind = "wake"
        PROVE  task'[ready[i].by].at \in Blocked /\ task'[ready[i].by].fut # "open"
    <3>1. ready[i].by \in Task
        BY <2>1, Elements, Kinds DEF Inv
    <3>2. task[ready[i].by].at \in Blocked /\ task[ready[i].by].fut # "open"
        BY <2>1 DEF Inv, WakeInv
    <3> QED BY <1>1, <3>1, <3>2
  <2> QED BY <2>1 DEF Inv, WakeInv
<1> QED BY <1>1, <1>2, <1>3, <1>4

LEMMA BeginEvents ==
    ASSUME EventInv, UNCHANGED <<native, ready, telling, reported>>, Dialled' = Dialled
    PROVE  EventInv'
BY DEF EventInv, EventsIn

LEMMA BeginDones ==
    ASSUME Inv, UNCHANGED <<native, ready, telling, reported, call>>, Dialled' = Dialled,
           Undialled => Undialled', ops' >= ops, ops' \in Nat,
           task'["ender"] = task["ender"] \/ task'["ender"].at # "awaiting"
               \/ task'["ender"].no = ops
    PROVE  DoneInv'
<1>1. ops \in Nat
    BY DEF Inv, TypeOK
<1>2. \A i \in 1 .. Len(ready) : ready[i].kind = "done" /\ ready[i].by = "ender" =>
          ready[i].no \in Nat /\ ready[i].no < ops
    BY Elements, Kinds DEF Inv, DoneInv, DonesIn
<1>3. \A i \in 1 .. Len(telling) : telling[i].kind = "done" /\ telling[i].by = "ender" =>
          telling[i].no \in Nat /\ telling[i].no < ops
    BY Elements, Kinds DEF Inv, DoneInv, DonesIn
<1>4. DonesIn(ready)'
    BY <1>1, <1>2 DEF Inv, DoneInv, DonesIn, Live, Exists
<1>5. DonesIn(telling)'
    BY <1>1, <1>3 DEF Inv, DoneInv, DonesIn, Live, Exists
<1>6. ASSUME NEW i \in 1 .. Len(ready)
      PROVE  /\ Makes(ready[i]) => reported # "none" \/ Before(ready, i, "outgoing")
             /\ Ends(ready[i])' => call.state = "closed" \/ Before(ready, i, "closed")
  <2>1. Ends(ready[i])' => Ends(ready[i])
      BY <1>2 DEF Ends
  <2> QED BY <2>1 DEF Inv, DoneInv
<1>7. ASSUME NEW i \in 1 .. Len(telling)
      PROVE  /\ Makes(telling[i]) => \/ reported # "none" \/ Reports(ready, "outgoing")
                                     \/ Before(telling, i, "outgoing")
             /\ Ends(telling[i])' => \/ call.state = "closed" \/ Reports(ready, "closed")
                                     \/ Before(telling, i, "closed")
  <2>1. Ends(telling[i])' => Ends(telling[i])
      BY <1>3 DEF Ends
  <2> QED BY <2>1 DEF Inv, DoneInv
<1> QED BY <1>4, <1>5, <1>6, <1>7 DEF DoneInv, Makes

(* A command is pushed, or refused. *)
LEMMA AwaitFacts ==
    ASSUME TypeOK, NEW c \in Order, Await(c)
    PROVE  /\ queue' \in Seq(Order) /\ Len(queue) \in Nat
           /\ \/ /\ Became(c.by, Suspended("awaiting", c.op, c.no))
                 /\ Len(queue') = Len(queue) + 1 /\ queue'[Len(queue) + 1] = c
                 /\ \A i \in 1 .. Len(queue) : queue'[i] = queue[i]
              \/ Became(c.by, Finished(c.op, "rejected")) /\ queue' = queue
<1>1. queue \in Seq(Order)
    BY DEF TypeOK
<1> QED BY <1>1, AppendFacts DEF Await

LEMMA DialInv ==
    ASSUME Inv, Dial
    PROVE  Inv'
<1> DEFINE c == [op |-> "dial", by |-> "dialer", no |-> 0]
<1>1. /\ native = "none" /\ ~Exists /\ task["dialer"].at = "idle" /\ Await(c)
      /\ UNCHANGED <<native, answered, telling, ready, reported, call, ops>>
    BY DEF Dial, nativeVars
<1>2. /\ c \in Order /\ c.op = "dial" /\ c.by = "dialer" /\ c.no = 0
      /\ "dialer" \in Task /\ "waiter" \in Task /\ "ender" \in Task
    BY DEF Order, Task
<1> HIDE DEF c
<1>3. /\ queue' \in Seq(Order) /\ Len(queue) \in Nat
      /\ \/ /\ Became("dialer", Suspended("awaiting", "dial", 0))
            /\ Len(queue') = Len(queue) + 1 /\ queue'[Len(queue) + 1] = c
            /\ \A i \in 1 .. Len(queue) : queue'[i] = queue[i]
         \/ Became("dialer", Finished("dial", "rejected")) /\ queue' = queue
    BY <1>1, <1>2, AwaitFacts DEF Inv
<1>4. PICK record \in TaskType :
          /\ Became("dialer", record)
          /\ \/ /\ record.at = "awaiting" /\ record.fut = "open" /\ record.out = "none"
                /\ Len(queue') = Len(queue) + 1 /\ queue'[Len(queue) + 1] = c
                /\ \A i \in 1 .. Len(queue) : queue'[i] = queue[i]
             \/ record.at = "over" /\ record.fut = "none" /\ record.out = "rejected" /\ queue' = queue
          /\ ~record.expired /\ record.no = 0
  <2>1. "awaiting" \in Blocked /\ 0 \in 0 .. MaxOps /\ "rejected" \in Outcome
      BY DEF Blocked, Outcome
  <2>2. CASE Became("dialer", Suspended("awaiting", "dial", 0))
             /\ Len(queue') = Len(queue) + 1 /\ queue'[Len(queue) + 1] = c
             /\ \A i \in 1 .. Len(queue) : queue'[i] = queue[i]
    <3> DEFINE record == Suspended("awaiting", "dial", 0)
    <3>1. /\ record \in TaskType /\ record.at = "awaiting" /\ record.fut = "open" /\ record.no = 0
          /\ ~record.expired /\ record.out = "none"
        BY <2>1, SuspendedType
    <3> HIDE DEF record
    <3> QED BY <2>2, <3>1 DEF record
  <2>3. CASE Became("dialer", Finished("dial", "rejected")) /\ queue' = queue
    <3> DEFINE record == Finished("dial", "rejected")
    <3>1. /\ record \in TaskType /\ record.at = "over" /\ record.fut = "none" /\ record.no = 0
          /\ ~record.expired /\ record.out = "rejected"
        BY <2>1, FinishedType
    <3> HIDE DEF record
    <3> QED BY <2>3, <3>1 DEF record
  <2> QED BY <1>3, <2>2, <2>3
<1>5. /\ TypeOK' /\ ShapeInv' /\ WakeInv'
      /\ task'["dialer"] = record /\ \A u \in Task : u # "dialer" => task'[u] = task[u]
  <2>1. task["dialer"].at \notin Blocked /\ ops' \in 0 .. MaxOps
      BY <1>1 DEF Blocked, Inv, TypeOK
  <2> QED BY <1>1, <1>2, <1>3, <1>4, <2>1, Begin
<1>6. task'["waiter"] = task["waiter"] /\ task'["ender"] = task["ender"]
    BY <1>2, <1>5
<1>7. ~Dialled /\ Dialled'
    BY <1>1, <1>4, <1>5 DEF Dialled
<1>8. /\ reported = "none"
      /\ \A i \in 1 .. Len(ready) : ready[i].kind # "event"
      /\ \A i \in 1 .. Len(telling) : telling[i].kind # "event"
  <2>1. Rank(native) = 0 /\ Rank(reported) \in 0 .. 3
      BY <1>1, Ranks, Elements DEF Inv
  <2>2. reported = "none"
      BY <2>1, Ranks DEF Inv, EventInv, TypeOK
  <2>3. \A e \in State : Rank(e) \in 0 .. 3 /\ Rank(e) # 0
      BY Ranks DEF State
  <2>4. \A i \in 1 .. Len(ready) : ready[i].kind = "event" => ready[i].ev \in State /\ Rank(ready[i].ev) <= 0
      BY <2>1, Elements, Kinds DEF Inv, EventInv, EventsIn
  <2>5. \A i \in 1 .. Len(telling) : telling[i].kind = "event" => telling[i].ev \in State /\ Rank(telling[i].ev) <= 0
      BY <2>1, Elements, Kinds DEF Inv, EventInv, EventsIn
  <2> QED BY <2>2, <2>3, <2>4, <2>5
<1>9. /\ \A i \in 1 .. Len(ready) : ready[i].kind # "done"
      /\ \A i \in 1 .. Len(telling) : telling[i].kind # "done"
  <2>1. \A i \in 1 .. Len(ready) : ready[i].kind = "done" => ready[i].by \in {"dialer", "waiter", "ender"}
      BY Elements, Kinds DEF Inv, Task
  <2>2. \A i \in 1 .. Len(telling) : telling[i].kind = "done" => telling[i].by \in {"dialer", "waiter", "ender"}
      BY Elements, Kinds DEF Inv, Task
  <2> QED BY <1>1, <1>7, <2>1, <2>2 DEF Inv, DoneInv, DonesIn
<1>10. TaskInv'
  <2>1. \A t \in Task :
          /\ task'[t].at \notin Blocked => task'[t].fut = "none"
          /\ task'[t].at \in Blocked => task'[t].fut # "none"
          /\ task'[t].at # "over" => task'[t].out = "none"
          /\ task'[t].fut = "cancelled" => task'[t].expired
      BY <1>4, <1>5 DEF Inv, TaskInv, Blocked
  <2> QED BY <1>1, <1>4, <1>5, <1>6, <2>1 DEF Inv, TaskInv
<1>11. EventInv'
    BY <1>1, <1>7, <1>8 DEF Inv, EventInv, EventsIn
<1>12. QueueInv' /\ (queue' = queue => Undialled')
  <2>1. \A i \in 1 .. Len(queue) : queue[i].by # "dialer" /\ queue[i].by # "waiter" /\ queue[i].by # "ender"
      BY <1>1, <1>7 DEF Inv, QueueInv
  <2>2. Len(queue) = 0
    <3>1. \A i \in 1 .. Len(queue) : queue[i].by \in {"dialer", "waiter", "ender"}
        BY Elements DEF Inv, Task
    <3>2. 1 \notin 1 .. Len(queue)
        BY <2>1, <3>1
    <3> QED BY <1>3, <3>2
  <2>3. \A i \in 1 .. Len(queue') : queue'[i] = c /\ i = 1
      BY <1>4, <2>2
  <2>4. QueueInv'
      BY <1>1, <1>2, <1>7, <2>3 DEF QueueInv
  <2>5. queue' = queue => Undialled'
      BY <2>2 DEF Undialled
  <2> QED BY <2>4, <2>5
<1>13. DoneInv'
    BY <1>1, <1>9 DEF DoneInv, DonesIn, Makes, Ends
<1>14. CallInv'
    BY <1>1, <1>4, <1>5, <1>6 DEF Inv, CallInv, Exists
<1>15. VerdictInv'
  <2>1. ~Live'
      BY <1>1 DEF Live
  <2> QED BY <1>1, <1>4, <1>5, <1>6, <1>12, <2>1 DEF Inv, VerdictInv, VerdictIsTrue
<1> QED BY <1>5, <1>10, <1>11, <1>12, <1>13, <1>14, <1>15 DEF Inv


LEMMA ActInv ==
    ASSUME Inv, NEW o \in {"answer", "reject", "hangup"}, Act(o)
    PROVE  Inv'
<1> DEFINE c == [op |-> o, by |-> "ender", no |-> ops]
<1>1. /\ Exists /\ task["ender"].at \in {"idle", "over"} /\ ops < MaxOps /\ Await(c) /\ ops' = ops + 1
      /\ UNCHANGED <<native, answered, telling, ready, reported, call>>
    BY DEF Act, nativeVars
<1>2. /\ c \in Order /\ c.op = o /\ c.by = "ender" /\ c.no = ops
      /\ "dialer" \in Task /\ "waiter" \in Task /\ "ender" \in Task
      /\ ops \in 0 .. MaxOps /\ ops' \in 0 .. MaxOps /\ ops' \in Nat /\ ops' >= ops
    BY <1>1 DEF Order, Task, Inv, TypeOK
<1> HIDE DEF c
<1>3. /\ queue' \in Seq(Order) /\ Len(queue) \in Nat
      /\ \/ /\ Became("ender", Suspended("awaiting", o, ops))
            /\ Len(queue') = Len(queue) + 1 /\ queue'[Len(queue) + 1] = c
            /\ \A i \in 1 .. Len(queue) : queue'[i] = queue[i]
         \/ Became("ender", Finished(o, "rejected")) /\ queue' = queue
    BY <1>1, <1>2, AwaitFacts DEF Inv
<1>4. PICK record \in TaskType :
          /\ Became("ender", record) /\ ~record.expired
          /\ \/ /\ record.at = "awaiting" /\ record.fut = "open" /\ record.out = "none"
                /\ record.op = o /\ record.no = ops
                /\ Len(queue') = Len(queue) + 1 /\ queue'[Len(queue) + 1] = c
                /\ \A i \in 1 .. Len(queue) : queue'[i] = queue[i]
             \/ record.at = "over" /\ record.fut = "none" /\ record.out = "rejected" /\ queue' = queue
  <2>1. "awaiting" \in Blocked /\ "rejected" \in Outcome
      BY DEF Blocked, Outcome
  <2>2. CASE Became("ender", Suspended("awaiting", o, ops))
             /\ Len(queue') = Len(queue) + 1 /\ queue'[Len(queue) + 1] = c
             /\ \A i \in 1 .. Len(queue) : queue'[i] = queue[i]
    <3> DEFINE record == Suspended("awaiting", o, ops)
    <3>1. /\ record \in TaskType /\ record.at = "awaiting" /\ record.fut = "open" /\ record.no = ops
          /\ ~record.expired /\ record.op = o /\ record.out = "none"
        BY <1>2, <2>1, SuspendedType
    <3> HIDE DEF record
    <3> QED BY <2>2, <3>1 DEF record
  <2>3. CASE Became("ender", Finished(o, "rejected")) /\ queue' = queue
    <3> DEFINE record == Finished(o, "rejected")
    <3>1. /\ record \in TaskType /\ record.at = "over" /\ record.fut = "none"
          /\ ~record.expired /\ record.out = "rejected"
        BY <2>1, FinishedType
    <3> HIDE DEF record
    <3> QED BY <2>3, <3>1 DEF record
  <2> QED BY <1>3, <2>2, <2>3
<1>5. /\ TypeOK' /\ ShapeInv' /\ WakeInv'
      /\ task'["ender"] = record /\ \A u \in Task : u # "ender" => task'[u] = task[u]
  <2>1. task["ender"].at \notin Blocked
      BY <1>1 DEF Blocked
  <2> QED BY <1>1, <1>2, <1>3, <1>4, <2>1, Begin
<1>6. task'["waiter"] = task["waiter"] /\ task'["dialer"] = task["dialer"]
    BY <1>2, <1>5
<1>7. Dialled' = Dialled /\ Exists' = Exists /\ Live' = Live
    BY <1>1, <1>6 DEF Dialled, Exists, Live
<1>8. Undialled => Undialled'
    BY <1>2, <1>3, <1>4 DEF Undialled
<1>9. EventInv'
    BY <1>1, <1>7, BeginEvents DEF Inv
<1>10. DoneInv'
  <2>1. task'["ender"] = task["ender"] \/ task'["ender"].at # "awaiting" \/ task'["ender"].no = ops
      BY <1>4, <1>5
  <2> QED BY <1>1, <1>2, <1>7, <1>8, <2>1, BeginDones
<1>11. TaskInv'
  <2>1. \A t \in Task :
          /\ task'[t].at \notin Blocked => task'[t].fut = "none"
          /\ task'[t].at \in Blocked => task'[t].fut # "none"
          /\ task'[t].at # "over" => task'[t].out = "none"
          /\ task'[t].fut = "cancelled" => task'[t].expired
      BY <1>4, <1>5 DEF Inv, TaskInv, Blocked
  <2>2. record.at \in {"awaiting", "over"} /\ (record.at = "awaiting" => record.fut = "open" /\ record.op = o /\ record.no < ops')
      BY <1>1, <1>2, <1>4
  <2> QED BY <1>1, <1>2, <1>4, <1>5, <1>6, <2>1, <2>2 DEF Inv, TaskInv
<1>12. QueueInv'
  <2>1. ASSUME NEW i \in 1 .. Len(queue')
        PROVE  /\ queue'[i].by = "dialer" <=> queue'[i].op = "dial"
               /\ queue'[i].by = "dialer" => i \in 1 .. Len(queue) /\ native = "none" /\ Dialled
               /\ queue'[i].by = "waiter" => Exists /\ queue'[i].op = "hangup"
               /\ queue'[i].by = "ender" =>
                     /\ Exists /\ queue'[i].no < ops'
                     /\ record.at = "awaiting" /\ record.no = queue'[i].no => record.op = queue'[i].op
    <3>1. CASE i \in 1 .. Len(queue)
      <4>1. queue'[i] = queue[i] /\ queue[i].no \in 0 .. MaxOps
          BY <1>4, <3>1, Elements DEF Inv
      <4>2. queue[i].by = "ender" => queue[i].no < ops
          BY <3>1 DEF Inv, QueueInv
      <4>3. queue[i].by = "ender" /\ record.at = "awaiting" => record.no # queue'[i].no
          BY <1>2, <1>4, <4>1, <4>2
      <4>4. queue[i].by = "ender" => queue[i].no < ops'
          BY <1>1, <1>2, <4>1, <4>2
      <4> QED BY <1>1, <3>1, <4>1, <4>3, <4>4 DEF Inv, QueueInv
    <3>2. CASE i \notin 1 .. Len(queue)
      <4>1. i = Len(queue) + 1 /\ queue'[i] = c /\ record.op = o
          BY <1>3, <1>4, <3>2
      <4>2. ops < ops'
          BY <1>1, <1>2
      <4> QED BY <1>1, <1>2, <4>1, <4>2
    <3> QED BY <3>1, <3>2
  <2>2. \A i, j \in 1 .. Len(queue') : queue'[i].by = "dialer" /\ queue'[j].by = "dialer" => i = j
    <3>1. \A i \in 1 .. Len(queue') : queue'[i].by = "dialer" => i \in 1 .. Len(queue) /\ queue'[i] = queue[i]
        BY <1>4, <2>1
    <3> QED BY <3>1 DEF Inv, QueueInv
  <2> QED BY <1>1, <1>5, <1>7, <2>1, <2>2 DEF QueueInv
<1>13. CallInv'
    BY <1>1, <1>6, <1>7 DEF Inv, CallInv
<1>14. VerdictInv'
  <2>1. record.out # "ok" /\ record.fut # "ok"
      BY <1>4
  <2> QED BY <1>1, <1>5, <1>6, <1>7, <1>8, <2>1 DEF Inv, VerdictInv, VerdictIsTrue
<1> QED BY <1>5, <1>9, <1>10, <1>11, <1>12, <1>13, <1>14 DEF Inv

LEMMA WaitEstablishedInv ==
    ASSUME Inv, WaitEstablished
    PROVE  Inv'
<1> DEFINE r == CASE call.state = "established" -> Finished("none", "established")
                  [] call.state = "closed"      -> Finished("none", "failed")
                  [] OTHER                      -> Suspended("waiting", "none", 0)
<1>1. /\ Exists /\ task["waiter"].at = "idle" /\ Became("waiter", r)
      /\ UNCHANGED <<native, answered, telling, queue, ready, reported, call, ops>>
    BY DEF WaitEstablished, nativeVars
<1>2. "dialer" \in Task /\ "waiter" \in Task /\ "ender" \in Task
    BY DEF Task
<1>3. PICK record \in TaskType :
          /\ Became("waiter", record) /\ ~record.expired /\ record.no = 0
          /\ \/ /\ record.at = "over" /\ record.fut = "none"
                /\ \/ record.out = "established" /\ call.state = "established"
                   \/ record.out = "failed" /\ call.state = "closed"
             \/ record.at = "waiting" /\ record.fut = "open" /\ record.out = "none"
  <2>1. "waiting" \in Blocked /\ 0 \in 0 .. MaxOps /\ "established" \in Outcome /\ "failed" \in Outcome
      BY DEF Blocked, Outcome
  <2>2. CASE call.state = "established"
    <3> DEFINE record == Finished("none", "established")
    <3>1. /\ record \in TaskType /\ record.at = "over" /\ record.fut = "none" /\ record.no = 0
          /\ ~record.expired /\ record.out = "established"
        BY <2>1, FinishedType
    <3>2. Became("waiter", record)
        BY <1>1, <2>2
    <3> HIDE DEF record
    <3> QED BY <2>2, <3>1, <3>2
  <2>3. CASE call.state = "closed"
    <3> DEFINE record == Finished("none", "failed")
    <3>1. /\ record \in TaskType /\ record.at = "over" /\ record.fut = "none" /\ record.no = 0
          /\ ~record.expired /\ record.out = "failed"
        BY <2>1, FinishedType
    <3>2. Became("waiter", record)
        BY <1>1, <2>3
    <3> HIDE DEF record
    <3> QED BY <2>3, <3>1, <3>2
  <2>4. CASE call.state # "established" /\ call.state # "closed"
    <3> DEFINE record == Suspended("waiting", "none", 0)
    <3>1. /\ record \in TaskType /\ record.at = "waiting" /\ record.fut = "open" /\ record.no = 0
          /\ ~record.expired /\ record.out = "none"
        BY <2>1, SuspendedType
    <3>2. Became("waiter", record)
        BY <1>1, <2>4
    <3> HIDE DEF record
    <3> QED BY <3>1, <3>2
  <2> QED BY <2>2, <2>3, <2>4
<1>4. /\ TypeOK' /\ ShapeInv' /\ WakeInv'
      /\ task'["waiter"] = record /\ \A u \in Task : u # "waiter" => task'[u] = task[u]
  <2>1. task["waiter"].at \notin Blocked /\ queue' \in Seq(Order) /\ ops' \in 0 .. MaxOps
      BY <1>1 DEF Blocked, Inv, TypeOK
  <2> QED BY <1>1, <1>2, <1>3, <2>1, Begin
<1>5. task'["ender"] = task["ender"] /\ task'["dialer"] = task["dialer"]
    BY <1>2, <1>4
<1>6. Dialled' = Dialled /\ Exists' = Exists /\ Live' = Live /\ Undialled' = Undialled
    BY <1>1, <1>5 DEF Dialled, Exists, Live, Undialled
<1>7. EventInv'
    BY <1>1, <1>6, BeginEvents DEF Inv
<1>8. DoneInv'
  <2>1. ops \in Nat
      BY DEF Inv, TypeOK
  <2>2. ops' \in Nat /\ ops' >= ops
      BY <1>1, <2>1
  <2> QED BY <1>1, <1>5, <1>6, <2>2, BeginDones
<1>9. TaskInv'
  <2>1. \A t \in Task :
          /\ task'[t].at \notin Blocked => task'[t].fut = "none"
          /\ task'[t].at \in Blocked => task'[t].fut # "none"
          /\ task'[t].at # "over" => task'[t].out = "none"
          /\ task'[t].fut = "cancelled" => task'[t].expired
      BY <1>3, <1>4 DEF Inv, TaskInv, Blocked
  <2> QED BY <1>1, <1>3, <1>4, <1>5, <2>1 DEF Inv, TaskInv
<1>10. QueueInv'
    BY <1>1, <1>5, <1>6 DEF Inv, QueueInv
<1>11. CallInv'
    BY <1>1, <1>5, <1>6 DEF Inv, CallInv
<1>12. VerdictInv'
  <2>1. call.state \in {"established", "closed"} => reported = call.state
      BY <1>1 DEF Inv, CallInv
  <2>2. native \in State \cup {"none"} /\ Rank(reported) <= Rank(native)
      BY DEF Inv, TypeOK, EventInv
  <2>3. call.state = "established" => native \in {"established", "closed"}
      BY <2>1, <2>2, Ranks
  <2>4. call.state = "closed" => native = "closed"
      BY <2>1, <2>2, Ranks
  <2> QED BY <1>1, <1>3, <1>4, <1>5, <1>6, <2>3, <2>4 DEF Inv, VerdictInv, VerdictIsTrue
<1> QED BY <1>4, <1>7, <1>8, <1>9, <1>10, <1>11, <1>12 DEF Inv

-----------------------------------------------------------------------------
(* The loop runs a callback or not, and a coroutine is scheduled or not:    *)
(* n callbacks are left, k of them having been run, and t may follow.       *)
Moves(k, n, t) ==
    /\ k \in {0, 1} /\ n \in Nat /\ n + k = Len(ready)
    /\ ready' \in Seq(Callback) /\ Len(ready') \in {n, n + 1}
    /\ \A i \in 1 .. n : ready'[i] = ready[i + k] /\ i + k \in 1 .. Len(ready) /\ ready[i + k] \in Callback
    /\ Len(ready') = n + 1 => ready'[n + 1] = Wake(t)

LEMMA Moving ==
    ASSUME TypeOK, NEW t \in Task
    PROVE  /\ ready' = ready \/ ready' = Append(ready, Wake(t)) => Moves(0, Len(ready), t)
           /\ ready # <<>> /\ (ready' = Tail(ready) \/ ready' = Append(Tail(ready), Wake(t)))
                  => Moves(1, Len(ready) - 1, t)
<1>1. ready \in Seq(Callback) /\ Wake(t) \in Callback
    BY Made DEF TypeOK
<1>2. ASSUME ready' = ready \/ ready' = Append(ready, Wake(t))
      PROVE  Moves(0, Len(ready), t)
  <2>1. Len(ready) \in Nat /\ \A i \in 1 .. Len(ready) : ready[i] \in Callback /\ i + 0 = i
      BY <1>1
  <2>2. CASE ready' = ready
      BY <1>1, <2>1, <2>2 DEF Moves
  <2>3. CASE ready' = Append(ready, Wake(t))
      BY <1>1, <2>1, <2>3, AppendFacts DEF Moves
  <2> QED BY <1>2, <2>2, <2>3
<1>3. ASSUME ready # <<>>, ready' = Tail(ready) \/ ready' = Append(Tail(ready), Wake(t))
      PROVE  Moves(1, Len(ready) - 1, t)
  <2> DEFINE s == Tail(ready)
  <2>1. /\ s \in Seq(Callback) /\ Len(s) = Len(ready) - 1 /\ Len(s) \in Nat /\ Len(s) + 1 = Len(ready)
        /\ \A i \in 1 .. Len(s) : s[i] = ready[i + 1] /\ ready[i + 1] \in Callback /\ i + 1 \in 1 .. Len(ready)
      BY <1>1, <1>3, TailFacts
  <2>2. ready' = s \/ ready' = Append(s, Wake(t))
      BY <1>3
  <2> HIDE DEF s
  <2>3. CASE ready' = s
      BY <2>1, <2>3 DEF Moves
  <2>4. CASE ready' = Append(s, Wake(t))
      BY <1>1, <2>1, <2>4, AppendFacts DEF Moves
  <2> QED BY <2>2, <2>3, <2>4
<1> QED BY <1>2, <1>3

LEMMA MovedWakes ==
    ASSUME TypeOK, WakeInv, NEW k \in {0, 1}, NEW n \in Nat, NEW t \in Task, Moves(k, n, t),
           \A u \in Task : /\ task'[u].at = task[u].at
                           /\ task[u].fut # "open" => task'[u].fut # "open",
           Len(ready') = n + 1 => task[t].fut = "open",
           Len(ready') = n + 1 => task'[t].fut # "open" /\ task[t].at \in Blocked
    PROVE  WakeInv'
<1>1. Wake(t).kind = "wake" /\ Wake(t).by = t
    BY Made
<1>2. ASSUME NEW i \in 1 .. Len(ready'), ready'[i].kind = "wake"
      PROVE  /\ ready'[i].by \in Task
             /\ task'[ready'[i].by].at \in Blocked /\ task'[ready'[i].by].fut # "open"
  <2>1. CASE i \in 1 .. n
    <3>1. ready'[i] = ready[i + k] /\ i + k \in 1 .. Len(ready) /\ ready[i + k] \in Callback
        BY <2>1 DEF Moves
    <3>2. ready[i + k].by \in Task /\ ready[i + k].kind = "wake"
        BY <1>2, <3>1, Kinds
    <3>3. task[ready[i + k].by].at \in Blocked /\ task[ready[i + k].by].fut # "open"
        BY <3>1, <3>2 DEF WakeInv
    <3> QED BY <3>1, <3>2, <3>3
  <2>2. CASE i \notin 1 .. n
    <3>1. i = n + 1 /\ Len(ready') = n + 1
        BY <2>2 DEF Moves
    <3> QED BY <1>1, <3>1 DEF Moves
  <2> QED BY <2>1, <2>2
<1>3. \A i \in 1 .. n : Len(ready') = n + 1 => ~(ready'[i].kind = "wake" /\ ready'[i].by = t)
    BY DEF Moves, WakeInv
<1>4. ASSUME NEW i \in 1 .. Len(ready'), NEW j \in 1 .. Len(ready'),
             ready'[i].kind = "wake", ready'[j].kind = "wake", ready'[i].by = ready'[j].by
      PROVE  i = j
  <2>1. CASE i \in 1 .. n /\ j \in 1 .. n
    <3>1. i + k = j + k
        BY <1>4, <2>1 DEF Moves, WakeInv
    <3> QED BY <3>1 DEF Moves
  <2>2. CASE i \notin 1 .. n \/ j \notin 1 .. n
    <3>1. Len(ready') = n + 1 /\ n \in Nat /\ ready'[n + 1] = Wake(t)
        BY <2>2 DEF Moves
    <3>2. i \in 1 .. n \/ i = n + 1
        BY <3>1
    <3>3. j \in 1 .. n \/ j = n + 1
        BY <3>1
    <3> QED BY <1>1, <1>3, <1>4, <2>2, <3>1, <3>2, <3>3
  <2> QED BY <2>1, <2>2
<1> QED BY <1>2, <1>4 DEF WakeInv

LEMMA MovedTypes ==
    ASSUME Inv, WakeInv', ready' \in Seq(Callback), task' \in [Task -> TaskType], call' \in CallType,
           reported' \in State \cup {"none"}, UNCHANGED <<native, answered, queue, telling, ops>>
    PROVE  TypeOK' /\ ShapeInv'
<1>1. ShapeInv'
    BY DEF Inv, ShapeInv
<1>2. \A i, j \in 1 .. Len(ready') : ready'[i].kind = "wake" /\ ready'[i] = ready'[j] => i = j
    BY DEF WakeInv
<1>3. native' \in State \cup {"none"} /\ answered' \in BOOLEAN /\ ops' \in 0 .. MaxOps
    BY DEF Inv, TypeOK
<1>4. queue' \in Seq(Order) /\ telling' \in Seq(Callback)
    BY DEF Inv, TypeOK
<1> QED BY <1>1, <1>2, <1>3, <1>4 DEF TypeOK, TaskType, Outcome, CallType

(* What has been reported once the first k callbacks have been run. *)
Reported(k) == IF k = 1 /\ ready[1].kind = "event" THEN ready[1].ev ELSE reported

LEMMA MovedEvents ==
    ASSUME TypeOK, EventInv, NEW k \in {0, 1}, NEW n \in Nat, NEW t \in Task, Moves(k, n, t),
           UNCHANGED <<native, telling>>, Dialled' = Dialled, reported' = Reported(k)
    PROVE  EventInv'
<1>1. Wake(t).kind = "wake"
    BY Made
<1>2. ASSUME NEW i \in 1 .. Len(ready'), ready'[i].kind = "event"
      PROVE  i \in 1 .. n /\ ready'[i] = ready[i + k] /\ i + k \in 1 .. Len(ready)
  <2>1. i \in 1 .. n
      BY <1>1, <1>2 DEF Moves
  <2> QED BY <2>1 DEF Moves
<1>3. k \in {0, 1} /\ (k = 1 => 1 \in 1 .. Len(ready)) /\ Len(ready) \in Nat
    BY DEF Moves
<1>4. CASE reported' = reported
  <2>1. EventsIn(ready)' /\ EventsIn(telling)'
      BY <1>2, <1>4 DEF EventInv, EventsIn
  <2>2. ASSUME NEW i \in 1 .. Len(ready'), NEW j \in 1 .. Len(ready'),
               ready'[i].kind = "event", ready'[j].kind = "event", i < j
        PROVE  Rank(ready'[i].ev) < Rank(ready'[j].ev)
    <3>1. i + k < j + k
        BY <1>3, <2>2
    <3> QED BY <1>2, <2>2, <3>1 DEF EventInv
  <2>3. \A i \in 1 .. Len(ready'), j \in 1 .. Len(telling) :
            ready'[i].kind = "event" /\ telling[j].kind = "event"
                => Rank(ready'[i].ev) < Rank(telling[j].ev)
      BY <1>2 DEF EventInv
  <2> QED BY <1>4, <2>1, <2>2, <2>3 DEF EventInv
<1>5. CASE reported' # reported
  <2>1. k = 1 /\ ready[1].kind = "event" /\ reported' = ready[1].ev /\ 1 \in 1 .. Len(ready)
      BY <1>3, <1>5 DEF Reported
  <2>2. ASSUME NEW i \in 1 .. Len(ready'), ready'[i].kind = "event"
        PROVE  Rank(reported') < Rank(ready'[i].ev)
    <3>1. ready'[i] = ready[i + 1] /\ i + 1 \in 1 .. Len(ready) /\ 1 < i + 1
        BY <1>2, <2>1, <2>2
    <3> QED BY <2>1, <2>2, <3>1 DEF EventInv
  <2>3. ASSUME NEW i \in 1 .. Len(telling), telling[i].kind = "event"
        PROVE  Rank(reported') < Rank(telling[i].ev)
      BY <2>1, <2>3 DEF EventInv
  <2>4. EventsIn(ready)'
      BY <1>2, <2>2 DEF EventInv, EventsIn
  <2>5. EventsIn(telling)'
      BY <2>3 DEF EventInv, EventsIn
  <2>6. /\ Rank(reported') <= Rank(native)
        /\ native = "incoming" \/ reported' = "incoming" => ~Dialled
        /\ native = "outgoing" \/ reported' = "outgoing" => Dialled
      BY <2>1 DEF EventInv, EventsIn
  <2>7. ASSUME NEW i \in 1 .. Len(ready'), NEW j \in 1 .. Len(ready'),
               ready'[i].kind = "event", ready'[j].kind = "event", i < j
        PROVE  Rank(ready'[i].ev) < Rank(ready'[j].ev)
    <3>1. i + k < j + k
        BY <1>3, <2>7
    <3> QED BY <1>2, <2>7, <3>1 DEF EventInv
  <2>8. \A i \in 1 .. Len(ready'), j \in 1 .. Len(telling) :
            ready'[i].kind = "event" /\ telling[j].kind = "event"
                => Rank(ready'[i].ev) < Rank(telling[j].ev)
      BY <1>2 DEF EventInv
  <2> QED BY <2>4, <2>5, <2>6, <2>7, <2>8 DEF EventInv
<1> QED BY <1>4, <1>5

LEMMA MovedDones ==
    ASSUME TypeOK, DoneInv, NEW k \in {0, 1}, NEW n \in Nat, NEW t \in Task, Moves(k, n, t),
           UNCHANGED <<native, telling, queue, ops>>, Dialled' = Dialled, reported' = Reported(k),
           Exists => Exists', call.state = "closed" => call'.state = "closed",
           k = 1 /\ ready[1].kind = "event" /\ ready[1].ev = "closed" /\ task["ender"].at = "awaiting"
               => call'.state = "closed",
           \A f \in {"at", "no", "op"} : task'["ender"][f] = task["ender"][f]
    PROVE  DoneInv'
<1>0. /\ task'["ender"].at = task["ender"].at /\ task'["ender"].no = task["ender"].no
      /\ task'["ender"].op = task["ender"].op
    OBVIOUS
<1>1. Wake(t).kind = "wake" /\ k \in {0, 1} /\ (k = 1 => 1 \in 1 .. Len(ready))
    BY Made DEF Moves
<1>2. ASSUME NEW i \in 1 .. Len(ready'), ready'[i].kind = "done"
      PROVE  i \in 1 .. n /\ ready'[i] = ready[i + k] /\ i + k \in 1 .. Len(ready) /\ ready[i + k] \in Callback
  <2>1. i \in 1 .. n
      BY <1>1, <1>2 DEF Moves
  <2> QED BY <2>1 DEF Moves
<1>3. DonesIn(ready)'
    BY <1>2 DEF DoneInv, DonesIn, Live, Undialled
<1>4. DonesIn(telling)'
    BY DEF DoneInv, DonesIn, Live, Undialled
<1>5. reported # "none" => reported' # "none"
  <2>1. k = 1 /\ ready[1].kind = "event" => ready[1].ev # "none"
      BY <1>1, Elements, Kinds DEF State
  <2> QED BY <2>1 DEF Reported
<1>6. k = 1 /\ ready[1].kind = "event" => reported' # "none"
    BY <1>1, Elements, Kinds DEF State, Reported
(* an event that was before a callback of the loop's still is, or it has been run *)
<1>7. ASSUME NEW i \in 1 .. n, NEW e, Before(ready, i + k, e)
      PROVE  Before(ready', i, e) \/ (k = 1 /\ ready[1].kind = "event" /\ ready[1].ev = e)
  <2>1. PICK j \in 1 .. (i + k) - 1 : ready[j].kind = "event" /\ ready[j].ev = e
      BY <1>7 DEF Before
  <2>2. i \in Nat /\ n \in Nat /\ j \in Nat
      BY DEF Moves
  <2>3. CASE j - k \in 1 .. n
    <3>1. ready'[j - k] = ready[(j - k) + k] /\ (j - k) + k = j /\ j - k \in 1 .. i - 1
        BY <1>1, <2>1, <2>2, <2>3 DEF Moves
    <3> QED BY <2>1, <3>1 DEF Before
  <2>4. CASE j - k \notin 1 .. n
    <3>1. k = 1 /\ j = 1
        BY <1>1, <2>1, <2>2, <2>4
    <3> QED BY <2>1, <3>1
  <2> QED BY <2>3, <2>4
<1>8. ASSUME NEW e, Reports(ready, e)
      PROVE  Reports(ready', e) \/ (k = 1 /\ ready[1].kind = "event" /\ ready[1].ev = e)
  <2>1. PICK j \in 1 .. Len(ready) : ready[j].kind = "event" /\ ready[j].ev = e
      BY <1>8 DEF Reports
  <2>2. n \in Nat /\ n + k = Len(ready) /\ j \in Nat /\ Len(ready') \in {n, n + 1}
      BY DEF Moves
  <2>3. CASE j - k \in 1 .. n
    <3>1. (j - k) + k = j /\ j - k \in 1 .. Len(ready')
        BY <2>2, <2>3
    <3>2. ready'[j - k] = ready[j]
        BY <2>3, <3>1 DEF Moves
    <3> QED BY <2>1, <3>1, <3>2 DEF Reports
  <2>4. CASE j - k \notin 1 .. n
    <3>1. k = 1 /\ j = 1
        BY <1>1, <2>1, <2>2, <2>4
    <3> QED BY <2>1, <3>1
  <2> QED BY <2>3, <2>4
<1>9. ASSUME NEW i \in 1 .. Len(ready')
      PROVE  /\ Makes(ready'[i]) => reported' # "none" \/ Before(ready', i, "outgoing")
             /\ Ends(ready[i])' => call'.state = "closed" \/ Before(ready', i, "closed")
  <2>1. CASE ready'[i].kind = "done"
    <3>1. i \in 1 .. n /\ ready'[i] = ready[i + k] /\ i + k \in 1 .. Len(ready) /\ ready[i + k] \in Callback
        BY <1>2, <2>1
    <3>2. Makes(ready[i + k]) => reported # "none" \/ Before(ready, i + k, "outgoing")
        BY <3>1 DEF DoneInv
    <3>3. Ends(ready[i + k]) => call.state = "closed" \/ Before(ready, i + k, "closed")
        BY <3>1 DEF DoneInv
    <3>4. Ends(ready[i])' => Ends(ready[i + k]) /\ task["ender"].at = "awaiting"
        BY <1>0, <3>1 DEF Ends
    <3>5. \A e : Before(ready, i + k, e)
                    => Before(ready', i, e) \/ (k = 1 /\ ready[1].kind = "event" /\ ready[1].ev = e)
        BY <1>7, <3>1
    <3> QED BY <1>5, <1>6, <3>1, <3>2, <3>3, <3>4, <3>5
  <2>2. CASE ready'[i].kind # "done"
      BY <2>2 DEF Makes, Ends
  <2> QED BY <2>1, <2>2
<1>10. ASSUME NEW i \in 1 .. Len(telling')
       PROVE  /\ Makes(telling'[i]) => \/ reported' # "none" \/ Reports(ready', "outgoing")
                                       \/ Before(telling', i, "outgoing")
              /\ Ends(telling[i])' => \/ call'.state = "closed" \/ Reports(ready', "closed")
                                      \/ Before(telling', i, "closed")
  <2>1. telling' = telling
      OBVIOUS
  <2>3. Makes(telling[i]) => \/ reported # "none" \/ Reports(ready, "outgoing")
                             \/ Before(telling, i, "outgoing")
      BY <2>1 DEF DoneInv
  <2>4. Ends(telling[i]) => \/ call.state = "closed" \/ Reports(ready, "closed")
                            \/ Before(telling, i, "closed")
      BY <2>1 DEF DoneInv
  <2>5. Ends(telling[i])' => Ends(telling[i]) /\ task["ender"].at = "awaiting"
      BY <1>0, <2>1 DEF Ends
  <2> QED BY <1>5, <1>6, <1>8, <2>1, <2>3, <2>4, <2>5
<1> QED BY <1>3, <1>4, <1>9, <1>10 DEF DoneInv, Makes

(* A future is completed or cancelled: nothing else of its coroutine changes. *)
LEMMA FutureFacts ==
    ASSUME TypeOK, NEW t \in Task, NEW r \in {"cancelled", "ok", "error", "stale", "established", "closed"},
           \/ task' = [task EXCEPT ![t].fut = r]
           \/ task' = [task EXCEPT ![t].expired = TRUE, ![t].fut = r]
    PROVE  /\ task' \in [Task -> TaskType] /\ task'[t].fut = r
           /\ task' = [task EXCEPT ![t].expired = TRUE, ![t].fut = r] => task'[t].expired
           /\ task' = [task EXCEPT ![t].fut = r] => task'[t].expired = task[t].expired
           /\ \A u \in Task : /\ u # t => task'[u] = task[u]
                              /\ task'[u].at = task[u].at /\ task'[u].no = task[u].no
                              /\ task'[u].op = task[u].op /\ task'[u].out = task[u].out
<1>1. task \in [Task -> TaskType]
    BY DEF TypeOK, TaskType, Outcome
<1>2. task[t] \in TaskType
    BY <1>1
<1> DEFINE q == [task[t] EXCEPT !.fut = r]
           p == [task[t] EXCEPT !.expired = TRUE, !.fut = r]
<1>3. /\ q \in TaskType /\ q.fut = r /\ q.expired = task[t].expired
      /\ q.at = task[t].at /\ q.no = task[t].no /\ q.op = task[t].op /\ q.out = task[t].out
    BY <1>2 DEF TaskType
<1>4. /\ p \in TaskType /\ p.fut = r /\ p.expired
      /\ p.at = task[t].at /\ p.no = task[t].no /\ p.op = task[t].op /\ p.out = task[t].out
    BY <1>2 DEF TaskType
<1>5. task' = [task EXCEPT ![t].fut = r] => task' = [task EXCEPT ![t] = q]
    OBVIOUS
<1>6. task' = [task EXCEPT ![t].expired = TRUE, ![t].fut = r] => task' = [task EXCEPT ![t] = p]
    BY <1>1
<1> HIDE DEF p, q
<1>7. ASSUME task' = [task EXCEPT ![t].fut = r]
      PROVE  /\ task' \in [Task -> TaskType] /\ task'[t] = q
             /\ \A u \in Task : u # t => task'[u] = task[u]
    BY <1>1, <1>3, <1>5, <1>7
<1>8. ASSUME task' = [task EXCEPT ![t].expired = TRUE, ![t].fut = r]
      PROVE  /\ task' \in [Task -> TaskType] /\ task'[t] = p
             /\ \A u \in Task : u # t => task'[u] = task[u]
    BY <1>1, <1>4, <1>6, <1>8
<1> QED BY <1>3, <1>4, <1>7, <1>8

(* A Call that exists hears what is still on its way, and has not heard of  *)
(* its end.                                                                  *)
LEMMA Hears ==
    ASSUME Inv, Exists, ready # <<>>, ready[1].kind = "event"
    PROVE  /\ call.listens /\ reported \in {"incoming", "outgoing", "established"}
           /\ ready[1].ev \in {"established", "closed"} /\ call.state # "closed"
           /\ Rank(reported) < Rank(ready[1].ev)
<1>1. ready \in Seq(Callback)
    BY DEF Inv, TypeOK
<1>2. 1 \in 1 .. Len(ready) /\ ready[1] \in Callback
    BY <1>1, TailFacts
<1>3. ready[1].ev \in State /\ Rank(reported) < Rank(ready[1].ev)
    BY <1>2, Kinds DEF Inv, EventInv, EventsIn
<1>4. reported \in State
    BY DEF Inv, CallInv, TypeOK
<1>5. \A e \in State : Rank(e) \in 1 .. 3 /\ (Rank(e) = 1 => e \in {"incoming", "outgoing"}) /\ (Rank(e) = 3 <=> e = "closed")
    BY Ranks DEF State
<1>6. reported # "closed" /\ ready[1].ev \notin {"incoming", "outgoing"}
    BY <1>3, <1>4, <1>5, Ranks
<1>7. call.listens
    BY <1>6 DEF Inv, CallInv
<1>8. call.state # "closed"
    BY <1>6 DEF Inv, CallInv
<1> QED BY <1>3, <1>4, <1>6, <1>7, <1>8 DEF State

LEMMA DispatchEventInv ==
    ASSUME Inv, DispatchEvent
    PROVE  Inv'
<1> DEFINE e == ready[1].ev
<1>1. /\ ready # <<>> /\ ready[1].kind = "event" /\ 1 \in 1 .. Len(ready) /\ Len(ready) \in Nat
      /\ Head(ready) = ready[1] /\ ready[1] \in Callback /\ e \in State
  <2>1. ready \in Seq(Callback) /\ ready # <<>>
      BY DEF Inv, TypeOK, DispatchEvent
  <2>2. Head(ready) = ready[1] /\ ready[1] \in Callback /\ 1 \in 1 .. Len(ready) /\ Len(ready) \in Nat
      BY <2>1, TailFacts
  <2>3. ready[1].kind = "event"
      BY <2>2 DEF DispatchEvent
  <2> QED BY <2>1, <2>2, <2>3, Kinds
<1>2. /\ reported' = e /\ call' = CallAfter(e)
      /\ UNCHANGED <<native, answered, telling, queue, ops>>
      /\ \/ /\ call.listens /\ task["waiter"].at = "waiting" /\ task["waiter"].fut = "open"
            /\ e \in {"established", "closed"}
            /\ task' = [task EXCEPT !["waiter"].fut = e] /\ ready' = Append(Tail(ready), Wake("waiter"))
         \/ task' = task /\ ready' = Tail(ready)
    BY <1>1 DEF DispatchEvent, nativeVars, Completes, Rest
<1>3. "dialer" \in Task /\ "waiter" \in Task /\ "ender" \in Task
    BY DEF Task
<1>4. /\ Rank(reported) < Rank(e) /\ Rank(e) <= Rank(native)
      /\ e = "incoming" => ~Dialled
      /\ e = "outgoing" => Dialled
      /\ Rank(reported) \in 0 .. 3 /\ Rank(e) \in 0 .. 3
      /\ native \in State \cup {"none"} /\ reported \in State \cup {"none"}
    BY <1>1, Ranks DEF Inv, EventInv, EventsIn, TypeOK
<1>5. Exists => /\ call.listens /\ reported \in {"incoming", "outgoing", "established"}
                /\ e \in {"established", "closed"} /\ call.state # "closed"
    BY <1>1, Hears
<1> HIDE DEF e
<1>6. call' \in CallType /\ reported' \in State \cup {"none"}
  <2>1. call.state \in State \cup {"none"} /\ call \in CallType
      BY DEF Inv, TypeOK, CallType
  <2>2. Adopted \in CallType
      BY DEF Adopted, CallType, State
  <2>3. Heard(e) \in CallType
      BY <1>1, <2>1 DEF Heard, CallType
  <2> QED BY <1>1, <1>2, <2>1, <2>2, <2>3 DEF CallAfter
<1>7. /\ ~Exists => call' = (IF e = "incoming" THEN Adopted ELSE call)
      /\ Exists => call' = Heard(e)
    BY <1>2, <1>5 DEF CallAfter, Inv, CallInv
<1>8. /\ Exists => Exists' /\ call'.state = e /\ call'.listens = (e # "closed") /\ call'.heard
      /\ ~Exists /\ e = "incoming" => Exists' /\ call'.state = "incoming" /\ call'.listens
      /\ ~Exists /\ e # "incoming" => ~Exists' /\ call' = call
  <2>1. CASE Exists
    <3>1. call'.state = e /\ call'.listens = (e # "closed") /\ call'.heard
        BY <1>5, <1>7, <2>1 DEF Heard
    <3>2. e # "none"
        BY <1>5, <2>1
    <3> QED BY <2>1, <3>1, <3>2 DEF Exists
  <2>2. CASE ~Exists
      BY <1>7, <2>2 DEF Adopted, Exists
  <2> QED BY <2>1, <2>2
<1>9. /\ task' \in [Task -> TaskType]
      /\ \A u \in Task : /\ u # "waiter" => task'[u] = task[u]
                         /\ task'[u].at = task[u].at /\ task'[u].no = task[u].no
                         /\ task'[u].op = task[u].op /\ task'[u].out = task[u].out
                         /\ task'[u].expired = task[u].expired
      /\ \/ /\ task["waiter"].at = "waiting" /\ task["waiter"].fut = "open"
            /\ e \in {"established", "closed"} /\ task'["waiter"].fut = e
            /\ ready' = Append(Tail(ready), Wake("waiter"))
         \/ task'["waiter"].fut = task["waiter"].fut /\ ready' = Tail(ready)
  <2>1. CASE task' = task /\ ready' = Tail(ready)
    <3>1. task \in [Task -> TaskType]
        BY DEF Inv, TypeOK, TaskType, Outcome
    <3> QED BY <2>1, <3>1
  <2>2. CASE /\ task["waiter"].at = "waiting" /\ task["waiter"].fut = "open"
             /\ e \in {"established", "closed"}
             /\ task' = [task EXCEPT !["waiter"].fut = e] /\ ready' = Append(Tail(ready), Wake("waiter"))
    <3>1. e \in {"cancelled", "ok", "error", "stale", "established", "closed"} /\ TypeOK
        BY <2>2 DEF Inv
    <3>2. /\ task' \in [Task -> TaskType] /\ task'["waiter"].fut = e
          /\ task'["waiter"].expired = task["waiter"].expired
          /\ \A u \in Task : /\ u # "waiter" => task'[u] = task[u]
                             /\ task'[u].at = task[u].at /\ task'[u].no = task[u].no
                             /\ task'[u].op = task[u].op /\ task'[u].out = task[u].out
        BY <1>3, <2>2, <3>1, FutureFacts
    <3>3. \A u \in Task : task'[u].expired = task[u].expired
        BY <3>2
    <3> QED BY <2>2, <3>2, <3>3
  <2> QED BY <1>2, <2>1, <2>2
<1>10. task'["dialer"] = task["dialer"] /\ task'["ender"] = task["ender"] /\ Dialled' = Dialled
       /\ Live' = Live /\ Undialled' = Undialled
    BY <1>2, <1>3, <1>9 DEF Dialled, Live, Undialled
<1>11. Moves(1, Len(ready) - 1, "waiter") /\ Len(ready) - 1 \in Nat
    BY <1>1, <1>2, <1>3, Moving DEF Inv
<1>12. WakeInv'
  <2>1. Len(ready') = (Len(ready) - 1) + 1 =>
            task["waiter"].at = "waiting" /\ task["waiter"].fut = "open" /\ task'["waiter"].fut # "open"
    <3>1. ready \in Seq(Callback)
        BY DEF Inv, TypeOK
    <3>2. Len(Tail(ready)) = Len(ready) - 1
        BY <1>1, <3>1, TailFacts
    <3> QED BY <1>1, <1>9, <3>2
  <2>2. \A u \in Task : task'[u].at = task[u].at /\ (task[u].fut # "open" => task'[u].fut # "open")
      BY <1>9
  <2> QED BY <1>3, <1>11, <2>1, <2>2, MovedWakes DEF Inv, Blocked
<1>13. TypeOK' /\ ShapeInv'
  <2>1. ready' \in Seq(Callback)
      BY <1>11 DEF Moves
  <2> QED BY <1>2, <1>6, <1>9, <1>12, <2>1, MovedTypes
<1>14. reported' = Reported(1)
    BY <1>1, <1>2 DEF Reported, e
<1>15. EventInv'
    BY <1>2, <1>3, <1>10, <1>11, <1>14, MovedEvents DEF Inv
<1>16. DoneInv'
  <2>1. Exists => Exists' /\ call.state # "closed"
      BY <1>5, <1>8
  <2>2. call.state = "closed" => Exists
      BY DEF Exists
  <2>3. ready[1].ev = "closed" /\ task["ender"].at = "awaiting" => call'.state = "closed"
      BY <1>8 DEF Inv, CallInv, e
  <2>4. \A f \in {"at", "no", "op"} : task'["ender"][f] = task["ender"][f]
      BY <1>10
  <2> QED BY <1>2, <1>3, <1>10, <1>11, <1>14, <2>1, <2>2, <2>3, <2>4, MovedDones DEF Inv
<1>17. TaskInv'
  <2>1. \A t \in Task :
          /\ task'[t].at \notin Blocked => task'[t].fut = "none"
          /\ task'[t].at \in Blocked => task'[t].fut # "none"
          /\ task'[t].at # "over" => task'[t].out = "none"
          /\ task'[t].fut = "cancelled" => task'[t].expired
      BY <1>9 DEF Inv, TaskInv, Blocked
  <2> QED BY <1>2, <1>3, <1>9, <1>10, <2>1 DEF Inv, TaskInv
<1>18. QueueInv'
    BY <1>2, <1>8, <1>10 DEF Inv, QueueInv
<1>19. CallInv'
  <2>1. Exists' => Exists \/ e = "incoming"
      BY <1>8
  <2>2. e # "none"
      BY <1>1 DEF State
  <2>3. task'["waiter"].at = task["waiter"].at
      BY <1>3, <1>9
  <2>4. CASE Exists
      BY <1>2, <1>8, <1>10, <2>2, <2>3, <2>4 DEF Inv, CallInv
  <2>5. CASE ~Exists /\ e = "incoming"
      BY <1>2, <1>4, <1>8, <1>10, <2>2, <2>3, <2>5 DEF Inv, CallInv
  <2>6. CASE ~Exists /\ e # "incoming"
      BY <1>2, <1>8, <1>10, <2>2, <2>3, <2>6 DEF Inv, CallInv
  <2> QED BY <2>4, <2>5, <2>6
<1>20. VerdictInv'
  <2>1. reported' # "none" /\ (Exists => Exists' /\ call.state # "closed")
      BY <1>1, <1>2, <1>5, <1>8 DEF State
  <2>2. task["waiter"].at = "waiting" => Exists /\ reported # "closed"
      BY <1>5 DEF Inv, CallInv
  <2>3. task'["waiter"].at = "waiting" =>
            /\ task'["waiter"].fut = "established" => Rank(reported') >= 2
            /\ task'["waiter"].fut = "closed" => reported' = "closed"
    <3>1. CASE task'["waiter"].fut = task["waiter"].fut
      <4>1. task'["waiter"].at = "waiting" /\ task'["waiter"].fut = "established" => Rank(reported) >= 2
          BY <1>3, <1>9, <3>1 DEF Inv, VerdictInv
      <4>2. Rank(reported) >= 2 => Rank(reported') >= 2
          BY <1>2, <1>4
      <4>3. ~(task'["waiter"].at = "waiting" /\ task'["waiter"].fut = "closed")
          BY <1>3, <1>9, <2>2, <3>1 DEF Inv, VerdictInv
      <4> QED BY <4>1, <4>2, <4>3
    <3>2. CASE task'["waiter"].fut = e
        BY <1>2, <3>2, Ranks
    <3> QED BY <1>9, <3>1, <3>2
  <2>4. task'["waiter"].at = "hanging" /\ task'["waiter"].fut \in {"ok", "stale"} => native = "closed"
      BY <1>3, <1>9 DEF Inv, VerdictInv
  <2>5. task["ender"].at # "idle" => Exists
      BY DEF Inv, CallInv
  <2>6. VerdictIsTrue'
    <3>1. ~(task["ender"].out = "ok" /\ task["ender"].op \in {"hangup", "reject"})
      <4>1. task["ender"].out = "ok" => Exists
          BY <1>3, <2>5 DEF Inv, TaskInv
      <4> QED BY <2>1, <4>1 DEF Inv, VerdictInv, VerdictIsTrue
    <3>2. task'["waiter"].out = task["waiter"].out /\ task'["waiter"].op = task["waiter"].op
        BY <1>3, <1>9
    <3> QED BY <1>2, <1>10, <3>1, <3>2 DEF Inv, VerdictInv, VerdictIsTrue
  <2>7. ~(task["ender"].at = "awaiting" /\ task["ender"].fut = "ok" /\ task["ender"].op # "answer")
      BY <2>1, <2>5 DEF Inv, VerdictInv
  <2>8. task["dialer"].out = "ok" => Exists'
      BY <2>1 DEF Inv, VerdictInv
  <2>9. /\ task["dialer"].fut = "error" \/ task["dialer"].out \in {"rejected", "raised"} => ~Live'
        /\ task["dialer"].fut \in {"ok", "error"} \/ task["dialer"].out \in {"ok", "rejected", "raised"}
              => Undialled'
      BY <1>10 DEF Inv, VerdictInv
  <2> QED BY <1>2, <1>10, <2>1, <2>3, <2>4, <2>6, <2>7, <2>8, <2>9 DEF VerdictInv
<1> QED BY <1>12, <1>13, <1>15, <1>16, <1>17, <1>18, <1>19, <1>20 DEF Inv

LEMMA DispatchDoneInv ==
    ASSUME Inv, DispatchDone, UNCHANGED <<nativeVars, reported, call, ops>>
    PROVE  Inv'
<1> DEFINE d == ready[1]
           due == /\ task[d.by].at \in {"awaiting", "hanging"} /\ task[d.by].fut = "open"
                  /\ task[d.by].no = d.no
<1>1. /\ ready # <<>> /\ d.kind = "done" /\ 1 \in 1 .. Len(ready) /\ Len(ready) \in Nat
      /\ Head(ready) = d /\ d \in Callback /\ d.by \in Task /\ d.res \in {"ok", "error", "stale"}
      /\ Len(Tail(ready)) = Len(ready) - 1
  <2>1. ready \in Seq(Callback) /\ ready # <<>>
      BY DEF Inv, TypeOK, DispatchDone
  <2>2. /\ Head(ready) = d /\ d \in Callback /\ 1 \in 1 .. Len(ready) /\ Len(ready) \in Nat
        /\ Len(Tail(ready)) = Len(ready) - 1
      BY <2>1, TailFacts
  <2>3. d.kind = "done"
      BY <2>2 DEF DispatchDone
  <2> QED BY <2>1, <2>2, <2>3, Kinds
<1>2. /\ UNCHANGED <<native, answered, telling, queue, reported, call, ops>>
      /\ \/ /\ due /\ task' = [task EXCEPT ![d.by].fut = d.res]
            /\ ready' = Append(Tail(ready), Wake(d.by))
         \/ task' = task /\ ready' = Tail(ready)
    BY <1>1 DEF DispatchDone, nativeVars, Completes, Rest
<1>3. "dialer" \in Task /\ "waiter" \in Task /\ "ender" \in Task
    BY DEF Task
<1>4. /\ d.by = "dialer" =>
            /\ Undialled
            /\ d.res = "ok" \/ (d.res = "error" /\ ~Live)
            /\ d.res = "ok" => reported # "none"
      /\ d.by = "waiter" => native = "closed" /\ d.res \in {"ok", "stale"}
      /\ Ends(d) => call.state = "closed"
  <2>1. \A x : ~Before(ready, 1, x)
      BY DEF Before
  <2>2. Makes(d) => reported # "none"
      BY <1>1, <2>1 DEF Inv, DoneInv
  <2>3. Ends(d) => call.state = "closed"
      BY <1>1, <2>1 DEF Inv, DoneInv
  <2>4. d.by = "dialer" => Undialled /\ (d.res = "ok" \/ (d.res = "error" /\ ~Live))
      BY <1>1 DEF Inv, DoneInv, DonesIn
  <2>5. d.by = "waiter" => native = "closed" /\ d.res \in {"ok", "stale"}
      BY <1>1 DEF Inv, DoneInv, DonesIn
  <2> QED BY <1>1, <2>2, <2>3, <2>4, <2>5 DEF Makes
<1>5. reported' = Reported(1)
    BY <1>1, <1>2 DEF Reported
<1> HIDE DEF d
<1>6. /\ task' \in [Task -> TaskType]
      /\ \A u \in Task : /\ u # d.by => task'[u] = task[u]
                         /\ task'[u].at = task[u].at /\ task'[u].no = task[u].no
                         /\ task'[u].op = task[u].op /\ task'[u].out = task[u].out
                         /\ task'[u].expired = task[u].expired
      /\ \/ due /\ task'[d.by].fut = d.res /\ ready' = Append(Tail(ready), Wake(d.by))
         \/ task'[d.by].fut = task[d.by].fut /\ ready' = Tail(ready)
  <2>1. CASE task' = task /\ ready' = Tail(ready)
    <3>1. task \in [Task -> TaskType]
        BY DEF Inv, TypeOK, TaskType, Outcome
    <3> QED BY <2>1, <3>1
  <2>2. CASE due /\ task' = [task EXCEPT ![d.by].fut = d.res] /\ ready' = Append(Tail(ready), Wake(d.by))
    <3>1. d.res \in {"cancelled", "ok", "error", "stale", "established", "closed"} /\ TypeOK
        BY <1>1 DEF Inv
    <3>2. /\ task' \in [Task -> TaskType] /\ task'[d.by].fut = d.res
          /\ task'[d.by].expired = task[d.by].expired
          /\ \A u \in Task : /\ u # d.by => task'[u] = task[u]
                             /\ task'[u].at = task[u].at /\ task'[u].no = task[u].no
                             /\ task'[u].op = task[u].op /\ task'[u].out = task[u].out
        BY <1>1, <2>2, <3>1, FutureFacts
    <3>3. \A u \in Task : task'[u].expired = task[u].expired
        BY <3>2
    <3> QED BY <2>2, <3>2, <3>3
  <2> QED BY <1>2, <2>1, <2>2
<1>7. \A u \in Task : \/ task'[u].fut = task[u].fut
                       \/ /\ u = d.by /\ task[u].at \in {"awaiting", "hanging"} /\ task[u].fut = "open"
                          /\ task[u].no = d.no /\ task'[u].fut = d.res
    BY <1>6
<1>8. Dialled' = Dialled /\ Live' = Live /\ Undialled' = Undialled /\ Exists' = Exists
    BY <1>2, <1>3, <1>6 DEF Dialled, Live, Undialled, Exists
<1>9. Moves(1, Len(ready) - 1, d.by) /\ Len(ready) - 1 \in Nat
    BY <1>1, <1>2, Moving DEF Inv
<1>10. WakeInv'
  <2>1. Len(ready') = (Len(ready) - 1) + 1 => due /\ task'[d.by].fut # "open"
      BY <1>1, <1>6
  <2>2. \A u \in Task : task'[u].at = task[u].at /\ (task[u].fut # "open" => task'[u].fut # "open")
      BY <1>6, <1>7
  <2> QED BY <1>1, <1>9, <2>1, <2>2, MovedWakes DEF Inv, Blocked
<1>11. TypeOK' /\ ShapeInv'
  <2>1. ready' \in Seq(Callback) /\ call' \in CallType /\ reported' \in State \cup {"none"}
      BY <1>2, <1>9 DEF Moves, Inv, TypeOK, CallType
  <2> QED BY <1>2, <1>6, <1>10, <2>1, MovedTypes
<1>12. EventInv'
    BY <1>1, <1>2, <1>5, <1>8, <1>9, MovedEvents DEF Inv
<1>13. DoneInv'
  <2>1. \A f \in {"at", "no", "op"} : task'["ender"][f] = task["ender"][f]
      BY <1>3, <1>6
  <2>2. Exists => Exists'
      BY <1>8
  <2>3. ready[1].kind # "event"
      BY <1>1 DEF d
  <2> QED BY <1>1, <1>2, <1>5, <1>8, <1>9, <2>1, <2>2, <2>3, MovedDones DEF Inv
<1>14. TaskInv'
  <2>1. \A t \in Task :
          /\ task'[t].at \notin Blocked => task'[t].fut = "none"
          /\ task'[t].at \in Blocked => task'[t].fut # "none"
          /\ task'[t].at # "over" => task'[t].out = "none"
          /\ task'[t].fut = "cancelled" => task'[t].expired
      BY <1>1, <1>6, <1>7 DEF Inv, TaskInv, Blocked
  <2>2. task'["dialer"].at = "awaiting" => task'["dialer"].fut \in {"open", "cancelled", "ok", "error"}
      BY <1>3, <1>4, <1>6, <1>7 DEF Inv, TaskInv
  <2>3. task'["ender"].at = "awaiting" => task'["ender"].fut \in {"open", "cancelled", "ok", "error", "stale"}
      BY <1>1, <1>3, <1>6, <1>7 DEF Inv, TaskInv
  <2>4. task'["waiter"].at = "waiting" => task'["waiter"].fut \in {"open", "cancelled", "established", "closed"}
      BY <1>3, <1>6, <1>7 DEF Inv, TaskInv
  <2>5. task'["waiter"].at = "hanging" => task'["waiter"].fut \in {"open", "cancelled", "ok", "stale"}
      BY <1>3, <1>4, <1>6, <1>7 DEF Inv, TaskInv
  <2> QED BY <1>2, <1>3, <1>6, <2>1, <2>2, <2>3, <2>4, <2>5 DEF Inv, TaskInv
<1>15. QueueInv'
    BY <1>2, <1>3, <1>6, <1>8 DEF Inv, QueueInv
<1>16. CallInv'
    BY <1>2, <1>3, <1>6, <1>8 DEF Inv, CallInv
<1>17. VerdictInv'
  <2>1. /\ task'["dialer"].fut = "ok" => reported # "none"
        /\ task'["dialer"].fut = "error" => ~Live
        /\ task'["dialer"].fut \in {"ok", "error"} => Undialled
    <3>1. CASE task'["dialer"].fut = task["dialer"].fut
        BY <3>1 DEF Inv, VerdictInv
    <3>2. CASE d.by = "dialer" /\ task'["dialer"].fut = d.res
        BY <1>4, <3>2
    <3> QED BY <1>3, <1>7, <3>1, <3>2
  <2>2. task'["waiter"].at = "waiting" => task'["waiter"].fut = task["waiter"].fut
      BY <1>3, <1>6, <1>7
  <2>3. task'["waiter"].at = "hanging" /\ task'["waiter"].fut \in {"ok", "stale"} => native = "closed"
    <3>1. CASE task'["waiter"].fut = task["waiter"].fut
        BY <1>3, <1>6, <3>1 DEF Inv, VerdictInv
    <3>2. CASE d.by = "waiter"
        BY <1>4, <3>2
    <3> QED BY <1>3, <1>7, <3>1, <3>2
  <2>4. task'["ender"].at = "awaiting" /\ task'["ender"].fut = "ok" /\ task'["ender"].op # "answer"
            => call.state = "closed"
    <3>1. CASE task'["ender"].fut = task["ender"].fut
        BY <1>3, <1>6, <3>1 DEF Inv, VerdictInv
    <3>2. CASE d.by = "ender" /\ task["ender"].no = d.no /\ task'["ender"].fut = d.res
        BY <1>1, <1>3, <1>4, <1>6, <3>2 DEF Ends
    <3> QED BY <1>3, <1>7, <3>1, <3>2
  <2>5. /\ task'["dialer"].out = task["dialer"].out /\ task'["waiter"].out = task["waiter"].out
        /\ task'["ender"].out = task["ender"].out /\ task'["ender"].op = task["ender"].op
        /\ task'["waiter"].op = task["waiter"].op /\ task'["waiter"].at = task["waiter"].at
      BY <1>3, <1>6
  <2>6. VerdictIsTrue'
      BY <1>2, <2>5 DEF Inv, VerdictInv, VerdictIsTrue
  <2>7. /\ task'["dialer"].out = "ok" => Exists'
        /\ task'["dialer"].out \in {"rejected", "raised"} => ~Live'
        /\ task'["dialer"].out \in {"ok", "rejected", "raised"} => Undialled'
      BY <1>8, <2>5 DEF Inv, VerdictInv
  <2>8. /\ task'["waiter"].at = "waiting" /\ task'["waiter"].fut = "established" => Rank(reported) >= 2
        /\ task'["waiter"].at = "waiting" /\ task'["waiter"].fut = "closed" => reported = "closed"
      BY <2>2, <2>5 DEF Inv, VerdictInv
  <2> QED BY <1>2, <1>8, <2>1, <2>3, <2>4, <2>6, <2>7, <2>8 DEF VerdictInv
<1> QED BY <1>10, <1>11, <1>12, <1>13, <1>14, <1>15, <1>16, <1>17 DEF Inv

LEMMA TimesOutInv ==
    ASSUME Inv, NEW t \in Task, TimesOut(t)
    PROVE  Inv'
<1> DEFINE r == IF task[t].fut = "open" THEN "cancelled" ELSE task[t].fut
<1>1. /\ task[t].at \in Blocked
      /\ task' = [task EXCEPT ![t].expired = TRUE, ![t].fut = r]
      /\ ready' = IF task[t].fut = "open" THEN Append(ready, Wake(t)) ELSE ready
      /\ UNCHANGED <<native, answered, telling, queue, reported, call, ops>>
    BY DEF TimesOut, Expires, nativeVars, Inv, TypeOK
<1>3. "dialer" \in Task /\ "waiter" \in Task /\ "ender" \in Task
    BY DEF Task
<1>4. r \in {"cancelled", "ok", "error", "stale", "established", "closed"}
  <2>1. task[t] \in TaskType /\ task[t].fut # "none"
      BY <1>1 DEF Inv, TypeOK, TaskInv, TaskType, Outcome
  <2> QED BY <2>1 DEF TaskType
<1>5. r # "open" /\ (r = "cancelled" \/ r = task[t].fut)
    BY <1>4
<1> HIDE DEF r
<1>6. /\ task' \in [Task -> TaskType] /\ task'[t].fut = r /\ task'[t].expired
      /\ \A u \in Task : /\ u # t => task'[u] = task[u]
                         /\ task'[u].at = task[u].at /\ task'[u].no = task[u].no
                         /\ task'[u].op = task[u].op /\ task'[u].out = task[u].out
    BY <1>1, <1>4, FutureFacts DEF Inv
<1>7. \A u \in Task : task'[u].fut = task[u].fut \/ task'[u].fut = "cancelled"
    BY <1>5, <1>6
<1>8. Dialled' = Dialled /\ Live' = Live /\ Undialled' = Undialled /\ Exists' = Exists
    BY <1>1, <1>3, <1>6 DEF Dialled, Live, Undialled, Exists
<1>9. Moves(0, Len(ready), t) /\ Len(ready) \in Nat
    BY <1>1, Moving, Elements DEF Inv
<1>10. WakeInv'
  <2>1. Len(ready') = Len(ready) + 1 => task[t].fut = "open"
      BY <1>1, <1>9
  <2>2. \A u \in Task : task'[u].at = task[u].at /\ (task[u].fut # "open" => task'[u].fut # "open")
      BY <1>6, <1>7
  <2>3. task'[t].fut # "open"
      BY <1>5, <1>6
  <2> QED BY <1>1, <1>9, <2>1, <2>2, <2>3, MovedWakes DEF Inv
<1>11. TypeOK' /\ ShapeInv'
  <2>1. ready' \in Seq(Callback) /\ call' \in CallType /\ reported' \in State \cup {"none"}
      BY <1>1, <1>9 DEF Moves, Inv, TypeOK, CallType
  <2> QED BY <1>1, <1>6, <1>10, <2>1, MovedTypes
<1>12. reported' = Reported(0)
    BY <1>1 DEF Reported
<1>13. EventInv'
    BY <1>1, <1>8, <1>9, <1>12, MovedEvents DEF Inv
<1>14. DoneInv'
  <2>1. \A f \in {"at", "no", "op"} : task'["ender"][f] = task["ender"][f]
      BY <1>3, <1>6
  <2>2. Exists => Exists'
      BY <1>8
  <2>3. 0 = 1 /\ ready[1].kind = "event" /\ ready[1].ev = "closed" /\ task["ender"].at = "awaiting"
            => call'.state = "closed"
      OBVIOUS
  <2>4. UNCHANGED <<native, telling, queue, ops>> /\ call' = call
      BY <1>1
  <2>5. Dialled' = Dialled
      BY <1>8
  <2> QED BY <1>9, <1>12, <2>1, <2>2, <2>3, <2>4, <2>5, MovedDones DEF Inv
<1>15. TaskInv'
  <2>1. \A u \in Task :
          /\ task'[u].at \notin Blocked => task'[u].fut = "none"
          /\ task'[u].at \in Blocked => task'[u].fut # "none"
          /\ task'[u].at # "over" => task'[u].out = "none"
          /\ task'[u].fut = "cancelled" => task'[u].expired
    <3> TAKE u \in Task
    <3>1. CASE u = t
        BY <1>1, <1>4, <1>6, <3>1 DEF Inv, TaskInv, Blocked
    <3>2. CASE u # t
        BY <1>6, <3>2 DEF Inv, TaskInv
    <3> QED BY <3>1, <3>2
  <2> QED BY <1>1, <1>3, <1>6, <1>7, <2>1 DEF Inv, TaskInv
<1>16. QueueInv'
    BY <1>1, <1>3, <1>6, <1>8 DEF Inv, QueueInv
<1>17. CallInv'
    BY <1>1, <1>3, <1>6, <1>8 DEF Inv, CallInv
<1>18. VerdictInv'
  <2>1. /\ task'["dialer"].out = task["dialer"].out /\ task'["waiter"].out = task["waiter"].out
        /\ task'["ender"].out = task["ender"].out /\ task'["ender"].op = task["ender"].op
        /\ task'["waiter"].op = task["waiter"].op /\ task'["waiter"].at = task["waiter"].at
        /\ task'["ender"].at = task["ender"].at
      BY <1>3, <1>6
  <2>2. \A s \in {"ok", "error", "stale", "established", "closed"} :
            /\ task'["dialer"].fut = s => task["dialer"].fut = s
            /\ task'["waiter"].fut = s => task["waiter"].fut = s
            /\ task'["ender"].fut = s => task["ender"].fut = s
      BY <1>3, <1>7
  <2>3. VerdictIsTrue'
      BY <1>1, <2>1 DEF Inv, VerdictInv, VerdictIsTrue
  <2>4. /\ task'["dialer"].out = "ok" => Exists'
        /\ task'["dialer"].fut = "error" \/ task'["dialer"].out \in {"rejected", "raised"} => ~Live'
        /\ task'["dialer"].fut \in {"ok", "error"} \/ task'["dialer"].out \in {"ok", "rejected", "raised"}
              => Undialled'
      BY <1>8, <2>1, <2>2 DEF Inv, VerdictInv
  <2>5. /\ task'["waiter"].at = "waiting" /\ task'["waiter"].fut = "established" => Rank(reported) >= 2
        /\ task'["waiter"].at = "waiting" /\ task'["waiter"].fut = "closed" => reported = "closed"
        /\ task'["waiter"].at = "hanging" /\ task'["waiter"].fut \in {"ok", "stale"} => native = "closed"
      BY <2>1, <2>2 DEF Inv, VerdictInv
  <2>6. task'["dialer"].fut = "ok" => reported # "none"
      BY <2>2 DEF Inv, VerdictInv
  <2>7. task'["ender"].at = "awaiting" /\ task'["ender"].fut = "ok" /\ task'["ender"].op # "answer"
            => call.state = "closed"
      BY <2>1, <2>2 DEF Inv, VerdictInv
  <2> QED BY <1>1, <2>3, <2>4, <2>5, <2>6, <2>7 DEF VerdictInv
<1> QED BY <1>10, <1>11, <1>13, <1>14, <1>15, <1>16, <1>17, <1>18 DEF Inv

-----------------------------------------------------------------------------
(* The re thread and the network.                                          *)

LEMMA ReportInv ==
    ASSUME Inv, Report, UNCHANGED <<nativeVars, reported, call, ops>>
    PROVE  Inv'
<1> DEFINE x == telling[1]
           n == Len(ready)
<1>1. /\ telling # <<>> /\ ready' = Append(ready, Head(telling)) /\ telling' = Tail(telling)
      /\ UNCHANGED <<native, answered, queue, task, reported, call, ops>>
    BY DEF Report, nativeVars
<1>2. ready \in Seq(Callback) /\ telling \in Seq(Callback)
    BY DEF Inv, TypeOK
<1>3. /\ telling' \in Seq(Callback) /\ Len(telling') = Len(telling) - 1 /\ Len(telling) \in Nat \ {0}
      /\ Head(telling) = x /\ x \in Callback /\ 1 \in 1 .. Len(telling)
      /\ \A i \in 1 .. Len(telling') : /\ telling'[i] = telling[i + 1] /\ telling[i + 1] \in Callback
                                       /\ i + 1 \in 1 .. Len(telling) /\ i + 1 # 1
    BY <1>1, <1>2, TailFacts
<1>4. /\ ready' \in Seq(Callback) /\ Len(ready') = n + 1 /\ n \in Nat
      /\ \A i \in 1 .. n : ready'[i] = ready[i] /\ ready[i] \in Callback
      /\ ready'[n + 1] = x
    BY <1>1, <1>2, <1>3, AppendFacts
<1>5. x.kind # "wake" /\ \A i \in 1 .. Len(telling') : telling'[i].kind = "done"
    BY <1>3 DEF Inv, ShapeInv
<1>6. ready' = Append(ready, x)
    BY <1>1, <1>3
<1> HIDE DEF n
<1>7. \A i \in 1 .. Len(ready') : i \in 1 .. n \/ i = n + 1
    BY <1>4
<1>8. WakeInv'
  <2>1. \A i \in 1 .. Len(ready') : ready'[i].kind = "wake" => i \in 1 .. n /\ ready'[i] = ready[i]
      BY <1>4, <1>5, <1>7
  <2> QED BY <1>1, <2>1 DEF Inv, WakeInv, n
<1>9. ShapeInv'
  <2>1. Len(telling') <= 2 /\ \A i \in 1 .. Len(telling') : i # 1 => telling'[i].kind = "done"
      BY <1>3, <1>5 DEF Inv, ShapeInv
  <2> QED BY <1>5, <2>1 DEF ShapeInv
<1>10. TypeOK'
  <2>1. \A i, j \in 1 .. Len(ready') : ready'[i].kind = "wake" /\ ready'[i] = ready'[j] => i = j
      BY <1>8 DEF WakeInv
  <2>2. answered' \in BOOLEAN /\ queue' \in Seq(Order) /\ ops' \in 0 .. MaxOps
      BY <1>1 DEF Inv, TypeOK
  <2>3. native' \in State \cup {"none"} /\ reported' \in State \cup {"none"}
      BY <1>1 DEF Inv, TypeOK
  <2>4. call' \in CallType /\ task' \in [Task -> TaskType]
      BY <1>1 DEF Inv, TypeOK, CallType, TaskType, Outcome
  <2> QED BY <1>3, <1>4, <2>1, <2>2, <2>3, <2>4 DEF TypeOK, CallType, TaskType, Outcome
<1>11. EventInv'
  <2>1. EventsIn(ready)'
    <3> SUFFICES ASSUME NEW i \in 1 .. Len(ready'), ready'[i].kind = "event"
                 PROVE  /\ Rank(reported) < Rank(ready'[i].ev) /\ Rank(ready'[i].ev) <= Rank(native)
                        /\ ready'[i].ev = "incoming" => ~Dialled
                        /\ ready'[i].ev = "outgoing" => Dialled
        BY <1>1 DEF EventsIn, Dialled
    <3>1. CASE i \in 1 .. n
        BY <1>4, <3>1 DEF Inv, EventInv, EventsIn, n
    <3>2. CASE i = n + 1
        BY <1>3, <1>4, <3>2 DEF Inv, EventInv, EventsIn
    <3> QED BY <1>7, <3>1, <3>2
  <2>2. EventsIn(telling)'
      BY <1>5 DEF EventsIn
  <2>3. ASSUME NEW i \in 1 .. Len(ready'), NEW j \in 1 .. Len(ready'),
               ready'[i].kind = "event", ready'[j].kind = "event", i < j
        PROVE  Rank(ready'[i].ev) < Rank(ready'[j].ev)
    <3>1. i \in 1 .. n /\ ready'[i] = ready[i]
        BY <1>4, <2>3
    <3>2. CASE j \in 1 .. n
        BY <1>4, <2>3, <3>1, <3>2 DEF Inv, EventInv, n
    <3>3. CASE j = n + 1
        BY <1>3, <1>4, <2>3, <3>1, <3>3 DEF Inv, EventInv, n
    <3> QED BY <1>7, <3>2, <3>3
  <2>4. \A i \in 1 .. Len(ready'), j \in 1 .. Len(telling') :
            ready'[i].kind = "event" /\ telling'[j].kind = "event"
                => Rank(ready'[i].ev) < Rank(telling'[j].ev)
      BY <1>5
  <2> QED BY <1>1, <2>1, <2>2, <2>3, <2>4 DEF Inv, EventInv, Dialled
<1>12. DoneInv'
  <2> DEFINE True(d) ==
          d.kind = "done" =>
              /\ d.by = "dialer" => Dialled /\ Undialled /\ (d.res = "ok" \/ (d.res = "error" /\ ~Live))
              /\ d.by = "waiter" => native = "closed" /\ d.res \in {"ok", "stale"}
              /\ d.by = "ender" => Exists /\ d.no < ops
  <2>1. \A i \in 1 .. n : True(ready[i])
      BY DEF Inv, DoneInv, DonesIn, n
  <2>2. \A i \in 1 .. Len(telling) : True(telling[i])
      BY DEF Inv, DoneInv, DonesIn
  <2>3. (\A i \in 1 .. Len(ready') : True(ready'[i])) /\ (\A i \in 1 .. Len(telling') : True(telling'[i]))
    <3> HIDE DEF True
    <3> QED BY <1>3, <1>4, <1>7, <2>1, <2>2
  <2>4. DonesIn(ready)' /\ DonesIn(telling)'
      BY <1>1, <2>3 DEF DonesIn, Dialled, Undialled, Live, Exists
  <2>5. \A d : Ends(d)' <=> Ends(d)
      BY <1>1 DEF Ends
  <2>6. ASSUME NEW i \in 1 .. Len(ready')
        PROVE  /\ Makes(ready'[i]) => reported # "none" \/ Before(ready', i, "outgoing")
               /\ Ends(ready[i])' => call.state = "closed" \/ Before(ready', i, "closed")
    <3>1. Ends(ready[i])' => Ends(ready'[i])
        BY <1>1 DEF Ends
    <3>2. CASE i \in 1 .. n
      <4>1. /\ Makes(ready[i]) => reported # "none" \/ Before(ready, i, "outgoing")
            /\ Ends(ready[i]) => call.state = "closed" \/ Before(ready, i, "closed")
          BY <3>2 DEF Inv, DoneInv, n
      <4>2. \A e : Before(ready, i, e) => Before(ready', i, e)
          BY <1>2, <1>3, <1>6, <3>2, AppendKeeps DEF n
      <4>3. ready'[i] = ready[i]
          BY <1>4, <3>2
      <4> QED BY <3>1, <4>1, <4>2, <4>3
    <3>3. CASE i = n + 1
      <4>1. \A e : ~Before(telling, 1, e)
          BY DEF Before
      <4>2. /\ Makes(x) => reported # "none" \/ Reports(ready, "outgoing")
            /\ Ends(x) => call.state = "closed" \/ Reports(ready, "closed")
          BY <1>3, <4>1 DEF Inv, DoneInv
      <4>3. \A e : Reports(ready, e) => Before(ready', i, e)
          BY <1>2, <1>3, <1>6, <3>3, AppendKeeps DEF n
      <4>4. ready'[i] = x
          BY <1>4, <3>3
      <4> HIDE DEF x
      <4> QED BY <3>1, <4>2, <4>3, <4>4
    <3> QED BY <1>7, <3>2, <3>3
  <2>7. ASSUME NEW i \in 1 .. Len(telling')
        PROVE  /\ Makes(telling'[i]) => \/ reported # "none" \/ Reports(ready', "outgoing")
                                        \/ Before(telling', i, "outgoing")
               /\ Ends(telling[i])' => \/ call.state = "closed" \/ Reports(ready', "closed")
                                       \/ Before(telling', i, "closed")
    <3>1. telling'[i] = telling[i + 1] /\ i + 1 \in 1 .. Len(telling)
        BY <1>3
    <3>2. /\ Makes(telling[i + 1]) => \/ reported # "none" \/ Reports(ready, "outgoing")
                                      \/ Before(telling, i + 1, "outgoing")
          /\ Ends(telling[i + 1]) => \/ call.state = "closed" \/ Reports(ready, "closed")
                                     \/ Before(telling, i + 1, "closed")
        BY <3>1 DEF Inv, DoneInv
    <3>3. Ends(telling[i])' => Ends(telling[i + 1])
        BY <1>1, <3>1 DEF Ends
    <3>4. \A e : Reports(ready, e) => Reports(ready', e)
        BY <1>2, <1>3, <1>6, AppendKeeps
    <3>5. \A e : Before(telling, i + 1, e) => Before(telling', i, e) \/ Reports(ready', e)
      <4> TAKE e
      <4>1. CASE x.kind = "event" /\ x.ev = e
          BY <1>2, <1>3, <1>6, <4>1, AppendKeeps
      <4>2. CASE ~(x.kind = "event" /\ x.ev = e)
          BY <1>1, <1>2, <4>2, BeforeTail
      <4> QED BY <4>1, <4>2
    <3> QED BY <3>1, <3>2, <3>3, <3>4, <3>5
  <2> QED BY <1>1, <2>4, <2>6, <2>7 DEF DoneInv, Makes
<1>13. TaskInv'
    BY <1>1 DEF Inv, TaskInv
<1>14. QueueInv'
    BY <1>1 DEF Inv, QueueInv, Dialled, Exists
<1>15. CallInv'
    BY <1>1 DEF Inv, CallInv, Dialled, Exists
<1>16. VerdictInv'
    BY <1>1 DEF Inv, VerdictInv, VerdictIsTrue, Live, Undialled, Exists
<1> QED BY <1>8, <1>9, <1>10, <1>11, <1>12, <1>13, <1>14, <1>15, <1>16 DEF Inv

(* The re thread begins to tell of a step of the stack's. *)
LEMMA Told ==
    ASSUME Inv, telling = <<>>, telling' \in Seq(Callback), ShapeInv',
           UNCHANGED <<ready, task, reported, call, ops>>, answered' \in BOOLEAN,
           queue' = queue \/ (queue # <<>> /\ queue' = Tail(queue)),
           native' \in State \cup {"none"}, Rank(native) <= Rank(native'),
           native' = "incoming" => ~Dialled, native' = "outgoing" => Dialled,
           \A i \in 1 .. Len(telling') : telling'[i].kind = "event" =>
               /\ Rank(native) < Rank(telling'[i].ev) /\ Rank(telling'[i].ev) <= Rank(native')
               /\ telling'[i].ev = "incoming" => ~Dialled
               /\ telling'[i].ev = "outgoing" => Dialled,
           Live' /\ ~Live => ~(Dialled /\ Undialled),
           \A i \in 1 .. Len(queue') : queue'[i].by = "dialer" => native' = "none",
           DonesIn(telling)',
           \A i \in 1 .. Len(telling') :
               /\ Makes(telling'[i]) => Before(telling', i, "outgoing")
               /\ Ends(telling[i])' => Before(telling', i, "closed")
    PROVE  Inv'
<1>1. /\ ready \in Seq(Callback) /\ queue \in Seq(Order) /\ native \in State \cup {"none"}
      /\ reported \in State \cup {"none"}
    BY DEF Inv, TypeOK
<1>2. /\ queue' \in Seq(Order)
      /\ \A i \in 1 .. Len(queue') : \E j \in 1 .. Len(queue) : queue'[i] = queue[j]
  <2>1. CASE queue' = queue
      BY <1>1, <2>1
  <2>2. CASE queue # <<>> /\ queue' = Tail(queue)
      BY <1>1, <2>2, TailFacts
  <2> QED BY <2>1, <2>2
<1>3. /\ Undialled => Undialled' 
      /\ Dialled' = Dialled /\ Exists' = Exists
    BY <1>2 DEF Undialled, Dialled, Exists
<1>4. /\ Rank(reported) \in 0 .. 3 /\ Rank(native) \in 0 .. 3 /\ Rank(native') \in 0 .. 3
      /\ native = "closed" => native' = "closed"
      /\ native \in {"established", "closed"} => native' \in {"established", "closed"}
    BY <1>1, Ranks
<1>5. TypeOK'
  <2>1. ready' \in Seq(Callback)
        /\ \A i, j \in 1 .. Len(ready') : ready'[i].kind = "wake" /\ ready'[i] = ready'[j] => i = j
      BY DEF Inv, TypeOK
  <2>2. reported' \in State \cup {"none"} /\ ops' \in 0 .. MaxOps
      BY DEF Inv, TypeOK
  <2>3. call' \in CallType /\ task' \in [Task -> TaskType]
      BY DEF Inv, TypeOK, CallType, TaskType, Outcome
  <2> QED BY <1>2, <2>1, <2>2, <2>3 DEF TypeOK, CallType, TaskType, Outcome
<1>6. TaskInv' /\ WakeInv'
    BY DEF Inv, TaskInv, WakeInv
<1>7. EventInv'
  <2>1. ASSUME NEW i \in 1 .. Len(ready), ready[i].kind = "event"
        PROVE  /\ Rank(reported) < Rank(ready[i].ev) /\ Rank(ready[i].ev) <= Rank(native)
               /\ Rank(ready[i].ev) <= Rank(native') /\ Rank(ready[i].ev) \in 0 .. 3
               /\ ready[i].ev = "incoming" => ~Dialled
               /\ ready[i].ev = "outgoing" => Dialled
    <3>1. ready[i].ev \in State
        BY <1>1, <2>1, Kinds
    <3>2. Rank(ready[i].ev) \in 0 .. 3
        BY <3>1, Ranks
    <3> QED BY <1>4, <2>1, <3>2 DEF Inv, EventInv, EventsIn
  <2>2. Rank(reported) <= Rank(native) /\ (reported = "incoming" => ~Dialled) /\ (reported = "outgoing" => Dialled)
      BY DEF Inv, EventInv
  <2>3. ASSUME NEW i \in 1 .. Len(telling'), telling'[i].kind = "event"
        PROVE  Rank(telling'[i].ev) \in 0 .. 3 /\ Rank(reported) < Rank(telling'[i].ev)
    <3>1. telling'[i].ev \in State
        BY <2>3, Kinds
    <3>2. Rank(telling'[i].ev) \in 0 .. 3
        BY <3>1, Ranks
    <3> QED BY <1>4, <2>2, <2>3, <3>2
  <2>4. EventsIn(ready)'
      BY <1>3, <2>1 DEF EventsIn
  <2>5. EventsIn(telling)'
      BY <1>3, <2>3 DEF EventsIn
  <2>6. ASSUME NEW i \in 1 .. Len(ready), NEW j \in 1 .. Len(telling'),
               ready[i].kind = "event", telling'[j].kind = "event"
        PROVE  Rank(ready[i].ev) < Rank(telling'[j].ev)
      BY <1>4, <2>1, <2>3, <2>6
  <2>7. Rank(reported) <= Rank(native')
      BY <1>4, <2>2
  <2>8. \A i, j \in 1 .. Len(ready) :
          ready[i].kind = "event" /\ ready[j].kind = "event" /\ i < j
              => Rank(ready[i].ev) < Rank(ready[j].ev)
      BY DEF Inv, EventInv
  <2> QED BY <1>3, <2>2, <2>4, <2>5, <2>6, <2>7, <2>8 DEF EventInv
<1>8. QueueInv'
  <2>1. ASSUME NEW i \in 1 .. Len(queue')
        PROVE  /\ queue'[i].by = "dialer" <=> queue'[i].op = "dial"
               /\ queue'[i].by = "dialer" => native' = "none" /\ Dialled
               /\ queue'[i].by = "waiter" => Exists /\ queue'[i].op = "hangup"
               /\ queue'[i].by = "ender" =>
                     /\ Exists /\ queue'[i].no < ops
                     /\ task["ender"].at = "awaiting" /\ task["ender"].no = queue'[i].no
                           => task["ender"].op = queue'[i].op
    <3>1. PICK j \in 1 .. Len(queue) : queue'[i] = queue[j]
        BY <1>2
    <3> QED BY <3>1 DEF Inv, QueueInv
  <2>2. ASSUME NEW i \in 1 .. Len(queue'), NEW j \in 1 .. Len(queue'),
               queue'[i].by = "dialer", queue'[j].by = "dialer"
        PROVE  i = j
    <3>1. CASE queue' = queue
        BY <2>2, <3>1 DEF Inv, QueueInv
    <3>2. CASE queue # <<>> /\ queue' = Tail(queue)
      <4>1. /\ queue'[i] = queue[i + 1] /\ i + 1 \in 1 .. Len(queue)
            /\ queue'[j] = queue[j + 1] /\ j + 1 \in 1 .. Len(queue)
          BY <1>1, <3>2, TailFacts
      <4>2. i + 1 = j + 1
          BY <2>2, <4>1 DEF Inv, QueueInv
      <4> QED BY <4>2
    <3> QED BY <3>1, <3>2
  <2> QED BY <1>3, <2>1, <2>2 DEF QueueInv
<1>9. DoneInv'
  <2>1. ASSUME NEW i \in 1 .. Len(ready), ready[i].kind = "done"
        PROVE  /\ ready[i].by = "dialer" =>
                     /\ Dialled /\ Undialled /\ (ready[i].res = "ok" \/ (ready[i].res = "error" /\ ~Live))
               /\ ready[i].by = "waiter" => native = "closed" /\ ready[i].res \in {"ok", "stale"}
               /\ ready[i].by = "ender" => Exists /\ ready[i].no < ops
      BY <2>1 DEF Inv, DoneInv, DonesIn
  <2>2. Dialled /\ Undialled /\ ~Live => ~Live'
      OBVIOUS
  <2>3. DonesIn(ready)'
      BY <1>3, <1>4, <2>1, <2>2 DEF DonesIn
  <2>4. ASSUME NEW i \in 1 .. Len(ready)
        PROVE  /\ Makes(ready[i]) => reported # "none" \/ Before(ready, i, "outgoing")
               /\ Ends(ready[i])' => call.state = "closed" \/ Before(ready, i, "closed")
    <3>1. Ends(ready[i])' => Ends(ready[i])
        BY DEF Ends
    <3> QED BY <3>1 DEF Inv, DoneInv
  <2> QED BY <2>3, <2>4 DEF DoneInv, Makes
<1>10. CallInv'
    BY <1>3 DEF Inv, CallInv
<1>11. VerdictInv'
  <2>1. (task["dialer"].fut = "error" \/ task["dialer"].out \in {"rejected", "raised"}) => ~Live'
    <3>1. ASSUME task["dialer"].fut = "error" \/ task["dialer"].out \in {"rejected", "raised"}
          PROVE  ~Live /\ Undialled /\ Dialled
      <4>1. ~Live /\ Undialled
          BY <3>1 DEF Inv, VerdictInv
      <4>2. "dialer" \in Task
          BY DEF Task
      <4>3. Dialled
          BY <3>1, <4>2 DEF Inv, TaskInv, Blocked, Dialled
      <4> QED BY <4>1, <4>3
    <3> QED BY <3>1
  <2>2. VerdictIsTrue'
      BY <1>4 DEF Inv, VerdictInv, VerdictIsTrue
  <2>3. /\ task["dialer"].fut = "ok" => reported # "none"
        /\ task["dialer"].fut \in {"ok", "error"} \/ task["dialer"].out \in {"ok", "rejected", "raised"}
              => Undialled'
        /\ task["dialer"].out = "ok" => Exists'
      BY <1>3 DEF Inv, VerdictInv
  <2>4. /\ task["waiter"].at = "waiting" =>
              /\ task["waiter"].fut = "established" => Rank(reported) >= 2
              /\ task["waiter"].fut = "closed" => reported = "closed"
        /\ task["waiter"].at = "hanging" /\ task["waiter"].fut \in {"ok", "stale"} => native' = "closed"
        /\ task["ender"].at = "awaiting" /\ task["ender"].fut = "ok" /\ task["ender"].op # "answer"
              => call.state = "closed"
      BY <1>4 DEF Inv, VerdictInv
  <2> QED BY <2>1, <2>2, <2>3, <2>4 DEF VerdictInv
<1> QED BY <1>5, <1>6, <1>7, <1>8, <1>9, <1>10, <1>11 DEF Inv

(* One callback to be handed over, or an event and a completion. *)
LEMMA OneTold ==
    ASSUME NEW x \in Callback, x.kind # "wake", telling' = <<x>>
    PROVE  /\ telling' \in Seq(Callback) /\ ShapeInv'
           /\ \A i \in 1 .. Len(telling') : telling'[i] = x
<1>1. telling' \in Seq(Callback) /\ Len(telling') = 1 /\ telling'[1] = x
    OBVIOUS
<1>2. ShapeInv'
    BY <1>1 DEF ShapeInv
<1> QED BY <1>1, <1>2

LEMMA TwoTold ==
    ASSUME NEW x \in Callback, NEW y \in Callback, x.kind = "event", y.kind = "done",
           telling' = <<x, y>>
    PROVE  /\ telling' \in Seq(Callback) /\ ShapeInv'
           /\ \A i \in 1 .. Len(telling') :
                 telling'[i] = x \/ (telling'[i] = y /\ Before(telling', i, x.ev))
<1>1. telling' \in Seq(Callback) /\ Len(telling') = 2 /\ telling'[1] = x /\ telling'[2] = y
    OBVIOUS
<1>2. ShapeInv'
    BY <1>1 DEF ShapeInv
<1>3. Before(telling', 2, x.ev)
    BY <1>1 DEF Before
<1>4. \A i \in 1 .. Len(telling') : i = 1 \/ i = 2
    BY <1>1
<1> QED BY <1>1, <1>2, <1>3, <1>4

(* The command the re thread comes to. *)
LEMMA CommandFacts ==
    ASSUME Inv, NEW o, Command(o)
    PROVE  /\ queue # <<>> /\ queue' = Tail(queue) /\ Head(queue) \in Order /\ Head(queue).op \in o
           /\ Head(queue).no \in 0 .. MaxOps /\ Head(queue).by \in Task
           /\ Head(queue).by = "dialer" <=> Head(queue).op = "dial"
           /\ Head(queue).by = "dialer" =>
                 /\ native = "none" /\ Dialled /\ ~Undialled
                 /\ \A i \in 1 .. Len(queue') : queue'[i].by # "dialer"
           /\ Head(queue).by = "waiter" => Exists /\ Head(queue).op = "hangup"
           /\ Head(queue).by = "ender" =>
                 /\ Exists /\ Head(queue).no < ops
                 /\ task["ender"].at = "awaiting" /\ task["ender"].no = Head(queue).no
                       => task["ender"].op = Head(queue).op
<1>1. queue # <<>> /\ queue' = Tail(queue) /\ Head(queue).op \in o /\ queue \in Seq(Order)
    BY DEF Command, Inv, TypeOK
<1>2. /\ Head(queue) = queue[1] /\ queue[1] \in Order /\ 1 \in 1 .. Len(queue)
      /\ \A i \in 1 .. Len(queue') : queue'[i] = queue[i + 1] /\ i + 1 \in 1 .. Len(queue) /\ i + 1 # 1
    BY <1>1, TailFacts
<1>3. queue[1].by = "dialer" =>
          ~Undialled /\ \A i \in 1 .. Len(queue') : queue'[i].by # "dialer"
    BY <1>2 DEF Inv, QueueInv, Undialled
<1>4. queue[1].no \in 0 .. MaxOps /\ queue[1].by \in Task
    BY <1>2 DEF Order
<1>5. /\ queue[1].by = "dialer" <=> queue[1].op = "dial"
      /\ queue[1].by = "dialer" => native = "none" /\ Dialled
      /\ queue[1].by = "waiter" => Exists /\ queue[1].op = "hangup"
      /\ queue[1].by = "ender" =>
            /\ Exists /\ queue[1].no < ops
            /\ task["ender"].at = "awaiting" /\ task["ender"].no = queue[1].no
                  => task["ender"].op = queue[1].op
    BY <1>2 DEF Inv, QueueInv
<1> QED BY <1>1, <1>2, <1>3, <1>4, <1>5

(* Once there was a call, no dial command is on its way. *)
LEMMA NoDialLeft ==
    ASSUME Inv, native # "none", queue' = queue \/ (queue # <<>> /\ queue' = Tail(queue))
    PROVE  \A i \in 1 .. Len(queue') : queue'[i].by # "dialer"
<1>1. \A i \in 1 .. Len(queue) : queue[i].by # "dialer"
    BY DEF Inv, QueueInv
<1>2. queue \in Seq(Order)
    BY DEF Inv, TypeOK
<1>3. \A i \in 1 .. Len(queue') : \E j \in 1 .. Len(queue) : queue'[i] = queue[j]
  <2>1. CASE queue' = queue
      BY <2>1
  <2>2. CASE queue # <<>> /\ queue' = Tail(queue)
      BY <1>2, <2>2, TailFacts
  <2> QED BY <2>1, <2>2
<1> QED BY <1>1, <1>3

(* A Call stands for a call the stack has had. *)
LEMMA HadCall ==
    ASSUME Inv, Exists
    PROVE  native # "none" /\ (~Live => native = "closed")
<1>1. reported \in State /\ native \in State \cup {"none"} /\ Rank(reported) <= Rank(native)
    BY DEF Inv, CallInv, TypeOK, EventInv
<1>2. Rank(reported) \in 0 .. 3 /\ Rank(reported) # 0 /\ Rank("none") = 0
    BY <1>1, Ranks DEF State
<1>3. native # "none"
    BY <1>1, <1>2
<1> QED BY <1>1, <1>3 DEF Live, State

LEMMA HandleDialInv ==
    ASSUME Inv, HandleDial
    PROVE  Inv'
<1> DEFINE c == Head(queue)
<1>1. /\ queue # <<>> /\ queue' = Tail(queue) /\ c \in Order
      /\ c.by = "dialer" /\ native = "none" /\ Dialled /\ ~Undialled
      /\ \A i \in 1 .. Len(queue') : queue'[i].by # "dialer"
  <2>1. Command({"dial"})
      BY DEF HandleDial
  <2> QED BY <2>1, CommandFacts
<1>2. /\ UNCHANGED <<answered, ready, reported, call, task, ops>> /\ telling = <<>>
      /\ \/ native' = "outgoing" /\ telling' = <<Event("outgoing"), Done(c, "ok")>>
         \/ native' \in {"none", "closed"} /\ telling' = <<Done(c, "error")>>
         \/ native' = "closed" /\ telling' = <<Event("outgoing"), Done(c, "error")>>
    BY <1>1 DEF HandleDial, Tells
<1> HIDE DEF c
<1>3. Undialled' /\ Dialled' /\ answered' \in BOOLEAN
    BY <1>1, <1>2 DEF Undialled, Dialled, Inv, TypeOK
<1>4. Rank(native) = 0 /\ native' \in State \cup {"none"} /\ Rank(native') \in 0 .. 3
    BY <1>1, <1>2, Ranks DEF State
<1>5. CASE native' = "outgoing" /\ telling' = <<Event("outgoing"), Done(c, "ok")>>
  <2> DEFINE x == Event("outgoing")
             y == Done(c, "ok")
  <2>1. /\ x \in Callback /\ x.kind = "event" /\ x.ev = "outgoing"
        /\ y \in Callback /\ y.kind = "done" /\ y.by = "dialer" /\ y.res = "ok"
      BY <1>1, Made DEF State
  <2>2. telling' = <<x, y>>
      BY <1>5
  <2> HIDE DEF x, y
  <2>3. /\ telling' \in Seq(Callback) /\ ShapeInv'
        /\ \A i \in 1 .. Len(telling') :
              telling'[i] = x \/ (telling'[i] = y /\ Before(telling', i, "outgoing"))
      BY <2>1, <2>2, TwoTold
  <2>4. DonesIn(telling)'
      BY <1>3, <2>1, <2>3 DEF DonesIn
  <2>5. \A i \in 1 .. Len(telling') :
            /\ Makes(telling'[i]) => Before(telling', i, "outgoing")
            /\ ~Ends(telling[i])'
      BY <2>1, <2>3 DEF Makes, Ends
  <2>6. Rank("outgoing") = 1
      BY Ranks
  <2> QED BY <1>1, <1>2, <1>3, <1>4, <1>5, <2>1, <2>3, <2>4, <2>5, <2>6, Told
<1>6. CASE native' \in {"none", "closed"} /\ telling' = <<Done(c, "error")>>
  <2> DEFINE y == Done(c, "error")
  <2>1. y \in Callback /\ y.kind = "done" /\ y.by = "dialer" /\ y.res = "error"
      BY <1>1, Made
  <2>2. telling' = <<y>>
      BY <1>6
  <2> HIDE DEF y
  <2>3. telling' \in Seq(Callback) /\ ShapeInv' /\ \A i \in 1 .. Len(telling') : telling'[i] = y
      BY <2>1, <2>2, OneTold
  <2>4. ~Live'
      BY <1>6 DEF Live
  <2>5. DonesIn(telling)'
      BY <1>3, <2>1, <2>3, <2>4 DEF DonesIn
  <2>6. \A i \in 1 .. Len(telling') : /\ telling'[i].kind # "event"
                                      /\ ~Makes(telling'[i])
                                      /\ ~Ends(telling[i])'
      BY <2>1, <2>3 DEF Makes, Ends
  <2> QED BY <1>1, <1>2, <1>3, <1>4, <1>6, <2>3, <2>4, <2>5, <2>6, Told
<1>7. CASE native' = "closed" /\ telling' = <<Event("outgoing"), Done(c, "error")>>
  <2> DEFINE x == Event("outgoing")
             y == Done(c, "error")
  <2>1. /\ x \in Callback /\ x.kind = "event" /\ x.ev = "outgoing"
        /\ y \in Callback /\ y.kind = "done" /\ y.by = "dialer" /\ y.res = "error"
      BY <1>1, Made DEF State
  <2>2. telling' = <<x, y>>
      BY <1>7
  <2> HIDE DEF x, y
  <2>3. /\ telling' \in Seq(Callback) /\ ShapeInv'
        /\ \A i \in 1 .. Len(telling') :
              telling'[i] = x \/ (telling'[i] = y /\ Before(telling', i, "outgoing"))
      BY <2>1, <2>2, TwoTold
  <2>4. ~Live'
      BY <1>7 DEF Live
  <2>5. DonesIn(telling)'
      BY <1>3, <2>1, <2>3, <2>4 DEF DonesIn
  <2>6. \A i \in 1 .. Len(telling') : ~Makes(telling'[i]) /\ ~Ends(telling[i])'
      BY <2>1, <2>3 DEF Makes, Ends
  <2>7. Rank("outgoing") = 1 /\ Rank(native') = 3
      BY <1>7, Ranks
  <2> QED BY <1>1, <1>2, <1>3, <1>4, <1>7, <2>1, <2>3, <2>4, <2>5, <2>6, <2>7, Told
<1> QED BY <1>2, <1>5, <1>6, <1>7

LEMMA HandleAnswerInv ==
    ASSUME Inv, HandleAnswer
    PROVE  Inv'
<1> DEFINE c == Head(queue)
<1>1. /\ queue # <<>> /\ queue' = Tail(queue) /\ c \in Order /\ c.by = "ender" /\ c.op = "answer"
      /\ Exists /\ c.no < ops
      /\ task["ender"].at = "awaiting" /\ task["ender"].no = c.no => task["ender"].op = "answer"
  <2>1. Command({"answer"})
      BY DEF HandleAnswer
  <2> QED BY <2>1, CommandFacts DEF Task
<1>2. /\ UNCHANGED <<native, ready, reported, call, task, ops>> /\ telling = <<>> /\ answered' \in BOOLEAN
      /\ \E r \in {"ok", "error", "stale"} : telling' = <<Done(c, r)>>
    BY DEF HandleAnswer, Tells, Inv, TypeOK
<1>3. PICK r \in {"ok", "error", "stale"} : telling' = <<Done(c, r)>>
    BY <1>2
<1> HIDE DEF c
<1> DEFINE y == Done(c, r)
<1>4. y \in Callback /\ y.kind = "done" /\ y.by = "ender" /\ y.no = c.no
    BY <1>1, Made
<1>5. telling' = <<y>>
    BY <1>3
<1> HIDE DEF y
<1>6. telling' \in Seq(Callback) /\ ShapeInv' /\ \A i \in 1 .. Len(telling') : telling'[i] = y
    BY <1>4, <1>5, OneTold
<1>7. DonesIn(telling)'
    BY <1>1, <1>2, <1>4, <1>6 DEF DonesIn, Exists
<1>8. \A i \in 1 .. Len(telling') : /\ telling'[i].kind # "event"
                                    /\ ~Makes(telling'[i])
                                    /\ ~Ends(telling[i])'
    BY <1>1, <1>2, <1>4, <1>6 DEF Makes, Ends
<1>9. /\ native' \in State \cup {"none"} /\ Rank(native) <= Rank(native')
      /\ native' = "incoming" => ~Dialled
      /\ native' = "outgoing" => Dialled
    BY <1>2, Elements DEF Inv, TypeOK, EventInv
<1>10. \A i \in 1 .. Len(queue') : queue'[i].by = "dialer" => native' = "none"
    BY <1>1, HadCall, NoDialLeft
<1>11. Live' => Live
    BY <1>2 DEF Live
<1> QED BY <1>1, <1>2, <1>6, <1>7, <1>8, <1>9, <1>10, <1>11, Told

LEMMA HandleEndInv ==
    ASSUME Inv, HandleEnd
    PROVE  Inv'
<1> DEFINE c == Head(queue)
<1>1. /\ queue # <<>> /\ queue' = Tail(queue) /\ c \in Order /\ c.by \in {"waiter", "ender"}
      /\ Exists /\ (c.by = "ender" => c.no < ops)
  <2>1. Command({"hangup", "reject"})
      BY DEF HandleEnd
  <2> QED BY <2>1, CommandFacts DEF Task
<1>2. /\ UNCHANGED <<answered, ready, reported, call, task, ops>> /\ telling = <<>>
      /\ \/ Live /\ native' = "closed" /\ telling' = <<Event("closed"), Done(c, "ok")>>
         \/ ~Live /\ native' = native /\ telling' = <<Done(c, "stale")>>
    BY DEF HandleEnd, Tells
<1> HIDE DEF c
<1>3. answered' \in BOOLEAN /\ Exists' /\ native # "none" /\ (~Live => native = "closed")
    BY <1>1, <1>2, HadCall DEF Inv, TypeOK, Exists
<1>4. native' = "closed" /\ native' \in State \cup {"none"} /\ ~Live'
    BY <1>2, <1>3 DEF Live, State
<1>5. /\ Rank(native') = 3 /\ Rank(native) \in 0 .. 3 /\ Rank("closed") = 3
      /\ Live => Rank(native) < 3
    BY <1>4, Ranks, Elements DEF Inv, Live
<1>6. \A i \in 1 .. Len(queue') : queue'[i].by # "dialer"
    BY <1>1, <1>3, NoDialLeft
<1>7. CASE Live /\ telling' = <<Event("closed"), Done(c, "ok")>>
  <2> DEFINE x == Event("closed")
             y == Done(c, "ok")
  <2>1. /\ x \in Callback /\ x.kind = "event" /\ x.ev = "closed"
        /\ y \in Callback /\ y.kind = "done" /\ y.by = c.by /\ y.no = c.no /\ y.res = "ok"
      BY <1>1, Made DEF State
  <2>2. telling' = <<x, y>>
      BY <1>7
  <2> HIDE DEF x, y
  <2>3. /\ telling' \in Seq(Callback) /\ ShapeInv'
        /\ \A i \in 1 .. Len(telling') :
              telling'[i] = x \/ (telling'[i] = y /\ Before(telling', i, "closed"))
      BY <2>1, <2>2, TwoTold
  <2>4. DonesIn(telling)'
      BY <1>1, <1>2, <1>3, <1>4, <2>1, <2>3 DEF DonesIn
  <2>5. \A i \in 1 .. Len(telling') :
            /\ ~Makes(telling'[i])
            /\ Ends(telling[i])' => Before(telling', i, "closed")
      BY <1>1, <2>1, <2>3 DEF Makes, Ends
  <2>6. \A i \in 1 .. Len(telling') : telling'[i].kind = "event" =>
            /\ Rank(native) < Rank(telling'[i].ev) /\ Rank(telling'[i].ev) <= Rank(native')
            /\ telling'[i].ev # "incoming" /\ telling'[i].ev # "outgoing"
      BY <1>5, <1>7, <2>1, <2>3
  <2>7. UNCHANGED <<ready, task, reported, call, ops>> /\ Rank(native) <= Rank(native')
      BY <1>2, <1>5
  <2> QED BY <1>1, <1>2, <1>3, <1>4, <1>6, <2>3, <2>4, <2>5, <2>6, <2>7, Told
<1>8. CASE telling' = <<Done(c, "stale")>>
  <2> DEFINE y == Done(c, "stale")
  <2>1. y \in Callback /\ y.kind = "done" /\ y.by = c.by /\ y.no = c.no /\ y.res = "stale"
      BY <1>1, Made
  <2>2. telling' = <<y>>
      BY <1>8
  <2> HIDE DEF y
  <2>3. telling' \in Seq(Callback) /\ ShapeInv' /\ \A i \in 1 .. Len(telling') : telling'[i] = y
      BY <2>1, <2>2, OneTold
  <2>4. DonesIn(telling)'
      BY <1>1, <1>2, <1>3, <1>4, <2>1, <2>3 DEF DonesIn
  <2>5. \A i \in 1 .. Len(telling') : /\ telling'[i].kind # "event"
                                      /\ ~Makes(telling'[i])
                                      /\ ~Ends(telling[i])'
      BY <2>1, <2>3 DEF Makes, Ends
  <2> QED BY <1>1, <1>2, <1>3, <1>4, <1>5, <1>6, <2>3, <2>4, <2>5, Told
<1> QED BY <1>2, <1>7, <1>8

(* The far end moves the call on, which is all that is told. *)
LEMMA NetworkInv ==
    ASSUME Inv, Network
    PROVE  Inv'
<1>1. PICK e \in State :
          /\ native' = e /\ telling = <<>> /\ telling' = <<Event(e)>>
          /\ UNCHANGED <<answered, queue, ready, reported, call, task, ops>>
          /\ Rank(native) < Rank(e)
          /\ e # "outgoing" /\ (e = "incoming" => native = "none" /\ ~Dialled)
          /\ e # "incoming" => Live
  <2>1. CASE Invite
      BY <2>1, Ranks DEF Invite, Tells, State, Dialled
  <2>2. CASE Establish
      BY <2>2, Ranks DEF Establish, Tells, State, Live
  <2>3. CASE FarEnd
      BY <2>3, Ranks DEF FarEnd, Tells, State, Live
  <2> QED BY <2>1, <2>2, <2>3 DEF Network
<1> DEFINE x == Event(e)
<1>2. x \in Callback /\ x.kind = "event" /\ x.ev = e
    BY Made
<1>3. telling' = <<x>>
    BY <1>1
<1> HIDE DEF x
<1>4. telling' \in Seq(Callback) /\ ShapeInv' /\ \A i \in 1 .. Len(telling') : telling'[i] = x
    BY <1>2, <1>3, OneTold
<1>5. /\ DonesIn(telling)' /\ Dialled' = Dialled
      /\ \A i \in 1 .. Len(telling') : ~Makes(telling'[i]) /\ ~Ends(telling[i])'
    BY <1>1, <1>2, <1>4 DEF DonesIn, Makes, Ends, Dialled
<1>6. answered' \in BOOLEAN /\ native' \in State \cup {"none"}
    BY <1>1 DEF Inv, TypeOK
<1>7. Rank(native) \in 0 .. 3 /\ Rank(native') \in 0 .. 3 /\ Rank(native) < Rank(native')
    BY <1>1, Ranks, Elements DEF Inv
<1>8. \A i \in 1 .. Len(queue') : queue'[i].by # "dialer"
  <2>1. CASE native = "none"
      BY <1>1, <2>1 DEF Inv, QueueInv, Live
  <2>2. CASE native # "none"
      BY <1>1, <2>2, NoDialLeft
  <2> QED BY <2>1, <2>2
<1>9. Live' /\ ~Live => ~Dialled
    BY <1>1
<1> QED BY <1>1, <1>2, <1>4, <1>5, <1>6, <1>7, <1>8, <1>9, Told

-----------------------------------------------------------------------------

LEMMA StepInv == Inv /\ [Next]_vars => Inv'
<1> SUFFICES ASSUME Inv, [Next]_vars PROVE Inv'
    OBVIOUS
<1>1. CASE Application
  <2>1. CASE \E o \in {"answer", "reject", "hangup"} : Act(o)
      BY <2>1, ActInv
  <2> QED BY <1>1, <2>1, DialInv, WaitEstablishedInv DEF Application
<1>2. CASE Callbacks
    BY <1>2, DispatchEventInv, DispatchDoneInv, DialReturnsInv, ActReturnsInv, WaitReturnsInv,
       HangupReturnsInv DEF Callbacks
<1>3. CASE ReThread
    BY <1>3, ReportInv, HandleDialInv, HandleAnswerInv, HandleEndInv DEF ReThread
<1>4. CASE Network
    BY <1>4, NetworkInv
<1>5. CASE \E t \in Task : TimesOut(t)
    BY <1>5, TimesOutInv
<1>6. CASE UNCHANGED vars
  <2>1. TypeOK' /\ ShapeInv' /\ TaskInv' /\ WakeInv'
      BY <1>6 DEF vars, nativeVars, loopVars, Inv, TypeOK, ShapeInv, TaskInv, WakeInv
  <2>2. EventInv' /\ QueueInv'
      BY <1>6 DEF vars, nativeVars, loopVars, Inv, EventInv, EventsIn, QueueInv, Dialled, Exists
  <2>3. DoneInv'
      BY <1>6 DEF vars, nativeVars, loopVars, Inv, DoneInv, DonesIn, Dialled, Undialled, Live, Exists,
                  Makes, Ends, Before, Reports
  <2>4. CallInv' /\ VerdictInv'
      BY <1>6 DEF vars, nativeVars, loopVars, Inv, CallInv, VerdictInv, VerdictIsTrue, Dialled,
                  Undialled, Live, Exists
  <2> QED BY <2>1, <2>2, <2>3, <2>4 DEF Inv
<1> QED BY <1>1, <1>2, <1>3, <1>4, <1>5, <1>6 DEF Next

LEMMA Invariance == Spec => []Inv
BY InitInv, StepInv, PTL DEF Spec

-----------------------------------------------------------------------------
(* Current state, as last reported by the stack: a Call's state is the last *)
(* event dispatched, for one born of an event, and for a dialled one from   *)
(* the first event it hears (Call._on_event).                               *)
THEOREM StateIsWhatWasReported == Spec => []StateIsReported
<1>1. Inv => StateIsReported
  <2> SUFFICES ASSUME Inv, Exists, task["dialer"].at = "idle" \/ call.heard
               PROVE  call.state = reported
      BY DEF StateIsReported, Inv
  <2> QED BY DEF Inv, CallInv, Dialled
<1> QED BY <1>1, Invariance, PTL

(* What wait_established(), hangup() and reject() tell their callers is so, *)
(* however the far end, the timeouts and the loop's callbacks interleave.   *)
THEOREM VerdictsAreTrue == Spec => []VerdictIsTrue
<1>1. Inv => VerdictIsTrue
    BY DEF Inv, VerdictInv
<1> QED BY <1>1, Invariance, PTL

(* A dial() that got no Call and did not time out left no live call: not    *)
(* one the table had no room for, and not one that could not be connected   *)
(* (UA_CONNECT's error paths, dial()).                                      *)
THEOREM FailedDialsLeaveNothing == Spec => []OnlyTimeoutsOrphan
<1>1. ASSUME Inv PROVE OnlyTimeoutsOrphan
  <2>1. "dialer" \in Task
      BY DEF Task
  <2>2. task["dialer"].at = "over" => task["dialer"].out \in {"ok", "timeout", "raised", "rejected"}
      BY <1>1 DEF Inv, TaskInv
  <2>3. task["dialer"].out = "ok" => Exists
      BY <1>1 DEF Inv, VerdictInv
  <2>4. task["dialer"].out \in {"raised", "rejected"} => ~Live
      BY <1>1 DEF Inv, VerdictInv
  <2> QED BY <2>2, <2>3, <2>4 DEF OnlyTimeoutsOrphan
<1> QED BY <1>1, Invariance, PTL
=============================================================================
