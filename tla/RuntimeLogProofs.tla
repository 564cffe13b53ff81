--------------------------- MODULE RuntimeLogProofs ---------------------------
(***************************************************************************)
(* Proofs about Runtime.tla, LogCapture.tla and RuntimeLog.tla, which puts *)
(* the two together: for any number of commands, lines and runtimes, every *)
(* range of sequence numbers and every size of the queue and of the ring.  *)
(***************************************************************************)
EXTENDS RuntimeLog, WellFoundedInduction, FiniteSetTheorems, TLAPS

-----------------------------------------------------------------------------
(* Remainders, and the least element of a set of naturals.                 *)

(* Division with remainder. *)
LEMMA DivMod ==
    ASSUME NEW M \in Nat \ {0}, NEW a \in Nat
    PROVE  /\ a \div M \in Int
           /\ a % M \in 0 .. (M - 1)
           /\ a = M * (a \div M) + (a % M)
OBVIOUS

(* Two numbers less than M apart have different remainders. *)
LEMMA ModDistinct ==
    ASSUME NEW M \in Nat \ {0}, NEW a \in Nat, NEW b \in Nat, a < b, b < a + M
    PROVE  a % M # b % M
<1> DEFINE p == a \div M
           q == b \div M
<1>1. p \in Int /\ a % M \in Nat /\ a = M * p + (a % M)
    OBVIOUS
<1>2. q \in Int /\ b % M \in Nat /\ b = M * q + (b % M)
    OBVIOUS
<1> HIDE DEF p, q
<1>3. M * (q - p) = (b - a) + (a % M) - (b % M)
    BY <1>1, <1>2
<1>4. (q - p <= 0 => M * (q - p) <= 0) /\ (q - p >= 1 => M * (q - p) >= M)
    BY <1>1, <1>2
<1> QED BY <1>1, <1>2, <1>3, <1>4

(* A sum of a remainder: a wrapped index may be wrapped before it advances. *)
LEMMA ModSum ==
    ASSUME NEW M \in Nat \ {0}, NEW a \in Nat, NEW b \in Nat
    PROVE  ((a % M) + b) % M = (a + b) % M
<1> DEFINE q == a \div M
           x == a % M
           t == (a + b) \div M
           y == (a + b) % M
           u == (x + b) \div M
           z == (x + b) % M
           d == q + u - t
<1>1. q \in Int /\ x \in 0 .. (M - 1) /\ a = M * q + x
    BY DivMod
<1>2. t \in Int /\ y \in 0 .. (M - 1) /\ a + b = M * t + y
  <2>1. a + b \in Nat
      OBVIOUS
  <2> QED BY <2>1, DivMod
<1>3. u \in Int /\ z \in 0 .. (M - 1) /\ x + b = M * u + z
  <2>1. x + b \in Nat
      BY <1>1
  <2> HIDE DEF x
  <2> QED BY <2>1, DivMod
<1> HIDE DEF q, x, t, u, y, z
<1>4. d \in Int /\ M * d = y - z
    BY <1>1, <1>2, <1>3
<1> HIDE DEF d
<1>5. CASE d >= 1
  <2>1. M * d >= M
      BY <1>4, <1>5
  <2> QED BY <1>2, <1>3, <1>4, <2>1
<1>6. CASE d <= -1
  <2>1. M * d <= -M
      BY <1>4, <1>6
  <2> QED BY <1>2, <1>3, <1>4, <2>1
<1>7. CASE d = 0
  <2>1. y = z
      BY <1>2, <1>3, <1>4, <1>7
  <2> QED BY <2>1 DEF x, y, z
<1> QED BY <1>4, <1>5, <1>6, <1>7

(* Going on from a wrapped index for less than a buffer wraps once at most. *)
LEMMA ModWrap ==
    ASSUME NEW M \in Nat \ {0}, NEW a \in Nat, NEW i \in 0 .. (M - 1)
    PROVE  (a + i) % M = IF (a % M) + i < M THEN (a % M) + i ELSE (a % M) + i - M
<1> DEFINE x == a % M
           z == (x + i) % M
           u == (x + i) \div M
<1>1. x \in 0 .. (M - 1)
    BY DivMod
<1>2. z \in 0 .. (M - 1) /\ u \in Int /\ x + i = M * u + z
  <2>1. x + i \in Nat
      BY <1>1
  <2> HIDE DEF x
  <2> QED BY <2>1, DivMod
<1>3. (a + i) % M = z
  <2>1. i \in Nat
      OBVIOUS
  <2> QED BY <2>1, ModSum
<1> HIDE DEF x, z, u
<1>4. CASE u >= 2
  <2>1. M * u >= 2 * M
      BY <1>2, <1>4
  <2> QED BY <1>1, <1>2, <2>1
<1>5. CASE u <= -1
  <2>1. M * u <= -M
      BY <1>2, <1>5
  <2> QED BY <1>1, <1>2, <2>1
<1>6. CASE u = 0
  <2>1. z = x + i
      BY <1>1, <1>2, <1>6
  <2> QED BY <1>1, <1>2, <1>3, <2>1 DEF x
<1>7. CASE u = 1
  <2>1. z = x + i - M
      BY <1>1, <1>2, <1>7
  <2> QED BY <1>1, <1>2, <1>3, <2>1 DEF x
<1> QED BY <1>2, <1>4, <1>5, <1>6, <1>7

(* A wrapped index stays as it is, and is where it was a round later. *)
LEMMA ModBelow ==
    ASSUME NEW M \in Nat \ {0}, NEW a \in 0 .. (M - 1)
    PROVE  a % M = a /\ (a + M) % M = a
<1>1. ASSUME NEW b \in Nat, NEW k \in {0, 1}, b = M * k + a
      PROVE  b % M = a
  <2> DEFINE q == b \div M
             x == b % M
  <2>1. q \in Int /\ x \in 0 .. (M - 1) /\ b = M * q + x
      BY DivMod
  <2> HIDE DEF q, x
  <2>2. M * (q - k) = a - x /\ q - k \in Int
      BY <1>1, <2>1
  <2>3. CASE q - k >= 1
    <3>1. M * (q - k) >= M
        BY <2>2, <2>3
    <3> QED BY <2>1, <2>2, <3>1
  <2>4. CASE q - k <= -1
    <3>1. M * (q - k) <= -M
        BY <2>2, <2>4
    <3> QED BY <2>1, <2>2, <3>1
  <2>5. CASE q - k = 0
    <3>1. x = a
        BY <2>1, <2>2, <2>5
    <3> QED BY <3>1 DEF x
  <2> QED BY <2>2, <2>3, <2>4, <2>5
<1>2. a % M = a
    BY <1>1
<1>3. (a + M) % M = a
  <2>1. a + M \in Nat /\ a + M = M * 1 + a
      OBVIOUS
  <2> QED BY <1>1, <2>1
<1> QED BY <1>2, <1>3

(* Every non-empty set of naturals has a least element. *)
LEMMA LeastElement ==
    ASSUME NEW S \in SUBSET Nat, S # {}
    PROVE  \E s \in S : \A t \in S : s <= t
<1> DEFINE LessThan == {p \in Nat \X Nat : p[1] < p[2]}
<1>1. IsWellFoundedOn(LessThan, Nat)
    BY NatLessThanWellFounded DEF OpToRel
<1>2. PICK s \in S : \A t \in S : <<t, s>> \notin LessThan
    BY <1>1, WFMin
<1>3. \A t \in S : t \in Nat /\ s \in Nat /\ ~(t < s)
    BY <1>2
<1> QED BY <1>3


-----------------------------------------------------------------------------
(*                              The runtime                                *)

(* What the numbers of the commands come from: seq.tick counts increments,  *)
(* a number is where the counter stands after so many.                      *)
Round == SeqMod - 1
Number == 1 .. Round
NumberAt(tick) == ((tick - 1) % Round) + 1

Called == 1 .. cmds

(* n is waiting for an answer, or cmd() is about to send it. *)
Unanswered(n) == cmd[n].out = "none" /\ cmd[n].fut = "open"

(* No later command has the number of n. *)
Latest(n) == \A m \in Called : cmd[m].seq = cmd[n].seq => m <= n

Command == [seq : 0 .. Round, tick : Nat, op : Op,
            fut : {"none", "open", "answer", "dead", "closed", "cancelled"},
            from : 0 .. MaxCmds, zero : BOOLEAN, out : Outcome \cup {"none"}]

Message == [op : Op \cup {"stop"}, seq : 0 .. Round, cmd : 0 .. MaxCmds]

Completion == [kind : {"done"}, seq : Number, cmd : Cmd, zero : BOOLEAN]
Death == [kind : {"death"}]

RtType ==
    /\ state \in {"new", "running", "closing", "closed", "dead"}
    /\ life \in {"new", "starting", "settings", "up", "fail_stop", "fail_join",
                 "close_stop", "close_join", "close_log", "ended"}
    /\ active \in BOOLEAN /\ poisoned \in BOOLEAN /\ sink \in BOOLEAN
    /\ onDead \in Nat
    /\ pending \in [Number -> 0 .. MaxCmds]
    /\ seq \in [at : 0 .. Round, tick : Nat]
    /\ cmds \in 0 .. MaxCmds /\ calling \in 0 .. cmds
    /\ cmd \in [Cmd -> Command]
    /\ setting \in 0 .. cmds
    /\ watch \in [at : {"off", "sleeping", "pinging", "ended"}, cmd : 0 .. cmds]
    /\ drain \in [at : {"idle", "setting", "polling", "counting", "returned"}, cmd : 0 .. cmds]
    /\ draining \in BOOLEAN
    /\ re \in {"none", "init", "failed", "loop", "left", "unwind", "down", "dying", "gone"}
    /\ gate \in BOOLEAN /\ gDrain \in BOOLEAN /\ live \in BOOLEAN /\ ours \in BOOLEAN
    /\ queue \in Seq(Message) /\ Len(queue) <= QCap
    /\ ready \in Seq(Completion \cup Death)

(* Commands are numbered in their order, by increments that all add up. *)
NumberInv ==
    /\ \A n \in Called : /\ cmd[n].fut # "none" /\ cmd[n].tick \in 1 .. seq.tick
                         /\ cmd[n].seq = NumberAt(cmd[n].tick)
    /\ \A n \in Cmd \ Called : cmd[n] = NoCommand
    /\ \A m, n \in Called : m < n => cmd[m].tick < cmd[n].tick
    /\ seq.at = IF seq.tick = 0 THEN 0 ELSE NumberAt(seq.tick)

(* A number in _pending, and one that a coroutine has yet to resume with,   *)
(* was not given to anyone since.                                           *)
PendingInv ==
    /\ \A s \in Number : pending[s] # 0 =>
          pending[s] \in Called /\ cmd[pending[s]].seq = s /\ Latest(pending[s])
    /\ \A n \in Called : cmd[n].out = "none" => Latest(n)
    /\ \A n \in Called : Unanswered(n) => pending[cmd[n].seq] = n
    /\ calling # 0 => Unanswered(calling)

(* Messages and completions carry the number of their command; a command    *)
(* is completed by itself or by one that had its number a round ago.        *)
MessageInv ==
    /\ \A i \in 1 .. Len(queue) : queue[i].op # "stop" =>
          /\ queue[i].cmd \in Called
          /\ queue[i].seq = cmd[queue[i].cmd].seq /\ queue[i].op = cmd[queue[i].cmd].op
    /\ \A i \in 1 .. Len(ready) : ready[i].kind = "done" =>
          ready[i].cmd \in Called /\ ready[i].seq = cmd[ready[i].cmd].seq
    /\ \A n \in Cmd : cmd[n].from <= cmds
    /\ \A n \in Called : cmd[n].fut = "answer" =>
          /\ cmd[n].from \in Called
          /\ cmd[n].from # n => cmd[n].tick - cmd[cmd[n].from].tick >= Round

Ending == {"fail_stop", "close_stop", "fail_join", "close_join", "close_log", "ended"}

(* Who is in charge of the SIP thread, and what it can still do. *)
LifeInv ==
    /\ life = "new" => re = "none"
    /\ life \in {"starting", "settings", "up", "close_stop", "close_join", "close_log"}
          => active \/ poisoned
    /\ life = "close_log" => ~Alive
    /\ life = "ended" => ~Alive \/ poisoned
    /\ life \in Ending => state # "running" /\ (state \in {"closing", "closed"} \/ poisoned)
    /\ ours \/ (\E i \in 1 .. Len(queue) : queue[i].op = "stop")
          => life \in {"fail_join", "close_join", "close_log", "ended"}
    /\ ours /\ re = "dying" => poisoned
    /\ gate => re \in {"loop", "left"}
    /\ watch.at # "off" => life \in {"up", "close_stop", "close_join", "close_log", "ended"}

(* A death is reported once. *)
DeathInv ==
    /\ \A i \in 1 .. Len(ready) : ready[i].kind = "death" => onDead = 0 /\ re = "gone"
    /\ \A i, j \in 1 .. Len(ready) : ready[i].kind = "death" /\ ready[j].kind = "death" => i = j
    /\ onDead > 0 => re = "gone"
    /\ onDead <= 1

(* Nobody waits once everything that was pending has failed. *)
QuietInv ==
    /\ life \in {"close_log", "ended"} /\ watch.at # "off"
          => calling = 0 /\ \A n \in Called : ~Unanswered(n)
    /\ onDead > 0 => \A n \in Called : Unanswered(n) => n = calling

Zero ==
    \/ \E i \in 1 .. Len(ready) : ready[i].kind = "done" /\ ready[i].zero
    \/ \E n \in Cmd : cmd[n].zero

Counted == \E n \in Cmd : cmd[n].op = "count"

Stirs == {"dial", "set_drain"}

(* The first count is taken after SET_DRAIN and every dial() let through. *)
DrainInv ==
    /\ Counted => draining /\ (calling # 0 => cmd[calling].op \notin Stirs)
    /\ \A i, j \in 1 .. Len(queue) : i < j /\ queue[i].op = "count" => queue[j].op \notin Stirs
    /\ Zero => Counted /\ (gDrain => ~live) /\ \A i \in 1 .. Len(queue) : queue[i].op \notin Stirs
    /\ \A n \in Cmd : cmd[n].zero => cmd[n].fut = "answer"
    /\ drain.at # "idle" => draining
    /\ drain.at \in {"setting", "counting"} => drain.cmd # 0
    /\ drain.at = "returned" => \E n \in Cmd : cmd[n].zero

RtInv ==
    /\ RtType /\ NumberInv /\ PendingInv /\ MessageInv
    /\ LifeInv /\ DeathInv /\ QuietInv /\ DrainInv

-----------------------------------------------------------------------------
(* Numbers.                                                                *)

LEMMA RoundType == Round \in Nat \ {0}
    BY RuntimeAssumption DEF Round

LEMMA NumberAtType ==
    ASSUME NEW t \in Nat \ {0}
    PROVE  NumberAt(t) \in Number
<1>1. t - 1 \in Nat
    OBVIOUS
<1>2. (t - 1) % Round \in 0 .. (Round - 1)
    BY <1>1, RoundType, DivMod
<1> QED BY <1>2, RoundType DEF NumberAt, Number

LEMMA NumberAtDistinct ==
    ASSUME NEW a \in Nat \ {0}, NEW b \in Nat \ {0}, a < b, b - a < Round
    PROVE  NumberAt(a) # NumberAt(b)
<1>1. a - 1 \in Nat /\ b - 1 \in Nat /\ a - 1 < b - 1 /\ b - 1 < (a - 1) + Round
    BY RoundType
<1>2. (a - 1) % Round # (b - 1) % Round
    BY <1>1, RoundType, ModDistinct
<1>3. (a - 1) % Round \in Nat /\ (b - 1) % Round \in Nat
    BY <1>1, RoundType, DivMod
<1> QED BY <1>2, <1>3 DEF NumberAt

(* Incrementing k times from where the counter stands. *)
LEMMA AfterIsNumberAt ==
    ASSUME NEW tick \in Nat, NEW k \in 1 .. Round
    PROVE  After(IF tick = 0 THEN 0 ELSE NumberAt(tick), k) = NumberAt(tick + k)
<1>1. CASE tick = 0
  <2>1. 0 - 1 + k = k - 1 /\ tick + k - 1 = k - 1
      BY <1>1, RoundType
  <2> QED BY <1>1, <2>1 DEF After, NumberAt, Round
<1>2. CASE tick # 0
  <2> DEFINE x == (tick - 1) % Round
  <2>1. tick - 1 \in Nat /\ k \in Nat
      BY <1>2, RoundType
  <2>2. x \in Nat
      BY <2>1, RoundType, DivMod
  <2>3. (x + k) % Round = (tick - 1 + k) % Round
      BY <2>1, RoundType, ModSum
  <2>4. NumberAt(tick) = x + 1
      BY DEF NumberAt
  <2> HIDE DEF x
  <2>5. (NumberAt(tick) - 1) + k = x + k
      BY <2>1, <2>2, <2>4
  <2>6. After(NumberAt(tick), k) = ((x + k) % Round) + 1
      BY <2>5 DEF After, Round
  <2>7. (tick - 1) + k = (tick + k) - 1
      BY <2>1
  <2> QED BY <1>2, <2>3, <2>6, <2>7 DEF NumberAt
<1> QED BY <1>1, <1>2

(* From any number on, so many increments lead to t. *)
LEMMA Reaches ==
    ASSUME NEW s \in 0 .. Round, NEW t \in Number
    PROVE  \E k \in 1 .. Round : After(s, k) = t
<1>1. t - 1 \in 0 .. (Round - 1) /\ t \in 1 .. Round /\ Round \in Nat
    BY RoundType DEF Number
<1>2. (t - 1) % Round = t - 1 /\ (t - 1 + Round) % Round = t - 1
    BY <1>1, RoundType, ModBelow
<1>3. CASE t > s
  <2>1. t - s \in 1 .. Round /\ s - 1 + (t - s) = t - 1
      BY <1>1, <1>3
  <2>2. After(s, t - s) = t
      BY <1>1, <1>2, <2>1 DEF After, Round
  <2> QED BY <2>1, <2>2
<1>4. CASE ~(t > s)
  <2>1. t - s + Round \in 1 .. Round /\ s - 1 + (t - s + Round) = t - 1 + Round
      BY <1>1, <1>4
  <2>2. After(s, t - s + Round) = t
      BY <1>1, <1>2, <2>1 DEF After, Round
  <2> QED BY <2>1, <2>2
<1> QED BY <1>3, <1>4

(* _next_seq finds a number that is not pending, if there is one. *)
LEMMA StepsFound ==
    ASSUME NEW s \in 0 .. Round, \E t \in Number : Free(t)
    PROVE  Steps(s) \in 1 .. Round /\ Free(After(s, Steps(s)))
<1> DEFINE F == {k \in 1 .. Round : Free(After(s, k))}
<1>1. F # {} /\ F \in SUBSET Nat
    BY Reaches, RoundType
<1>2. PICK k \in F : \A j \in F : k <= j
    BY <1>1, LeastElement
<1>3. k \in 1 .. Round /\ Free(After(s, k)) /\ \A j \in 1 .. (k - 1) : ~Free(After(s, j))
    BY <1>2, RoundType
<1> QED BY <1>3 DEF Steps, Round

-----------------------------------------------------------------------------
(* Sequences.                                                              *)

LEMMA Appended ==
    ASSUME NEW S, NEW q \in Seq(S), NEW x \in S
    PROVE  /\ Append(q, x) \in Seq(S) /\ Len(Append(q, x)) = Len(q) + 1
           /\ \A i \in 1 .. Len(Append(q, x)) :
                 Append(q, x)[i] = IF i <= Len(q) THEN q[i] ELSE x
OBVIOUS

LEMMA Taken ==
    ASSUME NEW S, NEW q \in Seq(S), q # <<>>
    PROVE  /\ Tail(q) \in Seq(S) /\ Len(Tail(q)) = Len(q) - 1 /\ Len(q) \in Nat \ {0}
           /\ Head(q) \in S /\ Head(q) = q[1]
           /\ \A i \in 1 .. Len(Tail(q)) : Tail(q)[i] = q[i + 1]
OBVIOUS

-----------------------------------------------------------------------------
(* What a step makes of the commands: one more, or what is known of them.  *)

(* cmd() takes its number: the command is the newest one. *)
Begun(t, o) ==
    /\ LoopFree /\ state = "running"
    /\ t \in Nat /\ t > seq.tick /\ Prompt(t)
    /\ NumberAt(t) \in Number /\ pending[NumberAt(t)] = 0
    /\ cmds + 1 \in Cmd /\ cmds' = cmds + 1 /\ calling' = cmds + 1
    /\ seq' = [at |-> NumberAt(t), tick |-> t]
    /\ pending' = [pending EXCEPT ![NumberAt(t)] = cmds + 1]
    /\ cmd' = [cmd EXCEPT ![cmds + 1] = [NoCommand EXCEPT !.seq = NumberAt(t), !.tick = t,
                                                          !.op = o, !.fut = "open"]]

LEMMA BeginBegun ==
    ASSUME RtType, NumberInv, NEW o \in Op, Begin(o)
    PROVE  \E t \in Nat : Begun(t, o)
<1> DEFINE k == Steps(seq.at)
           t == seq.tick + k
<1>1. seq.at \in 0 .. Round /\ seq.tick \in Nat /\ cmds \in Nat
      /\ pending \in [Number -> 0 .. MaxCmds]
    BY RuntimeAssumption DEF RtType
<1>2. \E u \in Number : Free(u)
    BY DEF Begin, Number, Round
<1>3. k \in 1 .. Round /\ Free(After(seq.at, k))
    BY <1>1, <1>2, StepsFound
<1>4. After(seq.at, k) = NumberAt(t)
    BY <1>1, <1>3, AfterIsNumberAt DEF NumberInv
<1>5. t \in Nat \ {0} /\ t > seq.tick
    BY <1>1, <1>3, RoundType
<1>6. NumberAt(t) \in Number
    BY <1>5, NumberAtType
<1>7. cmds + 1 \in Cmd
    BY <1>1, RuntimeAssumption DEF Begin, Cmd
<1>8. pending[NumberAt(t)] = 0
    BY <1>3, <1>4 DEF Free
<1> HIDE DEF k
<1>9. Prompt(t)
    BY DEF Begin, k
<1>10. /\ cmds' = cmds + 1 /\ calling' = cmds + 1
       /\ seq' = [at |-> NumberAt(t), tick |-> t]
       /\ pending' = [pending EXCEPT ![NumberAt(t)] = cmds + 1]
       /\ cmd' = [cmd EXCEPT ![cmds + 1] = [NoCommand EXCEPT !.seq = NumberAt(t), !.tick = t,
                                                             !.op = o, !.fut = "open"]]
    BY <1>4 DEF Begin, k
<1> QED BY <1>5, <1>6, <1>7, <1>8, <1>9, <1>10 DEF Begun, Begin

(* Any other step: no command is new, and none begins to wait again. *)
Lessens ==
    /\ cmds' = cmds /\ seq' = seq
    /\ \A n \in Cmd : /\ cmd'[n].seq = cmd[n].seq /\ cmd'[n].tick = cmd[n].tick
                      /\ cmd'[n].op = cmd[n].op
                      /\ cmd[n].fut # "none" => cmd'[n].fut # "none"
                      /\ cmd[n].out # "none" => cmd'[n].out # "none"
                      /\ Unanswered(n)' => Unanswered(n) /\ pending'[cmd[n].seq] = pending[cmd[n].seq]
                      /\ cmd[n] = NoCommand => cmd'[n] = NoCommand
    /\ \A s \in Number : pending'[s] \in {0, pending[s]}
    /\ calling' \in {0, calling} /\ (calling' # 0 => Unanswered(calling)')

LEMMA OpenCalled ==
    ASSUME NumberInv, NEW n \in Cmd, Unanswered(n)
    PROVE  n \in Called
BY DEF NumberInv, Unanswered, NoCommand

LEMMA CallNumber ==
    ASSUME RtType, NumberInv, NEW n \in Called
    PROVE  n \in Cmd /\ cmd[n].seq \in Number
<1>1. cmd[n].tick \in Nat \ {0} /\ cmd[n].seq = NumberAt(cmd[n].tick)
    BY DEF NumberInv, RtType
<1> QED BY <1>1, NumberAtType, RuntimeAssumption DEF Called, Cmd, RtType

LEMMA SameLessens ==
    ASSUME PendingInv, UNCHANGED cmdVars
    PROVE  Lessens
BY DEF Lessens, cmdVars, PendingInv, Unanswered

(* One command comes to an end, or to its answer; its number, if that is    *)
(* given back, is not one that another waits under.                        *)
LEMMA OneLessens ==
    ASSUME RtType, NumberInv, PendingInv, NEW n \in Called, NEW r \in Command,
           cmd' = [cmd EXCEPT ![n] = r], cmds' = cmds, seq' = seq, calling' = 0,
           r.seq = cmd[n].seq, r.tick = cmd[n].tick, r.op = cmd[n].op, r.fut # "none",
           cmd[n].out # "none" => r.out # "none", ~(r.out = "none" /\ r.fut = "open"),
           \/ pending' = pending
           \/ \E u \in Number : /\ pending' = [pending EXCEPT ![u] = 0]
                                /\ \A m \in Called : Unanswered(m) /\ m # n => cmd[m].seq # u
    PROVE  Lessens /\ cmd' \in [Cmd -> Command] /\ pending' \in [Number -> 0 .. MaxCmds]
<1>1. n \in Cmd /\ cmd[n].seq \in Number
    BY CallNumber
<1>2. cmd \in [Cmd -> Command] /\ pending \in [Number -> 0 .. MaxCmds]
    BY DEF RtType
<1>3. cmd' \in [Cmd -> Command]
    BY <1>1, <1>2
<1>4. pending' \in [Number -> 0 .. MaxCmds]
  <2>1. 0 \in 0 .. MaxCmds
      BY RuntimeAssumption
  <2> QED BY <1>2, <2>1
<1>5. cmd'[n] = r /\ \A m \in Cmd : m # n => cmd'[m] = cmd[m]
    BY <1>1, <1>2
<1>6. \A m \in Cmd : Unanswered(m)' => m # n /\ Unanswered(m) /\ m \in Called
    BY <1>5, OpenCalled DEF Unanswered
<1>7. \A u \in Number : pending'[u] \in {0, pending[u]}
    BY <1>2
<1>8. ASSUME NEW m \in Cmd, Unanswered(m)'
      PROVE  pending'[cmd[m].seq] = pending[cmd[m].seq]
  <2>1. m \in Called /\ m # n /\ Unanswered(m) /\ cmd[m].seq \in Number
      BY <1>6, <1>8, CallNumber
  <2> QED BY <1>2, <2>1
<1>9. cmd[n] # NoCommand
    BY DEF NumberInv, NoCommand
<1>10. \A m \in Cmd : /\ cmd'[m].seq = cmd[m].seq /\ cmd'[m].tick = cmd[m].tick
                      /\ cmd'[m].op = cmd[m].op
                      /\ cmd[m].fut # "none" => cmd'[m].fut # "none"
                      /\ cmd[m].out # "none" => cmd'[m].out # "none"
                      /\ cmd[m] = NoCommand => cmd'[m] = NoCommand
    BY <1>5, <1>9
<1>11. calling' \in {0, calling} /\ (calling' # 0 => Unanswered(calling)')
    OBVIOUS
<1>12. \A m \in Cmd : Unanswered(m)' => Unanswered(m) /\ pending'[cmd[m].seq] = pending[cmd[m].seq]
    BY <1>6, <1>8
<1>13. cmds' = cmds /\ seq' = seq
    OBVIOUS
<1>14. Lessens
    BY ONLY <1>7, <1>10, <1>11, <1>12, <1>13 DEF Lessens
<1> QED BY <1>3, <1>4, <1>14

(* A number is given back that nobody waits under. *)
LEMMA NoneLessens ==
    ASSUME RtType, NumberInv, PendingInv, NEW u \in Number,
           pending' = [pending EXCEPT ![u] = 0], cmd' = cmd, cmds' = cmds, seq' = seq,
           calling' = 0, \A m \in Called : Unanswered(m) => cmd[m].seq # u
    PROVE  Lessens /\ cmd' \in [Cmd -> Command] /\ pending' \in [Number -> 0 .. MaxCmds]
<1>1. cmd \in [Cmd -> Command] /\ pending \in [Number -> 0 .. MaxCmds] /\ 0 \in 0 .. MaxCmds
    BY RuntimeAssumption DEF RtType
<1>2. \A t \in Number : pending'[t] \in {0, pending[t]} /\ (t # u => pending'[t] = pending[t])
    BY <1>1
<1>3. \A m \in Cmd : Unanswered(m)' => Unanswered(m) /\ cmd[m].seq \in Number /\ cmd[m].seq # u
    BY OpenCalled, CallNumber DEF Unanswered
<1> QED BY <1>1, <1>2, <1>3 DEF Lessens

(* Two commands that wait have two numbers. *)
LEMMA OwnNumber ==
    ASSUME PendingInv, NEW n \in Called, cmd[n].out = "none",
           NEW m \in Called, Unanswered(m), m # n
    PROVE  cmd[m].seq # cmd[n].seq
BY DEF PendingInv, Latest, Unanswered, Called

LEMMA PushLessens ==
    ASSUME RtType, NumberInv, PendingInv, Push
    PROVE  Lessens /\ cmd' \in [Cmd -> Command] /\ pending' \in [Number -> 0 .. MaxCmds]
           /\ calling \in Called /\ calling' = 0
<1>1. calling \in Called /\ calling \in Cmd /\ Unanswered(calling)
    BY RuntimeAssumption DEF Push, RtType, Called, Cmd, PendingInv
<1>2. calling' = 0 /\ cmds' = cmds /\ seq' = seq
    BY DEF Push
<1>3. CASE cmd' = cmd /\ pending' = pending
    BY <1>1, <1>2, <1>3 DEF Lessens, PendingInv, Unanswered, RtType
<1>4. ASSUME NEW o \in {"full", "refused"}, Finished(calling, o),
             pending' = [pending EXCEPT ![cmd[calling].seq] = 0]
      PROVE  Lessens /\ cmd' \in [Cmd -> Command] /\ pending' \in [Number -> 0 .. MaxCmds]
  <2> DEFINE r == [cmd[calling] EXCEPT !.out = o]
  <2>1. cmd[calling] \in Command /\ cmd' = [cmd EXCEPT ![calling] = r]
      BY <1>1, <1>4 DEF RtType, Finished
  <2>2. r \in Command /\ r.out = o /\ r.seq = cmd[calling].seq /\ r.tick = cmd[calling].tick
        /\ r.op = cmd[calling].op /\ r.fut = cmd[calling].fut
      BY <2>1 DEF Command, Outcome
  <2>3. r.fut # "none"
      BY <1>1, <2>2 DEF Unanswered
  <2>4. cmd[calling].seq \in Number
      BY <1>1, CallNumber
  <2>5. \A m \in Called : Unanswered(m) /\ m # calling => cmd[m].seq # cmd[calling].seq
      BY <1>1, OwnNumber DEF Unanswered
  <2>6. o # "none"
      OBVIOUS
  <2>7. \E u \in Number : /\ pending' = [pending EXCEPT ![u] = 0]
                           /\ \A m \in Called : Unanswered(m) /\ m # calling => cmd[m].seq # u
      BY <1>4, <2>4, <2>5
  <2> HIDE DEF r
  <2> QED BY <1>1, <1>2, <2>1, <2>2, <2>3, <2>6, <2>7, OneLessens
<1>5. \/ cmd' = cmd /\ pending' = pending
      \/ Finished(calling, "full") /\ pending' = [pending EXCEPT ![cmd[calling].seq] = 0]
      \/ Finished(calling, "refused") /\ pending' = [pending EXCEPT ![cmd[calling].seq] = 0]
    BY DEF Push
<1>6. CASE cmd' = cmd /\ pending' = pending
    BY <1>1, <1>2, <1>3, <1>6 DEF RtType
<1> QED BY <1>1, <1>2, <1>4, <1>5, <1>6

(* A coroutine resumes: with a result, with a timeout, or cancelled. *)
LEMMA ResumeLessens ==
    ASSUME RtType, NumberInv, PendingInv, NEW n \in Cmd,
           Resume(n) \/ Timeout(n) \/ Cancel(n)
    PROVE  Lessens /\ cmd' \in [Cmd -> Command] /\ pending' \in [Number -> 0 .. MaxCmds]
<1>1. n \in Called /\ calling = 0 /\ cmd[n].out = "none" /\ cmd[n] \in Command /\ cmd[n].fut # "none"
  <2>1. Waiting(n) /\ LoopFree
      BY DEF Resume, Timeout, Cancel
  <2> QED BY <2>1 DEF Waiting, LoopFree, NumberInv, NoCommand, RtType
<1>2. cmds' = cmds /\ seq' = seq /\ calling' = 0
    BY <1>1 DEF Resume, Timeout, Cancel
<1>3. ASSUME NEW o \in Outcome, NEW f \in {"answer", "dead", "closed", "cancelled"},
             cmd' = [cmd EXCEPT ![n] = [cmd[n] EXCEPT !.out = o, !.fut = f]],
             pending' = pending \/ pending' = [pending EXCEPT ![cmd[n].seq] = 0]
      PROVE  Lessens /\ cmd' \in [Cmd -> Command] /\ pending' \in [Number -> 0 .. MaxCmds]
  <2> DEFINE r == [cmd[n] EXCEPT !.out = o, !.fut = f]
  <2>1. r \in Command /\ r.out = o /\ r.seq = cmd[n].seq /\ r.tick = cmd[n].tick
        /\ r.op = cmd[n].op /\ r.fut = f
      BY <1>1 DEF Command
  <2>2. cmd[n].seq \in Number
      BY <1>1, CallNumber
  <2>3. \A m \in Called : Unanswered(m) /\ m # n => cmd[m].seq # cmd[n].seq
      BY <1>1, OwnNumber
  <2>4. cmd' = [cmd EXCEPT ![n] = r]
      BY <1>3
  <2>5. o # "none"
      BY DEF Outcome
  <2> HIDE DEF r
  <2> QED BY <1>1, <1>2, <1>3, <2>1, <2>2, <2>3, <2>4, <2>5, OneLessens
<1>4. CASE Resume(n)
  <2>1. cmd' = [cmd EXCEPT ![n].out = cmd[n].fut] /\ pending' = pending
        /\ cmd[n].fut \in {"answer", "dead", "closed"}
      BY <1>4 DEF Resume, Finished
  <2>2. [cmd[n] EXCEPT !.out = cmd[n].fut] = [cmd[n] EXCEPT !.out = cmd[n].fut, !.fut = cmd[n].fut]
      BY <1>1 DEF Command
  <2> QED BY <1>3, <2>1, <2>2 DEF Outcome
<1>5. CASE Timeout(n) \/ Cancel(n)
  <2> DEFINE f == IF cmd[n].fut = "open" THEN "cancelled" ELSE cmd[n].fut
  <2>1. f \in {"answer", "dead", "closed", "cancelled"}
      BY <1>1 DEF Command
  <2>2. PICK o \in {"timeout", "cancelled"} : cmd' = [cmd EXCEPT ![n].out = o, ![n].fut = f]
      BY <1>5 DEF Timeout, Cancel, Cancelled
  <2>3. cmd' = [cmd EXCEPT ![n] = [cmd[n] EXCEPT !.out = o, !.fut = f]]
      BY <2>2
  <2>4. pending' = pending \/ pending' = [pending EXCEPT ![cmd[n].seq] = 0]
      BY <1>5 DEF Timeout, Cancel
  <2> HIDE DEF f
  <2> QED BY <1>3, <2>1, <2>3, <2>4 DEF Outcome
<1> QED BY <1>4, <1>5

(* close() cancels the watchdog's PING. *)
LEMMA CloseLessens ==
    ASSUME RtType, NumberInv, PendingInv, Close
    PROVE  Lessens /\ cmd' \in [Cmd -> Command] /\ pending' \in [Number -> 0 .. MaxCmds]
<1>1. calling = 0 /\ cmds' = cmds /\ seq' = seq /\ calling' = 0 /\ pending' = pending
    BY DEF Close, LoopFree
<1>2. CASE cmd' = cmd
  <2>1. UNCHANGED cmdVars
      BY <1>1, <1>2 DEF cmdVars
  <2> QED BY <1>1, <1>2, <2>1, SameLessens DEF RtType
<1>3. CASE cmd' # cmd
  <2> DEFINE n == watch.cmd
  <2>1. Waiting(n) /\ cmd' = Cancelled(n)
      BY <1>3 DEF Close
  <2>2. n \in Called /\ cmd[n].out = "none" /\ cmd[n].fut # "none"
    <3>1. n \in 0 .. cmds /\ cmd \in [Cmd -> Command] /\ cmds \in 0 .. MaxCmds
        BY DEF RtType
    <3>2. n = 0 => n \notin Cmd
        BY RuntimeAssumption DEF Cmd
    <3>3. CASE n = 0
      <4>1. cmd' = cmd
          BY <2>1, <3>1, <3>2, <3>3 DEF Cancelled
      <4> QED BY <1>3, <4>1
    <3> QED BY <2>1, <3>1, <3>3, RuntimeAssumption DEF Waiting, Called
  <2>3. n \in Cmd /\ cmd[n] \in Command
      BY <2>2, CallNumber DEF RtType
  <2> DEFINE r == [cmd[n] EXCEPT !.out = "cancelled",
                                 !.fut = IF cmd[n].fut = "open" THEN "cancelled" ELSE cmd[n].fut]
  <2>4. cmd' = [cmd EXCEPT ![n] = r]
      BY <2>1 DEF Cancelled
  <2>5. r \in Command /\ r.seq = cmd[n].seq /\ r.tick = cmd[n].tick /\ r.op = cmd[n].op
        /\ r.fut # "none" /\ r.out = "cancelled"
      BY <2>2, <2>3 DEF Command, Outcome
  <2> HIDE DEF r, n
  <2> QED BY <1>1, <2>2, <2>4, <2>5, OneLessens
<1> QED BY <1>2, <1>3

(* A completion is handed to whoever has its number. *)
LEMMA DispatchLessens ==
    ASSUME RtType, NumberInv, PendingInv, MessageInv, Dispatch
    PROVE  Lessens /\ cmd' \in [Cmd -> Command] /\ pending' \in [Number -> 0 .. MaxCmds]
<1> DEFINE done == Head(ready)
           u == done.seq
           n == pending[u]
<1>1. calling = 0 /\ cmds' = cmds /\ seq' = seq /\ calling' = 0
      /\ pending' = [pending EXCEPT ![u] = 0]
    BY DEF Dispatch, LoopFree
<1>2. done \in Completion /\ done.kind = "done" /\ u \in Number /\ done.cmd \in Cmd
      /\ done.zero \in BOOLEAN
  <2>1. done \in Completion \cup Death
      BY Taken DEF Dispatch, RtType
  <2> QED BY <2>1 DEF Dispatch, Completion, Death
<1>3. done.cmd \in Called
  <2>1. done = ready[1] /\ 1 \in 1 .. Len(ready)
      BY Taken DEF Dispatch, RtType
  <2> QED BY <1>2, <2>1 DEF MessageInv
<1>4. \A m \in Called : Unanswered(m) /\ cmd[m].seq = u => n = m
    BY DEF PendingInv
<1>5. CASE n # 0 /\ cmd[n].fut = "open"
  <2>1. n \in Called /\ cmd[n].seq = u
      BY <1>2, <1>5 DEF PendingInv
  <2>2. n \in Cmd /\ cmd[n] \in Command
      BY <2>1, CallNumber DEF RtType
  <2> DEFINE r == [cmd[n] EXCEPT !.fut = "answer", !.from = done.cmd, !.zero = done.zero]
  <2>3. cmd' = [cmd EXCEPT ![n] = r]
      BY <1>5 DEF Dispatch
  <2>4. r \in Command /\ r.seq = cmd[n].seq /\ r.tick = cmd[n].tick /\ r.op = cmd[n].op
        /\ r.fut = "answer" /\ r.out = cmd[n].out
    <3>1. done.cmd \in 0 .. MaxCmds
        BY <1>2, RuntimeAssumption DEF Cmd
    <3> HIDE DEF done, u, n
    <3> QED BY <1>2, <2>2, <3>1 DEF Command
  <2>5. \A m \in Called : Unanswered(m) /\ m # n => cmd[m].seq # u
      BY <1>4
  <2> HIDE DEF r, n, u, done
  <2> QED BY <1>1, <1>2, <2>1, <2>3, <2>4, <2>5, OneLessens
<1>6. CASE ~(n # 0 /\ cmd[n].fut = "open")
  <2>1. cmd' = cmd
      BY <1>6 DEF Dispatch
  <2>2. \A m \in Called : Unanswered(m) => cmd[m].seq # u
    <3> SUFFICES ASSUME NEW m \in Called, Unanswered(m), cmd[m].seq = u PROVE FALSE
        OBVIOUS
    <3>1. n = m /\ m # 0 /\ cmd[m].fut = "open"
        BY <1>4, RuntimeAssumption DEF Called, RtType, Unanswered
    <3> QED BY <1>6, <3>1
  <2> HIDE DEF n, u, done
  <2> QED BY <1>1, <1>2, <2>1, <2>2, NoneLessens
<1> QED BY <1>5, <1>6

(* _fail_pending leaves nobody waiting. *)
LEMMA FailLessens ==
    ASSUME RtType, NumberInv, PendingInv, NEW why \in {"dead", "closed"},
           FailPending(why, cmd), calling = 0, cmds' = cmds, seq' = seq, calling' = calling
    PROVE  /\ Lessens /\ cmd' \in [Cmd -> Command] /\ pending' \in [Number -> 0 .. MaxCmds]
           /\ \A n \in Cmd : ~Unanswered(n)'
<1>1. cmd \in [Cmd -> Command] /\ pending \in [Number -> 0 .. MaxCmds] /\ 0 \in 0 .. MaxCmds
    BY RuntimeAssumption DEF RtType
<1>2. pending' \in [Number -> 0 .. MaxCmds] /\ \A s \in Number : pending'[s] = 0
    BY <1>1 DEF FailPending
<1>3. \A n \in Cmd : cmd'[n] = IF cmd[n].fut = "open" /\ \E s \in Number : pending[s] = n
                               THEN [cmd[n] EXCEPT !.fut = why] ELSE cmd[n]
    BY <1>1 DEF FailPending
<1>4. \A n \in Cmd : [cmd[n] EXCEPT !.fut = why] \in Command
    BY <1>1 DEF Command
<1>5. \A n \in Cmd : cmd'[n] \in Command
    BY <1>1, <1>3, <1>4
<1>6. cmd' \in [Cmd -> Command]
    BY <1>5 DEF FailPending
<1>7. \A n \in Cmd : /\ cmd'[n].seq = cmd[n].seq /\ cmd'[n].tick = cmd[n].tick
                     /\ cmd'[n].op = cmd[n].op
                     /\ cmd[n].fut # "none" => cmd'[n].fut # "none"
                     /\ cmd'[n].out = cmd[n].out
                     /\ cmd[n] = NoCommand => cmd'[n] = NoCommand
  <2> TAKE n \in Cmd
  <2> DEFINE r == [cmd[n] EXCEPT !.fut = why]
  <2>1. cmd[n] \in Command
      BY <1>1
  <2>2. r.seq = cmd[n].seq /\ r.tick = cmd[n].tick /\ r.op = cmd[n].op /\ r.fut = why
        /\ r.out = cmd[n].out
      BY <2>1 DEF Command
  <2>3. cmd'[n] = cmd[n] \/ (cmd'[n] = r /\ cmd[n].fut = "open")
      BY <1>3
  <2>4. CASE cmd'[n] = cmd[n]
      BY <2>4
  <2>5. CASE cmd'[n] = r /\ cmd[n].fut = "open"
      BY <2>2, <2>5 DEF NoCommand
  <2> QED BY <2>3, <2>4, <2>5
<1>8. ASSUME NEW n \in Cmd, Unanswered(n)'
      PROVE  FALSE
  <2>1. cmd[n].fut = "open" /\ cmd[n].out = "none" /\ ~(\E s \in Number : pending[s] = n)
    <3>1. cmd'[n].fut = "open" /\ cmd'[n].out = "none"
        BY <1>8 DEF Unanswered
    <3>2. cmd[n].out = "none"
        BY <1>7, <3>1
    <3>3. ~(cmd[n].fut = "open" /\ \E s \in Number : pending[s] = n)
        BY <1>1, <1>3, <3>1 DEF Command
    <3> QED BY <1>3, <3>1, <3>2, <3>3
  <2>2. n \in Called /\ cmd[n].seq \in Number
      BY <2>1, OpenCalled, CallNumber DEF Unanswered
  <2> QED BY <2>1, <2>2 DEF PendingInv, Unanswered
<1>9. Lessens
    BY <1>2, <1>7, <1>8 DEF Lessens
<1> QED BY <1>2, <1>6, <1>8, <1>9

Typed == cmd' \in [Cmd -> Command] /\ pending' \in [Number -> 0 .. MaxCmds]

LEMMA BegunTyped ==
    ASSUME RtType, NEW t \in Nat, NEW o \in Op, Begun(t, o)
    PROVE  Typed
<1> DEFINE r == [NoCommand EXCEPT !.seq = NumberAt(t), !.tick = t, !.op = o, !.fut = "open"]
<1>1. cmd' = [cmd EXCEPT ![cmds + 1] = r] /\ cmds + 1 \in Cmd /\ cmds + 1 \in 0 .. MaxCmds
      /\ NumberAt(t) \in 0 .. Round /\ pending' = [pending EXCEPT ![NumberAt(t)] = cmds + 1]
    BY RuntimeAssumption, RoundType DEF Begun, Cmd, Number, RtType
<1>2. r \in Command
  <2>1. NoCommand \in Command
      BY RuntimeAssumption, RoundType DEF NoCommand, Command, Op
  <2> QED BY <1>1, <2>1 DEF Command
<1> HIDE DEF r
<1> QED BY <1>1, <1>2 DEF Typed, RtType

(* The actions, by what they do to the commands. *)
Aside == UNCHANGED cmdVars

Begins(o) ==
    /\ Begin(o)
    /\ UNCHANGED <<lifeVars, reVars, ready>>
    /\ o \in Stirs => ~draining
    /\ o = "count" => draining \/ drain.at = "polling"
    /\ draining => draining'

Resumes == \E n \in Cmd : Resume(n) \/ Timeout(n) \/ Cancel(n)

LEMMA NextSplit ==
    ASSUME [Next]_vars
    PROVE  \/ \E o \in Op : Begins(o)
           \/ Aside \/ Push \/ Resumes \/ Dispatch \/ FinishDeath \/ Close \/ Joined
<1>1. CASE UNCHANGED vars
    BY <1>1 DEF vars, Aside
<1>2. CASE Callbacks \/ Expiries
    BY <1>2 DEF Callbacks, Expiries, Resumes
<1>3. CASE Coroutines
  <2>1. CASE WatchPing
      BY <2>1 DEF WatchPing, Begins, Op, Stirs
  <2>2. CASE DrainBegin \/ DrainAgain \/ DrainPoll
      BY <2>2 DEF DrainBegin, DrainAgain, DrainPoll, Begins, Op, Stirs
  <2>3. CASE WatchRefused \/ WatchGoesOn \/ DrainAnswered \/ DrainRaises
      BY <2>3 DEF WatchRefused, WatchGoesOn, DrainAnswered, DrainRaises, Aside
  <2> QED BY <1>3, <2>1, <2>2, <2>3 DEF Coroutines
<1>4. CASE Lifecycle
  <2>1. CASE Setting
      BY <2>1 DEF Setting, Begins, Op, Stirs, taskVars
  <2>2. CASE Started \/ SettingApplied \/ StartReturns \/ StartFails \/ StartFailed
             \/ SendStop \/ Closed
      BY <2>2 DEF Started, SettingApplied, StartReturns, StartFails, StartFailed,
                  SendStop, Closed, Aside
  <2> QED BY <1>4, <2>1, <2>2 DEF Lifecycle
<1>5. CASE Application
  <2>1. CASE Dial
      BY <2>1 DEF Dial, Begins, Op, Stirs, taskVars
  <2>2. CASE Start
      BY <2>2 DEF Start, Aside
  <2> QED BY <1>5, <2>1, <2>2 DEF Application, Resumes
<1>6. CASE ReThread \/ Outside
    BY <1>6 DEF ReThread, Outside, ReInit, Handle, HandleStop, LoopDone, Unwound, CheckClosing, Die,
                LoopFails, CallArrives, CallEnds, Aside
<1> QED BY <1>1, <1>2, <1>3, <1>4, <1>5, <1>6 DEF Next

LEMMA StepCommands ==
    ASSUME RtType, NumberInv, PendingInv, MessageInv, [Next]_vars
    PROVE  Typed /\ (Lessens \/ \E t \in Nat, o \in Op : Begun(t, o))
<1>1. CASE \E o \in Op : Begins(o)
    BY <1>1, BeginBegun, BegunTyped DEF Begins
<1>2. CASE Aside
  <2>1. Lessens
      BY <1>2, SameLessens DEF Aside
  <2> QED BY <1>2, <2>1 DEF Aside, cmdVars, Typed, RtType
<1>3. CASE Push
    BY <1>3, PushLessens DEF Typed
<1>4. CASE Resumes
    BY <1>4, ResumeLessens DEF Resumes, Typed
<1>5. CASE Dispatch
    BY <1>5, DispatchLessens DEF Typed
<1>6. CASE FinishDeath
  <2>1. FailPending("dead", cmd) /\ calling = 0 /\ cmds' = cmds /\ seq' = seq /\ calling' = calling
      BY <1>6 DEF FinishDeath, LoopFree
  <2> QED BY <2>1, FailLessens DEF Typed
<1>7. CASE Close
    BY <1>7, CloseLessens DEF Typed
<1>8. CASE Joined
  <2>1. calling = 0 /\ cmds' = cmds /\ seq' = seq /\ calling' = calling
      BY <1>8 DEF Joined, LoopFree
  <2>2. FailPending("dead", cmd) \/ FailPending("closed", cmd)
      BY <1>8 DEF Joined
  <2> QED BY <2>1, <2>2, FailLessens DEF Typed
<1> QED BY <1>1, <1>2, <1>3, <1>4, <1>5, <1>6, <1>7, <1>8, NextSplit

(* Preservation of what is known of numbers, and of _pending. *)
LEMMA BegunNumber ==
    ASSUME RtType, NumberInv, NEW t \in Nat, NEW o \in Op, Begun(t, o)
    PROVE  NumberInv'
<1>1. /\ cmds \in Nat /\ cmds' = cmds + 1 /\ cmds + 1 \in Cmd /\ seq.tick \in Nat
      /\ t > seq.tick /\ t \in 1 .. t
    BY RuntimeAssumption DEF RtType, Begun, Cmd
<1>2. seq'.tick = t /\ seq'.at = NumberAt(t)
    BY DEF Begun
<1>3. /\ cmd'[cmds + 1].tick = t /\ cmd'[cmds + 1].seq = NumberAt(t) /\ cmd'[cmds + 1].fut = "open"
      /\ \A n \in Cmd : n # cmds + 1 => cmd'[n] = cmd[n]
    BY <1>1 DEF RtType, Begun, NoCommand
<1>4. \A n \in Called' : n = cmds + 1 \/ (n \in Called /\ n # cmds + 1 /\ n \in Cmd)
    BY <1>1, RuntimeAssumption DEF Called, Cmd, RtType
<1>5. \A n \in Called : cmd[n].tick \in 1 .. seq.tick
    BY DEF NumberInv
<1>6. ASSUME NEW n \in Called'
      PROVE  cmd'[n].fut # "none" /\ cmd'[n].tick \in 1 .. t /\ cmd'[n].seq = NumberAt(cmd'[n].tick)
    BY <1>1, <1>3, <1>4, <1>5, <1>6 DEF NumberInv
<1>7. ASSUME NEW n \in Cmd \ Called'
      PROVE  cmd'[n] = NoCommand
  <2>1. n # cmds + 1 /\ n \in Cmd \ Called
      BY <1>1 DEF Called, Cmd
  <2> QED BY <1>3, <2>1 DEF NumberInv
<1>8. ASSUME NEW m \in Called', NEW n \in Called', m < n
      PROVE  cmd'[m].tick < cmd'[n].tick
  <2>1. m \in Called /\ m # cmds + 1 /\ m \in Cmd
      BY <1>1, <1>4, <1>8 DEF Called
  <2>2. cmd'[m].tick = cmd[m].tick /\ cmd[m].tick \in 1 .. seq.tick
      BY <1>3, <1>5, <2>1
  <2>3. CASE n = cmds + 1
      BY <1>1, <1>3, <2>2, <2>3
  <2>4. CASE n # cmds + 1
      BY <1>3, <1>4, <1>8, <2>1, <2>2, <2>4 DEF NumberInv
  <2> QED BY <2>3, <2>4
<1> QED BY <1>1, <1>2, <1>6, <1>7, <1>8 DEF NumberInv

LEMMA LessensNumber ==
    ASSUME RtType, NumberInv, Lessens
    PROVE  NumberInv'
<1>1. Called' = Called /\ Called \subseteq Cmd
    BY RuntimeAssumption DEF Lessens, Called, Cmd, RtType
<1>2. \A n \in Cmd : /\ cmd'[n].seq = cmd[n].seq /\ cmd'[n].tick = cmd[n].tick
                     /\ cmd[n].fut # "none" => cmd'[n].fut # "none"
                     /\ cmd[n] = NoCommand => cmd'[n] = NoCommand
    BY DEF Lessens
<1>3. seq' = seq
    BY DEF Lessens
<1> QED BY <1>1, <1>2, <1>3 DEF NumberInv

(* A number that is free again was last given a round ago, or to a command *)
(* that is over.                                                           *)
LEMMA BegunPending ==
    ASSUME RtType, NumberInv, PendingInv, NEW t \in Nat, NEW o \in Op, Begun(t, o)
    PROVE  PendingInv'
<1> DEFINE u == NumberAt(t)
<1>0. PICK c \in Cmd : c = cmds + 1
    BY DEF Begun
<1>1. /\ cmds \in Nat /\ cmds' = c /\ c = cmds + 1 /\ seq.tick \in Nat /\ t > seq.tick
      /\ u \in Number /\ pending[u] = 0 /\ calling' = c
    BY <1>0, RuntimeAssumption DEF RtType, Begun, Cmd
<1>2. /\ cmd'[c].seq = u /\ cmd'[c].fut = "open" /\ cmd'[c].out = "none"
      /\ \A n \in Cmd : n # c => cmd'[n] = cmd[n]
    BY <1>1 DEF RtType, Begun, NoCommand
<1>3. pending'[u] = c /\ \A s \in Number : s # u => pending'[s] = pending[s]
    BY <1>1 DEF RtType, Begun
<1>4. \A n \in Called' : n = c \/ (n \in Called /\ n # c /\ n \in Cmd)
    BY <1>1, RuntimeAssumption DEF Called, Cmd, RtType
<1>5. c \in Called' /\ \A n \in Called : n \in Called' /\ n # c /\ n \in Cmd
    BY <1>1, RuntimeAssumption DEF Called, Cmd, RtType
<1>6. Latest(c)'
    BY <1>1, <1>4, <1>5 DEF Latest, Called
<1>7. ASSUME NEW n \in Called, Latest(n), cmd[n].seq # u
      PROVE  Latest(n)'
    BY <1>2, <1>4, <1>5, <1>7 DEF Latest
<1>8. ASSUME NEW n \in Called, cmd[n].out = "none"
      PROVE  cmd[n].seq # u
  <2>1. CASE cmd[n].fut = "open"
    <3>1. pending[cmd[n].seq] = n
        BY <1>8, <2>1 DEF PendingInv, Unanswered
    <3>2. n # 0
        BY <1>1 DEF Called
    <3> QED BY <1>1, <3>1, <3>2
  <2>2. CASE cmd[n].fut # "open"
    <3>1. cmd[n].tick \in 1 .. seq.tick /\ cmd[n].seq = NumberAt(cmd[n].tick) /\ cmd[n].fut # "none"
        BY DEF NumberInv
    <3>2. t - cmd[n].tick < Round
        BY <1>5, <1>8, <2>2, <3>1 DEF Begun, Prompt, Round
    <3>3. cmd[n].tick \in Nat \ {0} /\ t \in Nat \ {0} /\ cmd[n].tick < t
        BY <1>1, <3>1
    <3> QED BY <3>1, <3>2, <3>3, NumberAtDistinct
  <2> QED BY <2>1, <2>2
<1>9. ASSUME NEW s \in Number, pending'[s] # 0
      PROVE  pending'[s] \in Called' /\ cmd'[pending'[s]].seq = s /\ Latest(pending[s])'
  <2>1. CASE s = u
      BY <1>2, <1>3, <1>5, <1>6, <2>1 DEF Latest
  <2>2. CASE s # u
    <3>1. PICK p \in Called : p = pending[s]
        BY <1>3, <1>9, <2>2 DEF PendingInv
    <3>2. pending'[s] = p /\ cmd[p].seq = s /\ Latest(p)
        BY <1>3, <1>9, <2>2, <3>1 DEF PendingInv
    <3>3. cmd'[p] = cmd[p] /\ p \in Called'
        BY <1>2, <1>5
    <3>4. Latest(p)'
        BY <1>7, <2>2, <3>2
    <3> QED BY <3>2, <3>3, <3>4 DEF Latest
  <2> QED BY <2>1, <2>2
<1>10. ASSUME NEW n \in Called', cmd'[n].out = "none"
       PROVE  Latest(n)'
  <2>1. CASE n = c
      BY <1>6, <2>1
  <2>2. CASE n # c
    <3>1. n \in Called /\ cmd[n].out = "none"
        BY <1>2, <1>4, <1>10, <2>2
    <3> QED BY <1>7, <1>8, <3>1 DEF PendingInv
  <2> QED BY <2>1, <2>2
<1>11. ASSUME NEW n \in Called', Unanswered(n)'
       PROVE  pending'[cmd'[n].seq] = n
  <2>1. CASE n = c
      BY <1>2, <1>3, <2>1
  <2>2. CASE n # c
    <3>1. n \in Called /\ cmd'[n] = cmd[n] /\ Unanswered(n) /\ cmd[n].out = "none"
        BY <1>2, <1>4, <1>11, <2>2 DEF Unanswered
    <3>2. cmd[n].seq \in Number /\ cmd[n].seq # u
        BY <1>8, <3>1, CallNumber
    <3> QED BY <1>3, <3>1, <3>2 DEF PendingInv
  <2> QED BY <2>1, <2>2
<1>12. Unanswered(c)'
    BY <1>2 DEF Unanswered
<1> HIDE DEF u
<1> QED BY <1>1, <1>9, <1>10, <1>11, <1>12 DEF PendingInv, Number

LEMMA LessensPending ==
    ASSUME RtType, NumberInv, PendingInv, Lessens
    PROVE  PendingInv'
<1>1. Called' = Called /\ Called \subseteq Cmd
    BY RuntimeAssumption DEF Lessens, Called, Cmd, RtType
<1>2. \A n \in Cmd : /\ cmd'[n].seq = cmd[n].seq
                     /\ cmd'[n].out = "none" => cmd[n].out = "none"
                     /\ Unanswered(n)' => Unanswered(n) /\ pending'[cmd[n].seq] = pending[cmd[n].seq]
    BY DEF Lessens
<1>3. \A n \in Called : Latest(n) => Latest(n)'
    BY <1>1, <1>2 DEF Latest
<1>4. ASSUME NEW s \in Number, pending'[s] # 0
      PROVE  pending'[s] \in Called /\ cmd'[pending'[s]].seq = s /\ Latest(pending[s])'
  <2>1. PICK p \in Called : p = pending[s]
      BY <1>4 DEF Lessens, PendingInv
  <2>2. pending'[s] = p /\ cmd[p].seq = s /\ Latest(p)
      BY <1>4, <2>1 DEF Lessens, PendingInv
  <2>3. Latest(p)' /\ cmd'[p].seq = s
      BY <1>1, <1>2, <1>3, <2>2
  <2> QED BY <2>2, <2>3 DEF Latest
<1>5. calling' # 0 => Unanswered(calling)'
    BY DEF Lessens
<1>6. \A n \in Called : cmd'[n].out = "none" => Latest(n)'
    BY <1>1, <1>2, <1>3 DEF PendingInv
<1>7. \A n \in Called : Unanswered(n)' => pending'[cmd'[n].seq] = n
    BY <1>1, <1>2 DEF PendingInv
<1> QED BY <1>1, <1>4, <1>5, <1>6, <1>7 DEF PendingInv, Number

-----------------------------------------------------------------------------
(* Types.                                                                  *)

LEMMA CountersTyped ==
    ASSUME RtType, Lessens \/ \E t \in Nat, o \in Op : Begun(t, o)
    PROVE  /\ cmds' \in 0 .. MaxCmds /\ cmds <= cmds' /\ calling' \in 0 .. cmds'
           /\ seq' \in [at : 0 .. Round, tick : Nat]
<1>1. CASE Lessens
    BY <1>1 DEF Lessens, RtType
<1>2. ASSUME NEW t \in Nat, NEW o \in Op, Begun(t, o)
      PROVE  /\ cmds' \in 0 .. MaxCmds /\ cmds <= cmds' /\ calling' \in 0 .. cmds'
             /\ seq' \in [at : 0 .. Round, tick : Nat]
  <2>0. cmds + 1 \in Cmd /\ NumberAt(t) \in Number /\ cmds \in 0 .. MaxCmds
      BY <1>2 DEF Begun, RtType
  <2>1. cmds + 1 \in 0 .. MaxCmds /\ NumberAt(t) \in 0 .. Round /\ cmds \in Nat
      BY <2>0, RuntimeAssumption, RoundType DEF Cmd, Number
  <2>2. seq' = [at |-> NumberAt(t), tick |-> t] /\ cmds' = cmds + 1 /\ calling' = cmds + 1
      BY <1>2 DEF Begun
  <2> QED BY <2>1, <2>2
<1> QED BY <1>1, <1>2

(* What is sent, handled and handed over. *)
LEMMA PushMessage ==
    ASSUME RtType, NumberInv, PendingInv, Push
    PROVE  LET m == [op |-> cmd[calling].op, seq |-> cmd[calling].seq, cmd |-> calling] IN
           /\ calling \in Called /\ m \in Message /\ m.op \in Op
           /\ queue' = queue \/ (queue' = Append(queue, m) /\ gate /\ Len(queue) < QCap
                                 /\ UNCHANGED <<pending, cmd>>)
<1>1. calling \in Called
    BY PushLessens
<1>2. calling \in Cmd /\ cmd[calling] \in Command /\ calling \in 0 .. MaxCmds
    BY <1>1, CallNumber, RuntimeAssumption DEF RtType, Cmd
<1> DEFINE m == [op |-> cmd[calling].op, seq |-> cmd[calling].seq, cmd |-> calling]
<1>3. m \in Message /\ m.op \in Op
    BY <1>2 DEF Message, Command
<1>4. queue' = queue \/ (queue' = Append(queue, m) /\ gate /\ Len(queue) < QCap
                         /\ UNCHANGED <<pending, cmd>>)
    BY DEF Push
<1> QED BY <1>1, <1>3, <1>4

LEMMA HandledMessage ==
    ASSUME RtType, NumberInv, MessageInv, Handle
    PROVE  LET m == Head(queue)
               d == [kind |-> "done", seq |-> m.seq, cmd |-> m.cmd,
                     zero |-> m.op = "count" /\ ~live]
           IN  /\ m \in Message /\ m.op \in Op /\ m.cmd \in Called /\ m.seq = cmd[m.cmd].seq
               /\ m.op = cmd[m.cmd].op
               /\ d \in Completion /\ ready' \in {ready, Append(ready, d)}
               /\ queue # <<>> /\ queue' = Tail(queue)
<1> DEFINE m == Head(queue)
           d == [kind |-> "done", seq |-> m.seq, cmd |-> m.cmd, zero |-> m.op = "count" /\ ~live]
<1>1. queue # <<>> /\ queue' = Tail(queue) /\ m.op # "stop" /\ ready' \in {ready, Append(ready, d)}
    BY DEF Handle, Emit
<1>2. m \in Message /\ m = queue[1] /\ 1 \in 1 .. Len(queue)
    BY <1>1, Taken DEF RtType
<1>3. m.op \in Op
    BY <1>1, <1>2 DEF Message
<1>4. m.cmd \in Called /\ m.seq = cmd[m.cmd].seq /\ m.op = cmd[m.cmd].op
    BY <1>1, <1>2 DEF MessageInv
<1>5. m.cmd \in Cmd /\ m.seq \in Number
    BY <1>4, CallNumber
<1>6. (m.op = "count" /\ ~live) \in BOOLEAN
    OBVIOUS
<1> HIDE DEF m
<1>7. d \in Completion
    BY <1>5, <1>6 DEF Completion
<1> QED BY <1>1, <1>2, <1>3, <1>4, <1>7 DEF m

LEMMA TypeStep ==
    ASSUME RtInv, [Next]_vars
    PROVE  RtType'
<1> USE DEF RtInv
<1>1. Typed /\ cmds' \in 0 .. MaxCmds /\ cmds <= cmds' /\ calling' \in 0 .. cmds'
      /\ seq' \in [at : 0 .. Round, tick : Nat]
    BY StepCommands, CountersTyped
<1> DEFINE Lives == /\ state' \in {"new", "running", "closing", "closed", "dead"}
                    /\ life' \in {"new", "starting", "settings", "up", "fail_stop", "fail_join",
                                  "close_stop", "close_join", "close_log", "ended"}
                    /\ active' \in BOOLEAN /\ poisoned' \in BOOLEAN /\ sink' \in BOOLEAN
                    /\ onDead' \in Nat
           Tasks == /\ setting' \in 0 .. cmds'
                    /\ watch' \in [at : {"off", "sleeping", "pinging", "ended"}, cmd : 0 .. cmds']
                    /\ drain' \in [at : {"idle", "setting", "polling", "counting", "returned"},
                                   cmd : 0 .. cmds']
                    /\ draining' \in BOOLEAN
           Natives == /\ re' \in {"none", "init", "failed", "loop", "left", "unwind", "down", "dying", "gone"}
                      /\ gate' \in BOOLEAN /\ gDrain' \in BOOLEAN /\ live' \in BOOLEAN
                      /\ ours' \in BOOLEAN
           Queues == queue' \in Seq(Message) /\ Len(queue') <= QCap
           Readies == ready' \in Seq(Completion \cup Death)
<1>2. cmds \in Nat /\ cmds' \in Nat /\ 0 \in 0 .. cmds' /\ cmds' \in 0 .. cmds'
      /\ 0 .. cmds \subseteq 0 .. cmds'
    BY <1>1, RuntimeAssumption DEF RtType
<1>3. UNCHANGED lifeVars => Lives
    BY DEF lifeVars, RtType
<1>4. UNCHANGED taskVars => Tasks
    BY <1>2 DEF taskVars, RtType
<1>5. UNCHANGED <<re, gate, gDrain, live, ours>> => Natives
    BY DEF RtType
<1>6. UNCHANGED queue => Queues
    BY DEF RtType
<1>7. UNCHANGED ready => Readies
    BY DEF RtType
<1>8. ready # <<>> /\ ready' = Tail(ready) => Readies
    BY Taken DEF RtType
<1>9. queue # <<>> /\ queue' = Tail(queue) => Queues
  <2> SUFFICES ASSUME queue # <<>>, queue' = Tail(queue) PROVE Queues
      OBVIOUS
  <2>1. queue \in Seq(Message) /\ Len(queue) <= QCap /\ QCap \in Nat
      BY RuntimeAssumption DEF RtType
  <2>2. Tail(queue) \in Seq(Message) /\ Len(Tail(queue)) = Len(queue) - 1 /\ Len(queue) \in Nat
      BY <2>1, Taken
  <2> QED BY <2>1, <2>2
<1>11. Lives
  <2>1. CASE Push \/ Expiries \/ Coroutines \/ (Callbacks /\ ~FinishDeath)
      BY <1>3, <2>1 DEF Push, Callbacks, Dispatch, Resume, Expiries, Timeout, Coroutines,
         WatchPing, WatchRefused, WatchGoesOn, DrainBegin, DrainAgain, DrainAnswered, DrainPoll,
         DrainRaises
  <2>2. CASE FinishDeath
      BY <2>2 DEF FinishDeath, RtType
  <2>3. CASE (ReThread \/ Outside) /\ ~Die
      BY <1>3, <2>3 DEF ReThread, ReInit, Handle, HandleStop, LoopDone, Unwound, CheckClosing, Outside,
         LoopFails, CallArrives, CallEnds
  <2>4. CASE Die
      BY <2>4 DEF Die, RtType
  <2>5. CASE Started \/ StartReturns \/ StartFails
      BY <2>5 DEF Started, StartReturns, StartFails, RtType
  <2>6. CASE StartFailed \/ SendStop
      BY <2>6 DEF StartFailed, SendStop, RtType
  <2>7. CASE Joined \/ Closed
      BY <2>7 DEF Joined, Closed, RtType
  <2>8. CASE Start \/ Close
      BY <2>8 DEF Start, Close, RtType
  <2>9. CASE Setting \/ SettingApplied \/ Dial \/ \E n \in Cmd : Cancel(n)
      BY <1>3, <2>9 DEF Setting, SettingApplied, Dial, Cancel
  <2> QED BY <2>1, <2>2, <2>3, <2>4, <2>5, <2>6, <2>7, <2>8, <2>9, <1>3
          DEF Next, vars, Lifecycle, Application, Callbacks, ReThread
<1>12. Tasks
  <2>0. /\ setting \in 0 .. cmds'
        /\ watch \in [at : {"off", "sleeping", "pinging", "ended"}, cmd : 0 .. cmds']
        /\ drain \in [at : {"idle", "setting", "polling", "counting", "returned"}, cmd : 0 .. cmds']
        /\ draining \in BOOLEAN
      BY <1>2 DEF RtType
  <2>1. CASE Push \/ Callbacks \/ Expiries \/ ReThread \/ Outside
      BY <1>4, <2>1 DEF Push, Callbacks, Dispatch, FinishDeath, Resume, Expiries, Timeout,
         ReThread, ReInit, Handle, HandleStop, LoopDone, Unwound, CheckClosing, Die, Outside,
         LoopFails, CallArrives, CallEnds
  <2>2. CASE Started \/ StartFails \/ StartFailed \/ SendStop \/ Joined \/ Closed \/ Start
             \/ Dial \/ \E n \in Cmd : Cancel(n)
      BY <1>4, <2>2 DEF Started, StartFails, StartFailed, SendStop, Joined, Closed, Start, Dial,
         Cancel
  <2>3. CASE Setting \/ SettingApplied \/ StartReturns
      BY <1>2, <2>0, <2>3 DEF Setting, SettingApplied, StartReturns
  <2>4. CASE Close
      BY <1>2, <2>0, <2>4 DEF Close
  <2>5. CASE WatchPing \/ WatchRefused \/ WatchGoesOn
      BY <1>2, <2>0, <2>5 DEF WatchPing, WatchRefused, WatchGoesOn
  <2>6. CASE DrainBegin \/ DrainAgain \/ DrainPoll
    <3>1. drain' \in {[at |-> "setting", cmd |-> cmds'], [at |-> "counting", cmd |-> cmds']}
          /\ setting' = setting /\ watch' = watch /\ (draining' = draining \/ draining' = TRUE)
        BY <2>6 DEF DrainBegin, DrainAgain, DrainPoll
    <3>2. draining' \in BOOLEAN
        BY <2>0, <3>1, Zenon
    <3>3. setting' \in 0 .. cmds'
          /\ watch' \in [at : {"off", "sleeping", "pinging", "ended"}, cmd : 0 .. cmds']
        BY <2>0, <3>1
    <3>4. drain' \in [at : {"idle", "setting", "polling", "counting", "returned"}, cmd : 0 .. cmds']
        BY <1>2, <3>1
    <3> QED BY <3>2, <3>3, <3>4
  <2>7. CASE DrainAnswered \/ DrainRaises
      BY <1>2, <2>0, <2>7 DEF DrainAnswered, DrainRaises
  <2> QED BY <1>4, <2>1, <2>2, <2>3, <2>4, <2>5, <2>6, <2>7
          DEF Next, vars, Lifecycle, Application, Coroutines
<1>13. Natives
  <2>1. CASE Push \/ Callbacks \/ Expiries \/ Coroutines
      BY <1>5, <2>1 DEF Push, Callbacks, Dispatch, FinishDeath, Resume, Expiries, Timeout,
         Coroutines, WatchPing, WatchRefused, WatchGoesOn, DrainBegin, DrainAgain,
         DrainAnswered, DrainPoll, DrainRaises, reVars
  <2>2. CASE Lifecycle \/ Application
      BY <1>5, <2>2 DEF Lifecycle, Started, Setting, SettingApplied, StartReturns, StartFails,
         StartFailed, SendStop, Joined, Closed, Application, Start, Close, Dial, Cancel,
         reVars, RtType
  <2>3. CASE ReThread \/ Outside
      BY <2>3 DEF ReThread, ReInit, Handle, HandleStop, LoopDone, Unwound, CheckClosing, Die, Outside,
         LoopFails, CallArrives, CallEnds, RtType
  <2> QED BY <1>5, <2>1, <2>2, <2>3 DEF Next, vars, reVars
<1>14. Queues
  <2>1. CASE Callbacks \/ Expiries \/ Coroutines \/ Application
      BY <1>6, <2>1 DEF Callbacks, Dispatch, FinishDeath, Resume, Expiries, Timeout,
         Coroutines, WatchPing, WatchRefused, WatchGoesOn, DrainBegin, DrainAgain,
         DrainAnswered, DrainPoll, DrainRaises, Application, Start, Close, Dial, Cancel, reVars
  <2>0. ASSUME NEW m \in Message,
               queue' = queue \/ (queue' = Append(queue, m) /\ Len(queue) < QCap)
        PROVE  Queues
    <3>1. queue \in Seq(Message) /\ Len(queue) \in Nat /\ QCap \in Nat
        BY RuntimeAssumption DEF RtType
    <3>2. Append(queue, m) \in Seq(Message) /\ Len(Append(queue, m)) = Len(queue) + 1
        BY <3>1, Appended
    <3>3. CASE queue' = queue
        BY <1>6, <3>3
    <3>4. CASE queue' = Append(queue, m) /\ Len(queue) < QCap
        BY <3>1, <3>2, <3>4
    <3> QED BY <2>0, <3>3, <3>4
  <2>2. CASE Push
    <3> DEFINE m == [op |-> cmd[calling].op, seq |-> cmd[calling].seq, cmd |-> calling]
    <3>1. m \in Message /\ (queue' = queue \/ (queue' = Append(queue, m) /\ Len(queue) < QCap))
        BY <2>2, PushMessage
    <3> HIDE DEF m, Queues
    <3> QED BY <2>0, <3>1
  <2>3. CASE SendStop
    <3> DEFINE m == [op |-> "stop", seq |-> 0, cmd |-> 0]
    <3>1. m \in Message /\ (queue' = queue \/ (queue' = Append(queue, m) /\ Len(queue) < QCap))
        BY <2>3, RuntimeAssumption, RoundType DEF SendStop, Message
    <3> HIDE DEF m, Queues
    <3> QED BY <2>0, <3>1
  <2>4. CASE Lifecycle /\ ~SendStop
      BY <1>6, <2>4 DEF Lifecycle, Started, Setting, SettingApplied, StartReturns, StartFails,
         StartFailed, Joined, Closed, reVars
  <2>5. CASE LoopDone
      BY <2>5, RuntimeAssumption DEF LoopDone
  <2>6. CASE (ReThread \/ Outside) /\ ~LoopDone
      BY <1>6, <1>9, <2>6, RuntimeAssumption
         DEF ReThread, ReInit, Handle, HandleStop, Unwound, CheckClosing, Die, Outside,
             LoopFails, CallArrives, CallEnds
  <2> QED BY <1>6, <2>1, <2>2, <2>3, <2>4, <2>5, <2>6 DEF Next, vars, reVars
<1>15. Readies
  <2>1. CASE Push \/ Expiries \/ Coroutines \/ Lifecycle \/ Application
      BY <1>7, <2>1 DEF Push, Expiries, Timeout, Coroutines, WatchPing, WatchRefused,
         WatchGoesOn, DrainBegin, DrainAgain, DrainAnswered, DrainPoll, DrainRaises, Lifecycle,
         Started, Setting, SettingApplied, StartReturns, StartFails, StartFailed, SendStop,
         Joined, Closed, Application, Start, Close, Dial, Cancel
  <2>2. CASE Callbacks
      BY <1>7, <1>8, <2>2 DEF Callbacks, Dispatch, FinishDeath, Resume
  <2>3. CASE Handle
    <3> DEFINE m == Head(queue)
               d == [kind |-> "done", seq |-> m.seq, cmd |-> m.cmd,
                     zero |-> m.op = "count" /\ ~live]
    <3>1. d \in Completion \cup Death /\ ready' \in {ready, Append(ready, d)}
        BY <2>3, HandledMessage
    <3>2. ready \in Seq(Completion \cup Death)
        BY DEF RtType
    <3> HIDE DEF d
    <3>3. Append(ready, d) \in Seq(Completion \cup Death)
        BY <3>1, <3>2, Appended
    <3> QED BY <3>1, <3>2, <3>3
  <2>4. CASE Die
    <3>1. [kind |-> "death"] \in Completion \cup Death
        BY DEF Death
    <3> QED BY <2>4, <3>1, Appended DEF Die, RtType
  <2>5. CASE (ReThread \/ Outside) /\ ~Handle /\ ~Die
      BY <1>7, <2>5 DEF ReThread, ReInit, HandleStop, LoopDone, Unwound, CheckClosing, Outside,
         LoopFails, CallArrives, CallEnds
  <2> QED BY <1>7, <2>1, <2>2, <2>3, <2>4, <2>5 DEF Next, vars
<1> HIDE DEF Lives, Tasks, Natives, Queues, Readies
<1> QED BY <1>1, <1>11, <1>12, <1>13, <1>14, <1>15 DEF Lives, Tasks, Natives, Queues, Readies,
           RtType, Typed, Cmd, Number, Round, Command, Message, Completion

-----------------------------------------------------------------------------
(* How a step changes the queue, the callbacks and the answers.            *)

LEMMA QueueStep ==
    ASSUME RtInv, [Next]_vars
    PROVE  \/ queue' = queue
           \/ (Handle \/ HandleStop) /\ queue # <<>> /\ queue' = Tail(queue)
           \/ LoopDone /\ queue' = <<>>
           \/ /\ Push /\ gate /\ calling \in Called /\ UNCHANGED <<pending, cmd>>
              /\ \E m \in Message : /\ queue' = Append(queue, m)
                                    /\ m.op = cmd[calling].op /\ m.op \in Op
                                    /\ m.seq = cmd[calling].seq /\ m.cmd = calling
           \/ /\ SendStop /\ gate
              /\ \E m \in Message : queue' = Append(queue, m) /\ m.op = "stop"
<1>1. CASE Push
  <2> DEFINE m == [op |-> cmd[calling].op, seq |-> cmd[calling].seq, cmd |-> calling]
  <2>1. /\ calling \in Called /\ m \in Message /\ m.op \in Op
        /\ queue' = queue \/ (queue' = Append(queue, m) /\ gate /\ Len(queue) < QCap
                              /\ UNCHANGED <<pending, cmd>>)
      BY <1>1, PushMessage DEF RtInv
  <2>2. m.op = cmd[calling].op /\ m.seq = cmd[calling].seq /\ m.cmd = calling
      OBVIOUS
  <2> HIDE DEF m
  <2> QED BY <1>1, <2>1, <2>2
<1>2. CASE SendStop
  <2> DEFINE m == [op |-> "stop", seq |-> 0, cmd |-> 0]
  <2>1. m \in Message /\ (queue' = queue \/ (queue' = Append(queue, m) /\ gate)) /\ m.op = "stop"
      BY <1>2, RuntimeAssumption, RoundType DEF SendStop, Message
  <2> HIDE DEF m
  <2> QED BY <1>2, <2>1
<1>3. CASE Callbacks \/ Expiries \/ Coroutines \/ Application
  <2>1. queue' = queue
      BY <1>3 DEF Callbacks, Dispatch, FinishDeath, Resume, Expiries, Timeout,
         Coroutines, WatchPing, WatchRefused, WatchGoesOn, DrainBegin, DrainAgain,
         DrainAnswered, DrainPoll, DrainRaises, Application, Start, Close, Dial, Cancel, reVars
  <2> QED BY <2>1
<1>4. CASE Lifecycle /\ ~SendStop
  <2>1. queue' = queue
      BY <1>4 DEF Lifecycle, Started, Setting, SettingApplied, StartReturns, StartFails,
         StartFailed, Joined, Closed, reVars
  <2> QED BY <2>1
<1>5. CASE ReThread \/ Outside
  <2>1. \/ queue' = queue \/ (LoopDone /\ queue' = <<>>)
        \/ (Handle \/ HandleStop) /\ queue # <<>> /\ queue' = Tail(queue)
      BY <1>5 DEF ReThread, ReInit, Handle, HandleStop, LoopDone, Unwound, CheckClosing, Die, Outside,
         LoopFails, CallArrives, CallEnds
  <2> QED BY <2>1
<1>6. CASE UNCHANGED vars
    BY <1>6 DEF vars, reVars
<1> QED BY <1>1, <1>2, <1>3, <1>4, <1>5, <1>6 DEF Next

LEMMA ReadyStep ==
    ASSUME RtInv, [Next]_vars
    PROVE  \/ ready' = ready
           \/ (Dispatch \/ FinishDeath) /\ ready # <<>> /\ ready' = Tail(ready)
           \/ /\ Handle
              /\ \E d \in Completion :
                    /\ ready' = Append(ready, d)
                    /\ d.kind = "done" /\ d.seq = Head(queue).seq /\ d.cmd = Head(queue).cmd
                    /\ d.zero => Head(queue).op = "count" /\ ~live
           \/ Die /\ \E d \in Death : ready' = Append(ready, d) /\ d.kind = "death"
<1>1. CASE Handle
  <2> DEFINE m == Head(queue)
             d == [kind |-> "done", seq |-> m.seq, cmd |-> m.cmd, zero |-> m.op = "count" /\ ~live]
  <2>1. d \in Completion /\ ready' \in {ready, Append(ready, d)}
      BY <1>1, HandledMessage DEF RtInv
  <2>2. d.kind = "done" /\ d.seq = m.seq /\ d.cmd = m.cmd /\ (d.zero => m.op = "count" /\ ~live)
      OBVIOUS
  <2> HIDE DEF d
  <2> QED BY <1>1, <2>1, <2>2
<1>2. CASE Die
  <2> DEFINE d == [kind |-> "death"]
  <2>1. d \in Death /\ d.kind = "death" /\ ready' = Append(ready, d)
      BY <1>2 DEF Die, Death
  <2> HIDE DEF d
  <2> QED BY <1>2, <2>1
<1>3. CASE Push \/ Expiries \/ Coroutines
  <2>1. ready' = ready
      BY <1>3 DEF Push, Expiries, Timeout, Coroutines, WatchPing, WatchRefused,
         WatchGoesOn, DrainBegin, DrainAgain, DrainAnswered, DrainPoll, DrainRaises
  <2> QED BY <2>1
<1>4. CASE Lifecycle \/ Application
  <2>1. ready' = ready
      BY <1>4 DEF Lifecycle,
         Started, Setting, SettingApplied, StartReturns, StartFails, StartFailed, SendStop,
         Joined, Closed, Application, Start, Close, Dial, Cancel
  <2> QED BY <2>1
<1>5. CASE Callbacks
    BY <1>5 DEF Callbacks, Dispatch, FinishDeath, Resume
<1>6. CASE (ReThread \/ Outside) /\ ~Handle /\ ~Die
  <2>1. ready' = ready
      BY <1>6 DEF ReThread, ReInit, HandleStop, LoopDone, Unwound, CheckClosing, Outside,
         LoopFails, CallArrives, CallEnds
  <2> QED BY <2>1
<1>7. CASE UNCHANGED vars
    BY <1>7 DEF vars
<1> QED BY <1>1, <1>2, <1>3, <1>4, <1>5, <1>6, <1>7 DEF Next

LEMMA CalledKeep ==
    ASSUME RtInv, [Next]_vars
    PROVE  \A n \in Called : /\ n \in Called' /\ n \in Cmd
                             /\ cmd'[n].seq = cmd[n].seq /\ cmd'[n].tick = cmd[n].tick
                             /\ cmd'[n].op = cmd[n].op
<1>1. Called \subseteq Cmd /\ cmds \in Nat
    BY RuntimeAssumption DEF RtInv, RtType, Called, Cmd
<1>2. CASE Lessens
    BY <1>1, <1>2 DEF Lessens, Called
<1>3. ASSUME NEW t \in Nat, NEW o \in Op, Begun(t, o)
      PROVE  \A n \in Called : n \in Called' /\ cmd'[n] = cmd[n]
  <2>1. \A n \in Called : n # cmds + 1 /\ n \in 1 .. (cmds + 1)
      BY <1>1 DEF Called
  <2>2. cmds' = cmds + 1 /\ \A n \in Cmd : n # cmds + 1 => cmd'[n] = cmd[n]
      BY <1>3 DEF Begun, RtInv, RtType
  <2> QED BY <1>1, <2>1, <2>2 DEF Called
<1> QED BY <1>1, <1>2, <1>3, StepCommands DEF RtInv

(* Only a completion makes an answer. *)
LEMMA Answers ==
    ASSUME RtInv, [Next]_vars, ~Dispatch
    PROVE  \A n \in Cmd : /\ cmd'[n].from = cmd[n].from /\ cmd'[n].zero = cmd[n].zero
                          /\ cmd'[n].fut = "answer" <=> cmd[n].fut = "answer"
<1> DEFINE K == \A n \in Cmd : /\ cmd'[n].from = cmd[n].from /\ cmd'[n].zero = cmd[n].zero
                               /\ cmd'[n].fut = "answer" <=> cmd[n].fut = "answer"
<1>0. cmd \in [Cmd -> Command]
    BY DEF RtInv, RtType
<1>1. CASE \E o \in Op : Begins(o)
  <2>1. PICK t \in Nat, o \in Op : Begun(t, o)
      BY <1>1, BeginBegun DEF Begins, RtInv
  <2> DEFINE r == [NoCommand EXCEPT !.seq = NumberAt(t), !.tick = t, !.op = o, !.fut = "open"]
  <2>2. r.from = 0 /\ r.zero = FALSE /\ r.fut = "open"
      BY DEF NoCommand
  <2>3. cmds + 1 \in Cmd /\ cmd' = [cmd EXCEPT ![cmds + 1] = r]
      BY <2>1 DEF Begun
  <2>4. cmd[cmds + 1] = NoCommand
    <3>1. cmds \in Nat
        BY RuntimeAssumption DEF RtInv, RtType
    <3>2. cmds + 1 \notin Called
        BY <3>1 DEF Called
    <3> QED BY <2>3, <3>2 DEF RtInv, NumberInv
  <2>5. cmd[cmds + 1].from = 0 /\ cmd[cmds + 1].zero = FALSE /\ cmd[cmds + 1].fut = "none"
      BY <2>4 DEF NoCommand
  <2> HIDE DEF r
  <2> QED BY <1>0, <2>2, <2>3, <2>5
<1>2. CASE Aside
    BY <1>2 DEF Aside, cmdVars
<1>3. CASE cmd' = cmd
    BY <1>3
<1>4. ASSUME NEW n, NEW o, NEW f, cmd' = [cmd EXCEPT ![n].out = o, ![n].fut = f],
             n \in Cmd => (f = "answer" <=> cmd[n].fut = "answer")
      PROVE  K
    BY <1>0, <1>4 DEF Command
<1>5. CASE Push
  <2>1. calling \in Called
      BY <1>5, PushLessens DEF RtInv
  <2>2. cmd' = cmd \/ \E o \in {"full", "refused"} : cmd' = [cmd EXCEPT ![calling].out = o]
      BY <1>5 DEF Push, Finished
  <2>3. ASSUME NEW o \in {"full", "refused"}, cmd' = [cmd EXCEPT ![calling].out = o]
        PROVE  K
      BY <1>0, <2>3 DEF Command
  <2> QED BY <1>3, <2>2, <2>3
<1>6. CASE Resumes
  <2>1. PICK n \in Cmd : Resume(n) \/ Timeout(n) \/ Cancel(n)
      BY <1>6 DEF Resumes
  <2>2. CASE Resume(n)
    <3>1. cmd' = [cmd EXCEPT ![n].out = cmd[n].fut]
        BY <2>2 DEF Resume, Finished
    <3> QED BY <1>0, <3>1 DEF Command
  <2>3. CASE Timeout(n) \/ Cancel(n)
    <3> DEFINE f == IF cmd[n].fut = "open" THEN "cancelled" ELSE cmd[n].fut
    <3>1. \E o \in {"timeout", "cancelled"} : cmd' = [cmd EXCEPT ![n].out = o, ![n].fut = f]
        BY <2>3 DEF Timeout, Cancel, Cancelled
    <3>2. f = "answer" <=> cmd[n].fut = "answer"
        OBVIOUS
    <3> HIDE DEF f
    <3> QED BY <1>4, <3>1, <3>2
  <2> QED BY <2>1, <2>2, <2>3
<1>7. ASSUME NEW why \in {"dead", "closed"}, FailPending(why, cmd)
      PROVE  K
  <2>1. \A n \in Cmd : cmd'[n] = cmd[n]
                       \/ (cmd'[n] = [cmd[n] EXCEPT !.fut = why] /\ cmd[n].fut = "open")
      BY <1>7 DEF FailPending
  <2> SUFFICES ASSUME NEW n \in Cmd
               PROVE  /\ cmd'[n].from = cmd[n].from /\ cmd'[n].zero = cmd[n].zero
                      /\ cmd'[n].fut = "answer" <=> cmd[n].fut = "answer"
      OBVIOUS
  <2> DEFINE r == [cmd[n] EXCEPT !.fut = why]
  <2>2. r.from = cmd[n].from /\ r.zero = cmd[n].zero /\ r.fut = why
      BY <1>0 DEF Command
  <2>3. why # "answer"
      OBVIOUS
  <2> HIDE DEF r
  <2>4. cmd'[n] = cmd[n] \/ (cmd'[n] = r /\ cmd[n].fut = "open")
      BY <2>1 DEF r
  <2> QED BY <2>2, <2>3, <2>4
<1>8. CASE FinishDeath \/ Joined
    BY <1>7, <1>8 DEF FinishDeath, Joined
<1>9. CASE Close
  <2>1. cmd' = cmd \/ cmd' = Cancelled(watch.cmd)
      BY <1>9 DEF Close
  <2> DEFINE f == IF cmd[watch.cmd].fut = "open" THEN "cancelled" ELSE cmd[watch.cmd].fut
  <2>2. cmd' = cmd \/ cmd' = [cmd EXCEPT ![watch.cmd].out = "cancelled", ![watch.cmd].fut = f]
      BY <2>1 DEF Cancelled
  <2>3. f = "answer" <=> cmd[watch.cmd].fut = "answer"
      OBVIOUS
  <2> HIDE DEF f
  <2> QED BY <1>3, <1>4, <2>2, <2>3
<1> QED BY <1>1, <1>2, <1>5, <1>6, <1>8, <1>9, NextSplit

-----------------------------------------------------------------------------
(* Preservation.                                                           *)

LEMMA NumberStep ==
    ASSUME RtInv, [Next]_vars
    PROVE  NumberInv' /\ PendingInv'
BY StepCommands, BegunNumber, BegunPending, LessensNumber, LessensPending DEF RtInv

(* A message matches its command wherever it is. *)
Sent(m) ==
    m.op # "stop" => m.cmd \in Called /\ m.seq = cmd[m.cmd].seq /\ m.op = cmd[m.cmd].op

Back(d) == d.kind = "done" => d.cmd \in Called /\ d.seq = cmd[d.cmd].seq

LEMMA MessageQueue ==
    ASSUME RtInv, [Next]_vars
    PROVE  \A i \in 1 .. Len(queue') : Sent(queue[i])'
<1>1. queue \in Seq(Message) /\ \A i \in 1 .. Len(queue) : Sent(queue[i])
    BY DEF RtInv, RtType, MessageInv, Sent
<1>2. \A i \in 1 .. Len(queue) :
          queue[i].op # "stop" => /\ queue[i].cmd \in Called'
                                  /\ queue[i].seq = cmd'[queue[i].cmd].seq
                                  /\ queue[i].op = cmd'[queue[i].cmd].op
    BY <1>1, CalledKeep DEF Sent
<1>3. CASE queue' = queue
    BY <1>2, <1>3 DEF Sent
<1>4. CASE queue # <<>> /\ queue' = Tail(queue)
  <2>1. Len(queue') = Len(queue) - 1 /\ Len(queue) \in Nat
        /\ \A i \in 1 .. Len(queue') : queue'[i] = queue[i + 1]
      BY <1>1, <1>4, Taken
  <2>2. \A i \in 1 .. Len(queue') : i + 1 \in 1 .. Len(queue)
      BY <2>1
  <2> QED BY <1>2, <2>1, <2>2 DEF Sent
<1>5. CASE queue' = <<>>
    BY <1>5
<1>6. ASSUME NEW m \in Message, queue' = Append(queue, m),
             m.op # "stop" => m.cmd \in Called' /\ m.seq = cmd'[m.cmd].seq /\ m.op = cmd'[m.cmd].op
      PROVE  \A i \in 1 .. Len(queue') : Sent(queue[i])'
  <2>1. Len(queue') = Len(queue) + 1 /\ Len(queue) \in Nat
        /\ \A i \in 1 .. Len(queue') : queue'[i] = IF i <= Len(queue) THEN queue[i] ELSE m
      BY <1>1, <1>6, Appended
  <2>2. \A i \in 1 .. Len(queue') : i \in 1 .. Len(queue) \/ queue'[i] = m
      BY <2>1
  <2> QED BY <1>2, <1>6, <2>1, <2>2 DEF Sent
<1>7. CASE \/ Push /\ calling \in Called /\ UNCHANGED <<pending, cmd>>
              /\ \E m \in Message : /\ queue' = Append(queue, m)
                                    /\ m.op = cmd[calling].op /\ m.op \in Op
                                    /\ m.seq = cmd[calling].seq /\ m.cmd = calling
           \/ \E m \in Message : queue' = Append(queue, m) /\ m.op = "stop"
    BY <1>6, <1>7, CalledKeep
<1> QED BY <1>3, <1>4, <1>5, <1>7, QueueStep

LEMMA MessageReady ==
    ASSUME RtInv, [Next]_vars
    PROVE  \A i \in 1 .. Len(ready') : Back(ready[i])'
<1>1. ready \in Seq(Completion \cup Death) /\ \A i \in 1 .. Len(ready) : Back(ready[i])
    BY DEF RtInv, RtType, MessageInv, Back
<1>2. \A i \in 1 .. Len(ready) :
          ready[i].kind = "done" => /\ ready[i].cmd \in Called'
                                    /\ ready[i].seq = cmd'[ready[i].cmd].seq
    BY <1>1, CalledKeep DEF Back
<1>3. CASE ready' = ready
    BY <1>2, <1>3 DEF Back
<1>4. CASE ready # <<>> /\ ready' = Tail(ready)
  <2>1. Len(ready') = Len(ready) - 1 /\ Len(ready) \in Nat
        /\ \A i \in 1 .. Len(ready') : ready'[i] = ready[i + 1]
      BY <1>1, <1>4, Taken
  <2>2. \A i \in 1 .. Len(ready') : i + 1 \in 1 .. Len(ready)
      BY <2>1
  <2> QED BY <1>2, <2>1, <2>2 DEF Back
<1>5. ASSUME NEW d \in Completion \cup Death, ready' = Append(ready, d),
             d.kind = "done" => d.cmd \in Called' /\ d.seq = cmd'[d.cmd].seq
      PROVE  \A i \in 1 .. Len(ready') : Back(ready[i])'
  <2>1. Len(ready') = Len(ready) + 1 /\ Len(ready) \in Nat
        /\ \A i \in 1 .. Len(ready') : ready'[i] = IF i <= Len(ready) THEN ready[i] ELSE d
      BY <1>1, <1>5, Appended
  <2>2. \A i \in 1 .. Len(ready') : i \in 1 .. Len(ready) \/ ready'[i] = d
      BY <2>1
  <2> QED BY <1>2, <1>5, <2>1, <2>2 DEF Back
<1>6. ASSUME Handle, NEW d \in Completion, ready' = Append(ready, d),
             d.seq = Head(queue).seq, d.cmd = Head(queue).cmd
      PROVE  \A i \in 1 .. Len(ready') : Back(ready[i])'
  <2>1. d.cmd \in Called /\ d.seq = cmd[d.cmd].seq
      BY <1>6, HandledMessage DEF RtInv
  <2> QED BY <1>5, <1>6, <2>1, CalledKeep
<1>7. ASSUME NEW d \in Death, ready' = Append(ready, d), d.kind = "death"
      PROVE  \A i \in 1 .. Len(ready') : Back(ready[i])'
    BY <1>5, <1>7
<1> QED BY <1>3, <1>4, <1>6, <1>7, ReadyStep

(* A completion goes to its own command, or to one that has the number a    *)
(* round later.                                                            *)
LEMMA MessageStep ==
    ASSUME RtInv, [Next]_vars
    PROVE  MessageInv'
<1>1. cmds \in Nat /\ cmds' \in Nat /\ cmds <= cmds' /\ Called \subseteq Cmd
    BY StepCommands, CountersTyped, RuntimeAssumption DEF RtInv, RtType, Called, Cmd
<1>2. CASE ~Dispatch
  <2>1. \A n \in Cmd : cmd'[n].from = cmd[n].from /\ (cmd'[n].fut = "answer" <=> cmd[n].fut = "answer")
      BY <1>2, Answers
  <2>2. \A n \in Cmd : cmd[n].from \in Nat /\ cmd[n].from <= cmds
    <3>1. \A n \in Cmd : cmd[n] \in Command
        BY DEF RtInv, RtType
    <3> QED BY <3>1, RuntimeAssumption DEF Command, RtInv, MessageInv
  <2>3. \A n \in Cmd : cmd'[n].from <= cmds'
      BY <1>1, <2>1, <2>2
  <2>4. ASSUME NEW n \in Called', cmd'[n].fut = "answer"
        PROVE  /\ cmd'[n].from \in Called'
               /\ cmd'[n].from # n => cmd'[n].tick - cmd'[cmd'[n].from].tick >= Round
    <3>1. n \in Cmd
        BY TypeStep, RuntimeAssumption DEF RtType, Called, Cmd
    <3>2. n \in Called /\ cmd[n].fut = "answer" /\ cmd'[n].from = cmd[n].from
      <4>1. cmd[n].fut = "answer" /\ cmd'[n].from = cmd[n].from
          BY <2>1, <2>4, <3>1
      <4> QED BY <3>1, <4>1 DEF RtInv, NumberInv, NoCommand
    <3>3. cmd[n].from \in Called
          /\ (cmd[n].from # n => cmd[n].tick - cmd[cmd[n].from].tick >= Round)
        BY <3>2 DEF RtInv, MessageInv
    <3> QED BY <3>2, <3>3, CalledKeep
  <2> QED BY <2>3, <2>4, MessageQueue, MessageReady DEF MessageInv, Sent, Back
<1>3. CASE Dispatch
  <2> DEFINE done == Head(ready)
             u == done.seq
             n == pending[u]
  <2>0. cmd \in [Cmd -> Command] /\ cmds' = cmds /\ Called' = Called
      BY <1>3 DEF RtInv, RtType, Dispatch, Called
  <2>1. done.kind = "done" /\ done.cmd \in Called /\ done.seq = cmd[done.cmd].seq
        /\ done.seq \in Number
    <3>1. done = ready[1] /\ 1 \in 1 .. Len(ready)
        BY <1>3, Taken, SMTT(30) DEF Dispatch, RtInv, RtType
    <3> QED BY <1>3, <3>1, CallNumber DEF Dispatch, RtInv, MessageInv
  <2>2. CASE cmd' = cmd
      BY <2>0, <2>2, MessageQueue, MessageReady DEF MessageInv, Sent, Back, RtInv
  <2>3. CASE n # 0 /\ cmd[n].fut = "open"
    <3>1. n \in Called /\ cmd[n].seq = u /\ Latest(n) /\ n \in Cmd
        BY <1>1, <2>1, <2>3 DEF RtInv, PendingInv
    <3>2. cmd' = [cmd EXCEPT ![n].fut = "answer", ![n].from = done.cmd, ![n].zero = done.zero]
        BY <1>3, <2>3 DEF Dispatch
    <3>3. cmd'[n].from = done.cmd /\ cmd'[n].tick = cmd[n].tick
          /\ \A m \in Cmd : m # n => cmd'[m] = cmd[m]
        BY <2>0, <3>1, <3>2 DEF Command
    <3>4. \A m \in Called : cmd'[m].tick = cmd[m].tick /\ m \in Cmd
        BY <1>1, <3>3
    <3>5. ASSUME done.cmd # n
          PROVE  cmd[n].tick - cmd[done.cmd].tick >= Round
      <4> DEFINE a == cmd[done.cmd].tick
                 b == cmd[n].tick
      <4>1. done.cmd < n
          BY <1>1, <2>1, <3>1, <3>5 DEF Latest, Called
      <4>2. a < b /\ a \in Nat \ {0} /\ b \in Nat \ {0}
            /\ NumberAt(a) = u /\ NumberAt(b) = u
          BY <2>1, <3>1, <4>1 DEF RtInv, NumberInv, RtType
      <4> HIDE DEF a, b
      <4>3. ~(b - a < Round)
          BY <4>2, NumberAtDistinct
      <4>4. b - a >= Round
          BY <4>2, <4>3, RoundType
      <4> QED BY <4>4 DEF a, b
    <3>6. \A m \in Cmd : cmd'[m].from <= cmds
        BY <1>1, <2>1, <3>3 DEF RtInv, MessageInv, Called
    <3>7. ASSUME NEW m \in Called, cmd'[m].fut = "answer"
          PROVE  /\ cmd'[m].from \in Called
                 /\ cmd'[m].from # m => cmd'[m].tick - cmd'[cmd'[m].from].tick >= Round
      <4>1. CASE m = n
          BY <2>1, <3>3, <3>4, <3>5, <4>1
      <4>2. CASE m # n
        <5>1. cmd'[m] = cmd[m] /\ cmd[m].fut = "answer"
            BY <3>3, <3>4, <3>7, <4>2
        <5>2. cmd[m].from \in Called
              /\ (cmd[m].from # m => cmd[m].tick - cmd[cmd[m].from].tick >= Round)
            BY <5>1 DEF RtInv, MessageInv
        <5> QED BY <3>4, <5>1, <5>2
      <4> QED BY <4>1, <4>2
    <3> QED BY <2>0, <3>6, <3>7, MessageQueue, MessageReady DEF MessageInv, Sent, Back
  <2> QED BY <1>3, <2>2, <2>3 DEF Dispatch
<1> QED BY <1>2, <1>3

StopQueued == \E i \in 1 .. Len(queue) : queue[i].op = "stop"

LEMMA StopQueuedStep ==
    ASSUME RtInv, [Next]_vars, StopQueued'
    PROVE  StopQueued \/ SendStop
<1>1. queue \in Seq(Message)
    BY DEF RtInv, RtType
<1>2. CASE queue' = queue
    BY <1>2 DEF StopQueued
<1>3. CASE queue # <<>> /\ queue' = Tail(queue)
  <2>1. Len(queue') = Len(queue) - 1 /\ Len(queue) \in Nat
        /\ \A i \in 1 .. Len(queue') : queue'[i] = queue[i + 1]
      BY <1>1, <1>3, Taken
  <2>2. \A i \in 1 .. Len(queue') : i + 1 \in 1 .. Len(queue)
      BY <2>1
  <2> QED BY <2>1, <2>2 DEF StopQueued
<1>4. CASE queue' = <<>>
    BY <1>4 DEF StopQueued
<1>5. ASSUME NEW m \in Message, queue' = Append(queue, m), m.op \in Op
      PROVE  StopQueued
  <2>1. Len(queue') = Len(queue) + 1 /\ Len(queue) \in Nat
        /\ \A i \in 1 .. Len(queue') : queue'[i] = IF i <= Len(queue) THEN queue[i] ELSE m
      BY <1>1, <1>5, Appended
  <2>2. \A i \in 1 .. Len(queue') : i \in 1 .. Len(queue) \/ queue'[i] = m
      BY <2>1
  <2>3. m.op # "stop"
      BY <1>5 DEF Op
  <2> QED BY <2>1, <2>2, <2>3 DEF StopQueued
<1> QED BY <1>2, <1>3, <1>4, <1>5, QueueStep

(* The stop that HandleStop takes is one that was queued. *)
LEMMA StopTaken ==
    ASSUME RtInv, HandleStop
    PROVE  StopQueued
<1>1. Head(queue) = queue[1] /\ 1 \in 1 .. Len(queue)
    BY Taken DEF RtInv, RtType, HandleStop
<1> QED BY <1>1 DEF HandleStop, StopQueued

(* What LifeInv speaks of stays as it is. *)
Calm ==
    /\ UNCHANGED <<state, life, active, poisoned, re, gate, ours>>
    /\ watch'.at # "off" => watch.at # "off"

Turns ==
    \/ Start \/ Started \/ StartReturns \/ StartFails \/ StartFailed \/ Close \/ SendStop
    \/ Joined \/ Closed \/ ReInit \/ HandleStop \/ LoopFails \/ LoopDone \/ Unwound \/ CheckClosing \/ Die

LEMMA CalmOrTurn ==
    ASSUME [Next]_vars
    PROVE  Calm \/ Turns
<1>1. CASE Push \/ Callbacks \/ Expiries
    BY <1>1 DEF Push, Callbacks, Dispatch, FinishDeath, Resume, Expiries, Timeout,
                lifeVars, taskVars, reVars, Calm
<1>2. CASE Coroutines
  <2>1. UNCHANGED <<state, life, active, poisoned, re, gate, ours>>
      BY <1>2 DEF Coroutines, WatchPing, WatchRefused, WatchGoesOn, DrainBegin, DrainAgain,
         DrainAnswered, DrainPoll, DrainRaises, lifeVars, reVars
  <2>2. watch'.at # "off" => watch.at # "off"
      BY <1>2 DEF Coroutines, WatchPing, WatchRefused, WatchGoesOn, DrainBegin, DrainAgain,
         DrainAnswered, DrainPoll, DrainRaises
  <2> QED BY <2>1, <2>2 DEF Calm
<1>3. CASE Setting \/ SettingApplied \/ Dial \/ \E n \in Cmd : Cancel(n)
    BY <1>3 DEF Setting, SettingApplied, Dial, Cancel, lifeVars, taskVars, reVars, Calm
<1>4. CASE Handle \/ CallArrives \/ CallEnds
    BY <1>4 DEF Handle, CallArrives, CallEnds, lifeVars, taskVars, Calm
<1>5. CASE UNCHANGED vars
    BY <1>5 DEF vars, lifeVars, taskVars, reVars, Calm
<1> QED BY <1>1, <1>2, <1>3, <1>4, <1>5
        DEF Next, Lifecycle, Application, ReThread, Outside, Turns

LEMMA LifeStep ==
    ASSUME RtInv, [Next]_vars
    PROVE  LifeInv'
<1>1. LifeInv /\ (StopQueued' => StopQueued \/ SendStop)
    BY StopQueuedStep DEF RtInv
<1>2. CASE Calm
  <2>1. StopQueued' => StopQueued \/ (SendStop /\ life' = life)
      BY <1>1, <1>2 DEF Calm
  <2>2. ~(SendStop /\ life' = life)
      BY DEF SendStop
  <2> QED BY <1>1, <1>2, <2>1, <2>2 DEF Calm, LifeInv, StopQueued, Alive, Ending
<1>3. CASE SendStop
    BY <1>1, <1>3 DEF SendStop, LifeInv, Alive, Ending, taskVars, cmdVars, StopQueued
<1> DEFINE Next1 == ~SendStop /\ (StopQueued' => StopQueued)
<1>4. CASE Start /\ Next1
    BY <1>1, <1>4 DEF Start, LifeInv, Alive, Ending, taskVars, StopQueued
<1>5. CASE Started /\ Next1
    BY <1>1, <1>5 DEF Started, LifeInv, Alive, Ending, taskVars, reVars, StopQueued
<1>6. CASE StartReturns /\ Next1
    BY <1>1, <1>6 DEF StartReturns, LifeInv, Alive, Ending, reVars, StopQueued
<1>7. CASE StartFails /\ Next1
    BY <1>1, <1>7 DEF StartFails, LifeInv, Alive, Ending, taskVars, reVars, StopQueued
<1>8. CASE StartFailed /\ Next1
    BY <1>1, <1>8 DEF StartFailed, LifeInv, Alive, Ending, taskVars, reVars, StopQueued
<1>9. CASE Close /\ Next1
    BY <1>1, <1>9 DEF Close, LifeInv, Alive, Ending, reVars, StopQueued
<1>10. CASE Joined /\ Next1
    BY <1>1, <1>10 DEF Joined, LifeInv, Alive, Ending, taskVars, reVars, StopQueued
<1>11. CASE Closed /\ Next1
    BY <1>1, <1>11 DEF Closed, LifeInv, Alive, Ending, taskVars, reVars, StopQueued
<1>12. CASE ReInit /\ Next1
    BY <1>1, <1>12 DEF ReInit, LifeInv, Alive, Ending, taskVars, lifeVars, StopQueued
<1>13. CASE HandleStop /\ Next1
    BY <1>1, <1>13, StopTaken DEF HandleStop, LifeInv, Alive, Ending, taskVars, lifeVars, StopQueued
<1>14. CASE (LoopFails \/ LoopDone \/ Unwound) /\ Next1
    BY <1>1, <1>14 DEF LoopFails, LoopDone, Unwound, LifeInv, Alive, Ending, taskVars, lifeVars, StopQueued
<1>15. CASE CheckClosing /\ Next1
    BY <1>1, <1>15 DEF CheckClosing, LifeInv, Alive, Ending, taskVars, lifeVars, StopQueued
<1>16. CASE Die /\ Next1
    BY <1>1, <1>16 DEF Die, LifeInv, Alive, Ending, taskVars, StopQueued
<1> QED BY <1>1, <1>2, <1>3, <1>4, <1>5, <1>6, <1>7, <1>8, <1>9, <1>10, <1>11, <1>12, <1>13, <1>14,
           <1>15, <1>16, CalmOrTurn DEF Turns

LEMMA GoneStep ==
    ASSUME RtInv, [Next]_vars
    PROVE  re = "gone" => re' = "gone"
<1>1. CASE Calm
    BY <1>1 DEF Calm
<1>2. CASE Start
    BY <1>2 DEF Start, RtInv, LifeInv
<1>3. CASE Turns /\ ~Start
    BY <1>3 DEF Turns, Started, StartReturns, StartFails, StartFailed, Close, SendStop,
       Joined, Closed, ReInit, HandleStop, LoopFails, LoopDone, Unwound, CheckClosing, Die, reVars
<1> QED BY <1>1, <1>2, <1>3, CalmOrTurn

LEMMA OnDeadStep ==
    ASSUME [Next]_vars
    PROVE  onDead' = onDead \/ FinishDeath
<1>1. CASE Push \/ Expiries \/ Coroutines \/ ReThread \/ Outside \/ UNCHANGED vars
    BY <1>1 DEF Push, Expiries, Timeout, Coroutines, WatchPing, WatchRefused, WatchGoesOn,
       DrainBegin, DrainAgain, DrainAnswered, DrainPoll, DrainRaises, ReThread, ReInit, Handle,
       HandleStop, LoopDone, Unwound, CheckClosing, Die, Outside, LoopFails, CallArrives, CallEnds,
       lifeVars, vars
<1>2. CASE Lifecycle \/ Application \/ Callbacks
    BY <1>2 DEF Lifecycle, Started, Setting, SettingApplied, StartReturns, StartFails,
       StartFailed, SendStop, Joined, Closed, Application, Start, Close, Dial, Cancel,
       Callbacks, Dispatch, Resume, lifeVars
<1> QED BY <1>1, <1>2 DEF Next

(* Reports of the death: only the dying SIP thread makes one, only          *)
(* _finish_death takes it.                                                 *)
LEMMA DeathStep ==
    ASSUME RtInv, [Next]_vars
    PROVE  DeathInv'
<1>1. DeathInv /\ ready \in Seq(Completion \cup Death) /\ onDead \in Nat
    BY DEF RtInv, RtType
<1>2. re = "gone" => re' = "gone"
    BY GoneStep
<1>3. onDead' = onDead \/ FinishDeath
    BY OnDeadStep
<1>4. CASE ready' = ready
  <2>1. ~FinishDeath
    <3>1. ready # <<>> => Len(Tail(ready)) # Len(ready)
        BY <1>1, Taken
    <3> QED BY <1>4, <3>1 DEF FinishDeath
  <2> QED BY <1>1, <1>2, <1>3, <1>4, <2>1 DEF DeathInv
<1>5. CASE (Dispatch \/ FinishDeath) /\ ready # <<>> /\ ready' = Tail(ready)
  <2>1. /\ Len(ready') = Len(ready) - 1 /\ Len(ready) \in Nat \ {0}
        /\ \A i \in 1 .. Len(ready') : ready'[i] = ready[i + 1]
        /\ Head(ready) = ready[1]
      BY <1>1, <1>5, Taken
  <2>2. \A i \in 1 .. Len(ready') : i + 1 \in 1 .. Len(ready) /\ i + 1 # 1
      BY <2>1
  <2>3. \A i, j \in 1 .. Len(ready') : i + 1 = j + 1 => i = j
      OBVIOUS
  <2>4. CASE Dispatch
    <3>1. onDead' = onDead /\ re' = re
        BY <2>4 DEF Dispatch, lifeVars, reVars
    <3> QED BY <1>1, <2>1, <2>2, <2>3, <3>1 DEF DeathInv
  <2>5. CASE FinishDeath
    <3>1. onDead' = onDead + 1 /\ re' = re /\ ready[1].kind = "death" /\ 1 \in 1 .. Len(ready)
        BY <2>1, <2>5 DEF FinishDeath, reVars
    <3>2. onDead = 0 /\ re = "gone" /\ \A i \in 1 .. Len(ready) : ready[i].kind = "death" => i = 1
        BY <1>1, <3>1 DEF DeathInv
    <3>3. \A i \in 1 .. Len(ready') : ready'[i].kind # "death"
        BY <2>1, <2>2, <3>2
    <3> QED BY <3>1, <3>2, <3>3 DEF DeathInv
  <2> QED BY <1>5, <2>4, <2>5
<1>6. ASSUME NEW d \in Completion \cup Death, ready' = Append(ready, d),
             d.kind = "done" \/ (Die /\ d.kind = "death")
      PROVE  DeathInv'
  <2>1. Len(ready') = Len(ready) + 1 /\ Len(ready) \in Nat
        /\ \A i \in 1 .. Len(ready') : ready'[i] = IF i <= Len(ready) THEN ready[i] ELSE d
      BY <1>1, <1>6, Appended
  <2>2. \A i \in 1 .. Len(ready') : (i \in 1 .. Len(ready) /\ ready'[i] = ready[i])
                                     \/ (i = Len(ready) + 1 /\ ready'[i] = d)
      BY <2>1
  <2>3. onDead' = onDead
    <3>1. Len(ready') # Len(ready) - 1
        BY <2>1
    <3>2. ~FinishDeath
        BY <1>1, <3>1, Taken DEF FinishDeath
    <3> QED BY <1>3, <3>2
  <2>4. CASE d.kind = "done"
      BY <1>1, <1>2, <2>2, <2>3, <2>4 DEF DeathInv
  <2>5. CASE Die /\ d.kind = "death"
    <3>1. re # "gone" /\ re' = "gone"
        BY <2>5 DEF Die
    <3>2. onDead = 0 /\ \A i \in 1 .. Len(ready) : ready[i].kind # "death"
        BY <1>1, <3>1 DEF DeathInv
    <3> QED BY <2>2, <2>3, <3>1, <3>2 DEF DeathInv
  <2> QED BY <1>6, <2>4, <2>5
<1> QED BY <1>4, <1>5, <1>6, ReadyStep

(* The step that ends the life of the runtime leaves nobody waiting. *)
LEMMA QuietStep ==
    ASSUME RtInv, [Next]_vars
    PROVE  QuietInv'
<1>1. RtType /\ NumberInv /\ PendingInv /\ MessageInv /\ LifeInv /\ DeathInv /\ QuietInv
      /\ Called \subseteq Cmd
    BY RuntimeAssumption DEF RtInv, RtType, Called, Cmd
<1>2. CASE \E o \in Op : Begins(o)
  <2>1. PICK t \in Nat, o \in Op : Begun(t, o)
      BY <1>1, <1>2, BeginBegun DEF Begins
  <2>2. life' = life /\ onDead' = onDead /\ state = "running" /\ calling = 0
      BY <1>2, <2>1 DEF Begins, lifeVars, Begun, LoopFree
  <2>3. life' \notin {"close_log", "ended"}
      BY <1>1, <2>2 DEF LifeInv, Ending
  <2>4. ASSUME NEW n \in Called', Unanswered(n)', onDead' > 0
        PROVE  n = calling'
    <3>1. n = cmds + 1 \/ (n \in Called /\ n # 0 /\ n # cmds + 1)
      <4>1. cmds' = cmds + 1 /\ cmds \in Nat
          BY <1>1, <2>1, RuntimeAssumption DEF Begun, RtType
      <4> QED BY <4>1 DEF Called
    <3>2. n \in Called /\ n # cmds + 1 => Unanswered(n)
        BY <1>1, <2>1, <2>4 DEF Begun, RtType, Unanswered
    <3> QED BY <1>1, <2>1, <2>2, <2>4, <3>1, <3>2 DEF QuietInv, Begun
  <2> QED BY <2>3, <2>4 DEF QuietInv
<1>3. CASE Push
  <2>1. Lessens /\ calling \in Called /\ calling # 0 /\ calling' = 0 /\ cmds' = cmds
      BY <1>1, <1>3, PushLessens DEF Push
  <2>2. UNCHANGED lifeVars /\ watch' = watch
      BY <1>3 DEF Push, taskVars
  <2>3. ~(life \in {"close_log", "ended"} /\ watch.at # "off")
      BY <1>1, <2>1 DEF QuietInv
  <2>4. ASSUME NEW n \in Called, Unanswered(n)', onDead > 0
        PROVE  FALSE
    <3>1. ~gate
        BY <1>1, <2>4 DEF DeathInv, LifeInv
    <3>2. n = calling
        BY <1>1, <2>1, <2>4 DEF Lessens, QuietInv
    <3>3. cmd'[calling].out # "none"
        BY <1>1, <1>3, <2>1, <3>1 DEF Push, Finished, RtType, Command
    <3> QED BY <2>4, <3>2, <3>3 DEF Unanswered
  <2> QED BY <2>1, <2>2, <2>3, <2>4 DEF QuietInv, lifeVars, Called
<1>4. CASE Joined \/ FinishDeath
  <2>1. calling = 0 /\ cmds' = cmds /\ seq' = seq /\ calling' = calling
      BY <1>4 DEF Joined, FinishDeath, LoopFree
  <2>2. FailPending("dead", cmd) \/ FailPending("closed", cmd)
      BY <1>4 DEF Joined, FinishDeath
  <2>3. \A n \in Cmd : ~Unanswered(n)'
      BY <1>1, <2>1, <2>2, FailLessens
  <2>4. Called' = Called
      BY <2>1 DEF Called
  <2> QED BY <1>1, <2>1, <2>3, <2>4 DEF QuietInv
<1>5. CASE (Aside \/ Resumes \/ Dispatch \/ Close) /\ ~Joined /\ ~FinishDeath
  <2>1. calling' = calling
      BY <1>5 DEF Aside, cmdVars, Resumes, Resume, Timeout, Cancel, Dispatch, Close
  <2>2. Lessens
    <3>1. CASE Aside
        BY <1>1, <3>1, SameLessens DEF Aside
    <3>2. CASE Resumes
        BY <1>1, <3>2, ResumeLessens DEF Resumes
    <3> QED BY <1>1, <1>5, <3>1, <3>2, DispatchLessens, CloseLessens
  <2>3. onDead' = onDead
      BY <1>5, OnDeadStep
  <2>4. life' \in {"close_log", "ended"} /\ watch'.at # "off"
            => life \in {"close_log", "ended"} /\ watch.at # "off"
    <3>1. CASE Calm
        BY <3>1 DEF Calm
    <3>2. CASE StartFailed
        BY <1>1, <3>2 DEF StartFailed, LifeInv, taskVars
    <3>3. CASE Turns /\ ~StartFailed
        BY <1>5, <3>3 DEF Turns, Start, Started, StartReturns, StartFails, Close, SendStop,
           Closed, ReInit, HandleStop, LoopFails, LoopDone, Unwound, CheckClosing, Die, lifeVars, taskVars
    <3> QED BY <3>1, <3>2, <3>3, CalmOrTurn
  <2>5. Called' = Called
      BY <2>2 DEF Lessens, Called
  <2>6. \A n \in Called : Unanswered(n)' => Unanswered(n)
      BY <1>1, <2>2 DEF Lessens
  <2> QED BY <1>1, <2>1, <2>3, <2>4, <2>5, <2>6 DEF QuietInv
<1> QED BY <1>2, <1>3, <1>4, <1>5, NextSplit

-----------------------------------------------------------------------------
(* drain().                                                                *)

(* A count follows SET_DRAIN and every dial(). *)
LEMMA CountedStep ==
    ASSUME RtInv, [Next]_vars
    PROVE  /\ Counted => Counted'
           /\ Counted' => draining' /\ (calling' # 0 => cmd'[calling'].op \notin Stirs)
<1>1. RtType /\ NumberInv /\ PendingInv /\ MessageInv /\ DrainInv /\ Called \subseteq Cmd
    BY RuntimeAssumption DEF RtInv, RtType, Called, Cmd
<1>2. CASE \E o \in Op : Begins(o)
  <2>1. PICK o \in Op : Begins(o)
      BY <1>2
  <2>2. PICK t \in Nat : Begun(t, o)
      BY <1>1, <2>1, BeginBegun DEF Begins
  <2> DEFINE c == cmds + 1
  <2>3. c \in Cmd /\ calling' = c /\ cmd'[c].op = o /\ \A n \in Cmd : n # c => cmd'[n] = cmd[n]
      BY <1>1, <2>2 DEF Begun, RtType, NoCommand
  <2>4. cmd[c].op # "count"
    <3>1. c \notin Called
        BY <1>1, RuntimeAssumption DEF RtType, Called
    <3> QED BY <1>1, <2>3, <3>1 DEF NumberInv, NoCommand
  <2>5. Counted => Counted'
      BY <2>3, <2>4 DEF Counted
  <2>6. Counted' => Counted \/ o = "count"
      BY <2>3 DEF Counted
  <2>7. (o \in Stirs => ~draining) /\ (o = "count" => draining /\ draining') /\ (draining => draining')
      BY <1>1, <2>1 DEF Begins, DrainInv
  <2>8. "count" \notin Stirs
      BY DEF Stirs
  <2> HIDE DEF c
  <2> QED BY <1>1, <2>3, <2>5, <2>6, <2>7, <2>8 DEF DrainInv
<1>3. CASE ~(\E o \in Op : Begins(o))
  <2>1. Lessens
    <3>1. CASE FinishDeath \/ Joined
      <4>1. calling = 0 /\ cmds' = cmds /\ seq' = seq /\ calling' = calling
            /\ (FailPending("dead", cmd) \/ FailPending("closed", cmd))
          BY <3>1 DEF FinishDeath, Joined, LoopFree
      <4> QED BY <1>1, <4>1, FailLessens
    <3>2. CASE Aside
        BY <1>1, <3>2, SameLessens DEF Aside
    <3>3. CASE Resumes
        BY <1>1, <3>3, ResumeLessens DEF Resumes
    <3> QED BY <1>1, <1>3, <3>1, <3>2, <3>3, PushLessens, DispatchLessens, CloseLessens, NextSplit
  <2>2. \A n \in Cmd : cmd'[n].op = cmd[n].op
      BY <2>1 DEF Lessens
  <2>3. Counted' <=> Counted
      BY <2>2 DEF Counted
  <2>4. calling' # 0 => calling' = calling /\ calling \in Cmd
    <3>1. calling \in 0 .. cmds /\ cmds \in 0 .. MaxCmds /\ calling' \in {0, calling}
        BY <1>1, <2>1 DEF Lessens, RtType
    <3> QED BY <3>1, RuntimeAssumption DEF Cmd
  <2>5. draining => draining'
    <3>1. CASE Push \/ Callbacks \/ Expiries \/ ReThread \/ Outside \/ UNCHANGED vars
        BY <3>1 DEF Push, Callbacks, Dispatch, FinishDeath, Resume, Expiries, Timeout, ReThread,
           ReInit, Handle, HandleStop, LoopDone, Unwound, CheckClosing, Die, Outside, LoopFails,
           CallArrives, CallEnds, taskVars, vars
    <3>2. CASE Coroutines
        BY <3>2 DEF Coroutines, WatchPing, WatchRefused, WatchGoesOn, DrainBegin, DrainAgain,
           DrainAnswered, DrainPoll, DrainRaises
    <3>3. CASE Lifecycle \/ Application
        BY <3>3 DEF Lifecycle, Started, Setting, SettingApplied, StartReturns, StartFails,
           StartFailed, SendStop, Joined, Closed, Application, Start, Close, Dial, Cancel, taskVars
    <3> QED BY <3>1, <3>2, <3>3 DEF Next
  <2> QED BY <1>1, <2>2, <2>3, <2>4, <2>5 DEF DrainInv
<1> QED BY <1>2, <1>3

(* No SET_DRAIN and no DIAL comes after a count. *)
LEMMA QueueOrderStep ==
    ASSUME RtInv, [Next]_vars
    PROVE  \A i, j \in 1 .. Len(queue') :
               i < j /\ queue'[i].op = "count" => queue'[j].op \notin Stirs
<1>1. queue \in Seq(Message)
      /\ \A i, j \in 1 .. Len(queue) : i < j /\ queue[i].op = "count" => queue[j].op \notin Stirs
    BY DEF RtInv, RtType, DrainInv
<1>2. CASE queue' = queue \/ queue' = <<>>
    BY <1>1, <1>2
<1>3. CASE queue # <<>> /\ queue' = Tail(queue)
  <2>1. Len(queue') = Len(queue) - 1 /\ Len(queue) \in Nat
        /\ \A i \in 1 .. Len(queue') : queue'[i] = queue[i + 1]
      BY <1>1, <1>3, Taken
  <2>2. ASSUME NEW i \in 1 .. Len(queue'), NEW j \in 1 .. Len(queue'), i < j,
               queue'[i].op = "count"
        PROVE  queue'[j].op \notin Stirs
    <3>1. i + 1 \in 1 .. Len(queue) /\ j + 1 \in 1 .. Len(queue) /\ i + 1 < j + 1
        BY <2>1, <2>2
    <3> QED BY <1>1, <2>1, <2>2, <3>1
  <2> QED BY <2>2
<1>4. ASSUME NEW m \in Message, queue' = Append(queue, m),
             m.op \in Stirs => \A i \in 1 .. Len(queue) : queue[i].op # "count"
      PROVE  \A i, j \in 1 .. Len(queue') :
                 i < j /\ queue'[i].op = "count" => queue'[j].op \notin Stirs
  <2>1. Len(queue') = Len(queue) + 1 /\ Len(queue) \in Nat
        /\ \A i \in 1 .. Len(queue') : queue'[i] = IF i <= Len(queue) THEN queue[i] ELSE m
      BY <1>1, <1>4, Appended
  <2>2. ASSUME NEW i \in 1 .. Len(queue'), NEW j \in 1 .. Len(queue'), i < j,
               queue'[i].op = "count"
        PROVE  queue'[j].op \notin Stirs
    <3>1. i \in 1 .. Len(queue) /\ queue'[i] = queue[i]
        BY <2>1, <2>2
    <3>2. CASE j \in 1 .. Len(queue)
        BY <1>1, <2>1, <2>2, <3>1, <3>2
    <3>3. CASE j \notin 1 .. Len(queue)
      <4>1. queue'[j] = m
          BY <2>1, <3>3
      <4> QED BY <1>4, <2>2, <3>1, <4>1
    <3> QED BY <3>2, <3>3
  <2> QED BY <2>2
<1>5. (\E i \in 1 .. Len(queue) : queue[i].op = "count") => Counted
  <2> SUFFICES ASSUME NEW i \in 1 .. Len(queue), queue[i].op = "count" PROVE Counted
      OBVIOUS
  <2>1. queue[i].cmd \in Called /\ cmd[queue[i].cmd].op = "count"
      BY DEF RtInv, MessageInv
  <2> QED BY <2>1, CallNumber DEF RtInv, Counted
<1>6. ASSUME calling \in Called, NEW m \in Message, queue' = Append(queue, m),
             m.op = cmd[calling].op
      PROVE  m.op \in Stirs => \A i \in 1 .. Len(queue) : queue[i].op # "count"
  <2>1. calling # 0
      BY <1>6, RuntimeAssumption DEF Called, RtInv, RtType
  <2> QED BY <1>5, <1>6, <2>1 DEF RtInv, DrainInv
<1>7. "stop" \notin Stirs
    BY DEF Stirs
<1> QED BY <1>2, <1>3, <1>4, <1>6, <1>7, QueueStep

(* Who changes the drain flag and the live call. *)
LEMMA LiveStep ==
    ASSUME RtInv, [Next]_vars
    PROVE  \/ UNCHANGED <<gDrain, live>>
           \/ Handle /\ gDrain' = (gDrain \/ Head(queue).op = "set_drain")
                     /\ live' = (live \/ Head(queue).op = "dial")
           \/ gDrain' = gDrain /\ ~live'
           \/ ~gDrain /\ ~gDrain'
<1>1. CASE Push \/ Callbacks \/ Expiries \/ Coroutines
    BY <1>1 DEF Push, Callbacks, Dispatch, FinishDeath, Resume, Expiries, Timeout,
         Coroutines, WatchPing, WatchRefused, WatchGoesOn, DrainBegin, DrainAgain,
         DrainAnswered, DrainPoll, DrainRaises, reVars
<1>2. CASE Lifecycle \/ Application
    BY <1>2 DEF Lifecycle, Started, Setting, SettingApplied, StartReturns, StartFails,
         StartFailed, SendStop, Joined, Closed, Application, Start, Close, Dial, Cancel, reVars
<1>3. CASE Handle
    BY <1>3 DEF Handle
<1>4. CASE (ReThread /\ ~Handle) \/ LoopFails
    BY <1>4 DEF ReThread, ReInit, HandleStop, LoopDone, Unwound, CheckClosing, Die, LoopFails
<1>5. CASE CallArrives \/ CallEnds
    BY <1>5 DEF CallArrives, CallEnds
<1>6. CASE UNCHANGED vars
    BY <1>6 DEF vars, reVars
<1> QED BY <1>1, <1>2, <1>3, <1>4, <1>5, <1>6 DEF Next, Outside

Still == (gDrain => ~live) /\ \A i \in 1 .. Len(queue) : queue[i].op \notin Stirs

(* Once a count found nothing live, nothing stirs. *)
LEMMA StillStep ==
    ASSUME RtInv, [Next]_vars, Still, Counted
    PROVE  Still'
<1>1. queue \in Seq(Message) /\ \A i \in 1 .. Len(queue) : queue[i].op \notin Stirs
    BY DEF RtInv, RtType, Still
<1>2. gDrain' => ~live'
  <2>1. CASE Handle
    <3>1. Head(queue) = queue[1] /\ 1 \in 1 .. Len(queue)
        BY <1>1, <2>1, Taken DEF Handle
    <3>2. Head(queue).op \notin Stirs
        BY <1>1, <3>1
    <3>3. Head(queue).op # "dial" /\ Head(queue).op # "set_drain"
        BY <3>2 DEF Stirs
    <3> QED BY <2>1, <3>3 DEF Handle, Still
  <2> QED BY <2>1, LiveStep DEF Still
<1>3. CASE queue' = queue \/ queue' = <<>>
    BY <1>1, <1>2, <1>3 DEF Still
<1>4. CASE queue # <<>> /\ queue' = Tail(queue)
  <2>1. Len(queue') = Len(queue) - 1 /\ Len(queue) \in Nat
        /\ \A i \in 1 .. Len(queue') : queue'[i] = queue[i + 1]
      BY <1>1, <1>4, Taken
  <2>2. \A i \in 1 .. Len(queue') : i + 1 \in 1 .. Len(queue)
      BY <2>1
  <2> QED BY <1>1, <1>2, <2>1, <2>2 DEF Still
<1>5. ASSUME NEW m \in Message, queue' = Append(queue, m), m.op \notin Stirs
      PROVE  Still'
  <2>1. Len(queue') = Len(queue) + 1 /\ Len(queue) \in Nat
        /\ \A i \in 1 .. Len(queue') : queue'[i] = IF i <= Len(queue) THEN queue[i] ELSE m
      BY <1>1, <1>5, Appended
  <2>2. \A i \in 1 .. Len(queue') : i \in 1 .. Len(queue) \/ queue'[i] = m
      BY <2>1
  <2> QED BY <1>1, <1>2, <1>5, <2>1, <2>2 DEF Still
<1>6. ASSUME calling \in Called, NEW m \in Message, m.op = cmd[calling].op
      PROVE  m.op \notin Stirs
  <2>1. calling # 0
      BY <1>6, RuntimeAssumption DEF Called, RtInv, RtType
  <2> QED BY <1>6, <2>1 DEF RtInv, DrainInv
<1>7. "stop" \notin Stirs
    BY DEF Stirs
<1> QED BY <1>3, <1>4, <1>5, <1>6, <1>7, QueueStep

(* A count of zero. *)
LEMMA ZeroStep ==
    ASSUME RtInv, [Next]_vars
    PROVE  Zero' => Counted' /\ Still'
<1>1. CASE Zero
    BY <1>1, CountedStep, StillStep DEF RtInv, DrainInv, Still
<1>2. CASE Zero' /\ ~Zero
  <2>1. cmd \in [Cmd -> Command] /\ ready \in Seq(Completion \cup Death)
        /\ queue \in Seq(Message)
      BY DEF RtInv, RtType
  <2>2. ASSUME NEW n \in Cmd, cmd'[n].zero
        PROVE  FALSE
    <3>1. Dispatch
        BY <1>2, <2>2, Answers DEF Zero
    <3>2. Head(ready) = ready[1] /\ 1 \in 1 .. Len(ready)
        BY <2>1, <3>1, Taken, SMTT(30) DEF Dispatch
    <3>3. ~ready[1].zero /\ ~cmd[n].zero
        BY <1>2, <3>1, <3>2 DEF Zero, Dispatch
    <3> DEFINE k == pending[Head(ready).seq]
    <3>4. cmd' = cmd \/ cmd' = [cmd EXCEPT ![k].fut = "answer", ![k].from = Head(ready).cmd,
                                           ![k].zero = Head(ready).zero]
        BY <3>1 DEF Dispatch
    <3> HIDE DEF k
    <3>5. cmd'[n].zero \in {cmd[n].zero, Head(ready).zero}
        BY <2>1, <3>4 DEF Command
    <3> QED BY <2>2, <3>2, <3>3, <3>5
  <2>3. PICK i \in 1 .. Len(ready') : ready'[i].kind = "done" /\ ready'[i].zero
      BY <1>2, <2>2 DEF Zero
  <2>4. Handle /\ Head(queue).op = "count" /\ ~live
    <3>1. CASE ready' = ready
        BY <1>2, <2>3, <3>1 DEF Zero
    <3>2. CASE ready # <<>> /\ ready' = Tail(ready)
      <4>1. i + 1 \in 1 .. Len(ready) /\ ready'[i] = ready[i + 1]
          BY <2>1, <3>2, Taken
      <4> QED BY <1>2, <2>3, <4>1 DEF Zero
    <3>3. ASSUME NEW d \in Completion \cup Death, ready' = Append(ready, d)
          PROVE  ready'[i] = d
      <4>1. (i \in 1 .. Len(ready) /\ ready'[i] = ready[i]) \/ ready'[i] = d
          BY <2>1, <3>3, Appended
      <4> QED BY <1>2, <2>3, <4>1 DEF Zero
    <3> QED BY <2>3, <3>1, <3>2, <3>3, ReadyStep
  <2>5. Counted
    <3>1. Head(queue).cmd \in Called /\ cmd[Head(queue).cmd].op = "count"
        BY <2>4, HandledMessage DEF RtInv
    <3> QED BY <3>1, CallNumber DEF RtInv, Counted
  <2>6. Still'
    <3>1. queue # <<>> /\ queue' = Tail(queue) /\ live' = (live \/ Head(queue).op = "dial")
        BY <2>4 DEF Handle
    <3>2. ~live'
        BY <2>4, <3>1
    <3>3. /\ Head(queue) = queue[1] /\ 1 \in 1 .. Len(queue) /\ Len(queue') = Len(queue) - 1
          /\ Len(queue) \in Nat /\ \A j \in 1 .. Len(queue') : queue'[j] = queue[j + 1]
        BY <2>1, <3>1, Taken
    <3>4. \A j \in 1 .. Len(queue') : j + 1 \in 1 .. Len(queue) /\ 1 < j + 1
        BY <3>3
    <3>5. \A j \in 1 .. Len(queue') : queue[j + 1].op \notin Stirs
        BY <2>4, <3>3, <3>4 DEF RtInv, DrainInv
    <3> QED BY <3>2, <3>3, <3>5 DEF Still
  <2> QED BY <2>5, <2>6, CountedStep
<1> QED BY <1>1, <1>2

LEMMA DrainStep ==
    ASSUME RtInv, [Next]_vars
    PROVE  DrainInv'
<1>1. DrainInv /\ RtType /\ Called \subseteq Cmd
    BY RuntimeAssumption DEF RtInv, RtType, Called, Cmd
<1>2. \A n \in Cmd : cmd[n].zero => cmd'[n].zero /\ cmd'[n].fut = "answer"
  <2>1. CASE ~Dispatch
      BY <1>1, <2>1, Answers DEF DrainInv
  <2>2. CASE Dispatch
    <3> DEFINE k == pending[Head(ready).seq]
    <3>1. cmd' = cmd \/ (cmd[k].fut = "open"
                         /\ cmd' = [cmd EXCEPT ![k].fut = "answer", ![k].from = Head(ready).cmd,
                                               ![k].zero = Head(ready).zero])
        BY <2>2 DEF Dispatch
    <3> HIDE DEF k
    <3> QED BY <1>1, <3>1 DEF DrainInv, RtType
  <2> QED BY <2>1, <2>2
<1>3. ASSUME NEW n \in Cmd, cmd'[n].zero
      PROVE  cmd'[n].fut = "answer"
  <2>1. CASE cmd[n].zero
      BY <1>2, <2>1
  <2>2. CASE ~cmd[n].zero
    <3>1. Dispatch
        BY <1>3, <2>2, Answers
    <3> DEFINE k == pending[Head(ready).seq]
    <3>2. cmd' = cmd \/ cmd' = [cmd EXCEPT ![k].fut = "answer", ![k].from = Head(ready).cmd,
                                           ![k].zero = Head(ready).zero]
        BY <3>1 DEF Dispatch
    <3> HIDE DEF k
    <3>3. cmd'[n] = cmd[n] \/ cmd'[n].fut = "answer"
        BY <1>1, <3>2 DEF RtType, Command
    <3> QED BY <1>3, <2>2, <3>3
  <2> QED BY <2>1, <2>2
<1>4. /\ drain'.at # "idle" => draining'
      /\ drain'.at \in {"setting", "counting"} => drain'.cmd # 0
      /\ drain'.at = "returned" => \E n \in Cmd : cmd'[n].zero
  <2>1. CASE UNCHANGED <<drain, draining>>
      BY <1>1, <1>2, <2>1 DEF DrainInv
  <2>2. CASE DrainBegin \/ DrainAgain \/ DrainPoll
    <3>1. PICK t \in Nat, o \in Op : Begun(t, o)
        BY <1>1, <2>2, BeginBegun DEF DrainBegin, DrainAgain, DrainPoll, Op, RtInv
    <3>2. cmds' = cmds + 1 /\ cmds \in Nat
        BY <1>1, <3>1, RuntimeAssumption DEF Begun, RtType
    <3> QED BY <1>1, <2>2, <3>2 DEF DrainBegin, DrainAgain, DrainPoll, DrainInv
  <2>3. CASE DrainAnswered
    <3>1. drain.cmd # 0 /\ drain.cmd \in 0 .. cmds /\ cmds \in 0 .. MaxCmds
        BY <1>1, <2>3 DEF DrainAnswered, DrainInv, RtType
    <3>2. drain.cmd \in Cmd
        BY <3>1, RuntimeAssumption DEF Cmd
    <3>3. draining' = draining /\ cmd' = cmd /\ drain.at # "idle"
        BY <2>3 DEF DrainAnswered, cmdVars
    <3> QED BY <1>1, <2>3, <3>2, <3>3 DEF DrainAnswered, DrainInv
  <2>4. CASE DrainRaises
      BY <2>4 DEF DrainRaises
  <2>5. CASE Push \/ Callbacks \/ Expiries \/ ReThread \/ Outside \/ UNCHANGED vars
      BY <2>1, <2>5 DEF Push, Callbacks, Dispatch, FinishDeath, Resume, Expiries, Timeout, ReThread,
         ReInit, Handle, HandleStop, LoopDone, Unwound, CheckClosing, Die, Outside, LoopFails,
         CallArrives, CallEnds, taskVars, vars
  <2>6. CASE WatchPing \/ WatchRefused \/ WatchGoesOn
      BY <2>1, <2>6 DEF WatchPing, WatchRefused, WatchGoesOn
  <2>7. CASE Lifecycle \/ Application
      BY <2>1, <2>7 DEF Lifecycle, Started, Setting, SettingApplied, StartReturns, StartFails,
         StartFailed, SendStop, Joined, Closed, Application, Start, Close, Dial, Cancel, taskVars
  <2> QED BY <2>2, <2>3, <2>4, <2>5, <2>6, <2>7 DEF Next, Coroutines
<1> QED BY <1>3, <1>4, CountedStep, QueueOrderStep, ZeroStep DEF DrainInv, Still

-----------------------------------------------------------------------------
(* The theorems.                                                           *)

LEMMA RtInit == Init => RtInv
<1> SUFFICES ASSUME Init PROVE RtInv
    OBVIOUS
<1>1. Called = {} /\ queue = <<>> /\ ready = <<>>
    BY DEF Init, Called
<1>2. NoCommand \in Command
    BY RuntimeAssumption, RoundType DEF NoCommand, Command, Op
<1>3. RtType
  <2>1. cmd \in [Cmd -> Command]
      BY <1>2 DEF Init
  <2>2. pending \in [Number -> 0 .. MaxCmds] /\ seq \in [at : 0 .. Round, tick : Nat]
      BY RuntimeAssumption, RoundType DEF Init, Number, Round
  <2>3. queue \in Seq(Message) /\ Len(queue) <= QCap /\ ready \in Seq(Completion \cup Death)
      BY <1>1, RuntimeAssumption
  <2>4. /\ onDead \in Nat /\ cmds \in 0 .. MaxCmds /\ calling \in 0 .. cmds /\ setting \in 0 .. cmds
        /\ watch \in [at : {"off", "sleeping", "pinging", "ended"}, cmd : 0 .. cmds]
        /\ drain \in [at : {"idle", "setting", "polling", "counting", "returned"}, cmd : 0 .. cmds]
      BY RuntimeAssumption DEF Init
  <2> QED BY <2>1, <2>2, <2>3, <2>4 DEF Init, RtType
<1>4. \A n \in Cmd : cmd[n] = NoCommand
    BY DEF Init
<1>5. NumberInv
    BY <1>1, <1>4 DEF NumberInv, Init
<1>6. PendingInv
    BY <1>1 DEF PendingInv, Init, Number, Round
<1>7. MessageInv
    BY <1>1, <1>4 DEF MessageInv, NoCommand, Init
<1>8. LifeInv /\ DeathInv /\ QuietInv
    BY <1>1 DEF LifeInv, DeathInv, QuietInv, Init, Alive, Ending
<1>9. DrainInv
  <2>1. \A n \in Cmd : cmd[n].op # "count" /\ ~cmd[n].zero
      BY <1>4 DEF NoCommand
  <2>2. ~Counted /\ ~Zero
      BY <1>1, <2>1 DEF Counted, Zero
  <2> QED BY <1>1, <2>1, <2>2 DEF DrainInv, Init
<1> QED BY <1>3, <1>5, <1>6, <1>7, <1>8, <1>9 DEF RtInv

LEMMA RtStep ==
    ASSUME RtInv, [Next]_vars
    PROVE  RtInv'
BY TypeStep, NumberStep, MessageStep, LifeStep, DeathStep, QuietStep, DrainStep DEF RtInv

LEMMA RtInvariance == Spec => []RtInv
BY RtInit, RtStep, PTL DEF Spec

LEMMA TypesHold ==
    ASSUME RtInv
    PROVE  TypeOK
<1>1. \A n \in Cmd : cmd[n] \in Command /\ cmd[n].from <= cmds
    BY DEF RtInv, RtType, MessageInv
<1>2. \A n \in Cmd :
          /\ cmd[n].seq \in 0 .. (SeqMod - 1) /\ cmd[n].tick \in Nat
          /\ cmd[n].op \in Op /\ cmd[n].from \in 0 .. cmds /\ cmd[n].zero \in BOOLEAN
          /\ cmd[n].fut \in {"none", "open", "answer", "dead", "closed", "cancelled"}
          /\ cmd[n].out \in Outcome \cup {"none"}
    BY <1>1, RuntimeAssumption DEF RtInv, RtType, Command, Round
<1>3. pending \in [1 .. (SeqMod - 1) -> 0 .. MaxCmds]
      /\ seq.at \in 0 .. (SeqMod - 1) /\ seq.tick \in Nat
    BY DEF RtInv, RtType, Number, Round
<1>4. onDead \in 0 .. 1
    BY DEF RtInv, RtType, DeathInv
<1>5. watch.at \in {"off", "sleeping", "pinging", "ended"} /\ watch.cmd \in 0 .. cmds
      /\ drain.at \in {"idle", "setting", "polling", "counting", "returned"}
      /\ drain.cmd \in 0 .. cmds
    BY DEF RtInv, RtType
<1> QED BY <1>2, <1>3, <1>4, <1>5 DEF RtInv, RtType, TypeOK

(* Runtime.TypeOK: every variable has its type, and the command queue never *)
(* holds more than its pipe takes.                                         *)
THEOREM RuntimeTypes == Spec => []TypeOK
BY RtInvariance, TypesHold, PTL

(* Runtime.NoLostFuture: a future that a coroutine awaits and that nobody   *)
(* has completed is in _pending under its own number, whatever timed out,   *)
(* was cancelled or wrapped around before.                                 *)
THEOREM FuturesAreKept == Spec => []NoLostFuture
<1>1. ASSUME RtInv
      PROVE  NoLostFuture
  <2>1. \A n \in Cmd : Waiting(n) /\ cmd[n].fut = "open" => pending[cmd[n].seq] = n
    <3> SUFFICES ASSUME NEW n \in Cmd, Waiting(n), cmd[n].fut = "open"
                 PROVE  pending[cmd[n].seq] = n
        OBVIOUS
    <3>1. Unanswered(n)
        BY DEF Waiting, Unanswered
    <3> QED BY <1>1, <3>1, OpenCalled DEF RtInv, PendingInv
  <2> QED BY <1>1, <2>1, TypesHold DEF NoLostFuture
<1> QED BY <1>1, RtInvariance, PTL

(* Runtime.OwnAnswer: a command is completed by its own completion, or by   *)
(* that of a command that had the number at least one full round of the     *)
(* sequence numbers earlier.                                               *)
THEOREM AnswersAreOwn == Spec => []OwnAnswer
<1>1. ASSUME RtInv
      PROVE  OwnAnswer
  <2> SUFFICES ASSUME NEW n \in Cmd, cmd[n].fut = "answer", cmd[n].from # n
               PROVE  cmd[n].tick - cmd[cmd[n].from].tick >= SeqMod - 1
      BY DEF OwnAnswer
  <2>1. n \in Called
      BY <1>1 DEF RtInv, NumberInv, NoCommand
  <2> QED BY <1>1, <2>1 DEF RtInv, MessageInv, Round
<1> QED BY <1>1, RtInvariance, PTL

(* Runtime.SuccessorIsSafe: no other runtime of the process can start while *)
(* the SIP thread of this one is up.                                       *)
THEOREM SuccessorsAreSafe == Spec => []SuccessorIsSafe
<1>1. ASSUME RtInv
      PROVE  SuccessorIsSafe
    BY <1>1 DEF RtInv, RtType, LifeInv, Alive, LoopFree, SuccessorIsSafe
<1> QED BY <1>1, RtInvariance, PTL

(* Runtime.CloseIsNotDeath: a SIP thread that left its loop because of this *)
(* runtime's STOP does not report a death, unless it was given up.          *)
THEOREM ClosesAreNotDeaths == Spec => []CloseIsNotDeath
<1>1. ASSUME RtInv
      PROVE  CloseIsNotDeath
    BY <1>1 DEF RtInv, LifeInv, CloseIsNotDeath
<1> QED BY <1>1, RtInvariance, PTL

(* Runtime.NobodyLeftWaiting: after the end of close(), and after the death *)
(* has been handled on the loop, no command waits for an answer.            *)
THEOREM NobodyIsLeftWaiting == Spec => []NobodyLeftWaiting
<1>1. ASSUME RtInv
      PROVE  NobodyLeftWaiting
  <2> SUFFICES ASSUME \/ /\ life \in {"close_log", "ended"}
                         /\ state \in {"closing", "closed", "dead"} /\ watch.at = "ended"
                      \/ onDead > 0,
                      NEW n \in Cmd, Waiting(n), cmd[n].fut = "open"
               PROVE  FALSE
      BY DEF NobodyLeftWaiting
  <2>1. Unanswered(n) /\ n # calling
      BY DEF Waiting, Unanswered
  <2>2. n \in Called
      BY <1>1, <2>1, OpenCalled DEF RtInv
  <2> QED BY <1>1, <2>1, <2>2 DEF RtInv, QuietInv
<1> QED BY <1>1, RtInvariance, PTL

(* Runtime.DrainedStaysIdle: when a drain() has returned and SET_DRAIN had  *)
(* reached the SIP thread, the stack has no live call and gets none.        *)
THEOREM DrainedIsIdle == Spec => []DrainedStaysIdle
<1>1. ASSUME RtInv
      PROVE  DrainedStaysIdle
    BY <1>1 DEF RtInv, DrainInv, Zero, DrainedStaysIdle
<1> QED BY <1>1, RtInvariance, PTL

-----------------------------------------------------------------------------
(*                              The capture                                *)

USE LogCaptureAssumption

Ring == [bytes : [Slot -> Byte], head : Slot, used : 0 .. Cap]

-----------------------------------------------------------------------------
(* The two halves of the ring, at an index that is not wrapped.            *)

(* Where the i-th byte of a copy of n that begins at the index a lies: the *)
(* part up to the end of the buffer, and the part at its start.            *)
LEMMA SlotOfByte ==
    ASSUME NEW a \in Nat, NEW n \in 0 .. Cap, NEW i \in 1 .. n
    PROVE  LET first == Smaller(Cap - (a % Cap), n)
           IN  /\ (a + i - 1) % Cap = IF i <= first THEN (a % Cap) + i - 1 ELSE i - first - 1
               /\ (a + i - 1) % Cap \in Slot
<1>1. Cap \in Nat \ {0} /\ a % Cap \in 0 .. (Cap - 1)
    BY DivMod
<1>2. i - 1 \in 0 .. (Cap - 1) /\ a + (i - 1) = a + i - 1
    OBVIOUS
<1>3. (a + (i - 1)) % Cap = IF (a % Cap) + (i - 1) < Cap THEN (a % Cap) + (i - 1)
                                                          ELSE (a % Cap) + (i - 1) - Cap
    BY <1>1, <1>2, ModWrap
<1> DEFINE h == a % Cap
           s == (a + i - 1) % Cap
<1>4. h \in 0 .. (Cap - 1) /\ s = IF h + (i - 1) < Cap THEN h + (i - 1) ELSE h + (i - 1) - Cap
    BY <1>1, <1>2, <1>3
<1> HIDE DEF h, s
<1>5. LET first == Smaller(Cap - h, n)
      IN  s = (IF i <= first THEN h + i - 1 ELSE i - first - 1) /\ s \in Slot
    BY <1>1, <1>4 DEF Smaller, Slot
<1> QED BY <1>5 DEF h, s

(* The bytes of data were put into ring from the index p on, and those from *)
(* a up to p are what they were.                                            *)
WrittenAt(ring, data, a, p, after) ==
    /\ after \in Ring /\ after.head = ring.head /\ after.used = ring.used + Len(data)
    /\ \A i \in 1 .. Len(data) : after.bytes[(p + i - 1) % Cap] = data[i]
    /\ \A k \in a .. (p - 1) : after.bytes[k % Cap] = ring.bytes[k % Cap]

(* ring_put writes the bytes where they belong, and no byte that is used.  *)
LEMMA PutAt ==
    ASSUME NEW ring \in Ring, NEW data \in Seq(Byte), NEW a \in Nat, NEW p \in Nat,
           ring.head = a % Cap, p = a + ring.used, ring.used + Len(data) <= Cap
    PROVE  WrittenAt(ring, data, a, p, RingPut(ring, data))
<1> DEFINE q == RingPut(ring, data)
           n == Len(data)
           tail == p % Cap
           first == Smaller(Cap - tail, n)
<1>0. Cap \in Nat \ {0} /\ n \in 0 .. Cap /\ p \in Nat /\ ring.used \in 0 .. Cap
    BY DEF Ring
<1>1. (ring.head + ring.used) % Cap = tail
  <2>1. ring.used \in Nat
      BY <1>0
  <2>2. ((a % Cap) + ring.used) % Cap = (a + ring.used) % Cap
      BY <1>0, <2>1, ModSum
  <2> QED BY <2>2
<1>2. tail \in 0 .. (Cap - 1) /\ first \in 0 .. n /\ first <= Cap - tail
  <2> HIDE DEF n
  <2>1. tail \in 0 .. (Cap - 1)
      BY <1>0, DivMod
  <2> HIDE DEF tail
  <2> QED BY <1>0, <2>1 DEF Smaller
<1>3. q = [ring EXCEPT !.bytes = [s \in Slot |->
                                   IF tail <= s /\ s < tail + first THEN data[s - tail + 1]
                                   ELSE IF s < n - first THEN data[first + s + 1]
                                   ELSE ring.bytes[s]],
                       !.used = ring.used + n]
    BY <1>1 DEF RingPut
<1>4. \A i \in 1 .. n : data[i] \in Byte
    OBVIOUS
<1>5. /\ q.head = ring.head /\ q.used = ring.used + n
      /\ \A s \in Slot : q.bytes[s] = IF tail <= s /\ s < tail + first THEN data[s - tail + 1]
                                      ELSE IF s < n - first THEN data[first + s + 1]
                                      ELSE ring.bytes[s]
    BY <1>3 DEF Ring
<1>6. q \in Ring
  <2> DEFINE bytes == [s \in Slot |-> IF tail <= s /\ s < tail + first THEN data[s - tail + 1]
                                      ELSE IF s < n - first THEN data[first + s + 1]
                                      ELSE ring.bytes[s]]
  <2> HIDE DEF first, tail, q, n
  <2>1. ASSUME NEW s \in Slot PROVE bytes[s] \in Byte
    <3>1. CASE tail <= s /\ s < tail + first
        BY <1>0, <1>2, <1>4, <3>1 DEF Slot
    <3>2. CASE ~(tail <= s /\ s < tail + first) /\ s < n - first
      <4>1. first + s + 1 \in 1 .. n
          BY <1>0, <1>2, <3>2 DEF Slot
      <4> QED BY <1>4, <3>2, <4>1
    <3>3. CASE ~(tail <= s /\ s < tail + first) /\ ~(s < n - first)
        BY <3>3 DEF Ring
    <3> QED BY <3>1, <3>2, <3>3
  <2>2. bytes \in [Slot -> Byte]
      BY <2>1
  <2>3. q = [ring EXCEPT !.bytes = bytes, !.used = ring.used + n] /\ ring.used + n \in 0 .. Cap
      BY <1>0, <1>3 DEF n
  <2> HIDE DEF bytes
  <2> QED BY <2>2, <2>3 DEF Ring
<1>7. ASSUME NEW i \in 1 .. n PROVE q.bytes[(p + i - 1) % Cap] = data[i]
  <2>1. /\ (p + i - 1) % Cap = IF i <= first THEN tail + i - 1 ELSE i - first - 1
        /\ (p + i - 1) % Cap \in Slot
      BY <1>0, SlotOfByte
  <2> DEFINE s == (p + i - 1) % Cap
  <2>4. s \in Slot /\ s = IF i <= first THEN tail + i - 1 ELSE i - first - 1
      BY <2>1
  <2> HIDE DEF s, first, tail, q, n
  <2>2. CASE i <= first
    <3>1. s = tail + i - 1 /\ tail <= s /\ s < tail + first /\ s - tail + 1 = i
        BY <1>0, <1>2, <2>4, <2>2
    <3>2. q.bytes[s] = data[i]
        BY <1>5, <2>4, <3>1
    <3> QED BY <3>2 DEF s
  <2>3. CASE i > first
    <3>1. first = Cap - tail
        BY <1>0, <1>2, <2>3 DEF first, Smaller
    <3>2. s = i - first - 1 /\ s < n - first /\ s < tail /\ first + s + 1 = i
        BY <1>0, <1>2, <2>4, <2>3, <3>1
    <3>3. ~(tail <= s /\ s < tail + first)
        BY <1>2, <2>4, <3>2 DEF Slot
    <3>4. q.bytes[s] = data[i]
        BY <1>5, <2>4, <3>2, <3>3
    <3> QED BY <3>4 DEF s
  <2> QED BY <1>2, <2>2, <2>3 DEF s
<1>8. ASSUME NEW k \in a .. (p - 1) PROVE q.bytes[k % Cap] = ring.bytes[k % Cap]
  <2> DEFINE s == k % Cap
  <2>0. k \in Nat /\ k < p /\ p <= a + Cap - n /\ a <= k
      BY <1>0
  <2>1. s \in Slot
      BY <1>0, <2>0, DivMod DEF Slot
  <2>2. ASSUME NEW i \in 1 .. n PROVE s # (p + i - 1) % Cap
    <3> DEFINE b == p + i - 1
    <3> HIDE DEF n, tail, first, q, s
    <3>0. n \in Nat /\ i \in Nat /\ 1 <= i /\ i <= n /\ Cap \in Nat
        BY <1>0
    <3>1. b \in Nat /\ k < b /\ b < k + Cap
      <4>1. b \in Nat /\ k < b
          BY <2>0, <3>0
      <4>2. p + n <= a + Cap
          BY <2>0, <3>0
      <4>3. b < k + Cap
          BY <2>0, <3>0, <4>2
      <4> QED BY <4>1, <4>3
    <3> HIDE DEF b
    <3>2. k % Cap # b % Cap
        BY <1>0, <2>0, <3>1, ModDistinct
    <3> QED BY <3>2 DEF b, s
  <2>3. \A i \in 1 .. n :
            (p + i - 1) % Cap = IF i <= first THEN tail + i - 1 ELSE i - first - 1
    <3> TAKE i \in 1 .. n
    <3> QED BY <1>0, SlotOfByte
  <2> HIDE DEF s, first, tail, q, n
  <2>4. ~(tail <= s /\ s < tail + first)
    <3> SUFFICES ASSUME tail <= s, s < tail + first PROVE FALSE
        OBVIOUS
    <3> DEFINE i == s - tail + 1
    <3>1. i \in 1 .. n /\ i <= first /\ tail + i - 1 = s
        BY <1>0, <1>2, <2>1 DEF Slot
    <3> HIDE DEF i
    <3> QED BY <2>2, <2>3, <3>1
  <2>5. ~(s < n - first)
    <3> SUFFICES ASSUME s < n - first PROVE FALSE
        OBVIOUS
    <3> DEFINE i == first + s + 1
    <3>1. i \in 1 .. n /\ ~(i <= first) /\ i - first - 1 = s
        BY <1>0, <1>2, <2>1 DEF Slot
    <3> HIDE DEF i
    <3> QED BY <2>2, <2>3, <3>1
  <2> QED BY <1>5, <2>1, <2>4, <2>5 DEF s
<1>9. q.head = ring.head /\ q.used = ring.used + Len(data)
    BY <1>5
<1> HIDE DEF q, tail, first
<1>10. WrittenAt(ring, data, a, p, q)
    BY <1>6, <1>7, <1>8, <1>9 DEF WrittenAt
<1> QED BY <1>10 DEF q

(* front are the n bytes of ring from the index a on, and after lacks them. *)
TakenAt(ring, a, n, front, after) ==
    /\ front \in Seq(Byte) /\ Len(front) = n
    /\ \A i \in 1 .. n : front[i] = ring.bytes[(a + i - 1) % Cap]
    /\ after \in Ring /\ after.bytes = ring.bytes
    /\ after.head = (a + n) % Cap /\ after.used = ring.used - n

(* ring_get reads the bytes from where they are, and gives them up.        *)
LEMMA GetAt ==
    ASSUME NEW ring \in Ring, NEW a \in Nat, NEW n \in 0 .. Cap,
           ring.head = a % Cap, n <= ring.used
    PROVE  TakenAt(ring, a, n, Front(ring, n), Without(ring, n))
<1>1. Cap \in Nat \ {0} /\ ring.head \in Slot /\ ring.used \in 0 .. Cap
      /\ ring.bytes \in [Slot -> Byte]
    BY DEF Ring
<1> DEFINE first == Smaller(Cap - ring.head, n)
<1>2. ASSUME NEW i \in 1 .. n
      PROVE  /\ (a + i - 1) % Cap = IF i <= first THEN ring.head + i - 1 ELSE i - first - 1
             /\ (a + i - 1) % Cap \in Slot
    BY SlotOfByte
<1>3. Front(ring, n) = [i \in 1 .. n |-> IF i <= first THEN ring.bytes[ring.head + i - 1]
                                                        ELSE ring.bytes[i - first - 1]]
    BY DEF Front
<1> HIDE DEF first
<1>4. \A i \in 1 .. n : Front(ring, n)[i] = ring.bytes[(a + i - 1) % Cap]
    BY <1>2, <1>3
<1>5. Front(ring, n) \in [1 .. n -> Byte]
  <2>1. \A i \in 1 .. n : ring.bytes[(a + i - 1) % Cap] \in Byte
      BY <1>1, <1>2
  <2> QED BY <1>3, <1>4, <2>1
<1>6. (ring.head + n) % Cap = (a + n) % Cap /\ (a + n) % Cap \in Slot
  <2>1. n \in Nat /\ a + n \in Nat
      OBVIOUS
  <2>2. ((a % Cap) + n) % Cap = (a + n) % Cap
      BY <1>1, <2>1, ModSum
  <2>3. (a + n) % Cap \in 0 .. (Cap - 1)
      BY <1>1, <2>1, DivMod
  <2> QED BY <2>2, <2>3 DEF Slot
<1>7. /\ Without(ring, n) \in Ring /\ Without(ring, n).bytes = ring.bytes
      /\ Without(ring, n).head = (a + n) % Cap /\ Without(ring, n).used = ring.used - n
  <2>1. Without(ring, n) = [ring EXCEPT !.head = (a + n) % Cap, !.used = ring.used - n]
      BY <1>6 DEF Without
  <2>2. ring.used - n \in 0 .. Cap
      BY <1>1
  <2> DEFINE h == (a + n) % Cap
  <2> HIDE DEF h
  <2>3. h \in Slot
      BY <1>6 DEF h
  <2>4. /\ Without(ring, n) \in Ring /\ Without(ring, n).bytes = ring.bytes
        /\ Without(ring, n).head = h /\ Without(ring, n).used = ring.used - n
      BY <2>1, <2>2, <2>3 DEF Ring, h
  <2> QED BY <2>4 DEF h
<1> QED BY <1>4, <1>5, <1>7 DEF TakenAt

-----------------------------------------------------------------------------
(* The inductive invariant, in named parts.                                *)

Size(line) == HdrLen + line.len

(* Where each record of the capture began, if the ring had no end: the     *)
(* records lie one behind the other, and those to be read are in the ring. *)
Laid(start) ==
    /\ \A k \in 1 .. Len(kept) : start[k + 1] = start[k] + Size(kept[k])
    /\ \A j, k \in 1 .. (Len(kept) + 1) : j <= k => start[j] <= start[k]
    /\ log.head = start[Len(got) + 1] % Cap
    /\ log.used = start[Len(kept) + 1] - start[Len(got) + 1]
    /\ \A k \in (Len(got) + 1) .. Len(kept) : \A i \in 1 .. Size(kept[k]) :
          log.bytes[(start[k] + i - 1) % Cap] = [line |-> kept[k], at |-> i]

RingInv ==
    /\ LinesAreWhole
    /\ \E start \in [1 .. (Len(kept) + 1) -> Nat] : Laid(start)

(* A log thread ends on an empty ring, after the stop. *)
EndInv ==
    /\ refused = reported + dropped
    /\ dropped > 0 => log.used > 0
    /\ runs > 0 /\ reader[runs] = "ended" => log.used = 0 /\ ~reading

LogInv == LogTypeOK /\ RingInv /\ EndInv /\ NoLostWakeup

(* The ring is empty when, and only when, every line was handed over.      *)
LEMMA EmptyRing ==
    ASSUME LogTypeOK, RingInv
    PROVE  (log.used = 0) <=> (Len(got) = Len(kept))
<1>1. PICK start \in [1 .. (Len(kept) + 1) -> Nat] : Laid(start)
    BY DEF RingInv
<1>2. Len(kept) \in Nat /\ Len(got) \in Nat /\ Len(got) <= Len(kept)
    BY DEF LogTypeOK, RingInv, LinesAreWhole
<1>3. CASE Len(got) = Len(kept)
    BY <1>1, <1>2, <1>3 DEF Laid
<1>4. CASE Len(got) < Len(kept)
  <2> DEFINE k == Len(got) + 1
  <2>1. k \in 1 .. Len(kept) /\ k + 1 \in 1 .. (Len(kept) + 1) /\ k + 1 <= Len(kept) + 1
      BY <1>2, <1>4
  <2>2. start[k + 1] = start[k] + Size(kept[k]) /\ start[k + 1] <= start[Len(kept) + 1]
      BY <1>1, <1>2, <2>1 DEF Laid
  <2>3. Size(kept[k]) \in Nat \ {0}
    <3> HIDE DEF k
    <3>1. kept[k] \in Line
        BY <2>1 DEF LogTypeOK
    <3> QED BY <3>1 DEF Size, Line
  <2>4. start[k] \in Nat /\ start[k + 1] \in Nat /\ start[Len(kept) + 1] \in Nat
      BY <1>2, <2>1
  <2>5. log.used = start[Len(kept) + 1] - start[k]
      BY <1>1 DEF Laid
  <2> HIDE DEF k
  <2>6. log.used # 0
      BY <2>2, <2>3, <2>4, <2>5
  <2> QED BY <1>4, <2>6
<1> QED BY <1>2, <1>3, <1>4

-----------------------------------------------------------------------------
(* The readers.                                                            *)

Ready == {r \in Reader : reader[r] = "ready"}

LEMMA ReadersFinite == \A S \in SUBSET Reader : IsFiniteSet(S)
<1>1. IsFiniteSet(Reader)
  <2>1. 1 \in Int /\ MaxRuns \in Int
      OBVIOUS
  <2> QED BY <2>1, FS_Interval DEF Reader
<1>2. ASSUME NEW S \in SUBSET Reader PROVE IsFiniteSet(S)
    BY <1>1, FS_Subset
<1> QED BY <1>2

(* A step that leaves the records as they are may wake readers.            *)
LEMMA WakeFrame ==
    ASSUME LogTypeOK, NoLostWakeup, UNCHANGED <<kept, got>>,
           Asleep' \subseteq Asleep, Ready \subseteq Ready', Ready' \subseteq Reader
    PROVE  NoLostWakeup'
<1>1. IsFiniteSet(Ready')
    BY ReadersFinite
<1>2. IsFiniteSet(Ready) /\ Cardinality(Ready) <= Cardinality(Ready')
      /\ Cardinality(Ready) \in Nat /\ Cardinality(Ready') \in Nat
    BY <1>1, FS_Subset, FS_CardinalityType
<1>3. Len(kept) - Len(got) \in Int
    BY DEF LogTypeOK
<1> QED BY <1>2, <1>3 DEF NoLostWakeup, Ready

(* One reader more that is on its way, or one less.                        *)
LEMMA ReadyCount ==
    ASSUME NEW S \in SUBSET Reader, NEW r \in Reader
    PROVE  /\ Cardinality(S) \in Nat
           /\ r \notin S => Cardinality(S \cup {r}) = Cardinality(S) + 1
           /\ r \in S => Cardinality(S \ {r}) = Cardinality(S) - 1
<1>1. IsFiniteSet(S)
    BY ReadersFinite
<1>2. Cardinality(S) \in Nat
    BY <1>1, FS_CardinalityType
<1>3. r \notin S => Cardinality(S \cup {r}) = Cardinality(S) + 1
    BY <1>1, FS_AddElement
<1>4. r \in S => Cardinality(S \ {r}) = Cardinality(S) - 1
    BY <1>1, FS_RemoveElement
<1> QED BY <1>2, <1>3, <1>4

-----------------------------------------------------------------------------
(* The steps.                                                              *)

LEMMA InitInv == LogInit => LogInv
<1> SUFFICES ASSUME LogInit PROVE LogInv
    OBVIOUS
<1>1. 0 \in Slot /\ NoByte \in Byte
    BY DEF Slot, Byte
<1>2. LogTypeOK
  <2>1. log \in [bytes : [Slot -> Byte], head : Slot, used : 0 .. Cap]
      BY <1>1 DEF LogInit
  <2>2. kept \in Seq(Line) /\ got \in Seq(Record)
      BY DEF LogInit
  <2>3. reader \in [Reader -> {"none", "ready", "waiting", "emitting", "ended"}]
      BY DEF LogInit
  <2>4. logged \in 0 .. MaxLines /\ runs \in 0 .. MaxRuns
      BY DEF LogInit
  <2> QED BY <2>1, <2>2, <2>3, <2>4 DEF LogInit, LogTypeOK
<1>3. Asleep = {}
    BY DEF LogInit, Asleep
<1>4. RingInv
  <2> DEFINE start == [k \in 1 .. 1 |-> 0]
  <2>1. Len(kept) = 0 /\ Len(got) = 0 /\ log.head = 0 /\ log.used = 0
      BY DEF LogInit
  <2>2. 0 % Cap = 0 /\ start \in [1 .. (Len(kept) + 1) -> Nat]
      BY <2>1
  <2>3. Laid(start)
      BY <2>1, <2>2 DEF Laid
  <2> QED BY <2>1, <2>2, <2>3 DEF RingInv, LinesAreWhole
<1>5. EndInv
    BY DEF LogInit, EndInv
<1> QED BY <1>2, <1>3, <1>4, <1>5 DEF LogInv, NoLostWakeup

(* A step that leaves the records as they are keeps their invariant.       *)
LEMMA RingFrame ==
    ASSUME RingInv, UNCHANGED <<log, kept, got>>
    PROVE  RingInv'
<1>1. PICK start \in [1 .. (Len(kept) + 1) -> Nat] : Laid(start)
    BY DEF RingInv
<1>2. Laid(start)'
    BY <1>1 DEF Laid, Size
<1>3. LinesAreWhole'
    BY DEF RingInv, LinesAreWhole, Header, Text
<1> QED BY <1>1, <1>2, <1>3 DEF RingInv

LEMMA StartStep ==
    ASSUME LogInv, LogStart
    PROVE  LogInv'
<1> USE DEF LogStart
<1>1. LogTypeOK'
  <2>1. log' \in [bytes : [Slot -> Byte], head : Slot, used : 0 .. Cap]
    <3>1. 0 \in Slot /\ 0 \in 0 .. Cap
        BY DEF Slot
    <3> QED BY <3>1 DEF LogInv, LogTypeOK
  <2>2. kept' \in Seq(Line) /\ got' \in Seq(Record)
      OBVIOUS
  <2>3. reader' \in [Reader -> {"none", "ready", "waiting", "emitting", "ended"}]
      BY DEF LogInv, LogTypeOK
  <2>4. runs' \in 0 .. MaxRuns /\ logged' \in 0 .. MaxLines
      BY DEF LogInv, LogTypeOK
  <2> QED BY <2>1, <2>2, <2>3, <2>4 DEF LogTypeOK
<1>2. RingInv'
  <2> DEFINE start == [k \in 1 .. 1 |-> 0]
  <2>1. Len(kept') = 0 /\ Len(got') = 0 /\ log'.head = 0 /\ log'.used = 0
      BY DEF LogInv, LogTypeOK
  <2>2. 0 % Cap = 0 /\ start \in [1 .. (Len(kept') + 1) -> Nat]
      BY <2>1
  <2>3. Laid(start)'
      BY <2>1, <2>2 DEF Laid
  <2> QED BY <2>1, <2>2, <2>3 DEF RingInv, LinesAreWhole
<1>3. EndInv'
    BY DEF LogInv, LogTypeOK, EndInv, Reader
<1>4. NoLostWakeup'
  <2>1. Cardinality(Ready') \in Nat
    <3>1. Ready' \in SUBSET Reader
        BY DEF Ready
    <3> QED BY <3>1, ReadersFinite, FS_CardinalityType
  <2> QED BY <2>1 DEF NoLostWakeup, Ready
<1> QED BY <1>1, <1>2, <1>3, <1>4 DEF LogInv

LEMMA StopStep ==
    ASSUME LogInv, LogStop
    PROVE  LogInv'
<1> USE DEF LogStop
<1>1. LogTypeOK'
    BY DEF LogInv, LogTypeOK, history
<1>2. RingInv'
    BY RingFrame DEF LogInv, history
<1>3. EndInv'
    BY DEF LogInv, LogTypeOK, EndInv, history, Reader, Asleep
<1>4. Asleep' = {}
    BY DEF LogInv, LogTypeOK, Asleep
<1> QED BY <1>1, <1>2, <1>3, <1>4 DEF LogInv, NoLostWakeup

(* What a log thread does between two records, or after the last.          *)
LEMMA ReaderStep ==
    ASSUME LogInv, NEW r \in Reader, LogWait(r) \/ LogEnd(r) \/ Emitted(r) \/ Spurious(r)
    PROVE  LogInv'
<1> USE DEF LogWait, LogEnd, Emitted, Spurious, history
<1>1. LogTypeOK'
    BY DEF LogInv, LogTypeOK
<1>2. RingInv'
    BY RingFrame DEF LogInv
<1>3. EndInv'
  <2>1. r \in Reader /\ (runs > 0 => runs \in Reader)
      BY DEF LogInv, LogTypeOK, Reader
  <2>2. CASE LogWait(r) \/ Emitted(r) \/ Spurious(r)
      BY <2>1, <2>2 DEF LogInv, LogTypeOK, EndInv
  <2>3. CASE LogEnd(r)
      BY <2>1, <2>3 DEF LogInv, LogTypeOK, EndInv
  <2> QED BY <2>2, <2>3
<1>4. NoLostWakeup'
  <2>1. CASE LogWait(r) \/ LogEnd(r)
    <3>1. Len(got) = Len(kept) /\ UNCHANGED <<got, kept>>
        BY <2>1, EmptyRing DEF LogInv
    <3>2. Cardinality(Ready') \in Nat
      <4>1. Ready' \in SUBSET Reader
          BY DEF Ready
      <4> QED BY <4>1, ReadersFinite, FS_CardinalityType
    <3>3. Len(got) \in Nat /\ Len(kept) \in Nat
        BY DEF LogInv, LogTypeOK
    <3> QED BY <3>1, <3>2, <3>3 DEF NoLostWakeup, Ready
  <2>2. CASE Emitted(r) \/ Spurious(r)
    <3>1. Asleep' \subseteq Asleep /\ Ready \subseteq Ready' /\ Ready' \subseteq Reader
        BY <2>2 DEF Asleep, Ready, LogInv, LogTypeOK
    <3> QED BY <2>2, <3>1, WakeFrame DEF LogInv
  <2> QED BY <2>1, <2>2
<1> QED BY <1>1, <1>2, <1>3, <1>4 DEF LogInv

(* A line is kept, counted or not looked at.                               *)
LEMMA KeepStep ==
    ASSUME LogInv, NEW len \in 1 .. MaxText, LogWrite(len), reading, Fits(len)
    PROVE  LogInv'
<1> DEFINE line == [id |-> logged + 1, len |-> len]
           hdr  == Header(line)
           text == Text(line)
           mid  == RingPut(log, hdr)
<1>1. /\ line \in Line /\ logged' = logged + 1 /\ logged + 1 \in 0 .. MaxLines
      /\ log' = RingPut(mid, text) /\ kept' = Append(kept, line)
      /\ Signal /\ UNCHANGED <<dropped, refused, reading, runs, got, reported>>
    BY DEF LogWrite, Line, LogInv, LogTypeOK
<1>2. /\ hdr \in Seq(Byte) /\ Len(hdr) = HdrLen
      /\ text \in Seq(Byte) /\ Len(text) = len
      /\ \A i \in 1 .. HdrLen : hdr[i] = [line |-> line, at |-> i]
      /\ \A i \in 1 .. len : text[i] = [line |-> line, at |-> HdrLen + i]
  <2>1. hdr \in [1 .. HdrLen -> Byte]
      BY <1>1 DEF Header, Byte
  <2>2. text \in [1 .. len -> Byte]
      BY <1>1 DEF Text, Byte
  <2> QED BY <2>1, <2>2 DEF Header, Text
<1>3. PICK start \in [1 .. (Len(kept) + 1) -> Nat] : Laid(start)
    BY DEF LogInv, RingInv
<1> DEFINE n == Len(kept)
           g == Len(got)
           a == start[g + 1]
           p == start[n + 1]
<1>4. /\ n \in Nat /\ g \in Nat /\ g <= n /\ kept \in Seq(Line)
      /\ log \in Ring /\ log.head = a % Cap /\ log.used = p - a
      /\ HdrLen + len <= Cap - log.used /\ log.used \in 0 .. Cap
    BY <1>3 DEF LogInv, LogTypeOK, RingInv, LinesAreWhole, Laid, Fits, Ring
<1>5. a \in Nat /\ p \in Nat /\ a + log.used = p
    BY <1>3, <1>4
<1> HIDE DEF line, hdr, text, n, g, a, p
<1>6. /\ mid \in Ring /\ mid.head = log.head /\ mid.used = log.used + HdrLen
      /\ \A i \in 1 .. HdrLen : mid.bytes[(p + i - 1) % Cap] = hdr[i]
      /\ \A k \in a .. (p - 1) : mid.bytes[k % Cap] = log.bytes[k % Cap]
  <2>1. /\ log \in Ring /\ hdr \in Seq(Byte) /\ a \in Nat /\ p \in Nat
        /\ log.head = a % Cap /\ p = a + log.used /\ log.used + Len(hdr) <= Cap
      BY <1>2, <1>4, <1>5
  <2>2. /\ mid \in Ring /\ mid.head = log.head /\ mid.used = log.used + Len(hdr)
        /\ \A i \in 1 .. Len(hdr) : mid.bytes[(p + i - 1) % Cap] = hdr[i]
        /\ \A k \in a .. (p - 1) : mid.bytes[k % Cap] = log.bytes[k % Cap]
    <3>1. WrittenAt(log, hdr, a, p, mid)
        BY <2>1, PutAt
    <3> HIDE DEF mid
    <3> QED BY <3>1 DEF WrittenAt
  <2> HIDE DEF mid
  <2> QED BY <1>2, <1>5, <2>2
<1> HIDE DEF mid
<1>7. /\ log' \in Ring /\ log'.head = mid.head /\ log'.used = mid.used + len
      /\ \A i \in 1 .. len : log'.bytes[(p + HdrLen + i - 1) % Cap] = text[i]
      /\ \A k \in a .. (p + HdrLen - 1) : log'.bytes[k % Cap] = mid.bytes[k % Cap]
  <2> DEFINE full == RingPut(mid, text)
             m    == p + HdrLen
  <2>1. /\ mid \in Ring /\ text \in Seq(Byte) /\ a \in Nat /\ m \in Nat
        /\ mid.head = a % Cap /\ m = a + mid.used /\ mid.used + Len(text) <= Cap
    <3>1. mid \in Ring /\ mid.head = a % Cap /\ text \in Seq(Byte) /\ Len(text) = len /\ a \in Nat
        BY <1>2, <1>4, <1>5, <1>6
    <3>2. mid.used = log.used + HdrLen /\ p = a + log.used /\ log.used \in Nat
        BY <1>2, <1>4, <1>5, <1>6
    <3>3. mid.used + len <= Cap
        BY <1>2, <1>4, <1>5, <1>6, <3>2
    <3>4. m = a + mid.used /\ m \in Nat
        BY <3>1, <3>2
    <3> HIDE DEF m
    <3> QED BY <3>1, <3>3, <3>4
  <2> HIDE DEF m
  <2>2. /\ full \in Ring /\ full.head = mid.head /\ full.used = mid.used + Len(text)
        /\ \A i \in 1 .. Len(text) : full.bytes[(m + i - 1) % Cap] = text[i]
        /\ \A k \in a .. (m - 1) : full.bytes[k % Cap] = mid.bytes[k % Cap]
    <3>1. WrittenAt(mid, text, a, m, full)
        BY <2>1, PutAt
    <3> HIDE DEF full
    <3> QED BY <3>1 DEF WrittenAt
  <2>3. log' = full
      BY <1>1
  <2> HIDE DEF full
  <2>4. /\ log' \in Ring /\ log'.head = mid.head /\ log'.used = mid.used + len
        /\ \A i \in 1 .. len : log'.bytes[(m + i - 1) % Cap] = text[i]
        /\ \A k \in a .. (m - 1) : log'.bytes[k % Cap] = mid.bytes[k % Cap]
      BY <1>2, <2>2, <2>3
  <2>5. \A i \in 1 .. len : m + i - 1 = p + HdrLen + i - 1
      BY DEF m
  <2>6. m - 1 = p + HdrLen - 1
      BY <1>5 DEF m
  <2> QED BY <2>4, <2>5, <2>6, Zenon
<1>8. kept' \in Seq(Line) /\ Len(kept') = n + 1 /\ kept'[n + 1] = line
      /\ \A k \in 1 .. n : kept'[k] = kept[k]
    BY <1>1, <1>4 DEF n
<1>9. LogTypeOK'
  <2>1. reader' \in [Reader -> {"none", "ready", "waiting", "emitting", "ended"}]
      BY <1>1 DEF Signal, LogInv, LogTypeOK, Asleep
  <2> QED BY <1>1, <1>7, <1>8, <2>1 DEF LogInv, LogTypeOK, Ring
<1>9a. /\ start \in [1 .. (n + 1) -> Nat]
       /\ \A k \in 1 .. n : start[k + 1] = start[k] + Size(kept[k])
       /\ \A j, k \in 1 .. (n + 1) : j <= k => start[j] <= start[k]
       /\ \A k \in (g + 1) .. n : \A i \in 1 .. Size(kept[k]) :
             log.bytes[(start[k] + i - 1) % Cap] = [line |-> kept[k], at |-> i]
       /\ a = start[g + 1] /\ p = start[n + 1]
    BY <1>3 DEF Laid, n, g, a, p
<1>10. PICK next \in [1 .. (n + 2) -> Nat] :
           \A k \in 1 .. (n + 2) : next[k] = IF k <= n + 1 THEN start[k] ELSE p + HdrLen + len
  <2> DEFINE f == [k \in 1 .. (n + 2) |-> IF k <= n + 1 THEN start[k] ELSE p + HdrLen + len]
  <2>1. ASSUME NEW k \in 1 .. (n + 2) PROVE f[k] \in Nat
    <3>1. CASE k <= n + 1
      <4>1. k \in 1 .. (n + 1)
          BY <1>4, <3>1
      <4> QED BY <1>9a, <3>1, <4>1
    <3>2. CASE ~(k <= n + 1)
        BY <1>5, <3>2
    <3> QED BY <3>1, <3>2
  <2>2. f \in [1 .. (n + 2) -> Nat]
      BY <2>1
  <2> QED BY <2>2
<1>11. ASSUME NEW i \in 1 .. (HdrLen + len)
       PROVE  log'.bytes[(p + i - 1) % Cap] = [line |-> line, at |-> i]
  <2>1. CASE i <= HdrLen
    <3>1. p + i - 1 \in a .. (p + HdrLen - 1) /\ i \in 1 .. HdrLen
        BY <1>4, <1>5, <2>1
    <3> QED BY <1>2, <1>6, <1>7, <3>1
  <2>2. CASE i > HdrLen
    <3> DEFINE j == i - HdrLen
    <3>1. j \in 1 .. len /\ p + HdrLen + j - 1 = p + i - 1 /\ HdrLen + j = i
        BY <1>5, <2>2
    <3> HIDE DEF j
    <3>2. log'.bytes[(p + HdrLen + j - 1) % Cap] = text[j] /\ text[j] = [line |-> line, at |-> HdrLen + j]
        BY <1>2, <1>7, <3>1
    <3> QED BY <3>1, <3>2
  <2> QED BY <2>1, <2>2
<1>12. ASSUME NEW k \in (g + 1) .. n, NEW i \in 1 .. Size(kept[k])
       PROVE  log'.bytes[(start[k] + i - 1) % Cap] = [line |-> kept[k], at |-> i]
  <2>1. k \in 1 .. n /\ k + 1 \in 1 .. (n + 1) /\ g + 1 \in 1 .. (n + 1) /\ n + 1 \in 1 .. (n + 1)
      BY <1>4
  <2>2. kept[k] \in Line
      BY <1>4, <2>1 DEF n
  <2>3. Size(kept[k]) \in Nat
      BY <2>2 DEF Size, Line
  <2>4. start[k] \in Nat /\ start[k + 1] \in Nat
    <3>1. k \in 1 .. (n + 1)
        BY <1>4, <2>1
    <3> QED BY <1>9a, <2>1, <3>1
  <2>5. start[k + 1] = start[k] + Size(kept[k]) /\ a <= start[k] /\ start[k + 1] <= p
    <3>1. k \in 1 .. (n + 1) /\ g + 1 <= k /\ k + 1 <= n + 1
        BY <1>4
    <3>2. start[g + 1] <= start[k] /\ start[k + 1] <= start[n + 1]
        BY <1>9a, <2>1, <3>1
    <3> QED BY <1>9a, <2>1, <3>2
  <2>6. start[k] + i - 1 \in a .. (p - 1)
      BY <1>5, <2>3, <2>4, <2>5
  <2>7. start[k] + i - 1 \in a .. (p + HdrLen - 1)
      BY <1>5, <2>6
  <2>8. log.bytes[(start[k] + i - 1) % Cap] = [line |-> kept[k], at |-> i]
      BY <1>9a
  <2> QED BY <1>6, <1>7, <2>6, <2>7, <2>8
<1>13. Laid(next)'
  <2>1. \A k \in 1 .. (n + 1) : next[k] = start[k]
      BY <1>4, <1>10
  <2>2. next[n + 2] = p + HdrLen + len /\ next[n + 1] = p
      BY <1>4, <1>10, <1>9a
  <2>3. \A k \in 1 .. (n + 1) : start[k] \in Nat
      BY <1>4, <1>9a
  <2>4. ASSUME NEW k \in 1 .. (n + 1) PROVE next[k + 1] = next[k] + Size(kept'[k])
    <3>1. CASE k \in 1 .. n
      <4>1. k + 1 \in 1 .. (n + 1)
          BY <1>4, <3>1
      <4> QED BY <1>8, <1>9a, <2>1, <3>1, <4>1
    <3>2. CASE k = n + 1
        BY <1>4, <1>5, <1>8, <2>2, <3>2 DEF Size, line
    <3> QED BY <1>4, <3>1, <3>2
  <2>5. ASSUME NEW j \in 1 .. (n + 2), NEW k \in 1 .. (n + 2), j <= k PROVE next[j] <= next[k]
    <3>0. \A x \in 1 .. (n + 1) : \A y \in 1 .. (n + 1) : x <= y => start[x] <= start[y]
        BY <1>9a
    <3>1. CASE k <= n + 1
      <4>1. j \in 1 .. (n + 1) /\ k \in 1 .. (n + 1)
          BY <1>4, <2>5, <3>1
      <4> QED BY <2>1, <2>5, <3>0, <4>1
    <3>2. CASE j <= n + 1 /\ k = n + 2
      <4>1. j \in 1 .. (n + 1) /\ n + 1 \in 1 .. (n + 1) /\ j <= n + 1
          BY <1>4, <3>2
      <4>2. start[j] <= p
          BY <1>9a, <3>0, <4>1
      <4> QED BY <1>5, <2>1, <2>2, <2>3, <3>2, <4>1, <4>2
    <3>3. CASE j = n + 2 /\ k = n + 2
        BY <1>5, <2>2, <3>3
    <3> QED BY <1>4, <2>5, <3>1, <3>2, <3>3
  <2>6. log'.head = next[g + 1] % Cap
    <3>1. next[g + 1] = a
        BY <1>4, <1>9a, <2>1
    <3> QED BY <1>4, <1>6, <1>7, <3>1
  <2>7. log'.used = next[n + 2] - next[g + 1]
    <3>1. next[g + 1] = a
        BY <1>4, <1>9a, <2>1
    <3> QED BY <1>4, <1>5, <1>6, <1>7, <2>2, <3>1
  <2>8. ASSUME NEW k \in (g + 1) .. (n + 1), NEW i \in 1 .. Size(kept'[k])
        PROVE  log'.bytes[(next[k] + i - 1) % Cap] = [line |-> kept'[k], at |-> i]
    <3>1. CASE k \in (g + 1) .. n
      <4>1. kept'[k] = kept[k] /\ next[k] = start[k]
        <5>1. k \in 1 .. n /\ k \in 1 .. (n + 1)
            BY <1>4, <3>1
        <5> QED BY <1>8, <2>1, <5>1
      <4> QED BY <1>12, <3>1, <4>1
    <3>2. CASE k = n + 1
      <4>1. kept'[k] = line /\ next[k] = p /\ i \in 1 .. (HdrLen + len)
          BY <1>8, <2>2, <3>2 DEF Size, line
      <4> QED BY <1>11, <4>1
    <3> QED BY <1>4, <3>1, <3>2
  <2>9. Len(kept') = n + 1 /\ Len(got') = g /\ n + 1 + 1 = n + 2
      BY <1>1, <1>4, <1>8 DEF g
  <2>10. /\ \A k \in 1 .. Len(kept') : next[k + 1] = next[k] + Size(kept'[k])
         /\ \A j, k \in 1 .. (Len(kept') + 1) : j <= k => next[j] <= next[k]
         /\ log'.head = next[Len(got') + 1] % Cap
         /\ log'.used = next[Len(kept') + 1] - next[Len(got') + 1]
         /\ \A k \in (Len(got') + 1) .. Len(kept') : \A i \in 1 .. Size(kept'[k]) :
               log'.bytes[(next[k] + i - 1) % Cap] = [line |-> kept'[k], at |-> i]
      BY <2>4, <2>5, <2>6, <2>7, <2>8, <2>9
  <2> QED BY <2>10 DEF Laid
<1>14. RingInv'
  <2>1. \A i \in 1 .. g : got[i] = Header(kept[i]) \o Text(kept[i]) /\ kept'[i] = kept[i]
    <3>1. \A i \in 1 .. g : got[i] = Header(kept[i]) \o Text(kept[i])
        BY DEF LogInv, RingInv, LinesAreWhole, g
    <3>2. \A i \in 1 .. g : i \in 1 .. n
        BY <1>4
    <3> QED BY <1>8, <3>1, <3>2
  <2>2. Len(got') = g /\ got' = got /\ g <= Len(kept')
      BY <1>1, <1>4, <1>8 DEF g
  <2>3. LinesAreWhole'
      BY <2>1, <2>2 DEF LinesAreWhole
  <2>4. next \in [1 .. (Len(kept') + 1) -> Nat]
    <3>1. Len(kept') + 1 = n + 2
        BY <1>4, <1>8
    <3> QED BY <1>10, <3>1
  <2> QED BY <1>13, <2>3, <2>4 DEF RingInv
<1>15. EndInv'
  <2>1. log'.used > 0
      BY <1>4, <1>6, <1>7
  <2>2. runs > 0 => reader'[runs] # "ended"
      BY <1>1 DEF Signal, LogInv, LogTypeOK, EndInv, Asleep, Reader
  <2> QED BY <1>1, <2>1, <2>2 DEF LogInv, EndInv
<1>16. NoLostWakeup'
  <2>1. CASE Asleep = {}
    <3>1. Asleep' = {}
        BY <1>1, <2>1 DEF Signal, Asleep
    <3> QED BY <3>1 DEF NoLostWakeup
  <2>2. CASE Asleep # {}
    <3>1. PICK r \in Asleep : reader' = [reader EXCEPT ![r] = "ready"]
        BY <1>1, <2>2 DEF Signal
    <3>2. r \in Reader /\ r \notin Ready /\ Ready' = Ready \cup {r} /\ Ready \in SUBSET Reader
        BY <3>1 DEF Asleep, Ready, LogInv, LogTypeOK
    <3>3. Cardinality(Ready') = Cardinality(Ready) + 1 /\ Cardinality(Ready) \in Nat
        BY <3>2, ReadyCount
    <3>4. n - g <= Cardinality(Ready)
        BY <2>2 DEF LogInv, NoLostWakeup, Ready, n, g
    <3>5. Len(kept') = n + 1 /\ Len(got') = g
        BY <1>1, <1>8 DEF g
    <3> QED BY <1>4, <3>3, <3>4, <3>5 DEF NoLostWakeup, Ready
  <2> QED BY <2>1, <2>2
<1> QED BY <1>9, <1>14, <1>15, <1>16 DEF LogInv

LEMMA WriteStep ==
    ASSUME LogInv, NEW len \in 1 .. MaxText, LogWrite(len)
    PROVE  LogInv'
<1>1. CASE reading /\ Fits(len)
    BY <1>1, KeepStep
<1>2. CASE ~(reading /\ Fits(len))
  <2>1. /\ UNCHANGED <<log, reading, reader, runs, kept, got, reported>>
        /\ logged' \in 0 .. MaxLines
        /\ \/ UNCHANGED <<dropped, refused>>
           \/ reading /\ ~Fits(len) /\ dropped' = dropped + 1 /\ refused' = refused + 1
      BY <1>2 DEF LogWrite, LogInv, LogTypeOK
  <2>2. LogTypeOK'
      BY <2>1 DEF LogInv, LogTypeOK
  <2>3. RingInv'
      BY <2>1, RingFrame DEF LogInv
  <2>4. EndInv'
    <3>1. CASE UNCHANGED <<dropped, refused>>
        BY <2>1, <3>1 DEF LogInv, EndInv
    <3>2. CASE ~Fits(len) /\ dropped' = dropped + 1 /\ refused' = refused + 1
      <4>1. log.used > 0
          BY <3>2 DEF Fits, LogInv, LogTypeOK
      <4>2. refused' = reported' + dropped'
          BY <2>1, <3>2 DEF LogInv, LogTypeOK, EndInv
      <4> QED BY <2>1, <4>1, <4>2 DEF LogInv, EndInv
    <3> QED BY <2>1, <3>1, <3>2
  <2>5. NoLostWakeup'
      BY <2>1 DEF LogInv, NoLostWakeup, Asleep
  <2> QED BY <2>2, <2>3, <2>4, <2>5 DEF LogInv
<1> QED BY <1>1, <1>2

(* The next record is the next line that was kept.                         *)
LEMMA ReadStep ==
    ASSUME LogInv, NEW r \in Reader, LogRead(r)
    PROVE  LogInv'
<1> DEFINE n    == Len(kept)
           g    == Len(got)
           hdr  == Front(log, HdrLen)
           rest == Without(log, HdrLen)
           line == kept[g + 1]
           text == Front(rest, TextLen(hdr))
<1>1. /\ reader[r] = "ready" /\ log.used # 0
      /\ reader' = [reader EXCEPT ![r] = "emitting"]
      /\ log' = Without(rest, TextLen(hdr)) /\ got' = Append(got, hdr \o text)
      /\ dropped' = 0 /\ reported' = reported + dropped
      /\ UNCHANGED <<reading, logged, runs, kept, refused>>
    BY DEF LogRead
<1>2. n \in Nat /\ g \in Nat /\ g < n /\ g + 1 \in 1 .. n /\ line \in Line
  <2>1. n \in Nat /\ g \in Nat /\ g <= n /\ kept \in Seq(Line)
      BY DEF LogInv, LogTypeOK, RingInv, LinesAreWhole
  <2>2. g # n
      BY <1>1, EmptyRing DEF LogInv
  <2>3. g + 1 \in 1 .. n
      BY <2>1, <2>2
  <2> QED BY <2>1, <2>2, <2>3
<1>3. PICK start \in [1 .. (Len(kept) + 1) -> Nat] : Laid(start)
    BY DEF LogInv, RingInv
<1> DEFINE a == start[g + 1]
           b == start[g + 2]
<1>4. /\ a \in Nat /\ b \in Nat /\ b = a + Size(line) /\ Size(line) <= log.used
      /\ log.head = a % Cap /\ log.used = start[n + 1] - a
      /\ \A i \in 1 .. Size(line) : log.bytes[(a + i - 1) % Cap] = [line |-> line, at |-> i]
  <2>1. /\ g + 1 \in 1 .. (n + 1) /\ g + 2 \in 1 .. (n + 1) /\ n + 1 \in 1 .. (n + 1)
        /\ g + 2 <= n + 1 /\ g + 1 \in (g + 1) .. n /\ (g + 1) + 1 = g + 2
      BY <1>2
  <2>2. a \in Nat /\ b \in Nat /\ start[n + 1] \in Nat
      BY <1>3, <2>1
  <2>3. b = a + Size(line) /\ b <= start[n + 1]
      BY <1>2, <1>3, <2>1 DEF Laid
  <2>4. log.head = a % Cap /\ log.used = start[n + 1] - a
      BY <1>3 DEF Laid
  <2>5. \A i \in 1 .. Size(line) : log.bytes[(a + i - 1) % Cap] = [line |-> line, at |-> i]
      BY <1>3, <2>1 DEF Laid
  <2>6. Size(line) \in Nat
      BY <1>2 DEF Size, Line
  <2> HIDE DEF a, b, line, n
  <2> QED BY <2>2, <2>3, <2>4, <2>5, <2>6
<1>5. log \in Ring /\ log.used \in 0 .. Cap /\ line.len \in 1 .. MaxText
      /\ Size(line) = HdrLen + line.len
    BY <1>2 DEF LogInv, LogTypeOK, Ring, Line, Size
<1> HIDE DEF n, g, line, a, b
<1>5a. /\ a \in Nat /\ b \in Nat /\ line.len \in Nat /\ log.used \in Nat
       /\ b = a + (HdrLen + line.len) /\ HdrLen + line.len <= log.used /\ line.len <= Cap
  <2>1. a \in Nat /\ b \in Nat /\ b = a + Size(line) /\ Size(line) <= log.used
      BY <1>4
  <2> QED BY <1>5, <2>1
<1>6. TakenAt(log, a, HdrLen, hdr, rest)
  <2>1. HdrLen \in 0 .. Cap /\ HdrLen <= log.used
      BY <1>4, <1>5
  <2> QED BY <1>4, <1>5, <2>1, GetAt
<1> HIDE DEF hdr, rest
<1>7. hdr = Header(line) /\ TextLen(hdr) = line.len
  <2>1. \A i \in 1 .. HdrLen : hdr[i] = [line |-> line, at |-> i]
    <3>1. \A i \in 1 .. HdrLen : i \in 1 .. Size(line)
        BY <1>5
    <3> QED BY <1>4, <1>6, <3>1 DEF TakenAt
  <2>2. hdr = Header(line)
      BY <1>6, <2>1 DEF TakenAt, Header
  <2>3. HdrLen \in 1 .. HdrLen
      OBVIOUS
  <2>4. hdr[HdrLen] = [line |-> line, at |-> HdrLen]
      BY <2>1, <2>3, Zenon
  <2>5. hdr[HdrLen].line = line
      BY <2>4
  <2> QED BY <2>2, <2>5 DEF TextLen
<1>8. TakenAt(rest, a + HdrLen, line.len, text, log')
  <2>1. rest \in Ring /\ rest.head = (a + HdrLen) % Cap /\ rest.used = log.used - HdrLen
      BY <1>6 DEF TakenAt
  <2>2. a + HdrLen \in Nat /\ line.len \in 0 .. Cap /\ line.len <= rest.used
      BY <1>5a, <2>1
  <2>3. TakenAt(rest, a + HdrLen, line.len, Front(rest, line.len), Without(rest, line.len))
      BY <2>1, <2>2, GetAt
  <2> QED BY <1>1, <1>7, <2>3
<1> HIDE DEF text
<1>9. text = Text(line)
  <2>1. ASSUME NEW i \in 1 .. line.len PROVE text[i] = [line |-> line, at |-> HdrLen + i]
    <3> DEFINE j == HdrLen + i
    <3>1. j \in 1 .. Size(line) /\ a + HdrLen + i - 1 = a + j - 1
        BY <1>4, <1>5
    <3> HIDE DEF j
    <3>2. text[i] = rest.bytes[(a + HdrLen + i - 1) % Cap] /\ rest.bytes = log.bytes
        BY <1>6, <1>8 DEF TakenAt
    <3>3. text[i] = [line |-> line, at |-> j]
        BY <1>4, <3>1, <3>2
    <3> QED BY <3>3 DEF j
  <2>2. text \in Seq(Byte) /\ Len(text) = line.len
      BY <1>8 DEF TakenAt
  <2>3. text = [i \in 1 .. line.len |-> text[i]]
      BY <2>2
  <2>4. [i \in 1 .. line.len |-> text[i]] = Text(line)
      BY <2>1, Zenon DEF Text
  <2> QED BY <2>3, <2>4
<1>10. log' \in Ring /\ log'.head = b % Cap /\ log'.used = log.used - Size(line)
       /\ log'.bytes = log.bytes
  <2>1. a + HdrLen + line.len = b
      BY <1>5a
  <2>2. rest.used = log.used - HdrLen /\ rest.bytes = log.bytes
      BY <1>6 DEF TakenAt
  <2>3. log' \in Ring /\ log'.head = (a + HdrLen + line.len) % Cap
        /\ log'.used = rest.used - line.len /\ log'.bytes = rest.bytes
      BY <1>8 DEF TakenAt
  <2>4. log'.head = b % Cap
      BY <2>1, <2>3
  <2> QED BY <1>5, <2>2, <2>3, <2>4
<1>11. got' = Append(got, Header(line) \o Text(line)) /\ hdr \o text \in Record
    BY <1>1, <1>6, <1>7, <1>8, <1>9 DEF TakenAt, Record
<1>12. got' \in Seq(Record) /\ Len(got') = g + 1
       /\ got'[g + 1] = Header(line) \o Text(line) /\ \A i \in 1 .. g : got'[i] = got[i]
  <2> DEFINE rec == Header(line) \o Text(line)
  <2>1. rec \in Record /\ got' = Append(got, rec) /\ got \in Seq(Record)
      BY <1>7, <1>9, <1>11 DEF LogInv, LogTypeOK
  <2> HIDE DEF rec
  <2>2. got' \in Seq(Record) /\ Len(got') = g + 1
        /\ got'[g + 1] = rec /\ \A i \in 1 .. g : got'[i] = got[i]
      BY <2>1 DEF g
  <2> QED BY <2>2 DEF rec
<1>13. LogTypeOK'
  <2>1. reader' \in [Reader -> {"none", "ready", "waiting", "emitting", "ended"}]
      BY <1>1 DEF LogInv, LogTypeOK
  <2> QED BY <1>1, <1>10, <1>12, <2>1 DEF LogInv, LogTypeOK, Ring
<1>14. RingInv'
  <2>1. LinesAreWhole'
    <3>1. \A i \in 1 .. g : got[i] = Header(kept[i]) \o Text(kept[i])
        BY DEF LogInv, RingInv, LinesAreWhole, g
    <3>2. \A i \in 1 .. (g + 1) : got'[i] = Header(kept[i]) \o Text(kept[i])
      <4> TAKE i \in 1 .. (g + 1)
      <4>1. CASE i \in 1 .. g
          BY <1>12, <3>1, <4>1
      <4>2. CASE i = g + 1
          BY <1>12, <4>2 DEF line
      <4> QED BY <1>2, <4>1, <4>2
    <3>3. kept' = kept /\ Len(got') <= Len(kept')
        BY <1>1, <1>2, <1>12 DEF n
    <3> QED BY <1>12, <3>2, <3>3 DEF LinesAreWhole
  <2>2. Laid(start)'
    <3>1. kept' = kept /\ Len(got') = g + 1 /\ Len(kept) = n /\ g + 1 + 1 = g + 2
        BY <1>1, <1>2, <1>12 DEF n
    <3>2. log'.head = start[g + 2] % Cap
        BY <1>10 DEF b
    <3>3. log'.used = start[n + 1] - start[g + 2]
      <4>1. start[n + 1] \in Nat
          BY <1>2, <1>3 DEF n
      <4>2. Size(line) \in Nat
          BY <1>5
      <4> QED BY <1>4, <1>10, <4>1, <4>2 DEF b
    <3>4. \A k \in (g + 2) .. n : \A i \in 1 .. Size(kept[k]) :
              log'.bytes[(start[k] + i - 1) % Cap] = [line |-> kept[k], at |-> i]
      <4>1. \A k \in (g + 2) .. n : k \in (g + 1) .. n
          BY <1>2
      <4> QED BY <1>3, <1>10, <4>1 DEF Laid, n, g
    <3>5. /\ \A k \in 1 .. n : start[k + 1] = start[k] + Size(kept[k])
          /\ \A j, k \in 1 .. (n + 1) : j <= k => start[j] <= start[k]
        BY <1>3 DEF Laid, n
    <3>6. (Len(got') + 1) = g + 2
        BY <3>1
    <3> QED BY <3>1, <3>2, <3>3, <3>4, <3>5, <3>6 DEF Laid
  <2> QED BY <1>1, <2>1, <2>2 DEF RingInv
<1>15. EndInv'
  <2>1. refused' = reported' + dropped' /\ ~(dropped' > 0)
      BY <1>1 DEF LogInv, LogTypeOK, EndInv
  <2>2. runs' > 0 => reader'[runs'] # "ended"
    <3>1. runs > 0 => runs \in Reader
        BY DEF LogInv, LogTypeOK, Reader
    <3> QED BY <1>1, <3>1 DEF LogInv, LogTypeOK, EndInv
  <2> QED BY <2>1, <2>2 DEF EndInv
<1>16. NoLostWakeup'
  <2>1. Asleep' = Asleep /\ r \in Ready /\ Ready' = Ready \ {r} /\ Ready \in SUBSET Reader
      BY <1>1 DEF Asleep, Ready, LogInv, LogTypeOK
  <2>2. Cardinality(Ready') = Cardinality(Ready) - 1 /\ Cardinality(Ready) \in Nat
      BY <2>1, ReadyCount
  <2>3. Len(kept') = n /\ Len(got') = g + 1
      BY <1>1, <1>12 DEF n
  <2>4. Asleep # {} => n - g <= Cardinality(Ready)
      BY DEF LogInv, NoLostWakeup, Ready, n, g
  <2> QED BY <1>2, <2>1, <2>2, <2>3, <2>4 DEF NoLostWakeup, Ready
<1> QED BY <1>13, <1>14, <1>15, <1>16 DEF LogInv

-----------------------------------------------------------------------------
(* The theorems.                                                           *)

LEMMA StepInv == LogInv /\ [LogNext]_logVars => LogInv'
<1> SUFFICES ASSUME LogInv, [LogNext]_logVars PROVE LogInv'
    OBVIOUS
<1>1. CASE LogStart
    BY <1>1, StartStep
<1>2. CASE LogStop
    BY <1>2, StopStep
<1>3. CASE \E len \in 1 .. MaxText : LogWrite(len)
    BY <1>3, WriteStep
<1>4. CASE \E r \in Reader : ReaderSteps(r) \/ Spurious(r)
  <2>1. PICK r \in Reader : ReaderSteps(r) \/ Spurious(r)
      BY <1>4
  <2>2. CASE LogRead(r)
      BY <2>2, ReadStep
  <2>3. CASE LogWait(r) \/ LogEnd(r) \/ Emitted(r) \/ Spurious(r)
      BY <2>3, ReaderStep
  <2> QED BY <2>1, <2>2, <2>3 DEF ReaderSteps
<1>5. CASE UNCHANGED logVars
  <2>1. UNCHANGED <<log, dropped, reading, reader, logged, runs, kept, got, refused, reported>>
      BY <1>5 DEF logVars, history
  <2>2. LogTypeOK'
      BY <2>1 DEF LogInv, LogTypeOK
  <2>3. RingInv'
      BY <2>1, RingFrame DEF LogInv
  <2>4. EndInv' /\ NoLostWakeup'
      BY <2>1 DEF LogInv, EndInv, NoLostWakeup, Asleep
  <2> QED BY <2>2, <2>3, <2>4 DEF LogInv
<1> QED BY <1>1, <1>2, <1>3, <1>4, <1>5 DEF LogNext

(* The invariant holds in every state of the capture.                      *)
THEOREM Invariance == LogSpec => []LogInv
<1>1. LogInit => LogInv
    BY InitInv
<1>2. LogInv /\ [LogNext]_logVars => LogInv'
    BY StepInv
<1> QED BY <1>1, <1>2, PTL DEF LogSpec

(* A record is handed over whole and in its turn: ring_put and ring_get     *)
(* split it at the end of the buffer in the same place.                     *)
THEOREM RecordsAreWhole == LogSpec => []LinesAreWhole
<1>1. LogInv => LinesAreWhole
    BY DEF LogInv, RingInv
<1> QED BY <1>1, Invariance, PTL

(* Every line that was kept or refused is handed over or accounted for by   *)
(* the time the log thread of its capture has ended.                        *)
THEOREM NothingStaysBehind == LogSpec => []NothingIsLeft
<1>1. LogInv => NothingIsLeft
  <2> SUFFICES ASSUME LogInv PROVE NothingIsLeft
      OBVIOUS
  <2>1. (log.used = 0) <=> (Len(got) = Len(kept))
      BY EmptyRing DEF LogInv
  <2>2. Len(got) \in Nat /\ Len(kept) \in Nat /\ Len(got) <= Len(kept)
        /\ log.used \in 0 .. Cap /\ dropped \in Nat
      BY DEF LogInv, LogTypeOK, RingInv, LinesAreWhole
  <2> QED BY <2>1, <2>2 DEF LogInv, EndInv, NothingIsLeft
<1> QED BY <1>1, Invariance, PTL

(* bp_log_write signals, bp_log_stop broadcasts: no log thread sleeps       *)
(* through a record that no other is on its way to.                         *)
THEOREM WakeupsArrive == LogSpec => []NoLostWakeup
<1>1. LogInv => NoLostWakeup
    BY DEF LogInv
<1> QED BY <1>1, Invariance, PTL

-----------------------------------------------------------------------------
(*                              The two together                           *)

(* When the capture is off: before start(), and from the stop on, which is  *)
(* only after the SIP thread is gone or given up.                           *)
OffInv ==
    /\ life = "new" => ~reading /\ re = "none"
    /\ stopped => life \in {"close_log", "ended"}
    /\ life \in {"close_log", "ended"} => ~Alive \/ poisoned
    /\ re \in {"init", "loop", "left", "unwind"} => reading \/ poisoned
    /\ unseen => poisoned

(* What the steps of the runtime that leave the capture alone may do.       *)
Keeps ==
    /\ life' = "new" => life = "new" /\ (re = "none" => re' = "none")
    /\ life \in {"close_log", "ended"} => life' = life
    /\ life' \in {"close_log", "ended"} => life \in {"close_log", "ended"} \/ ~Alive' \/ poisoned'
    /\ re' \in {"init", "loop", "left", "unwind"} => re \in {"init", "loop", "left", "unwind"}
    /\ Alive' => Alive
    /\ poisoned => poisoned'

LEMMA KeepsOff ==
    ASSUME OffInv, Keeps, UNCHANGED capVars
    PROVE  OffInv'
<1>1. UNCHANGED <<reading, stopped, unseen>>
    BY DEF capVars, logVars
<1> QED BY <1>1 DEF OffInv, Keeps

LEMMA CommandKeeps ==
    ASSUME Push \/ Callbacks \/ Expiries \/ Coroutines \/ ApplicationSteps
    PROVE  Keeps
<1> USE DEF Keeps, Alive, lifeVars, reVars, LoopFree
<1>1. CASE Push
    BY <1>1 DEF Push
<1>2. CASE Callbacks
  <2>1. CASE Dispatch
      BY <2>1 DEF Dispatch
  <2>2. CASE FinishDeath
      BY <2>2 DEF FinishDeath
  <2>3. CASE \E n \in Cmd : Resume(n)
      BY <2>3 DEF Resume
  <2> QED BY <1>2, <2>1, <2>2, <2>3 DEF Callbacks
<1>3. CASE Expiries
    BY <1>3 DEF Expiries, Timeout
<1>4. CASE Coroutines
  <2>1. CASE WatchPing \/ WatchRefused \/ WatchGoesOn
      BY <2>1 DEF WatchPing, WatchRefused, WatchGoesOn
  <2>2. CASE DrainBegin \/ DrainAgain \/ DrainAnswered \/ DrainPoll \/ DrainRaises
      BY <2>2 DEF DrainBegin, DrainAgain, DrainAnswered, DrainPoll, DrainRaises
  <2> QED BY <1>4, <2>1, <2>2 DEF Coroutines
<1>5. CASE ApplicationSteps
    BY <1>5 DEF ApplicationSteps, Close, Dial, Cancel
<1> QED BY <1>1, <1>2, <1>3, <1>4, <1>5

LEMMA LifeKeeps ==
    ASSUME LifecycleSteps \/ ReThreadSteps \/ Outside
    PROVE  Keeps
<1> USE DEF Keeps, Alive, lifeVars, reVars
<1>1. CASE LifecycleSteps
  <2>1. CASE Started \/ Setting \/ SettingApplied \/ StartReturns
      BY <2>1 DEF Started, Setting, SettingApplied, StartReturns
  <2>2. CASE StartFails \/ StartFailed
      BY <2>2 DEF StartFails, StartFailed
  <2>3. CASE SendStop \/ Joined
      BY <2>3 DEF SendStop, Joined
  <2> QED BY <1>1, <2>1, <2>2, <2>3 DEF LifecycleSteps
<1>2. CASE ReThreadSteps
  <2>1. CASE ReInit
      BY <2>1 DEF ReInit
  <2>2. CASE Handle
      BY <2>2 DEF Handle
  <2>3. CASE HandleStop
      BY <2>3 DEF HandleStop
  <2>4. CASE LoopDone
      BY <2>4 DEF LoopDone
  <2>5. CASE Unwound
      BY <2>5 DEF Unwound
  <2>6. CASE CheckClosing
      BY <2>6 DEF CheckClosing
  <2> QED BY <1>2, <2>1, <2>2, <2>3, <2>4, <2>5, <2>6 DEF ReThreadSteps
<1>3. CASE Outside
  <2>1. CASE LoopFails
      BY <2>1 DEF LoopFails
  <2>2. CASE CallArrives \/ CallEnds
      BY <2>2 DEF CallArrives, CallEnds
  <2> QED BY <1>3, <2>1, <2>2 DEF Outside
<1> QED BY <1>1, <1>2, <1>3

LEMMA OffInit == SysInit => OffInv
    BY DEF SysInit, Init, LogInit, OffInv, Alive

(* Whatever the capture does but a stop leaves it on.                       *)
LEMMA OnlyStop ==
    ASSUME LogStart \/ (\E len \in 1 .. MaxText : LogWrite(len))
           \/ (\E r \in Reader : ReaderSteps(r) \/ Spurious(r))
    PROVE  reading => reading'
BY DEF LogStart, LogWrite, ReaderSteps, LogWait, LogRead, LogEnd, Emitted, Spurious

LEMMA OffStep ==
    ASSUME OffInv, [SysNext]_sysVars
    PROVE  OffInv'
<1> USE DEF OffInv, Alive
<1>1. CASE StartCapturing
  <2>1. life = "new" /\ life' = "starting" /\ poisoned' = poisoned /\ stopped' = stopped
        /\ unseen' = unseen /\ re' \in {"init", "none"}
      BY <1>1 DEF StartCapturing, Start
  <2>2. re' = "init" => reading'
      BY <1>1 DEF StartCapturing, LogStart
  <2> QED BY <2>1, <2>2
<1>2. CASE StopCapture
  <2>1. UNCHANGED <<life, re, poisoned, unseen>> /\ life \in {"close_log", "ended"}
      BY <1>2 DEF StopCapture, vars, lifeVars, reVars
  <2> QED BY <2>1
<1>3. CASE CaptureClosed
    BY <1>3 DEF CaptureClosed, Closed, reVars, capVars, logVars
<1>4. CASE DieCapturing
  <2>1. re' = "gone" /\ poisoned' /\ UNCHANGED <<life, stopped, unseen>> /\ re = "dying"
      BY <1>4 DEF DieCapturing, Die
  <2> QED BY <2>1
<1>5. CASE StackLogs
  <2>1. UNCHANGED <<life, re, poisoned, stopped>> /\ re \in {"init", "loop", "left", "unwind"}
        /\ unseen' = (unseen \/ ~reading)
      BY <1>5 DEF StackLogs, vars, lifeVars, reVars
  <2>2. reading => reading'
      BY <1>5, OnlyStop DEF StackLogs
  <2>3. life # "new"
      BY <2>1
  <2> QED BY <2>1, <2>2, <2>3
<1>6. CASE (\E r \in 1 .. MaxRuns : LogThread(r)) \/ Wakes
  <2>1. UNCHANGED <<life, re, poisoned, stopped, unseen>>
      BY <1>6 DEF LogThread, Wakes, vars, lifeVars, reVars
  <2>2. reading' = reading
      BY <1>6 DEF LogThread, Wakes, ReaderSteps, LogWait, LogRead, LogEnd, Emitted, Spurious
  <2> QED BY <2>1, <2>2
<1>7. CASE Successor
  <2>1. UNCHANGED <<life, re, poisoned, stopped, unseen>> /\ stopped
      BY <1>7 DEF Successor, vars, lifeVars, reVars
  <2> QED BY <2>1
<1>8. CASE OtherSteps
  <2>1. Keeps
      BY <1>8, CommandKeeps, LifeKeeps DEF OtherSteps
  <2>2. UNCHANGED capVars
      BY <1>8 DEF OtherSteps
  <2> QED BY <2>1, <2>2, KeepsOff
<1>9. CASE UNCHANGED sysVars
    BY <1>9 DEF sysVars, vars, lifeVars, reVars, capVars, logVars
<1> QED BY <1>1, <1>2, <1>3, <1>4, <1>5, <1>6, <1>7, <1>8, <1>9 DEF SysNext

(* A step of the whole is a step of the capture, or none.                   *)
LEMMA StepOfCapture ==
    ASSUME OffInv, [SysNext]_sysVars
    PROVE  [LogNext]_logVars
<1>1. CASE StartCapturing
    BY <1>1 DEF StartCapturing, Start, OffInv, LogNext
<1>2. CASE StopCapture \/ DieCapturing
    BY <1>2 DEF StopCapture, DieCapturing, LogNext
<1>3. CASE StackLogs
    BY <1>3 DEF StackLogs, LogNext
<1>4. CASE (\E r \in 1 .. MaxRuns : LogThread(r)) \/ Wakes
    BY <1>4 DEF LogThread, Wakes, LogNext, Reader
<1>5. CASE Successor
    BY <1>5 DEF Successor, LogNext
<1>6. CASE CaptureClosed \/ OtherSteps \/ UNCHANGED sysVars
    BY <1>6 DEF CaptureClosed, OtherSteps, sysVars, capVars
<1> QED BY <1>1, <1>2, <1>3, <1>4, <1>5, <1>6 DEF SysNext

(* The runtime, its SIP thread and its successors start, stop and write the *)
(* capture only as LogCapture.tla allows: never two captures at a time.     *)
THEOREM UsesCapture == SysSpec => LogSpec
<1>1. SysInit => LogInit /\ OffInv
    BY OffInit DEF SysInit
<1>2. OffInv /\ [SysNext]_sysVars => OffInv'
    BY OffStep
<1>3. OffInv /\ [SysNext]_sysVars => [LogNext]_logVars
    BY StepOfCapture
<1> QED BY <1>1, <1>2, <1>3, PTL DEF SysSpec, LogSpec

(* No line of the stack is lost, torn or out of its turn: from the first    *)
(* line of bp_loop_init to the last of bp_loop_done the capture is on,      *)
(* unless the SIP thread was given up as wedged.                            *)
THEOREM LinesKept == SysSpec => []LinesAreKept
<1>1. SysInit => OffInv
    BY OffInit
<1>2. OffInv /\ [SysNext]_sysVars => OffInv'
    BY OffStep
<1>3. LogInv => LogTypeOK
    BY DEF LogInv
<1>4. OffInv /\ LogTypeOK /\ LinesAreWhole /\ NothingIsLeft => LinesAreKept
    BY DEF OffInv, LinesAreKept
<1> QED BY <1>1, <1>2, <1>3, <1>4, UsesCapture, Invariance, RecordsAreWhole,
           NothingStaysBehind, PTL DEF SysSpec

(* With its capture, a runtime behaves as Runtime.tla says: what is proved  *)
(* of the runtime alone holds of the whole.                                *)
THEOREM UsesRuntime == SysSpec => Spec
<1>1. SysInit => Init
    BY DEF SysInit
<1>2. [SysNext]_sysVars => [Next]_vars
  <2> SUFFICES ASSUME [SysNext]_sysVars PROVE [Next]_vars
      OBVIOUS
  <2>1. CASE StartCapturing \/ CaptureClosed \/ DieCapturing
      BY <2>1 DEF StartCapturing, CaptureClosed, DieCapturing, Next, Application, Lifecycle, ReThread
  <2>2. CASE StopCapture \/ StackLogs \/ (\E r \in 1 .. MaxRuns : LogThread(r)) \/ Wakes \/ Successor
      BY <2>2 DEF StopCapture, StackLogs, LogThread, Wakes, Successor
  <2>3. CASE OtherSteps
      BY <2>3 DEF OtherSteps, LifecycleSteps, ApplicationSteps, ReThreadSteps,
                  Next, Lifecycle, Application, ReThread
  <2>4. CASE UNCHANGED sysVars
      BY <2>4 DEF sysVars
  <2> QED BY <2>1, <2>2, <2>3, <2>4 DEF SysNext
<1> QED BY <1>1, <1>2, PTL DEF SysSpec, Spec
=============================================================================
