-------------------------- MODULE NativeLoopProofs ---------------------------
(***************************************************************************)
(* Proofs about NativeLoop.tla, for every number of threads, queue length  *)
(* and number of commands and queues.                                      *)
(***************************************************************************)
EXTENDS NativeLoop, SequenceTheorems, TLAPS

USE NativeLoopAssumption

-----------------------------------------------------------------------------
(* The inductive invariant.                                                *)

(* A thread between bp_loop_run's two critical sections has g_in_loop, and *)
(* the queue it entered with; there is one such thread.                    *)
Inside(t) == place[t] \in {"loop", "stop?", "cancelling", "leave?"}

LoopInv ==
    /\ \A t \in Thread : Inside(t) => using[t] = mq /\ mq # 0 /\ inLoop
    /\ \A t, u \in Thread : Inside(t) /\ Inside(u) => t = u

(* A thread that brings the stack up or down has the lock all the while, and *)
(* there is no queue then.                                                   *)
LockInv ==
    \A t \in Thread : place[t] \in {"initing", "undoing"} => lock = t /\ mq = 0

(* Once a STOP of the queue was handled, the gate is closed, or its handler *)
(* waits for the lock to do so.                                             *)
GateInv ==
    mq # 0 /\ running =>
        \A k \in 1 .. Len(handled[mq]) :
            handled[mq][k].op = "stop" => \E t \in Thread : place[t] = "stop?" /\ using[t] = mq

(* What was accepted into the queue is what was handled followed by what    *)
(* waits in it; into a queue that was freed, followed by what was lost with *)
(* it; and a queue that is still to come has no history.                    *)
HistoryInv ==
    /\ mq # 0 => handled[mq] \o queue = accepted[mq]
    /\ \A g \in 1 .. MaxInits :
          /\ \E rest \in Seq(Message) : handled[g] \o rest = accepted[g]
          /\ g > inits => handled[g] = <<>> /\ accepted[g] = <<>>

Safe == TypeOK /\ LoopInv /\ LockInv /\ GateInv

Inv == Safe /\ HistoryInv

LEMMA InitInv == Init => Inv
<1> SUFFICES ASSUME Init PROVE Inv
    OBVIOUS
<1>1. [id |-> 1, op |-> "ping"] \in Message
    BY DEF Message
<1>2. TypeOK
  <2>1. queue \in Seq(Message) /\ Len(queue) <= QCap
      BY DEF Init
  <2>2. accepted \in History /\ handled \in History
      BY DEF Init, History
  <2>3. place \in [Thread -> Places] /\ msg \in [Thread -> Message] /\ using \in [Thread -> 0 .. MaxInits]
      BY <1>1 DEF Init, Places
  <2>4. /\ lock \in Thread \cup {NoThread}
        /\ mq \in 0 .. inits /\ inits \in 0 .. MaxInits /\ cmds \in 0 .. MaxCmds
      BY DEF Init
  <2>5. running \in BOOLEAN /\ inLoop \in BOOLEAN
      BY DEF Init
  <2> QED BY <2>1, <2>2, <2>3, <2>4, <2>5 DEF TypeOK
<1>3. LoopInv /\ LockInv /\ GateInv
    BY DEF Init, LoopInv, LockInv, GateInv, Inside
<1>4. HistoryInv
  <2>1. <<>> \in Seq(Message) /\ <<>> \o <<>> = <<>>
      BY ConcatEmptySeq
  <2> QED BY <2>1 DEF Init, HistoryInv
<1> QED BY <1>2, <1>3, <1>4 DEF Inv, Safe

-----------------------------------------------------------------------------
LEMMA AppendType ==
    ASSUME NEW S, NEW q \in Seq(S), NEW x \in S
    PROVE  Append(q, x) \in Seq(S) /\ Len(Append(q, x)) = Len(q) + 1
OBVIOUS

LEMMA TailType ==
    ASSUME NEW S, NEW q \in Seq(S), q # <<>>
    PROVE  Tail(q) \in Seq(S) /\ Len(Tail(q)) < Len(q) /\ Head(q) \in S
OBVIOUS

(* Each action preserves it.  The conjuncts are taken apart, since few      *)
(* actions disturb more than the places of the threads.                     *)

(* Nothing but the place of a thread changes, and where it goes is neither  *)
(* in re_main nor under the lock. *)
LEMMA MovesOut ==
    ASSUME Inv, NEW t \in Thread, NEW there \in {"out", "cmd?", "init?", "run?", "done?"},
           place' = [place EXCEPT ![t] = there], place[t] # "stop?",
           UNCHANGED <<mq, inLoop, using, running, handled, inits>>,
           place[t] \notin {"initing", "undoing"} => lock' = lock,
           lock' \in {lock, NoThread}
    PROVE  LoopInv' /\ LockInv' /\ GateInv'
<1> USE DEF Inv, Safe, TypeOK
<1>1. LoopInv'
    BY DEF LoopInv, Inside
<1>2. LockInv'
    BY DEF LockInv
<1>3. GateInv'
    BY DEF GateInv
<1> QED BY <1>1, <1>2, <1>3

LEMMA CmdInv ==
    ASSUME Inv, NEW t \in Thread,
           (\E op \in {"ping", "stop"} : t \in Caller /\ CmdEnter(t, op)) \/ CmdPush(t)
    PROVE  Safe'
<1> USE DEF Inv, Safe
<1>1. CASE \E op \in {"ping", "stop"} : t \in Caller /\ CmdEnter(t, op)
  <2>1. PICK op \in {"ping", "stop"} : CmdEnter(t, op)
      BY <1>1
  <2>2. TypeOK'
    <3>1. cmds + 1 \in 1 .. MaxCmds /\ cmds' \in 0 .. MaxCmds
        BY <2>1 DEF CmdEnter, TypeOK
    <3>2. [id |-> cmds + 1, op |-> op] \in Message
        BY <3>1 DEF Message
    <3> QED BY <2>1, <3>1, <3>2 DEF CmdEnter, TypeOK, Goes, Places
  <2>3. LoopInv' /\ LockInv' /\ GateInv'
      BY <2>1, MovesOut DEF CmdEnter, Goes, From
  <2> QED BY <2>2, <2>3
<1>2. CASE CmdPush(t)
  <2>1. TypeOK'
    <3>1. place' \in [Thread -> Places]
        BY <1>2 DEF CmdPush, TypeOK, Goes, Places
    <3>2. CASE GateClosed
        BY <1>2, <3>1, <3>2 DEF CmdPush, TypeOK
    <3>3. CASE ~GateClosed
      <4>1. mq \in 1 .. MaxInits /\ msg[t] \in Message
          BY <3>3 DEF GateClosed, TypeOK
      <4>m. queue \in Seq(Message) /\ Len(queue) \in Nat /\ Len(queue) <= QCap
          BY DEF TypeOK
      <4>2. queue' \in Seq(Message) /\ Len(queue') <= QCap
          BY <1>2, <3>3, <4>1, <4>m, AppendType DEF CmdPush, Enqueued, QueueFull
      <4>3. accepted' \in History
        <5>1. accepted \in [1 .. MaxInits -> Seq(Message)]
            BY DEF TypeOK, History
        <5>2. Append(accepted[mq], msg[t]) \in Seq(Message)
            BY <4>1, <5>1
        <5>3. accepted' = accepted \/ accepted' = [accepted EXCEPT ![mq] = Append(accepted[mq], msg[t])]
            BY <1>2, <3>3 DEF CmdPush
        <5> QED BY <5>1, <5>2, <5>3 DEF History
      <4> QED BY <1>2, <3>1, <4>2, <4>3 DEF CmdPush, TypeOK
    <3> QED BY <3>2, <3>3
  <2>2. LoopInv' /\ LockInv' /\ GateInv'
      BY <1>2, MovesOut DEF CmdPush, Goes, From
  <2> QED BY <2>1, <2>2
<1> QED BY <1>1, <1>2

LEMMA StackInv ==
    ASSUME Inv, NEW t \in Thread,
           InitEnter(t) \/ InitLock(t) \/ InitSucceeds(t) \/ InitFails(t)
           \/ Done(t) \/ (t \in Caller /\ StrayDone(t)) \/ DoneReturns(t)
    PROVE  Safe'
<1> USE DEF Inv, Safe, From, Goes, LockFree
<1>t. Thread \cap {NoThread} = {}
    BY DEF Thread
<1>1. CASE InitEnter(t)
  <2>1. TypeOK'
      BY <1>1 DEF InitEnter, TypeOK, Places
  <2> QED BY <1>1, <2>1, MovesOut DEF InitEnter
<1>2. CASE InitLock(t)
  <2>1. TypeOK'
      BY <1>2 DEF InitLock, TypeOK, Places
  <2>2. CASE mq # 0
      BY <1>2, <2>1, <2>2, MovesOut DEF InitLock
  <2>3. CASE mq = 0
    <3>1. place' = [place EXCEPT ![t] = "initing"] /\ lock' = t /\ lock = NoThread
          /\ UNCHANGED <<mq, inLoop, using, running, handled, inits>>
        BY <1>2, <2>3 DEF InitLock
    <3>2. LoopInv'
        BY <3>1 DEF LoopInv, Inside, TypeOK
    <3>3. LockInv'
        BY <1>t, <2>3, <3>1 DEF LockInv, TypeOK
    <3>4. GateInv'
        BY <1>2, <3>1 DEF GateInv, TypeOK, InitLock
    <3> QED BY <2>1, <3>2, <3>3, <3>4
  <2> QED BY <2>2, <2>3
<1>3. CASE InitSucceeds(t)
  <2>1. TypeOK'
    <3>1. inits' \in 0 .. MaxInits /\ mq' \in 0 .. inits'
        BY <1>3 DEF InitSucceeds, TypeOK
    <3>2. place' \in [Thread -> Places]
        BY <1>3 DEF InitSucceeds, TypeOK, Places
    <3>3. queue' \in Seq(Message) /\ Len(queue') <= QCap
        BY <1>3 DEF InitSucceeds
    <3> QED BY <1>3, <3>1, <3>2, <3>3 DEF InitSucceeds, TypeOK
  <2>2. mq = 0 /\ \A u \in Thread : ~Inside(u)
      BY <1>3 DEF LockInv, LoopInv, InitSucceeds
  <2>3. LoopInv'
      BY <1>3, <2>2 DEF LoopInv, Inside, InitSucceeds, TypeOK
  <2>4. LockInv'
      BY <1>3, <1>t DEF LockInv, InitSucceeds, TypeOK
  <2>5. GateInv'
    <3>1. mq' = inits + 1 /\ handled' = handled /\ mq' \in 1 .. MaxInits /\ mq' > inits
        BY <1>3 DEF InitSucceeds, TypeOK
    <3>2. handled'[mq'] = <<>>
        BY <3>1 DEF HistoryInv
    <3> QED BY <3>2 DEF GateInv
  <2> QED BY <2>1, <2>3, <2>4, <2>5
<1>4. CASE InitFails(t)
  <2>1. TypeOK'
      BY <1>4 DEF InitFails, TypeOK, Places
  <2> QED BY <1>4, <2>1, MovesOut DEF InitFails
<1>5. CASE DoneReturns(t)
  <2>1. TypeOK'
      BY <1>5 DEF DoneReturns, TypeOK, Places
  <2> QED BY <1>5, <2>1, MovesOut DEF DoneReturns
<1>6. CASE Done(t) \/ (t \in Caller /\ StrayDone(t))
  <2>1. DoneBody(t) /\ place[t] \in {"done?", "out"}
      BY <1>6 DEF Done, StrayDone
  <2>2. CASE DoneRefused
    <3>1. TypeOK'
        BY <2>1, <2>2 DEF DoneBody, TypeOK, Places
    <3> QED BY <2>1, <2>2, <3>1, MovesOut DEF DoneBody
  <2>3. CASE ~DoneRefused
    <3>1. /\ lock = NoThread /\ lock' = t /\ ~inLoop
          /\ mq' = 0 /\ queue' = <<>> /\ running' = FALSE
          /\ place' = [place EXCEPT ![t] = "undoing"]
          /\ UNCHANGED <<inLoop, msg, using, inits, cmds, accepted, handled>>
        BY <2>1, <2>3 DEF DoneBody, DoneRefused
    <3>2. TypeOK'
      <4>1. place' \in [Thread -> Places] /\ queue' \in Seq(Message) /\ Len(queue') <= QCap
          BY <3>1 DEF TypeOK, Places
      <4>2. running' \in BOOLEAN /\ inLoop' \in BOOLEAN
          BY <3>1 DEF TypeOK
      <4> QED BY <3>1, <4>1, <4>2 DEF TypeOK
    <3>3. LoopInv'
        BY <2>1, <3>1 DEF LoopInv, Inside, TypeOK
    <3>4. LockInv'
        BY <1>t, <3>1 DEF LockInv, TypeOK
    <3>5. GateInv'
        BY <3>1 DEF GateInv, TypeOK
    <3> QED BY <3>2, <3>3, <3>4, <3>5
  <2> QED BY <2>2, <2>3
<1> QED BY <1>1, <1>2, <1>3, <1>4, <1>5, <1>6

LEMMA LoopRunInv ==
    ASSUME Inv, NEW t \in Thread,
           Run(t) \/ (t \in Caller /\ StrayRun(t)) \/ StopGate(t) \/ Cancel(t)
           \/ LoopFails(t) \/ Leave(t)
    PROVE  Safe'
<1> USE DEF Inv, Safe, From, Goes, LockFree
<1>t. Thread \cap {NoThread} = {}
    BY DEF Thread
<1>1. CASE Run(t) \/ (t \in Caller /\ StrayRun(t))
  <2>1. PICK otherwise \in {"done?", "out"} :
            RunBody(t, otherwise) /\ place[t] \in {"run?", "out"}
      BY <1>1 DEF Run, StrayRun
  <2>2. TypeOK'
    <3>1. place' \in [Thread -> Places]
        BY <2>1 DEF RunBody, TypeOK, Places
    <3>2. using' \in [Thread -> 0 .. MaxInits]
      <4>1. mq \in 0 .. MaxInits /\ using \in [Thread -> 0 .. MaxInits]
          BY DEF TypeOK
      <4>2. using' = using \/ using' = [using EXCEPT ![t] = mq]
          BY <2>1 DEF RunBody
      <4> QED BY <4>1, <4>2
    <3>3. inLoop' \in BOOLEAN
        BY <2>1 DEF RunBody, TypeOK
    <3> QED BY <2>1, <3>1, <3>2, <3>3 DEF RunBody, TypeOK
  <2>3. CASE RunRefused
      BY <2>1, <2>2, <2>3, MovesOut DEF RunBody
  <2>4. CASE ~RunRefused
    <3>1. /\ mq # 0 /\ ~inLoop /\ inLoop' = TRUE
          /\ using' = [using EXCEPT ![t] = mq] /\ place' = [place EXCEPT ![t] = "loop"]
          /\ UNCHANGED <<lock, mq, running, handled, inits>>
        BY <2>1, <2>4 DEF RunBody, RunRefused
    <3>2. LoopInv'
        BY <3>1 DEF LoopInv, Inside, TypeOK
    <3>3. LockInv'
        BY <3>1 DEF LockInv, TypeOK
    <3>4. GateInv'
        BY <2>1, <3>1 DEF GateInv, TypeOK
    <3> QED BY <2>2, <3>2, <3>3, <3>4
  <2> QED BY <2>3, <2>4
<1>2. CASE StopGate(t)
  <2>1. TypeOK'
      BY <1>2 DEF StopGate, TypeOK, Places
  <2>2. LoopInv'
      BY <1>2 DEF StopGate, LoopInv, Inside, TypeOK
  <2>3. LockInv'
      BY <1>2 DEF StopGate, LockInv, TypeOK
  <2>4. GateInv'
      BY <1>2 DEF StopGate, GateInv, TypeOK
  <2> QED BY <2>1, <2>2, <2>3, <2>4
<1>3. CASE Cancel(t) \/ LoopFails(t)
  <2>1. /\ place[t] \in {"cancelling", "loop"} /\ place' = [place EXCEPT ![t] = "leave?"]
        /\ UNCHANGED <<lock, mq, running, inLoop, queue, msg, using, inits, cmds, accepted, handled>>
      BY <1>3 DEF Cancel, LoopFails
  <2>2. TypeOK'
      BY <2>1 DEF TypeOK, Places
  <2>3. LoopInv'
      BY <2>1 DEF LoopInv, Inside, TypeOK
  <2>4. LockInv'
      BY <2>1 DEF LockInv, TypeOK
  <2>5. GateInv'
      BY <2>1 DEF GateInv, TypeOK
  <2> QED BY <2>2, <2>3, <2>4, <2>5
<1>4. CASE Leave(t)
  <2>1. PICK there \in {"done?", "out"} :
            /\ place[t] = "leave?" /\ place' = [place EXCEPT ![t] = there]
            /\ inLoop' = FALSE /\ using' = [using EXCEPT ![t] = 0]
            /\ UNCHANGED <<lock, mq, running, queue, msg, inits, cmds, accepted, handled>>
      BY <1>4 DEF Leave
  <2>2. TypeOK'
    <3>1. place' \in [Thread -> Places] /\ using' \in [Thread -> 0 .. MaxInits]
        BY <2>1 DEF TypeOK, Places
    <3>2. inLoop' \in BOOLEAN
        BY <2>1
    <3> QED BY <2>1, <3>1, <3>2 DEF TypeOK
  <2>3. \A u \in Thread : Inside(u) => u = t
      BY <2>1 DEF LoopInv, Inside
  <2>4. LoopInv'
      BY <2>1, <2>3 DEF LoopInv, Inside, TypeOK
  <2>5. LockInv'
      BY <2>1 DEF LockInv, TypeOK
  <2>6. GateInv'
      BY <2>1 DEF GateInv, TypeOK
  <2> QED BY <2>2, <2>4, <2>5, <2>6
<1> QED BY <1>1, <1>2, <1>3, <1>4

LEMMA HandlerInv ==
    ASSUME Inv, NEW t \in Thread, HandlePing(t) \/ HandleStop(t)
    PROVE  Safe'
<1> USE DEF Inv, Safe, From, Goes
<1> DEFINE m == Head(queue)
<1>1. /\ place[t] = "loop" /\ queue # <<>> /\ queue' = Tail(queue)
      /\ handled' = [handled EXCEPT ![using[t]] = Append(handled[using[t]], m)]
      /\ UNCHANGED <<lock, mq, running, inLoop, msg, using, inits, cmds, accepted>>
      /\ \/ m.op = "ping" /\ place' = place
         \/ m.op = "stop" /\ place' = [place EXCEPT ![t] = "stop?"]
    BY DEF HandlePing, HandleStop, Handled, threadVars
<1>2. m \in Message /\ queue' \in Seq(Message) /\ Len(queue') <= QCap
    BY <1>1, TailType DEF TypeOK
<1>3. using[t] = mq /\ mq \in 1 .. MaxInits /\ mq <= inits
    BY <1>1 DEF LoopInv, Inside, TypeOK
<1>4. handled \in [1 .. MaxInits -> Seq(Message)] /\ handled[mq] \in Seq(Message)
    BY <1>3 DEF TypeOK, History
<1> HIDE DEF m
<1>5. handled' \in History /\ handled'[mq] = Append(handled[mq], m)
    BY <1>1, <1>2, <1>3, <1>4, AppendType DEF History
<1>6. Len(handled'[mq]) = Len(handled[mq]) + 1
      /\ \A k \in 1 .. Len(handled'[mq]) :
            handled'[mq][k] = IF k <= Len(handled[mq]) THEN handled[mq][k] ELSE m
    BY <1>2, <1>4, <1>5
<1>7. TypeOK'
  <2>1. place' \in [Thread -> Places]
      BY <1>1 DEF TypeOK, Places
  <2> QED BY <1>1, <1>2, <1>5, <2>1 DEF TypeOK
<1>8. LoopInv'
    BY <1>1 DEF LoopInv, Inside, TypeOK
<1>9. LockInv'
    BY <1>1 DEF LockInv, TypeOK
<1>10. GateInv'
  <2> SUFFICES ASSUME running, NEW k \in 1 .. Len(handled'[mq]), handled'[mq][k].op = "stop"
               PROVE  \E u \in Thread : place'[u] = "stop?" /\ using[u] = mq
      BY <1>1 DEF GateInv
  <2>1. CASE k <= Len(handled[mq])
    <3>1. k \in 1 .. Len(handled[mq]) /\ handled[mq][k].op = "stop"
        BY <1>4, <1>6, <2>1
    <3>2. PICK u \in Thread : place[u] = "stop?" /\ using[u] = mq
        BY <1>3, <3>1 DEF GateInv
    <3> QED BY <1>1, <3>2 DEF TypeOK
  <2>2. CASE ~(k <= Len(handled[mq]))
    <3>1. m.op = "stop"
        BY <1>6, <2>2
    <3> QED BY <1>1, <1>3, <3>1 DEF TypeOK
  <2> QED BY <2>1, <2>2
<1> QED BY <1>7, <1>8, <1>9, <1>10

-----------------------------------------------------------------------------
(* The histories.                                                          *)

LEMMA ConcatAppend ==
    \A S : \A s, q \in Seq(S), x \in S : s \o Append(q, x) = Append(s \o q, x)
OBVIOUS

LEMMA PrefixOfConcat ==
    ASSUME NEW S, NEW s \in Seq(S), NEW q \in Seq(S)
    PROVE  IsPrefix(s, s \o q)
<1>1. Len(s) <= Len(s \o q) /\ Len(s) \in Nat
    BY ConcatProperties
<1>2. SubSeq(s, 1, Len(s)) = SubSeq(s \o q, 1, Len(s))
  <2>1. CASE Len(s) = 0
      BY <2>1, SubSeqEmpty
  <2>2. CASE Len(s) # 0
      BY <1>1, <2>2, SubSeqOfConcat1
  <2> QED BY <2>1, <2>2
<1> QED BY <1>1, <1>2 DEF IsPrefix

LEMMA ConcatHeadTail ==
    ASSUME NEW S, NEW s \in Seq(S), NEW q \in Seq(S), q # <<>>
    PROVE  Append(s, Head(q)) \o Tail(q) = s \o q
OBVIOUS

(* A step that leaves the histories of all queues but g alone. *)
LEMMA OneQueue ==
    ASSUME HistoryInv, NEW g \in 1 .. MaxInits, g <= inits', inits' \in Nat, inits' >= inits,
           inits \in Nat, mq' \in {0, g}, queue' \in Seq(Message),
           handled'[g] \o queue' = accepted'[g],
           \A f \in 1 .. MaxInits : f # g => handled'[f] = handled[f] /\ accepted'[f] = accepted[f]
    PROVE  HistoryInv'
<1>1. mq' # 0 => handled'[mq'] \o queue' = accepted'[mq']
    OBVIOUS
<1>2. ASSUME NEW f \in 1 .. MaxInits
      PROVE  /\ \E rest \in Seq(Message) : handled'[f] \o rest = accepted'[f]
             /\ f > inits' => handled'[f] = <<>> /\ accepted'[f] = <<>>
  <2>1. CASE f = g
    <3>1. handled'[f] \o queue' = accepted'[f]
        BY <2>1
    <3>2. ~(f > inits')
        BY <2>1
    <3>3. \E rest \in Seq(Message) : handled'[f] \o rest = accepted'[f]
      <4> DEFINE rest == queue'
      <4>1. rest \in Seq(Message) /\ handled'[f] \o rest = accepted'[f]
          BY <3>1
      <4> HIDE DEF rest
      <4> QED BY <4>1
    <3> QED BY <3>2, <3>3
  <2>2. CASE f # g
    <3>1. handled'[f] = handled[f] /\ accepted'[f] = accepted[f]
        BY <2>2
    <3>2. \E rest \in Seq(Message) : handled[f] \o rest = accepted[f]
        BY DEF HistoryInv
    <3>3. f > inits => handled[f] = <<>> /\ accepted[f] = <<>>
        BY DEF HistoryInv
    <3>4. f > inits' => f > inits
        OBVIOUS
    <3>5. \E rest \in Seq(Message) : handled'[f] \o rest = accepted'[f]
        BY <3>1, <3>2
    <3> QED BY <3>1, <3>3, <3>4, <3>5
  <2> QED BY <2>1, <2>2
<1> QED BY <1>1, <1>2 DEF HistoryInv

(* Only bp_cmd adds to what was accepted, at the end of the queue; only the *)
(* handler adds to what was handled, from its head.                        *)
LEMMA HistoryStep ==
    ASSUME Inv, NEW t \in Thread, Calls(t) \/ TakesLock(t) \/ Proceeds(t) \/ LoopFails(t)
    PROVE  HistoryInv'
<1> USE DEF Inv, Safe
<1>t. /\ queue \in Seq(Message) /\ mq \in 0 .. inits /\ inits \in 0 .. MaxInits
      /\ \A g \in 1 .. MaxInits : handled[g] \in Seq(Message) /\ accepted[g] \in Seq(Message)
      /\ handled \in [1 .. MaxInits -> Seq(Message)] /\ accepted \in [1 .. MaxInits -> Seq(Message)]
      /\ \A u \in Thread : msg[u] \in Message
    BY DEF TypeOK, History
<1>1. CASE UNCHANGED <<mq, queue, inits, accepted, handled>>
    BY <1>1 DEF HistoryInv
<1>2. CASE CmdPush(t) /\ ~GateClosed /\ ~QueueFull
  <2>1. /\ queue' = Append(queue, msg[t]) /\ mq \in 1 .. MaxInits /\ mq <= inits
        /\ accepted' = [accepted EXCEPT ![mq] = Append(accepted[mq], msg[t])]
        /\ UNCHANGED <<mq, inits, handled>>
      BY <1>2, <1>t DEF CmdPush, Enqueued, GateClosed
  <2>2. accepted'[mq] = handled[mq] \o queue' /\ queue' \in Seq(Message)
    <3>1. handled[mq] \o queue = accepted[mq]
        BY <2>1, <1>t DEF HistoryInv
    <3>2. handled[mq] \in Seq(Message) /\ msg[t] \in Message
        BY <2>1, <1>t
    <3>3. handled[mq] \o Append(queue, msg[t]) = Append(handled[mq] \o queue, msg[t])
      <4>1. queue \in Seq(Message)
          BY <1>t
      <4> DEFINE s == handled[mq]
                 x == msg[t]
      <4>2. s \in Seq(Message) /\ x \in Message
          BY <3>2
      <4> HIDE DEF s, x
      <4>3. s \o Append(queue, x) = Append(s \o queue, x)
          BY <4>1, <4>2, ConcatAppend
      <4> QED BY <4>3 DEF s, x
    <3>4. accepted'[mq] = Append(accepted[mq], msg[t])
        BY <2>1, <1>t
    <3> QED BY <2>1, <3>1, <3>2, <3>3, <3>4, <1>t, AppendType
  <2>3. \A g \in 1 .. MaxInits : g # mq => accepted'[g] = accepted[g]
      BY <2>1, <1>t
  <2>4. inits' = inits /\ inits \in Nat /\ mq' = mq /\ handled' = handled
      BY <2>1, <1>t
  <2>5. mq \in 1 .. MaxInits /\ mq <= inits' /\ mq' \in {0, mq} /\ inits' >= inits
        /\ inits' \in Nat
      BY <2>1, <2>4
  <2>6. handled'[mq] \o queue' = accepted'[mq]
      BY <2>2, <2>4
  <2>7. \A g \in 1 .. MaxInits : g # mq => handled'[g] = handled[g] /\ accepted'[g] = accepted[g]
      BY <2>3, <2>4
  <2> QED BY <2>2, <2>4, <2>5, <2>6, <2>7, OneQueue
<1>3. CASE HandlePing(t) \/ HandleStop(t)
  <2>1. /\ queue # <<>> /\ queue' = Tail(queue) /\ place[t] = "loop"
        /\ handled' = [handled EXCEPT ![using[t]] = Append(handled[using[t]], Head(queue))]
        /\ UNCHANGED <<mq, inits, accepted>>
      BY <1>3 DEF HandlePing, HandleStop, Handled, From
  <2>2. using[t] = mq /\ mq \in 1 .. MaxInits /\ mq <= inits
      BY <2>1, <1>t DEF LoopInv, Inside
  <2>3. handled'[mq] \o queue' = accepted[mq] /\ queue' \in Seq(Message)
    <3>1. mq # 0
        BY <2>2
    <3>2. handled[mq] \o queue = accepted[mq]
        BY <3>1 DEF HistoryInv
    <3>3. handled[mq] \in Seq(Message) /\ handled'[mq] = Append(handled[mq], Head(queue))
        BY <2>1, <2>2, <1>t
    <3>4. Append(handled[mq], Head(queue)) \o Tail(queue) = handled[mq] \o queue
        BY <2>1, <3>3, <1>t, ConcatHeadTail
    <3> QED BY <2>1, <3>2, <3>3, <3>4, <1>t, TailType
  <2>4. \A g \in 1 .. MaxInits : g # mq => handled'[g] = handled[g]
      BY <2>1, <2>2, <1>t
  <2>5. inits' = inits /\ inits \in Nat /\ mq' = mq /\ accepted' = accepted
      BY <2>1, <1>t
  <2> QED BY <2>2, <2>3, <2>4, <2>5, OneQueue
<1>4. CASE InitSucceeds(t)
  <2>1. /\ mq' = inits + 1 /\ inits' = inits + 1 /\ inits + 1 \in 1 .. MaxInits
        /\ queue' = <<>> /\ UNCHANGED <<accepted, handled>>
      BY <1>4, <1>t DEF InitSucceeds
  <2>2. handled[inits + 1] = <<>> /\ accepted[inits + 1] = <<>> /\ <<>> \o <<>> = <<>>
    <3>1. <<>> \o <<>> = <<>>
        BY EmptySeq, ConcatEmptySeq
    <3> QED BY <2>1, <3>1, <1>t DEF HistoryInv
  <2>3. inits \in Nat /\ inits' \in Nat /\ <<>> \in Seq(Message)
      BY <2>1, <1>t
  <2> QED BY <2>1, <2>2, <2>3, OneQueue
<1>5. CASE mq' = 0 /\ UNCHANGED <<inits, accepted, handled>>
    BY <1>5 DEF HistoryInv
<1>6. CASE Calls(t)
    BY <1>1, <1>5, <1>6 DEF Calls, CmdEnter, InitEnter, StrayRun, RunBody, StrayDone, DoneBody
<1>7. CASE TakesLock(t)
  <2>1. CASE CmdPush(t)
      BY <1>1, <1>2, <2>1 DEF CmdPush, Enqueued
  <2>2. CASE InitLock(t) \/ Run(t) \/ StopGate(t) \/ Leave(t) \/ Done(t)
      BY <1>1, <1>5, <2>2 DEF InitLock, Run, RunBody, StopGate, Leave, Done, DoneBody
  <2> QED BY <1>7, <2>1, <2>2 DEF TakesLock
<1>8. CASE Proceeds(t) \/ LoopFails(t)
    BY <1>1, <1>3, <1>4, <1>8 DEF Proceeds, InitFails, Cancel, DoneReturns, LoopFails
<1> QED BY <1>6, <1>7, <1>8

LEMMA StepInv == Inv /\ [Next]_vars => Inv'
<1> SUFFICES ASSUME Inv, [Next]_vars PROVE Inv'
    OBVIOUS
<1>1. CASE UNCHANGED vars
    BY <1>1 DEF Inv, Safe, TypeOK, LoopInv, LockInv, GateInv, HistoryInv, Inside, vars
<1>2. CASE Next
  <2>1. PICK t \in Thread : Calls(t) \/ TakesLock(t) \/ Proceeds(t) \/ LoopFails(t)
      BY <1>2 DEF Next
  <2>2. Safe'
    <3>1. CASE Calls(t)
        BY <3>1, CmdInv, StackInv, LoopRunInv DEF Calls, StrayRun, StrayDone
    <3>2. CASE TakesLock(t)
        BY <3>2, CmdInv, StackInv, LoopRunInv DEF TakesLock
    <3>3. CASE Proceeds(t) \/ LoopFails(t)
        BY <3>3, StackInv, LoopRunInv, HandlerInv DEF Proceeds
    <3> QED BY <2>1, <3>1, <3>2, <3>3
  <2>3. HistoryInv'
      BY <2>1, HistoryStep
  <2> QED BY <2>2, <2>3 DEF Inv
<1> QED BY <1>1, <1>2

LEMMA Invariance == Spec => []Inv
    BY InitInv, StepInv, PTL DEF Spec

-----------------------------------------------------------------------------

(* The queue whose messages a thread is handling is never freed or replaced *)
(* under it, and one thread at a time handles them (g_in_loop and EBUSY in  *)
(* bp_loop_run and bp_loop_done).                                           *)
THEOREM QueueIsSafe == Spec => []QueueOutlivesLoop
<1>1. Inv => QueueOutlivesLoop
    BY DEF Inv, Safe, LoopInv, Inside, QueueOutlivesLoop, InReMain
<1> QED BY <1>1, Invariance, PTL

(* Commands are handled in the order bp_cmd accepted them, each at most     *)
(* once and none that was not accepted, in every queue there ever was; and  *)
(* of the queue that is live nothing else is waiting, and nothing is gone.  *)
THEOREM HandledInOrder == Spec => []InOrderAtMostOnce
<1>1. ASSUME Inv
      PROVE  InOrderAtMostOnce
  <2> USE <1>1 DEF Inv, Safe
  <2> SUFFICES ASSUME NEW g \in 1 .. inits
               PROVE  /\ IsPrefix(handled[g], accepted[g])
                      /\ g = mq => handled[g] \o queue = accepted[g]
      BY DEF InOrderAtMostOnce
  <2>1. g \in 1 .. MaxInits /\ handled[g] \in Seq(Message)
      BY DEF TypeOK, History
  <2>2. PICK rest \in Seq(Message) : handled[g] \o rest = accepted[g]
      BY <2>1 DEF HistoryInv
  <2>3. IsPrefix(handled[g], handled[g] \o rest)
      BY <2>1, PrefixOfConcat
  <2> QED BY <2>1, <2>2, <2>3 DEF HistoryInv
<1> QED BY <1>1, Invariance, PTL

(* After a STOP's handler has had the lock, bp_cmd accepts nothing until    *)
(* the next bp_loop_init.                                                   *)
THEOREM GateStaysClosed == Spec => NothingAfterStop
<1> DEFINE A == accepted' # accepted =>
                    LET stops == {k \in 1 .. Len(handled[mq]) : handled[mq][k].op = "stop"}
                    IN  stops # {} => \E t \in Thread : place[t] = "stop?" /\ using[t] = mq
<1>1. Inv /\ [Next]_vars => [A]_vars
  <2> SUFFICES ASSUME Inv, Next, accepted' # accepted,
                      NEW k \in 1 .. Len(handled[mq]), handled[mq][k].op = "stop"
               PROVE  \E t \in Thread : place[t] = "stop?" /\ using[t] = mq
      OBVIOUS
  <2>1. running /\ mq # 0
      BY DEF Next, Calls, TakesLock, Proceeds, CmdEnter, CmdPush, GateClosed, InitEnter,
             InitLock, InitSucceeds, InitFails, Run, StrayRun, RunBody, HandlePing,
             HandleStop, StopGate, Cancel, LoopFails, Leave, Done, StrayDone, DoneBody,
             DoneReturns
  <2> QED BY <2>1 DEF Inv, Safe, GateInv
<1> QED BY <1>1, Invariance, PTL DEF Spec, NothingAfterStop
=============================================================================
