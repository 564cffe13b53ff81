----------------------------- MODULE HandleTable -----------------------------
(***************************************************************************)
(* The handle table of _native/shim.c and everything on the re thread that *)
(* fills or frees a slot: the commands that allocate or end an object, the *)
(* stack's events, draining, and the teardown that survives into the next  *)
(* run of the loop.  A handle is a slot index with a small generation that *)
(* wraps; Python keeps handles for as long as it likes.                    *)
(***************************************************************************)
EXTENDS Integers

CONSTANTS NSlots,     \* usable slots: BP_HANDLE_SLOTS - 1, slot 0 stays empty
          GenMod,     \* generations before the counter wraps: 256
          Ptr,        \* the addresses an object can have
          NoPtr,      \* NULL
          MaxAllocs   \* bound: the objects allocated in all

ASSUME HandleTableAssumption ==
    /\ NSlots \in Nat \ {0}
    /\ GenMod \in Nat \ {0}
    /\ NoPtr \notin Ptr
    /\ MaxAllocs \in Nat

Slots == 1 .. NSlots
Types == {"ua", "call", "test"}

(* The table is one record of arrays: ptr and type are NULL and "none" in a *)
(* free slot, gen is the generation, refs the reference count libre keeps   *)
(* for the object at each address (0: the address is free).  clears is      *)
(* history: how often the slot was cleared, without wrapping.               *)
VARIABLES
    table,
    kind,     \* what the object at each address is
    inc,      \* history: which allocation made it, 1, 2, ...
    owned,    \* the stack itself holds a reference (a UA's list of calls)
    home,     \* the user agent a call belongs to
    drain,    \* g_drain
    allocs,   \* history: how many objects were ever allocated
    issued,   \* history: every handle Python was ever given, and for what
    failed    \* history: calls that were not connected, with a slot all the same

heapVars == <<kind, inc, owned, home, allocs>>
vars == <<table, kind, inc, owned, home, drain, allocs, issued, failed>>

Init ==
    /\ table = [ptr    |-> [s \in Slots |-> NoPtr],
                type   |-> [s \in Slots |-> "none"],
                gen    |-> [s \in Slots |-> 0],
                clears |-> [s \in Slots |-> 0],
                refs   |-> [p \in Ptr |-> 0]]
    /\ kind = [p \in Ptr |-> "none"]
    /\ inc = [p \in Ptr |-> 0]
    /\ owned = [p \in Ptr |-> FALSE]
    /\ home = [p \in Ptr |-> NoPtr]
    /\ drain = FALSE
    /\ allocs = 0
    /\ issued = {}
    /\ failed = {}

-----------------------------------------------------------------------------
(* The table's operations, as functions of the table.                      *)

SlotsOf(T, p) == {s \in Slots : T.ptr[s] = p}

FreeSlots(T) == SlotsOf(T, NoPtr)

Lowest(S) == CHOOSE s \in S : \A t \in S : s <= t

(* The table with other reference counts. *)
WithRefs(T, r) ==
    [ptr |-> T.ptr, type |-> T.type, gen |-> T.gen, clears |-> T.clears, refs |-> r]

Ref(T, p) == WithRefs(T, [T.refs EXCEPT ![p] = @ + 1])

Deref(T, p) == WithRefs(T, [T.refs EXCEPT ![p] = @ - 1])

(* Mutant of Fill: the slot takes no reference of its own. *)
FillNoRef(T, s, p, k) ==
    [ptr |-> [T.ptr EXCEPT ![s] = p], type |-> [T.type EXCEPT ![s] = k],
     gen |-> T.gen, clears |-> T.clears, refs |-> T.refs]

(* A free slot takes the object and a reference on it. *)
Fill(T, s, p, k) ==
    [ptr |-> [T.ptr EXCEPT ![s] = p], type |-> [T.type EXCEPT ![s] = k],
     gen |-> T.gen, clears |-> T.clears, refs |-> [T.refs EXCEPT ![p] = @ + 1]]

(* handle_create: the object's slot if it has one, else the first free one, *)
(* else nothing: the table is full.                                         *)
Create(T, p, k) ==
    IF SlotsOf(T, p) # {} \/ FreeSlots(T) = {}
    THEN T
    ELSE Fill(T, Lowest(FreeSlots(T)), p, k)

(* Mutant of NextGen: the generation stays. *)
SameGen(g) == g

(* The eight-bit increment. *)
NextGen(g) == (g + 1) % GenMod

(* slot_clear: drop the slot's reference and invalidate its handles. *)
Clear(T, s) ==
    [ptr    |-> [T.ptr EXCEPT ![s] = NoPtr],
     type   |-> [T.type EXCEPT ![s] = "none"],
     gen    |-> [T.gen EXCEPT ![s] = NextGen(@)],
     clears |-> [T.clears EXCEPT ![s] = @ + 1],
     refs   |-> [T.refs EXCEPT ![T.ptr[s]] = @ - 1]]

(* handle_drop_ptr *)
DropPtr(T, p) ==
    IF SlotsOf(T, p) = {} THEN T ELSE Clear(T, Lowest(SlotsOf(T, p)))

(* handle_drain: every occupied slot is cleared. *)
Drain(T) ==
    LET used == {s \in Slots : T.ptr[s] # NoPtr} IN
    [ptr    |-> [s \in Slots |-> NoPtr],
     type   |-> [s \in Slots |-> "none"],
     gen    |-> [s \in Slots |-> IF s \in used THEN NextGen(T.gen[s]) ELSE T.gen[s]],
     clears |-> [s \in Slots |-> IF s \in used THEN T.clears[s] + 1 ELSE T.clears[s]],
     refs   |-> [p \in Ptr |-> IF SlotsOf(T, p) # {} THEN T.refs[p] - 1 ELSE T.refs[p]]]

(* handle_lookup: type and generation must both match. *)
Resolves(T, h, k) ==
    /\ h.slot \in Slots
    /\ T.ptr[h.slot] # NoPtr
    /\ T.type[h.slot] = k
    /\ T.gen[h.slot] = h.gen

-----------------------------------------------------------------------------
(* Events.                                                                 *)

(* Both handles an event about call c of user agent u carries are created  *)
(* before the payload is written.                                          *)
Emit(T, u, c) == Create(Create(T, u, "ua"), c, "call")

(* Mutant of Closed: the slot is dropped before the event is emitted. *)
ClosedDropFirst(T, u, c) == Deref(Emit(DropPtr(T, c), u, c), c)

(* A call ends: the CLOSED event is emitted, then its slot is freed, then   *)
(* the user agent's list lets go of the call.                               *)
Closed(T, u, c) == Deref(DropPtr(Emit(T, u, c), c), c)

(* The handles Python is given for the objects ps, as the table T has them *)
(* when the payload is written; i is inc at that moment.                   *)
Seen(T, i, ps) ==
    {[slot |-> s, gen |-> T.gen[s], clears |-> T.clears[s], type |-> T.type[s],
      inc |-> i[T.ptr[s]]] : s \in {t \in Slots : T.ptr[t] \in ps}}

(* Memory for a new object of kind k. *)
Allocate(p, k, stack, u) ==
    /\ table.refs[p] = 0
    /\ allocs < MaxAllocs
    /\ allocs' = allocs + 1
    /\ kind' = [kind EXCEPT ![p] = k]
    /\ inc' = [inc EXCEPT ![p] = allocs + 1]
    /\ owned' = [owned EXCEPT ![p] = stack]
    /\ home' = [home EXCEPT ![p] = u]

Alive(p) == table.refs[p] > 0

-----------------------------------------------------------------------------
(* Commands, run one at a time by cmd_handler.                             *)

(* BP_CMD_UA_ALLOC: CREATE fires inside ua_alloc, and dropping the          *)
(* creator's reference frees the agent when the table was full.             *)
UaAlloc(p) ==
    LET T == Create(Ref(table, p), p, "ua") IN
    /\ Allocate(p, "ua", FALSE, NoPtr)
    /\ table' = Deref(T, p)
    /\ issued' = issued \cup Seen(T, inc', {p})
    /\ UNCHANGED <<drain, failed>>

(* A new outgoing call p of user agent u: OUTGOING fires while it is being  *)
(* connected; a call the table has no room for is hung up on the spot.      *)
Outgoing(u, p) ==
    LET T    == Emit(Ref(table, p), u, p)
        full == SlotsOf(T, p) = {}
    IN  /\ Allocate(p, "call", ~full, u)
        /\ table' = IF full THEN Closed(T, u, p) ELSE T
        /\ issued' = issued \cup Seen(T, inc', {u, p})
        /\ UNCHANGED <<drain, failed>>

(* The same call when connecting it fails after OUTGOING fired: the core    *)
(* lets go of it and no CLOSED follows, so the slot the event gave it keeps *)
(* it.  One that fails before OUTGOING leaves everything as it was.         *)
NotConnected(u, p) ==
    LET T == Emit(Ref(table, p), u, p) IN
    /\ Allocate(p, "call", FALSE, u)
    /\ table' = Deref(T, p)
    /\ issued' = issued \cup Seen(T, inc', {u, p})
    /\ failed' = IF SlotsOf(T, p) = {} THEN failed ELSE failed \cup {p}
    /\ UNCHANGED drain

(* BP_CMD_UA_CONNECT through a handle; a stale one is refused. *)
UaConnect(h, p) ==
    /\ Resolves(table, h, "ua")
    /\ \/ Outgoing(table.ptr[h.slot], p)
       \/ NotConnected(table.ptr[h.slot], p)

(* A handle a command about a call uses.  For a call that was not connected *)
(* there is no Call object, and so no command.                              *)
NamesCall(h) ==
    /\ Resolves(table, h, "call")
    /\ table.ptr[h.slot] \notin failed

(* BP_CMD_CALL_TRANSFER_ACCEPT: the replacement call, on the agent of the   *)
(* call the handle names.                                                   *)
TransferAccept(h, p) ==
    /\ NamesCall(h)
    /\ \/ Outgoing(home[table.ptr[h.slot]], p)
       \/ NotConnected(home[table.ptr[h.slot]], p)

(* Ending a call: CLOSED is emitted and processed before ua_hangup, or the  *)
(* stack's own handler, returns.                                            *)
EndCall(c) ==
    /\ table' = Closed(table, home[c], c)
    /\ owned' = [owned EXCEPT ![c] = FALSE]
    /\ issued' = issued \cup Seen(Emit(table, home[c], c), inc, {home[c], c})
    /\ UNCHANGED <<kind, inc, home, drain, allocs, failed>>

(* BP_CMD_CALL_HANGUP and BP_CMD_CALL_REJECT *)
CallHangup(h) ==
    /\ NamesCall(h)
    /\ EndCall(table.ptr[h.slot])

(* BP_CMD_TEST_HANDLE_NEW and BP_CMD_TEST_HANDLE_DROP: an object only the   *)
(* table keeps alive.                                                       *)
TestNew(p) ==
    LET T == Create(Ref(table, p), p, "test") IN
    /\ Allocate(p, "test", FALSE, NoPtr)
    /\ table' = Deref(T, p)
    /\ issued' = issued \cup Seen(T, inc', {p})
    /\ UNCHANGED <<drain, failed>>

TestDrop(h) ==
    /\ Resolves(table, h, "test")
    /\ table' = Clear(table, h.slot)
    /\ UNCHANGED <<heapVars, drain, issued, failed>>

(* BP_CMD_SET_DRAIN *)
SetDrain ==
    /\ drain' = TRUE
    /\ UNCHANGED <<table, heapVars, issued, failed>>

-----------------------------------------------------------------------------
(* The stack's own events, through bp_bevent_h.                            *)

(* A call arrives for user agent u.  While draining it is hung up at once   *)
(* and only its CLOSED reaches Python.                                      *)
CallIncoming(u, p) ==
    LET T == Emit(Ref(table, p), u, p) IN
    /\ Alive(u) /\ kind[u] = "ua"
    /\ Allocate(p, "call", ~drain, u)
    /\ table' = IF drain THEN Closed(Ref(table, p), u, p) ELSE T
    /\ issued' = issued \cup Seen(T, inc', {u, p})
    /\ UNCHANGED <<drain, failed>>

(* Any event about a call that is not over: a call the table had no room    *)
(* for earlier gets its slot as soon as there is one.                       *)
CallEvent(c) ==
    LET T == Emit(table, home[c], c) IN
    /\ kind[c] = "call" /\ owned[c]
    /\ table' = T
    /\ issued' = issued \cup Seen(T, inc, {home[c], c})
    /\ UNCHANGED <<heapVars, drain, failed>>

(* The far end, or a failure, closes the call. *)
CallClosed(c) ==
    /\ kind[c] = "call" /\ owned[c]
    /\ EndCall(c)

(* loop_unwind: the slots are drained, then the stack lets go of its calls. *)
Unwind(T, O) ==
    LET D == Drain(T) IN
    WithRefs(D, [p \in Ptr |-> IF O[p] THEN D.refs[p] - 1 ELSE D.refs[p]])

(* bp_loop_done and the next bp_loop_init: nothing is left in the table,    *)
(* but the table, its generations included, stays.                          *)
Restart ==
    /\ table' = Unwind(table, owned)
    /\ owned' = [p \in Ptr |-> FALSE]
    /\ drain' = FALSE
    /\ failed' = {}
    /\ UNCHANGED <<kind, inc, home, allocs, issued>>

-----------------------------------------------------------------------------

Commands ==
    \/ \E p \in Ptr : UaAlloc(p) \/ TestNew(p)
    \/ \E h \in issued, p \in Ptr : UaConnect(h, p) \/ TransferAccept(h, p)
    \/ \E h \in issued : CallHangup(h) \/ TestDrop(h)
    \/ SetDrain

StackEvents ==
    \/ \E u, p \in Ptr : CallIncoming(u, p)
    \/ \E c \in Ptr : CallEvent(c) \/ CallClosed(c)

Next == Commands \/ StackEvents \/ Restart

Spec == Init /\ [][Next]_vars

-----------------------------------------------------------------------------

TableType ==
    [ptr : [Slots -> Ptr \cup {NoPtr}], type : [Slots -> Types \cup {"none"}],
     gen : [Slots -> 0 .. (GenMod - 1)], clears : [Slots -> Nat],
     refs : [Ptr -> Nat]]

(* The table and the heap have their types; generations stay below the      *)
(* wrap, reference counts never go below zero.                              *)
TypeOK ==
    /\ table \in TableType
    /\ kind \in [Ptr -> Types \cup {"none"}]
    /\ inc \in [Ptr -> Nat]
    /\ owned \in [Ptr -> BOOLEAN]
    /\ home \in [Ptr -> Ptr \cup {NoPtr}]
    /\ drain \in BOOLEAN
    /\ failed \subseteq Ptr
    /\ allocs \in Nat
    /\ issued \subseteq [slot : Slots, gen : 0 .. (GenMod - 1), clears : Nat,
                         type : Types, inc : Nat]

(* Between two handlers every object's reference count is exactly the       *)
(* stack's reference plus the slot's: what the table names is alive, and    *)
(* what neither the stack nor the table names is freed (mem_ref in          *)
(* handle_create against mem_deref in slot_clear).                          *)
RefsBalanced ==
    \A p \in Ptr :
        table.refs[p] = (IF owned[p] THEN 1 ELSE 0)
                            + (IF SlotsOf(table, p) # {} THEN 1 ELSE 0)

(* An object has one handle: handle_create never gives it a second slot,    *)
(* whatever events and commands name it.                                    *)
OneSlotPerObject ==
    \A s, t \in Slots :
        table.ptr[s] = table.ptr[t] /\ table.ptr[s] # NoPtr => s = t

(* The table's promise: a handle resolves, with its own type, only to the   *)
(* very object it was issued for, even after the address, the slot or the   *)
(* whole loop was reused -- unless the slot was cleared at least GenMod     *)
(* times since, the wrap the code accepts.                                  *)
NoFalseHandle ==
    \A h \in issued :
        /\ Resolves(table, h, h.type)
        /\ table.clears[h.slot] - h.clears < GenMod
        => inc[table.ptr[h.slot]] = h.inc

(* A slot outlives its call in one case only: a call in the table is one the *)
(* stack still has, so a closed call, a drained one, one the table had no    *)
(* room for and a previous loop's one resolve to nothing -- or it is a call  *)
(* whose connecting failed after OUTGOING had given it its slot, and that    *)
(* one keeps the slot until the loop ends.                                   *)
NoLeakedSlot ==
    \A s \in Slots :
        table.type[s] = "call" => owned[table.ptr[s]] \/ table.ptr[s] \in failed

(* What shim.c says of its two ways to free a slot, without the exception; a *)
(* failed connect violates it.                                               *)
SlotEndsWithCall ==
    \A s \in Slots : table.type[s] = "call" => owned[table.ptr[s]]
=============================================================================
