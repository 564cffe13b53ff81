----------------------------- MODULE Listeners -------------------------------
(***************************************************************************)
(* Who is told of an event: the lists of listeners of a Runtime, of a Call *)
(* and of its UserAgent, and the delivery of an event through them.  It    *)
(* goes over snapshots of the lists, so the application may call on and    *)
(* off in the middle of it, from any of its callbacks; what a callback     *)
(* raises is logged and changes nothing.  All events are of the one call.  *)
(***************************************************************************)
EXTENDS Integers, Sequences, SequencesExt

CONSTANTS
    Callback,    \* functions of the application
    MaxChanges,  \* bound: calls of the on and off methods
    MaxEvents    \* bound: events

Direct == {"on", "on_dtmf", "on_transfer_request",    \* lists of a Call,
           "on_transfer_call"}                        \* and one of its UserAgent
Adapting == {"on_rtcp", "on_audio_warning"}           \* methods that make an adapter
Kind == Direct \cup Adapting \cup {"UserAgent.on"}     \* ways to register
Event == {"rtcp", "warning", "pressed", "released", "refer", "closed", "other"}

VARIABLES
    subscribed,  \* Runtime._listeners
    lists,       \* Call._listeners, _dtmf_listeners and _transfer_req_listeners,
                 \* UserAgent._transfer_call_callbacks
    adapters,    \* Call._rtcp_adapters, _warning_adapters: each callback's adapter, or 0
    wrapped,     \* UserAgent._listeners: the wrapper of each callback, or 0
    closures,    \* adapters and wrappers made so far
    pressed,     \* Call._dtmf_pressed is set
    event,       \* the event being delivered, or "none"
    outer,       \* the rest of the Runtime's snapshot
    at,          \* where delivery is: "outer", "special" listeners of the event, "inner",
                 \* or "policy": the agent's callbacks for a call it has dialled
    inner,       \* the rest of the Call's snapshot
    free,        \* the application has control: no event, or inside a callback
    events, changes,  \* history: events and changes so far
    on,          \* history: registrations there were when the event came, or since
    told         \* history: what has been told of this event

vars == <<subscribed, lists, adapters, wrapped, closures, pressed, event, outer, at, inner,
          free, events, changes, on, told>>
listVars == <<subscribed, lists, adapters, wrapped, closures>>

(* A listener: the Call itself, a callback, or a closure about one. *)
Itself == [of |-> "call"]
Plain(f) == [of |-> "callback", f |-> f]
Closure(k, f, n) == [of |-> k, f |-> f, no |-> n]

Registered ==
    {<<k, f>> \in Direct \X Callback : Plain(f) \in ToSet(lists[k])}
    \cup {<<k, f>> \in Adapting \X Callback : adapters[k][f] # 0}
    \cup {<<"UserAgent.on", f>> : f \in {g \in Callback : wrapped[g] # 0}}

Init ==
    /\ subscribed = <<Itself>>
    /\ lists = [k \in Direct |-> <<>>]
    /\ adapters = [k \in Adapting |-> [f \in Callback |-> 0]] /\ wrapped = [f \in Callback |-> 0]
    /\ closures = 0
    /\ pressed = FALSE
    /\ event = "none" /\ outer = <<>> /\ at = "outer" /\ inner = <<>> /\ free = TRUE
    /\ events = 0 /\ changes = 0
    /\ on = {} /\ told = {}

-----------------------------------------------------------------------------
(* The application.                                                        *)

Once(list, listener) == IF listener \in ToSet(list) THEN list ELSE Append(list, listener)

(* Call.on, on_dtmf, on_transfer_request, UserAgent.on_transfer_call *)
On(k, f) ==
    /\ lists' = [lists EXCEPT ![k] = Once(@, Plain(f))]
    /\ UNCHANGED <<subscribed, adapters, wrapped, closures>>

(* Call.off, off_dtmf, off_transfer_request, UserAgent.off_transfer_call *)
Off(k, f) ==
    /\ lists' = [lists EXCEPT ![k] = Remove(@, Plain(f))]
    /\ UNCHANGED <<subscribed, adapters, wrapped, closures>>

(* A new adapter each time, *)
Adapted(k, f) ==
    /\ closures' = closures + 1
    /\ adapters' = [adapters EXCEPT ![k][f] = closures']
    /\ lists' = [lists EXCEPT !["on"] = Append(@, Closure(k, f, closures'))]
    /\ UNCHANGED <<subscribed, wrapped>>

(* of which the dictionary has the last. *)
Unadapted(k, f) ==
    /\ lists' = [lists EXCEPT !["on"] = Remove(@, Closure(k, f, adapters[k][f]))]
    /\ adapters' = [adapters EXCEPT ![k][f] = 0]
    /\ UNCHANGED <<subscribed, wrapped, closures>>

OnRtcp(f) == Adapted("on_rtcp", f)
OffRtcp(f) == Unadapted("on_rtcp", f)

OnAudioWarning(f) == Adapted("on_audio_warning", f)
OffAudioWarning(f) == Unadapted("on_audio_warning", f)

(* UserAgent.on *)
OnUserAgent(f) ==
    /\ wrapped[f] = 0
    /\ closures' = closures + 1
    /\ wrapped' = [wrapped EXCEPT ![f] = closures']
    /\ subscribed' = Append(subscribed, Closure("UserAgent.on", f, closures'))
    /\ UNCHANGED <<lists, adapters>>

(* UserAgent.off *)
OffUserAgent(f) ==
    /\ subscribed' = Remove(subscribed, Closure("UserAgent.on", f, wrapped[f]))
    /\ wrapped' = [wrapped EXCEPT ![f] = 0]
    /\ UNCHANGED <<lists, adapters, closures>>

Application ==
    /\ free /\ changes < MaxChanges
    /\ changes' = changes + 1
    /\ \E f \in Callback :
          \/ \E k \in Direct : On(k, f) \/ Off(k, f)
          \/ OnRtcp(f) \/ OffRtcp(f) \/ OnAudioWarning(f) \/ OffAudioWarning(f)
          \/ OnUserAgent(f) \/ OffUserAgent(f)
    /\ on' = on \cup Registered'
    /\ UNCHANGED <<pressed, event, outer, at, inner, free, events, told>>

-----------------------------------------------------------------------------
(* The delivery of an event.                                               *)

(* _deliver_stack_event begins, with a snapshot of the Runtime's list. *)
Deliver(e) ==
    /\ event = "none" /\ events < MaxEvents
    /\ event' = e /\ outer' = subscribed /\ events' = events + 1
    /\ free' = FALSE
    /\ on' = Registered /\ told' = {}
    /\ UNCHANGED <<listVars, pressed, at, inner, changes>>

(* The policy has executed a transfer request: the new call is no stack     *)
(* event, and goes to the agent's callbacks from a task of the loop.        *)
PolicyDialled ==
    /\ event = "none" /\ events < MaxEvents
    /\ event' = "dialled" /\ at' = "policy" /\ inner' = lists["on_transfer_call"]
    /\ events' = events + 1
    /\ free' = FALSE
    /\ on' = Registered /\ told' = {}
    /\ UNCHANGED <<listVars, pressed, outer, changes>>

(* A callback is called, and may change the lists before it returns. *)
Tells(k, f) == told' = told \cup {<<k, f>>} /\ free' = TRUE

(* The next listener of the Runtime: a wrapper of the agent, or the Call,   *)
(* whose _on_stack_event leaves the Runtime's list at the call's end, pairs *)
(* digits, and begins with the listeners made for the event.                *)
Outer ==
    /\ event # "none" /\ at = "outer" /\ outer # <<>>
    /\ outer' = Tail(outer)
    /\ \/ /\ Head(outer) # Itself
          /\ Tells("UserAgent.on", Head(outer).f)
          /\ UNCHANGED <<subscribed, pressed, at, inner>>
       \/ /\ Head(outer) = Itself
          /\ at' = "special"
          /\ inner' = CASE event = "released" /\ pressed -> lists["on_dtmf"]
                        [] event = "refer"               -> lists["on_transfer_request"]
                        [] OTHER                         -> <<>>
          /\ pressed' = IF event \in {"pressed", "released"} THEN event = "pressed" ELSE pressed
          /\ subscribed' = IF event = "closed" THEN Remove(subscribed, Itself) ELSE subscribed
          /\ free' = FALSE /\ told' = told
    /\ UNCHANGED <<lists, adapters, wrapped, closures, event, events, changes, on>>

(* The next one of the Call's; an adapter calls only for its own event. *)
Inner ==
    /\ at # "outer" /\ inner # <<>>
    /\ inner' = Tail(inner)
    /\ LET l == Head(inner) IN
       CASE at = "special" ->
                Tells(IF event = "refer" THEN "on_transfer_request" ELSE "on_dtmf", l.f)
         [] at = "policy" -> Tells("on_transfer_call", l.f)
         [] at = "inner" /\ l.of = "callback" -> Tells("on", l.f)
         [] at = "inner" /\ l.of \in Adapting ->
                IF event = (IF l.of = "on_rtcp" THEN "rtcp" ELSE "warning")
                THEN Tells(l.of, l.f) ELSE free' = FALSE /\ told' = told
    /\ UNCHANGED <<listVars, pressed, event, outer, at, events, changes, on>>

(* A list is done: the Call's own is next, then the rest of the Runtime's. *)
Done ==
    /\ event # "none" /\ inner = <<>>
    /\ CASE at = "special" -> at' = "inner" /\ inner' = lists["on"] /\ UNCHANGED <<event, free>>
         [] at = "policy"  -> at' = "outer" /\ event' = "none" /\ free' = TRUE /\ inner' = inner
         [] at = "inner"   -> at' = "outer" /\ UNCHANGED <<event, inner, free>>
         [] at = "outer"   -> /\ outer = <<>> /\ event' = "none" /\ free' = TRUE
                              /\ UNCHANGED <<at, inner>>
    /\ UNCHANGED <<listVars, pressed, outer, events, changes, on, told>>

Next == Application \/ (\E e \in Event : Deliver(e)) \/ PolicyDialled \/ Outer \/ Inner \/ Done

Spec == Init /\ [][Next]_vars

-----------------------------------------------------------------------------

(* off_rtcp(): Stop delivering RTCP snapshots to callback; and so on for    *)
(* the other off methods.  Whoever is told of an event was registered for   *)
(* it when it came, or has been since.                                      *)
OffStops == told \subseteq on
=============================================================================
