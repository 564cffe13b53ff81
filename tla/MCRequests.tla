----------------------------- MODULE MCRequests ------------------------------
(***************************************************************************)
(* Two calls of one agent, and two operations of one kind of application   *)
(* that overlap in every way.                                              *)
(***************************************************************************)
EXTENDS Requests

CONSTANTS c1, c2

MCCalls == {c1, c2}

(* An application that uses some operations on c1, n of them in all, while  *)
(* m things happen unasked.                                                 *)
Uses(n, kinds, m, calls, policies, regs) ==
    [kinds : {kinds}, on : {calls \cap {c1}}, ops : {n}, news : {m}, calls : {calls},
     policy : policies, registered : regs]

MCSettings == UNION {
    Uses(2, {"hold", "resume", "video"}, 1, {c1}, {"manual"}, {FALSE}),
    Uses(2, {"attended", "transfer"}, 0, {c1, c2}, {"manual"}, {FALSE}),
    Uses(1, {"attended"}, 1, {c1, c2}, {"manual"}, {FALSE}),
    Uses(2, {"accept", "reject", "transfer"}, 1, {c1}, {"manual"}, {FALSE}),
    Uses(1, {"accept", "reject"}, 2, {c1}, {"manual"}, {FALSE}),
    Uses(1, {"accept"}, 1, {c1}, {"auto", "reject"}, {FALSE}),
    Uses(2, {"dtmf"}, 1, {c1}, {"manual"}, {FALSE}),
    Uses(2, {"register", "unregister"}, 0, {}, {"manual"}, BOOLEAN),
    Uses(1, {"unregister"}, 1, {}, {"manual"}, {TRUE})}

MCHold == Uses(2, {"hold", "resume"}, 0, {c1}, {"manual"}, {FALSE})
=============================================================================
