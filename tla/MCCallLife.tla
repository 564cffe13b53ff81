----------------------------- MODULE MCCallLife ------------------------------
(***************************************************************************)
(* One call, and two calls of answer(), reject() or hangup() on it: enough *)
(* to answer and then end it, or to end it twice.                          *)
(***************************************************************************)
EXTENDS CallLife
=============================================================================
