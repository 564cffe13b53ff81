----------------------------- MODULE MCListeners -----------------------------
(***************************************************************************)
(* Two callbacks, so that one can register or remove the other in the      *)
(* middle of a delivery.                                                   *)
(***************************************************************************)
EXTENDS Listeners

CONSTANTS f, g
=============================================================================
