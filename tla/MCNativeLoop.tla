---------------------------- MODULE MCNativeLoop -----------------------------
(***************************************************************************)
(* Two re threads, so that a loop is brought up while another comes down;  *)
(* a caller racing both; three commands into a queue of two; two queues,   *)
(* one after the other.                                                    *)
(***************************************************************************)
EXTENDS NativeLoop
=============================================================================
