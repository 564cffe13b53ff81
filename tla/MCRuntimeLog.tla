---------------------------- MODULE MCRuntimeLog ----------------------------
(***************************************************************************)
(* A runtime with one command and its log, and the next one's: a ring of   *)
(* four bytes and records of three, so that every line after the first     *)
(* wraps around the end and the second finds the ring full.                *)
(***************************************************************************)
EXTENDS RuntimeLog
=============================================================================
