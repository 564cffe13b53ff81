------------------------------ MODULE MCRuntime ------------------------------
(***************************************************************************)
(* Commands over a queue of one, with few enough sequence numbers that     *)
(* they wrap around within the run.                                        *)
(***************************************************************************)
EXTENDS Runtime
=============================================================================
