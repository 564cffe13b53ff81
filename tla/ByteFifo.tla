------------------------------ MODULE ByteFifo ------------------------------
(***************************************************************************)
(* What the header of the byte ring promises its two callers, with neither *)
(* indices nor a buffer: a bounded first-in first-out stream.  A write     *)
(* appends a run of bytes that fits, a read takes the next run, and no     *)
(* more than Cap bytes are ever in between.                                *)
(***************************************************************************)
EXTENDS Integers, Sequences

CONSTANTS Byte,  \* the values a byte of payload can have
          Cap    \* the capacity, in bytes

VARIABLES put,   \* every byte a write has accepted, in order
          got    \* every byte a read has returned, in order

fifoVars == <<put, got>>

FifoInit == put = <<>> /\ got = <<>>

(* A write took a run of bytes: the stream grows at its end, never beyond  *)
(* what the capacity leaves.                                               *)
Put ==
    /\ put' \in Seq(Byte)
    /\ Len(put) < Len(put') /\ Len(put') <= Len(got) + Cap
    /\ \A k \in 1 .. Len(put) : put'[k] = put[k]
    /\ got' = got

(* A read returned the next run of bytes. *)
Get ==
    /\ got' \in Seq(Byte)
    /\ Len(got) < Len(got') /\ Len(got') <= Len(put)
    /\ \A k \in 1 .. Len(got') : got'[k] = put[k]
    /\ put' = put

FifoNext == Put \/ Get

FifoSpec == FifoInit /\ [][FifoNext]_fifoVars
=============================================================================
