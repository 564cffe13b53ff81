----------------------------- MODULE MCByteRing -----------------------------
(***************************************************************************)
(* The ring of ByteRing.tla on a small instance: four slots, transfers of  *)
(* up to three bytes, enough bytes offered for the indices to lap the      *)
(* buffer and for every split of a transfer across its end.  Every byte    *)
(* offered has a value of its own, so a lost, repeated or reordered one    *)
(* shows.                                                                  *)
(***************************************************************************)
EXTENDS ByteRing

MCByte == 0 .. MaxOffered
MCStream == [k \in 1 .. MaxOffered |-> k]
=============================================================================
