---------------------------- MODULE MCVideoSlots -----------------------------
(***************************************************************************)
(* Two calls and one slot, so that the table is full and a slot is used    *)
(* again, and rings that the frames lap.                                   *)
(***************************************************************************)
EXTENDS VideoSlots

CONSTANTS a, b, writer, reader
=============================================================================
