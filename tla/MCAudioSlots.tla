---------------------------- MODULE MCAudioSlots -----------------------------
(***************************************************************************)
(* Two calls and one slot, so that the table is full and a slot is used    *)
(* again.                                                                  *)
(***************************************************************************)
EXTENDS AudioSlots

CONSTANTS a, b, writer, reader
=============================================================================
