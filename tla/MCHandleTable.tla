--------------------------- MODULE MCHandleTable ----------------------------
(***************************************************************************)
(* Two slots, three addresses and a generation that wraps after two        *)
(* clears: the table fills up, addresses and slots are reused, and some    *)
(* handle lives across a wrap.                                             *)
(***************************************************************************)
EXTENDS HandleTable, TLC

Symmetry == Permutations(Ptr)
=============================================================================
