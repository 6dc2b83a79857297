------------------------------ MODULE MCSpiNor ------------------------------
(* SpiNor on a chip of a few erase units. *)
EXTENDS SpiNor
==============================================================================
