---------------------------- MODULE MCBaudSwitch ----------------------------
(* Two candidate rates; a tick is 100 ms. *)
EXTENDS BaudSwitch

CONSTANTS R0, R1, R2

MCCandidates == <<R1, R2>>
==============================================================================
