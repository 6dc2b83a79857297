------------------------------ MODULE MCResync ------------------------------
(* Small segments for Resync.  A tick is 1/60 s; the longer times are scaled  *)
(* down.                                                                      *)
EXTENDS Resync

MCSegments == { <<"q", "r", "m">>, <<"r", "r", "q", "m">> }
==============================================================================
