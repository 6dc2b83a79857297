---------------------------- MODULE MCFlashJobs ----------------------------
(* FlashJobs on a chip of a few blocks, all the bad-block patterns. *)
EXTENDS FlashJobs
==============================================================================
