----------------------------- MODULE MCWebJobs -----------------------------
(* Two requests in flight at a time, in three kinds of behaviour: one request *)
(* that uses the device beside one that starts a job or a tool; two that both  *)
(* start jobs on the chip, or close its session; and a tool beside a job.       *)
EXTENDS WebJobs

Pair(one, other) == [t \in 1..2 |-> IF t = 1 THEN one ELSE other]

MCMixes ==
    { Pair(LockOps, {"job", "tool"}),
      Pair({"connect", "detect", "disconnect", "job"}, {"job"}),
      Pair({"connect", "detect", "tool"}, {"job"}) }
=============================================================================
