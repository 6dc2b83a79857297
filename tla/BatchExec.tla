------------------------------ MODULE BatchExec ------------------------------
(***************************************************************************)
(* What Device.run promises its callers, and nothing about how: a batch is *)
(* a list of operations; the programmer executes them one after the other, *)
(* and the host is given their results in the same order, never one before *)
(* its operation was executed.  A run that is told to stop gives up the    *)
(* operations it has not sent yet; what was sent is executed and delivered.*)
(***************************************************************************)
EXTENDS Integers

VARIABLES
  size,        \* number of operations in the batch
  executed,    \* the first "executed" operations have been executed
  delivered,   \* the results of the first "delivered" operations are filled in
  returned     \* the call has returned to its caller

batchVars == <<size, executed, delivered, returned>>

Init ==
  /\ size \in Nat
  /\ executed = 0
  /\ delivered = 0
  /\ returned = FALSE

Execute ==
  /\ ~returned
  /\ executed < size
  /\ executed' = executed + 1
  /\ UNCHANGED <<size, delivered, returned>>

\* Results are filled in a segment at a time.
Deliver ==
  /\ ~returned
  /\ \E d \in (delivered + 1) .. executed : delivered' = d
  /\ UNCHANGED <<size, executed, returned>>

\* The call returns when every executed operation was answered.  Fewer than
\* "size" of them is the outcome of a cancelled run.
Return ==
  /\ ~returned
  /\ delivered = executed
  /\ returned' = TRUE
  /\ UNCHANGED <<size, executed, delivered>>

Next == Execute \/ Deliver \/ Return

Spec == Init /\ [][Next]_batchVars
==============================================================================
