----------------------------- MODULE MCDeviceRun -----------------------------
(* Small batches for DeviceRun. *)
EXTENDS DeviceRun, TLC

\* Cumulative sums of a list of lengths.
Sums(ls) == LET f[i \in 0 .. Len(ls)] == IF i = 0 THEN 0 ELSE f[i - 1] + ls[i] IN f

BatchOf(cmds, reps) == [n |-> Len(cmds), cmd |-> Sums(cmds), rep |-> Sums(reps)]
OverFifo(b, fifo) == [n |-> b.n, cmd |-> b.cmd, rep |-> b.rep, fifo |-> fifo]

\* With a window of 6 a segment holds 4 bytes of operations.  All batches of up
\* to 2 operations that are short, half a segment or a whole one, without
\* reply or with one longer than the reply path; and some longer ones: cuts at
\* exactly the limit and just beyond it, several operations to a segment.
Shapes ==
  { BatchOf(<<1, 1, 1, 1, 1>>, <<1, 0, 3, 0, 1>>),
    BatchOf(<<4, 1, 3>>, <<0, 2, 1>>),
    BatchOf(<<2, 2, 3>>, <<4, 0, 1>>),
    BatchOf(<<1, 4, 1>>, <<0, 0, 0>>) } \cup
  UNION {{BatchOf(cmds, reps) : cmds \in [1 .. n -> {1, 2, 4}], reps \in [1 .. n -> {0, 3}]} :
         n \in 0 .. 2}

\* Each over either link.
MCBatches == {OverFifo(b, fifo) : b \in Shapes, fifo \in BOOLEAN}
==============================================================================
