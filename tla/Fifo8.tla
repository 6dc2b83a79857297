-------------------------------- MODULE Fifo8 --------------------------------
(***************************************************************************)
(* fifo8 (common.v): the first-word-fall-through byte FIFO that stands     *)
(* between the links and the engine, in both directions.  The pointers are *)
(* one bit wider than an address and wrap around; the byte at the head     *)
(* waits in a register of its own, outside the memory.                     *)
(*                                                                         *)
(* wr, din and rd are its inputs; f holds its registers.                   *)
(***************************************************************************)
EXTENDS Integers

CONSTANTS
  Depth,    \* entries of the memory, 1 << AW
  NoByte    \* what registers and memory hold before anything is written

VARIABLES wr, din, rd, f

Pointer == 0 .. (2 * Depth - 1)
Plus1(p) == (p + 1) % (2 * Depth)
Address(p) == p % Depth

Empty == [wp |-> 0, rp |-> 0, mem |-> [a \in 0 .. (Depth - 1) |-> NoByte],
          dout |-> NoByte, valid |-> FALSE]

\* Slip: occupancy at the width of an address, so a full memory looks empty.
UsedShort == (f.wp - f.rp) % Depth
Used == (f.wp - f.rp) % (2 * Depth)
Full == Used = Depth
Level == Used + (IF f.valid THEN 1 ELSE 0)

DoWrite == wr /\ ~Full
\* Slip: the head is replaced before it has been taken.
FetchAlways == f.wp # f.rp
Fetch == f.wp # f.rp /\ (~f.valid \/ rd)

\* One clock.
Clock ==
  f' = [wp    |-> IF DoWrite THEN Plus1(f.wp) ELSE f.wp,
        rp    |-> IF Fetch THEN Plus1(f.rp) ELSE f.rp,
        mem   |-> IF DoWrite THEN [f.mem EXCEPT ![Address(f.wp)] = din] ELSE f.mem,
        dout  |-> IF Fetch THEN f.mem[Address(f.rp)] ELSE f.dout,
        valid |-> Fetch \/ (f.valid /\ ~rd)]
==============================================================================
