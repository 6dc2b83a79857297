---------------------------- MODULE MCNandDriver ----------------------------
(* NandDriver on chips of two blocks. *)
EXTENDS NandDriver

Zero == [c \in Col |-> 0]
SomeData == {Zero, [Zero EXCEPT ![0] = 1]}
SomeOld == {[row |-> 0, d |-> [AllFF EXCEPT ![Spare] = 0]],
            [row |-> 1, d |-> [AllFF EXCEPT ![1] = 0, ![Spare] = 0]],
            [row |-> 3, d |-> [AllFF EXCEPT ![0] = 0]]}
==============================================================================
