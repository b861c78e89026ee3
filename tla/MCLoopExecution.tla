--------------------------- MODULE MCLoopExecution ---------------------------
(* Loops named by numbers, and iterations by the tens of their loop.       *)
EXTENDS LoopExecution

MCLoopOf == [c \in Iteration |-> c \div 10]
=============================================================================
