--------------------------- MODULE MCGraphContext ---------------------------
(***************************************************************************)
(* Three contexts on two streams, two of them sharing one, and three nodes *)
(* that may be added to any of their graphs in any order.                  *)
(***************************************************************************)
EXTENDS GraphContext

CONSTANTS c3, e1, e2

MCExecOf == [c \in Context |-> IF c = c3 THEN e2 ELSE e1]

=============================================================================
