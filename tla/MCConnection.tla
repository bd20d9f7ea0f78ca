---------------------------- MODULE MCConnection ----------------------------
(***************************************************************************)
(* Constants of Connection for TLC: two clients, the first sends a request  *)
(* more than the second, or the first alone.                                *)
(***************************************************************************)
EXTENDS Connection

CONSTANTS c1, c2

MCBoth == {c1, c2}
MCBothSent == [c \in MCBoth |-> IF c = c1 THEN 3 ELSE 2]

MCAlone == {c1}
MCAloneSent == [c \in MCAlone |-> 3]

=============================================================================
