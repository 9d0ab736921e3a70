---- MODULE MCMatchSettles ----
(* Duel: two seats alternate.                                              *)
EXTENDS PaidMatch

CONSTANTS s1, s2

Duel     == {s1, s2}
MCActive == [t \in Turns |-> IF t % 2 = 0 THEN s1 ELSE s2]
====
