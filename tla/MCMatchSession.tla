---- MODULE MCMatchSession ----
(* Trio: s1 and s2 play, s3 is out of the game and follows, so that turns  *)
(* can reach it out of order.  Duel: two seats alternate.                  *)
EXTENDS MatchSession

CONSTANTS s1, s2, s3

Trio     == {s1, s2, s3}
Duel     == {s1, s2}
MCActive == [t \in Turns |-> IF t % 2 = 0 THEN s1 ELSE s2]
====
