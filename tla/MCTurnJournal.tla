---- MODULE MCTurnJournal ----
(***************************************************************************)
(* Instances of the turn journal.  Duel: two seats alternate, and the first *)
(* is faulty.  Lagging: a third seat is out of the game and only follows,  *)
(* so that the others may run further ahead of it than the window.  A      *)
(* match ends at the turn bound, or earlier by the move m2 in the last     *)
(* turn but one, unless that is the second.                                *)
(***************************************************************************)
EXTENDS TurnJournal

CONSTANTS s1, s2, s3, m1, m2

Duel    == {s1, s2}
Lagging == {s1, s2, s3}
MCMoves == {m1, m2}
OneFaulty == {s1}

MCActiveSeat == [h \in Histories |-> IF Len(h) % 2 = 0 THEN s1 ELSE s2]

MCEnded ==
  {h \in Histories : \/ Len(h) = MaxTurns
                     \/ Len(h) >= 2 /\ Len(h) = MaxTurns - 1 /\ h[Len(h)] = m2}
====
