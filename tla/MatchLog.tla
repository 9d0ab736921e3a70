------------------------------- MODULE MatchLog -------------------------------
(***************************************************************************)
(* What the signed turn journals of one match amount to: a single log of   *)
(* moves that only grows, until the match has ended, and of which every    *)
(* peer holds a prefix that no failure ever shortens.                      *)
(*                                                                         *)
(*   log      the moves of the match, in turn order                        *)
(*   applied  how many of them each peer has made durable                  *)
(***************************************************************************)
EXTENDS Naturals, Sequences

CONSTANTS Seats, Moves, Ended

VARIABLES log, applied

vars == <<log, applied>>

Init ==
  /\ log = <<>>
  /\ applied = [p \in Seats |-> 0]

(* The next move is signed; there is none after the end.  Whose it is, and *)
(* that the seat could not have made another, is TurnJournal's to say.     *)
Play(m) ==
  /\ log \notin Ended
  /\ log' = Append(log, m)
  /\ UNCHANGED applied

(* A peer makes one more move of the log durable. *)
Apply(p) ==
  /\ applied[p] < Len(log)
  /\ applied' = [applied EXCEPT ![p] = @ + 1]
  /\ UNCHANGED log

Next ==
  \/ \E m \in Moves : Play(m)
  \/ \E p \in Seats : Apply(p)

Spec == Init /\ [][Next]_vars
===============================================================================
