------------------------------- MODULE PaidMatch -------------------------------
(***************************************************************************)
(* MatchSession and Settlement in a row: one Run loop drives both, and a   *)
(* seat's settlement begins when its journal holds the last turn.          *)
(***************************************************************************)
EXTENDS MatchSession

CONSTANT PayFailures  \* Settlement's Failures

ASSUME PayAssumption ==
  PayFailures \subseteq {"stop", "tick", "write", "job", "abort", "refund"}

VARIABLES mem, records, net

Money == INSTANCE Settlement WITH disk <- records, Failures <- PayFailures

paid == <<mem, records, net>>

(* The end of the journal is the end that settleFinished sees. *)
Played(p) == head[p] = MaxTurns /\ Money!PlayEnds(p) /\ UNCHANGED vars

Settle ==
  /\ \/ Money!Broadcast \/ Money!Mine
     \/ \E p \in Seats : head[p] = MaxTurns /\ Money!SeatSteps(p)
  /\ UNCHANGED vars

Both == <<vars, paid>>

MatchInit == Init /\ Money!PlayedInit
MatchNext == (Next /\ UNCHANGED paid) \/ Settle \/ \E p \in Seats : Played(p)

MatchSpec ==
  /\ MatchInit /\ [][MatchNext]_Both
  /\ Fairness /\ Money!SettlementFairness
  /\ \A p \in Seats : WF_Both(Played(p))

(* A match that every journal has ended is paid, and every seat learns it:  *)
(* settleFinished and noteSettled of controller.go, through restarts and    *)
(* failed settlements.                                                      *)
MatchSettles == Money!Settles

(* A seat signs a payout only once its own journal has ended the match, and *)
(* no payout is made before every journal has: WillCoSign of rules.go and   *)
(* settleFinished of controller.go, over the turns that actually arrive.    *)
SignsOnlyEnded ==
  /\ Money!SignsOnlyEnded
  /\ net.payout # "none" => \A p \in Seats : head[p] = MaxTurns
===============================================================================
