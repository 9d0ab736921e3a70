------------------------------ MODULE Settlement ------------------------------
(***************************************************************************)
(* internal/session: the money of one match, from the stakes to the        *)
(* receipt of the payout, at every seat: the refresh tick of               *)
(* controller.go, its jobs, the player's actions, and what a restart       *)
(* forgets.                                                                *)
(*                                                                         *)
(* The loop of Run handles one thing at a time; the jobs run beside it and *)
(* report through the channel done.  Only the table in the foreground is   *)
(* settled: "other" is some other table of the same player.                *)
(*                                                                         *)
(* The SDK, the bridges and the chain are external: a deposit appears      *)
(* after it was asked for; a proposal made by one seat's Settle reaches    *)
(* the others; each bridge asks its own game whether it will co-sign; the  *)
(* payout moves every stake at once.  Where a payout is refused, the owner  *)
(* of a stake takes it back from escrow after its lock, without the game    *)
(* (docs/payment-model.md), and races a payout that is still to be mined:   *)
(* the game sees only that its stake is gone.                              *)
(***************************************************************************)
EXTENDS Integers, FiniteSets

CONSTANTS
  Seats,
  Failures   \* subset of {"stop", "tick", "write", "job", "abort", "refund"}

ASSUME SettlementAssumption ==
  Seats # {} /\ Failures \subseteq {"stop", "tick", "write", "job", "abort", "refund"}

Kinds == {"fund", "settle"}

(* A transaction on its way into the chain: the payout, an owner's refund.  *)
Transaction == {"none", "mempool", "mined"}

(* View.Match, View.CanFund and View.Payout of the foreground table.        *)
Progress == {"proposing", "signing", "mempool", "published"}
Views    == {"away", "blank", "canFund", "playing", "confirmed"} \cup Progress

VARIABLES
  mem,    \* by seat: what the process holds
  disk,   \* by seat: the journal's end, the receipt, the closed table
  net     \* the SDK's records, the bridges and the chain

settlementVars == <<mem, disk, net>>

Memory ==
  [up : BOOLEAN, selected : {"none", "this", "other"},
   view : Views, own : {"escrow", "spending", "missing", "spent"},
   jobs : SUBSET Kinds, activeJobs : SUBSET Kinds, running : [Kinds -> 0..2],
   done : SUBSET (Kinds \X BOOLEAN), allowed : BOOLEAN, settled : BOOLEAN]

Blank ==
  [up |-> FALSE, selected |-> "none", view |-> "away",
   own |-> "escrow", jobs |-> {}, activeJobs |-> {},
   running |-> [k \in Kinds |-> 0], done |-> {}, allowed |-> FALSE, settled |-> FALSE]

SettlementTypeOK ==
  /\ mem \in [Seats -> Memory]
  /\ disk \in [Seats -> [ended : BOOLEAN, receipt : BOOLEAN, concluded : BOOLEAN]]
  /\ net \in [asked : SUBSET Seats, paid : SUBSET Seats, known : SUBSET Seats,
              signed : SUBSET Seats, payout : Transaction,
              refund : [Seats -> Transaction], closed : BOOLEAN]

(* A match whose world is agreed: before the stakes, or with all of them.  *)
Unpaid ==
  /\ disk = [p \in Seats |-> [ended |-> FALSE, receipt |-> FALSE, concluded |-> FALSE]]
  /\ \E stakes \in {{}, Seats} :
       net = [asked |-> stakes, paid |-> stakes, known |-> {}, signed |-> {},
              payout |-> "none", refund |-> [p \in Seats |-> "none"], closed |-> FALSE]

SettlementInit == Unpaid /\ mem = [p \in Seats |-> Blank]

(* One that is being played, in the foreground of every window. *)
PlayedInit ==
  /\ Unpaid /\ net.paid = Seats
  /\ mem = [p \in Seats |-> [Blank EXCEPT !.up = TRUE, !.selected = "this"]]

(* The stake has left the escrow, or is about to, by the payout or by its   *)
(* owner's refund.                                                         *)
LeftEscrow(p)    == net.payout = "mined" \/ net.refund[p] = "mined"
LeavesEscrow(p) == net.payout = "mempool" \/ net.refund[p] = "mempool"
Refunded   == \E p \in Seats : net.refund[p] = "mined"

Does(p, m) == mem' = [mem EXCEPT ![p] = m]
Wrote(p, f) == disk' = [disk EXCEPT ![p] = f]

-------------------------------------------------------------------------------
(* The process and its jobs                                                *)

Start(p) ==
  /\ ~mem[p].up
  /\ Does(p, [Blank EXCEPT !.up = TRUE])
  /\ UNCHANGED <<disk, net>>

Stop(p) ==
  /\ "stop" \in Failures /\ mem[p].up
  /\ Does(p, Blank)
  /\ UNCHANGED <<disk, net>>

(* job: a kind that was begun is not begun again. *)
Job(m, k) ==
  IF k \in m.jobs THEN m
  ELSE [m EXCEPT !.jobs = @ \cup {k}, !.activeJobs = @ \cup {k}, !.running[k] = @ + 1]

(* Mutant: a failed job stays on record like one that went well. *)
JobDoneKeeps(p, k, ok) ==
  /\ <<k, ok>> \in mem[p].done
  /\ Does(p, [mem[p] EXCEPT !.done = @ \ {<<k, ok>>}, !.activeJobs = @ \ {k}])
  /\ UNCHANGED <<disk, net>>

(* Run: only a failed settle is forgotten, and tried again by a tick. *)
JobDone(p, k, ok) ==
  /\ <<k, ok>> \in mem[p].done
  /\ Does(p, [mem[p] EXCEPT !.done = @ \ {<<k, ok>>}, !.activeJobs = @ \ {k},
                            !.jobs = IF k = "settle" /\ ~ok THEN @ \ {k} ELSE @])
  /\ UNCHANGED <<disk, net>>

(* The goroutine ends: its call to the SDK had its effect, or an error, as  *)
(* the bridges propose no payout of a stake that was taken back.           *)
JobEnds(p, k, ok) ==
  /\ mem[p].running[k] > 0
  /\ IF k = "settle" /\ Refunded THEN ~ok ELSE ok \/ "job" \in Failures
  /\ Does(p, [mem[p] EXCEPT !.running[k] = @ - 1, !.done = @ \cup {<<k, ok>>}])
  /\ net' = IF ~ok THEN net
            ELSE IF k = "fund" THEN [net EXCEPT !.asked = @ \cup {p}]
            ELSE [net EXCEPT !.known = @ \cup {p}]
  /\ UNCHANGED disk

-------------------------------------------------------------------------------
(* The player                                                              *)

(* select, or an invitation accepted in dcrpulse, which selects its table.  *)
Select(p, t) ==
  /\ mem[p].up /\ mem[p].selected # t
  /\ Does(p, [mem[p] EXCEPT !.selected = t])
  /\ UNCHANGED <<disk, net>>

(* Mutant: the guard on a running job is left to job, which is told to      *)
(* begin again.                                                            *)
FundTwice(p) ==
  /\ mem[p].view = "canFund"
  /\ Does(p, Job([mem[p] EXCEPT !.jobs = @ \ {"fund"}], "fund"))
  /\ UNCHANGED <<disk, net>>

(* action "fund", on the CanFund of the last tick. *)
Fund(p) ==
  /\ mem[p].view = "canFund" /\ "fund" \notin mem[p].activeJobs
  /\ Does(p, Job([mem[p] EXCEPT !.jobs = @ \ {"fund"}], "fund"))
  /\ UNCHANGED <<disk, net>>

(* close, on the Payout of the last tick. *)
Close(p) ==
  /\ \/ mem[p].view = "confirmed"
     \/ mem[p].view # "away" /\ net.closed
  /\ Wrote(p, [disk[p] EXCEPT !.concluded = TRUE])
  /\ Does(p, [mem[p] EXCEPT !.selected = IF @ = "this" THEN "none" ELSE @])
  /\ UNCHANGED net

-------------------------------------------------------------------------------
(* refresh                                                                 *)

(* The selected table; without one the open table with the latest deadline, *)
(* which may be either.                                                    *)
Foreground(p) ==
  IF mem[p].selected # "none" THEN {mem[p].selected}
  ELSE IF disk[p].concluded \/ net.closed THEN {"other"}
  ELSE {"this", "other"}

(* What the tick sees of the own stake: a view up to five seconds old, or   *)
(* the chain's, where the ledger may or may not know that it was spent; by  *)
(* what, it does not say.                                                  *)
OwnChecks(p) ==
  {mem[p].own} \cup
  IF LeftEscrow(p) THEN {"missing", "spent"}
  ELSE IF LeavesEscrow(p) THEN {"escrow", "spending"}
  ELSE {"escrow"}

PayoutProgress(p, own) ==
  IF own = "spending" THEN "mempool"
  ELSE IF own = "missing" THEN "published"
  ELSE IF p \in net.known THEN "signing" ELSE "proposing"

(* Another table is in the foreground: this one rests. *)
TickAway(p) ==
  /\ mem[p].up /\ "other" \in Foreground(p)
  /\ Does(p, [mem[p] EXCEPT !.view = "away"])
  /\ UNCHANGED <<disk, net>>

(* The tick ends early: a record that cannot be read, a closed table, an    *)
(* admission bond that cannot be checked, a world not agreed yet.           *)
TickBlank(p) ==
  /\ mem[p].up /\ "this" \in Foreground(p) /\ ~disk[p].receipt
  /\ net.closed \/ "tick" \in Failures
  /\ Does(p, [mem[p] EXCEPT !.view = "blank"])
  /\ UNCHANGED <<disk, net>>

(* The receipt outranks everything that could still be read. *)
TickReceipt(p) ==
  /\ mem[p].up /\ "this" \in Foreground(p) /\ disk[p].receipt
  /\ Does(p, [mem[p] EXCEPT !.view = "confirmed"])
  /\ UNCHANGED <<disk, net>>

(* prepareWorld opened the match, in this tick or an earlier one. *)
Ticks(p) == mem[p].up /\ "this" \in Foreground(p) /\ ~disk[p].receipt /\ ~net.closed

(* Mutant: whatever has left the escrow was the payout. *)
SeesPaidEarly(p, own) == own \in {"spending", "missing", "spent"} /\ p \in net.known

(* noteSettled: the own stake reads spent and the proposal is known.       *)
SeesPaid(p, own) == own = "spent" /\ p \in net.known

NoteSettled(p) ==
  \E own \in OwnChecks(p) :
    /\ Ticks(p) /\ SeesPaid(p, own)
    /\ Wrote(p, [disk[p] EXCEPT !.receipt = TRUE])
    /\ Does(p, [mem[p] EXCEPT !.own = own, !.view = "confirmed",
                              !.allowed = FALSE, !.settled = TRUE])
    /\ UNCHANGED net

(* Before the end of play: every stake verified, or one missing or gone.    *)
(* The other stakes are not the local ledger's: it may not know them gone.  *)
StakesView(p, own) ==
  {v \in {"playing", "blank", "canFund"} :
     IF v = "playing" THEN net.paid = Seats /\ own = "escrow"
     ELSE /\ v = "canFund" <=> p \notin net.asked
          /\ \/ net.paid # Seats \/ own # "escrow"
             \/ \E q \in Seats : net.refund[q] # "none"}

(* Put fails, with or without the record: the tick goes on as if unpaid. *)
NoteSettledFails(p) ==
  \E own \in OwnChecks(p), recorded \in BOOLEAN :
    /\ "write" \in Failures /\ Ticks(p) /\ ~mem[p].settled /\ SeesPaid(p, own)
    /\ Wrote(p, [disk[p] EXCEPT !.receipt = recorded])
    /\ \/ /\ disk[p].ended
          /\ Does(p, Job([mem[p] EXCEPT !.own = own, !.allowed = TRUE,
                                        !.view = PayoutProgress(p, own)], "settle"))
       \/ /\ ~disk[p].ended
          /\ \E v \in StakesView(p, own) : Does(p, [mem[p] EXCEPT !.own = own, !.view = v])
    /\ UNCHANGED net

(* Mutant: play is taken to be over as soon as the stakes are in. *)
SettleAtOnce(p) ==
  \E own \in OwnChecks(p) :
    /\ Ticks(p) /\ ~SeesPaid(p, own) /\ net.paid = Seats
    /\ Does(p, Job([mem[p] EXCEPT !.own = own, !.allowed = TRUE,
                                  !.view = PayoutProgress(p, own)], "settle"))
    /\ UNCHANGED <<disk, net>>

(* settleFinished: the journal's end, never the stakes, lets the seat sign  *)
(* and settle.                                                             *)
SettleFinished(p) ==
  \E own \in OwnChecks(p) :
    /\ Ticks(p) /\ ~SeesPaid(p, own) /\ disk[p].ended
    /\ Does(p, Job([mem[p] EXCEPT !.own = own, !.allowed = TRUE,
                                  !.view = PayoutProgress(p, own)], "settle"))
    /\ UNCHANGED <<disk, net>>

(* Stakes missing, or all in and the match played. *)
TickStakes(p) ==
  \E own \in OwnChecks(p) :
    /\ Ticks(p) /\ ~SeesPaid(p, own) /\ ~disk[p].ended
    /\ \E v \in StakesView(p, own) : Does(p, [mem[p] EXCEPT !.own = own, !.view = v])
    /\ UNCHANGED <<disk, net>>

Refresh(p) ==
  \/ TickAway(p) \/ TickBlank(p) \/ TickReceipt(p) \/ TickStakes(p)
  \/ NoteSettled(p) \/ NoteSettledFails(p) \/ SettleFinished(p)

-------------------------------------------------------------------------------
(* Outside                                                                 *)

Outside(n) == net' = n /\ UNCHANGED <<mem, disk>>

(* The journal reaches the last turn, which needs every stake. *)
PlayEnds(p) ==
  /\ mem[p].up /\ net.paid = Seats /\ ~disk[p].ended
  /\ Wrote(p, [disk[p] EXCEPT !.ended = TRUE])
  /\ UNCHANGED <<mem, net>>

Deposit(p) == p \in net.asked \ net.paid /\ Outside([net EXCEPT !.paid = @ \cup {p}])
Learn(p)   == net.known # {} /\ p \notin net.known /\ Outside([net EXCEPT !.known = @ \cup {p}])

(* The bridge asks WillCoSign of its game. *)
CoSign(p) ==
  /\ mem[p].up /\ mem[p].allowed /\ p \in net.known \ net.signed
  /\ Outside([net EXCEPT !.signed = @ \cup {p}])

Broadcast ==
  /\ net.signed = Seats /\ net.payout = "none" /\ ~Refunded
  /\ Outside([net EXCEPT !.payout = "mempool"])
Mine == net.payout = "mempool" /\ Outside([net EXCEPT !.payout = "mined"])

(* The owner's own transaction, after the lock; mined, it leaves no payout. *)
Refund(p) ==
  /\ "refund" \in Failures /\ p \in net.paid
  /\ net.refund[p] = "none" /\ net.payout # "mined"
  /\ Outside([net EXCEPT !.refund[p] = "mempool"])
RefundMined(p) ==
  /\ net.refund[p] = "mempool" /\ net.payout # "mined"
  /\ Outside([net EXCEPT !.refund[p] = "mined", !.payout = "none"])

(* The SDK gives the table up before its stakes are complete, or once one   *)
(* was taken back.                                                         *)
Abort ==
  /\ "abort" \in Failures /\ (net.paid # Seats \/ Refunded)
  /\ ~net.closed /\ Outside([net EXCEPT !.closed = TRUE])

SeatSteps(p) ==
  \/ Start(p) \/ Stop(p) \/ Refresh(p) \/ Fund(p) \/ Close(p)
  \/ \E t \in {"this", "other"} : Select(p, t)
  \/ \E k \in Kinds, ok \in BOOLEAN : JobEnds(p, k, ok) \/ JobDone(p, k, ok)
  \/ Deposit(p) \/ Learn(p) \/ CoSign(p) \/ Refund(p) \/ RefundMined(p)

SettlementSteps == Broadcast \/ Mine \/ Abort \/ \E p \in Seats : SeatSteps(p)
SettlementNext  == SettlementSteps \/ \E p \in Seats : PlayEnds(p)
SettlementSpec  == SettlementInit /\ [][SettlementNext]_settlementVars

(* A stopped game is started again, the tick repeats, jobs end, bridges and *)
(* the chain work on, the ledger sees the payout; failures cease, and the   *)
(* player leaves the table in the foreground at last: only there it is      *)
(* settled.                                                                *)
Failure(p) ==
  \/ Stop(p) \/ TickBlank(p) \/ NoteSettledFails(p) \/ Select(p, "other")
  \/ \E k \in Kinds : ~Refunded /\ JobEnds(p, k, FALSE)

SettlementFairness ==
  /\ <>[][\A p \in Seats : ~Failure(p)]_settlementVars
  /\ WF_settlementVars(Broadcast) /\ WF_settlementVars(Mine)
  /\ \A p \in Seats :
       /\ WF_settlementVars(Start(p)) /\ WF_settlementVars(Select(p, "this"))
       /\ WF_settlementVars(NoteSettled(p)) /\ WF_settlementVars(SettleFinished(p))
       /\ WF_settlementVars(TickReceipt(p))
       /\ WF_settlementVars(Learn(p)) /\ WF_settlementVars(CoSign(p))
       /\ \A k \in Kinds : WF_settlementVars(\E ok \in BOOLEAN : JobEnds(p, k, ok))
       /\ \A k \in Kinds : WF_settlementVars(\E ok \in BOOLEAN : JobDone(p, k, ok))

-------------------------------------------------------------------------------
(* No job of a match runs twice at once, although the player may press the  *)
(* key at any time and a failed settlement is tried again.                  *)
OneJobAtATime == \A p \in Seats, k \in Kinds : mem[p].running[k] <= 1

(* A seat signs a payout only of a match its own journal has ended, so that *)
(* no stake moves before every seat's journal says so.                      *)
SignsOnlyEnded ==
  /\ \A p \in net.signed : disk[p].ended
  /\ net.payout # "none" => \A p \in Seats : disk[p].ended

(* What the window calls confirmed, and what a table is put away for, is a  *)
(* receipt on disk, and no receipt is written while the seat's stake is in  *)
(* escrow: the payout or, where that was refused, the owner's refund is in  *)
(* the chain, whatever stopped or failed in between and however old the     *)
(* view was (noteSettled, close).                                          *)
ConfirmedIsPaid ==
  \A p \in Seats :
    /\ mem[p].view = "confirmed" \/ mem[p].settled => disk[p].receipt
    /\ disk[p].receipt => LeftEscrow(p)
    /\ disk[p].concluded => disk[p].receipt \/ net.closed

(* The comment at controller.go:449: a stake that left its escrow says that *)
(* the payout confirmed.  It does not, where its owner took it back.        *)
ReceiptIsPayout == \A p \in Seats : disk[p].receipt => net.payout = "mined"

(* A match that every journal has ended is paid, and every seat learns it,  *)
(* unless an owner's refund came first.                                     *)
Settles ==
  (\A p \in Seats : disk[p].ended) ~> (\A p \in Seats : disk[p].receipt) \/ Refunded
===============================================================================
