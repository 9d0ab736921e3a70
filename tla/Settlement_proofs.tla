--------------------------- MODULE Settlement_proofs ---------------------------
(***************************************************************************)
(* Proofs about the money of a match, for any number of seats and with all *)
(* failures.                                                               *)
(*                                                                         *)
(* The argument: a job that runs, or whose report waits in the channel     *)
(* done, is on both lists of the session, so neither a tick nor the player *)
(* begins it again.  A seat is allowed to sign only by the end in its own  *)
(* journal; and a stake reads spent only after it left the escrow, by the  *)
(* payout, which every seat has signed, or by its owner's refund: either    *)
(* transaction keeps the other from being mined.                           *)
(***************************************************************************)
EXTENDS Settlement, TLAPS

(* Either the goroutine of a job runs or one report of it waits, and the    *)
(* session still counts it among its jobs.                                 *)
JobHeld(m, k) ==
  /\ m.running[k] <= 1
  /\ m.running[k] = 1 \/ <<k, TRUE>> \in m.done \/ <<k, FALSE>> \in m.done
       => k \in m.jobs /\ k \in m.activeJobs
  /\ m.running[k] = 1 => <<k, TRUE>> \notin m.done /\ <<k, FALSE>> \notin m.done
  /\ ~(<<k, TRUE>> \in m.done /\ <<k, FALSE>> \in m.done)

JobsAreHeld == \A p \in Seats, k \in Kinds : JobHeld(mem[p], k)

AllowedIsEnded == \A p \in Seats : mem[p].allowed => disk[p].ended
SpentIsGone    == \A p \in Seats : mem[p].own = "spent" => LeftEscrow(p)

JobInv == SettlementTypeOK /\ JobsAreHeld
PayInv == AllowedIsEnded /\ SpentIsGone /\ SignsOnlyEnded /\ ConfirmedIsPaid

-------------------------------------------------------------------------------
(* The jobs of one seat                                                    *)

LEMMA BlankIsMemory ==
  /\ Blank \in Memory
  /\ \A k \in Kinds : JobHeld(Blank, k)
BY DEF Blank, Memory, Views, Progress, Kinds, JobHeld

(* To begin a job keeps the books right, when one that was taken off the    *)
(* list is not held anywhere.                                              *)
LEMMA JobIsHeld ==
  ASSUME NEW m \in Memory, \A k \in Kinds : JobHeld(m, k), NEW i \in Kinds
  PROVE  Job(m, i) \in Memory /\ \A k \in Kinds : JobHeld(Job(m, i), k)
<1>1. CASE i \in m.jobs
  BY <1>1 DEF Job
<1>2. CASE i \notin m.jobs
  <2>1. /\ m.running \in [Kinds -> 0..2] /\ m.running[i] <= 1 /\ m.running[i] # 1
        /\ <<i, TRUE>> \notin m.done /\ <<i, FALSE>> \notin m.done
    BY <1>2 DEF JobHeld, Memory
  <2>2. Job(m, i) = [m EXCEPT !.jobs = @ \cup {i}, !.activeJobs = @ \cup {i},
                              !.running[i] = @ + 1]
    BY <1>2 DEF Job
  <2>3. Job(m, i) \in Memory
    <3>1. [m.running EXCEPT ![i] = @ + 1] \in [Kinds -> 0..2]
      BY <2>1
    <3>2. m.jobs \cup {i} \in SUBSET Kinds /\ m.activeJobs \cup {i} \in SUBSET Kinds
      BY DEF Memory
    <3> QED
      BY <2>2, <3>1, <3>2 DEF Memory
  <2>4. ASSUME NEW k \in Kinds PROVE JobHeld(Job(m, i), k)
    <3>1. JobHeld(m, k)
      BY <2>4
    <3>2. CASE k = i
      BY <2>1, <2>2, <3>1, <3>2 DEF JobHeld, Memory
    <3>3. CASE k # i
      BY <2>1, <2>2, <3>1, <3>3 DEF JobHeld, Memory
    <3> QED
      BY <3>2, <3>3
  <2> QED
    BY <2>3, <2>4
<1> QED
  BY <1>1, <1>2

(* A seat whose jobs are as they were. *)
LEMMA JobsRest ==
  ASSUME NEW m \in Memory, NEW n \in Memory, NEW k \in Kinds, JobHeld(m, k),
         n.jobs = m.jobs, n.activeJobs = m.activeJobs, n.running = m.running, n.done = m.done
  PROVE  JobHeld(n, k)
BY DEF JobHeld

(* A step of one seat keeps the books of all. *)
LEMMA SeatKeepsJobs ==
  ASSUME JobInv, NEW p \in Seats, NEW m \in Memory, Does(p, m),
         \A k \in Kinds : JobHeld(m, k)
  PROVE  mem' \in [Seats -> Memory] /\ JobsAreHeld'
BY DEF JobInv, SettlementTypeOK, JobsAreHeld, Does

LEMMA OwnIsSeen ==
  ASSUME SettlementTypeOK, NEW p \in Seats, NEW own \in OwnChecks(p)
  PROVE  /\ own \in {"escrow", "spending", "missing", "spent"}
         /\ PayoutProgress(p, own) \in Progress
<1>1. mem[p] \in Memory
  BY DEF SettlementTypeOK
<1>2. mem[p].own \in {"escrow", "spending", "missing", "spent"}
  BY <1>1 DEF Memory
<1> QED
  BY <1>2 DEF OwnChecks, PayoutProgress, Progress

-------------------------------------------------------------------------------
(* The jobs of a match: one lemma for each kind of step                    *)

LEMMA JobStart == (SettlementInit \/ PlayedInit) => JobInv
<1> SUFFICES ASSUME SettlementInit \/ PlayedInit PROVE JobInv
  OBVIOUS
<1> DEFINE up == [Blank EXCEPT !.up = TRUE, !.selected = "this"]
<1>1. up \in Memory /\ \A k \in Kinds : JobHeld(up, k)
  BY BlankIsMemory DEF Memory, Blank, JobHeld
<1>2. mem \in [Seats -> Memory] /\ JobsAreHeld
  BY <1>1, BlankIsMemory DEF SettlementInit, PlayedInit, JobsAreHeld
<1>3. /\ disk \in [Seats -> [ended : BOOLEAN, receipt : BOOLEAN, concluded : BOOLEAN]]
      /\ net \in [asked : SUBSET Seats, paid : SUBSET Seats, known : SUBSET Seats,
                  signed : SUBSET Seats, payout : Transaction,
                  refund : [Seats -> Transaction], closed : BOOLEAN]
  <2>1. Unpaid
    BY DEF SettlementInit, PlayedInit
  <2>2. PICK stakes \in {{}, Seats} :
          net = [asked |-> stakes, paid |-> stakes, known |-> {}, signed |-> {},
                 payout |-> "none", refund |-> [p \in Seats |-> "none"], closed |-> FALSE]
    BY <2>1 DEF Unpaid
  <2> QED
    BY <2>1, <2>2 DEF Unpaid, Transaction
<1> QED
  BY <1>2, <1>3 DEF JobInv, SettlementTypeOK

LEMMA ProcessKeepsJobs ==
  ASSUME JobInv, NEW p \in Seats, Start(p) \/ Stop(p)
  PROVE  JobInv'
<1>1. /\ [Blank EXCEPT !.up = TRUE] \in Memory
      /\ \A k \in Kinds : JobHeld([Blank EXCEPT !.up = TRUE], k)
  BY BlankIsMemory DEF Memory, Blank, JobHeld
<1>2. mem' \in [Seats -> Memory] /\ JobsAreHeld'
  <2>1. CASE Start(p)
    BY <1>1, <2>1, SeatKeepsJobs DEF Start
  <2>2. CASE Stop(p)
    BY <2>2, BlankIsMemory, SeatKeepsJobs DEF Stop
  <2> QED
    BY <2>1, <2>2
<1> QED
  BY <1>2 DEF JobInv, SettlementTypeOK, Start, Stop

LEMMA JobEndsKeepsJobs ==
  ASSUME JobInv, NEW p \in Seats, NEW k \in Kinds, NEW ok \in BOOLEAN, JobEnds(p, k, ok)
  PROVE  JobInv'
<1> DEFINE m == mem[p]
           n == [m EXCEPT !.running[k] = @ - 1, !.done = @ \cup {<<k, ok>>}]
<1>1. m \in Memory /\ \A i \in Kinds : JobHeld(m, i)
  BY DEF JobInv, SettlementTypeOK, JobsAreHeld
<1>2. m.running \in [Kinds -> 0..2] /\ m.running[k] = 1
  <2>1. m.running \in [Kinds -> 0..2]
    BY <1>1 DEF Memory
  <2>2. m.running[k] > 0 /\ m.running[k] <= 1
    BY <1>1 DEF JobEnds, JobHeld
  <2> HIDE DEF m
  <2> QED
    BY <2>1, <2>2
<1>3. n \in Memory
  <2>1. [m.running EXCEPT ![k] = @ - 1] \in [Kinds -> 0..2]
    BY <1>2
  <2>2. m.done \cup {<<k, ok>>} \in SUBSET (Kinds \X BOOLEAN)
    BY <1>1 DEF Memory
  <2> QED
    BY <1>1, <2>1, <2>2 DEF Memory
<1>4. /\ n.jobs = m.jobs /\ n.activeJobs = m.activeJobs
      /\ n.running[k] = 0 /\ \A i \in Kinds \ {k} : n.running[i] = m.running[i]
      /\ n.done = m.done \cup {<<k, ok>>}
  BY <1>1, <1>2 DEF Memory
<1>5. ASSUME NEW i \in Kinds PROVE JobHeld(n, i)
  <2>1. JobHeld(m, i) /\ JobHeld(m, k)
    BY <1>1
  <2> HIDE DEF n, m
  <2>2. CASE i = k
    <3>1. <<k, TRUE>> \notin m.done /\ <<k, FALSE>> \notin m.done
          /\ k \in m.jobs /\ k \in m.activeJobs
      BY <1>2, <2>1 DEF JobHeld
    <3>2. n.running[i] = 0 /\ i \in n.jobs /\ i \in n.activeJobs
      BY <1>4, <2>2, <3>1
    <3>3. <<k, TRUE>> # <<k, FALSE>>
      BY TRUE # FALSE
    <3>4. <<k, TRUE>> \notin n.done \/ <<k, FALSE>> \notin n.done
      BY <1>4, <3>1, <3>3
    <3> QED
      BY <2>2, <3>2, <3>4 DEF JobHeld
  <2>3. CASE i # k
    BY <1>4, <2>1, <2>3 DEF JobHeld
  <2> QED
    BY <2>2, <2>3
<1>6. mem' \in [Seats -> Memory] /\ JobsAreHeld'
  BY <1>3, <1>5, SeatKeepsJobs DEF JobEnds
<1>7. net' \in [asked : SUBSET Seats, paid : SUBSET Seats, known : SUBSET Seats,
                signed : SUBSET Seats, payout : Transaction,
                refund : [Seats -> Transaction], closed : BOOLEAN]
  BY DEF JobInv, SettlementTypeOK, JobEnds
<1>8. disk' = disk
  BY DEF JobEnds
<1> QED
  BY <1>6, <1>7, <1>8 DEF JobInv, SettlementTypeOK

LEMMA JobDoneKeepsJobs ==
  ASSUME JobInv, NEW p \in Seats, NEW k \in Kinds, NEW ok \in BOOLEAN, JobDone(p, k, ok)
  PROVE  JobInv'
<1> DEFINE m == mem[p]
           n == [m EXCEPT !.done = @ \ {<<k, ok>>}, !.activeJobs = @ \ {k},
                          !.jobs = IF k = "settle" /\ ~ok THEN @ \ {k} ELSE @]
<1>1. m \in Memory /\ \A i \in Kinds : JobHeld(m, i)
  BY DEF JobInv, SettlementTypeOK, JobsAreHeld
<1>2. n \in Memory
  BY <1>1 DEF Memory
<1>3. ASSUME NEW i \in Kinds PROVE JobHeld(n, i)
  <2>1. JobHeld(m, i) /\ <<k, ok>> \in m.done
    BY <1>1 DEF JobDone
  <2>2. CASE i = k
    BY <1>1, <2>1, <2>2 DEF JobHeld, Memory
  <2>3. CASE i # k
    BY <1>1, <2>1, <2>3 DEF JobHeld, Memory
  <2> QED
    BY <2>2, <2>3
<1>4. mem' \in [Seats -> Memory] /\ JobsAreHeld'
  BY <1>2, <1>3, SeatKeepsJobs DEF JobDone
<1> QED
  BY <1>4 DEF JobInv, SettlementTypeOK, JobDone

(* The player's keys. *)
LEMMA PlayerKeepsJobs ==
  ASSUME JobInv, NEW p \in Seats,
         \/ \E t \in {"this", "other"} : Select(p, t)
         \/ Fund(p) \/ Close(p)
  PROVE  JobInv'
<1> DEFINE m == mem[p]
<1>1. m \in Memory /\ \A i \in Kinds : JobHeld(m, i)
  BY DEF JobInv, SettlementTypeOK, JobsAreHeld
<1>2. CASE \E t \in {"this", "other"} : Select(p, t)
  <2>1. PICK t \in {"this", "other"} : Select(p, t)
    BY <1>2
  <2> DEFINE n == [m EXCEPT !.selected = t]
  <2>2. n \in Memory /\ \A k \in Kinds : JobHeld(n, k)
    BY <1>1 DEF Memory, JobHeld
  <2>3. mem' \in [Seats -> Memory] /\ JobsAreHeld'
    BY <2>1, <2>2, SeatKeepsJobs DEF Select
  <2> QED
    BY <2>1, <2>3 DEF JobInv, SettlementTypeOK, Select
<1>3. CASE Fund(p)
  <2> DEFINE n == [m EXCEPT !.jobs = @ \ {"fund"}]
  <2>1. n \in Memory
    BY <1>1 DEF Memory
  <2>2. ASSUME NEW k \in Kinds PROVE JobHeld(n, k)
    BY <1>1, <1>3 DEF Memory, JobHeld, Fund
  <2>3. Job(n, "fund") \in Memory /\ \A k \in Kinds : JobHeld(Job(n, "fund"), k)
    <3> HIDE DEF n
    <3>1. "fund" \in Kinds
      BY DEF Kinds
    <3> QED
      BY <2>1, <2>2, <3>1, JobIsHeld
  <2>4. mem' \in [Seats -> Memory] /\ JobsAreHeld'
    BY <1>3, <2>3, SeatKeepsJobs DEF Fund
  <2> QED
    BY <1>3, <2>4 DEF JobInv, SettlementTypeOK, Fund
<1>4. CASE Close(p)
  <2> DEFINE n == [m EXCEPT !.selected = IF @ = "this" THEN "none" ELSE @]
  <2>1. n \in Memory /\ \A k \in Kinds : JobHeld(n, k)
    BY <1>1 DEF Memory, JobHeld
  <2>2. mem' \in [Seats -> Memory] /\ JobsAreHeld'
    BY <1>4, <2>1, SeatKeepsJobs DEF Close
  <2>3. disk' \in [Seats -> [ended : BOOLEAN, receipt : BOOLEAN, concluded : BOOLEAN]]
    BY <1>4 DEF Close, Wrote, JobInv, SettlementTypeOK
  <2> QED
    BY <1>4, <2>2, <2>3 DEF JobInv, SettlementTypeOK, Close
<1> QED
  BY <1>2, <1>3, <1>4

(* A tick begins at most the settlement. *)
LEMMA TickKeepsJobs ==
  ASSUME JobInv, NEW p \in Seats, Refresh(p)
  PROVE  JobInv'
<1> DEFINE m == mem[p]
<1>1. m \in Memory /\ \A i \in Kinds : JobHeld(m, i)
  BY DEF JobInv, SettlementTypeOK, JobsAreHeld
<1>2. ASSUME NEW n \in Memory,
             n.jobs = m.jobs, n.activeJobs = m.activeJobs, n.running = m.running,
             n.done = m.done,
             Does(p, n) \/ Does(p, Job(n, "settle"))
      PROVE  mem' \in [Seats -> Memory] /\ JobsAreHeld'
  <2>1. \A k \in Kinds : JobHeld(n, k)
    <3> HIDE DEF m
    <3> QED
      BY <1>1, <1>2, JobsRest
  <2>2. Job(n, "settle") \in Memory /\ \A k \in Kinds : JobHeld(Job(n, "settle"), k)
    <3>1. "settle" \in Kinds
      BY DEF Kinds
    <3> QED
      BY <2>1, <3>1, JobIsHeld
  <2> QED
    BY <1>2, <2>1, <2>2, SeatKeepsJobs
<1>3. CASE TickAway(p) \/ TickBlank(p) \/ TickReceipt(p)
  <2>1. PICK v \in Views : Does(p, [m EXCEPT !.view = v])
    BY <1>3 DEF TickAway, TickBlank, TickReceipt, Views
  <2> DEFINE n == [m EXCEPT !.view = v]
  <2>2. /\ n \in Memory /\ Does(p, n)
        /\ n.jobs = m.jobs /\ n.activeJobs = m.activeJobs
        /\ n.running = m.running /\ n.done = m.done
    BY <1>1, <2>1 DEF Memory
  <2>3. mem' \in [Seats -> Memory] /\ JobsAreHeld'
    <3> HIDE DEF n, m
    <3> QED
      BY <1>2, <2>2
  <2> QED
    BY <1>3, <2>3 DEF JobInv, SettlementTypeOK, TickAway, TickBlank, TickReceipt
<1>4. ASSUME NEW own \in OwnChecks(p), NEW v \in StakesView(p, own),
             Does(p, [m EXCEPT !.own = own, !.view = v])
      PROVE  mem' \in [Seats -> Memory] /\ JobsAreHeld'
  <2> DEFINE n == [m EXCEPT !.own = own, !.view = v]
  <2>1. own \in {"escrow", "spending", "missing", "spent"} /\ v \in Views
    BY OwnIsSeen DEF JobInv, StakesView, Views
  <2>2. /\ n \in Memory /\ Does(p, n)
        /\ n.jobs = m.jobs /\ n.activeJobs = m.activeJobs
        /\ n.running = m.running /\ n.done = m.done
    BY <1>1, <1>4, <2>1 DEF Memory
  <2> HIDE DEF n, m
  <2> QED
    BY <1>2, <2>2
<1>5. ASSUME NEW own \in OwnChecks(p),
             Does(p, Job([m EXCEPT !.own = own, !.allowed = TRUE,
                                   !.view = PayoutProgress(p, own)], "settle"))
      PROVE  mem' \in [Seats -> Memory] /\ JobsAreHeld'
  <2> DEFINE n == [m EXCEPT !.own = own, !.allowed = TRUE, !.view = PayoutProgress(p, own)]
  <2>1. own \in {"escrow", "spending", "missing", "spent"} /\ PayoutProgress(p, own) \in Views
    BY OwnIsSeen DEF JobInv, Views
  <2>2. /\ n \in Memory /\ Does(p, Job(n, "settle"))
        /\ n.jobs = m.jobs /\ n.activeJobs = m.activeJobs
        /\ n.running = m.running /\ n.done = m.done
    BY <1>1, <1>5, <2>1 DEF Memory
  <2> HIDE DEF n, m
  <2> QED
    BY <1>2, <2>2
<1>6. CASE TickStakes(p)
  <2>1. mem' \in [Seats -> Memory] /\ JobsAreHeld'
    BY <1>4, <1>6 DEF TickStakes
  <2> QED
    BY <1>6, <2>1 DEF JobInv, SettlementTypeOK, TickStakes
<1>7. CASE NoteSettled(p)
  <2>1. PICK own \in OwnChecks(p) :
          /\ Wrote(p, [disk[p] EXCEPT !.receipt = TRUE])
          /\ Does(p, [m EXCEPT !.own = own, !.view = "confirmed",
                              !.allowed = FALSE, !.settled = TRUE])
          /\ UNCHANGED net
    BY <1>7 DEF NoteSettled
  <2> DEFINE n == [m EXCEPT !.own = own, !.view = "confirmed",
                              !.allowed = FALSE, !.settled = TRUE]
  <2>2. own \in {"escrow", "spending", "missing", "spent"}
    BY OwnIsSeen DEF JobInv
  <2>3. /\ n \in Memory /\ Does(p, n)
        /\ n.jobs = m.jobs /\ n.activeJobs = m.activeJobs
        /\ n.running = m.running /\ n.done = m.done
    BY <1>1, <2>1, <2>2 DEF Memory, Views
  <2>4. mem' \in [Seats -> Memory] /\ JobsAreHeld'
    <3> HIDE DEF n, m
    <3> QED
      BY <1>2, <2>3
  <2>5. disk' \in [Seats -> [ended : BOOLEAN, receipt : BOOLEAN, concluded : BOOLEAN]]
    BY <2>1 DEF Wrote, JobInv, SettlementTypeOK
  <2> QED
    BY <2>1, <2>4, <2>5 DEF JobInv, SettlementTypeOK
<1>8. CASE NoteSettledFails(p)
  <2>1. PICK own \in OwnChecks(p), recorded \in BOOLEAN :
          /\ Wrote(p, [disk[p] EXCEPT !.receipt = recorded])
          /\ \/ Does(p, Job([m EXCEPT !.own = own, !.allowed = TRUE,
                                      !.view = PayoutProgress(p, own)], "settle"))
             \/ \E v \in StakesView(p, own) : Does(p, [m EXCEPT !.own = own, !.view = v])
          /\ UNCHANGED net
    BY <1>8 DEF NoteSettledFails
  <2>2. mem' \in [Seats -> Memory] /\ JobsAreHeld'
    BY <1>4, <1>5, <2>1
  <2>3. disk' \in [Seats -> [ended : BOOLEAN, receipt : BOOLEAN, concluded : BOOLEAN]]
    BY <2>1 DEF Wrote, JobInv, SettlementTypeOK
  <2> QED
    BY <2>1, <2>2, <2>3 DEF JobInv, SettlementTypeOK
<1>9. CASE SettleFinished(p)
  <2>1. mem' \in [Seats -> Memory] /\ JobsAreHeld'
    BY <1>5, <1>9 DEF SettleFinished
  <2> QED
    BY <1>9, <2>1 DEF JobInv, SettlementTypeOK, SettleFinished
<1> QED
  BY <1>3, <1>6, <1>7, <1>8, <1>9 DEF Refresh

(* What happens outside of the process touches no job. *)
LEMMA OutsideKeepsJobs ==
  ASSUME JobInv,
         \/ Broadcast \/ Mine \/ Abort
         \/ \E p \in Seats : \/ Deposit(p) \/ Learn(p) \/ CoSign(p) \/ PlayEnds(p)
                            \/ Refund(p) \/ RefundMined(p)
  PROVE  JobInv'
<1>1. CASE Broadcast \/ Mine \/ Abort
  BY <1>1 DEF JobInv, SettlementTypeOK, JobsAreHeld, Broadcast, Mine, Abort, Outside,
     Transaction
<1>2. CASE \E p \in Seats : Deposit(p) \/ Learn(p) \/ CoSign(p)
  BY <1>2 DEF JobInv, SettlementTypeOK, JobsAreHeld, Deposit, Learn, CoSign, Outside
<1>3. CASE \E p \in Seats : PlayEnds(p)
  BY <1>3 DEF JobInv, SettlementTypeOK, JobsAreHeld, PlayEnds, Wrote
<1>4. CASE \E p \in Seats : Refund(p) \/ RefundMined(p)
  <2>1. PICK p \in Seats, t \in Transaction, u \in Transaction :
          net' = [net EXCEPT !.refund[p] = t, !.payout = u] /\ UNCHANGED <<mem, disk>>
    <3>1. net = [net EXCEPT !.payout = net.payout] /\ net.payout \in Transaction
      BY DEF JobInv, SettlementTypeOK
    <3>2. CASE \E p \in Seats : Refund(p)
      <4>1. PICK p \in Seats : Refund(p)
        BY <3>2
      <4>2. net' = [net EXCEPT !.refund[p] = "mempool", !.payout = net.payout]
        BY <4>1 DEF Refund, Outside, JobInv, SettlementTypeOK
      <4> QED
        BY <3>1, <4>1, <4>2 DEF Refund, Outside, Transaction
    <3>3. CASE \E p \in Seats : RefundMined(p)
      BY <3>3 DEF RefundMined, Outside, Transaction
    <3> QED
      BY <1>4, <3>2, <3>3
  <2>2. [net.refund EXCEPT ![p] = t] \in [Seats -> Transaction]
    BY DEF JobInv, SettlementTypeOK
  <2>3. net' \in [asked : SUBSET Seats, paid : SUBSET Seats, known : SUBSET Seats,
                  signed : SUBSET Seats, payout : Transaction,
                  refund : [Seats -> Transaction], closed : BOOLEAN]
    BY <2>1, <2>2 DEF JobInv, SettlementTypeOK
  <2> QED
    BY <2>1, <2>3 DEF JobInv, SettlementTypeOK, JobsAreHeld
<1> QED
  BY <1>1, <1>2, <1>3, <1>4

LEMMA JobStep == JobInv /\ [SettlementNext]_settlementVars => JobInv'
<1> SUFFICES ASSUME JobInv, [SettlementNext]_settlementVars PROVE JobInv'
  OBVIOUS
<1>1. CASE \E p \in Seats : Start(p) \/ Stop(p)
  BY <1>1, ProcessKeepsJobs
<1>2. CASE \E p \in Seats, k \in Kinds, ok \in BOOLEAN : JobEnds(p, k, ok)
  BY <1>2, JobEndsKeepsJobs
<1>3. CASE \E p \in Seats, k \in Kinds, ok \in BOOLEAN : JobDone(p, k, ok)
  BY <1>3, JobDoneKeepsJobs
<1>4. CASE \E p \in Seats : Fund(p) \/ Close(p) \/ \E t \in {"this", "other"} : Select(p, t)
  BY <1>4, PlayerKeepsJobs
<1>5. CASE \E p \in Seats : Refresh(p)
  BY <1>5, TickKeepsJobs
<1>6. CASE \/ Broadcast \/ Mine \/ Abort
           \/ \E p \in Seats : \/ Deposit(p) \/ Learn(p) \/ CoSign(p) \/ PlayEnds(p)
                            \/ Refund(p) \/ RefundMined(p)
  BY <1>6, OutsideKeepsJobs
<1>7. CASE UNCHANGED settlementVars
  BY <1>7 DEF JobInv, SettlementTypeOK, JobsAreHeld, settlementVars
<1> QED
  BY <1>1, <1>2, <1>3, <1>4, <1>5, <1>6, <1>7
  DEF SettlementNext, SettlementSteps, SeatSteps

-------------------------------------------------------------------------------
(* The payout                                                              *)

(* A step of one seat leaves the payout and the other seats' disks alone.   *)
LEMMA SeatKeepsPay ==
  ASSUME SettlementTypeOK, PayInv, NEW p \in Seats, NEW m \in Memory, Does(p, m),
         NEW d, disk' = [disk EXCEPT ![p] = d],
         net'.payout = net.payout, net'.refund = net.refund,
         net'.closed = net.closed, net'.signed = net.signed,
         d.ended = disk[p].ended,
         m.allowed => disk[p].ended,
         m.own = "spent" => LeftEscrow(p),
         m.view = "confirmed" \/ m.settled => d.receipt,
         d.receipt => LeftEscrow(p),
         d.concluded => d.receipt \/ net.closed
  PROVE  PayInv'
<1>1. /\ mem'[p] = m /\ disk'[p] = d
      /\ \A q \in Seats \ {p} : mem'[q] = mem[q] /\ disk'[q] = disk[q]
  BY DEF SettlementTypeOK, Does
<1>2. AllowedIsEnded' /\ SpentIsGone'
  BY <1>1 DEF PayInv, AllowedIsEnded, SpentIsGone, LeftEscrow
<1>3. SignsOnlyEnded'
  <2>1. \A q \in Seats : disk'[q].ended = disk[q].ended
    BY <1>1
  <2>2. net.signed \subseteq Seats
    BY DEF SettlementTypeOK
  <2> QED
    BY <2>1, <2>2 DEF PayInv, SignsOnlyEnded
<1>4. ConfirmedIsPaid'
  BY <1>1 DEF PayInv, ConfirmedIsPaid, LeftEscrow
<1> QED
  BY <1>2, <1>3, <1>4 DEF PayInv

(* A stake that a tick sees spent has left the escrow. *)
LEMMA SpentIsSeen ==
  ASSUME SettlementTypeOK, PayInv, NEW p \in Seats, NEW own \in OwnChecks(p), own = "spent"
  PROVE  LeftEscrow(p)
BY DEF PayInv, SpentIsGone, OwnChecks

LEMMA PayStart == (SettlementInit \/ PlayedInit) => PayInv
<1> SUFFICES ASSUME SettlementInit \/ PlayedInit PROVE PayInv
  OBVIOUS
<1>1. /\ net.signed = {} /\ net.payout = "none"
      /\ \A p \in Seats : ~disk[p].receipt /\ ~disk[p].concluded
  BY DEF SettlementInit, PlayedInit, Unpaid
<1>2. \A p \in Seats : /\ ~mem[p].allowed /\ mem[p].own = "escrow"
                       /\ ~mem[p].settled /\ mem[p].view = "away"
  <2>1. CASE SettlementInit
    BY <2>1 DEF SettlementInit, Blank
  <2>2. CASE PlayedInit
    BY <2>2 DEF PlayedInit, Blank
  <2> QED
    BY <2>1, <2>2
<1> QED
  BY <1>1, <1>2 DEF PayInv, AllowedIsEnded, SpentIsGone, SignsOnlyEnded, ConfirmedIsPaid

(* The process, its jobs and the player's keys. *)
LEMMA ProcessKeepsPay ==
  ASSUME SettlementTypeOK, SettlementTypeOK', PayInv, NEW p \in Seats,
         \/ Start(p) \/ Stop(p) \/ Fund(p)
         \/ \E t \in {"this", "other"} : Select(p, t)
         \/ \E k \in Kinds, ok \in BOOLEAN : JobEnds(p, k, ok) \/ JobDone(p, k, ok)
  PROVE  PayInv'
<1> DEFINE m == mem'[p]
<1>1. m \in Memory /\ mem[p] \in Memory
  BY DEF SettlementTypeOK
<1>2. disk' = disk /\ net'.payout = net.payout /\ net'.refund = net.refund
      /\ net'.closed = net.closed /\ net'.signed = net.signed
  <2>1. CASE \E k \in Kinds, ok \in BOOLEAN : JobEnds(p, k, ok)
    BY <2>1 DEF JobEnds, SettlementTypeOK
  <2>2. CASE Start(p) \/ Stop(p) \/ Fund(p)
    BY <2>2 DEF Start, Stop, Fund
  <2>3. CASE \E t \in {"this", "other"} : Select(p, t)
    BY <2>3 DEF Select
  <2>4. CASE \E k \in Kinds, ok \in BOOLEAN : JobDone(p, k, ok)
    BY <2>4 DEF JobDone
  <2> QED
    BY <2>1, <2>2, <2>3, <2>4
<1>3. /\ Does(p, m)
      /\ m.allowed => mem[p].allowed
      /\ m.own = "spent" => mem[p].own = "spent"
      /\ m.view = "confirmed" \/ m.settled => mem[p].view = "confirmed" \/ mem[p].settled
  <2>1. ASSUME NEW n, Does(p, n) PROVE m = n
    BY <2>1 DEF Does, SettlementTypeOK
  <2>2. CASE Start(p) \/ Stop(p)
    BY <2>1, <2>2 DEF Start, Stop, Blank
  <2>3. CASE Fund(p)
    <3> DEFINE n == [mem[p] EXCEPT !.jobs = @ \ {"fund"}]
    <3>1. m = Job(n, "fund") /\ Does(p, m)
      BY <2>1, <2>3 DEF Fund
    <3>2. /\ m.allowed = mem[p].allowed /\ m.own = mem[p].own
          /\ m.view = mem[p].view /\ m.settled = mem[p].settled
      BY <1>1, <3>1 DEF Job, Memory
    <3> QED
      BY <3>1, <3>2
  <2>4. CASE \E t \in {"this", "other"} : Select(p, t)
    BY <1>1, <2>1, <2>4 DEF Select, Memory
  <2>5. CASE \E k \in Kinds, ok \in BOOLEAN : JobEnds(p, k, ok) \/ JobDone(p, k, ok)
    BY <1>1, <2>1, <2>5 DEF JobEnds, JobDone, Memory
  <2> QED
    BY <2>2, <2>3, <2>4, <2>5
<1>4. disk' = [disk EXCEPT ![p] = disk[p]]
  BY <1>2 DEF SettlementTypeOK
<1>5. /\ m.allowed => disk[p].ended
      /\ m.own = "spent" => LeftEscrow(p)
      /\ m.view = "confirmed" \/ m.settled => disk[p].receipt
      /\ disk[p].receipt => LeftEscrow(p)
      /\ disk[p].concluded => disk[p].receipt \/ net.closed
  BY <1>3 DEF PayInv, AllowedIsEnded, SpentIsGone, ConfirmedIsPaid
<1> HIDE DEF m
<1> QED
  BY <1>1, <1>2, <1>3, <1>4, <1>5, SeatKeepsPay

(* A table is put away by its receipt, or when the SDK gave it up. *)
LEMMA CloseKeepsPay ==
  ASSUME SettlementTypeOK, SettlementTypeOK', PayInv, NEW p \in Seats, Close(p)
  PROVE  PayInv'
<1> DEFINE m == [mem[p] EXCEPT !.selected = IF @ = "this" THEN "none" ELSE @]
           d == [disk[p] EXCEPT !.concluded = TRUE]
<1>1. Does(p, m) /\ disk' = [disk EXCEPT ![p] = d] /\ net' = net
  BY DEF Close, Wrote
<1>2. /\ mem[p] \in Memory /\ mem'[p] \in Memory /\ mem'[p] = m
      /\ disk[p] \in [ended : BOOLEAN, receipt : BOOLEAN, concluded : BOOLEAN]
  BY <1>1 DEF SettlementTypeOK, Does
<1>3. /\ m.allowed = mem[p].allowed /\ m.own = mem[p].own
      /\ m.view = mem[p].view /\ m.settled = mem[p].settled
      /\ d.ended = disk[p].ended /\ d.receipt = disk[p].receipt
  BY <1>2 DEF Memory
<1>4. disk[p].receipt \/ net.closed
  BY DEF Close, PayInv, ConfirmedIsPaid
<1>5. /\ m.allowed => disk[p].ended
      /\ m.own = "spent" => LeftEscrow(p)
      /\ m.view = "confirmed" \/ m.settled => d.receipt
      /\ d.receipt => LeftEscrow(p)
      /\ d.concluded => d.receipt \/ net.closed
  BY <1>3, <1>4 DEF PayInv, AllowedIsEnded, SpentIsGone, ConfirmedIsPaid
<1>6. m \in Memory
  BY <1>2
<1> HIDE DEF m, d
<1> QED
  BY <1>1, <1>3, <1>5, <1>6, SeatKeepsPay

(* A tick: the receipt is written only at the sight of the spent stake. *)
LEMMA TickKeepsPay ==
  ASSUME SettlementTypeOK, SettlementTypeOK', PayInv, NEW p \in Seats, Refresh(p)
  PROVE  PayInv'
<1> DEFINE m == mem'[p]
           d == disk'[p]
<1>1. /\ mem[p] \in Memory /\ m \in Memory
      /\ disk[p] \in [ended : BOOLEAN, receipt : BOOLEAN, concluded : BOOLEAN]
  BY DEF SettlementTypeOK
<1>2. ASSUME NEW n, Does(p, n) PROVE m = n /\ Does(p, m)
  BY <1>2 DEF Does, SettlementTypeOK
<1>3. ASSUME NEW e, Wrote(p, e) PROVE d = e /\ disk' = [disk EXCEPT ![p] = d]
  BY <1>3 DEF Wrote, SettlementTypeOK
<1>4. ASSUME disk' = disk PROVE d = disk[p] /\ disk' = [disk EXCEPT ![p] = d]
  BY <1>4 DEF SettlementTypeOK
<1>5. /\ mem[p].allowed => disk[p].ended
      /\ mem[p].own = "spent" => LeftEscrow(p)
      /\ mem[p].view = "confirmed" \/ mem[p].settled => disk[p].receipt
      /\ disk[p].receipt => LeftEscrow(p)
      /\ disk[p].concluded => disk[p].receipt \/ net.closed
  BY DEF PayInv, AllowedIsEnded, SpentIsGone, ConfirmedIsPaid
<1>6. ASSUME NEW own \in OwnChecks(p), NEW i,
             i = [mem[p] EXCEPT !.own = own, !.allowed = TRUE, !.view = PayoutProgress(p, own)]
      PROVE  /\ Job(i, "settle").own = own
             /\ Job(i, "settle").view \in Progress
             /\ Job(i, "settle").settled = mem[p].settled
  BY <1>1, <1>6, OwnIsSeen DEF Job, Memory
<1>7. ASSUME NEW own \in OwnChecks(p), NEW v \in StakesView(p, own),
             Does(p, [mem[p] EXCEPT !.own = own, !.view = v])
      PROVE  /\ Does(p, m) /\ m.own = own /\ m.view # "confirmed"
             /\ m.allowed = mem[p].allowed /\ m.settled = mem[p].settled
  <2> DEFINE n == [mem[p] EXCEPT !.own = own, !.view = v]
  <2>1. /\ n.allowed = mem[p].allowed /\ n.own = own /\ n.view = v
        /\ n.settled = mem[p].settled
    BY <1>1 DEF Memory
  <2>2. v # "confirmed"
    BY DEF StakesView
  <2>3. Does(p, n)
    BY <1>7
  <2> HIDE DEF n, m
  <2> QED
    BY <1>2, <2>1, <2>2, <2>3
<1>8. ASSUME NEW own \in OwnChecks(p),
             Does(p, Job([mem[p] EXCEPT !.own = own, !.allowed = TRUE,
                                        !.view = PayoutProgress(p, own)], "settle"))
      PROVE  /\ Does(p, m) /\ m.own = own /\ m.view # "confirmed"
             /\ m.settled = mem[p].settled
  <2> DEFINE i == [mem[p] EXCEPT !.own = own, !.allowed = TRUE,
                                 !.view = PayoutProgress(p, own)]
  <2>1. \A x : x = i => /\ Job(x, "settle").own = own
                        /\ Job(x, "settle").view \in Progress
                        /\ Job(x, "settle").settled = mem[p].settled
    BY <1>6
  <2>2. Does(p, Job(i, "settle"))
    BY <1>8
  <2>3. m = Job(i, "settle") /\ Does(p, m)
    <3> HIDE DEF i, m
    <3> QED
      BY <1>2, <2>2
  <2> HIDE DEF i, m
  <2> QED
    BY <2>1, <2>3 DEF Progress
<1>9. /\ net' = net /\ Does(p, m) /\ disk' = [disk EXCEPT ![p] = d]
      /\ d.ended = disk[p].ended
      /\ m.allowed => disk[p].ended
      /\ m.own = "spent" => LeftEscrow(p)
      /\ m.view = "confirmed" \/ m.settled => d.receipt
      /\ d.receipt => LeftEscrow(p)
      /\ d.concluded => d.receipt \/ net.closed
  <2>1. CASE TickAway(p) \/ TickBlank(p)
    <3>1. PICK x \in {"away", "blank"} : Does(p, [mem[p] EXCEPT !.view = x])
      BY <2>1 DEF TickAway, TickBlank
    <3>2. /\ m.allowed = mem[p].allowed /\ m.own = mem[p].own
          /\ m.view # "confirmed" /\ m.settled = mem[p].settled
      BY <1>1, <1>2, <3>1 DEF Memory
    <3>3. net' = net /\ disk' = disk /\ Does(p, m)
      BY <1>2, <2>1, <3>1 DEF TickAway, TickBlank
    <3> HIDE DEF m, d
    <3> QED
      BY <1>4, <1>5, <3>2, <3>3
  <2>2. CASE TickReceipt(p)
    <3>1. /\ m.allowed = mem[p].allowed /\ m.own = mem[p].own /\ disk[p].receipt
      BY <1>1, <1>2, <2>2 DEF TickReceipt, Memory
    <3>2. net' = net /\ disk' = disk /\ Does(p, m)
      BY <1>2, <2>2 DEF TickReceipt
    <3> HIDE DEF m, d
    <3> QED
      BY <1>4, <1>5, <3>1, <3>2
  <2>3. CASE TickStakes(p)
    <3>1. PICK own \in OwnChecks(p) :
            \E v \in StakesView(p, own) : Does(p, [mem[p] EXCEPT !.own = own, !.view = v])
      BY <2>3 DEF TickStakes
    <3>2. /\ Does(p, m) /\ m.own = own /\ m.view # "confirmed"
          /\ m.allowed = mem[p].allowed /\ m.settled = mem[p].settled
      BY <1>7, <3>1
    <3>3. net' = net /\ disk' = disk
      BY <2>3 DEF TickStakes
    <3>4. own = "spent" => LeftEscrow(p)
      BY SpentIsSeen
    <3> HIDE DEF m, d
    <3> QED
      BY <1>4, <1>5, <3>2, <3>3, <3>4
  <2>4. CASE NoteSettled(p)
    <3>1. PICK own \in OwnChecks(p) :
            /\ own = "spent"
            /\ Wrote(p, [disk[p] EXCEPT !.receipt = TRUE])
            /\ Does(p, [mem[p] EXCEPT !.own = own, !.view = "confirmed",
                                      !.allowed = FALSE, !.settled = TRUE])
            /\ UNCHANGED net
      BY <2>4 DEF NoteSettled, SeesPaid
    <3> DEFINE n == [mem[p] EXCEPT !.own = own, !.view = "confirmed",
                                   !.allowed = FALSE, !.settled = TRUE]
    <3>2. ~m.allowed /\ Does(p, m)
      <4>1. n.allowed = FALSE
        BY <1>1 DEF Memory
      <4>2. Does(p, n)
        BY <3>1
      <4> HIDE DEF n, m
      <4> QED
        BY <1>2, <4>1, <4>2
    <3>3. /\ d.ended = disk[p].ended /\ d.receipt = TRUE
          /\ disk' = [disk EXCEPT ![p] = d]
      BY <1>1, <1>3, <3>1
    <3>4. LeftEscrow(p)
      BY <3>1, SpentIsSeen
    <3> HIDE DEF m, d
    <3> QED
      BY <3>1, <3>2, <3>3, <3>4
  <2>5. CASE NoteSettledFails(p)
    <3>1. PICK own \in OwnChecks(p), recorded \in BOOLEAN :
            /\ own = "spent" /\ ~disk[p].receipt
            /\ Wrote(p, [disk[p] EXCEPT !.receipt = recorded])
            /\ \/ /\ disk[p].ended
                  /\ Does(p, Job([mem[p] EXCEPT !.own = own, !.allowed = TRUE,
                                                !.view = PayoutProgress(p, own)], "settle"))
               \/ \E v \in StakesView(p, own) :
                    Does(p, [mem[p] EXCEPT !.own = own, !.view = v])
            /\ UNCHANGED net
      BY <2>5 DEF NoteSettledFails, SeesPaid, Ticks
    <3>2. /\ Does(p, m) /\ m.own = own /\ m.view # "confirmed" /\ m.settled = mem[p].settled
          /\ m.allowed => disk[p].ended
      BY <1>5, <1>7, <1>8, <3>1
    <3>3. /\ d.ended = disk[p].ended /\ d.concluded = disk[p].concluded
          /\ disk' = [disk EXCEPT ![p] = d]
      <4>1. recorded \in BOOLEAN /\ Wrote(p, [disk[p] EXCEPT !.receipt = recorded])
        BY <3>1
      <4> HIDE DEF d
      <4> QED
        BY <1>1, <1>3, <4>1
    <3>4. LeftEscrow(p)
      BY <3>1, SpentIsSeen
    <3> HIDE DEF m, d
    <3> QED
      BY <1>5, <3>1, <3>2, <3>3, <3>4
  <2>6. CASE SettleFinished(p)
    <3>1. PICK own \in OwnChecks(p) :
            Does(p, Job([mem[p] EXCEPT !.own = own, !.allowed = TRUE,
                                       !.view = PayoutProgress(p, own)], "settle"))
      BY <2>6 DEF SettleFinished
    <3>2. /\ Does(p, m) /\ m.own = own /\ m.view # "confirmed" /\ m.settled = mem[p].settled
      BY <1>8, <3>1
    <3>3. own = "spent" => LeftEscrow(p)
      BY SpentIsSeen
    <3>4. disk[p].ended /\ disk' = disk /\ net' = net
      BY <2>6 DEF SettleFinished
    <3> HIDE DEF m, d
    <3> QED
      BY <1>4, <1>5, <3>2, <3>3, <3>4
  <2> QED
    BY <2>1, <2>2, <2>3, <2>4, <2>5, <2>6 DEF Refresh
<1> HIDE DEF m, d
<1> QED
  BY <1>1, <1>9, SeatKeepsPay

(* The bridges co-sign for a seat that its own game allows; the payout      *)
(* takes every signature.                                                  *)
LEMMA OutsideKeepsPay ==
  ASSUME SettlementTypeOK, SettlementTypeOK', PayInv,
         \/ Broadcast \/ Mine \/ Abort
         \/ \E p \in Seats : \/ Deposit(p) \/ Learn(p) \/ CoSign(p) \/ PlayEnds(p)
                            \/ Refund(p) \/ RefundMined(p)
  PROVE  PayInv'
<1>1. CASE Broadcast
  <2>1. /\ mem' = mem /\ disk' = disk /\ net.signed = Seats /\ net.payout = "none"
        /\ net'.signed = net.signed /\ net'.closed = net.closed /\ net'.refund = net.refund
    BY <1>1 DEF Broadcast, Outside, SettlementTypeOK
  <2> QED
    BY <2>1 DEF PayInv, AllowedIsEnded, SpentIsGone, SignsOnlyEnded, ConfirmedIsPaid, LeftEscrow
<1>2. CASE Mine
  <2>1. /\ mem' = mem /\ disk' = disk /\ net.payout = "mempool" /\ net'.payout = "mined"
        /\ net'.signed = net.signed /\ net'.closed = net.closed /\ net'.refund = net.refund
    BY <1>2 DEF Mine, Outside, SettlementTypeOK
  <2> QED
    BY <2>1 DEF PayInv, AllowedIsEnded, SpentIsGone, SignsOnlyEnded, ConfirmedIsPaid, LeftEscrow
<1>3. CASE Abort
  <2>1. /\ mem' = mem /\ disk' = disk /\ net'.payout = net.payout
        /\ net'.signed = net.signed /\ net'.closed = TRUE /\ net'.refund = net.refund
    BY <1>3 DEF Abort, Outside, SettlementTypeOK
  <2> QED
    BY <2>1 DEF PayInv, AllowedIsEnded, SpentIsGone, SignsOnlyEnded, ConfirmedIsPaid, LeftEscrow
<1>4. ASSUME NEW p \in Seats, Deposit(p) \/ Learn(p)
      PROVE  PayInv'
  <2>1. /\ mem' = mem /\ disk' = disk /\ net'.payout = net.payout
        /\ net'.signed = net.signed /\ net'.closed = net.closed /\ net'.refund = net.refund
    BY <1>4 DEF Deposit, Learn, Outside, SettlementTypeOK
  <2> QED
    BY <2>1 DEF PayInv, AllowedIsEnded, SpentIsGone, SignsOnlyEnded, ConfirmedIsPaid, LeftEscrow
<1>5. ASSUME NEW p \in Seats, CoSign(p)
      PROVE  PayInv'
  <2>1. /\ mem' = mem /\ disk' = disk /\ net'.payout = net.payout
        /\ net'.signed = net.signed \cup {p} /\ net'.closed = net.closed /\ net'.refund = net.refund
        /\ mem[p].allowed
    BY <1>5 DEF CoSign, Outside, SettlementTypeOK
  <2> QED
    BY <2>1 DEF PayInv, AllowedIsEnded, SpentIsGone, SignsOnlyEnded, ConfirmedIsPaid, LeftEscrow
<1>6. ASSUME NEW p \in Seats, PlayEnds(p)
      PROVE  PayInv'
  <2>1. /\ mem' = mem /\ net' = net
        /\ \A q \in Seats : /\ disk[q].ended => disk'[q].ended
                            /\ disk'[q].receipt = disk[q].receipt
                            /\ disk'[q].concluded = disk[q].concluded
    BY <1>6 DEF PlayEnds, Wrote, SettlementTypeOK
  <2>2. net.signed \subseteq Seats
    BY DEF SettlementTypeOK
  <2> QED
    BY <2>1, <2>2 DEF PayInv, AllowedIsEnded, SpentIsGone, SignsOnlyEnded, ConfirmedIsPaid, LeftEscrow
<1>7. ASSUME NEW p \in Seats, Refund(p)
      PROVE  PayInv'
  <2>1. /\ mem' = mem /\ disk' = disk /\ net'.payout = net.payout
        /\ net'.signed = net.signed /\ net'.closed = net.closed
        /\ \A q \in Seats : net.refund[q] = "mined" => net'.refund[q] = "mined"
    BY <1>7 DEF Refund, Outside, SettlementTypeOK
  <2> QED
    BY <2>1 DEF PayInv, AllowedIsEnded, SpentIsGone, SignsOnlyEnded, ConfirmedIsPaid, LeftEscrow
<1>8. ASSUME NEW p \in Seats, RefundMined(p)
      PROVE  PayInv'
  <2>1. /\ mem' = mem /\ disk' = disk /\ net.payout # "mined" /\ net'.payout = "none"
        /\ net'.signed = net.signed /\ net'.closed = net.closed
        /\ \A q \in Seats : net.refund[q] = "mined" => net'.refund[q] = "mined"
    BY <1>8 DEF RefundMined, Outside, SettlementTypeOK
  <2> QED
    BY <2>1 DEF PayInv, AllowedIsEnded, SpentIsGone, SignsOnlyEnded, ConfirmedIsPaid, LeftEscrow
<1> QED
  BY <1>1, <1>2, <1>3, <1>4, <1>5, <1>6, <1>7, <1>8

LEMMA PayStep ==
  SettlementTypeOK /\ SettlementTypeOK' /\ PayInv /\ [SettlementNext]_settlementVars => PayInv'
<1> SUFFICES ASSUME SettlementTypeOK, SettlementTypeOK', PayInv, [SettlementNext]_settlementVars
             PROVE  PayInv'
  OBVIOUS
<1>1. CASE \E p \in Seats :
             \/ Start(p) \/ Stop(p) \/ Fund(p)
             \/ \E t \in {"this", "other"} : Select(p, t)
             \/ \E k \in Kinds, ok \in BOOLEAN : JobEnds(p, k, ok) \/ JobDone(p, k, ok)
  BY <1>1, ProcessKeepsPay
<1>2. CASE \E p \in Seats : Close(p)
  BY <1>2, CloseKeepsPay
<1>3. CASE \E p \in Seats : Refresh(p)
  BY <1>3, TickKeepsPay
<1>4. CASE \/ Broadcast \/ Mine \/ Abort
           \/ \E p \in Seats : \/ Deposit(p) \/ Learn(p) \/ CoSign(p) \/ PlayEnds(p)
                            \/ Refund(p) \/ RefundMined(p)
  BY <1>4, OutsideKeepsPay
<1>5. CASE UNCHANGED settlementVars
  BY <1>5 DEF settlementVars, PayInv, AllowedIsEnded, SpentIsGone, SignsOnlyEnded,
     ConfirmedIsPaid, LeftEscrow
<1> QED
  BY <1>1, <1>2, <1>3, <1>4, <1>5 DEF SettlementNext, SettlementSteps, SeatSteps

-------------------------------------------------------------------------------
(* The theorems                                                            *)

MoneyInv == JobInv /\ PayInv

THEOREM SettlementInvariant == SettlementSpec => []MoneyInv
<1>1. SettlementInit => MoneyInv
  BY JobStart, PayStart DEF MoneyInv
<1>2. MoneyInv /\ [SettlementNext]_settlementVars => MoneyInv'
  BY JobStep, PayStep DEF MoneyInv, JobInv
<1> QED
  BY <1>1, <1>2, PTL DEF SettlementSpec

(* The state of the money keeps its types: at most one goroutine of a kind  *)
(* is never exceeded by the counters that job of controller.go stands for.  *)
THEOREM SettlementTypes == SettlementSpec => []SettlementTypeOK
<1>1. MoneyInv => SettlementTypeOK
  BY DEF MoneyInv, JobInv
<1> QED
  BY <1>1, SettlementInvariant, PTL

(* No job of a match runs twice at once: the guards of Run's job and of the *)
(* action "fund", over every failed job, restart and repeated tick.        *)
THEOREM OneJob == SettlementSpec => []OneJobAtATime
<1>1. MoneyInv => OneJobAtATime
  BY DEF MoneyInv, JobInv, JobsAreHeld, JobHeld, OneJobAtATime
<1> QED
  BY <1>1, SettlementInvariant, PTL

(* A seat signs only what its own journal has ended, and no payout is made  *)
(* before every journal has: settleFinished and WillCoSign.                *)
THEOREM SignaturesFollowTheEnd == SettlementSpec => []SignsOnlyEnded
<1>1. MoneyInv => SignsOnlyEnded
  BY DEF MoneyInv, PayInv
<1> QED
  BY <1>1, SettlementInvariant, PTL

(* What the window calls confirmed is a receipt on disk, written only once  *)
(* the stake has left the escrow, by the payout or by its owner's refund:   *)
(* noteSettled and close, over stale views, failed writes and restarts.    *)
THEOREM ReceiptsArePaid == SettlementSpec => []ConfirmedIsPaid
<1>1. MoneyInv => ConfirmedIsPaid
  BY DEF MoneyInv, PayInv
<1> QED
  BY <1>1, SettlementInvariant, PTL
================================================================================
