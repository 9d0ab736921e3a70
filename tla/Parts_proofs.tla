------------------------------ MODULE Parts_proofs ------------------------------
(***************************************************************************)
(* What is proved about the smaller parts of the program.  They share no   *)
(* state: a theorem is about the specification of one part, and those at   *)
(* the end about the composition that the run of these parts checks.       *)
(***************************************************************************)
EXTENDS MCParts, Settlement_proofs, NaturalFacts, FiniteSetTheorems, SequenceTheorems, TLAPS

-------------------------------------------------------------------------------
(* Connection: the current attempt and what it reports                     *)

(* A report of the same attempt is queued behind this one. *)
Later(i) == \E k \in DOMAIN updates : k > i /\ updates[k].generation = updates[i].generation

(* The one goroutine with a live context belongs to the window's last      *)
(* generation; after stopBridge no goroutine has that generation.          *)
AttemptInv ==
  /\ win.live \in {Nobody, win.generation}
  /\ win.live # Nobody => task[win.live].config = win.config
  /\ \A n \in Generations : pc[n] # "none" => n <= win.generation /\ (n = win.generation => win.live = n)
  /\ win.session \in {Nobody, win.live}

(* A report of the current attempt still holds, or a later one is queued.  *)
ReportInv ==
  \A i \in DOMAIN updates :
    LET n == updates[i].generation
    IN  /\ pc[n] # "none" /\ updates[i].controller \in {Nobody, n}
        /\ n = win.live =>
             /\ updates[i].controller # Nobody => pc[n] = "running" \/ Later(i)
             /\ updates[i].busy => pc[n] # "ended" \/ Later(i)

ConnectionInv == ConnectionTypeOK /\ AttemptInv /\ ReportInv /\ SessionIsCurrent /\ BusyIsAnswered

LEMMA ConnectionStart == ConnectionInit => ConnectionInv
  <1> SUFFICES ASSUME ConnectionInit PROVE ConnectionInv
    OBVIOUS
  <1>1. ConnectionTypeOK
    BY ConnectionAssumption DEF ConnectionInit, ConnectionTypeOK, Generations, Nobody, Other, PCs
  <1>2. AttemptInv /\ ReportInv /\ SessionIsCurrent /\ BusyIsAnswered
    BY DEF ConnectionInit, AttemptInv, ReportInv, SessionIsCurrent, BusyIsAnswered, Nobody, Generations
  <1> QED
    BY <1>1, <1>2 DEF ConnectionInv

(* What a typed window holds, field by field. *)
WindowFields ==
  /\ win.generation \in 0..MaxGenerations /\ win.live \in Generations \cup {Nobody}
  /\ win.session \in Generations \cup {Nobody} /\ win.busy \in BOOLEAN
  /\ win.config \in Configs /\ win.last \in Generations \cup {Nobody}

LEMMA TypedWindow ==
  ASSUME ConnectionTypeOK
  PROVE  WindowFields /\ updates \in Seq(Updates) /\ pc \in [Generations -> PCs]
BY DEF ConnectionTypeOK, WindowFields

(* stopBridge leaves no current attempt: the reports that are queued and   *)
(* the goroutines that run are of older generations.                       *)
LEMMA StopKeeps ==
  ASSUME ConnectionInv, win.generation < MaxGenerations, NEW d \in Configs,
         win' = [win EXCEPT !.generation = win.generation + 1, !.live = Nobody, !.session = Nobody,
                            !.busy = FALSE, !.config = d],
         UNCHANGED <<pc, task, updates, lock>>
  PROVE  ConnectionInv'
  <1>1. win.generation \in 0..MaxGenerations /\ win.generation + 1 \in 0..MaxGenerations
    BY TypedWindow, ConnectionAssumption DEF ConnectionInv, WindowFields
  <1>2. ConnectionTypeOK'
    BY <1>1 DEF ConnectionInv, ConnectionTypeOK
  <1>3. /\ win'.generation = win.generation + 1 /\ win'.live = Nobody /\ win'.session = Nobody
        /\ win'.busy = FALSE
    BY DEF ConnectionInv, ConnectionTypeOK
  <1>4. AttemptInv'
    BY <1>1, <1>3, ConnectionAssumption DEF ConnectionInv, AttemptInv, Generations
  <1>5. ReportInv'
    <2>1. \A i \in DOMAIN updates : updates[i].generation # Nobody
      <3>1. \A i \in DOMAIN updates : updates[i] \in Updates
        BY TypedWindow DEF ConnectionInv
      <3> QED
        BY <3>1 DEF Updates, Generations, Nobody
    <2> QED
      BY <1>3, <2>1 DEF ConnectionInv, ReportInv
  <1> QED
    BY <1>2, <1>3, <1>4, <1>5 DEF ConnectionInv, SessionIsCurrent, BusyIsAnswered

(* Every report is of a generation and names at most its controller. *)
LEMMA TypedReports ==
  ASSUME ConnectionTypeOK
  PROVE  /\ updates \in Seq(Updates) /\ Len(updates) \in Nat /\ DOMAIN updates = 1..Len(updates)
         /\ \A i \in DOMAIN updates : updates[i] \in Updates /\ updates[i].generation \in Generations
  <1>1. updates \in Seq(Updates)
    BY DEF ConnectionTypeOK
  <1>2. \A i \in DOMAIN updates : updates[i] \in Updates
    BY <1>1
  <1> QED
    BY <1>1, <1>2 DEF Updates

(* A step of a goroutine that reports nothing: the current one goes neither *)
(* to its end nor away from a running session without a word.              *)
LEMMA SilentKeeps ==
  ASSUME ConnectionInv, NEW n \in Generations, NEW where \in PCs \ {"none"}, pc[n] # "none",
         n = win.live => where # "ended" /\ pc[n] # "running",
         pc' = [pc EXCEPT ![n] = where], lock' \in Generations \cup {Nobody, Other},
         UNCHANGED <<win, task, updates>>
  PROVE  ConnectionInv'
  <1>1. ConnectionTypeOK'
    BY DEF ConnectionInv, ConnectionTypeOK
  <1>2. \A m \in Generations : pc'[m] = IF m = n THEN where ELSE pc[m]
    BY DEF ConnectionInv, ConnectionTypeOK
  <1>3. AttemptInv'
    BY <1>2 DEF ConnectionInv, AttemptInv
  <1>4. ReportInv'
    BY <1>2, TypedReports DEF ConnectionInv, ReportInv, Later
  <1>5. win.live \in Generations \cup {Nobody} /\ win.session \in Generations \cup {Nobody}
    BY TypedWindow DEF ConnectionInv, WindowFields
  <1>6. SessionIsCurrent' /\ BusyIsAnswered'
    BY <1>2, <1>5 DEF ConnectionInv, SessionIsCurrent, BusyIsAnswered, Queued
  <1> QED
    BY <1>1, <1>3, <1>4, <1>6 DEF ConnectionInv

(* A step of a goroutine that reports: everything it said before has a     *)
(* later word behind it now.                                               *)
LEMMA ReportKeeps ==
  ASSUME ConnectionInv, NEW n \in Generations, NEW where \in PCs \ {"none"}, pc[n] # "none",
         NEW ctl \in {Nobody, n}, NEW b \in BOOLEAN,
         ctl # Nobody => where = "running",
         b => where # "ended",
         pc' = [pc EXCEPT ![n] = where], lock' \in Generations \cup {Nobody, Other},
         updates' = Append(updates, [generation |-> n, controller |-> ctl, busy |-> b]),
         UNCHANGED <<win, task>>
  PROVE  ConnectionInv'
  <1> DEFINE r == [generation |-> n, controller |-> ctl, busy |-> b]
             end == Len(updates) + 1
  <1>1. r \in Updates /\ r.generation = n /\ r.controller = ctl /\ r.busy = b
    BY DEF Updates
  <1>2. updates' = Append(updates, r)
    OBVIOUS
  <1> HIDE DEF r
  <1>3. /\ updates \in Seq(Updates) /\ Len(updates) \in Nat /\ DOMAIN updates = 1..Len(updates)
        /\ \A i \in DOMAIN updates : updates[i] \in Updates /\ updates[i].generation \in Generations
    BY TypedReports DEF ConnectionInv
  <1>4. /\ updates' \in Seq(Updates) /\ DOMAIN updates' = 1..end /\ updates'[end] = r
        /\ \A i \in DOMAIN updates : i \in DOMAIN updates' /\ updates'[i] = updates[i]
        /\ \A i \in DOMAIN updates' : i \in DOMAIN updates \/ i = end
        /\ \A i \in DOMAIN updates : i < end
        /\ end \in DOMAIN updates'
    BY <1>1, <1>2, <1>3
  <1> HIDE DEF end
  <1>5. ConnectionTypeOK'
    BY <1>4 DEF ConnectionInv, ConnectionTypeOK
  <1>6. \A m \in Generations : pc'[m] = IF m = n THEN where ELSE pc[m]
    BY DEF ConnectionInv, ConnectionTypeOK
  <1>7. AttemptInv'
    BY <1>6 DEF ConnectionInv, AttemptInv
  <1>8. Queued(n)' /\ \A m : Queued(m) => Queued(m)'
    BY <1>1, <1>4 DEF Queued
  <1>9. ASSUME NEW i \in DOMAIN updates PROVE Later(i) \/ updates[i].generation = n => Later(i)'
    BY <1>1, <1>4 DEF Later
  <1>10. ReportInv'
    BY <1>1, <1>3, <1>4, <1>6, <1>9 DEF ConnectionInv, ReportInv
  <1>11. win.live \in Generations \cup {Nobody} /\ win.session \in Generations \cup {Nobody}
    BY TypedWindow DEF ConnectionInv, WindowFields
  <1>12. SessionIsCurrent' /\ BusyIsAnswered'
    BY <1>6, <1>8, <1>11 DEF ConnectionInv, SessionIsCurrent, BusyIsAnswered
  <1> QED
    BY <1>5, <1>7, <1>10, <1>12 DEF ConnectionInv

(* connectBridge: a new attempt, of which nothing is queued yet. *)
LEMMA ConnectKeeps ==
  ASSUME ConnectionInv, Connect
  PROVE  ConnectionInv'
  <1> DEFINE n == win.generation + 1
  <1>1. /\ n \in Generations /\ n \in 0..MaxGenerations /\ win.generation \in 0..MaxGenerations
        /\ win.config \in Configs /\ win.last \in Generations \cup {Nobody}
    BY TypedWindow, ConnectionAssumption DEF ConnectionInv, WindowFields, Connect, Generations
  <1>2. /\ win' = [win EXCEPT !.generation = n, !.live = n, !.session = Nobody, !.busy = TRUE,
                              !.last = n]
        /\ pc' = [pc EXCEPT ![n] = "previous"]
        /\ task' = [task EXCEPT ![n] = [previous |-> win.last, config |-> win.config]]
        /\ UNCHANGED <<updates, lock>>
    BY DEF Connect, Stopped, ConnectionInv, ConnectionTypeOK
  <1> HIDE DEF n
  <1>3. /\ win'.generation = n /\ win'.live = n /\ win'.session = Nobody /\ win'.busy = TRUE
        /\ win'.config = win.config
    BY <1>2 DEF ConnectionInv, ConnectionTypeOK
  <1>4. ConnectionTypeOK'
    BY <1>1, <1>2 DEF ConnectionInv, ConnectionTypeOK, PCs
  <1>5. \A m \in Generations : pc'[m] = IF m = n THEN "previous" ELSE pc[m]
    BY <1>2 DEF ConnectionInv, ConnectionTypeOK
  <1>6. task'[n].config = win.config
    BY <1>1, <1>2 DEF ConnectionInv, ConnectionTypeOK
  <1>7. pc[n] = "none"
    BY <1>1 DEF ConnectionInv, AttemptInv, Generations, n
  <1>8. AttemptInv'
    BY <1>1, <1>3, <1>5, <1>6 DEF ConnectionInv, AttemptInv, Generations, n
  <1>9. ReportInv'
    BY <1>2, <1>3, <1>5, <1>7, TypedReports DEF ConnectionInv, ReportInv
  <1>10. n # Nobody
    BY <1>1 DEF Generations, Nobody
  <1>11. SessionIsCurrent' /\ BusyIsAnswered'
    BY <1>1, <1>3, <1>5, <1>10 DEF SessionIsCurrent, BusyIsAnswered
  <1> QED
    BY <1>4, <1>8, <1>9, <1>11 DEF ConnectionInv

(* What was later than another report is still queued when that one and     *)
(* those before it have been read.                                         *)
LEMMA PollKeeps ==
  ASSUME ConnectionInv, Poll
  PROVE  ConnectionInv'
  <1> DEFINE r == Head(updates)
  <1>1. /\ updates \in Seq(Updates) /\ Len(updates) \in Nat /\ DOMAIN updates = 1..Len(updates)
        /\ \A i \in DOMAIN updates : updates[i] \in Updates /\ updates[i].generation \in Generations
        /\ updates # <<>>
    BY TypedReports DEF ConnectionInv, Poll
  <1>2. /\ updates' = Tail(updates) /\ UNCHANGED <<pc, task, lock>>
        /\ 1 \in DOMAIN updates /\ r = updates[1] /\ r \in Updates /\ r.generation \in Generations
        /\ r.controller \in Generations \cup {Nobody} /\ r.busy \in BOOLEAN
    BY <1>1 DEF Poll, Updates
  <1> PICK n \in Generations : n = r.generation
    BY <1>2
  <1>3. /\ updates' \in Seq(Updates) /\ DOMAIN updates' = 1..Len(updates) - 1
        /\ \A i \in DOMAIN updates' : i + 1 \in DOMAIN updates /\ updates'[i] = updates[i + 1]
        /\ \A k \in DOMAIN updates : k > 1 => k - 1 \in DOMAIN updates' /\ updates'[k - 1] = updates[k]
    BY <1>1, <1>2
  <1>4. /\ pc[n] # "none" /\ r.controller \in {Nobody, n}
        /\ n = win.live =>
             /\ r.controller # Nobody => pc[n] = "running" \/ Later(1)
             /\ r.busy => pc[n] # "ended" \/ Later(1)
    BY <1>2 DEF ConnectionInv, ReportInv
  <1>5. Later(1) => Queued(n)'
    BY <1>1, <1>2, <1>3 DEF Later, Queued
  <1>6. ASSUME NEW m \in Generations, Queued(m), m # n PROVE Queued(m)'
    <2>1. PICK k \in DOMAIN updates : updates[k].generation = m
      BY <1>6 DEF Queued
    <2>2. k > 1
      BY <1>1, <1>2, <1>6, <2>1
    <2> QED
      BY <1>3, <2>1, <2>2 DEF Queued
  <1>7. ASSUME NEW i \in DOMAIN updates', Later(i + 1) PROVE Later(i)'
    <2>1. PICK k \in DOMAIN updates : k > i + 1 /\ updates[k].generation = updates[i + 1].generation
      BY <1>7 DEF Later
    <2>2. i \in Nat \ {0} /\ k \in Nat
      BY <1>1, <1>3
    <2>3. k > 1 /\ k - 1 > i /\ k - 1 \in DOMAIN updates' /\ updates'[k - 1] = updates[k]
      BY <1>3, <2>1, <2>2
    <2>4. updates'[k - 1].generation = updates'[i].generation
      BY <1>3, <2>1, <2>3
    <2> QED
      BY <2>3, <2>4 DEF Later
  <1>8. /\ win.live \in {Nobody, win.generation} /\ win.session \in Generations \cup {Nobody}
        /\ win.live \in Generations \cup {Nobody}
        /\ n = win.generation => n = win.live
        /\ win.live # Nobody => (n = win.live => n = win.generation)
    BY <1>2, <1>4, TypedWindow DEF ConnectionInv, AttemptInv, WindowFields
  <1> HIDE DEF r
  <1>9. CASE n = win.generation
    <2>1. win' = [win EXCEPT !.session = r.controller, !.busy = r.busy]
      BY <1>9 DEF Poll, r
    <2>2. /\ win'.generation = win.generation /\ win'.live = win.live /\ win'.config = win.config
          /\ win'.session = r.controller /\ win'.busy = r.busy
      BY <2>1 DEF ConnectionInv, ConnectionTypeOK
    <2>3. ConnectionTypeOK'
      BY <1>2, <1>3, <2>1 DEF ConnectionInv, ConnectionTypeOK
    <2>4. AttemptInv'
      BY <1>2, <1>4, <1>8, <1>9, <2>2 DEF ConnectionInv, AttemptInv
    <2>5. ReportInv'
      BY <1>2, <1>3, <1>7, <2>2 DEF ConnectionInv, ReportInv
    <2>6. SessionIsCurrent' /\ BusyIsAnswered'
      <3>1. n # Nobody
        BY DEF Generations, Nobody
      <3>2. n = win.live /\ win'.live = n
        BY <1>8, <1>9, <2>2
      <3>3. task'[n].config = win'.config
        BY <1>2, <2>2, <3>1, <3>2 DEF ConnectionInv, AttemptInv
      <3>4. r.controller # Nobody => r.controller = n /\ (pc'[n] = "running" \/ Queued(n)')
        BY <1>2, <1>4, <1>5, <3>2
      <3>5. SessionIsCurrent'
        BY <2>2, <3>2, <3>3, <3>4 DEF SessionIsCurrent
      <3>6. r.busy => pc'[n] # "ended" \/ Queued(n)'
        BY <1>2, <1>4, <1>5, <3>2
      <3> QED
        BY <2>2, <3>1, <3>2, <3>5, <3>6 DEF BusyIsAnswered
    <2> QED
      BY <2>3, <2>4, <2>5, <2>6 DEF ConnectionInv
  <1>10. CASE n # win.generation
    <2>1. win' = win
      BY <1>10 DEF Poll, r
    <2>2. ConnectionTypeOK'
      BY <1>2, <1>3, <2>1 DEF ConnectionInv, ConnectionTypeOK
    <2>3. AttemptInv'
      BY <1>2, <2>1 DEF ConnectionInv, AttemptInv
    <2>4. ReportInv'
      BY <1>2, <1>3, <1>7, <2>1 DEF ConnectionInv, ReportInv
    <2>5. win.live # Nobody => n # win.live
      BY <1>8, <1>10
    <2>6. SessionIsCurrent' /\ BusyIsAnswered'
      BY <1>2, <1>6, <1>8, <2>1, <2>5 DEF ConnectionInv, SessionIsCurrent, BusyIsAnswered
    <2> QED
      BY <2>2, <2>3, <2>4, <2>6 DEF ConnectionInv
  <1> QED
    BY <1>9, <1>10

(* Each handler of the window and each step of a goroutine. *)
LEMMA ConnectionStep == ConnectionInv /\ [ConnectionNext]_connectionVars => ConnectionInv'
  <1> SUFFICES ASSUME ConnectionInv, [ConnectionNext]_connectionVars PROVE ConnectionInv'
    OBVIOUS
  <1>1. /\ win.config \in Configs /\ lock \in Generations \cup {Nobody, Other}
        /\ pc \in [Generations -> PCs]
    BY TypedWindow DEF ConnectionInv, ConnectionTypeOK, WindowFields
  <1>2. CASE Disconnect
    <2>1. win' = [win EXCEPT !.generation = win.generation + 1, !.live = Nobody, !.session = Nobody,
                             !.busy = FALSE, !.config = win.config]
      BY <1>2 DEF Disconnect, Stopped, ConnectionInv, ConnectionTypeOK
    <2> QED
      BY <1>1, <1>2, <2>1, StopKeeps DEF Disconnect
  <1>3. CASE Edit
    <2>1. PICK d \in Configs : win' = [Stopped EXCEPT !.config = d]
      BY <1>3 DEF Edit
    <2>2. win' = [win EXCEPT !.generation = win.generation + 1, !.live = Nobody, !.session = Nobody,
                             !.busy = FALSE, !.config = d]
      BY <2>1 DEF Stopped
    <2> QED
      BY <1>3, <2>2, StopKeeps DEF Edit
  <1>4. CASE Connect
    BY <1>4, ConnectKeeps
  <1>5. CASE Poll
    BY <1>5, PollKeeps
  <1>6. CASE OtherWindow
    BY <1>6 DEF OtherWindow, ConnectionInv, ConnectionTypeOK, AttemptInv, ReportInv, Later,
                SessionIsCurrent, BusyIsAnswered, Queued
  <1>7. ASSUME NEW n \in Generations, AfterPrevious(n) PROVE ConnectionInv'
    BY <1>1, <1>7, SilentKeeps DEF AfterPrevious, Goes, Cancelled, PCs
  <1>8. ASSUME NEW n \in Generations, ProfileFree(n) PROVE ConnectionInv'
    BY <1>1, <1>8, SilentKeeps, ReportKeeps DEF ProfileFree, Goes, Cancelled, Reports, PCs
  <1>9. ASSUME NEW n \in Generations, ProfileFails(n) PROVE ConnectionInv'
    BY <1>1, <1>9, SilentKeeps, ReportKeeps DEF ProfileFails, Goes, Cancelled, Reports, PCs
  <1>10. ASSUME NEW n \in Generations, Dialed(n) PROVE ConnectionInv'
    BY <1>1, <1>10, SilentKeeps DEF Dialed, Goes, PCs
  <1>11. ASSUME NEW n \in Generations, OpenFails(n) PROVE ConnectionInv'
    BY <1>1, <1>11, SilentKeeps, ReportKeeps
       DEF OpenFails, Goes, Cancelled, ReportsUnlessCancelled, Reports, PCs
  <1>12. ASSUME NEW n \in Generations, Opened(n) PROVE ConnectionInv'
    BY <1>12, SilentKeeps DEF Opened, Goes, PCs
  <1>13. ASSUME NEW n \in Generations, Announce(n) PROVE ConnectionInv'
    BY <1>1, <1>13, SilentKeeps, ReportKeeps
       DEF Announce, Goes, Cancelled, ReportsUnlessCancelled, Reports, PCs
  <1>14. ASSUME NEW n \in Generations, Returns(n) PROVE ConnectionInv'
    BY <1>14, SilentKeeps, ReportKeeps
       DEF Returns, Goes, Cancelled, ReportsUnlessCancelled, Reports, PCs
  <1>15. CASE UNCHANGED connectionVars
    BY <1>15 DEF connectionVars, ConnectionInv, ConnectionTypeOK, AttemptInv, ReportInv, Later,
                 SessionIsCurrent, BusyIsAnswered, Queued
  <1> QED
    BY <1>2, <1>3, <1>4, <1>5, <1>6, <1>7, <1>8, <1>9, <1>10, <1>11, <1>12, <1>13, <1>14, <1>15
       DEF ConnectionNext

(* The inductive invariant of the connection. *)
THEOREM ConnectionInvariant == ConnectionSpec => []ConnectionInv
  BY ConnectionStart, ConnectionStep, PTL DEF ConnectionSpec

(* The window plays only through the controller of its latest attempt, made *)
(* with the credentials on the screen, for any number of attempts,          *)
(* cancellations and late reports (pollSettings, connectBridge).            *)
THEOREM SessionStaysCurrent == ConnectionSpec => []SessionIsCurrent
  <1>1. ConnectionInv => SessionIsCurrent
    BY DEF ConnectionInv
  <1> QED
    BY <1>1, ConnectionInvariant, PTL

(* A window that waits for its bridge has an attempt that will answer: no   *)
(* interleaving of goroutines leaves it busy with nobody at work.           *)
THEOREM WaitingIsAnswered == ConnectionSpec => []BusyIsAnswered
  <1>1. ConnectionInv => BusyIsAnswered
    BY DEF ConnectionInv
  <1> QED
    BY <1>1, ConnectionInvariant, PTL

-------------------------------------------------------------------------------
(* SkipRound: what the round remembers of the messages that came           *)

VotesOf(s) == {m \in seen : m.kind = "vote" /\ m.sender = s}
Way(m)     == IF m.approve THEN "yes" ELSE "no"
BothWays(s) == \E m, n \in VotesOf(s) : m.approve /\ ~n.approve

(* Only an open round has heard anything; the accused answers, the others  *)
(* vote.                                                                   *)
HeardInv ==
  /\ ~round.open => round = Closed /\ seen = {}
  /\ \A m \in seen : /\ m.kind \in {"vote", "answer"}
                     /\ m.kind = "answer" <=> m.sender = Absent
                     /\ m.approve => m.kind = "vote"

(* The first vote of a seat is kept, a second one the other way is noted.  *)
CountInv ==
  /\ \A s \in 0..3 : round.votes[s] # "none" => \E m \in VotesOf(s) : round.votes[s] = Way(m)
  /\ \A s \in 0..3 : \A m \in VotesOf(s) :
       round.votes[s] # "none" /\ (round.votes[s] # Way(m) => round.conflict)
  /\ round.conflict => \E s \in 0..3 : BothWays(s)
  /\ round.answer <=> \E m \in seen : m.kind = "answer"

SkipInv == SkipTypeOK /\ HeardInv /\ CountInv

RoundType == [open : BOOLEAN, opened : Words, closes : Words, votes : [0..3 -> Votes],
              answer : BOOLEAN, conflict : BOOLEAN]

LEMMA ClosedIsRound == Closed \in RoundType /\ Closed.open = FALSE /\ Closed.conflict = FALSE
                       /\ Closed.answer = FALSE /\ \A s \in 0..3 : Closed.votes[s] = "none"
BY SkipAssumption DEF Closed, RoundType, Votes, Words

LEMMA SkipStart == SkipInit => SkipInv
  <1> SUFFICES ASSUME SkipInit PROVE SkipInv
    OBVIOUS
  <1>1. SkipTypeOK
    BY SkipAssumption, ClosedIsRound DEF SkipInit, SkipTypeOK, RoundType, Words
  <1>2. HeardInv /\ CountInv
    BY ClosedIsRound DEF SkipInit, HeardInv, CountInv, VotesOf
  <1> QED
    BY <1>1, <1>2 DEF SkipInv

(* A round begins with nothing heard. *)
LEMMA OpenKeeps ==
  ASSUME SkipInv, NEW m \in Messages, NEW timing \in Timings, Open(m, timing)
  PROVE  SkipInv'
  <1> DEFINE closes == Add(now, timing.voteWindow)
  <1>1. now \in Words /\ closes \in Words
    BY SkipAssumption DEF SkipInv, SkipTypeOK, Add, Words
  <1>2. /\ round' = [Closed EXCEPT !.open = TRUE, !.opened = now, !.closes = closes]
        /\ round.open = FALSE /\ UNCHANGED <<active, now, seen>>
    BY DEF Open, SkipInv, SkipTypeOK
  <1> HIDE DEF closes
  <1>3. /\ round' \in RoundType /\ round'.open = TRUE /\ round'.conflict = FALSE
        /\ round'.answer = FALSE /\ \A s \in 0..3 : round'.votes[s] = "none"
    BY <1>1, <1>2, ClosedIsRound DEF RoundType
  <1>4. SkipTypeOK'
    BY <1>2, <1>3 DEF SkipInv, SkipTypeOK, RoundType
  <1>5. seen' = {} /\ HeardInv'
    BY <1>2, <1>3 DEF SkipInv, HeardInv
  <1>6. CountInv'
    BY <1>3, <1>5 DEF CountInv, VotesOf
  <1> QED
    BY <1>4, <1>5, <1>6 DEF SkipInv

(* A message is counted: another vote of a seat never replaces the first.  *)
LEMMA ReceiveKeeps ==
  ASSUME SkipInv, NEW m \in Messages, Receive(m)
  PROVE  SkipInv'
  <1>1. /\ round \in RoundType /\ seen \subseteq Messages /\ round.open = TRUE
        /\ round' = Count(round, m) /\ seen' = seen \cup {m} /\ UNCHANGED <<active, now>>
    BY DEF SkipInv, SkipTypeOK, RoundType, Receive
  <1>2. /\ m.kind \in {"vote", "answer"} /\ m.sender \in 0..3 /\ m.approve \in BOOLEAN
        /\ m.kind = "answer" <=> m.sender = Absent
        /\ m.approve => m.kind = "vote"
    BY DEF Receive, Valid, Messages, MessageKinds
  <1>3. Way(m) \in Votes /\ Way(m) # "none" /\ \A n \in Messages : Way(n) \in {"yes", "no"}
    BY DEF Way, Votes
  <1>4. round.votes \in [0..3 -> Votes] /\ round.conflict \in BOOLEAN /\ round.answer \in BOOLEAN
    BY <1>1 DEF RoundType
  <1>5. \A s : VotesOf(s)' = VotesOf(s) \cup {n \in {m} : n.kind = "vote" /\ n.sender = s}
    BY <1>1 DEF VotesOf
  <1>6. CASE m.kind = "answer"
    <2>1. round' = [round EXCEPT !.answer = TRUE]
      BY <1>1, <1>6 DEF Count
    <2>2. /\ round' \in RoundType /\ round'.open = TRUE /\ round'.votes = round.votes
          /\ round'.conflict = round.conflict /\ round'.answer = TRUE
      BY <1>1, <2>1 DEF RoundType
    <2>3. \A s : VotesOf(s)' = VotesOf(s)
      BY <1>5, <1>6
    <2>4. SkipTypeOK'
      BY <1>1, <2>2 DEF SkipInv, SkipTypeOK, RoundType
    <2>5. HeardInv'
      BY <1>1, <1>2, <2>2 DEF SkipInv, HeardInv
    <2>6. CountInv'
      BY <1>1, <1>6, <2>2, <2>3 DEF SkipInv, CountInv, BothWays
    <2> QED
      BY <2>4, <2>5, <2>6 DEF SkipInv
  <1>7. CASE m.kind = "vote" /\ round.votes[m.sender] \notin {"none", Way(m)}
    <2>1. round' = [round EXCEPT !.conflict = TRUE]
      BY <1>1, <1>7 DEF Count, Way
    <2>2. /\ round' \in RoundType /\ round'.open = TRUE /\ round'.votes = round.votes
          /\ round'.conflict = TRUE /\ round'.answer = round.answer
      BY <1>1, <2>1 DEF RoundType
    <2>3. SkipTypeOK'
      BY <1>1, <2>2 DEF SkipInv, SkipTypeOK, RoundType
    <2>4. HeardInv'
      BY <1>1, <1>2, <2>2 DEF SkipInv, HeardInv
    <2>5. PICK n \in VotesOf(m.sender) : round.votes[m.sender] = Way(n)
      BY <1>2, <1>4, <1>7 DEF SkipInv, CountInv
    <2>6. n \in VotesOf(m.sender)' /\ m \in VotesOf(m.sender)' /\ n.approve # m.approve
      BY <1>5, <1>7, <2>5 DEF Way
    <2>7. n.approve \in BOOLEAN
      BY <1>1, <2>5 DEF VotesOf, Messages
    <2>8. \E p, q \in VotesOf(m.sender)' : p.approve /\ ~q.approve
      BY <1>2, <2>6, <2>7
    <2>9. \E s \in 0..3 : BothWays(s)'
      BY <1>2, <2>8 DEF BothWays
    <2>10. \A s \in 0..3 : round'.votes[s] # "none" => \E p \in VotesOf(s)' : round'.votes[s] = Way(p)
      BY <1>5, <2>2 DEF SkipInv, CountInv
    <2>11. \A s \in 0..3 : \A p \in VotesOf(s)' : round'.votes[s] # "none"
      BY <1>3, <1>5, <1>7, <2>2 DEF SkipInv, CountInv
    <2>12. round'.answer <=> \E p \in seen' : p.kind = "answer"
      BY <1>1, <1>7, <2>2 DEF SkipInv, CountInv
    <2>13. CountInv'
      BY <2>2, <2>9, <2>10, <2>11, <2>12 DEF CountInv
    <2> QED
      BY <2>3, <2>4, <2>13 DEF SkipInv
  <1>8. CASE m.kind = "vote" /\ round.votes[m.sender] \in {"none", Way(m)}
    <2>1. round' = [round EXCEPT !.votes[m.sender] = Way(m)]
      BY <1>1, <1>8 DEF Count, Way
    <2>2. /\ round' \in RoundType /\ round'.open = TRUE
          /\ round'.votes = [round.votes EXCEPT ![m.sender] = Way(m)]
          /\ round'.conflict = round.conflict /\ round'.answer = round.answer
      BY <1>1, <1>3, <2>1 DEF RoundType
    <2>3. \A s \in 0..3 : round'.votes[s] = IF s = m.sender THEN Way(m) ELSE round.votes[s]
      BY <1>4, <2>2
    <2>4. SkipTypeOK'
      BY <1>1, <2>2 DEF SkipInv, SkipTypeOK, RoundType
    <2>5. HeardInv'
      BY <1>1, <1>2, <2>2 DEF SkipInv, HeardInv
    <2>6. m \in VotesOf(m.sender)' /\ \A s : VotesOf(s) \subseteq VotesOf(s)'
      BY <1>5, <1>8
    <2>7. \A s \in 0..3 : round'.votes[s] # "none" => \E p \in VotesOf(s)' : round'.votes[s] = Way(p)
      BY <2>3, <2>6 DEF SkipInv, CountInv
    <2>8. ASSUME NEW s \in 0..3, NEW p \in VotesOf(s)'
          PROVE  round'.votes[s] # "none" /\ (round'.votes[s] # Way(p) => round'.conflict)
      <3>1. (p = m /\ s = m.sender) \/ p \in VotesOf(s)
        BY <1>5
      <3>2. p \in VotesOf(s) => round.votes[s] # "none" /\ (round.votes[s] # Way(p) => round.conflict)
        BY DEF SkipInv, CountInv
      <3> QED
        BY <1>3, <1>8, <2>2, <2>3, <3>1, <3>2
    <2>9. round'.conflict => \E s \in 0..3 : BothWays(s)'
      BY <2>2, <2>6 DEF SkipInv, CountInv, BothWays
    <2>10. round'.answer <=> \E p \in seen' : p.kind = "answer"
      BY <1>1, <1>8, <2>2 DEF SkipInv, CountInv
    <2>11. CountInv'
      BY <2>7, <2>8, <2>9, <2>10 DEF CountInv
    <2> QED
      BY <2>4, <2>5, <2>11 DEF SkipInv
  <1> QED
    BY <1>2, <1>6, <1>7, <1>8

LEMMA SkipStep == SkipInv /\ [SkipNext]_skipVars => SkipInv'
  <1> SUFFICES ASSUME SkipInv, [SkipNext]_skipVars PROVE SkipInv'
    OBVIOUS
  <1>1. CASE Tick
    <2>1. SkipTypeOK'
      BY <1>1, SkipAssumption DEF Tick, SkipInv, SkipTypeOK, Words
    <2> QED
      BY <1>1, <2>1 DEF Tick, SkipInv, HeardInv, CountInv, VotesOf, BothWays
  <1>2. CASE UNCHANGED skipVars
    BY <1>2 DEF skipVars, SkipInv, SkipTypeOK, HeardInv, CountInv, VotesOf, BothWays
  <1> QED
    BY <1>1, <1>2, OpenKeeps, ReceiveKeeps DEF SkipNext

THEOREM SkipInvariant == SkipSpec => []SkipInv
  BY SkipStart, SkipStep, PTL DEF SkipSpec

(* What the round decides is a function of the messages heard. *)
LEMMA HeardDecides == SkipInv => ViewDecides
  <1> SUFFICES ASSUME SkipInv, round.open PROVE ViewDecides
    BY DEF ViewDecides
  <1> DEFINE votes == {m \in seen : m.kind = "vote"}
             ways(s) == {m.approve : m \in {q \in votes : q.sender = s}}
             twice == \E s \in 0..3 : ways(s) = BOOLEAN
             answered == \E m \in seen : m.kind = "answer"
             cast == {s \in 0..3 : round.votes[s] # "none"}
             agreed == now >= round.closes /\ ~answered /\ votes # {} /\ \A m \in votes : m.approve
  <1>1. /\ now \in Nat /\ round.closes \in Nat /\ seen \subseteq Messages
        /\ round.votes \in [0..3 -> Votes] /\ round.conflict \in BOOLEAN /\ round.answer \in BOOLEAN
    BY SkipAssumption DEF SkipInv, SkipTypeOK, Words
  <1>2. \A m \in seen : m.approve \in BOOLEAN /\ m.sender \in 0..3
    BY <1>1 DEF Messages
  <1>3. \A s : VotesOf(s) = {q \in votes : q.sender = s}
    BY DEF VotesOf
  <1>4. ASSUME NEW s \in 0..3 PROVE BothWays(s) <=> ways(s) = BOOLEAN
    <2>1. BothWays(s) => TRUE \in ways(s) /\ FALSE \in ways(s)
      BY <1>2, <1>3 DEF BothWays, VotesOf
    <2>2. ways(s) \subseteq BOOLEAN
      BY <1>2
    <2>3. ways(s) = BOOLEAN => BothWays(s)
      <3>1. SUFFICES ASSUME ways(s) = BOOLEAN PROVE BothWays(s)
        OBVIOUS
      <3>2. TRUE \in ways(s) /\ FALSE \in ways(s)
        BY <3>1
      <3>3. (\E m \in VotesOf(s) : m.approve = TRUE) /\ \E m \in VotesOf(s) : m.approve = FALSE
        BY <3>2, <1>3
      <3> QED
        BY <3>3 DEF BothWays
    <2> QED
      BY <2>1, <2>2, <2>3
  <1>5. round.answer <=> answered
    BY DEF SkipInv, CountInv
  <1>6. BothWays(0) \/ BothWays(1) \/ BothWays(2) \/ BothWays(3) <=> twice
    BY <1>4
  <1>7. ASSUME NEW s \in 0..3, BothWays(s) PROVE round.conflict
    <2>1. PICK m \in VotesOf(s), n \in VotesOf(s) : m.approve /\ ~n.approve
      BY <1>7 DEF BothWays
    <2>2. Way(m) # Way(n)
      BY <2>1 DEF Way
    <2> QED
      BY <2>1, <2>2 DEF SkipInv, CountInv
  <1>8. round.conflict <=> twice
    BY <1>4, <1>7 DEF SkipInv, CountInv
  <1>9. \A m \in seen : m.kind = "vote" => m \in VotesOf(m.sender)
    BY DEF VotesOf
  <1>10. cast # {} <=> votes # {}
    <2>1. cast # {} => votes # {}
      BY DEF SkipInv, CountInv, VotesOf
    <2>2. ASSUME NEW m \in votes PROVE m.sender \in cast
      BY <1>2, <1>9 DEF SkipInv, CountInv
    <2> QED
      BY <2>1, <2>2
  <1>11. ~round.conflict => ((\E s \in cast : round.votes[s] = "no") <=> \E m \in votes : ~m.approve)
    <2>1. ASSUME NEW s \in cast, round.votes[s] = "no" PROVE \E m \in votes : ~m.approve
      <3>1. PICK m \in VotesOf(s) : round.votes[s] = Way(m)
        BY <2>1 DEF SkipInv, CountInv
      <3> QED
        BY <2>1, <3>1 DEF Way, VotesOf
    <2>2. ASSUME NEW m \in votes, ~m.approve, ~round.conflict
          PROVE  \E s \in cast : round.votes[s] = "no"
      <3>1. m \in VotesOf(m.sender) /\ m.sender \in 0..3
        BY <1>2, <1>9
      <3>2. round.votes[m.sender] # "none" /\ round.votes[m.sender] = Way(m)
        BY <2>2, <3>1 DEF SkipInv, CountInv
      <3> QED
        BY <2>2, <3>1, <3>2 DEF Way
    <2> QED
      BY <2>1, <2>2
  <1>12. \A m \in seen : m.sender # Absent \/ m.kind = "answer"
    BY DEF SkipInv, HeardInv
  <1>13. Decision(round) = IF round.conflict THEN "conflicting signed votes"
                           ELSE IF round.answer THEN "accused answered"
                           ELSE IF now < round.closes THEN "waiting"
                           ELSE IF cast = {} THEN "no affirmative voters"
                           ELSE IF \E s \in cast : round.votes[s] = "no" THEN "a responder voted no"
                           ELSE "responders agreed to skip"
    BY DEF Decision
  <1>14. twice => ~agreed
    <2>1. ASSUME NEW s \in 0..3, BothWays(s) PROVE \E m \in votes : ~m.approve
      BY <2>1 DEF BothWays, VotesOf
    <2> QED
      BY <1>4, <2>1
  <1>15. agreed <=> ~twice /\ ~answered /\ ~(now < round.closes) /\ votes # {}
                    /\ ~(\E m \in votes : ~m.approve)
    BY <1>1, <1>14
  <1> HIDE DEF votes, twice, answered, cast, agreed, ways
  <1>16. (Decision(round) = "responders agreed to skip") <=> agreed
    BY <1>5, <1>8, <1>10, <1>11, <1>13, <1>15
  <1>17. /\ (Decision(round) = "conflicting signed votes") <=> twice
         /\ (Decision(round) = "accused answered") <=> answered /\ ~twice
    BY <1>5, <1>8, <1>13
  <1> QED
    BY <1>12, <1>16, <1>17 DEF ViewDecides, votes, twice, answered, ways, agreed

(* Observers with the same messages decide alike, whatever the roster, the  *)
(* window and the order in which the messages came; a player is skipped    *)
(* only when all who voted agreed, someone did and the accused was silent  *)
(* (protocolcheck/skip.go).                                                *)
THEOREM RoundsDecideAlike == SkipSpec => []ViewDecides
  BY HeardDecides, SkipInvariant, PTL

-------------------------------------------------------------------------------
(* TakeGame: the output and what the sound player could have put on it     *)

Disputed == [at : {"game"}, pile : 1..3, seat : Players, turn : 1..LastTurn]
Payouts  == [at : {"paid"}, pile : {0}, seat : 0..2, turn : {0}]

CoinType ==
  [place : {Checkpoint} \cup Disputed \cup Payouts, cur : 1..5, amount : Int, age : 0..Delay,
   skipped : SUBSET Players]

(* The scripts pass on what they were built to be funded with. *)
AmountInv ==
  /\ coin \in CoinType
  /\ coin.place.at = "checkpoint" => coin.amount = 1080000 - Fee * coin.cur
  /\ coin.place.at = "game" => coin.amount = Funding(coin.place)
  /\ coin.place.at = "paid" => coin.amount \in Nat /\ coin.amount <= 1060000

(* Nothing newer was in the sound player's hands when the exit ripened. *)
LatestInv ==
  /\ held \in [Players -> SUBSET Snapshots] /\ late \subseteq held[Sound]
  /\ coin.place.at # "checkpoint" \/ coin.age = Delay => \A s \in held[Sound] \ late : s <= coin.cur

(* The sound player moves before its turn may be skipped. *)
SkipsInv ==
  /\ Sound \notin coin.skipped
  /\ coin.place.at = "game" /\ coin.age = Delay => coin.place.seat # Sound

TakeInv == AmountInv /\ LatestInv /\ SkipsInv

LEMMA TakeTyped == TakeInv => TakeTypeOK /\ ResumesTheLatest
  <1> SUFFICES ASSUME TakeInv PROVE TakeTypeOK /\ ResumesTheLatest
    OBVIOUS
  <1>1. /\ coin \in CoinType /\ coin.cur \in 1..5 /\ coin.age \in 0..Delay /\ coin.amount \in Int
        /\ coin.place \in {Checkpoint} \cup Disputed \cup Payouts
    BY SMT DEF TakeInv, AmountInv, CoinType
  <1>2. coin.place.at \in {"checkpoint", "game", "paid"}
    BY SMT, <1>1 DEF Checkpoint, Disputed, Payouts
  <1>3. coin.place.at = "game" => coin.place.turn \in 1..8
    BY SMT, <1>1 DEF Checkpoint, Disputed, Payouts, LastTurn
  <1>4. coin.amount \in Nat /\ coin.amount <= 1060000
    BY SMT, <1>1, <1>2, <1>3 DEF TakeInv, AmountInv, Funding, Fee
  <1> QED
    BY SMT, <1>1, <1>2, <1>4 DEF TakeInv, AmountInv, LatestInv, SkipsInv, TakeTypeOK, ResumesTheLatest

LEMMA TakeStart == TakeInit => TakeInv
  <1> SUFFICES ASSUME TakeInit PROVE TakeInv
    OBVIOUS
  <1>1. /\ coin.place = Checkpoint /\ coin.cur = 1 /\ coin.amount = 1060000 /\ coin.age = 0
        /\ coin.skipped = {} /\ coin \in CoinType /\ Checkpoint.at = "checkpoint"
    BY SMT DEF TakeInit, Output, CoinType, Checkpoint, Delay
  <1>2. AmountInv
    BY SMT, <1>1 DEF AmountInv, Fee
  <1>3. LatestInv
    BY SMT, <1>1, TakeAssumption DEF TakeInit, LatestInv, Delay, Snapshots
  <1> QED
    BY SMT, <1>1, <1>2, <1>3 DEF TakeInv, SkipsInv

(* What the output of a spend holds. *)
LEMMA SpendGives ==
  ASSUME NEW place \in {Checkpoint} \cup Disputed \cup Payouts, NEW cur \in 1..5, NEW amount \in Int,
         NEW skipped \in SUBSET Players, Spend(Output(place, cur, amount, skipped))
  PROVE  /\ coin'.place = place /\ coin'.cur = cur /\ coin'.amount = amount /\ coin'.age = 0
         /\ coin'.skipped = skipped /\ coin' \in CoinType /\ amount <= coin.amount
BY DEF Spend, Output, CoinType, Delay

LEMMA CertifyKeeps ==
  ASSUME TakeInv, NEW p \in Players, NEW s \in Snapshots, Certify(p, s)
  PROVE  TakeInv'
  <1>1. /\ coin' = coin /\ coin.place.at = "checkpoint"
        /\ held' = [held EXCEPT ![p] = @ \cup {s}] /\ held \in [Players -> SUBSET Snapshots]
        /\ late' = IF p = Sound /\ coin.age = Delay THEN late \cup {s} ELSE late
    BY SMT DEF Certify, TakeInv, LatestInv
  <1>2. held'[Sound] = IF p = Sound THEN held[Sound] \cup {s} ELSE held[Sound]
    BY SMT, <1>1, TakeAssumption
  <1>3. LatestInv'
    BY SMT, <1>1, <1>2 DEF TakeInv, LatestInv
  <1> QED
    BY SMT, <1>1, <1>3 DEF TakeInv, AmountInv, SkipsInv, Funding

LEMMA ReplaceKeeps ==
  ASSUME TakeInv, NEW p \in Players, NEW s \in Snapshots, Replace(p, s)
  PROVE  TakeInv'
  <1>1. s \in 1..5 /\ 1080000 - Fee * s \in Int /\ Checkpoint.at = "checkpoint"
    BY SMT DEF Snapshots, Fee, Checkpoint
  <1>2. /\ coin'.place = Checkpoint /\ coin'.cur = s /\ coin'.amount = 1080000 - Fee * s
        /\ coin'.age = 0 /\ coin'.skipped = {} /\ coin' \in CoinType
    <2>1. Spend(Output(Checkpoint, s, 1080000 - Fee * s, {}))
      BY DEF Replace
    <2>2. Checkpoint \in {Checkpoint} \cup Disputed \cup Payouts /\ {} \in SUBSET Players
      OBVIOUS
    <2> QED
      BY ONLY <1>1, <2>1, <2>2, SpendGives
  <1>3. AmountInv' /\ SkipsInv'
    BY SMT, <1>1, <1>2 DEF AmountInv, SkipsInv
  <1>4. /\ held' = [q \in Players |-> held[q] \cup {s}] /\ late' = late
        /\ held \in [Players -> SUBSET Snapshots] /\ late \subseteq held[Sound]
    BY SMT DEF Replace, TakeInv, LatestInv
  <1>5. LatestInv'
    BY SMT, <1>1, <1>2, <1>4, TakeAssumption DEF LatestInv, Delay
  <1> QED
    BY SMT, <1>3, <1>5 DEF TakeInv

LEMMA ExitKeeps ==
  ASSUME TakeInv, Exit
  PROVE  TakeInv'
  <1>1. /\ coin \in CoinType /\ coin.cur \in 2..5 /\ coin.place.at = "checkpoint" /\ coin.age = Delay
        /\ UNCHANGED <<held, late>>
    BY SMT DEF Exit, TakeInv, AmountInv, CoinType
  <1> DEFINE d == dictionary[coin.cur]
             a == 1080000 - Fee * (coin.cur + 1)
  <1>2. \/ coin.cur = 2 /\ d = Game(3, 1, 1)
        \/ coin.cur = 3 /\ d = Game(2, 2, 2)
        \/ coin.cur = 4 /\ d = Game(1, 1, 3)
        \/ coin.cur = 5 /\ d = Paid(1)
    BY SMT, <1>1 DEF dictionary, Snapshots
  <1>3. d \in Disputed \/ d \in Payouts
    BY SMT, <1>2 DEF Game, Disputed, Paid, Payouts, Players, LastTurn
  <1>4. d.at = "game" => a = Funding(d)
    BY SMT, <1>2 DEF Funding, Fee, Game, Paid
  <1>5. a \in Nat /\ a <= 1060000 /\ d.at \in {"game", "paid"}
    BY SMT, <1>1, <1>3 DEF Fee, Disputed, Payouts
  <1> HIDE DEF d, a
  <1>6. Spend(Output(d, coin.cur, a, {}))
    BY SMT DEF Exit, d, a
  <1>7. /\ coin'.place = d /\ coin'.cur = coin.cur /\ coin'.amount = a
        /\ coin'.age = 0 /\ coin'.skipped = {} /\ coin' \in CoinType
    BY SMT, <1>1, <1>3, <1>5, <1>6, SpendGives
  <1>8. AmountInv' /\ SkipsInv'
    BY SMT, <1>4, <1>5, <1>7 DEF AmountInv, SkipsInv, Delay, Funding
  <1>9. LatestInv'
    BY SMT, <1>1, <1>7 DEF TakeInv, LatestInv
  <1> QED
    BY SMT, <1>8, <1>9 DEF TakeInv

(* A move of the game, or a skip of one: the successor state of the script *)
(* is funded with what is left.                                            *)
LEMMA PlayKeeps ==
  ASSUME TakeInv, coin.place.at = "game", NEW a \in 0..2, a <= coin.place.pile,
         NEW skipped \in SUBSET Players, Sound \notin skipped, Play(a, skipped)
  PROVE  TakeInv'
  <1> DEFINE g == coin.place
             o == Successor(g, a)
             m == 1020000 - Fee * g.turn
  <1>1. /\ coin \in CoinType /\ coin.cur \in 1..5 /\ UNCHANGED <<held, late>>
        /\ g \in {Checkpoint} \cup Disputed \cup Payouts
    BY SMT DEF Play, TakeInv, AmountInv, CoinType
  <1>2. g \in Disputed
    BY SMT, <1>1 DEF Checkpoint, Payouts
  <1>3. g.pile \in 1..3 /\ g.seat \in 1..2 /\ g.turn \in 1..8
    BY SMT, <1>2 DEF Disputed, Players, LastTurn
  <1>4. \/ o = Paid(g.seat)
        \/ o = Paid(0)
        \/ g.turn < 8 /\ g.pile - a \in 1..3 /\ o = Game(g.pile - a, 3 - g.seat, g.turn + 1)
    BY SMT, <1>3 DEF Successor, LastTurn
  <1>5. o \in Disputed \/ o \in Payouts
    BY SMT, <1>3, <1>4 DEF Game, Disputed, Paid, Payouts, Players, LastTurn
  <1>6. o.at = "game" => m = Funding(o)
    BY SMT, <1>3, <1>4 DEF Funding, Fee, Game, Paid
  <1>7. m \in Nat /\ m <= 1060000 /\ o.at \in {"game", "paid"}
    BY SMT, <1>3, <1>5 DEF Fee, Disputed, Payouts
  <1>8. Spend(Output(o, coin.cur, m, skipped))
    BY SMT DEF Play
  <1> HIDE DEF o, m
  <1>9. /\ coin'.place = o /\ coin'.cur = coin.cur /\ coin'.amount = m
        /\ coin'.age = 0 /\ coin'.skipped = skipped /\ coin' \in CoinType
    BY SMT, <1>1, <1>5, <1>7, <1>8, SpendGives
  <1>10. AmountInv' /\ SkipsInv'
    BY SMT, <1>6, <1>7, <1>9 DEF AmountInv, SkipsInv, Delay, Funding
  <1>11. LatestInv'
    BY SMT, <1>1, <1>9 DEF TakeInv, LatestInv
  <1> QED
    BY SMT, <1>10, <1>11 DEF TakeInv

LEMMA BlockKeeps ==
  ASSUME TakeInv, Block
  PROVE  TakeInv'
  <1>1. /\ coin \in CoinType /\ coin.age \in 0..1 /\ coin' = [coin EXCEPT !.age = coin.age + 1]
        /\ UNCHANGED <<held, late>> /\ coin.cur \in 1..5
    BY SMT DEF Block, TakeInv, AmountInv, CoinType, Delay
  <1>2. /\ coin'.place = coin.place /\ coin'.cur = coin.cur /\ coin'.amount = coin.amount
        /\ coin'.skipped = coin.skipped /\ coin'.age = coin.age + 1 /\ coin' \in CoinType
    BY SMT, <1>1 DEF CoinType, Delay
  <1>3. coin'.age = Delay => IF coin.place.at = "game" THEN coin.place.seat # Sound ELSE Newer(Sound) = {}
    BY SMT, <1>1, <1>2 DEF Block, Delay
  <1>4. \A s \in held[Sound] : s \in Snapshots
    BY SMT, TakeAssumption DEF TakeInv, LatestInv
  <1>5. LatestInv'
    BY SMT, <1>1, <1>2, <1>3, <1>4 DEF TakeInv, LatestInv, Newer, Snapshots, Block
  <1>6. AmountInv' /\ SkipsInv'
    BY SMT, <1>2, <1>3 DEF TakeInv, AmountInv, SkipsInv, Funding
  <1> QED
    BY SMT, <1>5, <1>6 DEF TakeInv

LEMMA TakeStep == TakeInv /\ [TakeNext]_takeVars => TakeInv'
  <1> SUFFICES ASSUME TakeInv, [TakeNext]_takeVars PROVE TakeInv'
    OBVIOUS
  <1>1. /\ coin.skipped \in SUBSET Players
        /\ coin.place.at = "game" => coin.place.seat \in Players /\ coin.place.pile \in 1..3
    BY SMT DEF TakeInv, AmountInv, CoinType, Disputed, Checkpoint, Payouts
  <1>2. ASSUME NEW a \in 1..2, Take(a) PROVE TakeInv'
    BY SMT, <1>1, <1>2, PlayKeeps DEF Take, TakeInv, SkipsInv
  <1>3. CASE Skip
    <2>1. coin.place.seat # Sound /\ coin.skipped \cup {coin.place.seat} \in SUBSET Players
      BY SMT, <1>1, <1>3 DEF Skip, TakeInv, SkipsInv
    <2> QED
      BY SMT, <1>1, <1>3, <2>1, PlayKeeps DEF Skip, TakeInv, SkipsInv
  <1>4. CASE UNCHANGED takeVars
    BY SMT, <1>4 DEF takeVars, TakeInv, AmountInv, LatestInv, SkipsInv, Funding
  <1> QED
    BY SMT, <1>2, <1>3, <1>4, CertifyKeeps, ReplaceKeeps, ExitKeeps, BlockKeeps DEF TakeNext

THEOREM TakeInvariant == TakeSpec => []TakeInv
  BY TakeStart, TakeStep, PTL DEF TakeSpec

(* Whichever player is the sound one, the dispute goes on from the newest  *)
(* certificate it could show in time, with the amount its script was built *)
(* for, and that player's turn is never skipped (research/settlement).     *)
THEOREM DisputesResume == TakeSpec => []ResumesTheLatest
  BY TakeTyped, TakeInvariant, PTL

-------------------------------------------------------------------------------
(* TableLobby: what the table shows is the view's, and what the view says  *)
(* rests on the step before                                                *)

(* stopBridge on a table. *)
CutOff(b) == [b EXCEPT !.connected = FALSE, !.chain = FALSE, !.stale = TRUE]

(* refresh lets no step stand on one that failed. *)
StepsInv ==
  /\ view.admission => view.drawn
  /\ view.drawn => view.joins = NSeats
  /\ view.world => view.admission
  /\ view.play \in {"playing", "proposing", "mempool"} => view.world
  /\ ~view.drawn => \A i \in Places : view.stake[i] = "none"

LobbyInv ==
  /\ LobbyTypeOK /\ StepsInv
  /\ t = Derived(view) \/ t = CutOff(Derived(view))

(* The view's fields, typed. *)
LEMMA FactsOf ==
  ASSUME NEW u \in Facts
  PROVE  /\ u.connected \in BOOLEAN /\ u.height \in BOOLEAN /\ u.closed \in BOOLEAN
         /\ u.joins \in 0..NSeats /\ u.drawn \in BOOLEAN /\ u.admission \in BOOLEAN
         /\ u.world \in BOOLEAN /\ u.payouts \in BOOLEAN
         /\ u.play \in {"none", "playing", "proposing", "mempool", "confirmed"}
         /\ u.stake \in [Places -> Checks] /\ u.bond \in Checks
BY DEF Facts

LEMMA LobbyStart == LobbyInit => LobbyInv
  <1> SUFFICES ASSUME LobbyInit PROVE LobbyInv
    OBVIOUS
  <1>1. view = Empty /\ t = Derived(view)
    BY DEF LobbyInit
  <1>2. LobbyTypeOK
    BY <1>1, LobbyAssumption DEF LobbyTypeOK, Empty, Facts, Checks
  <1>3. StepsInv
    BY <1>1 DEF StepsInv, Empty
  <1> QED
    BY <1>1, <1>2, <1>3 DEF LobbyInv

LEMMA ChangesTyped ==
  ASSUME LobbyTypeOK, NEW u \in Changes
  PROVE  u \in Facts
  <1>1. view \in Facts
    BY DEF LobbyTypeOK
  <1>2. CASE \E i \in Places, k \in Checks : u = [view EXCEPT !.stake[i] = k]
    BY <1>1, <1>2 DEF Facts
  <1>3. CASE \E k \in Checks : u = [view EXCEPT !.bond = k]
    BY <1>1, <1>3 DEF Facts
  <1>4. CASE \E n \in 0..NSeats : u = [view EXCEPT !.joins = n]
    BY <1>1, <1>4 DEF Facts
  <1>5. CASE \E p \in {"none", "playing", "proposing", "mempool", "confirmed"} :
               u = [view EXCEPT !.play = p]
    BY <1>1, <1>5 DEF Facts
  <1>6. CASE u \in {[view EXCEPT !.connected = ~@], [view EXCEPT !.height = ~@], [view EXCEPT !.closed = ~@],
                    [view EXCEPT !.drawn = ~@], [view EXCEPT !.admission = ~@], [view EXCEPT !.world = ~@],
                    [view EXCEPT !.payouts = ~@]}
    BY <1>1, <1>6 DEF Facts
  <1> QED
    BY <1>2, <1>3, <1>4, <1>5, <1>6 DEF Changes

(* A refreshed view is typed and its steps rest on each other. *)
LEMMA RefreshRests ==
  ASSUME NEW u \in Facts, view' = Refreshed(u)
  PROVE  LobbyTypeOK' /\ StepsInv'
  <1> DEFINE drawn == u.drawn /\ u.joins = NSeats
             admission == u.admission /\ drawn /\ ~u.closed
             world == u.world /\ admission
             staked == u.payouts /\ \A i \in Places : u.stake[i] = "verified"
             stake == IF drawn THEN u.stake ELSE [i \in Places |-> "none"]
             play == IF u.play = "confirmed" THEN IF drawn THEN u.play ELSE "none"
                     ELSE IF ~world \/ (u.play = "playing" /\ ~staked) THEN "none" ELSE u.play
  <1>1. view' = [u EXCEPT !.drawn = drawn, !.admission = admission, !.world = world,
                          !.stake = stake, !.play = play]
    BY DEF Refreshed, Facts
  <1>2. /\ drawn \in BOOLEAN /\ admission \in BOOLEAN /\ world \in BOOLEAN
        /\ play \in {"none", "playing", "proposing", "mempool", "confirmed"}
        /\ stake \in [Places -> Checks]
    BY FactsOf DEF Checks
  <1>3. /\ admission => drawn
        /\ drawn => u.joins = NSeats
        /\ world => admission
        /\ play \in {"playing", "proposing", "mempool"} => world
        /\ ~drawn => \A i \in Places : stake[i] = "none"
    OBVIOUS
  <1> HIDE DEF drawn, admission, world, staked, stake, play
  <1>4. view' \in Facts
    BY <1>1, <1>2 DEF Facts
  <1>5. /\ view'.drawn = drawn /\ view'.admission = admission /\ view'.world = world
        /\ view'.stake = stake /\ view'.play = play /\ view'.joins = u.joins
    BY <1>1 DEF Facts
  <1> QED
    BY <1>3, <1>4, <1>5 DEF LobbyTypeOK, StepsInv

LEMMA LobbyStep == LobbyInv /\ [LobbyNext]_lobbyVars => LobbyInv'
  <1> SUFFICES ASSUME LobbyInv, [LobbyNext]_lobbyVars PROVE LobbyInv'
    OBVIOUS
  <1>1. CASE PollSession
    <2>1. PICK u \in Changes : view' = Refreshed(u) /\ t' = Derived(view')
      BY <1>1 DEF PollSession
    <2>2. u \in Facts
      BY ChangesTyped DEF LobbyInv
    <2> QED
      BY <2>1, <2>2, RefreshRests DEF LobbyInv
  <1>2. CASE StopBridge
    <2>1. view' = view /\ t' = CutOff(t)
      BY <1>2 DEF StopBridge, CutOff
    <2>2. CutOff(CutOff(Derived(view))) = CutOff(Derived(view))
      BY DEF CutOff, Derived
    <2> QED
      BY <2>1, <2>2 DEF LobbyInv, LobbyTypeOK, StepsInv
  <1>3. CASE UNCHANGED lobbyVars
    BY <1>3 DEF lobbyVars, LobbyInv, LobbyTypeOK, StepsInv
  <1> QED
    BY <1>1, <1>2, <1>3 DEF LobbyNext

THEOREM LobbyInvariant == LobbySpec => []LobbyInv
  BY LobbyStart, LobbyStep, PTL DEF LobbySpec

(* What a frame shows of the view, with its bridge or without. *)
LEMMA TableShows ==
  ASSUME LobbyInv
  PROVE  /\ t.seats = [i \in Places |-> SeatOf(view, i)] /\ t.closed = view.closed
         /\ t.roster = (view.joins = NSeats) /\ t.drawn = view.drawn
         /\ t.world = (view.world \/ view.play # "none") /\ t.payouts = view.payouts
         /\ t.finished = Finished(view) /\ t.payout = view.play /\ t.stale \in BOOLEAN
         /\ t.stale = FALSE => t.connected = view.connected
  <1> DEFINE b == Derived(view)
  <1>1. /\ b.seats = [i \in Places |-> SeatOf(view, i)] /\ b.closed = view.closed
        /\ b.roster = (view.joins = NSeats) /\ b.drawn = view.drawn
        /\ b.world = (view.world \/ view.play # "none") /\ b.payouts = view.payouts
        /\ b.finished = Finished(view) /\ b.payout = view.play
        /\ b.stale = FALSE /\ b.connected = view.connected
    BY DEF Derived
  <1>2. /\ CutOff(b).seats = b.seats /\ CutOff(b).closed = b.closed /\ CutOff(b).roster = b.roster
        /\ CutOff(b).drawn = b.drawn /\ CutOff(b).world = b.world /\ CutOff(b).payouts = b.payouts
        /\ CutOff(b).finished = b.finished /\ CutOff(b).payout = b.payout /\ CutOff(b).stale = TRUE
    BY DEF CutOff, Derived
  <1> QED
    BY <1>1, <1>2 DEF LobbyInv

(* A deposit is complete only when this program verified it. *)
LEMMA CompleteIsVerified ==
  ASSUME NEW u \in Facts, NEW check \in Checks
  PROVE  /\ Complete(PaymentOf(u, check, "stake")) <=> check = "verified"
         /\ Complete(PaymentOf(u, check, "bond")) => check = "verified"
BY DEF Complete, PaymentOf, Unknown, Checks

LEMMA SeatShows ==
  ASSUME LobbyInv, NEW i \in Places
  PROVE  /\ t.seats[i].joined = (view.joins >= i) /\ t.seats[i].committed = view.drawn
         /\ Complete(t.seats[i].stake) <=> view.stake[i] = "verified"
         /\ Complete(t.seats[i].admission) =>
              IF i = Ours /\ view.bond # "none" THEN view.bond = "verified"
              ELSE view.drawn /\ view.admission
  <1>1. /\ t.seats[i] = SeatOf(view, i) /\ view \in Facts
        /\ view.stake[i] \in Checks /\ view.bond \in Checks
    BY TableShows, FactsOf DEF LobbyInv, LobbyTypeOK
  <1>2. /\ t.seats[i].joined = (view.joins >= i) /\ t.seats[i].committed = view.drawn
        /\ t.seats[i].stake = PaymentOf(view, view.stake[i], "stake")
        /\ t.seats[i].admission =
             IF i = Ours /\ view.bond # "none" THEN PaymentOf(view, view.bond, "bond")
             ELSE IF view.drawn /\ view.admission
               THEN [phase |-> "verified", checked |-> TRUE, enough |-> TRUE]
             ELSE Unknown
    BY <1>1 DEF SeatOf
  <1>3. ~Complete(Unknown)
    BY DEF Complete, Unknown
  <1> QED
    BY <1>1, <1>2, <1>3, CompleteIsVerified

(* A later step is shown only when the ones before it are done. *)
LEMMA StageRests ==
  ASSUME LobbyInv
  PROVE  /\ Stage(t) \in 1..8 /\ (Stage(t) = 8 <=> t.finished)
         /\ Stage(t) \in 2..7 => /\ ~t.stale /\ t.connected
                                 /\ \A i \in Places : t.seats[i].joined /\ Complete(t.seats[i].admission)
         /\ Stage(t) \in 3..7 => \A i \in Places : t.seats[i].committed
         /\ Stage(t) \in 5..7 => t.world
         /\ Stage(t) \in 6..7 => \A i \in Places : Complete(t.seats[i].stake)
         /\ Stage(t) = 7 => t.payouts
BY DEF Stage

LEMMA LobbyUnlocks == LobbyInv => EvidenceUnlocks
  <1> SUFFICES ASSUME LobbyInv PROVE EvidenceUnlocks
    OBVIOUS
  <1>1. /\ view \in Facts /\ view.play \in {"none", "playing", "proposing", "mempool", "confirmed"}
        /\ view.payouts \in BOOLEAN /\ view.connected \in BOOLEAN
    BY FactsOf DEF LobbyInv, LobbyTypeOK
  <1>2. 1 \in Places /\ 2 \in Places /\ 2 # Ours /\ Ours = 1
    BY LobbyAssumption DEF Places, Ours
  <1>3. t.finished <=> view.play \in {"proposing", "mempool", "confirmed"}
    BY TableShows DEF Finished
  <1>4. t.stale \in BOOLEAN
    BY TableShows
  <1>5. Stage(t) \in 2..7 => view.admission /\ view.connected /\ view.bond \in {"none", "verified"}
    BY <1>1, <1>2, <1>4, StageRests, SeatShows, TableShows
  <1>6. Stage(t) >= 5 /\ ~t.finished => view.world
    <2>1. Stage(t) >= 5 /\ ~t.finished => Stage(t) \in 5..7
      BY StageRests
    <2> QED
      BY <1>1, <1>3, <2>1, StageRests, TableShows DEF LobbyInv, StepsInv
  <1>7. Stage(t) \in 6..7 => Funded(t) = Places /\ \A i \in Places : view.stake[i] = "verified"
    BY StageRests, SeatShows DEF Funded
  <1>8. ASSUME NEW i \in Places
        PROVE  SeatStatus(t, i) = "funds verified" <=> ~t.finished /\ i \in Funded(t)
    <2>1. BondCardLabel(t.seats[i].admission) # "funds verified"
      BY DEF BondCardLabel
    <2>2. StakeCardLabel(t.seats[i].stake) # "funds verified"
      BY DEF StakeCardLabel
    <2> QED
      BY <2>1, <2>2 DEF SeatStatus, Funded
  <1>9. ASSUME NEW i \in Funded(t)
        PROVE  view.stake[i] = "verified" /\ Label(t.seats[i].stake) = "verified"
    BY SeatShows DEF Funded, Label
  <1>10. Guidance(t) = "play" => view.payouts /\ Funded(t) = Places
    <2>1. Guidance(t) = "play" => ~t.finished
      BY <1>1, <1>3, TableShows DEF Guidance
    <2>2. Guidance(t) = "play" => Stage(t) = 7
      BY <2>1, StageRests DEF Guidance
    <2> QED
      BY <1>7, <2>2, StageRests, TableShows
  <1>11. Closable(t) => view.closed \/ view.play = "confirmed"
    BY TableShows DEF Closable
  <1> QED
    BY <1>5, <1>6, <1>7, <1>8, <1>9, <1>10, <1>11 DEF EvidenceUnlocks

(* "Unknown, stale or invalid evidence never unlocks progress" (model.go), *)
(* for any number of players and whatever the checks said before.          *)
THEOREM EvidenceAlwaysUnlocks == LobbySpec => []EvidenceUnlocks
  BY LobbyUnlocks, LobbyInvariant, PTL

-------------------------------------------------------------------------------
(* Frame: the countdown and the charge through the screens                 *)

(* The window within a frame, where a shot may go off and a step be made.  *)
Windows ==
  [startup : {"cover", "ready", "over"}, settings : BOOLEAN, table : Tables \cup {None},
   open : BOOLEAN, help : BOOLEAN, arena : BOOLEAN, paused : BOOLEAN,
   controls : BOOLEAN, binding : BOOLEAN, menu : BOOLEAN, charging : BOOLEAN,
   power : 0..FullPower, released : BOOLEAN, match : Tables \cup {None},
   playing : BOOLEAN, ended : BOOLEAN, reviewing : BOOLEAN, clicked : BOOLEAN, quit : BOOLEAN,
   shot : {None, "automatic", "released"}, step : BOOLEAN]

(* A frame without a step opened a screen by a click, and the next frame,  *)
(* in which no button can be pressed again, is of that screen.             *)
IdleInv ==
  /\ v.own => v.head
  /\ v.head => v.table # None
  /\ past.idle \in {0, 1}
  /\ past.idle = 1 => w.startup = "over" /\ w.clicked /\ (w.settings \/ (~w.arena /\ w.open))

(* A charge that pollSession has not taken out of the arena is in the       *)
(* arena, of the table in the foreground, in the match in which it began.  *)
ChargeInv ==
  /\ past.held => ~w.released
  /\ w.charging => /\ ~past.held
                   /\ \/ past.crossed
                      \/ w.arena /\ ~w.settings /\ ~w.ended /\ w.table = w.match /\ ~past.stale

FrameInv == FrameTypeOK /\ IdleInv /\ ChargeInv

LEMMA WindowTyped ==
  ASSUME FrameTypeOK
  PROVE  w \in Windows /\ w.shot = None /\ w.step = FALSE
BY DEF FrameTypeOK, Windows, None

LEMMA FrameStart == FrameInit => FrameInv
  <1> SUFFICES ASSUME FrameInit PROVE FrameInv
    OBVIOUS
  <1>1. FrameTypeOK
    BY FrameAssumption DEF FrameInit, FrameTypeOK, None
  <1>2. IdleInv /\ ChargeInv
    BY DEF FrameInit, IdleInv, ChargeInv
  <1> QED
    BY <1>1, <1>2 DEF FrameInv

(* g is f but for its screens: nothing of the turn changed, and no charge   *)
(* began.                                                                  *)
Shown(f, g) ==
  /\ g \in Windows /\ g.startup = f.startup /\ g.table = f.table /\ g.match = f.match
  /\ g.released = f.released /\ g.ended = f.ended /\ g.playing = f.playing
  /\ g.shot = f.shot /\ g.step = f.step
  /\ g.charging => f.charging

(* The same screen with another menu. *)
Beside(f, g) == Shown(f, g) /\ g.settings = f.settings /\ g.arena = f.arena /\ g.open = f.open

LEMMA ScreenFields ==
  ASSUME NEW f \in Windows
  PROVE  /\ Beside(f, f)
         /\ \A b \in BOOLEAN :
              /\ Beside(f, [f EXCEPT !.help = b]) /\ Beside(f, [f EXCEPT !.paused = b])
              /\ Beside(f, [f EXCEPT !.binding = b]) /\ Beside(f, [f EXCEPT !.menu = b])
              /\ Beside(f, [f EXCEPT !.quit = b])
              /\ Beside(f, [f EXCEPT !.controls = b, !.menu = FALSE])
              /\ Shown(f, [f EXCEPT !.settings = b]) /\ Shown(f, [f EXCEPT !.open = b])
              /\ Shown(f, [f EXCEPT !.settings = b, !.binding = FALSE])
              /\ Shown(f, [f EXCEPT !.arena = b, !.paused = FALSE])
  <1>1. Beside(f, f)
    BY DEF Beside, Shown
  <1>2. ASSUME NEW b \in BOOLEAN PROVE Beside(f, [f EXCEPT !.help = b])
    BY DEF Beside, Shown, Windows
  <1>3. ASSUME NEW b \in BOOLEAN PROVE Beside(f, [f EXCEPT !.paused = b])
    BY DEF Beside, Shown, Windows
  <1>4. ASSUME NEW b \in BOOLEAN PROVE Beside(f, [f EXCEPT !.binding = b])
    BY DEF Beside, Shown, Windows
  <1>5. ASSUME NEW b \in BOOLEAN PROVE Beside(f, [f EXCEPT !.menu = b])
    BY DEF Beside, Shown, Windows
  <1>6. ASSUME NEW b \in BOOLEAN PROVE Beside(f, [f EXCEPT !.quit = b])
    BY DEF Beside, Shown, Windows
  <1>7. ASSUME NEW b \in BOOLEAN PROVE Beside(f, [f EXCEPT !.controls = b, !.menu = FALSE])
    BY DEF Beside, Shown, Windows
  <1>8. ASSUME NEW b \in BOOLEAN PROVE Shown(f, [f EXCEPT !.settings = b])
    BY DEF Shown, Windows
  <1>9. ASSUME NEW b \in BOOLEAN PROVE Shown(f, [f EXCEPT !.open = b])
    BY DEF Shown, Windows
  <1>10. ASSUME NEW b \in BOOLEAN PROVE Shown(f, [f EXCEPT !.settings = b, !.binding = FALSE])
    BY DEF Shown, Windows
  <1>11. ASSUME NEW b \in BOOLEAN PROVE Shown(f, [f EXCEPT !.arena = b, !.paused = FALSE])
    BY DEF Shown, Windows
  <1> QED
    BY <1>1, <1>2, <1>3, <1>4, <1>5, <1>6, <1>7, <1>8, <1>9, <1>10, <1>11

(* What the screens' own fields hold after an update of another one. *)
LEMMA OtherFields ==
  ASSUME NEW f \in Windows, NEW b \in BOOLEAN
  PROVE  /\ LET g == [f EXCEPT !.settings = b] IN g.arena = f.arena /\ g.open = f.open
         /\ LET g == [f EXCEPT !.settings = b, !.binding = FALSE] IN g.arena = f.arena /\ g.open = f.open
         /\ LET g == [f EXCEPT !.open = b] IN g.settings = f.settings /\ g.arena = f.arena
         /\ LET g == [f EXCEPT !.arena = b, !.paused = FALSE] IN g.settings = f.settings /\ g.open = f.open
BY DEF Windows

LEMMA BooleanFields ==
  ASSUME NEW f \in Windows
  PROVE  /\ f.settings \in BOOLEAN /\ f.open \in BOOLEAN /\ f.help \in BOOLEAN /\ f.arena \in BOOLEAN
         /\ f.paused \in BOOLEAN /\ f.controls \in BOOLEAN /\ f.binding \in BOOLEAN
         /\ f.menu \in BOOLEAN /\ f.charging \in BOOLEAN /\ f.released \in BOOLEAN
         /\ f.ended \in BOOLEAN /\ f.playing \in BOOLEAN /\ f.step \in BOOLEAN
BY DEF Windows

LEMMA ShownTwice ==
  ASSUME NEW f \in Windows, NEW g \in Windows, NEW h
  PROVE  /\ Shown(f, g) /\ Shown(g, h) => Shown(f, h)
         /\ Beside(f, g) /\ Beside(g, h) => Beside(f, h)
BY DEF Shown, Beside

LEMMA CalmShows ==
  ASSUME NEW f \in Windows
  PROVE  Beside(f, Calm(f)) /\ Calm(f).charging = FALSE
  <1>1. 0 \in 0..FullPower
    BY FrameAssumption
  <1> QED
    BY <1>1 DEF Calm, Beside, Shown, Windows

LEMMA ControlsShows ==
  ASSUME NEW f \in Windows, NEW ks, NEW spot
  PROVE  Beside(f, Controls(f, ks, spot))
  <1>1. (ks = {}) \in BOOLEAN /\ (spot = "binding") \in BOOLEAN
    OBVIOUS
  <1> QED
    BY <1>1, ScreenFields DEF Controls

LEMMA SettingsShows ==
  ASSUME NEW f \in Windows, NEW ks, NEW spot
  PROVE  LET g == Settings(f, ks, spot)
         IN  Shown(f, g) /\ g.arena = f.arena /\ g.open = f.open
  <1> DEFINE Fits(g) == Shown(f, g) /\ g.arena = f.arena /\ g.open = f.open
  <1>1. /\ Beside(f, [f EXCEPT !.binding = FALSE]) /\ Beside(f, [f EXCEPT !.quit = TRUE])
        /\ Beside(f, Controls(f, ks, spot))
    BY ControlsShows, ScreenFields
  <1>2. Fits([f EXCEPT !.settings = FALSE]) /\ Fits([f EXCEPT !.settings = FALSE, !.binding = FALSE])
    BY ScreenFields, OtherFields
  <1>3. \A g : Beside(f, g) => Fits(g)
    BY DEF Beside
  <1> HIDE DEF Fits
  <1>4. Fits(Settings(f, ks, spot))
    BY <1>1, <1>2, <1>3 DEF Settings
  <1> QED
    BY <1>4 DEF Fits

LEMMA RoomShows ==
  ASSUME NEW f \in Windows, NEW ks, NEW spot
  PROVE  LET g == Room(f, ks, spot)
         IN  Shown(f, g) /\ g.settings = f.settings
  <1>1. ("escape" \notin ks /\ spot # "help") \in BOOLEAN /\ (spot = "help") \in BOOLEAN
    OBVIOUS
  <1> QED
    BY <1>1, ScreenFields, OtherFields DEF Room, Beside

LEMMA LobbyShows ==
  ASSUME NEW f \in Windows, NEW ks, NEW spot
  PROVE  LET g == Lobby(f, ks, spot)
         IN  Shown(f, g) /\ g.settings = f.settings
BY ScreenFields, OtherFields DEF Lobby, Beside

LEMMA PausedShows ==
  ASSUME NEW f \in Windows, NEW spot
  PROVE  LET g == Paused(f, spot)
         IN  Shown(f, g) /\ g.settings = f.settings /\ g.charging = FALSE
  <1> DEFINE g == IF spot = "resume" THEN [f EXCEPT !.paused = FALSE]
                  ELSE IF spot = "back" THEN [f EXCEPT !.arena = FALSE, !.paused = FALSE] ELSE f
  <1>1. Shown(f, g) /\ g.settings = f.settings
    BY ScreenFields, OtherFields DEF Beside
  <1>2. Paused(f, spot) = Calm(g)
    BY DEF Paused
  <1> HIDE DEF g
  <1> QED
    BY <1>1, <1>2, CalmShows DEF Beside, Shown

LEMMA MenusShows ==
  ASSUME NEW f \in Windows, NEW ks, NEW spot
  PROVE  Beside(f, Menus(f, ks, spot))
  <1> DEFINE a == IF "controls" \in ks /\ ~f.paused /\ ~f.binding
                    THEN Calm([f EXCEPT !.controls = ~f.controls, !.menu = FALSE]) ELSE f
             b == IF a.controls THEN Controls(a, ks, spot) ELSE a
             q == IF b.menu THEN [b EXCEPT !.menu = FALSE] ELSE [b EXCEPT !.paused = ~b.paused]
             c == IF "escape" \in ks /\ ~b.controls THEN Calm(q) ELSE b
             d == IF "pause" \in ks /\ ~c.controls THEN [c EXCEPT !.paused = ~c.paused] ELSE c
  <1>1. Menus(f, ks, spot) = d
    BY DEF Menus
  <1>2. \A g : Beside(f, g) => g \in Windows
    BY DEF Beside, Shown
  <1>3. Beside(f, a)
    <2> DEFINE e == [f EXCEPT !.controls = ~f.controls, !.menu = FALSE]
    <2>1. (~f.controls) \in BOOLEAN
      OBVIOUS
    <2>2. Beside(f, e)
      BY <2>1, ScreenFields
    <2> HIDE DEF e
    <2>3. Beside(f, Calm(e))
      BY <1>2, <2>2, CalmShows, ShownTwice
    <2> QED
      BY <2>3, ScreenFields DEF e
  <1> HIDE DEF a
  <1>4. Beside(f, b)
    BY <1>2, <1>3, ControlsShows, ShownTwice
  <1> HIDE DEF b
  <1>5. Beside(f, q)
    <2>1. Beside(b, [b EXCEPT !.menu = FALSE]) /\ Beside(b, [b EXCEPT !.paused = ~b.paused])
      BY <1>2, <1>4, ScreenFields
    <2> QED
      BY <1>2, <1>4, <2>1, ShownTwice
  <1> HIDE DEF q
  <1>6. Beside(f, c)
    BY <1>2, <1>4, <1>5, CalmShows, ShownTwice
  <1> HIDE DEF c
  <1>7. Beside(c, [c EXCEPT !.paused = ~c.paused])
    BY <1>2, <1>6, ScreenFields
  <1> QED
    BY <1>1, <1>2, <1>6, <1>7, ShownTwice

LEMMA ArenaShows ==
  ASSUME NEW f \in Windows, NEW ks, NEW spot
  PROVE  Beside(f, Arena(f, ks, spot))
  <1> DEFINE m == Menus(f, ks, spot)
             a == IF "menu" \in ks /\ ~m.controls THEN Calm([m EXCEPT !.menu = ~m.menu]) ELSE m
             d == IF a.menu /\ spot # None THEN [a EXCEPT !.menu = FALSE] ELSE a
  <1>1. Beside(f, m)
    BY MenusShows
  <1>2. Arena(f, ks, spot) = d
    BY DEF Arena, Weapons
  <1>3. \A g : Beside(f, g) => g \in Windows
    BY DEF Beside, Shown
  <1> HIDE DEF m
  <1>4. Beside(m, [m EXCEPT !.menu = ~m.menu])
    BY <1>1, <1>3, ScreenFields
  <1>5. Beside(f, a)
    BY <1>1, <1>3, <1>4, CalmShows, ShownTwice
  <1> HIDE DEF a
  <1>6. Beside(a, [a EXCEPT !.menu = FALSE])
    BY <1>3, <1>5, ScreenFields
  <1> QED
    BY <1>2, <1>3, <1>5, <1>6, ShownTwice

(* A step of the simulation leaves the screens as they are. *)
LEMMA SteppedShows ==
  ASSUME NEW f \in Windows, NEW end
  PROVE  LET g == Stepped(f, end)
         IN  /\ g \in Windows /\ g.startup = f.startup /\ g.table = f.table /\ g.match = f.match
             /\ g.released = f.released /\ g.shot = f.shot /\ g.charging = f.charging
             /\ g.settings = f.settings /\ g.arena = f.arena /\ g.open = f.open
             /\ g.step = TRUE
             /\ g.ended <=> end = "match"
  <1> DEFINE p == IF end = "goes on" THEN f.playing ELSE end = "turn"
             m == end = "match"
  <1>1. p \in BOOLEAN /\ m \in BOOLEAN
    BY BooleanFields
  <1>2. Stepped(f, end) = [f EXCEPT !.step = TRUE, !.playing = p, !.ended = m, !.reviewing = m]
    BY DEF Stepped
  <1> HIDE DEF p
  <1>3. m = (end = "match")
    OBVIOUS
  <1> HIDE DEF m
  <1> QED
    BY <1>1, <1>2, <1>3 DEF Windows

(* advanceNetworkIdle steps whenever a match is under way. *)
LEMMA IdleShows ==
  ASSUME NEW f \in Windows, NEW end
  PROVE  LET g == Idle(f, end)
         IN  /\ g \in Windows /\ g.startup = f.startup /\ g.table = f.table /\ g.match = f.match
             /\ g.released = f.released /\ g.shot = f.shot
             /\ g.charging => f.charging
             /\ g.settings = f.settings /\ g.arena = f.arena /\ g.open = f.open
             /\ f.match # None /\ ~f.ended => g.step = TRUE
  <1>1. CASE f.match = None \/ f.ended
    BY <1>1 DEF Idle
  <1>2. CASE ~(f.match = None \/ f.ended) /\ v.own
    <2>1. Idle(f, end) = Stepped(f, end)
      BY <1>2 DEF Idle
    <2> DEFINE n == Stepped(f, end)
    <2>2. /\ n \in Windows /\ n.startup = f.startup /\ n.table = f.table /\ n.match = f.match
          /\ n.released = f.released /\ n.shot = f.shot /\ n.charging = f.charging
          /\ n.settings = f.settings /\ n.arena = f.arena /\ n.open = f.open /\ n.step = TRUE
      BY SteppedShows
    <2> HIDE DEF n
    <2>3. Idle(f, end) = n
      BY <2>1 DEF n
    <2> QED
      BY <2>2, <2>3
  <1>3. CASE ~(f.match = None \/ f.ended) /\ ~v.own
    <2> DEFINE k == Calm(f)
    <2>1. Beside(f, k) /\ k.charging = FALSE /\ Idle(f, end) = Stepped(k, end)
      BY <1>3, CalmShows DEF Idle, Remote
    <2> HIDE DEF k
    <2>2. k \in Windows
      BY <2>1 DEF Beside, Shown
    <2> DEFINE n == Stepped(k, end)
    <2>3. /\ n \in Windows /\ n.startup = k.startup /\ n.table = k.table /\ n.match = k.match
          /\ n.released = k.released /\ n.shot = k.shot /\ n.charging = k.charging
          /\ n.settings = k.settings /\ n.arena = k.arena /\ n.open = k.open /\ n.step = TRUE
      BY <2>2, SteppedShows
    <2> HIDE DEF n
    <2>4. Idle(f, end) = n
      BY <2>1 DEF n
    <2> QED
      BY <2>1, <2>3, <2>4 DEF Beside, Shown
  <1> QED
    BY <1>1, <1>2, <1>3

(* A shot at full power asks for the key to be let go; until then nothing   *)
(* charges.                                                                *)
LEMMA ChargeShows ==
  ASSUME NEW f \in Windows, NEW fire \in BOOLEAN, f.shot = None
  PROVE  LET g == Charge(f, fire)
         IN  /\ g \in Windows /\ g.startup = f.startup /\ g.table = f.table /\ g.match = f.match
             /\ g.settings = f.settings /\ g.arena = f.arena /\ g.open = f.open
             /\ g.released => f.released
             /\ g.shot = "automatic" => ~g.charging /\ ~g.released
             /\ g.shot # "automatic" => (g.released <=> f.released)
             /\ fire /\ ~f.released => g = f
  <1> DEFINE k == Calm(f)
  <1>1. Beside(f, k) /\ k.charging = FALSE
    BY CalmShows
  <1>2. Charge(f, fire) = IF ~f.released /\ fire THEN f
          ELSE IF fire THEN IF f.power + 1 < FullPower THEN [f EXCEPT !.charging = TRUE, !.power = f.power + 1]
                            ELSE [k EXCEPT !.released = FALSE, !.shot = "automatic"]
          ELSE IF f.charging THEN [k EXCEPT !.shot = "released"] ELSE f
    BY DEF Charge
  <1> HIDE DEF k
  <1>3. k \in Windows /\ f.released \in BOOLEAN /\ f.power \in 0..FullPower
    BY <1>1 DEF Beside, Shown, Windows
  <1>4. CASE (~f.released /\ fire) \/ (~fire /\ ~f.charging)
    BY <1>2, <1>4 DEF None
  <1>5. CASE f.released /\ fire /\ f.power + 1 < FullPower
    <2> DEFINE n == [f EXCEPT !.charging = TRUE, !.power = f.power + 1]
    <2>1. f.power + 1 \in 0..FullPower
      BY <1>3, <1>5, FrameAssumption
    <2>2. /\ n \in Windows /\ n.startup = f.startup /\ n.table = f.table /\ n.match = f.match
          /\ n.settings = f.settings /\ n.arena = f.arena /\ n.open = f.open
          /\ n.released = f.released /\ n.shot = f.shot
      BY <2>1 DEF Windows
    <2>3. Charge(f, fire) = n
      BY <1>2, <1>5
    <2> HIDE DEF n
    <2> QED
      BY <1>5, <2>2, <2>3 DEF None
  <1>6. CASE f.released /\ fire /\ ~(f.power + 1 < FullPower)
    <2> DEFINE n == [k EXCEPT !.released = FALSE, !.shot = "automatic"]
    <2>1. /\ n \in Windows /\ n.startup = k.startup /\ n.table = k.table /\ n.match = k.match
          /\ n.settings = k.settings /\ n.arena = k.arena /\ n.open = k.open
          /\ n.released = FALSE /\ n.shot = "automatic" /\ n.charging = k.charging
      BY <1>3 DEF Windows
    <2>2. Charge(f, fire) = n
      BY <1>2, <1>6
    <2> HIDE DEF n
    <2> QED
      BY <1>1, <1>6, <2>1, <2>2 DEF Beside, Shown
  <1>7. CASE ~fire /\ f.charging
    <2> DEFINE n == [k EXCEPT !.shot = "released"]
    <2>1. /\ n \in Windows /\ n.startup = k.startup /\ n.table = k.table /\ n.match = k.match
          /\ n.settings = k.settings /\ n.arena = k.arena /\ n.open = k.open
          /\ n.released = k.released /\ n.shot = "released" /\ n.charging = k.charging
      BY <1>3 DEF Windows
    <2>2. Charge(f, fire) = n
      BY <1>2, <1>7
    <2> HIDE DEF n
    <2> QED
      BY <1>1, <1>7, <2>1, <2>2 DEF Beside, Shown
  <1> QED
    BY <1>3, <1>4, <1>5, <1>6, <1>7

(* What pollSettings and pollSession make of the window. *)
LEMMA PolledShows ==
  ASSUME FrameTypeOK, NEW fire \in BOOLEAN
  PROVE  LET f == Polled(fire)
         IN  /\ f \in Windows /\ f.startup = w.startup /\ f.charging = w.charging
             /\ f.shot = None /\ f.step = FALSE /\ f.table = v.table
             /\ f.released <=> w.released \/ ~fire
             /\ f.match = IF v.head /\ w.match # v.table THEN v.table ELSE w.match
             /\ f.ended => w.ended
             /\ v.table \notin {None, w.table} => f.open /\ ~f.settings /\ ~f.arena
             /\ v.table \in {None, w.table} =>
                  f.open = w.open /\ f.settings = w.settings /\ f.arena = w.arena
  <1> DEFINE rel == w.released \/ ~fire
             a == [w EXCEPT !.released = rel, !.table = v.table]
             b == IF v.table \notin {None, w.table}
                    THEN [a EXCEPT !.open = TRUE, !.settings = FALSE, !.arena = FALSE] ELSE a
             d == IF v.head /\ w.match # v.table
                    THEN [b EXCEPT !.match = v.table, !.playing = TRUE, !.ended = FALSE, !.reviewing = FALSE]
                  ELSE b
  <1>1. w \in Windows /\ w.shot = None /\ w.step = FALSE /\ v.table \in Tables \cup {None}
    BY WindowTyped DEF FrameTypeOK
  <1>2. Polled(fire) = d
    BY DEF Polled
  <1>3. rel \in BOOLEAN /\ (rel <=> w.released \/ ~fire)
    OBVIOUS
  <1> HIDE DEF rel
  <1>4. /\ a \in Windows /\ a.startup = w.startup /\ a.charging = w.charging /\ a.shot = None
        /\ a.step = FALSE /\ a.table = v.table /\ a.released = rel /\ a.match = w.match
        /\ a.ended = w.ended /\ a.open = w.open /\ a.settings = w.settings /\ a.arena = w.arena
    BY <1>1, <1>3 DEF Windows
  <1> HIDE DEF a
  <1>5. /\ b \in Windows /\ b.startup = w.startup /\ b.charging = w.charging /\ b.shot = None
        /\ b.step = FALSE /\ b.table = v.table /\ b.released = rel /\ b.match = w.match
        /\ b.ended = w.ended
        /\ v.table \notin {None, w.table} => b.open /\ ~b.settings /\ ~b.arena
        /\ v.table \in {None, w.table} =>
             b.open = w.open /\ b.settings = w.settings /\ b.arena = w.arena
    <2>1. CASE v.table \in {None, w.table}
      BY <1>4, <2>1
    <2>2. CASE v.table \notin {None, w.table}
      BY <1>4, <2>2 DEF Windows
    <2> QED
      BY <2>1, <2>2
  <1> HIDE DEF b
  <1>6. CASE v.head /\ w.match # v.table
    <2> DEFINE n == [b EXCEPT !.match = v.table, !.playing = TRUE, !.ended = FALSE, !.reviewing = FALSE]
    <2>1. /\ n \in Windows /\ n.startup = b.startup /\ n.charging = b.charging /\ n.shot = b.shot
          /\ n.step = b.step /\ n.table = b.table /\ n.released = b.released /\ n.match = v.table
          /\ n.ended = FALSE /\ n.open = b.open /\ n.settings = b.settings /\ n.arena = b.arena
      BY <1>1, <1>5 DEF Windows
    <2>2. Polled(fire) = n
      BY <1>2, <1>6
    <2> HIDE DEF n
    <2> QED
      BY <1>3, <1>5, <1>6, <2>1, <2>2
  <1>7. CASE ~(v.head /\ w.match # v.table)
    <2>1. Polled(fire) = b
      BY <1>2, <1>7
    <2> QED
      BY <1>3, <1>5, <1>7, <2>1
  <1> QED
    BY <1>6, <1>7

(* The own turn steps, and only there a charge goes on or begins. *)
Fired(f, g, fire, end) ==
  /\ g \in Windows /\ g.startup = f.startup /\ g.table = f.table /\ g.match = f.match
  /\ g.settings = f.settings /\ g.arena = f.arena /\ g.open = f.open /\ g.step = TRUE
  /\ g.released => f.released
  /\ g.shot = "automatic" => ~g.charging /\ ~g.released
  /\ g.shot # "automatic" => (g.released <=> f.released)
  /\ fire /\ ~f.released => (g.charging => f.charging) /\ g.shot = None
  /\ g.charging => ~g.ended /\ end # "turn"

LEMMA LocalShows ==
  ASSUME NEW f \in Windows, NEW fire \in BOOLEAN, NEW charges \in BOOLEAN, NEW covered,
         NEW end \in Ends(f), f.shot = None
  PROVE  Fired(f, Local(f, fire, charges, covered, end), fire, end)
  <1> DEFINE a == IF f.playing /\ charges /\ ~covered THEN Charge(f, fire) ELSE Calm(f)
             b == Stepped(a, end)
             m == [b EXCEPT !.menu = FALSE]
  <1>1. Local(f, fire, charges, covered, end) = IF end = "turn" THEN Calm(m) ELSE b
    BY DEF Local
  <1>2. /\ a \in Windows /\ a.startup = f.startup /\ a.table = f.table /\ a.match = f.match
        /\ a.settings = f.settings /\ a.arena = f.arena /\ a.open = f.open
        /\ a.released => f.released
        /\ a.shot = "automatic" => ~a.charging /\ ~a.released
        /\ a.shot # "automatic" => (a.released <=> f.released)
        /\ fire /\ ~f.released => (a.charging => f.charging) /\ a.shot = None
        /\ a.charging => f.playing
    <2>1. CASE f.playing /\ charges /\ ~covered
      <3> DEFINE n == Charge(f, fire)
      <3>1. /\ n \in Windows /\ n.startup = f.startup /\ n.table = f.table /\ n.match = f.match
            /\ n.settings = f.settings /\ n.arena = f.arena /\ n.open = f.open
            /\ n.released => f.released
            /\ n.shot = "automatic" => ~n.charging /\ ~n.released
            /\ n.shot # "automatic" => (n.released <=> f.released)
            /\ fire /\ ~f.released => n = f
        BY ChargeShows
      <3>2. a = n
        BY <2>1
      <3> HIDE DEF n, a
      <3> QED
        BY <2>1, <3>1, <3>2
    <2>2. CASE ~(f.playing /\ charges /\ ~covered)
      <3> DEFINE k == Calm(f)
      <3>1. Beside(f, k) /\ k.charging = FALSE
        BY CalmShows
      <3>2. a = k
        BY <2>2
      <3> HIDE DEF k, a
      <3> QED
        BY <3>1, <3>2 DEF Beside, Shown, None
    <2> QED
      BY <2>1, <2>2
  <1>3. a.charging => end # "turn" /\ end # "match"
    BY <1>2 DEF Ends
  <1> HIDE DEF a
  <1>4. /\ b \in Windows /\ b.startup = a.startup /\ b.table = a.table /\ b.match = a.match
        /\ b.released = a.released /\ b.shot = a.shot /\ b.charging = a.charging
        /\ b.settings = a.settings /\ b.arena = a.arena /\ b.open = a.open /\ b.step = TRUE
        /\ b.ended <=> end = "match"
    <2>1. a \in Windows
      BY <1>2
    <2> QED
      BY ONLY <2>1, SteppedShows
  <1> HIDE DEF b
  <1>5. CASE end = "turn"
    <2>1. Beside(b, m)
      BY <1>4, ScreenFields
    <2> HIDE DEF m
    <2> DEFINE k == Calm(m)
    <2>2. m \in Windows /\ Beside(m, k) /\ k.charging = FALSE
      BY <2>1, CalmShows DEF Beside, Shown
    <2>3. Local(f, fire, charges, covered, end) = k
      BY <1>1, <1>5
    <2> HIDE DEF k
    <2> QED
      BY <1>2, <1>4, <1>5, <2>1, <2>2, <2>3 DEF Beside, Shown, Fired
  <1>6. CASE end # "turn"
    <2>1. Local(f, fire, charges, covered, end) = b
      BY <1>1, <1>6
    <2> QED
      BY <1>2, <1>3, <1>4, <1>6, <2>1 DEF Fired
  <1> QED
    BY <1>5, <1>6

(* Which screens step, which ones open another one by a click, and where a *)
(* charge is left alone.                                                   *)
Framed(f, g, screen, fire, spot, end) ==
  /\ g \in Windows /\ g.startup = f.startup /\ g.table = f.table /\ g.match = f.match
  /\ f.match # None /\ ~f.ended =>
       \/ g.step = TRUE
       \/ screen = "open settings" /\ spot = "settings" /\ g.settings
       \/ screen = "open room" /\ spot = "tables" /\ g.open /\ ~g.arena
  /\ g.shot = "automatic" => ~g.charging /\ ~g.released
  /\ g.shot # "automatic" => (g.released <=> f.released)
  /\ fire /\ ~f.released => (g.charging => f.charging) /\ g.shot = None
  /\ g.charging =>
       \/ /\ v.own /\ g.arena /\ ~g.settings /\ ~g.ended /\ end # "turn"
          /\ f.arena /\ ~f.settings
       \/ f.charging /\ (f.settings \/ ~f.arena \/ f.ended)

LEMMA AfterShows ==
  ASSUME NEW f \in Windows, f.shot = None, NEW fire \in BOOLEAN, NEW ks, NEW spot,
         NEW charges \in BOOLEAN, NEW end \in Ends(f)
  PROVE  Framed(f, After(f, Screen(f, ks, spot), fire, ks, spot, charges, end),
                Screen(f, ks, spot), fire, spot, end)
  <1> DEFINE screen == Screen(f, ks, spot)
             g == After(f, screen, fire, ks, spot, charges, end)
             Goal == Framed(f, g, screen, fire, spot, end)
  <1> SUFFICES Goal
    OBVIOUS
  <1>1. ASSUME NEW h \in Windows, Shown(f, h), g = Idle(h, end),
               h.charging => f.settings \/ ~f.arena \/ f.ended
        PROVE  Goal
    <2> DEFINE n == Idle(h, end)
    <2>1. /\ n \in Windows /\ n.startup = h.startup /\ n.table = h.table /\ n.match = h.match
          /\ n.released = h.released /\ n.shot = h.shot
          /\ n.charging => h.charging
          /\ h.match # None /\ ~h.ended => n.step = TRUE
      BY IdleShows
    <2>2. g = n
      BY <1>1
    <2> HIDE DEF n, g
    <2> QED
      BY <1>1, <2>1, <2>2 DEF Shown, None, Framed
  <1>2. CASE screen = "settings"
    <2>1. f.settings
      BY <1>2 DEF Screen
    <2>2. g = Idle(Settings(f, ks, spot), end) /\ Shown(f, Settings(f, ks, spot))
      BY <1>2, SettingsShows DEF After
    <2> QED
      BY <1>1, <2>1, <2>2 DEF Shown
  <1>3. CASE screen = "room"
    <2>1. ~f.arena
      BY <1>3 DEF Screen
    <2>2. g = Idle(Room(f, ks, spot), end) /\ Shown(f, Room(f, ks, spot))
      BY <1>3, RoomShows DEF After
    <2> QED
      BY <1>1, <2>1, <2>2 DEF Shown
  <1>4. CASE screen = "lobby"
    <2>1. ~f.arena
      BY <1>4 DEF Screen
    <2>2. g = Idle(Lobby(f, ks, spot), end) /\ Shown(f, Lobby(f, ks, spot))
      BY <1>4, LobbyShows DEF After
    <2> QED
      BY <1>1, <2>1, <2>2 DEF Shown
  <1>5. CASE screen = "paused"
    <2> DEFINE m == Menus(f, ks, spot)
               h == Paused(m, spot)
    <2>1. Shown(f, m)
      BY MenusShows DEF Beside
    <2>2. m \in Windows
      BY <2>1 DEF Shown
    <2>3. g = Idle(h, end)
      BY <1>5 DEF After
    <2> HIDE DEF m
    <2>4. Shown(m, h) /\ h.charging = FALSE
      BY <2>2, PausedShows
    <2>5. Shown(f, h) /\ h \in Windows
      BY <2>1, <2>4 DEF Shown
    <2> HIDE DEF h
    <2> QED
      BY <1>1, <2>3, <2>4, <2>5
  <1>6. CASE screen = "open settings"
    <2> DEFINE n == [f EXCEPT !.settings = TRUE, !.binding = FALSE]
    <2>1. Shown(f, n) /\ n.settings = TRUE
      BY ScreenFields DEF Windows
    <2>2. g = n /\ spot = "settings" /\ ~f.arena
      BY <1>6 DEF After, Screen
    <2> HIDE DEF n, g
    <2> QED
      BY <1>6, <2>1, <2>2 DEF Shown, None, Framed
  <1>7. CASE screen = "open room"
    <2> DEFINE n == [f EXCEPT !.open = TRUE]
    <2>1. Shown(f, n) /\ n.open = TRUE /\ n.arena = f.arena
      BY ScreenFields DEF Windows
    <2>2. g = n /\ spot = "tables" /\ ~f.arena
      BY <1>7 DEF After, Screen
    <2> HIDE DEF n, g
    <2> QED
      BY <1>7, <2>1, <2>2 DEF Shown, None, Framed
  <1>8. CASE screen = "ended"
    <2> DEFINE n == [f EXCEPT !.arena = FALSE, !.paused = FALSE]
    <2>1. Shown(f, n) /\ Shown(f, f)
      BY ScreenFields DEF Beside
    <2>2. (g = n \/ g = f) /\ f.ended
      BY <1>8 DEF After, Screen
    <2> HIDE DEF n, g
    <2> QED
      BY <2>1, <2>2 DEF Shown, None, Framed
  <1>9. CASE screen = "remote turn"
    <2> DEFINE a == Arena(f, ks, spot)
               k == Calm(a)
               n == Stepped(k, end)
    <2>1. Beside(f, a)
      BY ArenaShows
    <2>2. g = n
      BY <1>9 DEF After, Remote
    <2> HIDE DEF a
    <2>3. a \in Windows /\ Beside(a, k) /\ k.charging = FALSE
      BY <2>1, CalmShows DEF Beside, Shown
    <2> HIDE DEF k
    <2>4. k \in Windows
      BY <2>3 DEF Beside, Shown
    <2>5. /\ n \in Windows /\ n.startup = k.startup /\ n.table = k.table /\ n.match = k.match
          /\ n.released = k.released /\ n.shot = k.shot /\ n.charging = k.charging /\ n.step = TRUE
      BY ONLY <2>4, SteppedShows
    <2> HIDE DEF n, g
    <2> QED
      BY <2>1, <2>2, <2>3, <2>5 DEF Beside, Shown, None, Framed
  <1>10. CASE screen = "own turn"
    <2> DEFINE a == Arena(f, ks, spot)
               covered == a.controls \/ Menus(f, ks, spot).menu \/ a.menu \/ spot = "panel"
               n == Local(a, fire, charges, covered, end)
    <2>1. Beside(f, a)
      BY ArenaShows
    <2>2. g = n /\ v.own /\ f.arena /\ ~f.settings
      BY <1>10 DEF After, Screen
    <2> HIDE DEF a
    <2>3. /\ a \in Windows /\ a.shot = None /\ end \in Ends(a)
          /\ fire \in BOOLEAN /\ charges \in BOOLEAN
      BY <2>1 DEF Beside, Shown, Ends
    <2> HIDE DEF covered
    <2>4. Fired(a, n, fire, end)
      BY ONLY <2>3, LocalShows
    <2> HIDE DEF n, g
    <2> QED
      BY <2>1, <2>2, <2>4 DEF Beside, Shown, Fired, Framed
  <1>11. screen \in {"settings", "open settings", "room", "open room", "lobby", "ended", "paused",
                     "own turn", "remote turn"}
    BY DEF Screen
  <1> HIDE DEF screen, Goal
  <1> QED
    BY <1>2, <1>3, <1>4, <1>5, <1>6, <1>7, <1>8, <1>9, <1>10, <1>11

(* What is left of a frame when it ends. *)
WindowClosed(g, c, n) ==
  /\ n \in Windows /\ n.shot = None /\ n.step = FALSE /\ n.clicked = c
  /\ n.startup = g.startup /\ n.table = g.table /\ n.match = g.match
  /\ n.released = g.released /\ n.charging = g.charging /\ n.ended = g.ended
  /\ n.settings = g.settings /\ n.arena = g.arena /\ n.open = g.open

LEMMA FrameCloses ==
  ASSUME NEW g \in Windows, NEW c \in BOOLEAN
  PROVE  WindowClosed(g, c, [g EXCEPT !.clicked = c, !.shot = None, !.step = FALSE])
BY DEF Windows, None, WindowClosed

LEMMA TypedAgain ==
  ASSUME NEW n \in Windows, n.shot = None, n.step = FALSE
  PROVE  n \in [startup : {"cover", "ready", "over"}, settings : BOOLEAN, table : Tables \cup {None},
            open : BOOLEAN, help : BOOLEAN, arena : BOOLEAN, paused : BOOLEAN,
            controls : BOOLEAN, binding : BOOLEAN, menu : BOOLEAN, charging : BOOLEAN,
            power : 0..FullPower, released : BOOLEAN, match : Tables \cup {None},
            playing : BOOLEAN, ended : BOOLEAN, reviewing : BOOLEAN, clicked : BOOLEAN, quit : BOOLEAN,
            shot : {None}, step : {FALSE}]
BY DEF Windows, None

(* Two frames without a step follow each other only when both open a screen *)
(* by a click, and the mouse cannot be just pressed in both.  A match other *)
(* than the one of a charge comes with a table that is new in the           *)
(* foreground, and that takes the charge out of the arena.                  *)
LEMMA UpdateKeeps ==
  ASSUME FrameInv, NEW fire \in BOOLEAN, NEW ks, NEW spot, w.clicked => spot = None,
         Update(fire, ks, spot)
  PROVE  FrameInv'
  <1> USE DEF FrameInv
  <1> DEFINE f == Polled(fire)
             screen == Screen(f, ks, spot)
             steps == screen \notin {"open settings", "open room", "ended"} /\ f.match # None /\ ~f.ended
             ends == IF steps THEN Ends(f) ELSE {"goes on"}
  <1>1. PICK charges \in BOOLEAN, end \in ends :
          LET f2 == After(f, screen, fire, ks, spot, charges, end)
          IN  /\ w' = [f2 EXCEPT !.clicked = spot # None, !.shot = None, !.step = FALSE]
              /\ v' = [v EXCEPT !.own = v.own /\ end \notin {"turn", "match"},
                                !.asked = v.asked \/ (screen = "room" /\ ~f.help /\ "tab" \in ks)]
              /\ past' = Remembered(f, f2, fire, end)
    BY DEF Update
  <1> DEFINE f2 == After(f, screen, fire, ks, spot, charges, end)
             c == spot # None
  <1>2. end \in Ends(f)
    BY DEF Ends
  <1> HIDE DEF steps, ends
  <1>3. /\ f \in Windows /\ f.startup = w.startup /\ f.charging = w.charging
        /\ f.shot = None /\ f.step = FALSE /\ f.table = v.table
        /\ f.released <=> w.released \/ ~fire
        /\ f.match = IF v.head /\ w.match # v.table THEN v.table ELSE w.match
        /\ f.ended => w.ended
        /\ v.table \notin {None, w.table} => f.open /\ ~f.settings /\ ~f.arena
        /\ v.table \in {None, w.table} =>
             f.open = w.open /\ f.settings = w.settings /\ f.arena = w.arena
    BY ONLY FrameInv, fire \in BOOLEAN, PolledShows
  <1>4. w.startup = "over"
    BY DEF Update
  <1> HIDE DEF f
  <1>5a. fire \in BOOLEAN /\ charges \in BOOLEAN
    OBVIOUS
  <1>5b. Framed(f, f2, screen, fire, spot, end)
    BY ONLY <1>2, <1>3, <1>5a, AfterShows
  <1> HIDE DEF screen
  <1>6. /\ w' = [f2 EXCEPT !.clicked = c, !.shot = None, !.step = FALSE]
        /\ v' = [v EXCEPT !.own = v.own /\ end \notin {"turn", "match"},
                          !.asked = v.asked \/ (screen = "room" /\ ~f.help /\ "tab" \in ks)]
        /\ past' = Remembered(f, f2, fire, end)
    BY <1>1
  <1> HIDE DEF f2
  <1>7. c \in BOOLEAN /\ (c <=> spot # None)
    OBVIOUS
  <1> HIDE DEF c
  <1>5. /\ f2 \in Windows /\ f2.startup = f.startup /\ f2.table = f.table /\ f2.match = f.match
        /\ f.match # None /\ ~f.ended =>
             \/ f2.step = TRUE
             \/ screen = "open settings" /\ spot = "settings" /\ f2.settings
             \/ screen = "open room" /\ spot = "tables" /\ f2.open /\ ~f2.arena
        /\ f2.shot = "automatic" => ~f2.charging /\ ~f2.released
        /\ f2.shot # "automatic" => (f2.released <=> f.released)
        /\ fire /\ ~f.released => (f2.charging => f.charging) /\ f2.shot = None
        /\ f2.charging =>
             \/ /\ v.own /\ f2.arena /\ ~f2.settings /\ ~f2.ended /\ end # "turn"
                /\ f.arena /\ ~f.settings
             \/ f.charging /\ (f.settings \/ ~f.arena \/ f.ended)
    BY ONLY <1>5b DEF Framed
  <1>8a. WindowClosed(f2, c, w')
    <2>1. f2 \in Windows
      BY <1>5
    <2> DEFINE n == [f2 EXCEPT !.clicked = c, !.shot = None, !.step = FALSE]
    <2>2. WindowClosed(f2, c, n)
      BY ONLY <1>7, <2>1, FrameCloses
    <2>3. w' = n
      BY <1>6
    <2> HIDE DEF n
    <2> QED
      BY <2>2, <2>3
  <1>8. /\ w' \in Windows /\ w'.shot = None /\ w'.step = FALSE /\ w'.clicked = c
        /\ w'.startup = f2.startup /\ w'.table = f2.table /\ w'.match = f2.match
        /\ w'.released = f2.released /\ w'.charging = f2.charging /\ w'.ended = f2.ended
        /\ w'.settings = f2.settings /\ w'.arena = f2.arena /\ w'.open = f2.open
    BY ONLY <1>8a DEF WindowClosed
  <1>9. /\ v' \in [table : Tables \cup {None}, head : BOOLEAN, own : BOOLEAN, asked : BOOLEAN]
        /\ v'.own => v.own
        /\ v'.head = v.head /\ v'.table = v.table
    <2> DEFINE o == v.own /\ end \notin {"turn", "match"}
               k == v.asked \/ (screen = "room" /\ ~f.help /\ "tab" \in ks)
    <2>1. o \in BOOLEAN /\ k \in BOOLEAN /\ (o => v.own)
      OBVIOUS
    <2>2. v' = [v EXCEPT !.own = o, !.asked = k]
      BY <1>6
    <2> HIDE DEF o, k
    <2> QED
      BY <2>1, <2>2 DEF FrameTypeOK
  <1>10. /\ past'.idle = IF v.own /\ ~f.ended /\ ~f2.step THEN past.idle + 1 ELSE 0
         /\ past'.held <=> fire /\ (past.held \/ f2.shot = "automatic")
         /\ past'.stale <=> f2.charging /\ w.charging /\ (past.stale \/ f.match # w.match \/ end = "turn")
         /\ past'.crossed <=> f2.charging /\ (past.crossed \/ (w.arena /\ ~f.arena))
    BY <1>6 DEF Remembered
  <1>11. v.own => v.head /\ v.table # None /\ f.match = v.table
    BY <1>3 DEF IdleInv
  <1>12. /\ past'.idle \in {0, 1}
         /\ past'.idle = 1 => w'.startup = "over" /\ w'.clicked /\ (w'.settings \/ (~w'.arena /\ w'.open))
    <2>1. CASE v.own /\ ~f.ended /\ ~f2.step
      <3>1. (spot = "settings" /\ f2.settings) \/ (spot = "tables" /\ f2.open /\ ~f2.arena)
        BY <1>5, <1>11, <2>1
      <3>2. c
        BY <1>7, <3>1 DEF None
      <3>3. past.idle = 0
        BY <1>7, <3>2 DEF IdleInv
      <3>4. past'.idle = 1
        BY ONLY <1>10, <2>1, <3>3
      <3> QED
        BY <1>3, <1>4, <1>5, <1>8, <3>1, <3>2, <3>4
    <2>2. CASE ~(v.own /\ ~f.ended /\ ~f2.step)
      <3>1. past'.idle = 0
        BY <1>10, <2>2
      <3> QED
        BY ONLY <3>1
    <2> QED
      BY <2>1, <2>2
  <1>13. past'.held => ~w'.released
    BY <1>3, <1>5, <1>8, <1>10 DEF ChargeInv
  <1>14. ASSUME w'.charging
         PROVE  /\ ~past'.held
                /\ \/ past'.crossed
                   \/ w'.arena /\ ~w'.settings /\ ~w'.ended /\ w'.table = w'.match /\ ~past'.stale
    <2>1. f2.charging
      BY <1>8, <1>14
    <2>2. ~past'.held
      BY <1>3, <1>5, <1>10, <2>1 DEF ChargeInv
    <2>3. CASE v.own /\ f2.arena /\ ~f2.settings /\ ~f2.ended /\ end # "turn" /\ f.arena /\ ~f.settings
      <3>1. CASE past.crossed
        BY <1>10, <2>1, <2>2, <3>1
      <3>2. CASE ~past.crossed /\ w.charging
        <4>1. w.table = w.match /\ ~past.stale
          BY <3>2 DEF ChargeInv
        <4>2. f.match = w.match
          BY <1>3, <1>11, <2>3, <4>1
        <4> QED
          BY <1>3, <1>5, <1>8, <1>10, <1>11, <2>2, <2>3, <4>1, <4>2
      <3>3. CASE ~w.charging
        BY <1>3, <1>5, <1>8, <1>10, <1>11, <2>2, <2>3, <3>3
      <3> QED
        BY <3>1, <3>2, <3>3
    <2>4. CASE f.charging /\ (f.settings \/ ~f.arena \/ f.ended)
      <3>1. CASE past.crossed
        BY <1>10, <2>1, <2>2, <3>1
      <3>2. CASE ~past.crossed
        <4>1. w.arena /\ ~w.settings /\ ~w.ended
          BY <1>3, <2>4, <3>2 DEF ChargeInv
        <4>2. ~f.arena
          BY <1>3, <2>4, <4>1
        <4> QED
          BY <1>10, <2>1, <2>2, <4>1, <4>2
      <3> QED
        BY <3>1, <3>2
    <2> QED
      BY <1>5, <2>1, <2>3, <2>4
  <1>15. past' \in [idle : 0..2, held : BOOLEAN, stale : BOOLEAN, crossed : BOOLEAN]
    <2>1. PICK a, b, d, e : /\ past' = [idle |-> a, held |-> b, stale |-> d, crossed |-> e]
                            /\ b \in BOOLEAN /\ d \in BOOLEAN /\ e \in BOOLEAN
      BY <1>6 DEF Remembered
    <2>2. past'.idle = a /\ past'.held = b /\ past'.stale = d /\ past'.crossed = e
      BY ONLY <2>1
    <2>3. a \in 0..2
      BY ONLY <1>12, <2>2
    <2> QED
      BY ONLY <2>1, <2>3
  <1>16. FrameTypeOK'
    BY <1>8, <1>9, <1>15, TypedAgain DEF FrameTypeOK
  <1>17. IdleInv'
    BY <1>9, <1>11, <1>12 DEF IdleInv
  <1>18. ChargeInv'
    BY <1>13, <1>14 DEF ChargeInv
  <1> QED
    BY <1>16, <1>17, <1>18

(* A frame of the startup: no charge and no turn yet is needed, only that   *)
(* the fields of both are left alone.                                       *)
LEMMA StartupKeeps ==
  ASSUME FrameInv, NEW ks, NEW spot, Startup(ks, spot)
  PROVE  FrameInv'
  <1> USE DEF FrameInv
  <1> DEFINE c == spot # None
  <1>1. PICK s \in {"cover", "ready", "over"} : w' = [w EXCEPT !.startup = s, !.clicked = c]
    BY DEF Startup
  <1>2. c \in BOOLEAN
    OBVIOUS
  <1> HIDE DEF c
  <1>3. w.startup # "over" /\ v' = v /\ past' = past
    BY DEF Startup
  <1>4. w \in Windows /\ w.shot = None /\ w.step = FALSE
    BY WindowTyped
  <1>5. /\ w' \in Windows /\ w'.shot = None /\ w'.step = FALSE
        /\ w'.table = w.table /\ w'.match = w.match /\ w'.released = w.released
        /\ w'.charging = w.charging /\ w'.ended = w.ended
        /\ w'.settings = w.settings /\ w'.arena = w.arena
    BY <1>1, <1>2, <1>4 DEF Windows
  <1>6. FrameTypeOK'
    BY <1>3, <1>5, TypedAgain DEF FrameTypeOK
  <1>7. IdleInv'
    BY <1>3 DEF IdleInv
  <1>8. ChargeInv'
    BY <1>3, <1>5 DEF ChargeInv
  <1> QED
    BY <1>6, <1>7, <1>8

LEMMA FrameStep == FrameInv /\ [FrameNext]_frameVars => FrameInv'
  <1> SUFFICES ASSUME FrameInv, [FrameNext]_frameVars PROVE FrameInv'
    OBVIOUS
  <1> USE DEF FrameInv
  <1>1. CASE Frame
    <2>1. PICK fire \in BOOLEAN, ks \in KeySets :
            \E spot \in IF w.clicked \/ ks # {} THEN {None} ELSE Spots :
              Startup(ks, spot) \/ Update(fire, ks, spot)
      BY <1>1 DEF Frame
    <2>2. PICK spot \in IF w.clicked \/ ks # {} THEN {None} ELSE Spots :
            Startup(ks, spot) \/ Update(fire, ks, spot)
      BY <2>1
    <2>3. w.clicked => spot = None
      BY <2>2
    <2>4. CASE Startup(ks, spot)
      BY <2>4, StartupKeeps
    <2>5. CASE Update(fire, ks, spot)
      BY <2>3, <2>5, UpdateKeeps
    <2> QED
      BY <2>2, <2>4, <2>5
  <1>2. CASE Reviewed
    <2>1. w' = [w EXCEPT !.reviewing = FALSE] /\ v' = v /\ past' = past
      BY <1>2 DEF Reviewed
    <2>2. w \in Windows /\ w.shot = None /\ w.step = FALSE
      BY WindowTyped
    <2>3. /\ w' \in Windows /\ w'.shot = None /\ w'.step = FALSE /\ w'.startup = w.startup
          /\ w'.table = w.table /\ w'.match = w.match /\ w'.released = w.released
          /\ w'.charging = w.charging /\ w'.ended = w.ended /\ w'.clicked = w.clicked
          /\ w'.settings = w.settings /\ w'.arena = w.arena /\ w'.open = w.open
      BY <2>1, <2>2 DEF Windows
    <2>4. FrameTypeOK'
      BY <2>1, <2>3, TypedAgain DEF FrameTypeOK
    <2>5. IdleInv' /\ ChargeInv'
      BY <2>1, <2>3 DEF IdleInv, ChargeInv
    <2> QED
      BY <2>4, <2>5
  <1>3. CASE View
    <2>1. PICK t1 \in Tables \cup {None}, h \in BOOLEAN, o \in BOOLEAN :
            /\ o => h
            /\ h => t1 # None /\ (t1 = v.table \/ v.asked \/ ~w.arena)
            /\ v' = [table |-> t1, head |-> h, own |-> o, asked |-> v.asked /\ t1 = v.table]
      BY <1>3 DEF View
    <2>2. w' = w /\ past' = past
      BY <1>3 DEF View
    <2>3. FrameTypeOK'
      <3>1. w' \in Windows /\ w'.shot = None /\ w'.step = FALSE
        BY <2>2, WindowTyped
      <3>2. v' \in [table : Tables \cup {None}, head : BOOLEAN, own : BOOLEAN, asked : BOOLEAN]
        BY <2>1 DEF FrameTypeOK
      <3>3. past' \in [idle : 0..2, held : BOOLEAN, stale : BOOLEAN, crossed : BOOLEAN]
        BY <2>2 DEF FrameTypeOK
      <3> QED
        BY <3>1, <3>2, <3>3, TypedAgain DEF FrameTypeOK
    <2>4. IdleInv' /\ ChargeInv'
      BY <2>1, <2>2 DEF IdleInv, ChargeInv
    <2> QED
      BY <2>3, <2>4
  <1>4. CASE UNCHANGED frameVars
    <2>1. w' = w /\ v' = v /\ past' = past
      BY <1>4 DEF frameVars
    <2>2. w' \in Windows /\ w'.shot = None /\ w'.step = FALSE
      BY <2>1, WindowTyped
    <2>3. /\ v' \in [table : Tables \cup {None}, head : BOOLEAN, own : BOOLEAN, asked : BOOLEAN]
          /\ past' \in [idle : 0..2, held : BOOLEAN, stale : BOOLEAN, crossed : BOOLEAN]
      BY <2>1 DEF FrameTypeOK
    <2>4. FrameTypeOK'
      BY <2>2, <2>3, TypedAgain DEF FrameTypeOK
    <2> QED
      BY <2>1, <2>4 DEF IdleInv, ChargeInv
  <1> QED
    BY <1>1, <1>2, <1>3, <1>4 DEF FrameNext

THEOREM FrameInvariant == FrameSpec => []FrameInv
  <1> QED
    BY FrameStart, FrameStep, PTL DEF FrameSpec

(* network.go, advanceNetworkIdle: whatever screens the player goes through *)
(* in the own turn, no two frames in a row go by without a step, at every   *)
(* number of tables and every power.                                        *)
THEOREM CountdownAlwaysRuns == FrameSpec => []CountdownRuns
  <1>1. FrameInv => CountdownRuns
    BY DEF FrameInv, IdleInv, CountdownRuns
  <1> QED
    BY <1>1, FrameInvariant, PTL

(* charge.go and network.go: a charge is of the turn and the match in which *)
(* it began, and a key held since an automatic shot begins none.            *)
THEOREM ChargesStayInTheirTurn == FrameSpec => []ChargeIsOfThisTurn
  <1>1. FrameInv => ChargeIsOfThisTurn
    BY DEF FrameInv, ChargeInv, ChargeIsOfThisTurn
  <1> QED
    BY <1>1, FrameInvariant, PTL

-------------------------------------------------------------------------------
(* Window: what is shown of the turns that the journal holds               *)

(* A submitted turn, and the window's side of the match. *)
Commands == [after : Seq(Turns), inputs : Seq(Moves)]

Simulations ==
  [match : {NoMatch, "this", "other"}, hist : Seq(Turns), now : Seq(Moves), inputs : Seq(Moves),
   batch : Turns \cup {<<>>}, submitted : BOOLEAN, diverged : BOOLEAN, overtaken : BOOLEAN]

Sized(f) == f \in Simulations /\ Len(f.hist) <= MaxTurns /\ Len(f.now) < TurnTicks

WindowSized ==
  /\ session \in [up : BOOLEAN, opened : BOOLEAN, queue : Seq(Commands),
                  view : {NoMatch, "this", "other"}, head : -1..MaxTurns]
  /\ Len(session.queue) <= QueueSize
  /\ journal \in [log : Seq(Turns), reserved : Turns \cup {<<>>}]
  /\ Len(journal.log) <= MaxTurns

(* The head shown is the journal's, and only the own turn is reserved. *)
HeadInv ==
  /\ ~session.up => session = NoSession
  /\ session.queue # <<>> \/ session.head >= 0 => session.opened
  /\ \/ session.head = -1
     \/ session.view = "this" /\ session.head = Len(journal.log)
     \/ session.view = "other" /\ session.head = 0
  /\ journal.reserved # <<>> => OwnTurn(Len(journal.log)) /\ Len(journal.log) < MaxTurns

(* The window is within the journal: between turns, in a turn that it       *)
(* replays, or in its own turn at the head of the journal.                 *)
Within(f) ==
  /\ Turn(f) <= Len(journal.log) /\ f.hist = SubSeq(journal.log, 1, Turn(f))
  /\ session.queue = <<>> /\ journal.reserved = <<>>
  /\ \/ f.batch = <<>> /\ f.now = <<>> /\ f.inputs = <<>>
     \/ /\ f.batch # <<>> /\ Turn(f) < Len(journal.log) /\ f.batch = journal.log[Turn(f) + 1]
        /\ f.now = SubSeq(f.batch, 1, Len(f.now)) /\ f.inputs = <<>>
     \/ /\ f.batch = <<>> /\ f.now # <<>> /\ f.inputs = f.now
        /\ Turn(f) = Len(journal.log) /\ OwnTurn(Turn(f))

(* The window has played its own turn, which the journal does not hold yet: *)
(* nothing else is on its way there.                                       *)
AheadBy(f, x) ==
  /\ f.batch = <<>> /\ f.now = <<>> /\ f.inputs = <<>>
  /\ OwnTurn(Len(journal.log))
  /\ f.hist = Append(journal.log, x) /\ journal.reserved \in {<<>>, x}
  /\ session.queue \in {<<>>, <<[after |-> f.hist, inputs |-> x]>>}

Faithful(f) ==
  ~f.overtaken => ~f.diverged /\ (f.match = "this" => Within(f) \/ \E x \in Turns : AheadBy(f, x))

WindowInv == Sized(game) /\ WindowSized /\ HeadInv /\ Faithful(game)

(* Sequences: a prefix and what follows it. *)
LEMMA PrefixGrows ==
  ASSUME NEW S, NEW s \in Seq(S), NEW n \in Nat, n < Len(s)
  PROVE  Append(SubSeq(s, 1, n), s[n + 1]) = SubSeq(s, 1, n + 1)
OBVIOUS

LEMMA WholePrefix ==
  ASSUME NEW S, NEW s \in Seq(S)
  PROVE  SubSeq(s, 1, Len(s)) = s
OBVIOUS

LEMMA PrefixOfAppend ==
  ASSUME NEW S, NEW s \in Seq(S), NEW x \in S, NEW n \in Nat, n <= Len(s)
  PROVE  /\ SubSeq(Append(s, x), 1, n) = SubSeq(s, 1, n)
         /\ SubSeq(Append(s, x), 1, Len(s) + 1) = Append(s, x)
         /\ n < Len(s) => Append(s, x)[n + 1] = s[n + 1]
         /\ Append(s, x)[Len(s) + 1] = x
         /\ Len(Append(s, x)) = Len(s) + 1
OBVIOUS

(* A turn is the sequence of what was done in its ticks. *)
LEMMA TurnsAreSequences ==
  /\ \A s \in Seq(Moves) : Len(s) = TurnTicks => s \in Turns
  /\ \A x \in Turns : x \in Seq(Moves) /\ Len(x) = TurnTicks /\ x # <<>>
  <1>1. \A s \in Seq(Moves) : Len(s) = TurnTicks => s \in Turns
    BY LenProperties DEF Turns
  <1>2. ASSUME NEW x \in Turns PROVE x \in Seq(Moves) /\ Len(x) = TurnTicks /\ x # <<>>
    BY WindowAssumption DEF Turns
  <1> QED
    BY <1>1, <1>2

(* A step of the simulation goes on with the turn or ends it. *)
StepsOn(f, m, new) ==
  /\ new.match = f.match /\ new.inputs = f.inputs /\ new.batch = f.batch
  /\ new.submitted = f.submitted /\ new.diverged = f.diverged /\ new.overtaken = f.overtaken
  /\ \/ /\ Len(f.now) + 1 = TurnTicks /\ Append(f.now, m) \in Turns
        /\ new.hist = Append(f.hist, Append(f.now, m)) /\ new.now = <<>>
     \/ Len(f.now) + 1 < TurnTicks /\ new.hist = f.hist /\ new.now = Append(f.now, m)

LEMMA StepSteps ==
  ASSUME NEW f, Sized(f), NEW m \in Moves, ~Ended(f)
  PROVE  Sized(step(f, m)) /\ StepsOn(f, m, step(f, m))
  <1>1. f \in Simulations /\ Len(f.hist) < MaxTurns /\ Len(f.now) < TurnTicks
        /\ f.hist \in Seq(Turns) /\ f.now \in Seq(Moves)
    BY WindowAssumption DEF Sized, Simulations, Ended, Turn
  <1>2. CASE Len(f.now) + 1 = TurnTicks
    <2> DEFINE h == Append(f.hist, Append(f.now, m))
               n == [f EXCEPT !.hist = h, !.now = <<>>]
    <2>1. Append(f.now, m) \in Turns
      <3>1. Append(f.now, m) \in Seq(Moves) /\ Len(Append(f.now, m)) = TurnTicks
        BY <1>1, <1>2
      <3>2. ASSUME NEW a, a \in Seq(Moves), Len(a) = TurnTicks PROVE a \in Turns
        BY <3>2, TurnsAreSequences
      <3> QED
        BY ONLY <3>1, <3>2
    <2>2. h \in Seq(Turns) /\ Len(h) <= MaxTurns
      BY <1>1, <2>1, WindowAssumption
    <2>3. step(f, m) = n
      BY <1>2 DEF step
    <2>4. <<>> \in Seq(Moves) /\ Len(<<>>) = 0
      OBVIOUS
    <2> HIDE DEF h
    <2>5. n \in Simulations /\ n.hist = h /\ n.now = <<>>
          /\ n.match = f.match /\ n.inputs = f.inputs /\ n.batch = f.batch
          /\ n.submitted = f.submitted /\ n.diverged = f.diverged /\ n.overtaken = f.overtaken
      BY <1>1, <2>2, <2>4 DEF Simulations
    <2> HIDE DEF n
    <2> QED
      BY <1>2, <2>1, <2>2, <2>3, <2>4, <2>5, WindowAssumption DEF Sized, StepsOn, h
  <1>3. CASE Len(f.now) + 1 # TurnTicks
    <2> DEFINE h == Append(f.now, m)
               n == [f EXCEPT !.now = h]
    <2>1. h \in Seq(Moves) /\ Len(h) = Len(f.now) + 1 /\ Len(f.now) \in Nat
      BY <1>1
    <2>2. step(f, m) = n
      BY <1>3 DEF step
    <2>3. Len(f.now) + 1 < TurnTicks
      BY <1>1, <1>3, <2>1, WindowAssumption
    <2> HIDE DEF h
    <2>4. n \in Simulations /\ n.hist = f.hist /\ n.now = h
          /\ n.match = f.match /\ n.inputs = f.inputs /\ n.batch = f.batch
          /\ n.submitted = f.submitted /\ n.diverged = f.diverged /\ n.overtaken = f.overtaken
      BY <1>1, <2>1 DEF Simulations
    <2> HIDE DEF n
    <2> QED
      BY <1>1, <2>1, <2>2, <2>3, <2>4 DEF Sized, StepsOn, h
  <1> QED
    BY <1>2, <1>3


(* What a frame begins with: the session's view has been read. *)
ViewRead(f) ==
  /\ Sized(f) /\ Faithful(f)
  /\ f.match = "this" /\ session.head >= 0 => session.head = Len(journal.log)

LEMMA PollReads ==
  ASSUME WindowInv PROVE ViewRead(pollSession)
  <1> DEFINE was == IF session.head >= 0 /\ game.match # session.view THEN Restarted(game) ELSE game
  <1>1. Sized(was) /\ Faithful(was) /\ (was.match = "this" /\ session.head >= 0 => session.head = Len(journal.log))
    <2>1. CASE session.head >= 0 /\ game.match # session.view
      <3>1. was = Restarted(game)
        BY <2>1
      <3> HIDE DEF was
      <3>2. <<>> \in Seq(Turns) /\ <<>> \in Seq(Moves) /\ Len(<<>>) = 0 /\ MaxTurns \in Nat /\ TurnTicks \in Nat \ {0}
        BY WindowAssumption
      <3>3. CASE session.view = "other"
        <4>1. was = [NoGame EXCEPT !.match = "other"]
          BY <3>1, <3>3 DEF Restarted
        <4>2. was = [match |-> "other", hist |-> <<>>, now |-> <<>>, inputs |-> <<>>, batch |-> <<>>,
                   submitted |-> FALSE, diverged |-> FALSE, overtaken |-> FALSE]
          BY <4>1 DEF NoGame
        <4> QED
          BY <3>2, <4>2 DEF Sized, Simulations, Faithful
      <3>4. CASE session.view # "other"
        <4> DEFINE behind == session.queue # <<>> \/ journal.reserved # <<>>
        <4>1. session.view = "this" /\ session.head = Len(journal.log) /\ journal.log \in Seq(Turns)
              /\ Len(journal.log) <= MaxTurns
          BY <2>1, <3>4 DEF WindowInv, HeadInv, WindowSized
        <4>2. SubSeq(journal.log, 1, session.head) = journal.log
          BY <4>1, WholePrefix
        <4>3. was = [match |-> "this", hist |-> journal.log, now |-> <<>>, inputs |-> <<>>, batch |-> <<>>,
                   submitted |-> FALSE, diverged |-> FALSE, overtaken |-> behind]
          BY <3>1, <3>4, <4>2 DEF Restarted, NoGame
        <4>4. behind \in BOOLEAN
          OBVIOUS
        <4>5. ~behind => session.queue = <<>> /\ journal.reserved = <<>>
          OBVIOUS
        <4> HIDE DEF behind
        <4>6. Sized(was)
          BY <3>2, <4>1, <4>3, <4>4 DEF Sized, Simulations
        <4>7. Faithful(was)
          BY <4>1, <4>2, <4>3, <4>5 DEF Faithful, Within, Turn
        <4> QED
          BY <4>1, <4>6, <4>7
      <3> QED
        BY <3>3, <3>4
    <2>2. CASE ~(session.head >= 0 /\ game.match # session.view)
      <3>1. was = game
        BY <2>2
      <3>2. game.match = "this" /\ session.head >= 0 => session.head = Len(journal.log)
        BY <2>2 DEF WindowInv, HeadInv, WindowSized
      <3> QED
        BY <3>1, <3>2 DEF WindowInv
    <2> QED
      BY <2>1, <2>2
  <1>2. pollSession = IF was.submitted /\ session.head >= Turn(was) THEN [was EXCEPT !.submitted = FALSE] ELSE was
    BY DEF pollSession
  <1> HIDE DEF was
  <1>3. ASSUME pollSession = was PROVE ViewRead(pollSession)
    BY <1>1, <1>3 DEF ViewRead
  <1>4. ASSUME pollSession = [was EXCEPT !.submitted = FALSE] PROVE ViewRead(pollSession)
    <2> DEFINE n == [was EXCEPT !.submitted = FALSE]
    <2>1. n.match = was.match /\ n.hist = was.hist /\ n.now = was.now /\ n.inputs = was.inputs /\ n.batch = was.batch
          /\ n.diverged = was.diverged /\ n.overtaken = was.overtaken /\ n \in Simulations
      BY <1>1 DEF Sized, Simulations
    <2> HIDE DEF n
    <2>2. Sized(n)
      BY <1>1, <2>1 DEF Sized
    <2>3. Faithful(n)
      BY <1>1, <2>1 DEF Faithful, Within, AheadBy, Turn
    <2>4. pollSession = n
      BY <1>4 DEF n
    <2> QED
      BY <1>1, <2>1, <2>2, <2>3, <2>4 DEF ViewRead
  <1> QED
    BY <1>2, <1>3, <1>4

(* The session and the journal are as they were: only the game has moved. *)
LEMMA GameMoves ==
  ASSUME WindowInv, Sized(game'), UNCHANGED <<session, journal>>,
         ~game'.overtaken => /\ ~game'.diverged
                             /\ game'.match = "this" => Within(game') \/ \E x \in Turns : AheadBy(game', x)
  PROVE  WindowInv'
  <1>1. WindowSized'
    BY DEF WindowInv, WindowSized
  <1>2. HeadInv'
    BY DEF WindowInv, HeadInv
  <1>3. Sized(game)'
    BY DEF Sized, Simulations
  <1>4. Faithful(game)'
    BY DEF Faithful, Within, AheadBy
  <1> QED
    BY <1>1, <1>2, <1>3, <1>4 DEF WindowInv

LEMMA LocalFrameKeeps ==
  ASSUME WindowInv, NEW m \in Moves, LocalFrame(m) PROVE WindowInv'
  <1> DEFINE f == pollSession
             was == [f EXCEPT !.inputs = Append(@, m)]
             new == step(was, m)
             s == [new EXCEPT !.submitted = TRUE, !.inputs = <<>>]
             cmd == [after |-> new.hist, inputs |-> new.inputs]
             k == [session EXCEPT !.queue = Append(@, cmd)]
  <1>1. ViewRead(f)
    BY PollReads
  <1>2. /\ session.up /\ f.match = "this" /\ ~Ended(f) /\ ~f.diverged
        /\ session.head >= 0 /\ OwnTurn(Turn(f)) /\ session.head = Turn(f)
        /\ \/ Turn(new) = Turn(was) /\ game' = new /\ UNCHANGED session
           \/ Turn(new) # Turn(was) /\ Len(session.queue) < QueueSize /\ game' = s /\ session' = k
           \/ Turn(new) # Turn(was) /\ ~(Len(session.queue) < QueueSize) /\ game' = new /\ UNCHANGED session
        /\ UNCHANGED journal
    BY DEF LocalFrame, Playing, LocalTurn
  <1> HIDE DEF f
  <1>3. f \in Simulations /\ f.inputs \in Seq(Moves) /\ f.now \in Seq(Moves) /\ f.hist \in Seq(Turns)
    BY <1>1 DEF ViewRead, Sized, Simulations
  <1>4. /\ Sized(was) /\ ~Ended(was) /\ was.match = f.match /\ was.hist = f.hist /\ was.now = f.now
        /\ was.inputs = Append(f.inputs, m) /\ was.batch = f.batch
        /\ was.diverged = f.diverged /\ was.overtaken = f.overtaken
    <2>1. Append(f.inputs, m) \in Seq(Moves)
      BY <1>3
    <2> DEFINE i == Append(f.inputs, m)
    <2>2. was = [f EXCEPT !.inputs = i]
      BY <1>3
    <2> HIDE DEF i, was
    <2>3. i = Append(f.inputs, m)
      BY DEF i
    <2>4. was \in Simulations /\ was.match = f.match /\ was.hist = f.hist /\ was.now = f.now
          /\ was.inputs = i /\ was.batch = f.batch /\ was.diverged = f.diverged /\ was.overtaken = f.overtaken
      BY <1>3, <2>1, <2>2, <2>3 DEF Simulations
    <2> QED
      BY <1>1, <1>2, <2>3, <2>4 DEF ViewRead, Sized, Ended, Turn
  <1> HIDE DEF was
  <1>5. Sized(new) /\ StepsOn(was, m, new)
    BY <1>4, StepSteps
  <1> HIDE DEF new
  <1>6. new \in Simulations /\ new.hist \in Seq(Turns) /\ new.inputs \in Seq(Moves)
    BY <1>5 DEF Sized, Simulations
  <1>7. Sized(s) /\ s.match = new.match /\ s.hist = new.hist /\ s.now = new.now /\ s.batch = new.batch
        /\ s.inputs = <<>> /\ s.diverged = new.diverged /\ s.overtaken = new.overtaken
    <2>1. <<>> \in Seq(Moves)
      OBVIOUS
    <2>2. s \in Simulations /\ s.match = new.match /\ s.hist = new.hist /\ s.now = new.now /\ s.batch = new.batch
          /\ s.inputs = <<>> /\ s.diverged = new.diverged /\ s.overtaken = new.overtaken
      BY <1>6, <2>1 DEF Simulations
    <2> QED
      BY <1>5, <2>2 DEF Sized
  <1> HIDE DEF s
  <1>8. /\ session \in [up : BOOLEAN, opened : BOOLEAN, queue : Seq(Commands),
                        view : {NoMatch, "this", "other"}, head : -1..MaxTurns]
        /\ session.queue \in Seq(Commands) /\ cmd \in Commands /\ Len(session.queue) \in Nat
    BY <1>6 DEF WindowInv, WindowSized, Commands
  <1>9. new.match = "this" /\ ~new.diverged /\ new.batch = f.batch /\ new.inputs = Append(f.inputs, m)
        /\ new.overtaken = f.overtaken
    BY <1>2, <1>4, <1>5 DEF StepsOn
  (* The turn that is being played is the one at the head of the journal. *)
  <1>10. ASSUME ~f.overtaken
         PROVE  /\ f.hist = journal.log /\ Turn(f) = Len(journal.log) /\ session.queue = <<>>
                /\ journal.reserved = <<>> /\ f.batch = <<>> /\ f.inputs = f.now
    <2>0. journal.log \in Seq(Turns) /\ Len(journal.log) \in Nat /\ session.head = Len(journal.log)
          /\ Turn(f) = Len(journal.log)
      BY <1>1, <1>2 DEF WindowInv, WindowSized, ViewRead
    <2>1. ASSUME NEW x \in Turns, AheadBy(f, x) PROVE FALSE
      <3>1. Turn(f) = Len(journal.log) + 1
        BY <2>0, <2>1 DEF AheadBy, Turn
      <3> QED
        BY <2>0, <3>1
    <2>2. Within(f)
      BY <1>1, <1>2, <1>10, <2>1 DEF ViewRead, Faithful
    <2>3. f.hist = journal.log
      BY <2>0, <2>2, WholePrefix DEF Within
    <2> QED
      BY <2>0, <2>2, <2>3 DEF Within
  <1>11. CASE Turn(new) = Turn(was) /\ game' = new /\ UNCHANGED session
    <2>1. new.hist = f.hist /\ new.now = Append(f.now, m)
      <3>1. Turn(new) = Turn(f)
        BY <1>4, <1>11 DEF Turn
      <3>2. Len(Append(f.hist, Append(f.now, m))) # Len(f.hist)
        BY <1>3
      <3> QED
        BY <1>4, <1>5, <3>1, <3>2 DEF StepsOn, Turn
    <2>2. ASSUME ~new.overtaken PROVE Within(new)
      <3>1. new.now # <<>> /\ new.inputs = new.now /\ new.batch = <<>> /\ Turn(new) = Len(journal.log)
            /\ new.hist = f.hist
        BY <1>3, <1>9, <1>10, <2>1, <2>2 DEF Turn
      <3>3. new.hist = SubSeq(journal.log, 1, Turn(new))
        BY <1>9, <1>10, <2>2, <3>1, WholePrefix DEF WindowInv, WindowSized
      <3>4. Len(journal.log) \in Nat
        BY DEF WindowInv, WindowSized
      <3>5. session.queue = <<>> /\ journal.reserved = <<>> /\ OwnTurn(Turn(new))
        BY <1>2, <1>9, <1>10, <2>2, <3>1
      <3> QED
        BY <3>1, <3>3, <3>4, <3>5 DEF Within
    <2> QED
      BY <1>2, <1>5, <1>9, <1>11, <2>2, GameMoves
  <1>12. ASSUME Turn(new) # Turn(was)
         PROVE  /\ Append(f.now, m) \in Turns /\ new.hist = Append(f.hist, Append(f.now, m)) /\ new.now = <<>>
    BY <1>4, <1>5, <1>12 DEF StepsOn, Turn
  <1>13. CASE Turn(new) # Turn(was) /\ Len(session.queue) < QueueSize /\ game' = s /\ session' = k
    <2>1. /\ k \in [up : BOOLEAN, opened : BOOLEAN, queue : Seq(Commands),
                    view : {NoMatch, "this", "other"}, head : -1..MaxTurns]
          /\ k.up = session.up /\ k.opened = session.opened /\ k.view = session.view /\ k.head = session.head
          /\ k.queue = Append(session.queue, cmd)
      <3> DEFINE q == Append(session.queue, cmd)
      <3>1. q \in Seq(Commands) /\ k = [session EXCEPT !.queue = q]
        BY <1>8
      <3> HIDE DEF q, cmd
      <3>2. k.queue = q /\ q = Append(session.queue, cmd)
        BY <1>8, <3>1 DEF q
      <3> HIDE DEF k
      <3> QED
        BY <1>8, <3>1, <3>2
    <2>2. Len(Append(session.queue, cmd)) = Len(session.queue) + 1
      BY <1>8
    <2> HIDE DEF k
    <2>3. WindowSized'
      <3>1. session' = k /\ journal' = journal
        BY <1>2, <1>13
      <3>2. Len(k.queue) <= QueueSize
        BY <1>8, <1>13, <2>1, <2>2, WindowAssumption
      <3> QED
        BY <2>1, <3>1, <3>2 DEF WindowInv, WindowSized
    <2>4. HeadInv'
      BY <1>2, <1>13, <2>1 DEF WindowInv, HeadInv
    <2>5. Sized(game)'
      BY <1>7, <1>13 DEF Sized, Simulations
    <2>6. ASSUME ~new.overtaken PROVE (\E x \in Turns : AheadBy(game, x))'
      <3> PICK a \in Turns : a = Append(f.now, m)
        BY <1>12, <1>13
      <3>1. new.inputs = Append(f.now, m) /\ new.hist = Append(journal.log, Append(f.now, m))
            /\ session.queue = <<>> /\ journal.reserved = <<>> /\ OwnTurn(Len(journal.log)) /\ new.batch = <<>>
        BY <1>2, <1>9, <1>10, <1>12, <1>13, <2>6
      <3>2. s.batch = <<>> /\ s.now = <<>> /\ s.inputs = <<>> /\ s.hist = new.hist
        BY <1>7, <1>12, <1>13, <3>1
      <3>3. k.queue = <<cmd>>
        BY <1>8, <2>1, <3>1
      <3>4. game' = s /\ session' = k /\ journal' = journal
        BY <1>2, <1>13
      <3>5. cmd = [after |-> s.hist, inputs |-> Append(f.now, m)]
        BY <3>1, <3>2
      <3> HIDE DEF cmd
      <3>6. AheadBy(game, a)'
        BY <3>1, <3>2, <3>3, <3>4, <3>5 DEF AheadBy
      <3> QED
        BY <3>6
    <2>7. Faithful(game)'
      BY <1>7, <1>9, <1>12, <1>13, <2>6 DEF Faithful
    <2> QED
      BY <2>3, <2>4, <2>5, <2>7 DEF WindowInv
  <1>14. CASE Turn(new) # Turn(was) /\ ~(Len(session.queue) < QueueSize) /\ game' = new /\ UNCHANGED session
    <2>1. new.overtaken
      <3>1. session.queue = <<>> => Len(session.queue) = 0
        OBVIOUS
      <3> QED
        BY <1>9, <1>10, <1>14, <3>1, WindowAssumption
    <2> QED
      BY <1>2, <1>5, <1>14, <2>1, GameMoves
  <1> QED
    BY <1>2, <1>11, <1>13, <1>14

LEMMA RemoteFrameKeeps ==
  ASSUME WindowInv, RemoteFrame PROVE WindowInv'
  <1> DEFINE f == pollSession
             was == IF f.batch = <<>> THEN [f EXCEPT !.batch = journal.log[Turn(f) + 1]] ELSE f
             m == was.batch[Len(was.now) + 1]
             new == step(was, m)
             n == [new EXCEPT !.batch = <<>>, !.diverged = ~IsPrefix(new.hist, journal.log)]
  <1>1. ViewRead(f)
    BY PollReads
  <1>2. /\ f.match = "this" /\ ~Ended(f)
        /\ ~LocalTurn(f) /\ ~f.submitted
        /\ f.batch # <<>> \/ Turn(f) < Len(journal.log)
        /\ \/ Turn(new) = Turn(was) /\ game' = new
           \/ Turn(new) # Turn(was) /\ game' = n
        /\ UNCHANGED <<session, journal>>
    BY DEF RemoteFrame, Playing
  <1> HIDE DEF f
  <1>3. /\ f \in Simulations /\ f.now \in Seq(Moves) /\ f.hist \in Seq(Turns) /\ Turn(f) \in Nat
        /\ Len(f.now) \in Nat /\ Len(f.now) < TurnTicks /\ f.batch \in Turns \cup {<<>>}
        /\ journal.log \in Seq(Turns) /\ Len(journal.log) \in Nat
    BY <1>1 DEF ViewRead, Sized, Simulations, Turn, WindowInv, WindowSized
  <1>4. /\ Sized(was) /\ was.match = f.match /\ was.hist = f.hist /\ was.now = f.now /\ was.inputs = f.inputs
        /\ was.diverged = f.diverged /\ was.overtaken = f.overtaken
        /\ was.batch \in Turns
        /\ was.batch = (IF f.batch = <<>> THEN journal.log[Turn(f) + 1] ELSE f.batch)
    <2>1. CASE f.batch = <<>>
      <3>1. journal.log[Turn(f) + 1] \in Turns
        BY <1>2, <1>3, <2>1
      <3> DEFINE b == journal.log[Turn(f) + 1]
      <3>2. was = [f EXCEPT !.batch = b] /\ b \in Turns
        BY <2>1, <3>1
      <3>3. b = journal.log[Turn(f) + 1]
        OBVIOUS
      <3> HIDE DEF b, was
      <3>4. was \in Simulations /\ was.match = f.match /\ was.hist = f.hist /\ was.now = f.now /\ was.inputs = f.inputs
            /\ was.diverged = f.diverged /\ was.overtaken = f.overtaken /\ was.batch = b
        BY <1>3, <3>2 DEF Simulations
      <3> QED
        BY <1>1, <2>1, <3>2, <3>3, <3>4 DEF ViewRead, Sized
    <2>2. CASE f.batch # <<>>
      <3>1. was = f
        BY <2>2
      <3> QED
        BY <1>1, <1>3, <2>2, <3>1 DEF ViewRead
    <2> QED
      BY <2>1, <2>2
  <1> HIDE DEF was
  <1>5. m \in Moves
    <2>1. Len(was.now) + 1 \in 1..TurnTicks
      BY <1>3, <1>4, WindowAssumption
    <2> QED
      BY <1>4, <2>1 DEF Turns
  <1>6. Sized(new) /\ StepsOn(was, m, new)
    BY <1>2, <1>4, <1>5, StepSteps DEF Ended, Turn
  <1>7. ASSUME ~f.overtaken
        PROVE  /\ Turn(f) < Len(journal.log) /\ f.hist = SubSeq(journal.log, 1, Turn(f))
               /\ session.queue = <<>> /\ journal.reserved = <<>>
               /\ was.batch = journal.log[Turn(f) + 1] /\ f.inputs = <<>>
               /\ f.now = SubSeq(was.batch, 1, Len(f.now)) /\ ~f.diverged
    <2>1. ASSUME NEW x \in Turns, AheadBy(f, x) PROVE FALSE
      BY <1>2, <1>3, <2>1 DEF AheadBy, Turn
    <2>2. Within(f) /\ ~f.diverged
      BY <1>1, <1>2, <1>7, <2>1 DEF ViewRead, Faithful
    <2>3. \A b : SubSeq(b, 1, 0) = <<>>
      OBVIOUS
    <2>4. CASE f.batch = <<>> /\ f.now = <<>> /\ f.inputs = <<>>
      <3>1. Len(f.now) = 0
        BY <2>4
      <3> QED
        BY <1>2, <1>3, <1>4, <2>2, <2>3, <2>4, <3>1 DEF Within
    <2>5. CASE /\ f.batch # <<>> /\ Turn(f) < Len(journal.log) /\ f.batch = journal.log[Turn(f) + 1]
               /\ f.now = SubSeq(f.batch, 1, Len(f.now)) /\ f.inputs = <<>>
      BY <1>4, <2>2, <2>5 DEF Within
    <2>6. CASE f.batch = <<>> /\ Turn(f) = Len(journal.log)
      BY <1>2, <1>3, <2>6
    <2> QED
      BY <2>2, <2>4, <2>5, <2>6 DEF Within
  <1>8. was.batch \in Seq(Moves) /\ Len(was.batch) = TurnTicks /\ was.batch # <<>>
    BY <1>4, TurnsAreSequences
  <1>9. ASSUME ~f.overtaken PROVE Append(f.now, m) = SubSeq(was.batch, 1, Len(f.now) + 1)
    <2>1. Append(SubSeq(was.batch, 1, Len(f.now)), was.batch[Len(f.now) + 1]) = SubSeq(was.batch, 1, Len(f.now) + 1)
      BY <1>3, <1>8, PrefixGrows
    <2> QED
      BY <1>4, <1>7, <1>9, <2>1
  <1> HIDE DEF m, new
  <1>10. new.overtaken = f.overtaken /\ new.match = "this" /\ new.inputs = f.inputs /\ new.batch = was.batch
         /\ new.diverged = f.diverged
    BY <1>2, <1>4, <1>6 DEF StepsOn
  <1>11. CASE Turn(new) = Turn(was) /\ game' = new
    <2>1. new.hist = f.hist /\ new.now = Append(f.now, m)
      <3>1. Turn(new) = Turn(f)
        BY <1>4, <1>11 DEF Turn
      <3>2. Len(Append(f.hist, Append(f.now, m))) # Len(f.hist)
        BY <1>3
      <3> QED
        BY <1>4, <1>6, <3>1, <3>2 DEF StepsOn, Turn
    <2>2. ASSUME ~new.overtaken PROVE Within(new) /\ ~new.diverged
      <3>1. Len(new.now) = Len(f.now) + 1
        BY <1>3, <2>1
      <3>2. new.now = SubSeq(new.batch, 1, Len(new.now))
        BY <1>9, <1>10, <2>1, <2>2, <3>1
      <3> QED
        BY <1>3, <1>7, <1>8, <1>10, <2>1, <2>2, <3>2 DEF Within, Turn
    <2> QED
      BY <1>2, <1>6, <1>11, <2>2, GameMoves
  <1>12. CASE Turn(new) # Turn(was) /\ game' = n
    <2>1. /\ n \in Simulations /\ n.batch = <<>> /\ n.diverged = ~IsPrefix(new.hist, journal.log)
          /\ n.match = new.match /\ n.hist = new.hist /\ n.now = new.now /\ n.inputs = new.inputs
          /\ n.overtaken = new.overtaken
      <3> DEFINE d == ~IsPrefix(new.hist, journal.log)
      <3>1. d \in BOOLEAN
        BY DEF IsPrefix
      <3>2. n = [new EXCEPT !.batch = <<>>, !.diverged = d] /\ new \in Simulations
        BY <1>6 DEF Sized
      <3> HIDE DEF d, n
      <3>3. n \in Simulations /\ n.batch = <<>> /\ n.diverged = d
            /\ n.match = new.match /\ n.hist = new.hist /\ n.now = new.now /\ n.inputs = new.inputs
            /\ n.overtaken = new.overtaken
        BY <3>1, <3>2 DEF Simulations
      <3> QED
        BY <3>3 DEF d
    <2> HIDE DEF n
    <2>2. Sized(n)
      BY <1>6, <2>1 DEF Sized
    <2>3. ASSUME ~f.overtaken PROVE Within(n) /\ ~n.diverged
      <3>1. Len(f.now) + 1 = TurnTicks /\ new.hist = Append(f.hist, Append(f.now, m)) /\ new.now = <<>>
        BY <1>4, <1>6, <1>12 DEF StepsOn, Turn
      <3>2. Append(f.now, m) = was.batch
        BY <1>8, <1>9, <2>3, <3>1, WholePrefix
      <3>3. new.hist = SubSeq(journal.log, 1, Turn(f) + 1)
        BY <1>3, <1>7, <2>3, <3>1, <3>2, PrefixGrows
      <3>4. Len(new.hist) = Turn(f) + 1
        BY <1>3, <1>7, <2>3, <3>3
      <3>5. IsPrefix(new.hist, journal.log)
        <4>1. SubSeq(new.hist, 1, Len(new.hist)) = new.hist
          BY <1>6, WholePrefix DEF Sized, Simulations
        <4> QED
          BY <1>3, <1>7, <2>3, <3>3, <3>4, <4>1 DEF IsPrefix
      <3>6. Turn(n) = Turn(f) + 1 /\ n.hist = SubSeq(journal.log, 1, Turn(n)) /\ Turn(n) <= Len(journal.log)
        BY <1>3, <1>7, <2>1, <2>3, <3>3, <3>4 DEF Turn
      <3>7. n.batch = <<>> /\ n.now = <<>> /\ n.inputs = <<>> /\ ~n.diverged
        BY <1>7, <1>10, <2>1, <2>3, <3>1, <3>5
      <3> QED
        BY <1>7, <2>3, <3>6, <3>7 DEF Within
    <2> QED
      BY <1>2, <1>10, <1>12, <2>1, <2>2, <2>3, GameMoves
  <1> QED
    BY <1>2, <1>11, <1>12

LEMMA WindowKeeps ==
  ASSUME WindowInv, [WindowNext]_windowVars PROVE WindowInv'
  <1> DEFINE Sessions == [up : BOOLEAN, opened : BOOLEAN, queue : Seq(Commands),
                          view : {NoMatch, "this", "other"}, head : -1..MaxTurns]
  <1>1. /\ Sized(game) /\ WindowSized /\ HeadInv /\ Faithful(game)
        /\ journal.log \in Seq(Turns) /\ Len(journal.log) \in Nat /\ journal.reserved \in Turns \cup {<<>>}
        /\ session \in Sessions /\ session.queue \in Seq(Commands) /\ MaxTurns \in Nat /\ QueueSize \in Nat \ {0}
    BY WindowAssumption DEF WindowInv, WindowSized
  <1>2. ASSUME UNCHANGED windowVars PROVE WindowInv'
    BY <1>2 DEF windowVars, WindowInv, Sized, Simulations, WindowSized, HeadInv, Faithful, Within, AheadBy, Turn
  <1>3. ASSUME NEW m \in Moves, LocalFrame(m) PROVE WindowInv'
    BY <1>3, LocalFrameKeeps
  <1>4. CASE RemoteFrame
    BY <1>4, RemoteFrameKeeps
  <1>5. CASE IdleFrame
    <2>1. ViewRead(pollSession)
      BY PollReads
    <2> QED
      BY <1>5, <2>1, GameMoves DEF IdleFrame, ViewRead, Faithful
  (* No session: whatever was on its way is gone. *)
  <1>6. <<>> \in Seq(Commands) /\ Len(<<>>) = 0 /\ -1 \in -1..MaxTurns
    BY <1>1
  <1>7. NoSession \in Sessions
    BY <1>6 DEF NoSession
  <1>8. NoSession.queue = <<>> /\ ~NoSession.up /\ NoSession.head = -1 /\ NoSession.view = NoMatch
        /\ NoSession.opened = FALSE
    BY DEF NoSession
  <1>9. ASSUME session'.queue = <<>>, UNCHANGED <<game, journal>> PROVE Faithful(game)'
    BY <1>1, <1>9 DEF Faithful, Within, AheadBy, Turn
  <1>10. CASE connectBridge
    <2> DEFINE s == [NoSession EXCEPT !.up = TRUE]
    <2>1. s \in Sessions /\ s.queue = <<>> /\ s.head = -1 /\ s.up
      BY <1>7, <1>8
    <2> HIDE DEF s
    <2>2. session' = s /\ UNCHANGED <<game, journal>>
      BY <1>10 DEF connectBridge, s
    <2>3. WindowSized'
      BY <1>1, <1>6, <2>1, <2>2 DEF WindowSized
    <2>4. HeadInv'
      BY <1>1, <2>1, <2>2 DEF HeadInv
    <2> QED
      BY <1>1, <1>9, <2>1, <2>2, <2>3, <2>4 DEF WindowInv, Sized, Simulations
  <1>11. CASE stopBridge
    <2>1. session' = NoSession /\ UNCHANGED <<game, journal>>
      BY <1>11 DEF stopBridge
    <2>2. WindowSized'
      BY <1>1, <1>6, <1>7, <1>8, <2>1 DEF WindowSized
    <2>3. HeadInv'
      BY <1>1, <1>8, <2>1 DEF HeadInv, NoSession
    <2> QED
      BY <1>1, <1>8, <1>9, <2>1, <2>2, <2>3 DEF WindowInv, Sized, Simulations
  <1>12. Sized(NoGame) /\ Faithful(NoGame)
    <2>1. <<>> \in Seq(Moves) /\ <<>> \in Seq(Turns) /\ Len(<<>>) = 0 /\ MaxTurns \in Nat /\ TurnTicks \in Nat \ {0}
      BY WindowAssumption
    <2> QED
      BY <2>1 DEF NoGame, NoMatch, Sized, Simulations, Faithful
  <1>13. CASE Quit
    <2>1. session' = NoSession /\ game' = NoGame /\ UNCHANGED journal
      BY <1>13 DEF Quit
    <2>2. WindowSized'
      BY <1>1, <1>6, <1>7, <1>8, <2>1 DEF WindowSized
    <2>3. HeadInv'
      BY <1>1, <1>8, <2>1 DEF HeadInv, NoSession
    <2>4. Sized(game)'
      BY <1>12, <2>1 DEF Sized, Simulations
    <2>5. Faithful(game)'
      BY <2>1 DEF Faithful, NoGame, NoMatch
    <2> QED
      BY <2>2, <2>3, <2>4, <2>5 DEF WindowInv
  (* The journal takes a turn: the one that the window has played, or one    *)
  (* that the window has yet to show.                                        *)
  <1>14. ASSUME NEW b \in Turns, journal.log' = Append(journal.log, b), Len(journal.log) < MaxTurns
         PROVE  /\ journal.log' \in Seq(Turns) /\ Len(journal.log') = Len(journal.log) + 1
                /\ Len(journal.log') \in -1..MaxTurns
    BY <1>1, <1>14
  <1>15. ASSUME NEW b \in Turns, AheadBy(game, b), journal'.log = Append(journal.log, b),
                UNCHANGED game, journal'.reserved = <<>>, session'.queue = <<>>
         PROVE  Within(game)'
    <2>1. game.hist = journal'.log /\ journal'.log \in Seq(Turns)
      BY <1>1, <1>15 DEF AheadBy
    <2>2. SubSeq(journal'.log, 1, Len(journal'.log)) = journal'.log /\ Len(journal'.log) \in Nat
      BY <2>1, WholePrefix
    <2>3. game.batch = <<>> /\ game.now = <<>> /\ game.inputs = <<>>
      BY <1>15 DEF AheadBy
    <2>4. Turn(game) = Len(journal'.log)
      BY <2>1 DEF Turn
    <2>5. game' = game /\ session'.queue = <<>> /\ journal'.reserved = <<>>
      BY <1>15
    <2> QED
      BY ONLY <2>1, <2>2, <2>3, <2>4, <2>5 DEF Within, Turn
  <1>17. CASE refresh
    <2> DEFINE resumes == ~session.opened /\ journal.reserved # <<>>
    <2>1. /\ session.up /\ UNCHANGED game
          /\ session' = [session EXCEPT !.opened = TRUE, !.view = "this", !.head = Len(journal'.log)]
          /\ \/ resumes /\ journal' = [log |-> Append(journal.log, journal.reserved), reserved |-> <<>>]
             \/ ~resumes /\ UNCHANGED journal
      BY <1>17 DEF refresh
    <2>2. /\ journal' \in [log : Seq(Turns), reserved : Turns \cup {<<>>}] /\ Len(journal'.log) <= MaxTurns
          /\ Len(journal'.log) \in Nat
          /\ journal'.reserved # <<>> => OwnTurn(Len(journal'.log)) /\ Len(journal'.log) < MaxTurns
      <3>1. CASE resumes
        <4>1. journal.reserved \in Turns /\ Len(journal.log) < MaxTurns
          BY <1>1, <3>1 DEF HeadInv
        <4> DEFINE l == Append(journal.log, journal.reserved)
        <4>2. l \in Seq(Turns) /\ Len(l) = Len(journal.log) + 1
          BY <1>1, <4>1
        <4>3. journal' = [log |-> l, reserved |-> <<>>]
          BY <2>1, <3>1
        <4> HIDE DEF l
        <4>4. Len(l) <= MaxTurns /\ Len(l) \in Nat
          BY <1>1, <4>1, <4>2
        <4> QED
          BY <4>2, <4>3, <4>4
      <3>2. CASE ~resumes
        BY <1>1, <2>1, <3>2 DEF WindowSized, HeadInv
      <3> QED
        BY <3>1, <3>2
    <2>3. /\ session' \in Sessions /\ session'.queue = session.queue /\ session'.up /\ session'.opened
          /\ session'.view = "this" /\ session'.head = Len(journal'.log)
      <3> DEFINE n == Len(journal'.log)
      <3>1. n \in -1..MaxTurns /\ session' = [session EXCEPT !.opened = TRUE, !.view = "this", !.head = n]
        BY <1>1, <2>1, <2>2
      <3> HIDE DEF n
      <3>2. session' \in Sessions /\ session'.queue = session.queue /\ session'.up = session.up /\ session'.opened
            /\ session'.view = "this" /\ session'.head = n
        BY <1>1, <3>1
      <3> QED
        BY <2>1, <3>2 DEF n
    <2>4. WindowSized'
      BY <1>1, <2>2, <2>3 DEF WindowSized
    <2>5. HeadInv'
      BY <2>2, <2>3 DEF HeadInv
    <2>6. Faithful(game)'
      <3>1. CASE ~resumes
        BY <1>1, <2>1, <2>3, <3>1 DEF Faithful, Within, AheadBy, Turn
      <3>2. CASE resumes
        <4>1. session.queue = <<>>
          BY <1>1, <3>2 DEF HeadInv
        <4>2. journal'.log = Append(journal.log, journal.reserved) /\ journal'.reserved = <<>>
          BY <2>1, <3>2
        <4>3. ASSUME NEW x \in Turns, AheadBy(game, x) PROVE Within(game)'
          BY <1>15, <2>1, <2>3, <3>2, <4>1, <4>2, <4>3 DEF AheadBy
        <4>4. ~Within(game)
          BY <3>2 DEF Within
        <4> QED
          BY <1>1, <2>1, <4>3, <4>4 DEF Faithful
      <3> QED
        BY <3>1, <3>2
    <2> QED
      BY <1>1, <2>1, <2>4, <2>5, <2>6 DEF WindowInv, Sized, Simulations
  <1>18. ASSUME NEW u \in {"this", "other"}, NEW n \in {-1, 0}, u = "other" \/ n = -1, session.opened, session.up,
                session' = [session EXCEPT !.view = u, !.head = n], UNCHANGED <<game, journal>>
         PROVE  WindowInv'
    <2>1. n \in -1..MaxTurns
      BY <1>1
    <2>2. /\ session' \in Sessions /\ session'.queue = session.queue /\ session'.up = session.up
          /\ session'.opened = session.opened /\ session'.view = u /\ session'.head = n
      BY <1>1, <1>18, <2>1
    <2>3. WindowSized'
      BY <1>1, <1>18, <2>2 DEF WindowSized
    <2>4. HeadInv'
      BY <1>1, <1>18, <2>2 DEF HeadInv
    <2>5. Faithful(game)'
      BY <1>1, <1>18, <2>2 DEF Faithful, Within, AheadBy, Turn
    <2> QED
      BY <1>1, <1>18, <2>3, <2>4, <2>5 DEF WindowInv, Sized, Simulations
  <1>19. CASE refreshEarly
    <2>1. session.head >= 0 /\ session.up /\ session' = [session EXCEPT !.view = "this", !.head = -1]
          /\ UNCHANGED <<game, journal>>
      BY <1>19 DEF refreshEarly
    <2> QED
      BY <1>1, <1>18, <2>1 DEF HeadInv
  <1>20. CASE refreshOther
    BY <1>18, <1>20 DEF refreshOther
  (* What the loop does with the turn at the head of the queue. *)
  <1>21. ASSUME session.queue # <<>>
         PROVE  /\ Head(session.queue) \in Commands /\ Tail(session.queue) \in Seq(Commands)
                /\ Len(Tail(session.queue)) <= QueueSize
                /\ session.opened /\ session.up
                /\ ~Within(game)
                /\ \A x \in Turns : AheadBy(game, x) =>
                     Head(session.queue) = [after |-> game.hist, inputs |-> x] /\ Tail(session.queue) = <<>>
    <2>1. Head(session.queue) \in Commands /\ Tail(session.queue) \in Seq(Commands)
          /\ Len(Tail(session.queue)) <= QueueSize
      BY <1>1, <1>21 DEF WindowSized
    <2>2. session.opened /\ session.up /\ ~Within(game)
      BY <1>1, <1>21 DEF HeadInv, NoSession, Within
    <2>3. ASSUME NEW x \in Turns, AheadBy(game, x)
          PROVE  Head(session.queue) = [after |-> game.hist, inputs |-> x] /\ Tail(session.queue) = <<>>
      <3>1. session.queue = <<[after |-> game.hist, inputs |-> x]>>
        BY <1>21, <2>3 DEF AheadBy
      <3> QED
        BY <3>1
    <2> QED
      BY <2>1, <2>2, <2>3
  <1>22. ASSUME NEW cmd \in Commands, Accepts(cmd)
         PROVE  /\ cmd.inputs \in Turns /\ Len(journal.log) < MaxTurns /\ OwnTurn(Len(journal.log))
                /\ cmd.after = Append(journal.log, cmd.inputs)
    <2>1. cmd.after \in Seq(Turns) /\ cmd.after = Append(journal.log, cmd.inputs)
      BY <1>22 DEF Accepts, Commands
    <2>2. Len(cmd.after) = Len(journal.log) + 1 /\ cmd.after[Len(journal.log) + 1] = cmd.inputs
      BY <1>1, <2>1
    <2>3. cmd.after[Len(journal.log) + 1] \in Turns
      BY <1>1, <2>1, <2>2
    <2> QED
      BY <1>22, <2>1, <2>2, <2>3 DEF Accepts
  (* The head that is published with a journal that has changed. *)
  <1>23. ASSUME NEW k \in Sessions, k.view = session.view, k.head = session.head, k.opened = session.opened,
                k.up = session.up, session' = Published(k), Len(journal'.log) \in -1..MaxTurns,
                session.opened, Len(k.queue) <= QueueSize,
                journal' \in [log : Seq(Turns), reserved : Turns \cup {<<>>}],
                journal'.reserved # <<>> => OwnTurn(Len(journal'.log)) /\ Len(journal'.log) < MaxTurns
         PROVE  WindowSized' /\ HeadInv' /\ session'.queue = k.queue
    <2>1. session.up
      BY <1>1, <1>23 DEF HeadInv, NoSession
    <2> DEFINE n == Len(journal'.log)
    <2>2. CASE session.view = "this"
      <3>1. session' = [k EXCEPT !.head = n]
        BY <1>23, <2>2 DEF Published
      <3>2. n \in -1..MaxTurns
        BY <1>23
      <3>3. n = Len(journal'.log)
        OBVIOUS
      <3> HIDE DEF n
      <3>4. session' \in Sessions /\ session'.queue = k.queue /\ session'.up = k.up /\ session'.opened = k.opened
            /\ session'.view = k.view /\ session'.head = n
        BY <1>23, <3>1, <3>2
      <3>5. WindowSized'
        BY <1>23, <3>2, <3>3, <3>4, <1>1 DEF WindowSized
      <3>6. HeadInv'
        BY <1>23, <2>1, <2>2, <3>3, <3>4 DEF HeadInv
      <3> QED
        BY <3>4, <3>5, <3>6
    <2>3. CASE session.view # "this"
      <3>1. session' = k
        BY <1>23, <2>3 DEF Published
      <3>2. WindowSized'
        BY <1>1, <1>23, <3>1 DEF WindowSized
      <3>3. HeadInv'
        BY <1>1, <1>23, <2>1, <2>3, <3>1 DEF HeadInv
      <3> QED
        BY <3>1, <3>2, <3>3
    <2> QED
      BY <2>2, <2>3
  <1>24. ASSUME session.queue # <<>>
         PROVE  LET k == [session EXCEPT !.queue = Tail(@)]
                IN  /\ k \in Sessions /\ k.queue = Tail(session.queue) /\ k.up = session.up
                    /\ k.opened = session.opened /\ k.view = session.view /\ k.head = session.head
    <2> DEFINE i == Tail(session.queue)
    <2>1. i \in Seq(Commands)
      BY <1>21, <1>24
    <2> HIDE DEF i
    <2>2. LET n == [session EXCEPT !.queue = i]
          IN  /\ n \in Sessions /\ n.queue = i /\ n.up = session.up
              /\ n.opened = session.opened /\ n.view = session.view /\ n.head = session.head
      BY <1>1, <2>1
    <2> QED
      BY <1>1, <2>2 DEF i
  <1>25. CASE submit
    <2> DEFINE k == [session EXCEPT !.queue = Tail(@)]
               cmd == Head(session.queue)
    <2>1. /\ session.queue # <<>> /\ UNCHANGED game /\ session' = Published(k)
          /\ \/ Accepts(cmd) /\ journal' = [log |-> Append(journal.log, cmd.inputs), reserved |-> <<>>]
             \/ ~Accepts(cmd) /\ journal' = journal
      BY <1>25 DEF submit
    <2>2. k \in Sessions /\ k.queue = Tail(session.queue) /\ k.up = session.up
          /\ k.opened = session.opened /\ k.view = session.view /\ k.head = session.head
      BY <1>24, <2>1
    <2>3. cmd \in Commands /\ Len(k.queue) <= QueueSize /\ session.opened /\ ~Within(game)
          /\ \A x \in Turns : AheadBy(game, x) => cmd = [after |-> game.hist, inputs |-> x] /\ k.queue = <<>>
      BY <1>21, <2>1, <2>2
    <2> HIDE DEF k, cmd
    <2>4. CASE Accepts(cmd) /\ journal' = [log |-> Append(journal.log, cmd.inputs), reserved |-> <<>>]
      <3> DEFINE l == Append(journal.log, cmd.inputs)
      <3>1. cmd.inputs \in Turns /\ Len(journal.log) < MaxTurns
        BY <1>22, <2>3, <2>4
      <3>2. l \in Seq(Turns) /\ Len(l) \in -1..MaxTurns
        BY <1>1, <3>1
      <3>3. journal' = [log |-> l, reserved |-> <<>>]
        BY <2>4
      <3>4. l = Append(journal.log, cmd.inputs)
        OBVIOUS
      <3> HIDE DEF l
      <3>5. WindowSized' /\ HeadInv' /\ session'.queue = k.queue
        BY <1>23, <2>1, <2>2, <2>3, <3>2, <3>3
      <3>6. ASSUME NEW x \in Turns, AheadBy(game, x) PROVE Within(game)'
        BY <1>15, <2>1, <2>3, <3>3, <3>4, <3>5, <3>6
      <3>7. Faithful(game)'
        BY <1>1, <2>1, <2>3, <3>6 DEF Faithful
      <3> QED
        BY <1>1, <2>1, <3>5, <3>7 DEF WindowInv, Sized, Simulations
    <2>5. CASE ~Accepts(cmd) /\ journal' = journal
      <3>1. WindowSized' /\ HeadInv' /\ session'.queue = k.queue
        <4>1. Len(journal.log) \in -1..MaxTurns
          BY <1>1 DEF WindowSized
        <4> QED
          BY <1>1, <1>23, <2>1, <2>2, <2>3, <2>5, <4>1 DEF WindowSized, HeadInv
      <3>2. Faithful(game)'
        BY <1>1, <2>1, <2>3, <2>5, <3>1 DEF Faithful, AheadBy
      <3> QED
        BY <1>1, <2>1, <3>1, <3>2 DEF WindowInv, Sized, Simulations
    <2> QED
      BY <2>1, <2>4, <2>5
  <1>26. CASE submitFails
    <2> DEFINE k == [session EXCEPT !.queue = Tail(@)]
               cmd == Head(session.queue)
    <2>1. /\ session.queue # <<>> /\ UNCHANGED game /\ session' = k /\ Accepts(cmd)
          /\ journal' = [journal EXCEPT !.reserved = cmd.inputs]
      BY <1>26 DEF submitFails
    <2>2. k \in Sessions /\ k.queue = Tail(session.queue) /\ k.up = session.up
          /\ k.opened = session.opened /\ k.view = session.view /\ k.head = session.head
      BY <1>24, <2>1
    <2>3. cmd \in Commands /\ Len(k.queue) <= QueueSize /\ session.opened /\ session.up /\ ~Within(game)
          /\ \A x \in Turns : AheadBy(game, x) => cmd = [after |-> game.hist, inputs |-> x] /\ k.queue = <<>>
      BY <1>21, <2>1, <2>2
    <2> HIDE DEF k, cmd
    <2>4. cmd.inputs \in Turns /\ Len(journal.log) < MaxTurns /\ OwnTurn(Len(journal.log))
      BY <1>22, <2>1, <2>3
    <2>5. journal'.log = journal.log /\ journal'.reserved = cmd.inputs
          /\ journal' \in [log : Seq(Turns), reserved : Turns \cup {<<>>}]
      BY <1>1, <2>1, <2>4 DEF WindowSized
    <2>6. WindowSized'
      BY <1>1, <2>1, <2>2, <2>3, <2>5 DEF WindowSized
    <2>7. HeadInv'
      BY <1>1, <2>1, <2>2, <2>3, <2>4, <2>5 DEF HeadInv
    <2>8. Faithful(game)'
      <3>1. ASSUME NEW x \in Turns, AheadBy(game, x) PROVE AheadBy(game, x)'
        <4>1. cmd.inputs = x /\ k.queue = <<>>
          BY <2>3, <3>1
        <4> QED
          BY <2>1, <2>5, <3>1, <4>1 DEF AheadBy
      <3> QED
        BY <1>1, <2>1, <2>3, <3>1 DEF Faithful
    <2> QED
      BY <1>1, <2>1, <2>6, <2>7, <2>8 DEF WindowInv, Sized, Simulations
  <1>27. CASE receive
    <2>1. /\ session.opened /\ Len(journal.log) < MaxTurns /\ ~OwnTurn(Len(journal.log))
          /\ session' = Published(session) /\ UNCHANGED game
      BY <1>27 DEF receive
    <2>2. PICK b \in Turns : journal' = [journal EXCEPT !.log = Append(@, b)]
      BY <1>27 DEF receive
    <2> DEFINE l == Append(journal.log, b)
    <2>3. l \in Seq(Turns) /\ Len(l) \in -1..MaxTurns
      BY <1>1, <2>1
    <2>4. journal' = [journal EXCEPT !.log = l] /\ l = Append(journal.log, b)
      BY <1>1, <2>2 DEF WindowSized
    <2> HIDE DEF l
    <2>5. journal'.log = l /\ journal'.reserved = journal.reserved
          /\ journal' \in [log : Seq(Turns), reserved : Turns \cup {<<>>}]
      BY <1>1, <2>3, <2>4 DEF WindowSized
    <2>6. journal.reserved = <<>>
      BY <1>1, <2>1 DEF HeadInv
    <2>7. WindowSized' /\ HeadInv' /\ session'.queue = session.queue
      <3>1. Len(session.queue) <= QueueSize
        BY <1>1 DEF WindowSized
      <3> QED
        BY <1>1, <1>23, <2>1, <2>3, <2>5, <2>6, <3>1
    <2>8. ASSUME Within(game) PROVE Within(game)'
      <3>1. Turn(game) \in Nat
        BY <1>1 DEF Sized, Simulations, Turn
      <3>2. /\ SubSeq(journal'.log, 1, Turn(game)) = SubSeq(journal.log, 1, Turn(game))
            /\ Turn(game) < Len(journal.log) => journal'.log[Turn(game) + 1] = journal.log[Turn(game) + 1]
            /\ Len(journal'.log) = Len(journal.log) + 1
        <4>1. Turn(game) <= Len(journal.log) /\ journal'.log = Append(journal.log, b)
          BY <2>4, <2>5, <2>8 DEF Within
        <4> QED
          BY ONLY <1>1, <3>1, <4>1, b \in Turns, PrefixOfAppend
      <3> QED
        BY <1>1, <2>1, <2>5, <2>7, <2>8, <3>1, <3>2 DEF Within, Turn
    <2>9. \A x \in Turns : ~AheadBy(game, x)
      BY <2>1 DEF AheadBy
    <2> QED
      BY <1>1, <2>1, <2>7, <2>8, <2>9 DEF WindowInv, Sized, Simulations, Faithful
  <1> QED
    BY <1>2, <1>3, <1>4, <1>5, <1>10, <1>11, <1>13, <1>17, <1>19, <1>20, <1>25, <1>26, <1>27 DEF WindowNext

(* Window: the inductive invariant.  Between frames the window is within    *)
(* the journal's turns, or ahead of them by the one turn it has played.    *)
THEOREM WindowInvariant == WindowSpec => []WindowInv
  <1>1. WindowInit => WindowInv
    <2>1. <<>> \in Seq(Moves) /\ <<>> \in Seq(Turns) /\ <<>> \in Seq(Commands) /\ Len(<<>>) = 0
          /\ MaxTurns \in Nat /\ QueueSize \in Nat \ {0} /\ TurnTicks \in Nat \ {0} /\ -1 \in -1..MaxTurns
      BY WindowAssumption
    <2> SUFFICES ASSUME WindowInit PROVE WindowInv
      OBVIOUS
    <2>2. Sized(game)
      BY <2>1 DEF WindowInit, NoGame, NoMatch, Sized, Simulations
    <2>3. WindowSized
      BY <2>1 DEF WindowInit, NoSession, WindowSized
    <2>4. HeadInv
      BY DEF WindowInit, NoSession, HeadInv
    <2>5. Faithful(game)
      BY DEF WindowInit, NoGame, NoMatch, Faithful
    <2> QED
      BY <2>2, <2>3, <2>4, <2>5 DEF WindowInv
  <1> QED
    BY <1>1, WindowKeeps, PTL DEF WindowSpec

(* Window: what is shown of the journal's turns is what the journal holds,  *)
(* and no replay diverges (network.go pollSession, updateRemoteTurn).      *)
THEOREM WindowIsFaithful == WindowSpec => []WindowShowsTheMatch
  <1>1. WindowInv => WindowShowsTheMatch
    <2> SUFFICES ASSUME WindowInv, ~game.overtaken
                 PROVE  ~game.diverged /\ (game.match = "this" =>
                          \A i \in 1..Turn(game) : i <= Len(journal.log) => game.hist[i] = journal.log[i])
      BY DEF WindowShowsTheMatch
    <2>1. journal.log \in Seq(Turns) /\ Len(journal.log) \in Nat /\ game.hist \in Seq(Turns) /\ Turn(game) \in Nat
      BY DEF WindowInv, WindowSized, Sized, Simulations, Turn
    <2>2. ASSUME Within(game), NEW i \in 1..Turn(game) PROVE game.hist[i] = journal.log[i]
      BY <2>1, <2>2 DEF Within
    <2>3. ASSUME NEW x \in Turns, AheadBy(game, x), NEW i \in 1..Turn(game), i <= Len(journal.log)
          PROVE  game.hist[i] = journal.log[i]
      BY <2>1, <2>3 DEF AheadBy
    <2> QED
      BY <2>2, <2>3 DEF WindowInv, Faithful
  <1> QED
    BY <1>1, WindowInvariant, PTL

-------------------------------------------------------------------------------
(* Settings: what was asked for, and what is on disk                       *)

Strokes == {"typed", "pasted"}

Forms ==
  [up : BOOLEAN, open : BOOLEAN, tab : {"bridge", "controls"}, config : Config,
   focus : Fields \cup {NoField}, revision : 0..MaxRevision, all : BOOLEAN,
   binding : Actions \cup {NoAction}, wanted : BOOLEAN, misplaced : BOOLEAN]

Readers ==
  [busy : BOOLEAN, read : BOOLEAN, field : Fields \cup {NoField}, revision : Nat,
   text : Seq(Strokes), err : BOOLEAN]

Disks == [bridge : Config \cup {Missing, Torn}, keys : KeyFiles \cup {Torn}, own : BOOLEAN]

ScreenTypes ==
  form \in Forms /\ keys \in [Actions -> Pressed] /\ clip \in Readers /\ files \in Disks

(* Every change of a credential and every move of the focus raises the      *)
(* revision, and closing the screen leaves no field: while the reader's     *)
(* field and revision are those of the form, nothing has changed.          *)
ReaderInv ==
  /\ clip.read => clip.busy
  /\ clip.busy => clip.field \in Fields /\ clip.revision <= form.revision
  /\ clip.busy /\ clip.field = form.focus /\ clip.revision = form.revision => form.wanted

ScreenInv == form.open \/ form.binding # NoAction => form.up

(* The keys in use are fit, and so are those that the window wrote. *)
KeysInv ==
  /\ form.up => KeysFit(keys)
  /\ files.own /\ files.keys # Torn => files.keys \in [Actions -> Pressed] /\ KeysFit(files.keys)

SavedInv == files.bridge = Missing \/ (files.bridge \in Config /\ Filled(files.bridge))

SettingsInv ==
  ScreenTypes /\ ReaderInv /\ ScreenInv /\ KeysInv /\ SavedInv /\ PasteLandsWhereAsked

LEMMA TextsAreShort == Texts = {x \in Seq(Strokes) : Len(x) <= MaxText}
  <1>1. ASSUME NEW x \in Texts PROVE x \in Seq(Strokes) /\ Len(x) <= MaxText
    <2>1. PICK n \in 0..MaxText : x \in [1..n -> Strokes]
      BY DEF Texts, Strokes
    <2>2. x \in Seq(Strokes) /\ Len(x) = n
      BY <2>1, SettingsAssumption
    <2> QED
      BY <2>2, SettingsAssumption
  <1>2. ASSUME NEW x \in Seq(Strokes), Len(x) <= MaxText PROVE x \in Texts
    <2>1. x \in [1..Len(x) -> Strokes] /\ Len(x) \in 0..MaxText
      BY <1>2, LenProperties, SettingsAssumption
    <2> QED
      BY <2>1 DEF Texts, Strokes
  <1> QED
    BY <1>1, <1>2

LEMMA MarkersAreNoFiles ==
  /\ Torn # Missing /\ Torn \notin Config /\ Missing \notin Config /\ Torn \notin [Actions -> Pressed]
  <1>1. DOMAIN Torn = {"torn"} /\ DOMAIN Missing = {"none"}
    BY DEF Torn, Missing
  <1>2. \A c \in Config : DOMAIN c = {"network", "text"}
    BY DEF Config
  <1>3. \A k \in [Actions -> Pressed] : DOMAIN k = {"left", "fire"}
    BY DEF Actions
  <1>4. "torn" \notin {"none"} /\ "torn" \notin {"network", "text"} /\ "torn" \notin {"left", "fire"} /\ "none" \notin {"network", "text"}
    OBVIOUS
  <1> QED
    BY <1>1, <1>2, <1>3, <1>4

LEMMA DefaultsAreTyped ==
  /\ Defaults \in Config /\ defaultControls \in [Actions -> Pressed]
  /\ ScreenClosed(Defaults) \in Forms /\ NoReader \in Readers
  <1>1. <<>> \in Texts
    BY TextsAreShort, SettingsAssumption
  <1>2. Defaults \in Config
    BY <1>1 DEF Defaults, Config, Networks
  <1>3. defaultControls \in [Actions -> Pressed]
    BY DEF defaultControls, Actions, Pressed
  <1>4. ScreenClosed(Defaults) \in Forms
    BY <1>2, SettingsAssumption DEF ScreenClosed, Forms
  <1>5. NoReader \in Readers
    BY DEF NoReader, Readers
  <1> QED
    BY <1>2, <1>3, <1>4, <1>5

(* A file over the defaults. *)
LEMMA LoadedIsTyped ==
  ASSUME NEW f \in KeyFiles
  PROVE  /\ Loaded(f) \in [Actions -> Pressed]
         /\ f \in [Actions -> Pressed] => Loaded(f) = f
  <1>1. PICK some \in SUBSET Actions : f \in [some -> Pressed]
    BY DEF KeyFiles
  <1>2. \A a \in Actions : defaultControls[a] \in Pressed
    BY DefaultsAreTyped
  <1>3. Loaded(f) \in [Actions -> Pressed]
    BY <1>1, <1>2 DEF Loaded
  <1>4. f \in [Actions -> Pressed] => Loaded(f) = f
    BY DEF Loaded
  <1> QED
    BY <1>3, <1>4

LEMMA StoppedScreen ==
  ScreenClosed(Defaults) = [ScreenClosed(Defaults) EXCEPT !.up = FALSE]
  <1> DEFINE r == ScreenClosed(Defaults)
  <1>1. r \in Forms
    BY DefaultsAreTyped
  <1>2. r.up = FALSE
    BY DEF ScreenClosed
  <1> HIDE DEF r
  <1>3. r = [r EXCEPT !.up = FALSE]
    BY <1>1, <1>2 DEF Forms
  <1> QED
    BY <1>3 DEF r

LEMMA SettingsStart == SettingsInit => SettingsInv
  <1> SUFFICES ASSUME SettingsInit PROVE SettingsInv
    OBVIOUS
  <1> DEFINE typed == [Defaults EXCEPT !.text = [i \in Fields |-> <<"typed">>]]
  <1>1. PICK known \in KeyFiles, saved \in {Missing, typed} :
          files = [bridge |-> saved, keys |-> known, own |-> FALSE]
    BY DEF SettingsInit
  <1>2. typed \in Config /\ Filled(typed)
    <2>1. <<"typed">> \in Texts /\ <<"typed">> # <<>>
      BY TextsAreShort, SettingsAssumption DEF Strokes
    <2> QED
      BY <2>1, DefaultsAreTyped DEF Config, Filled
  <1>3. files \in Disks
    BY <1>1, <1>2 DEF Disks
  <1>4. ScreenTypes
    BY <1>3, DefaultsAreTyped DEF ScreenTypes, SettingsInit
  <1>5. SavedInv
    BY <1>1, <1>2 DEF SavedInv
  <1>6. ReaderInv /\ ScreenInv /\ KeysInv /\ PasteLandsWhereAsked
    BY <1>1 DEF SettingsInit, ScreenClosed, NoReader, ReaderInv, ScreenInv, KeysInv, PasteLandsWhereAsked
  <1> QED
    BY <1>4, <1>5, <1>6 DEF SettingsInv

(* What one of the screen's handlers makes of the form: it stays the same  *)
(* run of the window, and the credentials and the focus stay what they are *)
(* unless the revision rises or the focus is taken away.                   *)
Handled(g) ==
  /\ g \in Forms /\ g.up = form.up /\ g.misplaced = form.misplaced /\ g.wanted = form.wanted
  /\ g.open \/ g.binding # NoAction => g.up
  /\ g.revision >= form.revision
  /\ g.revision = form.revision => g.config = form.config /\ g.focus \in {form.focus, NoField}

(* The form that Shows leaves. *)
LEMMA ShownForm ==
  ASSUME NEW g, Handled(g), form \in Forms, Shows(g)
  PROVE  /\ form' \in Forms /\ form'.up = g.up /\ form'.misplaced = g.misplaced
         /\ form'.open = g.open /\ form'.binding = g.binding /\ form'.revision = g.revision
         /\ form'.config = g.config /\ form'.focus = g.focus
         /\ form'.wanted = (form.wanted /\ g.config = form.config /\ g.focus = form.focus)
  <1> DEFINE b == g.config = form.config /\ g.focus = form.focus
  <1>1. g \in Forms /\ g.wanted = form.wanted /\ form.wanted \in BOOLEAN
    BY DEF Handled, Forms
  <1>2. form' = [g EXCEPT !.wanted = form.wanted /\ b]
    BY <1>1 DEF Shows
  <1>3. (form.wanted /\ b) \in BOOLEAN
    BY <1>1
  <1> QED
    BY <1>1, <1>2, <1>3 DEF Forms

LEMMA ScreenHandles ==
  ASSUME SettingsInv, NEW g, Handled(g), Shows(g), UNCHANGED <<keys, clip, files>>
  PROVE  SettingsInv'
  <1>1. form \in Forms /\ clip \in Readers /\ ReaderInv
    BY DEF SettingsInv, ScreenTypes
  <1>2. /\ form' \in Forms /\ form'.up = form.up /\ form'.misplaced = form.misplaced
        /\ form'.open = g.open /\ form'.binding = g.binding /\ form'.revision = g.revision
        /\ form'.config = g.config /\ form'.focus = g.focus
        /\ form'.wanted = (form.wanted /\ g.config = form.config /\ g.focus = form.focus)
    BY <1>1, ShownForm DEF Handled
  <1>3. ScreenTypes'
    BY <1>2 DEF SettingsInv, ScreenTypes
  <1>4. ReaderInv'
    <2>1. /\ form.revision \in Nat /\ g.revision \in Nat /\ clip.revision \in Nat
          /\ g.revision >= form.revision
      BY <1>1, SettingsAssumption DEF Handled, Forms, Readers
    <2>2. clip.busy => clip.field \in Fields /\ clip.revision <= g.revision
      BY <1>1, <2>1 DEF ReaderInv
    <2>3. ASSUME clip.busy, clip.field = g.focus, clip.revision = g.revision PROVE form'.wanted
      <3>1. g.revision = form.revision
        BY <1>1, <2>1, <2>3 DEF ReaderInv
      <3>2. g.focus # NoField
        BY <2>2, <2>3, SettingsAssumption DEF Fields, NoField
      <3>3. g.config = form.config /\ g.focus = form.focus
        BY <3>1, <3>2 DEF Handled
      <3> QED
        BY <1>1, <1>2, <2>3, <3>1, <3>3 DEF ReaderInv
    <2> QED
      BY <1>1, <1>2, <2>2, <2>3 DEF ReaderInv
  <1>5. ScreenInv'
    BY <1>2 DEF ScreenInv, Handled
  <1>6. KeysInv' /\ SavedInv'
    BY <1>2 DEF SettingsInv, KeysInv, SavedInv, KeysFit, Filled
  <1>7. PasteLandsWhereAsked'
    BY <1>2 DEF SettingsInv, PasteLandsWhereAsked
  <1> QED
    BY <1>3, <1>4, <1>5, <1>6, <1>7 DEF SettingsInv

(* editSetting: refused, or another text in the field and a new revision.   *)
LEMMA EditIsHandled ==
  ASSUME form \in Forms, AtField, Counts, ScreenInv, NEW text \in Seq(Strokes), NEW replace \in BOOLEAN
  PROVE  Handled(editSetting(form, text, replace))
  <1> DEFINE value == IF replace \/ form.all THEN text ELSE form.config.text[form.focus] \o text
             n == [form EXCEPT !.config.text[form.focus] = value, !.all = FALSE, !.revision = @ + 1]
  <1>1. form.focus \in Fields /\ form.config \in Config /\ form.revision + 1 \in 0..MaxRevision
    BY SettingsAssumption DEF AtField, Counts, Forms
  <1>2. value \in Seq(Strokes)
    <2>1. form.config.text[form.focus] \in Seq(Strokes)
      BY <1>1, TextsAreShort DEF Config
    <2> QED
      BY <2>1, ConcatProperties
  <1>3. CASE Len(value) > MaxText
    <2>1. editSetting(form, text, replace) = form
      BY <1>3 DEF editSetting
    <2> QED
      BY <2>1, SettingsAssumption DEF Handled, ScreenInv, Forms
  <1>4. CASE ~(Len(value) > MaxText)
    <2>1. editSetting(form, text, replace) = n
      BY <1>4 DEF editSetting
    <2>2. Len(value) <= MaxText
      BY <1>2, <1>4, LenProperties, SettingsAssumption
    <2>3. value \in Texts
      BY <1>2, <2>2, TextsAreShort
    <2> HIDE DEF value
    <2>4. [form.config EXCEPT !.text[form.focus] = value] \in Config
      BY <1>1, <2>3 DEF Config
    <2>5. /\ n \in Forms /\ n.up = form.up /\ n.open = form.open /\ n.binding = form.binding
          /\ n.misplaced = form.misplaced /\ n.wanted = form.wanted /\ n.revision = form.revision + 1
      BY <1>1, <2>4 DEF Forms
    <2> QED
      BY <1>1, <2>1, <2>5, SettingsAssumption DEF Handled, ScreenInv, Forms
  <1> QED
    BY <1>3, <1>4

(* The handlers that change neither the keys nor the reader nor the files. *)
Handles ==
  \/ OpenScreen \/ RoomOpens \/ Type \/ Backspace \/ SelectAll \/ LeaveAction
  \/ \E tab \in {"bridge", "controls"} : Tab(tab)
  \/ \E i \in Fields : Focus(i)
  \/ \E n \in Networks : selectBridgeNetwork(n)
  \/ \E a \in Actions : ChooseAction(a)

LEMMA HandlersAreHandled ==
  ASSUME SettingsInv, Handles
  PROVE  (\E g : Handled(g) /\ Shows(g)) /\ UNCHANGED <<keys, clip, files>>
  <1>1. form \in Forms /\ ScreenInv /\ form.revision \in Nat
    BY SettingsAssumption DEF SettingsInv, ScreenTypes, Forms
  <1>2. Handled(form)
    BY <1>1 DEF Handled, ScreenInv
  <1> DEFINE Outcome == (\E g : Handled(g) /\ Shows(g)) /\ UNCHANGED <<keys, clip, files>>
  <1>3. CASE OpenScreen
    <2> DEFINE g == [form EXCEPT !.open = ~@, !.binding = NoAction,
                                 !.focus = IF form.open THEN NoField ELSE @]
    <2>1. g \in Forms /\ g.focus \in {form.focus, NoField} /\ g.up = form.up
      BY <1>1 DEF Forms
    <2>2. /\ g.misplaced = form.misplaced /\ g.wanted = form.wanted /\ g.revision = form.revision
          /\ g.config = form.config /\ form.up
      BY <1>1, <1>3 DEF Forms, OpenScreen
    <2> HIDE DEF g
    <2>3. Handled(g)
      BY <1>1, <2>1, <2>2 DEF Handled
    <2>4. Shows(g) /\ UNCHANGED <<keys, clip, files>>
      BY <1>3 DEF OpenScreen, g
    <2> QED
      BY <2>3, <2>4
  <1>4. CASE RoomOpens
    <2> DEFINE g == [form EXCEPT !.open = FALSE]
    <2>2. /\ g \in Forms /\ g.up = form.up /\ g.misplaced = form.misplaced /\ g.wanted = form.wanted
          /\ g.revision = form.revision /\ g.config = form.config /\ g.focus = form.focus
          /\ g.open \/ g.binding # NoAction => form.up
      BY <1>1 DEF Forms, ScreenInv
    <2>1. Handled(g)
      BY ONLY <1>1, <2>2 DEF Handled
    <2> QED
      BY <1>4, <2>1 DEF RoomOpens
  <1>5. CASE Type
    <2>1. AtField /\ Counts
      BY <1>5 DEF Type
    <2>2. <<"typed">> \in Seq(Strokes) /\ FALSE \in BOOLEAN
      BY DEF Strokes
    <2>3. Handled(editSetting(form, <<"typed">>, FALSE))
      BY <1>1, <2>1, <2>2, EditIsHandled
    <2> QED
      BY <1>5, <2>3 DEF Type
  <1>6. CASE Backspace
    <2> DEFINE value == form.config.text[form.focus]
    <2>1. AtField /\ Counts /\ value \in Seq(Strokes)
      BY <1>1, <1>6, TextsAreShort DEF Backspace, AtField, Forms, Config
    <2>2. Handled(editSetting(form, <<>>, TRUE))
      <3>1. <<>> \in Seq(Strokes) /\ TRUE \in BOOLEAN
        OBVIOUS
      <3> QED
        BY <1>1, <2>1, <3>1, EditIsHandled
    <2>3. ASSUME value # <<>> PROVE Handled(editSetting(form, SubSeq(value, 1, Len(value) - 1), TRUE))
      <3>1. SubSeq(value, 1, Len(value) - 1) \in Seq(Strokes)
        BY <2>1, <2>3, SubSeqProperties, EmptySeq, LenProperties
      <3> QED
        BY <1>1, <2>1, <3>1, EditIsHandled
    <2> QED
      BY <1>2, <1>6, <2>2, <2>3 DEF Backspace
  <1>7. CASE SelectAll
    <2> DEFINE g == [form EXCEPT !.all = TRUE]
    <2>2. /\ g \in Forms /\ g.up = form.up /\ g.misplaced = form.misplaced /\ g.wanted = form.wanted
          /\ g.revision = form.revision /\ g.config = form.config /\ g.focus = form.focus
          /\ g.open \/ g.binding # NoAction => form.up
      BY <1>1 DEF Forms, ScreenInv
    <2>1. Handled(g)
      BY ONLY <1>1, <2>2 DEF Handled
    <2> QED
      BY <1>7, <2>1 DEF SelectAll
  <1>8. CASE LeaveAction
    <2> DEFINE g == [form EXCEPT !.binding = NoAction]
    <2>2. /\ g \in Forms /\ g.up = form.up /\ g.misplaced = form.misplaced /\ g.wanted = form.wanted
          /\ g.revision = form.revision /\ g.config = form.config /\ g.focus = form.focus
          /\ g.open \/ g.binding # NoAction => form.up
      BY <1>1 DEF Forms, ScreenInv
    <2>1. Handled(g)
      BY ONLY <1>1, <2>2 DEF Handled
    <2> QED
      BY <1>8, <2>1 DEF LeaveAction
  <1>9. ASSUME NEW tab \in {"bridge", "controls"}, Tab(tab) PROVE Outcome
    <2> DEFINE g == [form EXCEPT !.tab = tab, !.binding = NoAction, !.focus = NoField, !.revision = @ + 1]
    <2>1. form.revision + 1 \in 0..MaxRevision /\ form.up
      BY <1>1, <1>9, SettingsAssumption DEF Tab, Counts, Forms, ScreenInv
    <2>2. /\ g \in Forms /\ g.revision = form.revision + 1 /\ g.up = form.up
          /\ g.misplaced = form.misplaced /\ g.wanted = form.wanted
      BY <1>1, <2>1 DEF Forms
    <2> HIDE DEF g
    <2>3. Handled(g)
      BY ONLY <1>1, <2>1, <2>2 DEF Handled
    <2> QED
      BY <1>9, <2>3 DEF Tab, g
  <1>10. ASSUME NEW i \in Fields, Focus(i) PROVE Outcome
    <2> DEFINE g == [form EXCEPT !.focus = i, !.all = TRUE, !.revision = @ + 1]
    <2>1. form.revision + 1 \in 0..MaxRevision /\ form.up
      BY <1>1, <1>10, SettingsAssumption DEF Focus, Counts, Forms, ScreenInv, AtBridge
    <2>2. /\ g \in Forms /\ g.revision = form.revision + 1 /\ g.up = form.up
          /\ g.misplaced = form.misplaced /\ g.wanted = form.wanted
      BY <1>1, <2>1 DEF Forms
    <2> HIDE DEF g
    <2>3. Handled(g)
      BY ONLY <1>1, <2>1, <2>2 DEF Handled
    <2> QED
      BY <1>10, <2>3 DEF Focus, g
  <1>11. ASSUME NEW n \in Networks, selectBridgeNetwork(n) PROVE Outcome
    <2> DEFINE g == [form EXCEPT !.config.network = n, !.focus = NoField, !.revision = @ + 1]
    <2>1. form.revision + 1 \in 0..MaxRevision /\ form.up
      BY <1>1, <1>11, SettingsAssumption DEF selectBridgeNetwork, Counts, Forms, ScreenInv, AtBridge
    <2>2. [form.config EXCEPT !.network = n] \in Config
      BY <1>1 DEF Forms, Config
    <2>3. /\ g \in Forms /\ g.revision = form.revision + 1 /\ g.up = form.up
          /\ g.misplaced = form.misplaced /\ g.wanted = form.wanted
      BY <1>1, <2>1, <2>2 DEF Forms
    <2> HIDE DEF g
    <2>4. Handled(g)
      BY ONLY <1>1, <2>1, <2>3 DEF Handled
    <2> QED
      BY <1>11, <2>4 DEF selectBridgeNetwork, g
  <1>12. ASSUME NEW a \in Actions, ChooseAction(a) PROVE Outcome
    <2> DEFINE g == [form EXCEPT !.binding = a]
    <2>1. form.up
      BY <1>1, <1>12 DEF ChooseAction, ScreenInv
    <2>3. /\ g \in Forms /\ g.up = form.up /\ g.misplaced = form.misplaced /\ g.wanted = form.wanted
          /\ g.revision = form.revision /\ g.config = form.config /\ g.focus = form.focus
      BY <1>1 DEF Forms
    <2> HIDE DEF g
    <2>2. Handled(g)
      BY ONLY <1>1, <2>1, <2>3 DEF Handled
    <2> QED
      BY <1>12, <2>2 DEF ChooseAction, g
  <1> QED
    BY <1>3, <1>4, <1>5, <1>6, <1>7, <1>8, <1>9, <1>10, <1>11, <1>12 DEF Handles

(* The screen as the window starts with it: nobody reads the clipboard.     *)
LEMMA FreshScreen ==
  ASSUME SettingsInv, NEW c \in Config, NEW up \in BOOLEAN,
         form' = [ScreenClosed(c) EXCEPT !.up = up], clip' = NoReader,
         keys' \in [Actions -> Pressed], up => KeysFit(keys'),
         files' \in Disks, SavedInv',
         files'.own /\ files'.keys # Torn => files'.keys \in [Actions -> Pressed] /\ KeysFit(files'.keys)
  PROVE  SettingsInv'
  <1>1. ScreenClosed(c) \in Forms
    BY SettingsAssumption DEF ScreenClosed, Forms
  <1>2. /\ form' \in Forms /\ form'.open = FALSE /\ form'.binding = NoAction /\ form'.up = up
        /\ form'.misplaced = FALSE
    BY <1>1 DEF ScreenClosed, Forms
  <1>3. clip' \in Readers /\ clip'.busy = FALSE /\ clip'.read = FALSE
    BY DefaultsAreTyped DEF NoReader
  <1>4. ScreenTypes'
    BY <1>2, <1>3 DEF ScreenTypes
  <1>5. ReaderInv' /\ ScreenInv'
    BY <1>2, <1>3 DEF ReaderInv, ScreenInv
  <1>6. KeysInv'
    BY <1>2 DEF KeysInv
  <1>7. PasteLandsWhereAsked'
    BY <1>2 DEF PasteLandsWhereAsked
  <1> QED
    BY <1>4, <1>5, <1>6, <1>7 DEF SettingsInv

LEMMA StartsAndStops ==
  ASSUME SettingsInv, WindowStarts \/ WindowStops
  PROVE  SettingsInv'
  <1>1. /\ form \in Forms /\ keys \in [Actions -> Pressed] /\ files \in Disks
        /\ KeysInv /\ SavedInv
    BY DEF SettingsInv, ScreenTypes
  <1>2. UNCHANGED files
    BY DEF WindowStarts, WindowStops
  <1>3. SavedInv' /\ files' \in Disks
    BY <1>1, <1>2 DEF SavedInv, Filled
  <1>4. files'.own /\ files'.keys # Torn => files'.keys \in [Actions -> Pressed] /\ KeysFit(files'.keys)
    BY <1>1, <1>2 DEF KeysInv
  <1>5. CASE WindowStarts
    <2>1. files.keys \in KeyFiles
      BY <1>1, <1>5 DEF WindowStarts, Disks
    <2>2. keys' \in [Actions -> Pressed] /\ KeysFit(keys')
      BY <1>5, <2>1, LoadedIsTyped DEF WindowStarts
    <2>3. PICK c \in Config : form' = [ScreenClosed(c) EXCEPT !.up = TRUE]
      BY <1>1, <1>5, DefaultsAreTyped DEF WindowStarts, Disks
    <2>4. clip' = NoReader /\ TRUE \in BOOLEAN
      BY <1>5 DEF WindowStarts
    <2> QED
      BY <1>3, <1>4, <2>2, <2>3, <2>4, FreshScreen
  <1>6. CASE WindowStops
    <2>1. form' = [ScreenClosed(Defaults) EXCEPT !.up = FALSE]
      BY <1>6, StoppedScreen DEF WindowStops
    <2>2. clip' = NoReader /\ keys' = keys /\ FALSE \in BOOLEAN
      BY <1>6 DEF WindowStops
    <2> QED
      BY <1>1, <1>3, <1>4, <2>1, <2>2, DefaultsAreTyped, FreshScreen
  <1> QED
    BY <1>5, <1>6

(* The request remembers the field and the revision; the form wants it.     *)
LEMMA PasteAsked ==
  ASSUME SettingsInv, pasteSetting
  PROVE  SettingsInv'
  <1>1. form \in Forms /\ clip \in Readers /\ form.revision \in Nat
    BY SettingsAssumption DEF SettingsInv, ScreenTypes, Forms
  <1>2. form.focus \in Fields /\ UNCHANGED <<keys, files>>
    BY <1>1 DEF pasteSetting, AtField, Forms
  <1>3. /\ form' \in Forms /\ form'.up = form.up /\ form'.misplaced = form.misplaced
        /\ form'.open = form.open /\ form'.binding = form.binding /\ form'.revision = form.revision
        /\ form'.focus = form.focus /\ form'.wanted
    BY <1>1 DEF pasteSetting, Forms
  <1>4. /\ clip' \in Readers /\ clip'.busy /\ ~clip'.read /\ clip'.field = form.focus
        /\ clip'.revision = form.revision
    <2>1. <<>> \in Seq(Strokes)
      OBVIOUS
    <2> QED
      BY <1>1, <1>2, <2>1 DEF pasteSetting, Readers
  <1>5. ScreenTypes'
    BY <1>2, <1>3, <1>4 DEF SettingsInv, ScreenTypes
  <1>6. ReaderInv'
    BY <1>1, <1>2, <1>3, <1>4 DEF ReaderInv
  <1>7. ScreenInv' /\ KeysInv' /\ SavedInv' /\ PasteLandsWhereAsked'
    BY <1>2, <1>3 DEF SettingsInv, ScreenInv, KeysInv, SavedInv, KeysFit, Filled, PasteLandsWhereAsked
  <1> QED
    BY <1>5, <1>6, <1>7 DEF SettingsInv

LEMMA PasteRead ==
  ASSUME SettingsInv, ClipboardRead
  PROVE  SettingsInv'
  <1>1. clip \in Readers /\ clip.busy /\ UNCHANGED <<form, keys, files>>
    BY DEF ClipboardRead, SettingsInv, ScreenTypes
  <1>2. PICK n \in {0, 1, MaxText + 1}, err \in BOOLEAN :
          clip' = [clip EXCEPT !.read = TRUE, !.text = [i \in 1..n |-> "pasted"], !.err = err]
    BY DEF ClipboardRead
  <1> DEFINE text == [i \in 1..n |-> "pasted"]
  <1>3. text \in Seq(Strokes)
    <2>1. n \in Nat /\ "pasted" \in Strokes
      BY SettingsAssumption DEF Strokes
    <2> QED
      BY <2>1
  <1> HIDE DEF text
  <1>4. /\ clip' \in Readers /\ clip'.busy = clip.busy /\ clip'.field = clip.field
        /\ clip'.revision = clip.revision
    BY <1>1, <1>2, <1>3 DEF Readers, text
  <1>5. ScreenTypes'
    BY <1>1, <1>4 DEF SettingsInv, ScreenTypes
  <1>6. ReaderInv'
    BY <1>1, <1>4 DEF SettingsInv, ReaderInv
  <1>7. ScreenInv' /\ KeysInv' /\ SavedInv' /\ PasteLandsWhereAsked'
    BY <1>1 DEF SettingsInv, ScreenInv, KeysInv, SavedInv, KeysFit, Filled, PasteLandsWhereAsked
  <1> QED
    BY <1>5, <1>6, <1>7 DEF SettingsInv

(* What is pasted was wanted: no credential and no focus has changed since. *)
LEMMA PasteLands ==
  ASSUME SettingsInv, Paste
  PROVE  SettingsInv'
  <1>1. /\ form \in Forms /\ clip \in Readers /\ ReaderInv /\ ScreenInv /\ ~form.misplaced
        /\ form.revision \in Nat
    BY SettingsAssumption DEF SettingsInv, ScreenTypes, Forms, PasteLandsWhereAsked
  <1> DEFINE taken == Awaited /\ ~clip.err
             f == IF taken THEN editSetting(form, clip.text, TRUE) ELSE form
  <1>2. form' = [f EXCEPT !.wanted = FALSE, !.misplaced = @ \/ (taken /\ ~form.wanted)]
    BY DEF Paste
  <1>3. clip' = NoReader /\ UNCHANGED <<keys, files>> /\ clip.read /\ Counts
    BY DEF Paste
  <1>4. taken => form.wanted
    BY <1>1, <1>3 DEF Awaited, ReaderInv
  <1>5. Handled(f)
    <2>1. ASSUME taken PROVE AtField /\ clip.text \in Seq(Strokes) /\ TRUE \in BOOLEAN
      <3>1. clip.field \in Fields
        BY <1>1, <1>3 DEF ReaderInv
      <3>2. form.focus # NoField
        BY <2>1, <3>1, SettingsAssumption DEF Awaited, Fields, NoField
      <3> QED
        BY <1>1, <2>1, <3>2 DEF Awaited, AtField, Readers
    <2>2. taken => Handled(editSetting(form, clip.text, TRUE))
      BY <1>1, <1>3, <2>1, EditIsHandled
    <2>3. Handled(form)
      BY <1>1 DEF Handled, ScreenInv
    <2> QED
      BY <2>2, <2>3
  <1>6. f \in Forms /\ f.up = form.up /\ ~f.misplaced /\ (f.open \/ f.binding # NoAction => f.up)
    BY <1>1, <1>5 DEF Handled
  <1>7. form' = [f EXCEPT !.wanted = FALSE, !.misplaced = FALSE]
    <2>1. (f.misplaced \/ (taken /\ ~form.wanted)) = FALSE
      BY <1>4, <1>6
    <2> QED
      BY <1>2, <2>1
  <1> HIDE DEF f
  <1>8. /\ form' \in Forms /\ form'.up = form.up /\ ~form'.misplaced
        /\ form'.open = f.open /\ form'.binding = f.binding
    BY <1>6, <1>7 DEF Forms
  <1>9. clip' \in Readers /\ ~clip'.busy /\ ~clip'.read
    BY <1>3, DefaultsAreTyped DEF NoReader
  <1>10. ScreenTypes'
    BY <1>3, <1>8, <1>9 DEF SettingsInv, ScreenTypes
  <1>11. ReaderInv' /\ ScreenInv'
    BY <1>6, <1>8, <1>9 DEF ReaderInv, ScreenInv
  <1>12. KeysInv' /\ SavedInv' /\ PasteLandsWhereAsked'
    BY <1>3, <1>8 DEF SettingsInv, KeysInv, SavedInv, KeysFit, Filled, PasteLandsWhereAsked
  <1> QED
    BY <1>10, <1>11, <1>12 DEF SettingsInv

(* The credentials on disk are the old ones or the new ones.                *)
LEMMA SavesWhole ==
  ASSUME SettingsInv, Save
  PROVE  SettingsInv'
  <1>1. form \in Forms /\ keys \in [Actions -> Pressed] /\ files \in Disks /\ KeysInv /\ SavedInv /\ ScreenInv
    BY DEF SettingsInv, ScreenTypes
  <1>2. PICK f \in {files.bridge, form.config} : files' = [files EXCEPT !.bridge = f]
    BY DEF Save, Saves
  <1>3. keys' = keys /\ form.config \in Config /\ Filled(form.config) /\ form.open
    BY <1>1 DEF Save, Forms, AtBridge
  <1>4. f \in Config \cup {Missing, Torn} /\ (f = Missing \/ (f \in Config /\ Filled(f)))
    BY <1>1, <1>3 DEF SavedInv, Disks
  <1>5. files' \in Disks /\ files'.bridge = f /\ files'.keys = files.keys /\ files'.own = files.own
    BY <1>1, <1>2, <1>4 DEF Disks
  <1>6. SavedInv'
    BY <1>4, <1>5 DEF SavedInv, Filled
  <1>7. files'.own /\ files'.keys # Torn => files'.keys \in [Actions -> Pressed] /\ KeysFit(files'.keys)
    BY <1>1, <1>5 DEF KeysInv
  <1>8. CASE form' = form
    <2>1. clip' = clip
      BY <1>1, <1>3, <1>8 DEF Save, ScreenInv
    <2>2. ScreenTypes'
      BY <1>3, <1>5, <1>8, <2>1 DEF SettingsInv, ScreenTypes
    <2>3. ReaderInv' /\ ScreenInv' /\ PasteLandsWhereAsked'
      BY <1>8, <2>1 DEF SettingsInv, ReaderInv, ScreenInv, PasteLandsWhereAsked
    <2>4. KeysInv'
      BY <1>1, <1>3, <1>5, <1>7, <1>8 DEF KeysInv
    <2> QED
      BY <1>6, <2>2, <2>3, <2>4 DEF SettingsInv
  <1>9. CASE form' = ScreenClosed(Defaults)
    <2>1. clip' = NoReader /\ FALSE \in BOOLEAN
      BY <1>9 DEF Save, ScreenClosed
    <2>2. form' = [ScreenClosed(Defaults) EXCEPT !.up = FALSE]
      BY <1>9, StoppedScreen
    <2> QED
      BY <1>1, <1>3, <1>5, <1>6, <1>7, <2>1, <2>2, DefaultsAreTyped, FreshScreen
  <1> QED
    BY <1>8, <1>9 DEF Save

(* Exchanging the keys of two actions keeps all keys apart.                 *)
LEMMA BoundFits ==
  ASSUME keys \in [Actions -> Pressed], KeysFit(keys), NEW action \in Actions, NEW key \in Pressed,
         key \notin Reserved
  PROVE  Bound(action, key) \in [Actions -> Pressed] /\ KeysFit(Bound(action, key))
BY DEF Bound, KeysFit

LEMMA Binds ==
  ASSUME SettingsInv, NEW key \in Pressed, Bind(key)
  PROVE  SettingsInv'
  <1>1. form \in Forms /\ keys \in [Actions -> Pressed] /\ files \in Disks /\ KeysInv /\ SavedInv /\ ScreenInv
    BY DEF SettingsInv, ScreenTypes
  <1>2. form.binding \in Actions /\ form.up /\ keys' = Bound(form.binding, key)
    BY <1>1 DEF Bind, Forms, ScreenInv
  <1>3. keys' \in [Actions -> Pressed] /\ KeysFit(keys')
    BY <1>1, <1>2, BoundFits DEF Bind, KeysInv
  <1>4. keys' \in KeyFiles
    BY <1>3 DEF KeyFiles
  <1>5. /\ files' \in Disks /\ files'.bridge = files.bridge
        /\ files'.own /\ files'.keys # Torn => files'.keys \in [Actions -> Pressed] /\ KeysFit(files'.keys)
    <2>1. files' \in {files, [files EXCEPT !.keys = keys', !.own = TRUE], [files EXCEPT !.keys = Torn]}
      BY DEF Bind
    <2>2. CASE files' = files
      BY <1>1, <2>2 DEF KeysInv
    <2>3. CASE files' = [files EXCEPT !.keys = keys', !.own = TRUE]
      BY <1>1, <1>3, <1>4, <2>3 DEF Disks
    <2>4. CASE files' = [files EXCEPT !.keys = Torn]
      BY <1>1, <2>4 DEF Disks
    <2> QED
      BY <2>1, <2>2, <2>3, <2>4
  <1>6. SavedInv'
    BY <1>1, <1>5 DEF SavedInv, Filled
  <1>7. CASE Shows([form EXCEPT !.binding = NoAction]) /\ UNCHANGED clip
    <2> DEFINE g == [form EXCEPT !.binding = NoAction]
    <2>1. /\ g \in Forms /\ g.up = form.up /\ g.misplaced = form.misplaced /\ g.wanted = form.wanted
          /\ g.revision = form.revision /\ g.config = form.config /\ g.focus = form.focus
          /\ form.revision \in Nat
      BY <1>1, SettingsAssumption DEF Forms
    <2> HIDE DEF g
    <2>2. Handled(g)
      BY ONLY <1>2, <2>1 DEF Handled
    <2>3. /\ form' \in Forms /\ form'.up = form.up /\ form'.misplaced = form.misplaced
          /\ form'.revision = form.revision /\ form'.focus = form.focus /\ form'.wanted = form.wanted
      BY <1>1, <1>7, <2>1, <2>2, ShownForm DEF g, Forms
    <2>4. ScreenTypes'
      BY <1>3, <1>5, <1>7, <2>3 DEF SettingsInv, ScreenTypes
    <2>5. ReaderInv' /\ ScreenInv' /\ PasteLandsWhereAsked'
      BY <1>2, <1>7, <2>3 DEF SettingsInv, ReaderInv, ScreenInv, PasteLandsWhereAsked
    <2>6. KeysInv'
      BY <1>3, <1>5 DEF KeysInv
    <2> QED
      BY <1>6, <2>4, <2>5, <2>6 DEF SettingsInv
  <1>8. CASE form' = ScreenClosed(Defaults) /\ clip' = NoReader
    <2>1. form' = [ScreenClosed(Defaults) EXCEPT !.up = FALSE] /\ FALSE \in BOOLEAN
      BY <1>8, StoppedScreen
    <2> QED
      BY <1>3, <1>5, <1>6, <1>8, <2>1, DefaultsAreTyped, FreshScreen
  <1> QED
    BY <1>7, <1>8 DEF Bind

LEMMA SettingsStep ==
  ASSUME SettingsInv, [SettingsNext]_settingsVars
  PROVE  SettingsInv'
  <1>1. CASE Handles
    BY <1>1, HandlersAreHandled, ScreenHandles
  <1>2. CASE WindowStarts \/ WindowStops
    BY <1>2, StartsAndStops
  <1>3. CASE pasteSetting \/ ClipboardRead \/ Paste
    BY <1>3, PasteAsked, PasteRead, PasteLands
  <1>4. CASE Save
    BY <1>4, SavesWhole
  <1>5. ASSUME NEW k \in Pressed, Bind(k) PROVE SettingsInv'
    BY <1>5, Binds
  <1>6. CASE UNCHANGED settingsVars
    BY <1>6 DEF settingsVars, SettingsInv, ScreenTypes, ReaderInv, ScreenInv, KeysInv, SavedInv,
             KeysFit, Filled, PasteLandsWhereAsked
  <1> QED
    BY <1>1, <1>2, <1>3, <1>4, <1>5, <1>6 DEF SettingsNext, Handles

(* The settings stay in their types, the clipboard's reader knows what it   *)
(* was asked for, and the files hold what can be loaded.                   *)
THEOREM SettingsInvariant == SettingsSpec => []SettingsInv
  <1>1. SettingsInit => SettingsInv
    BY SettingsStart
  <1>2. SettingsInv /\ [SettingsNext]_settingsVars => SettingsInv'
    BY SettingsStep
  <1> QED
    BY <1>1, <1>2, PTL DEF SettingsSpec

(* A late clipboard changes only the field for which it was asked and only  *)
(* while nothing else has changed, and what the window leaves on disk when *)
(* it is stopped at any moment can be loaded (pollSettings, Save).         *)
THEOREM ChoicesSurvive == SettingsSpec => []SettingsAreAsChosen
  <1>1. SettingsInv => SettingsAreAsChosen
    <2> SUFFICES ASSUME SettingsInv PROVE SettingsAreAsChosen
      OBVIOUS
    <2>1. files.bridge # Missing => files.bridge # Torn /\ Filled(files.bridge)
      BY MarkersAreNoFiles DEF SettingsInv, SavedInv
    <2>2. ASSUME files.own, files.keys # Torn
          PROVE  KeysFit(Loaded(files.keys)) /\ Loaded(files.keys) = files.keys
      <3>1. files.keys \in KeyFiles /\ files.keys \in [Actions -> Pressed] /\ KeysFit(files.keys)
        BY <2>2 DEF SettingsInv, ScreenTypes, Disks, KeysInv
      <3>2. Loaded(files.keys) = files.keys
        BY <3>1, LoadedIsTyped
      <3> QED
        BY <3>1, <3>2
    <2> QED
      BY <2>1, <2>2 DEF SettingsInv, SettingsAreAsChosen, SavedSettingsLoad
  <1> QED
    BY <1>1, SettingsInvariant, PTL

-------------------------------------------------------------------------------
(* Ground: who stands in it, who falls, and what the screen shows of it     *)

Points  == Int \X Int
Boxes   == Int \X Int \X Int \X Int
Walkers == [at : Points, alive : BOOLEAN, grounded : BOOLEAN, apex : Int, top : Int, vx : Int, vy : Int]
Harms   == [damage : Int, fell : Int]
Journeys   == [land : SUBSET Cells, body : [Stakeys -> Walkers], dirty : Seq(Boxes), hurt : SUBSET Harms]

(* A fall is counted from no higher than the Stakey has been; on its feet   *)
(* it counts from there.                                                   *)
CountsFalls(b) ==
  /\ b.top <= b.apex /\ b.top <= b.at[2]
  /\ b.grounded => b.apex = b.at[2] /\ b.vy = 0

Stands(g, b) == b \in Walkers /\ CountsFalls(b) /\ (b.alive => ~blocked(g, b.at))

Earned(h) == h.damage > 0 => h.fell >= h.damage + SafeFall

(* What holds in the middle of a tick. *)
TickInv(u) ==
  /\ u \in Journeys
  /\ \A i \in Stakeys : Stands(u.land, u.body[i])
  /\ \A h \in u.hurt : Earned(h)

SameGround(u, n) == n.land = u.land /\ n.dirty = u.dirty

LEMMA BlockedIs ==
  ASSUME NEW g, NEW p \in Points
  PROVE  blocked(g, p) <=> (<<p[1], p[2] - 2>> \in g \/ <<p[1], p[2] - 1>> \in g)
  <1>1. p[1] \in Int /\ p[2] \in Int
    BY DEF Points
  <1>2. p[1] - HalfWidth..p[1] + HalfWidth = {p[1]}
    BY <1>1 DEF HalfWidth
  <1>3. p[2] - BodyHeight..p[2] - 1 = {p[2] - 2, p[2] - 1}
    BY <1>1 DEF BodyHeight
  <1> QED
    BY <1>2, <1>3 DEF blocked

LEMMA LeastIsIn ==
  ASSUME NEW S, S \subseteq 0..1, S # {}
  PROVE  Least(S) \in S
  <1>1. \E n \in S : \A m \in S : n <= m
    <2>1. CASE 0 \in S
      BY <2>1
    <2>2. CASE 0 \notin S
      <3>1. \A m \in S : m = 1
        BY <2>2
      <3>2. PICK n \in S : TRUE
        OBVIOUS
      <3> QED
        BY <3>1, <3>2
    <2> QED
      BY <2>1, <2>2
  <1> QED
    BY <1>1 DEF Least

LEMMA PointsMove ==
  ASSUME NEW p \in Points, NEW q \in Points
  PROVE  Plus(p, q) \in Points /\ Minus(p, q) \in Points
BY DEF Points, Plus, Minus

(* Half a tick's walk leaves nobody in the earth, and counts no fall.       *)
LEMMA PaceIsSound ==
  ASSUME NEW g, NEW b, Stands(g, b), b.vy = 0, NEW dx \in Int
  PROVE  Stands(g, Pace(g, b, dx)) /\ Pace(g, b, dx).alive = b.alive /\ Pace(g, b, dx).vy = 0
  <1> DEFINE p == Plus(b.at, <<dx, 0>>)
             ups == {n \in 0..Slope : ~blocked(g, Minus(p, <<0, n>>))}
             q == IF ups = {} THEN b.at ELSE Minus(p, <<0, Least(ups)>>)
             downs == {n \in 1..Slope : /\ supported(g, Plus(q, <<0, n>>))
                                        /\ \A m \in 1..n : ~blocked(g, Plus(q, <<0, m>>))}
             to == IF ~supported(g, q) /\ downs # {} THEN Plus(q, <<0, Least(downs)>>) ELSE q
             n == [b EXCEPT !.at = to, !.apex = to[2], !.top = to[2], !.grounded = supported(g, to)]
  <1>1. b \in Walkers /\ b.at \in Points /\ CountsFalls(b) /\ (b.alive => ~blocked(g, b.at))
    BY DEF Stands, Walkers
  <1>2. p \in Points
    BY <1>1, PointsMove DEF Points
  <1>3. q \in Points /\ (b.alive => ~blocked(g, q))
    <2>1. CASE ups = {}
      BY <1>1, <2>1
    <2>2. CASE ups # {}
      <3>1. Least(ups) \in ups
        BY <2>2, LeastIsIn DEF Slope
      <3>2. q = Minus(p, <<0, Least(ups)>>) /\ Least(ups) \in Int
        BY <2>2, <3>1 DEF Slope
      <3>3. <<0, Least(ups)>> \in Points
        BY <3>2 DEF Points
      <3> QED
        BY <1>2, <3>1, <3>2, <3>3, PointsMove
    <2> QED
      BY <2>1, <2>2
  <1> HIDE DEF q
  <1>4. to \in Points /\ (b.alive => ~blocked(g, to))
    <2>1. CASE ~supported(g, q) /\ downs # {}
      <3>5. downs \subseteq 0..1
        <4>1. downs \subseteq 1..Slope
          OBVIOUS
        <4> HIDE DEF downs
        <4> QED
          BY <4>1 DEF Slope
      <3>1. Least(downs) \in downs
        BY <2>1, <3>5, LeastIsIn
      <3>2. to = Plus(q, <<0, Least(downs)>>) /\ Least(downs) \in 1..1
        BY <2>1, <3>1 DEF Slope
      <3>3. <<0, Least(downs)>> \in Points /\ Least(downs) \in 1..Least(downs)
        BY <3>2 DEF Points
      <3>4. ~blocked(g, Plus(q, <<0, Least(downs)>>))
        BY <3>1, <3>3
      <3> QED
        BY <1>3, <3>2, <3>3, <3>4, PointsMove
    <2>2. CASE ~(~supported(g, q) /\ downs # {})
      BY <1>3, <2>2
    <2> QED
      BY <2>1, <2>2
  <1>5. Pace(g, b, dx) = n
    BY DEF Pace, q
  <1> HIDE DEF to
  <1>6. supported(g, to) \in BOOLEAN /\ to[2] \in Int
    BY <1>4 DEF supported, Points
  <1>7. /\ n \in Walkers /\ n.at = to /\ n.apex = to[2] /\ n.top = to[2] /\ n.vy = 0 /\ n.alive = b.alive
    BY <1>1, <1>4, <1>6 DEF Walkers
  <1> HIDE DEF n
  <1>8. Stands(g, n)
    BY <1>4, <1>6, <1>7 DEF Stands, CountsFalls
  <1> QED
    BY <1>5, <1>7, <1>8

LEMMA WalkIsSound ==
  ASSUME NEW g, NEW b, Stands(g, b), NEW dx \in Int
  PROVE  /\ Stands(g, WalkIfHeld(g, Held(g, b), dx))
         /\ WalkIfHeld(g, Held(g, b), dx).alive = b.alive
  <1> DEFINE h == Held(g, b)
             d == Pace(g, h, dx)
  <1>1. b \in Walkers /\ CountsFalls(b)
    BY DEF Stands
  <1>2. Stands(g, h) /\ h.alive = b.alive
    <2>1. CASE h = b
      BY <2>1
    <2>2. CASE h = Aloft(b)
      <3>1. Aloft(b) \in Walkers /\ Aloft(b).at = b.at /\ Aloft(b).alive = b.alive
            /\ Aloft(b).apex = b.at[2] /\ Aloft(b).top = b.top /\ Aloft(b).grounded = FALSE
        BY <1>1 DEF Walkers, Aloft, Points
      <3> QED
        BY <1>1, <2>2, <3>1 DEF Stands, CountsFalls, Walkers, Points
    <2> QED
      BY <2>1, <2>2 DEF Held
  <1> HIDE DEF h
  <1>3. CASE ~(h.grounded /\ dx # 0)
    BY <1>2, <1>3 DEF WalkIfHeld, h
  <1>4. CASE h.grounded /\ dx # 0
    <2>1. h.vy = 0
      BY <1>2, <1>4 DEF Stands, CountsFalls
    <2>2. Stands(g, d) /\ d.alive = h.alive /\ d.vy = 0
      BY <1>2, <2>1, PaceIsSound
    <2>3. Stands(g, Pace(g, d, dx)) /\ Pace(g, d, dx).alive = d.alive
      BY <2>2, PaceIsSound
    <2>4. WalkIfHeld(g, h, dx) \in {d, Pace(g, d, dx)}
      BY <1>4 DEF WalkIfHeld, Walk, PaceOn
    <2> QED
      BY <1>2, <2>2, <2>3, <2>4 DEF h
  <1> QED
    BY <1>3, <1>4

(* One Stakey of a tick is replaced. *)
LEMMA PutIsSound ==
  ASSUME NEW u, TickInv(u), NEW i \in Stakeys, NEW b, Stands(u.land, b)
  PROVE  TickInv(Put(u, i, b)) /\ SameGround(u, Put(u, i, b)) /\ Put(u, i, b).body[i] = b
  <1> DEFINE n == Put(u, i, b)
  <1>1. u \in Journeys /\ b \in Walkers
    BY DEF TickInv, Stands
  <1>2. /\ n \in Journeys /\ n.land = u.land /\ n.dirty = u.dirty /\ n.hurt = u.hurt
        /\ n.body = [u.body EXCEPT ![i] = b]
    BY <1>1 DEF Put, Journeys
  <1> HIDE DEF n
  <1>3. u.body \in [Stakeys -> Walkers]
    BY <1>1 DEF Journeys
  <1>4. n.body[i] = b /\ \A j \in Stakeys : j # i => n.body[j] = u.body[j]
    BY <1>2, <1>3
  <1>5. \A j \in Stakeys : Stands(n.land, n.body[j])
    BY <1>2, <1>4 DEF TickInv
  <1>6. TickInv(n) /\ SameGround(u, n)
    BY <1>2, <1>5 DEF TickInv, SameGround
  <1> QED
    BY <1>4, <1>6 DEF n

(* A landing costs no more than the fall since the highest point.          *)
LEMMA LandIsSound ==
  ASSUME NEW u, TickInv(u), NEW i \in Stakeys, NEW b, Stands(u.land, b)
  PROVE  TickInv(Land(u, i, b)) /\ SameGround(u, Land(u, i, b))
  <1> DEFINE y == b.at[2]
             d == [b EXCEPT !.grounded = TRUE, !.apex = y, !.vy = 0]
             m == Put(u, i, d)
             n == Land(u, i, b)
  <1>1. b \in Walkers /\ b.at \in Points /\ b.at[2] \in Int /\ CountsFalls(b)
    BY DEF Stands, Walkers, Points
  <1>2. /\ d \in Walkers /\ d.at = b.at /\ d.alive = b.alive /\ d.top = b.top
        /\ d.apex = y /\ d.vy = 0
    <2>1. b \in Walkers /\ y \in Int /\ 0 \in Int /\ TRUE \in BOOLEAN
      BY <1>1
    <2> HIDE DEF y
    <2>2. d \in Walkers
      BY ONLY <2>1, Zenon DEF Walkers, d
    <2> QED
      BY <2>1, <2>2 DEF Walkers
  <1> HIDE DEF d
  <1>3. Stands(u.land, d)
    BY <1>1, <1>2 DEF Stands, CountsFalls
  <1>4. TickInv(m) /\ SameGround(u, m)
    BY <1>3, PutIsSound
  <1>5. Hurt(b) \in Harms /\ Earned(Hurt(b))
    <2>1. b.apex \in Int /\ b.top \in Int
      BY <1>1 DEF Walkers
    <2>2. Cost(b) \in Int /\ (Cost(b) > 0 => Cost(b) = b.at[2] - b.apex - SafeFall)
      BY <1>1, <2>1 DEF Cost, Larger, SafeFall
    <2>3. Hurt(b).damage = Cost(b) /\ Hurt(b).fell = b.at[2] - b.top /\ Hurt(b) \in Harms
      BY <1>1, <2>1, <2>2 DEF Hurt, Harms
    <2> QED
      BY <1>1, <2>1, <2>2, <2>3 DEF Earned, CountsFalls, SafeFall
  <1>6. n = [m EXCEPT !.hurt = @ \cup {Hurt(b)}]
    BY DEF Land, d
  <1>7. m \in Journeys /\ m.hurt \subseteq Harms
    BY <1>4 DEF TickInv, Journeys
  <1> HIDE DEF m, n
  <1>8. /\ n \in Journeys /\ n.land = m.land /\ n.body = m.body /\ n.dirty = m.dirty
        /\ n.hurt = m.hurt \cup {Hurt(b)}
    BY <1>5, <1>6, <1>7 DEF Journeys
  <1>9. \A h \in n.hurt : Earned(h)
    BY <1>4, <1>5, <1>8 DEF TickInv
  <1>10. TickInv(n) /\ SameGround(u, n)
    BY <1>4, <1>8, <1>9 DEF TickInv, SameGround
  <1> QED
    BY <1>10 DEF n

(* A step of the sweep stops at the earth. *)
LEMMA SweepIsSound ==
  ASSUME NEW u, TickInv(u), NEW i \in Stakeys, NEW dx \in Int, NEW dy \in Int
  PROVE  TickInv(Sweep(u, i, dx, dy)) /\ SameGround(u, Sweep(u, i, dx, dy))
  <1> DEFINE b == u.body[i]
             x == <<b.at[1] + IF b.vx = 0 THEN 0 ELSE dx, b.at[2]>>
             c == IF blocked(u.land, x) THEN [b EXCEPT !.vx = 0] ELSE [b EXCEPT !.at = x]
             y == <<c.at[1], c.at[2] + IF c.vy = 0 THEN 0 ELSE dy>>
             n == Sweep(u, i, dx, dy)
  <1>1. Stands(u.land, b) /\ b \in Walkers /\ b.at \in Points /\ b.at[1] \in Int /\ b.at[2] \in Int
    BY DEF TickInv, Stands, Walkers, Points
  <1>2. x \in Points /\ x[2] = b.at[2]
    BY <1>1 DEF Points
  <1> HIDE DEF b, x
  <1>3. /\ c \in Walkers /\ c.alive = b.alive /\ c.grounded = b.grounded /\ c.apex = b.apex
        /\ c.top = b.top /\ c.vy = b.vy /\ c.at[2] = b.at[2]
        /\ c.at = b.at \/ (c.at = x /\ ~blocked(u.land, x))
    <2>1. CASE blocked(u.land, x)
      <3>1. c = [b EXCEPT !.vx = 0]
        BY <2>1
      <3> QED
        BY <1>1, <3>1 DEF Walkers
    <2>2. CASE ~blocked(u.land, x)
      <3>1. c = [b EXCEPT !.at = x]
        BY <2>2
      <3> QED
        BY <1>1, <1>2, <2>2, <3>1 DEF Walkers
    <2> QED
      BY <2>1, <2>2
  <1> HIDE DEF c
  <1>4. Stands(u.land, c) /\ c.at \in Points /\ c.at[1] \in Int /\ c.at[2] \in Int /\ c.vy \in Int
    BY <1>1, <1>3 DEF Stands, CountsFalls, Walkers, Points
  <1>5. y \in Points /\ y[2] \in Int /\ (c.vy = 0 => y[2] = c.at[2])
    BY <1>4 DEF Points
  <1> HIDE DEF y
  <1>6. CASE ~blocked(u.land, y)
    <2> DEFINE d == Risen([c EXCEPT !.at = y])
    <2>1. /\ d \in Walkers /\ d.at = y /\ d.alive = c.alive /\ d.grounded = c.grounded /\ d.vy = c.vy
          /\ d.apex = Smaller(c.apex, y[2]) /\ d.top = Smaller(c.top, y[2])
      <3> DEFINE e == [c EXCEPT !.at = y]
      <3>1. /\ e \in Walkers /\ e.at = y /\ e.alive = c.alive /\ e.grounded = c.grounded /\ e.vy = c.vy
            /\ e.apex = c.apex /\ e.top = c.top /\ c.apex \in Int /\ c.top \in Int
        BY <1>3, <1>5 DEF Walkers
      <3> HIDE DEF e
      <3>2. Smaller(c.apex, y[2]) \in Int /\ Smaller(c.top, y[2]) \in Int
        BY <1>5, <3>1 DEF Smaller
      <3>3. d = [e EXCEPT !.apex = Smaller(c.apex, y[2]), !.top = Smaller(c.top, y[2])]
        BY <3>1 DEF Risen, e
      <3> QED
        BY <3>1, <3>2, <3>3 DEF Walkers
    <2> HIDE DEF d
    <2>2. CountsFalls(d)
      BY <1>3, <1>4, <1>5, <2>1 DEF CountsFalls, Stands, Smaller, Walkers
    <2>3. Stands(u.land, d)
      BY <1>6, <2>1, <2>2 DEF Stands
    <2>4. n = Put(u, i, d)
      BY <1>6 DEF Sweep, d, b, c, x, y
    <2> QED
      BY <2>3, <2>4, PutIsSound
  <1>7. CASE blocked(u.land, y) /\ c.vy > 0
    <2>1. n = Land(u, i, c)
      BY <1>7 DEF Sweep, b, c, x, y
    <2> QED
      BY <1>4, <2>1, LandIsSound
  <1>8. CASE blocked(u.land, y) /\ ~(c.vy > 0)
    <2> DEFINE d == [c EXCEPT !.vy = 0]
    <2>1. /\ d \in Walkers /\ d.at = c.at /\ d.alive = c.alive /\ d.grounded = c.grounded /\ d.vy = 0
          /\ d.apex = c.apex /\ d.top = c.top
      BY <1>3 DEF Walkers
    <2>2. n = Put(u, i, d)
      BY <1>8 DEF Sweep, b, c, x, y
    <2> HIDE DEF d
    <2>3. Stands(u.land, d)
      BY <1>4, <2>1 DEF Stands, CountsFalls
    <2> QED
      BY <2>2, <2>3, PutIsSound
  <1> QED
    BY <1>6, <1>7, <1>8

LEMMA DeltaMoves ==
  ASSUME NEW vel \in Points, NEW n \in {1, 2}
  PROVE  Delta(vel, n) \in Points /\ Steps(vel) \in Nat /\ Steps(vel) >= 1
  <1>1. vel[1] \in Int /\ vel[2] \in Int
    BY DEF Points
  <1>2. Steps(vel) \in Nat /\ Steps(vel) >= 1
    BY <1>1 DEF Steps, Len2, Larger, Size
  <1>3. ASSUME NEW k \in Int, NEW m \in {0, 1, 2}, NEW d \in Nat, d >= 1 PROVE Share(k, m, d) \in Int
    <2>1. ASSUME NEW j \in Int PROVE j \div d \in Int
      BY <1>3
    <2>2. k * m \in Int /\ -k * m \in Int
      BY <1>3
    <2>3. (k * m) \div d \in Int /\ (-k * m) \div d \in Int
      BY <2>1, <2>2
    <2> QED
      BY <2>3 DEF Share
  <1>4. \A m \in {0, 1, 2} : Share(vel[1], m, Steps(vel)) \in Int /\ Share(vel[2], m, Steps(vel)) \in Int
    BY <1>1, <1>2, <1>3
  <1>5. \A m \in {0, 1, 2} : Part(vel, m, Steps(vel)) \in Points
    BY <1>4 DEF Part, Points
  <1>6. n \in {0, 1, 2} /\ n - 1 \in {0, 1, 2}
    OBVIOUS
  <1>7. Delta(vel, n) \in Points
    BY <1>5, <1>6, PointsMove DEF Delta
  <1> QED
    BY <1>2, <1>7

LEMMA MotionsAreTyped ==
  ASSUME NEW m \in Motions \cup {Still}
  PROVE  m.walk \in Int /\ m.vel \in Points /\ m.chute \in BOOLEAN
  <1>1. CASE m \in [walk : {0}, vel : {-1, 1} \X {-2} \cup {<<0, 2>>}, chute : {FALSE}, rope : {"none", "hung"}]
    <2>1. m.walk = 0 /\ m.vel \in {-1, 1} \X {-2} \cup {<<0, 2>>} /\ m.chute = FALSE
      BY <1>1
    <2>2. {-1, 1} \X {-2} \cup {<<0, 2>>} \subseteq Points
      BY DEF Points
    <2>3. m.walk \in Int
      BY <2>1
    <2>4. m.vel \in Points
      BY <2>1, <2>2, Zenon
    <2>5. m.chute \in BOOLEAN
      BY <2>1, Zenon
    <2> QED
      BY <2>3, <2>4, <2>5
  <1>2. CASE m \in [walk : {0}, vel : {-1, 1} \X {0}, chute : {FALSE}, rope : {"reeled"}]
    <2>1. m.walk = 0 /\ m.vel \in {-1, 1} \X {0} /\ m.chute = FALSE
      BY <1>2
    <2>2. {-1, 1} \X {0} \subseteq Points
      BY DEF Points
    <2>3. m.walk \in Int
      BY <2>1
    <2>4. m.vel \in Points
      BY <2>1, <2>2, Zenon
    <2>5. m.chute \in BOOLEAN
      BY <2>1, Zenon
    <2> QED
      BY <2>3, <2>4, <2>5
  <1>3. CASE m \in {[walk |-> d, vel |-> <<d, 1>>, chute |-> TRUE, rope |-> "none"] : d \in {-1, 1}}
    <2>1. PICK d \in {-1, 1} : m = [walk |-> d, vel |-> <<d, 1>>, chute |-> TRUE, rope |-> "none"]
      BY <1>3
    <2> QED
      BY <2>1 DEF Points
  <1>4. CASE m = Still
    BY <1>4 DEF Still, Points
  <1> QED
    BY <1>1, <1>2, <1>3, <1>4 DEF Motions

(* A fall is two steps of a sweep at most. *)
LEMMA FallIsSound ==
  ASSUME NEW u, TickInv(u), NEW i \in Stakeys, u.body[i].grounded = FALSE,
         NEW vel \in Points, NEW chute \in BOOLEAN
  PROVE  TickInv(Fall(u, i, vel, chute)) /\ SameGround(u, Fall(u, i, vel, chute))
  <1> DEFINE b == u.body[i]
             vy == IF chute THEN Smaller(vel[2], 1) ELSE vel[2]
             apex == IF chute /\ vy > 0 THEN b.at[2] ELSE b.apex
             z == [b EXCEPT !.vx = vel[1], !.vy = vy, !.apex = apex]
             a == <<vel[1], vy>>
             go(c, n) == IF n > Steps(a) THEN c
                         ELSE LET d == Delta(a, n) IN Sweep(c, i, d[1], d[2])
  <1>1. Stands(u.land, b) /\ b \in Walkers /\ b.at \in Points /\ b.at[2] \in Int /\ b.apex \in Int /\ CountsFalls(b)
    BY DEF TickInv, Stands, Walkers, Points
  <1>2. vel[1] \in Int /\ vy \in Int /\ a \in Points
    BY DEF Smaller, Points
  <1>3. apex \in Int /\ b.top <= apex
    BY <1>1 DEF CountsFalls
  <1>4. Fall(u, i, vel, chute) = go(go(Put(u, i, z), 1), 2)
    BY DEF Fall
  <1> HIDE DEF vy, apex
  <1>5. /\ z \in Walkers /\ z.at = b.at /\ z.alive = b.alive /\ z.grounded = b.grounded
        /\ z.top = b.top /\ z.apex = apex
    BY <1>1, <1>2, <1>3 DEF Walkers
  <1> HIDE DEF z
  <1>6. Stands(u.land, z)
    BY <1>1, <1>3, <1>5 DEF Stands, CountsFalls
  <1> HIDE DEF a
  <1>7. ASSUME NEW c, TickInv(c), SameGround(u, c), NEW n \in {1, 2}
        PROVE  TickInv(go(c, n)) /\ SameGround(u, go(c, n))
    <2>1. Delta(a, n) \in Points
      BY <1>2, DeltaMoves
    <2>2. Delta(a, n)[1] \in Int /\ Delta(a, n)[2] \in Int
      BY <2>1 DEF Points
    <2>3. /\ TickInv(Sweep(c, i, Delta(a, n)[1], Delta(a, n)[2]))
          /\ SameGround(c, Sweep(c, i, Delta(a, n)[1], Delta(a, n)[2]))
      BY <1>7, <2>2, SweepIsSound
    <2> QED
      BY <1>7, <2>3 DEF SameGround
  <1>8. TickInv(Put(u, i, z)) /\ SameGround(u, Put(u, i, z))
    BY <1>6, PutIsSound
  <1> HIDE DEF go
  <1>9. TickInv(go(Put(u, i, z), 1)) /\ SameGround(u, go(Put(u, i, z), 1))
    BY <1>7, <1>8
  <1> QED
    BY <1>4, <1>7, <1>9

(* A step of the swing takes nobody into the earth, nor does a swing, which *)
(* counts a fall from the highest point that it reached.                   *)
LEMMA TowIsSound ==
  ASSUME NEW g, NEW p \in Points, ~blocked(g, p), NEW d \in Points, NEW reeled \in BOOLEAN
  PROVE  Tow(g, p, d, reeled) \in Points /\ ~blocked(g, Tow(g, p, d, reeled))
  <1> DEFINE ups == {n \in 1..Slope : /\ \A m \in 1..n : ~blocked(g, Minus(p, <<0, m>>))
                                      /\ ~blocked(g, Plus(p, <<d[1], -n>>))}
             y == IF blocked(g, Plus(p, <<0, d[2]>>)) THEN p ELSE Plus(p, <<0, d[2]>>)
             x == Plus(y, <<d[1], 0>>)
             to == Plus(p, <<d[1], -Least(ups)>>)
  <1>1. d[1] \in Int /\ d[2] \in Int /\ <<d[1], 0>> \in Points /\ <<0, d[2]>> \in Points
    BY DEF Points
  <1>2. y \in Points /\ ~blocked(g, y)
    BY <1>1, PointsMove
  <1>3. x \in Points
    BY <1>1, <1>2, PointsMove
  <1>4. ASSUME ups # {}
        PROVE  to \in Points /\ ~blocked(g, to)
    <2>1. ups \subseteq 0..1
      <3>1. ups \subseteq 1..Slope
        OBVIOUS
      <3> HIDE DEF ups
      <3> QED
        BY <3>1 DEF Slope
    <2>2. Least(ups) \in ups
      BY <1>4, <2>1, LeastIsIn
    <2>3. ~blocked(g, to) /\ Least(ups) \in Int
      BY <2>1, <2>2
    <2>4. <<d[1], -Least(ups)>> \in Points
      BY <1>1, <2>3 DEF Points
    <2> QED
      BY <2>3, <2>4, PointsMove
  <1>5. Plus(p, d) \in Points
    BY PointsMove
  <1>6. \/ Tow(g, p, d, reeled) = Plus(p, d) /\ ~blocked(g, Plus(p, d))
        \/ Tow(g, p, d, reeled) = to /\ ups # {}
        \/ Tow(g, p, d, reeled) = y
        \/ Tow(g, p, d, reeled) = x /\ ~blocked(g, x)
    BY DEF Tow
  <1> HIDE DEF ups, y, x, to
  <1> QED
    BY <1>2, <1>3, <1>4, <1>5, <1>6

LEMMA SwingIsSound ==
  ASSUME NEW g, NEW b, Stands(g, b), b.alive, ~b.grounded, NEW vel \in Points, NEW reeled \in BOOLEAN
  PROVE  Stands(g, swing(g, b, vel, reeled))
  <1> DEFINE go(p, n) == IF n > Steps(vel) THEN p ELSE Tow(g, p, Delta(vel, n), reeled)
             to == go(go(b.at, 1), 2)
             e  == [b EXCEPT !.at = to]
             r  == Risen(e)
  <1>1. b \in Walkers /\ b.at \in Points /\ CountsFalls(b) /\ ~blocked(g, b.at)
    BY DEF Stands, Walkers
  <1>2. ASSUME NEW p \in Points, ~blocked(g, p), NEW n \in {1, 2}
        PROVE  go(p, n) \in Points /\ ~blocked(g, go(p, n))
    <2>1. Delta(vel, n) \in Points
      BY DeltaMoves
    <2>2. Tow(g, p, Delta(vel, n), reeled) \in Points /\ ~blocked(g, Tow(g, p, Delta(vel, n), reeled))
      BY <1>2, <2>1, TowIsSound
    <2> QED
      BY <1>2, <2>2
  <1>3. swing(g, b, vel, reeled) = r
    BY DEF swing
  <1> HIDE DEF go
  <1>4. to \in Points /\ ~blocked(g, to)
    BY <1>1, <1>2
  <1> HIDE DEF to
  <1>5. /\ e \in Walkers /\ e.at = to /\ e.alive = b.alive /\ e.grounded = b.grounded
        /\ e.vx = b.vx /\ e.vy = b.vy /\ e.apex = b.apex /\ e.top = b.top
        /\ b.apex \in Int /\ b.top \in Int /\ to[2] \in Int
    BY <1>1, <1>4 DEF Walkers, Points
  <1> HIDE DEF e
  <1>6. Smaller(b.apex, to[2]) \in Int /\ Smaller(b.top, to[2]) \in Int
    BY <1>5 DEF Smaller
  <1>7. r = [e EXCEPT !.apex = Smaller(b.apex, to[2]), !.top = Smaller(b.top, to[2])]
    BY <1>5 DEF Risen
  <1>8. /\ r \in Walkers /\ r.at = to /\ r.alive = b.alive /\ r.grounded = b.grounded
        /\ r.apex = Smaller(b.apex, to[2]) /\ r.top = Smaller(b.top, to[2])
    BY <1>5, <1>6, <1>7 DEF Walkers
  <1> HIDE DEF r
  <1>9. CountsFalls(r)
    BY <1>1, <1>5, <1>8 DEF CountsFalls, Smaller
  <1> QED
    BY <1>3, <1>4, <1>8, <1>9 DEF Stands

LEMMA MovesAreSound ==
  ASSUME NEW u, TickInv(u), NEW i \in Stakeys, NEW m \in Motions \cup {Still}
  PROVE  TickInv(Moved(u, i, m)) /\ SameGround(u, Moved(u, i, m))
  <1> DEFINE b == u.body[i]
             d == WalkIfHeld(u.land, Held(u.land, b), m.walk)
             c == Put(u, i, d)
             n == moveWorm(u, i, m)
             q == n.body[i]
             r == [q EXCEPT !.alive = q.alive /\ q.at[2] < WaterY,
                            !.top = IF q.grounded THEN q.at[2] ELSE q.top]
  <1>1. Stands(u.land, b) /\ b \in Walkers
    BY DEF TickInv, Stands
  <1>2. m.walk \in Int /\ m.vel \in Points /\ m.chute \in BOOLEAN
    BY MotionsAreTyped
  <1>3. Stands(u.land, d)
    BY <1>1, <1>2, WalkIsSound
  <1>4. TickInv(c) /\ SameGround(u, c) /\ c.body[i] = d
    BY <1>3, PutIsSound
  <1> HIDE DEF d
  <1>5. TickInv(n) /\ SameGround(u, n)
    <2>1. CASE ~b.alive
      BY <2>1 DEF moveWorm, SameGround
    <2>2. CASE b.alive /\ Lost(b)
      <3> DEFINE e == [b EXCEPT !.alive = FALSE]
      <3>1. /\ e \in Walkers /\ e.alive = FALSE /\ e.at = b.at /\ e.top = b.top /\ e.apex = b.apex
            /\ e.grounded = b.grounded /\ e.vy = b.vy
        BY <1>1 DEF Walkers
      <3>2. n = Put(u, i, e)
        BY <2>2 DEF moveWorm
      <3> HIDE DEF e
      <3>3. Stands(u.land, e)
        BY <1>1, <3>1 DEF Stands, CountsFalls
      <3> QED
        BY <3>2, <3>3, PutIsSound
    <2>3. CASE b.alive /\ ~Lost(b) /\ m.rope # "none" /\ ~b.grounded
      <3> DEFINE s == swing(u.land, b, m.vel, m.rope = "reeled")
      <3>1. n = Put(u, i, s)
        BY <2>3 DEF moveWorm
      <3>2. (m.rope = "reeled") \in BOOLEAN
        OBVIOUS
      <3>3. Stands(u.land, s)
        BY <1>1, <1>2, <2>3, <3>2, SwingIsSound
      <3> HIDE DEF s
      <3> QED
        BY <3>1, <3>3, PutIsSound
    <2>4. CASE b.alive /\ ~Lost(b) /\ ~(m.rope # "none" /\ ~b.grounded)
      <3>1. n = FallUnlessHeld(c, i, m)
        BY <2>4 DEF moveWorm, d
      <3>2. CASE d.grounded
        <4>1. n = c
          BY <1>4, <3>1, <3>2 DEF FallUnlessHeld
        <4> QED
          BY <1>4, <4>1
      <3>3. CASE ~d.grounded
        <4>1. n = Fall(c, i, m.vel, m.chute)
          BY <1>4, <3>1, <3>3 DEF FallUnlessHeld
        <4>2. d.grounded = FALSE
          BY <1>3, <3>3 DEF Stands, Walkers
        <4>3. TickInv(n) /\ SameGround(c, n)
          BY <1>2, <1>4, <4>1, <4>2, FallIsSound
        <4> QED
          BY <1>4, <4>3 DEF SameGround
      <3> QED
        BY <3>2, <3>3
    <2> QED
      BY <2>1, <2>2, <2>3, <2>4
  <1> HIDE DEF n
  <1>6. Stands(n.land, q) /\ q \in Walkers
    BY <1>5 DEF TickInv, Stands
  <1>7. Moved(u, i, m) = Put(n, i, r)
    BY DEF Moved, Drowned, n
  <1> HIDE DEF q
  <1>8. /\ r \in Walkers /\ r.at = q.at /\ (r.alive => q.alive) /\ r.grounded = q.grounded
        /\ r.apex = q.apex /\ r.vy = q.vy /\ r.top = (IF q.grounded THEN q.at[2] ELSE q.top)
    <2>1. (q.alive /\ q.at[2] < WaterY) \in BOOLEAN /\ (IF q.grounded THEN q.at[2] ELSE q.top) \in Int
      BY <1>6 DEF Walkers, Points
    <2> QED
      BY <1>6, <2>1 DEF Walkers
  <1> HIDE DEF r
  <1>9. Stands(n.land, r)
    <2>1. q.at[2] \in Int
      BY <1>6 DEF Walkers, Points
    <2>2. CountsFalls(r)
      BY <1>6, <1>8, <2>1 DEF Stands, CountsFalls
    <2> QED
      BY <1>6, <1>8, <2>2 DEF Stands
  <1>10. TickInv(Put(n, i, r)) /\ SameGround(n, Put(n, i, r))
    BY <1>5, <1>9, PutIsSound
  <1> QED
    BY <1>5, <1>7, <1>10 DEF SameGround

LEMMA BothMovesAreSound ==
  ASSUME NEW u, TickInv(u), NEW m \in Motions
  PROVE  TickInv(BothMoved(u, m)) /\ SameGround(u, BothMoved(u, m))
  <1> DEFINE n == Moved(u, Active, m)
  <1>1. Active \in Stakeys /\ 3 - Active \in Stakeys
    BY DEF Active, Stakeys
  <1>2. TickInv(n) /\ SameGround(u, n)
    BY <1>1, MovesAreSound
  <1> HIDE DEF n
  <1>3. TickInv(Moved(n, 3 - Active, Still)) /\ SameGround(n, Moved(n, 3 - Active, Still))
    BY <1>1, <1>2, MovesAreSound
  <1> QED
    BY <1>2, <1>3 DEF SameGround, BothMoved, n

(* Earth that has changed in this tick lies in a box that was reported.     *)
RectOf(b) == Rect(b[1], b[2], b[3], b[4])

Reported(u) ==
  \A p \in Cells : ~(p \in u.land <=> p \in land) => \E k \in DOMAIN u.dirty : p \in RectOf(u.dirty[k])

LEMMA ReportsStay ==
  ASSUME NEW u, NEW n, Reported(u), SameGround(u, n)
  PROVE  Reported(n)
BY DEF Reported, SameGround

LEMMA ReportsGrow ==
  ASSUME NEW u, u.dirty \in Seq(Boxes), Reported(u), NEW b \in Boxes, NEW n,
         n.dirty = Append(u.dirty, b),
         \A p \in Cells : ~(p \in n.land <=> p \in u.land) => p \in RectOf(b)
  PROVE  Reported(n)
  <1>1. /\ Len(u.dirty) \in Nat /\ DOMAIN u.dirty = 1..Len(u.dirty)
        /\ DOMAIN n.dirty = 1..Len(u.dirty) + 1
        /\ n.dirty[Len(u.dirty) + 1] = b
        /\ \A k \in 1..Len(u.dirty) : n.dirty[k] = u.dirty[k]
    BY AppendProperties, LenProperties
  <1> SUFFICES ASSUME NEW p \in Cells, ~(p \in n.land <=> p \in land)
               PROVE  \E k \in DOMAIN n.dirty : p \in RectOf(n.dirty[k])
    BY DEF Reported
  <1>2. CASE p \in n.land <=> p \in u.land
    <2>1. PICK k \in DOMAIN u.dirty : p \in RectOf(u.dirty[k])
      BY <1>2 DEF Reported
    <2> QED
      BY <1>1, <2>1
  <1>3. CASE ~(p \in n.land <=> p \in u.land)
    BY <1>1, <1>3
  <1> QED
    BY <1>2, <1>3

LEMMA LessEarthIsSound ==
  ASSUME NEW g, NEW h, g \subseteq h, NEW b, Stands(h, b)
  PROVE  Stands(g, b)
  <1>1. b \in Walkers /\ b.at \in Points
    BY DEF Stands, Walkers
  <1>2. blocked(g, b.at) => blocked(h, b.at)
    BY <1>1, BlockedIs
  <1> QED
    BY <1>2 DEF Stands

LEMMA ClearedIsSound ==
  ASSUME NEW u, TickInv(u), NEW cells, NEW b \in Boxes
  PROVE  /\ TickInv(Cleared(u, cells, b)) /\ Cleared(u, cells, b).body = u.body
         /\ Cleared(u, cells, b).land = u.land \ cells
         /\ Cleared(u, cells, b).dirty = Append(u.dirty, b)
  <1> DEFINE n == Cleared(u, cells, b)
  <1>1. u \in Journeys /\ u.dirty \in Seq(Boxes) /\ u.land \subseteq Cells
    BY DEF TickInv, Journeys
  <1>2. Append(u.dirty, b) \in Seq(Boxes) /\ u.land \ cells \in SUBSET Cells
    BY <1>1, AppendProperties
  <1>3. /\ n \in Journeys /\ n.body = u.body /\ n.hurt = u.hurt
        /\ n.land = u.land \ cells /\ n.dirty = Append(u.dirty, b)
    <2> DEFINE l == u.land \ cells
               d == Append(u.dirty, b)
    <2>1. n = [u EXCEPT !.land = l, !.dirty = d]
      BY DEF Cleared
    <2>2. l \in SUBSET Cells /\ d \in Seq(Boxes)
      BY <1>2
    <2> HIDE DEF l, d
    <2>3. n \in Journeys /\ n.body = u.body /\ n.hurt = u.hurt /\ n.land = l /\ n.dirty = d
      BY <1>1, <2>1, <2>2 DEF Journeys
    <2> QED
      BY <2>3 DEF l, d
  <1> HIDE DEF n
  <1>4. \A i \in Stakeys : Stands(n.land, n.body[i])
    <2>1. n.land \subseteq u.land
      BY <1>3
    <2> QED
      BY <1>3, <2>1, LessEarthIsSound DEF TickInv
  <1>5. TickInv(n)
    BY <1>3, <1>4 DEF TickInv
  <1> QED
    BY <1>3, <1>5 DEF n

(* The box of a circle holds what it takes out of the field. *)
LEMMA CircleIsBoxed ==
  ASSUME NEW c \in Points, NEW r \in Nat
  PROVE  CircleBox(c, r) \in Boxes /\ \A p \in Cells : p \in Circle(c, r) => p \in RectOf(CircleBox(c, r))
  <1>1. c[1] \in Int /\ c[2] \in Int
    BY DEF Points
  <1> DEFINE x0 == Larger(c[1] - r, 0)
             y0 == Larger(c[2] - r, 0)
             x1 == Smaller(c[1] + r + 1, Width)
             y1 == Smaller(c[2] + r + 1, Height)
  <1>2. CircleBox(c, r) = <<x0, y0, x1, y1>>
    BY DEF CircleBox, Clip
  <1>3. x0 \in Int /\ y0 \in Int /\ x1 \in Int /\ y1 \in Int
    BY <1>1, GroundAssumption DEF Larger, Smaller
  <1>4. ASSUME NEW p \in Cells, p \in Circle(c, r) PROVE p \in Rect(x0, y0, x1, y1)
    <2>1. PICK x \in 0..Width - 1, y \in 0..Height - 1 : p = <<x, y>>
      BY <1>4 DEF Cells
    <2>2. x \in c[1] - r..(c[1] + r + 1) - 1 /\ y \in c[2] - r..(c[2] + r + 1) - 1
      <3> DEFINE A == c[1] - r..(c[1] + r + 1) - 1
                 B == c[2] - r..(c[2] + r + 1) - 1
      <3>1. p \in A \X B
        <4>1. p \in Rect(c[1] - r, c[2] - r, c[1] + r + 1, c[2] + r + 1)
          BY <1>4, Zenon DEF Circle
        <4> QED
          BY <4>1, Zenon DEF Rect
      <3> HIDE DEF A, B
      <3>2. x \in A /\ y \in B
        BY <2>1, <3>1
      <3> QED
        BY <3>2 DEF A, B
    <2>3. x \in x0..x1 - 1 /\ y \in y0..y1 - 1
      BY <1>1, <2>1, <2>2, GroundAssumption DEF Larger, Smaller
    <2> QED
      BY <2>1, <2>3 DEF Rect
  <1> HIDE DEF x0, y0, x1, y1
  <1>5. CircleBox(c, r) \in Boxes /\ RectOf(CircleBox(c, r)) = Rect(x0, y0, x1, y1)
    BY <1>2, <1>3 DEF Boxes, RectOf
  <1> QED
    BY <1>4, <1>5

(* Who is thrown off its feet falls from where it is. *)
LEMMA ExplosionIsSound ==
  ASSUME NEW u, TickInv(u), Reported(u), NEW c \in Points
  PROVE  /\ TickInv(explode(u, c)) /\ Reported(explode(u, c))
         /\ Len(explode(u, c).dirty) = Len(u.dirty) + 1
  <1> DEFINE hit(b) == b.alive /\ Distance(Minus(b.at, <<0, 1>>), c) < Crater
             k == Cleared(u, Circle(c, Crater), CircleBox(c, Crater))
             thrown == [i \in Stakeys |-> IF hit(k.body[i]) THEN Aloft(k.body[i]) ELSE k.body[i]]
             n == explode(u, c)
  <1>1. Crater \in Nat /\ u.dirty \in Seq(Boxes) /\ u \in Journeys
    BY DEF Crater, TickInv, Journeys
  <1>2. /\ CircleBox(c, Crater) \in Boxes
        /\ \A p \in Cells : p \in Circle(c, Crater) => p \in RectOf(CircleBox(c, Crater))
    BY <1>1, CircleIsBoxed
  <1>3. /\ TickInv(k) /\ k.land = u.land \ Circle(c, Crater)
        /\ k.dirty = Append(u.dirty, CircleBox(c, Crater))
    BY <1>2, ClearedIsSound
  <1>4. Reported(k)
    BY <1>1, <1>2, <1>3, ReportsGrow
  <1>5. n = [k EXCEPT !.body = thrown]
    BY DEF explode
  <1> HIDE DEF k, hit
  <1>6. ASSUME NEW i \in Stakeys PROVE Stands(k.land, thrown[i])
    <2>1. Stands(k.land, k.body[i])
      BY <1>3 DEF TickInv
    <2> DEFINE b == k.body[i]
    <2>2. b \in Walkers /\ b.at[2] \in Int
      BY <2>1 DEF Stands, Walkers, Points
    <2> HIDE DEF b
    <2>3. /\ Aloft(b) \in Walkers /\ Aloft(b).at = b.at /\ Aloft(b).alive = b.alive
          /\ Aloft(b).apex = b.at[2] /\ Aloft(b).top = b.top /\ Aloft(b).grounded = FALSE
      BY <2>2 DEF Walkers, Aloft
    <2>4. Stands(k.land, Aloft(b))
      BY <2>1, <2>2, <2>3 DEF Stands, CountsFalls, b
    <2> QED
      BY <2>1, <2>4 DEF b
  <1>7. thrown \in [Stakeys -> Walkers]
    BY <1>6 DEF Stands
  <1> HIDE DEF thrown, n
  <1>8. n \in Journeys /\ n.land = k.land /\ n.dirty = k.dirty /\ n.hurt = k.hurt /\ n.body = thrown
    <2>1. k \in Journeys
      BY <1>3 DEF TickInv
    <2> QED
      BY <1>5, <1>7, <2>1 DEF Journeys
  <1>9. TickInv(n) /\ Reported(n)
    BY <1>3, <1>4, <1>6, <1>8 DEF TickInv, Reported
  <1>10. Len(n.dirty) = Len(u.dirty) + 1
    BY <1>1, <1>2, <1>3, <1>8, AppendProperties
  <1> QED
    BY <1>9, <1>10 DEF n

(* A tick reports three boxes at most, and their hull holds them.           *)
LEMMA ExtremesExist ==
  ASSUME NEW a \in Int, NEW b \in Int, NEW c \in Int
  PROVE  /\ \E n \in {a, b, c} : \A m \in {a, b, c} : n <= m
         /\ \E n \in {a, b, c} : \A m \in {a, b, c} : n >= m
  <1>1. \E n \in {a, b, c} : \A m \in {a, b, c} : n <= m
    <2>1. CASE a <= b /\ a <= c
      BY <2>1
    <2>2. CASE b <= a /\ b <= c
      BY <2>2
    <2>3. CASE c <= a /\ c <= b
      BY <2>3
    <2> QED
      BY <2>1, <2>2, <2>3
  <1>2. \E n \in {a, b, c} : \A m \in {a, b, c} : n >= m
    <2>1. CASE a >= b /\ a >= c
      BY <2>1
    <2>2. CASE b >= a /\ b >= c
      BY <2>2
    <2>3. CASE c >= a /\ c >= b
      BY <2>3
    <2> QED
      BY <2>1, <2>2, <2>3
  <1> QED
    BY <1>1, <1>2

LEMMA HullHolds ==
  ASSUME NEW boxes \in Seq(Boxes), Len(boxes) \in 1..3
  PROVE  /\ \A i \in 1..4 : Hull(boxes)[i] \in Int
         /\ \A k \in DOMAIN boxes :
              /\ Hull(boxes)[1] <= boxes[k][1] /\ Hull(boxes)[2] <= boxes[k][2]
              /\ Hull(boxes)[3] >= boxes[k][3] /\ Hull(boxes)[4] >= boxes[k][4]
  <1> DEFINE side(i) == {boxes[k][i] : k \in DOMAIN boxes}
             bound(i, S) == CHOOSE n \in S : \A m \in S : IF i <= 2 THEN n <= m ELSE n >= m
  <1>1. DOMAIN boxes = 1..Len(boxes) /\ \A k \in DOMAIN boxes : boxes[k] \in Boxes
    BY LenProperties
  <1>2. ASSUME NEW i \in 1..4
        PROVE  \E a, b, c \in Int : side(i) = {a, b, c}
    <2>1. \A k \in DOMAIN boxes : boxes[k][i] \in Int
      <3>1. \A b \in Boxes : b[1] \in Int /\ b[2] \in Int /\ b[3] \in Int /\ b[4] \in Int
        BY DEF Boxes
      <3>2. i = 1 \/ i = 2 \/ i = 3 \/ i = 4
        OBVIOUS
      <3> QED
        BY <1>1, <3>1, <3>2
    <2>2. CASE Len(boxes) = 1
      <3>1. side(i) = {boxes[1][i], boxes[1][i], boxes[1][i]}
        BY <1>1, <2>2
      <3> QED
        BY <1>1, <2>1, <2>2, <3>1
    <2>3. CASE Len(boxes) = 2
      <3>1. side(i) = {boxes[1][i], boxes[2][i], boxes[2][i]}
        BY <1>1, <2>3
      <3> QED
        BY <1>1, <2>1, <2>3, <3>1
    <2>4. CASE Len(boxes) = 3
      <3>1. side(i) = {boxes[1][i], boxes[2][i], boxes[3][i]}
        BY <1>1, <2>4
      <3> QED
        BY <1>1, <2>1, <2>4, <3>1
    <2>5. Len(boxes) = 1 \/ Len(boxes) = 2 \/ Len(boxes) = 3
      OBVIOUS
    <2> QED
      BY ONLY <2>2, <2>3, <2>4, <2>5
  <1>3. ASSUME NEW i \in 1..4
        PROVE  /\ Hull(boxes)[i] \in Int
               /\ \A m \in side(i) : IF i <= 2 THEN Hull(boxes)[i] <= m ELSE Hull(boxes)[i] >= m
    <2>1. PICK a, b, c \in Int : side(i) = {a, b, c}
      BY <1>2
    <2>2. \E n \in side(i) : \A m \in side(i) : IF i <= 2 THEN n <= m ELSE n >= m
      <3>1. /\ \E n \in {a, b, c} : \A m \in {a, b, c} : n <= m
            /\ \E n \in {a, b, c} : \A m \in {a, b, c} : n >= m
        BY ExtremesExist
      <3> HIDE DEF side
      <3>2. CASE i <= 2
        BY <2>1, <3>1, <3>2
      <3>3. CASE ~(i <= 2)
        BY <2>1, <3>1, <3>3
      <3> QED
        BY <3>2, <3>3
    <2>3. Hull(boxes)[i] = bound(i, side(i))
      BY DEF Hull
    <2> HIDE DEF side
    <2>4. /\ bound(i, side(i)) \in side(i)
          /\ \A m \in side(i) : IF i <= 2 THEN bound(i, side(i)) <= m ELSE bound(i, side(i)) >= m
      BY <2>2
    <2> QED
      BY <2>1, <2>3, <2>4
  <1>4. ASSUME NEW k \in DOMAIN boxes, NEW i \in 1..4 PROVE boxes[k][i] \in side(i)
    OBVIOUS
  <1> HIDE DEF side
  <1> QED
    BY <1>3, <1>4

(* Where Shade looks from a point. *)
Looks == {<<0, 0>>, <<0, -1>>, <<0, -2>>, <<-1, 0>>, <<1, 0>>, <<0, 1>>}

LEMMA ShadesAgree ==
  ASSUME NEW g, NEW h, NEW p \in Points,
         \A o \in Looks : Plus(p, o) \in g <=> Plus(p, o) \in h
  PROVE  Shade(g, p) = Shade(h, p)
  <1>1. Plus(p, <<0, 0>>) = p
    BY DEF Plus, Points
  <1>2. p \in g <=> p \in h
    BY <1>1 DEF Looks
  <1>3. /\ Plus(p, <<0, -1>>) \in g <=> Plus(p, <<0, -1>>) \in h
        /\ Plus(p, <<0, -2>>) \in g <=> Plus(p, <<0, -2>>) \in h
        /\ Plus(p, <<-1, 0>>) \in g <=> Plus(p, <<-1, 0>>) \in h
        /\ Plus(p, <<1, 0>>) \in g <=> Plus(p, <<1, 0>>) \in h
        /\ Plus(p, <<0, 1>>) \in g <=> Plus(p, <<0, 1>>) \in h
    BY DEF Looks
  <1> QED
    BY <1>2, <1>3 DEF Shade

(* The margin of the hull is as far as Shade looks. *)
LEMMA MarginIsEnough ==
  ASSUME NEW boxes \in Seq(Boxes), Len(boxes) \in 1..3, NEW k \in DOMAIN boxes,
         NEW p \in Cells, NEW o \in Looks, Plus(p, o) \in RectOf(boxes[k])
  PROVE  p \in Repainted(boxes)
  <1> DEFINE b == Hull(boxes)
             d == boxes[k]
  <1>1. /\ b[1] \in Int /\ b[2] \in Int /\ b[3] \in Int /\ b[4] \in Int
        /\ b[1] <= d[1] /\ b[2] <= d[2] /\ b[3] >= d[3] /\ b[4] >= d[4]
    BY HullHolds
  <1>2. d \in Boxes
    BY LenProperties
  <1>3. d[1] \in Int /\ d[2] \in Int /\ d[3] \in Int /\ d[4] \in Int
    BY <1>2 DEF Boxes
  <1>4. PICK x \in 0..Width - 1, y \in 0..Height - 1 : p = <<x, y>>
    BY DEF Cells
  <1>5. PICK a \in -1..1, c \in -2..1 : o = <<a, c>>
    BY DEF Looks
  <1> HIDE DEF b, d
  <1>6. x + a \in d[1]..d[3] - 1 /\ y + c \in d[2]..d[4] - 1
    BY <1>4, <1>5 DEF RectOf, Rect, Plus, d
  <1>7. x \in (b[1] - 2)..(b[3] + 2) - 1 /\ y \in (b[2] - 2)..(b[4] + 2) - 1
    <2>1. ASSUME NEW b1 \in Int, NEW b2 \in Int, NEW b3 \in Int, NEW b4 \in Int,
                 NEW d1 \in Int, NEW d2 \in Int, NEW d3 \in Int, NEW d4 \in Int,
                 b1 <= d1, b2 <= d2, b3 >= d3, b4 >= d4,
                 x + a \in d1..d3 - 1, y + c \in d2..d4 - 1
          PROVE  x \in (b1 - 2)..(b3 + 2) - 1 /\ y \in (b2 - 2)..(b4 + 2) - 1
      BY <2>1, GroundAssumption
    <2> QED
      BY <1>1, <1>3, <1>6, <2>1
  <1>8. p \in Rect(b[1] - 2, b[2] - 2, b[3] + 2, b[4] + 2)
    BY <1>4, <1>7 DEF Rect
  <1>9. boxes # <<>>
    BY LenProperties
  <1> QED
    BY <1>8, <1>9 DEF Repainted, Inside, b

(* A tick that reports what it changes leaves the ground on the screen.     *)
LEMMA ScreenFollows ==
  ASSUME NEW u, u.dirty \in Seq(Boxes), Len(u.dirty) <= 3, Reported(u), u.land \subseteq Cells,
         land \subseteq Cells, PictureShowsGround, land' = u.land, Repaints(Repainted(u.dirty))
  PROVE  PictureShowsGround'
  <1> DEFINE mends == Repainted(u.dirty)
  <1>1. ASSUME NEW p \in Cells, p \notin mends PROVE Shade(land', p) = Shade(land, p)
    <2>1. ASSUME NEW o \in Looks, ~(Plus(p, o) \in land <=> Plus(p, o) \in u.land) PROVE FALSE
      <3>1. Plus(p, o) \in Cells
        BY <2>1
      <3>2. PICK k \in DOMAIN u.dirty : Plus(p, o) \in RectOf(u.dirty[k])
        BY <2>1, <3>1 DEF Reported
      <3>3. Len(u.dirty) \in 1..3
        <4>1. DOMAIN u.dirty = 1..Len(u.dirty) /\ Len(u.dirty) \in Nat /\ Len(u.dirty) <= 3
          BY LenProperties
        <4>2. k \in 1..Len(u.dirty)
          BY <4>1
        <4>3. Len(u.dirty) # 0
          BY <4>2
        <4>4. ASSUME NEW l \in Nat, l <= 3, l # 0 PROVE l \in 1..3
          BY <4>4
        <4> QED
          BY ONLY <4>1, <4>3, <4>4
      <3> QED
        BY <1>1, <3>2, <3>3, MarginIsEnough
    <2>2. p \in Points
      BY GroundAssumption DEF Cells, Points
    <2>3. \A o \in Looks : Plus(p, o) \in u.land <=> Plus(p, o) \in land
      BY <2>1
    <2> QED
      BY <2>2, <2>3, ShadesAgree
  <1> HIDE DEF mends
  <1>2. CASE mends = {}
    <2>1. picture' = picture
      BY <1>2 DEF Repaints, mends
    <2>2. \A p \in Cells : Shade(land', p) = Shade(land, p)
      BY <1>1, <1>2
    <2>3. Paint(land') = Paint(land)
      BY <2>2 DEF Paint
    <2> QED
      BY <2>1, <2>3 DEF PictureShowsGround
  <1>3. CASE mends # {}
    <2>1. picture' = [p \in Cells |-> IF p \in mends THEN Shade(land', p) ELSE picture[p]]
      BY <1>3 DEF Repaints, mends
    <2>2. \A p \in Cells : picture[p] = Shade(land, p)
      BY DEF PictureShowsGround, Paint
    <2>3. picture' = [p \in Cells |-> Shade(land', p)]
      BY <1>1, <2>1, <2>2
    <2> QED
      BY <2>3 DEF PictureShowsGround, Paint
  <1> QED
    BY <1>2, <1>3

(* What the input of a tick hands to the moves. *)
ReadyTick(u) ==
  /\ TickInv(u) /\ Reported(u) /\ Len(u.dirty) <= 2
  /\ u.dirty # <<>> => Changing

GroundInv ==
  /\ land \subseteq Cells /\ body \in [Stakeys -> Walkers] /\ changes \in 0..MaxChanges
  /\ \A i \in Stakeys : Stands(land, body[i]) /\ body[i].vx = 0 /\ body[i].vy = 0
  /\ hurt \subseteq Harms /\ FallsAreReal /\ PictureShowsGround

LEMMA GroundStart == GroundInit => GroundInv
  <1> SUFFICES ASSUME GroundInit PROVE GroundInv
    OBVIOUS
  <1>1. PICK l \in Lands : land = l.ground /\ body = [i \in Stakeys |-> Standing(l.at[i])]
    BY DEF GroundInit
  <1>2. /\ l.ground \subseteq Cells /\ l.at \in [Stakeys -> Points]
        /\ \A i \in Stakeys : ~blocked(l.ground, l.at[i])
    BY GroundAssumption DEF Points
  <1>3. ASSUME NEW i \in Stakeys
        PROVE  Stands(land, Standing(l.at[i])) /\ Standing(l.at[i]).vx = 0 /\ Standing(l.at[i]).vy = 0
    <2> DEFINE b == Standing(l.at[i])
    <2>1. l.at[i] \in Points /\ l.at[i][2] \in Int
      BY <1>2 DEF Points
    <2>2. /\ b \in Walkers /\ b.at = l.at[i] /\ b.apex = l.at[i][2] /\ b.top = l.at[i][2]
          /\ b.vx = 0 /\ b.vy = 0
      BY <2>1 DEF Standing, Walkers
    <2> HIDE DEF b
    <2>3. Stands(land, b)
      BY <1>1, <1>2, <2>1, <2>2 DEF Stands, CountsFalls
    <2> QED
      BY <2>2, <2>3 DEF b
  <1>4. body \in [Stakeys -> Walkers] /\ \A i \in Stakeys : Stands(land, body[i]) /\ body[i].vx = 0 /\ body[i].vy = 0
    BY <1>1, <1>3 DEF Stands
  <1>5. PictureShowsGround /\ changes \in 0..MaxChanges /\ hurt \subseteq Harms /\ FallsAreReal
    BY GroundAssumption DEF GroundInit, PictureShowsGround, FallsAreReal
  <1> QED
    BY <1>1, <1>2, <1>4, <1>5 DEF GroundInv

(* The end of a tick hands over what held in it. *)
LEMMA TickEndsWell ==
  ASSUME GroundInv, NEW u, TickInv(u), Reported(u), Len(u.dirty) <= 3,
         u.dirty # <<>> => Changing, TickEnds(u)
  PROVE  GroundInv'
  <1> DEFINE rest(b) == [b EXCEPT !.vx = 0, !.vy = 0]
  <1>1. /\ u.land \subseteq Cells /\ u.body \in [Stakeys -> Walkers] /\ u.dirty \in Seq(Boxes)
        /\ u.hurt \subseteq Harms
    BY DEF TickInv, Journeys
  <1>2. /\ land' = u.land /\ hurt' = u.hurt /\ body' = [i \in Stakeys |-> rest(u.body[i])]
        /\ Repaints(Repainted(u.dirty))
    BY DEF TickEnds
  <1>3. ASSUME NEW i \in Stakeys
        PROVE  Stands(u.land, rest(u.body[i])) /\ rest(u.body[i]).vx = 0 /\ rest(u.body[i]).vy = 0
    <2> DEFINE b == u.body[i]
               d == rest(b)
    <2>1. Stands(u.land, b) /\ b \in Walkers
      BY DEF TickInv, Stands
    <2> HIDE DEF b
    <2>2. /\ d \in Walkers /\ d.at = b.at /\ d.alive = b.alive /\ d.grounded = b.grounded
          /\ d.apex = b.apex /\ d.top = b.top /\ d.vx = 0 /\ d.vy = 0
      <3>1. b \in Walkers /\ 0 \in Int
        BY <2>1
      <3>2. d \in Walkers
        BY ONLY <3>1, Zenon DEF Walkers, d, rest
      <3> QED
        BY <3>1, <3>2 DEF Walkers
    <2> HIDE DEF d
    <2>3. Stands(u.land, d)
      BY <2>1, <2>2 DEF Stands, CountsFalls
    <2> QED
      BY <2>2, <2>3 DEF d, b
  <1> HIDE DEF rest
  <1>4. /\ body' \in [Stakeys -> Walkers]
        /\ \A i \in Stakeys : Stands(land', body'[i]) /\ body'[i].vx = 0 /\ body'[i].vy = 0
    BY <1>2, <1>3 DEF Stands
  <1>5. changes' \in 0..MaxChanges
    <2>1. changes \in 0..MaxChanges /\ MaxChanges \in Nat
      BY GroundAssumption DEF GroundInv
    <2>2. changes' = changes \/ (changes < MaxChanges /\ changes' = changes + 1)
      BY DEF TickEnds, Changing
    <2> QED
      BY ONLY <2>1, <2>2
  <1>6. FallsAreReal'
    BY <1>2 DEF TickInv, Earned, FallsAreReal
  <1>7. PictureShowsGround'
    BY <1>1, <1>2, ScreenFollows DEF GroundInv
  <1>8. land' \subseteq Cells /\ hurt' \subseteq Harms
    BY <1>1, <1>2
  <1> QED
    BY <1>4, <1>5, <1>6, <1>7, <1>8 DEF GroundInv

LEMMA StepKeepsGround ==
  ASSUME GroundInv, NEW u, ReadyTick(u), Step(u)
  PROVE  GroundInv'
  <1>1. TickInv(u) /\ Reported(u) /\ Len(u.dirty) <= 2 /\ (u.dirty # <<>> => Changing)
    BY DEF ReadyTick
  <1>2. PICK m \in Motions :
          TickEnds(BothMoved(u, m)) \/ (Changing /\ \E c \in Targets : TickEnds(explode(BothMoved(u, m), c)))
    BY DEF Step
  <1> DEFINE n == BothMoved(u, m)
  <1>3. TickInv(n) /\ Reported(n) /\ n.dirty = u.dirty
    BY <1>1, BothMovesAreSound, ReportsStay DEF SameGround
  <1> HIDE DEF n
  <1>4. n.dirty \in Seq(Boxes) /\ Len(n.dirty) \in Nat
    BY <1>3, LenProperties DEF TickInv, Journeys
  <1>5. CASE TickEnds(n)
    <2>1. Len(n.dirty) <= 3
      BY <1>1, <1>3, <1>4
    <2> QED
      BY <1>1, <1>3, <1>5, <2>1, TickEndsWell
  <1>6. ASSUME Changing, NEW c \in Targets, TickEnds(explode(n, c)) PROVE GroundInv'
    <2>1. c \in Points
      BY GroundAssumption DEF Points
    <2>2. TickInv(explode(n, c)) /\ Reported(explode(n, c)) /\ Len(explode(n, c).dirty) = Len(n.dirty) + 1
      BY <1>3, <2>1, ExplosionIsSound
    <2>3. Len(explode(n, c).dirty) <= 3
      BY <1>1, <1>3, <1>4, <2>2
    <2> QED
      BY <1>6, <2>2, <2>3, TickEndsWell
  <1> QED
    BY <1>2, <1>5, <1>6 DEF n

LEMMA TickStarts ==
  ASSUME GroundInv
  PROVE  ReadyTick(Now) /\ Now.land = land /\ Now.dirty = <<>> /\ Now.body = body
  <1>1. Now.land = land /\ Now.body = body /\ Now.dirty = <<>> /\ Now.hurt = {}
    BY DEF Now
  <1>2. Now \in Journeys
    BY DEF GroundInv, Now, Journeys
  <1>3. TickInv(Now)
    BY <1>1, <1>2 DEF TickInv, GroundInv
  <1>4. Reported(Now) /\ Len(Now.dirty) <= 2
    BY <1>1 DEF Reported
  <1> QED
    BY <1>1, <1>3, <1>4 DEF ReadyTick

(* The active Stakey is where the input puts it. *)
LEMMA PutStarts ==
  ASSUME GroundInv, NEW b, Stands(land, b)
  PROVE  ReadyTick(Put(Now, Active, b))
  <1>1. TickInv(Now) /\ Reported(Now) /\ Now.land = land /\ Now.dirty = <<>>
    BY TickStarts DEF ReadyTick
  <1>2. Active \in Stakeys
    BY DEF Active, Stakeys
  <1> DEFINE n == Put(Now, Active, b)
  <1>3. TickInv(n) /\ SameGround(Now, n)
    BY <1>1, <1>2, PutIsSound
  <1> HIDE DEF n
  <1>4. Reported(n) /\ n.dirty = <<>>
    BY <1>1, <1>3, ReportsStay DEF SameGround
  <1>5. Len(n.dirty) <= 2
    BY <1>4
  <1> QED
    BY <1>3, <1>4, <1>5 DEF ReadyTick, n

LEMMA DrillStarts ==
  ASSUME GroundInv, Changing, NEW dir \in Directions
  PROVE  ReadyTick(dig(Now, dir))
  <1> DEFINE at == Now.body[Active].at
             room == <<at[1] - HalfWidth - 1, at[2] - BodyHeight - 1, at[1] + HalfWidth + 2, at[2]>>
             cut == Plus(Minus(at, <<0, 1>>), dir)
             k == Cleared(Now, Rect(room[1], room[2], room[3], room[4]), room)
             n == dig(Now, dir)
  <1>1. TickInv(Now) /\ Reported(Now) /\ Now.dirty = <<>>
    BY TickStarts DEF ReadyTick
  <1>2. at \in Points /\ at[1] \in Int /\ at[2] \in Int
    BY <1>1 DEF TickInv, Journeys, Walkers, Active, Stakeys, Points
  <1>3. room \in Boxes
    BY <1>2 DEF Boxes, HalfWidth, BodyHeight
  <1>4. cut \in Points
    <2>1. dir \in Points /\ <<0, 1>> \in Points
      BY DEF Directions, Points
    <2> QED
      BY <1>2, <2>1, PointsMove
  <1>5. n = Cleared(k, Circle(cut, 1), CircleBox(cut, 1))
    BY DEF dig
  <1> HIDE DEF room, cut
  <1>6. /\ TickInv(k) /\ k.dirty = Append(<<>>, room)
        /\ k.land = Now.land \ Rect(room[1], room[2], room[3], room[4])
    BY <1>1, <1>3, ClearedIsSound
  <1>7. Reported(k) /\ k.dirty \in Seq(Boxes) /\ Len(k.dirty) = 1
    <2>1. Now.dirty \in Seq(Boxes)
      BY <1>1
    <2>2. k.dirty = Append(Now.dirty, room)
      BY <1>1, <1>6
    <2>3. Reported(k)
      BY <1>1, <1>3, <1>6, <2>1, <2>2, ReportsGrow DEF RectOf
    <2>4. Len(Now.dirty) = 0
      BY <1>1
    <2> QED
      BY <1>3, <2>1, <2>2, <2>3, <2>4, AppendProperties
  <1> HIDE DEF k
  <1>8. /\ CircleBox(cut, 1) \in Boxes
        /\ \A p \in Cells : p \in Circle(cut, 1) => p \in RectOf(CircleBox(cut, 1))
    BY <1>4, CircleIsBoxed
  <1>9. /\ TickInv(n) /\ n.land = k.land \ Circle(cut, 1)
        /\ n.dirty = Append(k.dirty, CircleBox(cut, 1))
    BY <1>5, <1>6, <1>8, ClearedIsSound
  <1> HIDE DEF n
  <1>10. Reported(n)
    BY <1>7, <1>8, <1>9, ReportsGrow
  <1>11. Len(n.dirty) = 2
    BY <1>7, <1>8, <1>9, AppendProperties
  <1> QED
    BY <1>9, <1>10, <1>11 DEF ReadyTick, n

(* A girder is not built through anybody. *)
LEMMA GirderIsFree ==
  ASSUME NEW g, NEW b, Stands(g, b), NEW p \in Points, b.alive => ~Overlaps(b, p)
  PROVE  Stands(g \cup Girder(p), b)
  <1>1. b \in Walkers /\ b.at \in Points /\ b.at[1] \in Int /\ b.at[2] \in Int /\ p[1] \in Int /\ p[2] \in Int
    BY DEF Stands, Walkers, Points
  <1> DEFINE x == b.at[1]
             y == b.at[2]
  <1>2. ASSUME NEW k \in {y - 2, y - 1}, <<x, k>> \in Girder(p) PROVE Overlaps(b, p)
    <2>1. x \in p[1] - 1..(p[1] + 1) - 1 /\ k \in p[2] - 1..(p[2] + 1) - 1
      BY <1>2 DEF Girder, Rect
    <2> QED
      BY <1>1, <1>2, <2>1 DEF Overlaps, HalfWidth, BodyHeight
  <1>3. blocked(g \cup Girder(p), b.at) => blocked(g, b.at) \/ Overlaps(b, p)
    BY <1>1, <1>2, BlockedIs
  <1> QED
    BY <1>3 DEF Stands

LEMMA GirderStarts ==
  ASSUME GroundInv, Changing, NEW p \in Targets, CanPlaceGirder(Now, p)
  PROVE  ReadyTick(placeGirder(Now, p))
  <1> DEFINE n == placeGirder(Now, p)
             l == land \cup Girder(p)
             d == Append(<<>>, GirderBox(p))
  <1>1. /\ TickInv(Now) /\ Reported(Now) /\ Now.dirty = <<>> /\ Now.land = land /\ Now \in Journeys
        /\ land \subseteq Cells
    BY TickStarts DEF ReadyTick, TickInv, GroundInv
  <1>2. p \in Points /\ p[1] \in Int /\ p[2] \in Int
    BY GroundAssumption DEF Points
  <1>3. GirderBox(p) \in Boxes /\ RectOf(GirderBox(p)) = Girder(p)
    BY <1>2 DEF GirderBox, Girder, RectOf, Boxes
  <1>4. Girder(p) \subseteq Cells
    <2>1. p[1] >= 1 /\ p[1] + 1 < Width /\ p[2] >= 1 /\ p[2] + 1 < WaterY
      BY DEF CanPlaceGirder, CanReach
    <2>2. (p[1] - 1..(p[1] + 1) - 1) \subseteq 0..Width - 1 /\ (p[2] - 1..(p[2] + 1) - 1) \subseteq 0..Height - 1
      BY <1>2, <2>1, GroundAssumption
    <2> QED
      BY <2>2 DEF Girder, Rect, Cells
  <1>5. d \in Seq(Boxes) /\ l \in SUBSET Cells /\ Len(d) = 1
    <2>1. <<>> \in Seq(Boxes) /\ Len(<<>>) = 0
      OBVIOUS
    <2>2. d \in Seq(Boxes) /\ Len(d) = Len(<<>>) + 1
      BY <1>3, <2>1, AppendProperties
    <2> QED
      BY <1>1, <1>4, <2>1, <2>2
  <1>6. n = [Now EXCEPT !.land = l, !.dirty = d]
    BY <1>1 DEF placeGirder, Built
  <1>7. n.dirty = Append(Now.dirty, GirderBox(p)) /\ n.land = Now.land \cup Girder(p)
    BY <1>1, <1>6 DEF Journeys
  <1> HIDE DEF l, d
  <1>8. n \in Journeys /\ n.land = l /\ n.dirty = d /\ n.body = Now.body /\ n.hurt = Now.hurt
    BY <1>1, <1>5, <1>6 DEF Journeys
  <1> HIDE DEF n
  <1>9. ASSUME NEW i \in Stakeys PROVE Stands(l, n.body[i])
    <2>1. Stands(land, Now.body[i])
      BY <1>1 DEF TickInv
    <2>2. Now.body[i].alive => ~Overlaps(Now.body[i], p)
      BY DEF CanPlaceGirder
    <2>3. Stands(land \cup Girder(p), Now.body[i])
      BY <1>2, <2>1, <2>2, GirderIsFree
    <2> QED
      BY <1>8, <2>3 DEF l
  <1>10. TickInv(n)
    BY <1>1, <1>8, <1>9 DEF TickInv
  <1>11. Reported(n)
    <2>1. Now.dirty \in Seq(Boxes)
      BY <1>1
    <2>2. \A q \in Cells : ~(q \in n.land <=> q \in Now.land) => q \in RectOf(GirderBox(p))
      BY <1>3, <1>7
    <2> QED
      BY <1>1, <1>3, <1>7, <2>1, <2>2, ReportsGrow
  <1>12. Len(n.dirty) <= 2
    <2>1. Len(n.dirty) = 1
      BY <1>5, <1>8
    <2> QED
      BY ONLY <2>1
  <1> QED
    BY <1>10, <1>11, <1>12 DEF ReadyTick, n

LEMMA GroundStep ==
  ASSUME GroundInv, [GroundNext]_groundVars
  PROVE  GroundInv'
  <1>1. Stands(land, me) /\ me \in Walkers /\ me.at \in Points /\ me.at[2] \in Int /\ me.vy = 0
    BY DEF GroundInv, Stands, Walkers, Points, me, Active, Stakeys
  <1>2. CASE Walks
    BY <1>2, TickStarts, StepKeepsGround DEF Walks
  <1>3. CASE Jumps \/ Attaches
    <2>1. /\ Aloft(me) \in Walkers /\ Aloft(me).at = me.at /\ Aloft(me).alive = me.alive
          /\ Aloft(me).apex = me.at[2] /\ Aloft(me).top = me.top /\ Aloft(me).grounded = FALSE
      BY <1>1 DEF Walkers, Aloft
    <2>2. Stands(land, Aloft(me))
      BY <1>1, <2>1 DEF Stands, CountsFalls
    <2> QED
      BY <1>3, <2>2, PutStarts, StepKeepsGround DEF Jumps, Attaches
  <1>4. CASE Thrusts
    <2> DEFINE d == [me EXCEPT !.grounded = FALSE]
    <2>1. /\ d \in Walkers /\ d.at = me.at /\ d.alive = me.alive
          /\ d.apex = me.apex /\ d.top = me.top /\ d.grounded = FALSE
      BY <1>1 DEF Walkers
    <2>2. Thrusts => Step(Put(Now, Active, d))
      BY DEF Thrusts
    <2> HIDE DEF d
    <2>3. Stands(land, d)
      BY <1>1, <2>1 DEF Stands, CountsFalls
    <2> QED
      BY <1>4, <2>2, <2>3, PutStarts, StepKeepsGround
  <1>5. CASE Drills
    BY <1>5, DrillStarts, StepKeepsGround DEF Drills
  <1>6. CASE Builds
    BY <1>6, GirderStarts, StepKeepsGround DEF Builds
  <1>7. CASE Teleports
    <2>1. PICK p \in Targets :
            ~blocked(land, p) /\ Step(Put(Now, Active, [Aloft([me EXCEPT !.at = p]) EXCEPT !.top = p[2]]))
      BY <1>7 DEF Teleports
    <2> DEFINE e == [me EXCEPT !.at = p]
               d == [Aloft(e) EXCEPT !.top = p[2]]
    <2>2. p \in Points /\ p[2] \in Int
      BY GroundAssumption DEF Points
    <2>3. e \in Walkers /\ e.at = p
      BY <1>1, <2>2 DEF Walkers
    <2>4. Step(Put(Now, Active, d))
      BY <2>1
    <2> HIDE DEF e
    <2>5. Aloft(e) \in Walkers /\ Aloft(e).at = p /\ Aloft(e).apex = p[2] /\ Aloft(e).grounded = FALSE
      BY <2>2, <2>3 DEF Walkers, Aloft
    <2>6. d \in Walkers /\ d.at = p /\ d.apex = p[2] /\ d.top = p[2] /\ d.grounded = FALSE
      BY <2>2, <2>5 DEF Walkers
    <2> HIDE DEF d
    <2>7. Stands(land, d)
      BY <2>1, <2>2, <2>6 DEF Stands, CountsFalls
    <2> QED
      BY <2>4, <2>7, PutStarts, StepKeepsGround
  <1>8. CASE UNCHANGED groundVars
    BY <1>8 DEF groundVars, GroundInv, FallsAreReal, PictureShowsGround
  <1> QED
    BY <1>2, <1>3, <1>4, <1>5, <1>6, <1>7, <1>8 DEF GroundNext

(* Every reachable state of the ground is typed, nobody stands in it, falls *)
(* are counted from where they began, and the screen shows it.             *)
THEOREM GroundInvariant == GroundSpec => []GroundInv
  <1>1. GroundInit => GroundInv
    BY GroundStart
  <1>2. GroundInv /\ [GroundNext]_groundVars => GroundInv'
    BY GroundStep
  <1> QED
    BY <1>1, <1>2, PTL DEF GroundSpec

(* The types of the ground, its Stakeys and its picture. *)
THEOREM GroundIsTyped == GroundSpec => []GroundTypeOK
  <1>1. GroundInv => GroundTypeOK
    <2> SUFFICES ASSUME GroundInv PROVE GroundTypeOK
      OBVIOUS
    <2>1. ASSUME NEW i \in Stakeys PROVE body[i] \in Bodies
      <3>1. body[i] \in Walkers /\ body[i].vx \in {0} /\ body[i].vy \in {0}
        BY DEF GroundInv, Stands
      <3> QED
        BY <3>1 DEF Walkers, Bodies, Points
    <2>2. DOMAIN picture = Cells
      BY DEF GroundInv, PictureShowsGround, Paint
    <2> QED
      BY <2>1, <2>2, GroundAssumption DEF GroundInv, GroundTypeOK
  <1> QED
    BY <1>1, GroundInvariant, PTL

(* On every map, whatever is dug, built, blown away or walked over, no      *)
(* living Stakey is ever inside of the earth (moveWorm, CanPlaceGirder).   *)
THEOREM NobodyIsEverBuried == GroundSpec => []NobodyBuried
  <1>1. GroundInv => NobodyBuried
    BY DEF GroundInv, Stands, NobodyBuried
  <1> QED
    BY <1>1, GroundInvariant, PTL

(* The hull of the reported boxes with its margin is all that has to be     *)
(* painted again (Scene.Update).                                           *)
THEOREM PictureAlwaysShowsGround == GroundSpec => []PictureShowsGround
  <1>1. GroundInv => PictureShowsGround
    BY DEF GroundInv
  <1> QED
    BY <1>1, GroundInvariant, PTL

(* No landing costs more than the height since the Stakey last stood       *)
(* (moveWorm).                                                             *)
THEOREM FallsAreAlwaysReal == GroundSpec => []FallsAreReal
  <1>1. GroundInv => FallsAreReal
    BY DEF GroundInv
  <1> QED
    BY <1>1, GroundInvariant, PTL

-------------------------------------------------------------------------------
(* TurnTrace: openings, and the bisection of a disputed turn               *)

(* Pow2 and Halves are what their recursions say.                          *)
LEMMA Pow2Is ==
  /\ Pow2 \in [Nat -> Nat] /\ Pow2[0] = 1
  /\ \A d \in Nat : Pow2[d + 1] = 2 * Pow2[d] /\ Pow2[d] >= 1
<1> DEFINE F == [p \in Nat \X Nat |-> 2 * p[2]]
<1>1. F \in [Nat \X Nat -> Nat]
  OBVIOUS
<1>2. PICK g \in [Nat -> Nat] : g = [n \in Nat |-> IF n = 0 THEN 1 ELSE F[<<n, g[n - 1]>>]]
  <2> HIDE DEF F
  <2>1. 1 \in Nat
    OBVIOUS
  <2>2. PICK g \in [Nat -> Nat] : Recurs(g, F, 1)
    BY <1>1, <2>1, RecursionIsDefined
  <2> QED
    BY <2>2 DEF Recurs
<1>3. g = [n \in Nat |-> IF n = 0 THEN 1 ELSE 2 * g[n - 1]]
  <2>1. ASSUME NEW n \in Nat, n # 0 PROVE F[<<n, g[n - 1]>>] = 2 * g[n - 1]
    <3>1. n - 1 \in Nat /\ g[n - 1] \in Nat
      BY <1>2, <2>1
    <3> QED
      BY <3>1
  <2> HIDE DEF F
  <2> QED
    BY <1>2, <2>1
<1> HIDE DEF F
<1>4. Pow2 = [n \in Nat |-> IF n = 0 THEN 1 ELSE 2 * Pow2[n - 1]]
  BY <1>3 DEF Pow2
<1>5. Pow2[0] = 1
  BY <1>4
<1>6. ASSUME NEW d \in Nat PROVE Pow2[d + 1] = 2 * Pow2[d]
  <2>1. d + 1 \in Nat /\ d + 1 # 0 /\ (d + 1) - 1 = d
    OBVIOUS
  <2> QED
    BY <1>4, <2>1
<1>7. \A d \in Nat : Pow2[d] \in Nat /\ Pow2[d] >= 1
  <2> DEFINE T == {d \in Nat : Pow2[d] \in Nat /\ Pow2[d] >= 1}
  <2>1. 0 \in T
    BY <1>5
  <2>2. \A d \in Nat : d \in T => d + 1 \in T
    BY <1>6
  <2> HIDE DEF T
  <2>3. \A d \in Nat : d \in T
    BY <2>1, <2>2, Induction
  <2> QED
    BY <2>3 DEF T
<1>8. Pow2 \in [Nat -> Nat]
  BY <1>4, <1>7
<1> QED
  BY <1>5, <1>6, <1>7, <1>8

LEMMA HalvesIs ==
  ASSUME NEW n \in Nat
  PROVE  /\ \A k \in Nat : Halves(n)[k] \in Nat
         /\ Halves(n)[0] = n
         /\ \A k \in Nat : Halves(n)[k + 1] = Halves(n)[k] \div 2
<1> DEFINE F == [p \in Nat \X Nat |-> p[2] \div 2]
           h == Halves(n)
<1>1. F \in [Nat \X Nat -> Nat]
  OBVIOUS
<1>2. PICK g \in [Nat -> Nat] : g = [k \in Nat |-> IF k = 0 THEN n ELSE F[<<k, g[k - 1]>>]]
  <2> HIDE DEF F
  <2>1. n \in Nat
    OBVIOUS
  <2>2. PICK g \in [Nat -> Nat] : Recurs(g, F, n)
    BY <1>1, <2>1, RecursionIsDefined
  <2> QED
    BY <2>2 DEF Recurs
<1>3. g = [k \in Nat |-> IF k = 0 THEN n ELSE g[k - 1] \div 2]
  <2>1. ASSUME NEW k \in Nat, k # 0 PROVE F[<<k, g[k - 1]>>] = g[k - 1] \div 2
    <3>1. k - 1 \in Nat /\ g[k - 1] \in Nat
      BY <1>2, <2>1
    <3> QED
      BY <3>1
  <2> HIDE DEF F
  <2> QED
    BY <1>2, <2>1
<1> HIDE DEF F
<1>4. h = [k \in Nat |-> IF k = 0 THEN n ELSE h[k - 1] \div 2]
  BY <1>3 DEF Halves
<1> HIDE DEF h
<1>5. h[0] = n
  BY <1>4
<1>6. ASSUME NEW k \in Nat PROVE h[k + 1] = h[k] \div 2
  <2>1. k + 1 \in Nat /\ k + 1 # 0 /\ (k + 1) - 1 = k
    OBVIOUS
  <2> QED
    BY <1>4, <2>1
<1>7. \A k \in Nat : h[k] \in Nat
  <2> DEFINE T == {k \in Nat : h[k] \in Nat}
  <2>1. 0 \in T
    BY <1>5
  <2>2. \A k \in Nat : k \in T => k + 1 \in T
    BY <1>6
  <2> HIDE DEF T
  <2>3. \A k \in Nat : k \in T
    BY <2>1, <2>2, Induction
  <2> QED
    BY <2>3 DEF T
<1> QED
  BY <1>5, <1>6, <1>7 DEF h

(* A tree has room for all states. *)
LEMMA DepthIs ==
  ASSUME NEW n \in Nat
  PROVE  Depth(n) \in Nat /\ Pow2[Depth(n)] >= n /\ Pow2[Depth(n)] >= 1
<1>1. \A d \in Nat : Pow2[d] >= d + 1
  <2> DEFINE T == {d \in Nat : Pow2[d] >= d + 1}
  <2>1. 0 \in T
    BY Pow2Is
  <2>2. ASSUME NEW d \in Nat, d \in T PROVE d + 1 \in T
    <3>1. Pow2[d + 1] = 2 * Pow2[d] /\ Pow2[d] \in Nat
      BY Pow2Is
    <3>2. Pow2[d] >= d + 1
      BY <2>2
    <3>3. Pow2[d + 1] >= (d + 1) + 1
      BY <3>1, <3>2
    <3> QED
      BY <3>3
  <2> HIDE DEF T
  <2>3. \A d \in Nat : d \in T
    BY <2>1, <2>2, Induction
  <2> QED
    BY <2>3 DEF T
<1> DEFINE D == {d \in 0..n : Pow2[d] >= n}
<1>2. n \in D
  BY <1>1, Pow2Is
<1>3. PICK d \in D : \A e \in D : d <= e
  <2>1. D \subseteq Nat /\ D # {}
    BY <1>2
  <2> QED
    BY <2>1, LeastNatural
<1>4. \A e \in 0..d - 1 : Pow2[e] < n
  <2> TAKE e \in 0..d - 1
  <2>1. e \in 0..n /\ e \notin D /\ e \in Nat
    BY <1>3
  <2>2. Pow2[e] \in Nat
    BY <2>1, Pow2Is
  <2> QED
    BY <2>1, <2>2
<1>5. \E c \in 0..n : Pow2[c] >= n /\ \A e \in 0..c - 1 : Pow2[e] < n
  BY <1>3, <1>4
<1>6. Depth(n) \in 0..n /\ Pow2[Depth(n)] >= n
  BY <1>5 DEF Depth
<1>7. Depth(n) \in Nat
  BY <1>6
<1>8. Pow2[Depth(n)] >= Depth(n) + 1 /\ Pow2[Depth(n)] \in Nat
  BY <1>7, <1>1, Pow2Is
<1> QED
  BY <1>6, <1>7, <1>8

(* A tree is filled from its leaves to the top. *)
LEMMA NodesAre ==
  ASSUME NEW tr, Len(tr.states) \in Nat
  PROVE  LET n == Pow2[Depth(Len(tr.states))]
         IN  /\ \A i \in 1..n - 1 : Nodes(tr)[i] = parent(Nodes(tr)[2 * i], Nodes(tr)[2 * i + 1])
             /\ \A i \in 0..n - 1 :
                  i < Len(tr.states) => Nodes(tr)[n + i] = leaf(tr.context, i, tr.states[i + 1])
<1> DEFINE n == Pow2[Depth(Len(tr.states))]
           Low(i) == IF i - n < Len(tr.states) THEN leaf(tr.context, i - n, tr.states[i - n + 1])
                     ELSE padding(tr.context, i - n)
           Value(g, i) == IF i < n THEN parent(g[2 * i], g[2 * i + 1]) ELSE Low(i)
           Fits(g, m) == \A i \in 2 * n - m..2 * n - 1 : g[i] = Value(g, i)
           T == {m \in Nat : m <= 2 * n - 1 => \E g : Fits(g, m)}
<1>1. n \in Nat /\ n >= 1
  BY DepthIs, Pow2Is
<1> HIDE DEF n
<1>2. 0 \in T
  <2>1. 2 * n - 0..2 * n - 1 = {}
    BY <1>1
  <2> QED
    BY <2>1
<1>3. ASSUME NEW m \in Nat, m \in T PROVE m + 1 \in T
  <2> SUFFICES ASSUME m + 1 <= 2 * n - 1 PROVE \E g : Fits(g, m + 1)
    OBVIOUS
  <2>1. PICK g : Fits(g, m)
    BY <1>1, <1>3
  <2> DEFINE j == 2 * n - (m + 1)
             val == Value(g, j)
             h == [i \in j..2 * n - 1 |-> IF i = j THEN val ELSE g[i]]
  <2>2. j \in 1..2 * n - 1 /\ j + 1 = 2 * n - m
    BY <1>1
  <2> HIDE DEF val
  <2>3. h[j] = val /\ \A i \in j + 1..2 * n - 1 : h[i] = g[i]
    BY <2>2, <1>1
  <2> HIDE DEF h
  <2>4. ASSUME NEW i \in j..2 * n - 1 PROVE Value(g, i) = Value(h, i)
    <3>1. CASE i < n
      <4>1. 2 * i \in j + 1..2 * n - 1 /\ 2 * i + 1 \in j + 1..2 * n - 1
        BY <3>1, <2>2, <1>1
      <4>2. h[2 * i] = g[2 * i] /\ h[2 * i + 1] = g[2 * i + 1]
        BY <2>3, <4>1
      <4> QED
        BY <4>2
    <3>2. CASE ~(i < n)
      BY <3>2
    <3> QED
      BY <3>1, <3>2
  <2>5. ASSUME NEW i \in j..2 * n - 1 PROVE h[i] = Value(h, i)
    <3>1. CASE i = j
      <4>1. h[j] = Value(g, j)
        BY <2>3 DEF val
      <4> HIDE DEF Value, j
      <4> QED
        BY <4>1, <3>1, <2>4
    <3>2. CASE i # j
      <4>1. i \in j + 1..2 * n - 1 /\ i \in 2 * n - m..2 * n - 1
        BY <3>2, <2>2, <1>1
      <4>2. h[i] = g[i] /\ g[i] = Value(g, i)
        BY <4>1, <2>3, <2>1
      <4> HIDE DEF Value, j
      <4> QED
        BY <4>2, <2>4
    <3> QED
      BY <3>1, <3>2
  <2>6. Fits(h, m + 1)
    BY <2>5
  <2> HIDE DEF Fits
  <2> QED
    BY <2>6
<1> HIDE DEF T
<1>4. \A m \in Nat : m \in T
  BY <1>2, <1>3, Induction
<1>5. PICK f : Fits(f, 2 * n - 1)
  <2>1. 2 * n - 1 \in Nat /\ 2 * n - 1 <= 2 * n - 1
    BY <1>1
  <2> HIDE DEF Fits
  <2> QED
    BY <2>1, <1>4 DEF T
<1> DEFINE h == [i \in 1..2 * n - 1 |-> f[i]]
<1>6. \A i \in 1..2 * n - 1 : Value(f, i) = Value(h, i)
  <2> TAKE i \in 1..2 * n - 1
  <2>1. CASE i < n
    <3>1. 2 * i \in 1..2 * n - 1 /\ 2 * i + 1 \in 1..2 * n - 1
      BY <2>1, <1>1
    <3>2. h[2 * i] = f[2 * i] /\ h[2 * i + 1] = f[2 * i + 1]
      BY <3>1
    <3> HIDE DEF h
    <3> QED
      BY <3>2
  <2>2. CASE ~(i < n)
    BY <2>2
  <2> QED
    BY <2>1, <2>2
<1>7. \A i \in 1..2 * n - 1 : h[i] = Value(h, i)
  <2> TAKE i \in 1..2 * n - 1
  <2>1. i \in 2 * n - (2 * n - 1)..2 * n - 1
    BY <1>1
  <2>2. f[i] = Value(f, i)
    BY <1>5, <2>1
  <2>3. h[i] = f[i]
    OBVIOUS
  <2> HIDE DEF h, Value
  <2> QED
    BY <2>2, <2>3, <1>6
<1>8. h = [i \in 1..2 * n - 1 |-> Value(h, i)]
  <2> HIDE DEF Value
  <2> QED
    BY <1>7
<1> HIDE DEF h
<1>9. \E g : g = [i \in 1..2 * n - 1 |-> Value(g, i)]
  BY <1>8
<1>10. Nodes(tr) = [i \in 1..2 * n - 1 |-> Value(Nodes(tr), i)]
  BY <1>9 DEF Nodes, n
<1>11. ASSUME NEW i \in 1..n - 1
       PROVE  Nodes(tr)[i] = parent(Nodes(tr)[2 * i], Nodes(tr)[2 * i + 1])
  <2>1. i \in 1..2 * n - 1 /\ i < n
    BY <1>1
  <2> QED
    BY <2>1, <1>10
<1>12. ASSUME NEW i \in 0..n - 1, i < Len(tr.states)
       PROVE  Nodes(tr)[n + i] = leaf(tr.context, i, tr.states[i + 1])
  <2>1. n + i \in 1..2 * n - 1 /\ ~(n + i < n) /\ (n + i) - n = i
    BY <1>1
  <2>2. Nodes(tr)[n + i] = Low(n + i)
    BY <2>1, <1>10
  <2> QED
    BY <2>1, <2>2, <1>12
<1> QED
  BY <1>11, <1>12 DEF n

(* The index of a leaf and its node, halved together on the way to the top. *)
LEMMA ParentIsBound ==
  ASSUME NEW a, NEW b, NEW x, NEW y, parent(a, b) = parent(x, y)
  PROVE  a = x /\ b = y
BY DEF parent

LEMMA PathIs ==
  ASSUME NEW d \in Nat, NEW i \in Nat, i < Pow2[d]
  PROVE  \A k \in Nat : k <= d => Halves(i)[k] \in Nat /\ Halves(i)[k] < Pow2[d - k]
<1> DEFINE T == {k \in Nat : k <= d => Halves(i)[k] < Pow2[d - k]}
<1>1. 0 \in T
  BY HalvesIs
<1>2. ASSUME NEW k \in Nat, k \in T PROVE k + 1 \in T
  <2> SUFFICES ASSUME k + 1 <= d PROVE Halves(i)[k + 1] < Pow2[d - (k + 1)]
    OBVIOUS
  <2> DEFINE e == d - (k + 1)
  <2>1. e \in Nat /\ d - k = e + 1
    OBVIOUS
  <2>2. Pow2[e + 1] = 2 * Pow2[e] /\ Pow2[e] \in Nat
    BY <2>1, Pow2Is
  <2>3. Halves(i)[k + 1] = Halves(i)[k] \div 2 /\ Halves(i)[k] \in Nat
    BY HalvesIs
  <2>4. Halves(i)[k] < Pow2[e + 1]
    BY <1>2, <2>1
  <2> HIDE DEF e
  <2>5. Halves(i)[k + 1] < Pow2[e]
    BY <2>2, <2>3, <2>4
  <2> QED
    BY <2>5 DEF e
<1> HIDE DEF T
<1>3. \A k \in Nat : k \in T
  BY <1>1, <1>2, Induction
<1> QED
  BY <1>3, HalvesIs DEF T

(* What Verify computes on its way from the leaf to the top. *)
Climbs(hash, ctx, o, d) ==
  /\ hash[0] = leaf(ctx, o.index, o.state)
  /\ \A k \in 1..d :
       hash[k] = IF Halves(o.index)[k - 1] % 2 = 0 THEN parent(hash[k - 1], o.siblings[k])
                 ELSE parent(o.siblings[k], hash[k - 1])

(* An opening that verifies has climbed from its leaf to the root.         *)
LEMMA VerifyClimbs ==
  ASSUME NEW tr, NEW o, Len(tr.states) \in Nat, Verify(tr, o)
  PROVE  \E hash : /\ Climbs(hash, tr.context, o, Depth(Len(tr.states)))
                   /\ boundRoot(tr.context, Len(tr.states), hash[Depth(Len(tr.states))]) = tr.root
<1> DEFINE d == Len(o.siblings)
           Value(g, k) ==
             IF k = 0 THEN leaf(tr.context, o.index, o.state)
             ELSE IF Halves(o.index)[k - 1] % 2 = 0 THEN parent(g[k - 1], o.siblings[k])
             ELSE parent(o.siblings[k], g[k - 1])
           Fits(g, m) == \A k \in 0..m : g[k] = Value(g, k)
           T == {m \in Nat : \E g : Fits(g, m)}
<1>1. d = Depth(Len(tr.states)) /\ d \in Nat
  BY DepthIs DEF Verify
<1> HIDE DEF d
<1>2. 0 \in T
  <2> DEFINE g == [k \in {0} |-> leaf(tr.context, o.index, o.state)]
  <2>1. g[0] = leaf(tr.context, o.index, o.state)
    OBVIOUS
  <2> HIDE DEF g
  <2>2. Fits(g, 0)
    BY <2>1
  <2> HIDE DEF Fits
  <2> QED
    BY <2>2
<1>3. ASSUME NEW m \in Nat, m \in T PROVE m + 1 \in T
  <2>1. PICK g : Fits(g, m)
    BY <1>3
  <2> DEFINE val == Value(g, m + 1)
             h == [k \in 0..m + 1 |-> IF k = m + 1 THEN val ELSE g[k]]
  <2> HIDE DEF val
  <2>2. h[m + 1] = val /\ \A k \in 0..m : h[k] = g[k]
    OBVIOUS
  <2> HIDE DEF h
  <2>3. ASSUME NEW k \in 0..m + 1 PROVE Value(g, k) = Value(h, k)
    <3>1. CASE k = 0
      BY <3>1
    <3>2. CASE k # 0
      <4>1. k - 1 \in 0..m
        BY <3>2
      <4>2. h[k - 1] = g[k - 1]
        BY <2>2, <4>1
      <4> QED
        BY <4>2
    <3> QED
      BY <3>1, <3>2
  <2>4. ASSUME NEW k \in 0..m + 1 PROVE h[k] = Value(h, k)
    <3>1. CASE k = m + 1
      <4>1. h[m + 1] = Value(g, m + 1)
        BY <2>2 DEF val
      <4> HIDE DEF Value
      <4> QED
        BY <4>1, <3>1, <2>3
    <3>2. CASE k # m + 1
      <4>1. k \in 0..m
        BY <3>2
      <4>2. h[k] = g[k] /\ g[k] = Value(g, k)
        BY <4>1, <2>2, <2>1
      <4> HIDE DEF Value
      <4> QED
        BY <4>2, <2>3
    <3> QED
      BY <3>1, <3>2
  <2>5. Fits(h, m + 1)
    BY <2>4
  <2> HIDE DEF Fits
  <2> QED
    BY <2>5
<1> HIDE DEF T
<1>4. PICK f : Fits(f, d)
  <2>1. d \in T
    BY <1>1, <1>2, <1>3, Induction
  <2> HIDE DEF Fits
  <2> QED
    BY <2>1 DEF T
<1> DEFINE h == [k \in 0..d |-> f[k]]
<1>5. \A k \in 0..d : h[k] = Value(h, k)
  <2> TAKE k \in 0..d
  <2>1. f[k] = Value(f, k)
    BY <1>4
  <2>2. Value(f, k) = Value(h, k)
    <3>1. CASE k = 0
      BY <3>1
    <3>2. CASE k # 0
      <4>1. k - 1 \in 0..d
        BY <3>2, <1>1
      <4>2. h[k - 1] = f[k - 1]
        BY <4>1
      <4> HIDE DEF h
      <4> QED
        BY <4>2
    <3> QED
      BY <3>1, <3>2
  <2>3. h[k] = f[k]
    OBVIOUS
  <2> HIDE DEF h, Value
  <2> QED
    BY <2>1, <2>2, <2>3
<1>6. h = [k \in 0..d |-> Value(h, k)]
  <2> HIDE DEF Value
  <2> QED
    BY <1>5
<1> HIDE DEF h
<1> DEFINE hash == CHOOSE g : g = [k \in 0..d |-> Value(g, k)]
<1>7. hash = [k \in 0..d |-> Value(hash, k)]
  BY <1>6
<1>8. boundRoot(tr.context, Len(tr.states), hash[d]) = tr.root
  BY DEF Verify, d
<1> HIDE DEF hash
<1>9. Climbs(hash, tr.context, o, d)
  <2>1. hash[0] = leaf(tr.context, o.index, o.state)
    BY <1>7, <1>1
  <2>2. ASSUME NEW k \in 1..d
        PROVE  hash[k] = IF Halves(o.index)[k - 1] % 2 = 0 THEN parent(hash[k - 1], o.siblings[k])
                         ELSE parent(o.siblings[k], hash[k - 1])
    <3>1. k \in 0..d /\ k # 0
      BY <1>1
    <3> QED
      BY <3>1, <1>7
  <2> QED
    BY <2>1, <2>2 DEF Climbs
<1> QED
  BY <1>1, <1>8, <1>9

(* A committed root binds: an opening that turntrace.Verify takes shows the  *)
(* state committed to at its index, whatever siblings the liar made up.    *)
(* Going down from the root, each node on the path is the tree's.          *)
THEOREM OpeningIsBound ==
  ASSUME NEW ctx, NEW states, Len(states) \in Nat, NEW o, o.index \in Nat, Verify(New(ctx, states), o)
  PROVE  o.state = states[o.index + 1]
<1> DEFINE tr    == [context |-> ctx, states |-> states]
           d     == Depth(Len(states))
           node  == Nodes(tr)
           i     == o.index
           half  == Halves(i)
           At(k) == Pow2[d - k] + half[k]
<1>1. /\ New(ctx, states).context = ctx /\ New(ctx, states).states = states
      /\ New(ctx, states).root = boundRoot(ctx, Len(states), node[1])
  BY DEF New
<1>2. /\ d \in Nat /\ Pow2[d] \in Nat /\ Pow2[d] >= Len(states) /\ i \in Nat /\ i < Len(states)
      /\ i < Pow2[d]
  <2>1. i < Len(states)
    BY <1>1 DEF Verify
  <2> HIDE DEF tr, i
  <2>2. d \in Nat /\ Pow2[d] >= Len(states) /\ Pow2[d] \in Nat
    BY DepthIs, Pow2Is
  <2>3. i \in Nat
    BY DEF i
  <2> QED
    BY <2>1, <2>2, <2>3
<1>3. PICK hash : Climbs(hash, ctx, o, d) /\ boundRoot(ctx, Len(states), hash[d]) = boundRoot(ctx, Len(states), node[1])
  BY <1>1, VerifyClimbs
<1>4. hash[d] = node[1]
  BY <1>3 DEF boundRoot
<1>5. /\ \A p \in 1..Pow2[d] - 1 : node[p] = parent(node[2 * p], node[2 * p + 1])
      /\ node[Pow2[d] + i] = leaf(ctx, i, states[i + 1])
  <2>1. tr.states = states /\ tr.context = ctx /\ i \in 0..Pow2[d] - 1
    BY <1>2
  <2> HIDE DEF tr, i
  <2> QED
    BY <1>2, <2>1, NodesAre
<1> HIDE DEF node, d
<1> HIDE DEF i
<1>6. \A k \in Nat : k <= d => half[k] \in Nat /\ half[k] < Pow2[d - k]
  BY <1>2, PathIs
<1>7. half[0] = i /\ \A k \in Nat : half[k + 1] = half[k] \div 2
  BY <1>2, HalvesIs
<1> HIDE DEF half
<1>8. \A k \in Nat : k < d => /\ half[k] = 2 * half[k + 1] + (half[k] % 2)
                              /\ half[k] % 2 \in 0..1 /\ half[k + 1] \in Nat
  <2> TAKE k \in Nat
  <2> HAVE k < d
  <2>0. k <= d
    BY <1>2
  <2>1. half[k] \in Nat 
    BY ONLY <1>6, <2>0, k \in Nat
  <2>11. half[k + 1] = half[k] \div 2
    BY ONLY <1>7, k \in Nat
  <2> QED
    BY <2>1, <2>11
<1>9. \A k \in Nat : k < d => Pow2[d - k] = 2 * Pow2[d - (k + 1)] /\ Pow2[d - (k + 1)] \in Nat
  <2> TAKE k \in Nat
  <2> HAVE k < d
  <2>1. d - (k + 1) \in Nat /\ (d - (k + 1)) + 1 = d - k
    BY <1>2
  <2> QED
    BY <2>1, Pow2Is
(* Inner nodes are within the tree. *)
<1>10. \A k \in Nat : 1 <= k /\ k <= d => At(k) \in 1..Pow2[d] - 1
  <2> DEFINE T == {k \in Nat : k <= d => /\ At(k) \in Nat /\ 1 <= At(k) /\ At(k) < 2 * Pow2[d]
                                        /\ (1 <= k => At(k) < Pow2[d])}
  <2>1. Pow2[d] >= 1
    BY <1>2
  <2>2. 0 \in T
    <3>1. d - 0 = d /\ half[0] = i
      BY <1>2, <1>7
    <3>2. At(0) \in Nat /\ 1 <= At(0) /\ At(0) < 2 * Pow2[d]
      BY <1>2, <2>1, <3>1
    <3> HIDE DEF At
    <3> QED
      BY <3>2
  <2>3. ASSUME NEW k \in Nat, k \in T PROVE k + 1 \in T
    <3> SUFFICES ASSUME k + 1 <= d
                 PROVE  At(k + 1) \in Nat /\ 1 <= At(k + 1) /\ At(k + 1) < Pow2[d]
      BY <1>2
    <3>1. k < d
      BY <1>2
    <3>2. /\ half[k] = 2 * half[k + 1] + (half[k] % 2) /\ half[k] % 2 \in 0..1 /\ half[k + 1] \in Nat
          /\ Pow2[d - k] = 2 * Pow2[d - (k + 1)] /\ Pow2[d - (k + 1)] \in Nat
      BY <3>1, <1>8, <1>9
    <3>3. half[k] \in Nat /\ half[k + 1] < Pow2[d - (k + 1)]
      BY <3>1, <1>2, <1>6
    <3>4. At(k) < 2 * Pow2[d]
      <4>1. k <= d
        BY <1>2, <3>1
      <4> HIDE DEF At
      <4> QED
        BY <4>1, <2>3
    <3>7. Pow2[d - (k + 1)] >= 1
      <4>1. d - (k + 1) \in Nat
        BY <1>2
      <4> QED
        BY <4>1, Pow2Is
    <3>5. 2 * At(k + 1) <= At(k)
      BY <3>2, <3>3
    <3>6. At(k + 1) \in Nat /\ At(k) \in Nat /\ 1 <= At(k + 1)
      BY <3>2, <3>3, <3>7
    <3> HIDE DEF At
    <3> QED
      BY <1>2, <3>4, <3>5, <3>6
  <2> HIDE DEF T
  <2>4. \A k \in Nat : k \in T
    BY <2>2, <2>3, Induction
  <2> QED
    BY <1>2, <2>4 DEF T
(* From the top down, the hashes are those of the tree. *)
<1>11. \A m \in Nat : m <= d => hash[d - m] = node[At(d - m)]
  <2> DEFINE T == {m \in Nat : m <= d => hash[d - m] = node[At(d - m)]}
  <2>1. 0 \in T
    <3>1. d - 0 = d /\ d - d = 0 /\ d <= d
      BY <1>2
    <3>2. half[d] \in Nat /\ half[d] < Pow2[d - d]
      BY <1>2, <1>6
    <3>3. half[d] < 1
      BY <3>1, <3>2, Pow2Is
    <3>4. At(d) = 1
      <4>1. half[d] = 0
        BY ONLY <3>2, <3>3
      <4>2. Pow2[d - d] = 1
        BY <3>1, Pow2Is
      <4> QED
        BY <4>1, <4>2
    <3> QED
      BY <1>4, <3>1, <3>4
  <2>2. ASSUME NEW m \in Nat, m \in T PROVE m + 1 \in T
    <3> SUFFICES ASSUME m + 1 <= d PROVE hash[d - (m + 1)] = node[At(d - (m + 1))]
      OBVIOUS
    <3> DEFINE k == d - (m + 1)
    <3>1. k \in Nat /\ k < d /\ k + 1 = d - m /\ k + 1 \in Nat /\ k + 1 \in 1..d /\ (k + 1) - 1 = k /\ m <= d
      BY <1>2
    <3>2. hash[k + 1] = node[At(k + 1)]
      BY <3>1, <2>2
    <3> HIDE DEF k
    <3>3. hash[k + 1] = IF half[k] % 2 = 0 THEN parent(hash[k], o.siblings[k + 1])
                        ELSE parent(o.siblings[k + 1], hash[k])
      BY <1>3, <3>1 DEF Climbs, half, i
    <3>4. /\ half[k] = 2 * half[k + 1] + (half[k] % 2) /\ half[k] % 2 \in 0..1 /\ half[k + 1] \in Nat
          /\ Pow2[d - k] = 2 * Pow2[d - (k + 1)] /\ Pow2[d - (k + 1)] \in Nat
      BY <3>1, <1>8, <1>9
    <3>5. At(k + 1) \in 1..Pow2[d] - 1
      BY <3>1, <1>10
    <3>6. node[At(k + 1)] = parent(node[2 * At(k + 1)], node[2 * At(k + 1) + 1])
      BY <3>5, <1>5
    <3>7. CASE half[k] % 2 = 0
      <4>1. At(k) = 2 * At(k + 1)
        BY <3>4, <3>7
      <4>2. parent(hash[k], o.siblings[k + 1]) = parent(node[At(k)], node[2 * At(k + 1) + 1])
        BY <3>2, <3>3, <3>6, <3>7, <4>1
      <4>3. hash[k] = node[At(k)]
        BY ONLY <4>2, ParentIsBound
      <4> QED
        BY <4>3 DEF k
    <3>8. CASE half[k] % 2 # 0
      <4>1. At(k) = 2 * At(k + 1) + 1
        BY <3>4, <3>8
      <4>2. parent(o.siblings[k + 1], hash[k]) = parent(node[2 * At(k + 1)], node[At(k)])
        BY <3>2, <3>3, <3>6, <3>8, <4>1
      <4>3. hash[k] = node[At(k)]
        BY ONLY <4>2, ParentIsBound
      <4> QED
        BY <4>3 DEF k
    <3> QED
      BY <3>7, <3>8
  <2> HIDE DEF T
  <2>3. \A m \in Nat : m \in T
    BY <2>1, <2>2, Induction
  <2> QED
    BY <2>3 DEF T
<1>12. hash[0] = node[Pow2[d] + i]
  <2>1. d <= d /\ d - d = 0 /\ d - 0 = d
    BY <1>2
  <2> QED
    BY <1>2, <1>7, <1>11, <2>1
<1>13. leaf(ctx, i, o.state) = leaf(ctx, i, states[i + 1])
  BY <1>3, <1>5, <1>12 DEF Climbs, i
<1> QED
  BY <1>13 DEF leaf, i

LEMMA StepIsState ==
  ASSUME NEW r \in Recordings, NEW x \in States, NEW at \in Int
  PROVE  simStep(x, r, at) \in States
<1> DEFINE I == {i \in DOMAIN r.inputs : r.inputs[i].tick = at}
<1>1. r.inputs \in Seq([tick : Nat, sequence : Nat])
  BY TraceAssumption
<1>2. IsFiniteSet(DOMAIN r.inputs)
  <2>1. Len(r.inputs) \in Nat /\ DOMAIN r.inputs = 1..Len(r.inputs)
    BY <1>1
  <2> QED
    BY <2>1, FS_Interval
<1>3. Cardinality(I) \in Nat
  <2>1. I \subseteq DOMAIN r.inputs
    OBVIOUS
  <2> QED
    BY <1>2, <2>1, FS_Subset, FS_CardinalityType
<1> HIDE DEF I
<1>4. x + 1 + Cardinality(I) \in Nat
  BY <1>3 DEF States
<1> QED
  BY <1>4 DEF simStep, States, I

(* The honest trace is computed step by step. *)
LEMMA PrefixIs ==
  ASSUME NEW r \in Recordings, NEW n \in Nat
  PROVE  /\ Prefix(r, n) \in [1..n + 1 -> States]
         /\ \A i \in 0..n - 1 : Prefix(r, n)[i + 2] = simStep(Prefix(r, n)[i + 1], r, i)
<1> DEFINE F == [p \in (1..n) \X States |-> simStep(p[2], r, p[1] - 1)]
           state == CHOOSE g : g = [k \in 0..n |-> IF k = 0 THEN 0 ELSE simStep(g[k - 1], r, k - 1)]
<1>1. F \in [(1..n) \X States -> States]
  BY StepIsState
<1>2. \A k \in 1..n, x \in States : F[<<k, x>>] = simStep(x, r, k - 1)
  OBVIOUS
<1> HIDE DEF F
<1>3. 0 \in States
  BY DEF States
<1>4. PICK g \in [0..n -> States] : Loops(g, F, 0, n)
  BY <1>1, <1>3, LoopIsDefined
<1>5. g = [k \in 0..n |-> IF k = 0 THEN 0 ELSE F[<<k, g[k - 1]>>]]
  BY <1>4 DEF Loops
<1>6. \A k \in 1..n : F[<<k, g[k - 1]>>] = simStep(g[k - 1], r, k - 1)
  <2> TAKE k \in 1..n
  <2>1. k - 1 \in 0..n /\ g[k - 1] \in States
    OBVIOUS
  <2> QED
    BY <2>1, <1>2
<1>7. g = [k \in 0..n |-> IF k = 0 THEN 0 ELSE simStep(g[k - 1], r, k - 1)]
  <2>1. \A k \in 0..n : k # 0 => k \in 1..n
    OBVIOUS
  <2> QED
    BY <1>5, <1>6, <2>1
<1>8. state = [k \in 0..n |-> IF k = 0 THEN 0 ELSE simStep(state[k - 1], r, k - 1)]
  BY <1>7
<1>9. Prefix(r, n) = [k \in 1..n + 1 |-> state[k - 1]]
  BY DEF Prefix
<1> HIDE DEF state
<1>10. \A k \in Nat : k <= n => state[k] \in States
  <2> DEFINE T == {k \in Nat : k <= n => state[k] \in States}
  <2>1. 0 \in T
    BY <1>3, <1>8
  <2>2. ASSUME NEW k \in Nat, k \in T PROVE k + 1 \in T
    <3> SUFFICES ASSUME k + 1 <= n PROVE state[k + 1] \in States
      OBVIOUS
    <3>1. k + 1 \in 0..n /\ k + 1 # 0 /\ (k + 1) - 1 = k /\ k <= n /\ k \in Int
      OBVIOUS
    <3>2. state[k + 1] = simStep(state[k], r, k)
      BY <1>8, <3>1
    <3>3. state[k] \in States
      BY <2>2, <3>1
    <3> QED
      BY <3>1, <3>2, <3>3, StepIsState
  <2> HIDE DEF T
  <2>3. \A k \in Nat : k \in T
    BY <2>1, <2>2, Induction
  <2> QED
    BY <2>3 DEF T
<1>11. ASSUME NEW k \in 1..n + 1 PROVE state[k - 1] \in States
  <2>1. k - 1 \in Nat /\ k - 1 <= n
    OBVIOUS
  <2> QED
    BY <2>1, <1>10
<1>12. ASSUME NEW i \in 0..n - 1
       PROVE  Prefix(r, n)[i + 2] = simStep(Prefix(r, n)[i + 1], r, i)
  <2>1. /\ i + 2 \in 1..n + 1 /\ i + 1 \in 1..n + 1 /\ (i + 2) - 1 = i + 1 /\ (i + 1) - 1 = i
        /\ i + 1 \in 0..n /\ i + 1 # 0
    OBVIOUS
  <2>2. Prefix(r, n)[i + 2] = state[i + 1] /\ Prefix(r, n)[i + 1] = state[i]
    BY <2>1, <1>9
  <2>3. state[i + 1] = simStep(state[i], r, i)
    BY <2>1, <1>8
  <2> QED
    BY <2>2, <2>3
<1> QED
  BY <1>9, <1>11, <1>12

(* What both players have committed to. *)
ClaimInv ==
  /\ claim.recording \in Recordings
  /\ \E ticks \in 1..MaxTicks : \E other \in [1..ticks + 1 -> States] :
       LET ctx == ContextOf(claim.recording, ticks)
       IN  claim.a = New(ctx, Prefix(claim.recording, ticks)) /\ claim.b = New(ctx, other)

Disputes ==
  [verdict : {Pending, "found", "initial states disagree", "final results agree", "invalid opening"},
   asked : {"first", "last", "middle"}, lo : Nat, hi : Nat,
   low : States, left : States, right : States, rounds : Nat]

Agree(d)  == d.low = claim.a.states[d.lo + 1] /\ d.low = claim.b.states[d.lo + 1]
Differ(d) == d.left = claim.a.states[d.hi + 1] /\ d.right = claim.b.states[d.hi + 1] /\ d.left # d.right

(* Every round halves what is open, rounded up. *)
Halved(d) ==
  /\ (d.hi - d.lo - 1) * Pow2[d.rounds] <= StateCount - 2
  /\ d.rounds > 0 => Pow2[d.rounds - 1] <= StateCount - 2

DisputeInv(d) ==
  /\ d \in Disputes /\ d.lo < d.hi /\ d.hi <= StateCount - 1
  /\ d.asked # "middle" => d.lo = 0 /\ d.hi = StateCount - 1 /\ d.rounds = 0
  /\ d.verdict \in {Pending, "found"} =>
       /\ d.asked # "first" => Agree(d)
       /\ d.asked = "middle" \/ d.verdict = "found" => Differ(d)
       /\ Halved(d)
  /\ d.verdict = "found" => d.asked # "first" /\ d.hi = d.lo + 1
  /\ d.verdict = Pending /\ d.asked = "middle" => d.hi - d.lo > 1

TraceInv == ClaimInv /\ DisputeInv(dispute)

(* The states of both traces, and what an opening of the second can show.  *)
ClaimFacts ==
  /\ StateCount \in Nat /\ StateCount >= 2
  /\ claim.a.states \in [1..StateCount -> States] /\ claim.b.states \in [1..StateCount -> States]
  /\ \A i \in 0..StateCount - 2 :
       claim.a.states[i + 2] = simStep(claim.a.states[i + 1], claim.recording, i)
  /\ \A o : o.index \in Nat /\ Verify(claim.b, o) => o.state = claim.b.states[o.index + 1]

LEMMA ClaimIs == ClaimInv => ClaimFacts
<1> SUFFICES ASSUME ClaimInv PROVE ClaimFacts
  OBVIOUS
<1>1. PICK ticks \in 1..MaxTicks : \E other \in [1..ticks + 1 -> States] :
        LET ctx == ContextOf(claim.recording, ticks)
        IN  claim.a = New(ctx, Prefix(claim.recording, ticks)) /\ claim.b = New(ctx, other)
  BY DEF ClaimInv
<1>2. PICK other \in [1..ticks + 1 -> States] :
        LET ctx == ContextOf(claim.recording, ticks)
        IN  claim.a = New(ctx, Prefix(claim.recording, ticks)) /\ claim.b = New(ctx, other)
  BY <1>1
<1> DEFINE ctx == ContextOf(claim.recording, ticks)
           honest == Prefix(claim.recording, ticks)
<1>3. ticks \in Nat /\ claim.recording \in Recordings
  BY TraceAssumption DEF ClaimInv
<1>4. /\ honest \in [1..ticks + 1 -> States]
      /\ \A i \in 0..ticks - 1 : honest[i + 2] = simStep(honest[i + 1], claim.recording, i)
  BY <1>3, PrefixIs
<1>5. claim.a = New(ctx, honest) /\ claim.b = New(ctx, other)
  BY <1>2
<1> HIDE DEF ctx, honest
<1>6. claim.a.states = honest /\ claim.b.states = other
  BY <1>5 DEF New
<1>7. Len(honest) = ticks + 1 /\ Len(other) = ticks + 1
  BY <1>3, <1>4
<1>8. StateCount = ticks + 1
  BY <1>6, <1>7 DEF StateCount
<1>9. \A o : o.index \in Nat /\ Verify(claim.b, o) => o.state = other[o.index + 1]
  <2> TAKE o
  <2> HAVE o.index \in Nat /\ Verify(claim.b, o)
  <2>1. Len(other) \in Nat
    BY <1>3, <1>7
  <2> QED
    BY <2>1, <1>5, OpeningIsBound
<1>10. StateCount \in Nat /\ StateCount >= 2 /\ StateCount - 2 = ticks - 1
  BY <1>3, <1>8
<1> QED
  BY <1>4, <1>6, <1>8, <1>9, <1>10 DEF ClaimFacts

LEMMA TraceStart == TraceInit => TraceInv
<1> SUFFICES ASSUME TraceInit PROVE TraceInv
  OBVIOUS
<1>1. PICK r \in Recordings : \E ticks \in (1..r.ticks) \cap (1..MaxTicks) : \E other \in [1..ticks + 1 -> States] :
        claim = [recording |-> r, a |-> New(ContextOf(r, ticks), Prefix(r, ticks)),
                 b |-> New(ContextOf(r, ticks), other)]
  BY DEF TraceInit
<1>2. ClaimInv
  BY <1>1 DEF ClaimInv
<1>3. StateCount \in Nat /\ StateCount >= 2
  BY <1>2, ClaimIs DEF ClaimFacts
<1>4. dispute = [verdict |-> Pending, asked |-> "first", lo |-> 0, hi |-> StateCount - 1,
                 low |-> 0, left |-> 0, right |-> 0, rounds |-> 0]
  BY DEF TraceInit
<1>5. dispute \in Disputes
  <2>1. StateCount - 1 \in Nat /\ 0 \in States
    BY <1>3 DEF States
  <2> QED
    BY <1>4, <2>1 DEF Disputes
<1>6. Halved(dispute)
  BY <1>3, <1>4, Pow2Is DEF Halved
<1>7. DisputeInv(dispute)
  BY <1>3, <1>4, <1>5, <1>6 DEF DisputeInv, Pending
<1> QED
  BY <1>2, <1>7 DEF TraceInv

(* The loop of Narrow, whose body has been through once more. *)
LEMMA ContinueIs ==
  ASSUME ClaimFacts, NEW d \in Disputes, d.lo < d.hi, d.hi <= StateCount - 1, d.verdict = Pending,
         d.asked # "first", Agree(d), Differ(d), Halved(d),
         d.asked = "last" => d.lo = 0 /\ d.hi = StateCount - 1 /\ d.rounds = 0
  PROVE  DisputeInv(Continue(d))
<1>1. CASE d.hi - d.lo > 1
  <2> DEFINE n == [d EXCEPT !.asked = "middle"]
  <2>1. Continue(d) = n
    BY <1>1 DEF Continue
  <2>2. n \in Disputes
    BY DEF Disputes
  <2>3. /\ n.verdict = d.verdict /\ n.asked = "middle" /\ n.lo = d.lo /\ n.hi = d.hi /\ n.low = d.low
        /\ n.left = d.left /\ n.right = d.right /\ n.rounds = d.rounds
    BY DEF Disputes
  <2> HIDE DEF n
  <2>4. Agree(n) /\ Differ(n) /\ Halved(n)
    BY <2>3 DEF Agree, Differ, Halved
  <2> QED
    BY <1>1, <2>1, <2>2, <2>3, <2>4 DEF DisputeInv, Pending
<1>2. CASE ~(d.hi - d.lo > 1)
  <2> DEFINE n == [d EXCEPT !.verdict = "found"]
  <2>1. Continue(d) = n
    BY <1>2 DEF Continue
  <2>2. n \in Disputes
    BY DEF Disputes
  <2>3. /\ n.verdict = "found" /\ n.asked = d.asked /\ n.lo = d.lo /\ n.hi = d.hi /\ n.low = d.low
        /\ n.left = d.left /\ n.right = d.right /\ n.rounds = d.rounds
    BY DEF Disputes
  <2> HIDE DEF n
  <2>4. Agree(n) /\ Differ(n) /\ Halved(n)
    BY <2>3 DEF Agree, Differ, Halved
  <2>5. n.hi = n.lo + 1
    <3>1. d.lo \in Nat /\ d.hi \in Nat
      BY DEF Disputes
    <3> QED
      BY <3>1, <1>2, <2>3
  <2>6. n.asked \in {"last", "middle"}
    BY <2>3 DEF Disputes
  <2> QED
    BY <2>1, <2>2, <2>3, <2>4, <2>5, <2>6 DEF DisputeInv, Pending
<1> QED
  BY <1>1, <1>2

LEMMA HalvingHolds ==
  ASSUME NEW wid \in Nat, NEW val \in Nat, NEW p \in Nat, NEW c \in Int,
         wid > 1, val >= 1, 2 * (val - 1) <= wid - 1, (wid - 1) * p <= c
  PROVE  (val - 1) * (2 * p) <= c /\ p <= c
<1>1. \A a, b \in Nat : a <= b => a * p <= b * p
  <2> TAKE a, b \in Nat
  <2> HAVE a <= b
  <2> DEFINE e == b - a
  <2>1. e \in Nat /\ b = a + e
    OBVIOUS
  <2> HIDE DEF e
  <2>2. b * p = a * p + e * p
    BY <2>1
  <2>3. e * p >= 0 /\ a * p \in Nat /\ e * p \in Nat
    BY <2>1
  <2> QED
    BY ONLY <2>2, <2>3
<1>2. (2 * (val - 1)) * p <= (wid - 1) * p
  <2>1. 2 * (val - 1) \in Nat /\ wid - 1 \in Nat
    OBVIOUS
  <2> QED
    BY ONLY <1>1, <2>1, 2 * (val - 1) <= wid - 1
<1>3. (val - 1) * (2 * p) = (2 * (val - 1)) * p
  OBVIOUS
<1>4. 1 * p <= (wid - 1) * p
  <2>1. 1 \in Nat /\ wid - 1 \in Nat /\ 1 <= wid - 1
    OBVIOUS
  <2> QED
    BY ONLY <1>1, <2>1
<1>5. (wid - 1) * p \in Int /\ (2 * (val - 1)) * p \in Int /\ 1 * p = p
  OBVIOUS
<1> QED
  BY <1>2, <1>3, <1>4, <1>5

(* The middle, and what is open on either side of it. *)
LEMMA MiddleIs ==
  ASSUME NEW d \in Disputes, d.hi - d.lo > 1
  PROVE  LET m == d.lo + (d.hi - d.lo) \div 2
         IN  /\ m \in Nat /\ d.lo < m /\ m < d.hi
             /\ 2 * (m - d.lo - 1) <= d.hi - d.lo - 1 /\ 2 * (d.hi - m - 1) <= d.hi - d.lo - 1
<1>1. d.lo \in Nat /\ d.hi \in Nat
  BY DEF Disputes
<1> QED
  BY <1>1

LEMMA AnsweredIs ==
  ASSUME ClaimFacts, NEW d, DisputeInv(d), d.verdict = Pending, NEW x, NEW y,
         x = claim.a.states[Asked(d) + 1], y = claim.b.states[Asked(d) + 1]
  PROVE  DisputeInv(Answered(d, x, y))
<1>1. d \in Disputes /\ d.lo < d.hi /\ d.hi <= StateCount - 1 /\ d.lo \in Nat /\ d.hi \in Nat /\ StateCount \in Nat
      /\ d.rounds \in Nat
  BY DEF DisputeInv, Disputes, ClaimFacts
<1>2. Asked(d) \in d.lo..d.hi
  <2>1. d.asked \in {"first", "last", "middle"}
    BY <1>1 DEF Disputes
  <2> QED
    BY <1>1, <2>1 DEF Asked
<1>3. x \in States /\ y \in States
  <2>1. Asked(d) + 1 \in 1..StateCount
    BY <1>1, <1>2
  <2> QED
    BY <2>1 DEF ClaimFacts
<1>4. Halved(d) /\ (d.asked # "first" => Agree(d)) /\ (d.asked = "middle" => Differ(d))
  BY DEF DisputeInv
<1>5. CASE d.asked = "first"
  <2>1. Asked(d) = d.lo
    BY <1>5 DEF Asked
  <2>2. CASE x # y
    <3> DEFINE n == [d EXCEPT !.verdict = "initial states disagree"]
    <3>1. Answered(d, x, y) = n
      BY <1>5, <2>2 DEF Answered
    <3>2. n \in Disputes
      BY <1>1 DEF Disputes
    <3>3. /\ n.verdict = "initial states disagree" /\ n.asked = d.asked /\ n.lo = d.lo /\ n.hi = d.hi
          /\ n.rounds = d.rounds
      BY <1>1 DEF Disputes
    <3> HIDE DEF n
    <3> QED
      BY <3>1, <3>2, <3>3 DEF DisputeInv, Pending
  <2>3. CASE x = y
    <3> DEFINE n == [d EXCEPT !.asked = "last", !.low = x]
    <3>1. Answered(d, x, y) = n
      BY <1>5, <2>3 DEF Answered
    <3>2. n \in Disputes
      BY <1>1, <1>3 DEF Disputes
    <3>3. /\ n.verdict = d.verdict /\ n.asked = "last" /\ n.lo = d.lo /\ n.hi = d.hi /\ n.low = x
          /\ n.rounds = d.rounds
      BY <1>1 DEF Disputes
    <3> HIDE DEF n
    <3>4. Agree(n) /\ Halved(n)
      BY <1>4, <2>1, <2>3, <3>3 DEF Agree, Halved
    <3> QED
      BY <1>5, <3>1, <3>2, <3>3, <3>4 DEF DisputeInv, Pending
  <2> QED
    BY <2>2, <2>3
<1>6. CASE d.asked = "last"
  <2>1. Asked(d) = d.hi
    BY <1>6 DEF Asked
  <2>2. CASE x = y
    <3> DEFINE n == [d EXCEPT !.verdict = "final results agree"]
    <3>1. Answered(d, x, y) = n
      BY <1>6, <2>2 DEF Answered
    <3>2. n \in Disputes
      BY <1>1 DEF Disputes
    <3>3. /\ n.verdict = "final results agree" /\ n.asked = d.asked /\ n.lo = d.lo /\ n.hi = d.hi
          /\ n.rounds = d.rounds
      BY <1>1 DEF Disputes
    <3> HIDE DEF n
    <3> QED
      BY <3>1, <3>2, <3>3 DEF DisputeInv, Pending
  <2>3. CASE x # y
    <3> DEFINE n == [d EXCEPT !.left = x, !.right = y]
    <3>1. Answered(d, x, y) = Continue(n)
      BY <1>6, <2>3 DEF Answered
    <3>2. n \in Disputes
      BY <1>1, <1>3 DEF Disputes
    <3>3. /\ n.verdict = d.verdict /\ n.asked = "last" /\ n.lo = d.lo /\ n.hi = d.hi /\ n.low = d.low
          /\ n.left = x /\ n.right = y /\ n.rounds = d.rounds
      BY <1>1, <1>6 DEF Disputes
    <3> HIDE DEF n
    <3>4. Agree(n) /\ Differ(n) /\ Halved(n)
      BY <1>4, <1>6, <2>1, <2>3, <3>3 DEF Agree, Differ, Halved
    <3>5. d.lo = 0 /\ d.hi = StateCount - 1 /\ d.rounds = 0
      BY <1>6 DEF DisputeInv
    <3>6. DisputeInv(Continue(n))
      BY <1>1, <3>2, <3>3, <3>4, <3>5, ContinueIs
    <3> QED
      BY <3>1, <3>6
  <2> QED
    BY <2>2, <2>3
<1>7. CASE d.asked = "middle"
  <2> DEFINE m == d.lo + (d.hi - d.lo) \div 2
  <2>1. d.hi - d.lo > 1
    BY <1>7 DEF DisputeInv
  <2>2. Asked(d) = m
    BY <1>7 DEF Asked
  <2>3. /\ m \in Nat /\ d.lo < m /\ m < d.hi
        /\ 2 * (m - d.lo - 1) <= d.hi - d.lo - 1 /\ 2 * (d.hi - m - 1) <= d.hi - d.lo - 1
    BY <1>1, <2>1, MiddleIs
  <2> HIDE DEF m
  <2>4. /\ Pow2[d.rounds + 1] = 2 * Pow2[d.rounds] /\ Pow2[d.rounds] \in Nat
        /\ (d.hi - d.lo - 1) * Pow2[d.rounds] <= StateCount - 2
    BY <1>1, <1>4, Pow2Is DEF Halved
  <2>5. ASSUME NEW n \in Disputes, n.hi - n.lo >= 1, 2 * (n.hi - n.lo - 1) <= d.hi - d.lo - 1,
               n.rounds = d.rounds + 1
        PROVE  Halved(n)
    <3> DEFINE wid == d.hi - d.lo
               val == n.hi - n.lo
               p == Pow2[d.rounds]
    <3>0. n.lo \in Nat /\ n.hi \in Nat
      BY <2>5 DEF Disputes
    <3>1. wid \in Nat /\ val \in Nat /\ wid > 1 /\ val >= 1 /\ p \in Nat /\ StateCount - 2 \in Int
          /\ 2 * (val - 1) <= wid - 1 /\ (wid - 1) * p <= StateCount - 2
      BY <1>1, <2>1, <2>4, <2>5, <3>0
    <3> HIDE DEF wid, val, p
    <3>2. (val - 1) * (2 * p) <= StateCount - 2 /\ p <= StateCount - 2
      BY <3>1, HalvingHolds
    <3>3. (d.rounds + 1) - 1 = d.rounds
      BY <1>1
    <3>4. (n.hi - n.lo - 1) * Pow2[n.rounds] = (val - 1) * (2 * p)
      BY <2>4, <2>5 DEF val, p
    <3>5. Pow2[n.rounds - 1] = p
      BY <2>5, <3>3 DEF p
    <3> QED
      BY ONLY <3>2, <3>4, <3>5 DEF Halved
  <2>6. CASE x = y
    <3> DEFINE n == [d EXCEPT !.rounds = @ + 1, !.lo = m, !.low = x]
    <3>1. Answered(d, x, y) = Continue(n)
      BY <1>7, <2>2, <2>6 DEF Answered
    <3>2. n \in Disputes
      <4>1. d.rounds + 1 \in Nat
        BY <1>1
      <4> QED
        BY ONLY <1>1, <1>3, <2>3, <4>1, Zenon DEF Disputes
    <3>3. /\ n.verdict = d.verdict /\ n.asked = "middle" /\ n.lo = m /\ n.hi = d.hi /\ n.low = x
          /\ n.left = d.left /\ n.right = d.right /\ n.rounds = d.rounds + 1
      BY <1>1, <1>7 DEF Disputes
    <3> HIDE DEF n
    <3>4. Agree(n) /\ Differ(n)
      BY <1>4, <1>7, <2>2, <2>6, <3>3 DEF Agree, Differ
    <3>5. Halved(n)
      BY <1>1, <2>3, <2>5, <3>2, <3>3
    <3>6. DisputeInv(Continue(n))
      BY <1>1, <2>3, <3>2, <3>3, <3>4, <3>5, ContinueIs
    <3> QED
      BY <3>1, <3>6
  <2>7. CASE x # y
    <3> DEFINE n == [d EXCEPT !.rounds = @ + 1, !.hi = m, !.left = x, !.right = y]
    <3>1. Answered(d, x, y) = Continue(n)
      BY <1>7, <2>2, <2>7 DEF Answered
    <3>2. n \in Disputes
      <4>1. d.rounds + 1 \in Nat
        BY <1>1
      <4> QED
        BY ONLY <1>1, <1>3, <2>3, <4>1, Zenon DEF Disputes
    <3>3. /\ n.verdict = d.verdict /\ n.asked = "middle" /\ n.lo = d.lo /\ n.hi = m /\ n.low = d.low
          /\ n.left = x /\ n.right = y /\ n.rounds = d.rounds + 1
      BY <1>1, <1>7 DEF Disputes
    <3> HIDE DEF n
    <3>4. Agree(n) /\ Differ(n)
      BY <1>4, <1>7, <2>2, <2>7, <3>3 DEF Agree, Differ
    <3>5. Halved(n)
      BY <1>1, <2>3, <2>5, <3>2, <3>3
    <3>6. DisputeInv(Continue(n))
      BY <1>1, <2>3, <3>2, <3>3, <3>4, <3>5, ContinueIs
    <3> QED
      BY <3>1, <3>6
  <2> QED
    BY <2>6, <2>7
<1>8. d.asked \in {"first", "last", "middle"}
  BY <1>1 DEF Disputes
<1> QED
  BY <1>5, <1>6, <1>7, <1>8

LEMMA NarrowStep == TraceInv /\ Narrow => TraceInv'
<1> SUFFICES ASSUME TraceInv, Narrow PROVE TraceInv'
  OBVIOUS
<1>1. claim' = claim /\ dispute.verdict = Pending
  BY DEF Narrow
<1>2. ClaimInv' /\ ClaimFacts /\ StateCount' = StateCount
  BY <1>1, ClaimIs DEF TraceInv, ClaimInv, StateCount
<1> DEFINE i == Asked(dispute)
           x == Opening(claim.a, i)
<1>3. PICK y \in Lies(i) :
        dispute' = IF Authentic(claim.a, x, i) /\ Authentic(claim.b, y, i)
                     THEN Answered(dispute, x.state, y.state)
                     ELSE [dispute EXCEPT !.verdict = "invalid opening"]
  BY DEF Narrow
<1>4. /\ dispute \in Disputes /\ dispute.lo \in Nat /\ dispute.hi \in Nat /\ DisputeInv(dispute)
      /\ dispute.lo < dispute.hi
  BY DEF TraceInv, DisputeInv, Disputes
<1>5. i \in Nat
  <2>1. dispute.asked \in {"first", "last", "middle"}
    BY <1>4 DEF Disputes
  <2> QED
    BY <1>4, <2>1 DEF Asked
<1>6. DisputeInv(dispute')
  <2>1. CASE Authentic(claim.a, x, i) /\ Authentic(claim.b, y, i)
    <3>1. y.index = i /\ Verify(claim.b, y)
      BY <2>1 DEF Authentic
    <3>2. y.state = claim.b.states[i + 1]
      BY <3>1, <1>2, <1>5 DEF ClaimFacts
    <3>3. x.state = claim.a.states[i + 1]
      BY DEF Opening
    <3> HIDE DEF x, i
    <3>4. DisputeInv(Answered(dispute, x.state, y.state))
      BY <1>1, <1>2, <1>4, <3>2, <3>3, AnsweredIs DEF i
    <3> QED
      BY <1>3, <2>1, <3>4
  <2>2. CASE ~(Authentic(claim.a, x, i) /\ Authentic(claim.b, y, i))
    <3> DEFINE n == [dispute EXCEPT !.verdict = "invalid opening"]
    <3>1. dispute' = n
      BY <1>3, <2>2
    <3>2. n \in Disputes
      BY <1>4 DEF Disputes
    <3>3. /\ n.verdict = "invalid opening" /\ n.asked = dispute.asked /\ n.lo = dispute.lo
          /\ n.hi = dispute.hi /\ n.rounds = dispute.rounds
      BY <1>4 DEF Disputes
    <3> HIDE DEF n
    <3> QED
      BY <1>4, <3>1, <3>2, <3>3 DEF DisputeInv, Pending
  <2> QED
    BY <2>1, <2>2
<1>7. DisputeInv(dispute)'
  BY <1>1, <1>2, <1>6 DEF DisputeInv, Agree, Differ, Halved
<1> QED
  BY <1>2, <1>7 DEF TraceInv

(* The inductive invariant of the bisection: while Narrow goes on, both     *)
(* players are bound to one state at lo and to two at hi, and each round    *)
(* has halved what is between them (turntrace.Narrow).                     *)
THEOREM TraceInvariance == TraceSpec => []TraceInv
<1>1. TraceInv /\ [Narrow]_traceVars => TraceInv'
  <2> SUFFICES ASSUME TraceInv, [Narrow]_traceVars PROVE TraceInv'
    OBVIOUS
  <2>1. CASE Narrow
    BY <2>1, NarrowStep
  <2>2. CASE UNCHANGED traceVars
    BY <2>2 DEF traceVars, TraceInv, ClaimInv, DisputeInv, Agree, Differ, Halved, StateCount
  <2> QED
    BY <2>1, <2>2
<1> QED
  BY <1>1, TraceStart, PTL DEF TraceSpec

(* The indices that Narrow asks for are those of the turn's states.        *)
THEOREM TraceIsTyped == TraceSpec => []TraceTypeOK
<1>1. TraceInv => TraceTypeOK
  <2> SUFFICES ASSUME TraceInv PROVE TraceTypeOK
    OBVIOUS
  <2>1. dispute \in Disputes /\ dispute.lo < dispute.hi /\ dispute.hi <= StateCount - 1 /\ StateCount \in Nat
    BY ClaimIs DEF TraceInv, DisputeInv, ClaimFacts
  <2>2. /\ dispute.lo \in Nat /\ dispute.hi \in Nat
        /\ dispute.low \in States /\ dispute.left \in States /\ dispute.right \in States
    BY <2>1 DEF Disputes
  <2> QED
    BY <2>1, <2>2 DEF TraceTypeOK
<1> QED
  BY <1>1, TraceInvariance, PTL

(* For every recording, every length of the turn and every trace that the   *)
(* liar commits to: the step that turntrace.Narrow ends with begins in a    *)
(* state that both committed to, its honest result is the simulation's, the *)
(* liar's is another one, and it took no more rounds than a binary search.  *)
THEOREM BisectionIsSound == TraceSpec => []HonestStepIsFound
<1>1. TraceInv => HonestStepIsFound
  <2> SUFFICES ASSUME TraceInv, dispute.verdict = "found"
               PROVE  /\ dispute.hi = dispute.lo + 1
                      /\ dispute.low = claim.a.states[dispute.lo + 1]
                      /\ dispute.low = claim.b.states[dispute.lo + 1]
                      /\ dispute.left = simStep(dispute.low, claim.recording, dispute.lo)
                      /\ dispute.right = claim.b.states[dispute.hi + 1] /\ dispute.right # dispute.left
                      /\ dispute.rounds > 0 => Pow2[dispute.rounds - 1] < StateCount - 1
    BY DEF HonestStepIsFound
  <2>1. ClaimFacts /\ DisputeInv(dispute)
    BY ClaimIs DEF TraceInv
  <2>2. Agree(dispute) /\ Differ(dispute) /\ Halved(dispute) /\ dispute.hi = dispute.lo + 1
    BY <2>1 DEF DisputeInv
  <2>3. /\ StateCount \in Nat /\ dispute.lo \in Nat /\ dispute.hi \in Nat /\ dispute.hi <= StateCount - 1
        /\ dispute.rounds \in Nat
    BY <2>1 DEF ClaimFacts, DisputeInv, Disputes
  <2>4. dispute.left = simStep(dispute.low, claim.recording, dispute.lo)
    <3>1. dispute.lo \in 0..StateCount - 2 /\ dispute.hi + 1 = dispute.lo + 2
      BY <2>2, <2>3
    <3> QED
      BY <2>1, <2>2, <3>1 DEF ClaimFacts, Agree, Differ
  <2>5. dispute.rounds > 0 => Pow2[dispute.rounds - 1] < StateCount - 1
    <3> HAVE dispute.rounds > 0
    <3>1. Pow2[dispute.rounds - 1] <= StateCount - 2
      BY <2>2 DEF Halved
    <3>2. dispute.rounds - 1 \in Nat
      BY <2>3
    <3>3. Pow2[dispute.rounds - 1] \in Nat
      BY <3>2, Pow2Is
    <3> QED
      BY <2>3, <3>1, <3>3
  <2> QED
    BY <2>2, <2>4, <2>5 DEF Agree, Differ
<1> QED
  BY <1>1, TraceInvariance, PTL

-------------------------------------------------------------------------------
(* Objects: explosions that set one another off                            *)

Marks  == {"up", "hit", "gone"}
Things == [kind : ObjectKinds, x : Columns, y : 1..2, hp : Marks, arm : 0..MineArm,
           fuse : 0..MineFuse - 1, settled : BOOLEAN]
Shots  == [kind : ShotKinds, x : Columns, fuse : 0..3, burning : BOOLEAN, dead : BOOLEAN]
StakeyBodies == [x : Columns, hp : Health]
Battles == [objects : Seq(Things), shots : Seq(Shots), ground : [Columns -> 0..2], stakey : StakeyBodies]

(* Filtering in place keeps nothing that was not in the slice, and only    *)
(* what passes the filter.                                                 *)
LEMMA KeptIs ==
  ASSUME NEW U, NEW xs \in Seq(U), NEW K
  PROVE  /\ Kept(xs, K) \in Seq(U) /\ Len(Kept(xs, K)) <= Len(xs)
         /\ \A j \in DOMAIN Kept(xs, K) : \E i \in K \cap DOMAIN xs : Kept(xs, K)[j] = xs[i]
<1> DEFINE n == Len(xs)
           F == [p \in (1..n) \X Seq(U) |-> IF p[1] \in K THEN Append(p[2], xs[p[1]]) ELSE p[2]]
           Body(g, i) == IF i = 0 THEN <<>> ELSE IF i \in K THEN Append(g[i - 1], xs[i]) ELSE g[i - 1]
           kept == CHOOSE g : g = [i \in 0..n |-> Body(g, i)]
<1>1. n \in Nat /\ DOMAIN xs = 1..n /\ \A i \in 1..n : xs[i] \in U
  OBVIOUS
<1>2. F \in [(1..n) \X Seq(U) -> Seq(U)]
  OBVIOUS
<1>3. \A i \in 1..n, x \in Seq(U) : F[<<i, x>>] = IF i \in K THEN Append(x, xs[i]) ELSE x
  OBVIOUS
<1> HIDE DEF F
<1>4. <<>> \in Seq(U)
  OBVIOUS
<1>5. PICK g \in [0..n -> Seq(U)] : Loops(g, F, <<>>, n)
  BY <1>1, <1>2, <1>4, LoopIsDefined
<1>6. g = [i \in 0..n |-> Body(g, i)]
  <2>1. ASSUME NEW i \in 0..n PROVE g[i] = Body(g, i)
    <3>1. g[i] = IF i = 0 THEN <<>> ELSE F[<<i, g[i - 1]>>]
      BY <1>5 DEF Loops
    <3>2. i # 0 => i \in 1..n /\ g[i - 1] \in Seq(U)
      BY <1>1
    <3> QED
      BY <1>3, <3>1, <3>2
  <2> HIDE DEF Body
  <2> QED
    BY <2>1
<1>7. kept = [i \in 0..n |-> Body(kept, i)]
  <2> HIDE DEF Body
  <2> QED
    BY <1>6
<1>8. Kept(xs, K) = kept[n]
  BY DEF Kept
<1> HIDE DEF kept
<1> DEFINE Holds(i) ==
             /\ kept[i] \in Seq(U) /\ Len(kept[i]) <= i
             /\ \A j \in DOMAIN kept[i] : \E k \in K \cap (1..n) : kept[i][j] = xs[k]
           T == {i \in Nat : i <= n => Holds(i)}
<1>9. 0 \in T
  <2>1. kept[0] = <<>>
    BY <1>1, <1>7
  <2> QED
    BY <2>1
<1>10. ASSUME NEW i \in Nat, i \in T PROVE i + 1 \in T
  <2> SUFFICES ASSUME i + 1 <= n PROVE Holds(i + 1)
    OBVIOUS
  <2>1. i + 1 \in 0..n /\ i + 1 # 0 /\ (i + 1) - 1 = i /\ i <= n /\ i + 1 \in 1..n
    BY <1>1
  <2>2. kept[i + 1] = IF i + 1 \in K THEN Append(kept[i], xs[i + 1]) ELSE kept[i]
    BY <1>7, <2>1
  <2>3. Holds(i)
    BY <1>10, <2>1
  <2>4. CASE i + 1 \notin K
    BY <2>2, <2>3, <2>4
  <2>5. CASE i + 1 \in K
    <3> DEFINE ys == kept[i]
               zs == Append(ys, xs[i + 1])
    <3>1. kept[i + 1] = zs
      BY <2>2, <2>5
    <3>2. ys \in Seq(U) /\ xs[i + 1] \in U /\ Len(ys) \in Nat
      BY <1>1, <2>1, <2>3
    <3>3. zs \in Seq(U) /\ Len(zs) = Len(ys) + 1 /\ zs[Len(ys) + 1] = xs[i + 1]
          /\ \A j \in 1..Len(ys) : zs[j] = ys[j]
      BY <3>2
    <3>4. DOMAIN zs = 1..Len(ys) + 1 /\ DOMAIN ys = 1..Len(ys)
      BY <3>2, <3>3
    <3>5. ASSUME NEW j \in DOMAIN zs PROVE \E k \in K \cap (1..n) : zs[j] = xs[k]
      <4>1. CASE j = Len(ys) + 1
        BY <2>1, <2>5, <3>3, <4>1
      <4>2. CASE j # Len(ys) + 1
        <5>1. j \in 1..Len(ys) + 1
          BY ONLY <3>4, <3>5
        <5>2. j \in 1..Len(ys)
          BY ONLY <3>2, <4>2, <5>1
        <5>3. j \in DOMAIN ys
          BY <3>4, <5>2
        <5> QED
          BY <2>3, <3>3, <3>4, <5>2, <5>3
      <4> QED
        BY <4>1, <4>2
    <3>6. Len(zs) <= i + 1
      BY <2>3, <3>2, <3>3
    <3> HIDE DEF ys, zs
    <3> QED
      BY <3>1, <3>3, <3>5, <3>6
  <2> QED
    BY <2>4, <2>5
<1> HIDE DEF T
<1>11. n \in T
  BY <1>1, <1>9, <1>10, Induction
<1>12. Holds(n)
  BY <1>1, <1>11 DEF T
<1> QED
  BY <1>1, <1>8, <1>12

-------------------------------------------------------------------------------
(* One entry of a slice is replaced: it stays a slice of its length.       *)
LEMMA ReplaceIs ==
  ASSUME NEW U, NEW xs \in Seq(U), NEW i \in DOMAIN xs, NEW next \in U
  PROVE  /\ [xs EXCEPT ![i] = next] \in Seq(U) /\ Len([xs EXCEPT ![i] = next]) = Len(xs)
         /\ DOMAIN [xs EXCEPT ![i] = next] = DOMAIN xs
OBVIOUS

LEMMA PutIs ==
  ASSUME NEW s \in Battles, NEW i \in DOMAIN s.shots, NEW p \in Shots
  PROVE  /\ PutShot(s, i, p) \in Battles /\ Len(PutShot(s, i, p).shots) = Len(s.shots)
         /\ PutShot(s, i, p).shots = [s.shots EXCEPT ![i] = p]
         /\ PutShot(s, i, p).objects = s.objects
<1>1. s.shots \in Seq(Shots)
  BY DEF Battles
<1>2. PutShot(s, i, p) = [s EXCEPT !.shots = [s.shots EXCEPT ![i] = p]]
  BY DEF PutShot
<1>3. /\ [s.shots EXCEPT ![i] = p] \in Seq(Shots) /\ Len([s.shots EXCEPT ![i] = p]) = Len(s.shots)
  BY <1>1, ReplaceIs
<1> HIDE DEF PutShot
<1> QED
  BY <1>2, <1>3 DEF Battles

LEMMA PlaceIs ==
  ASSUME NEW s \in Battles, NEW i \in DOMAIN s.objects, NEW o \in Things
  PROVE  /\ PlaceObject(s, i, o) \in Battles /\ Len(PlaceObject(s, i, o).objects) = Len(s.objects)
         /\ PlaceObject(s, i, o).objects = [s.objects EXCEPT ![i] = o]
         /\ PlaceObject(s, i, o).shots = s.shots /\ PlaceObject(s, i, o).stakey = s.stakey
<1>1. s.objects \in Seq(Things)
  BY DEF Battles
<1>2. PlaceObject(s, i, o) = [s EXCEPT !.objects = [s.objects EXCEPT ![i] = o]]
  BY DEF PlaceObject
<1>3. /\ [s.objects EXCEPT ![i] = o] \in Seq(Things) /\ Len([s.objects EXCEPT ![i] = o]) = Len(s.objects)
  BY <1>1, ReplaceIs
<1> QED
  BY <1>2, <1>3 DEF Battles

LEMMA HitIs ==
  ASSUME NEW o \in Things
  PROVE  /\ Hit(o) \in Things /\ Gone(o) \in Things
         /\ Hit(o) = [o EXCEPT !.hp = "hit"] /\ Gone(o) = [o EXCEPT !.hp = "gone"]
         /\ Hit(o).hp = "hit" /\ Gone(o).hp = "gone"
         /\ Hit(o).x = o.x /\ Gone(o).x = o.x /\ Hit(o).kind = o.kind /\ Gone(o).kind = o.kind
BY DEF Hit, Gone, Things, Marks

(* What an explosion of this kind in column x makes of s.                  *)
Exploded(s, u, kind, x) ==
  LET r == Radius(kind) IN
  /\ u \in Battles
  /\ DOMAIN u.objects = DOMAIN s.objects /\ Len(u.objects) = Len(s.objects)
  /\ \A i \in DOMAIN s.objects :
       u.objects[i] = IF Up(s.objects[i]) /\ Near(s.objects[i].x, x, r) THEN Hit(s.objects[i]) ELSE s.objects[i]
  /\ Len(u.shots) >= Len(s.shots)
  /\ kind # "cluster" => Len(u.shots) = Len(s.shots)
  /\ \A i \in DOMAIN s.shots :
       u.shots[i] = IF ~s.shots[i].dead /\ Near(s.shots[i].x, x, r) THEN [s.shots[i] EXCEPT !.fuse = 1]
                    ELSE s.shots[i]

(* explodeField does just that: what is near goes from up to hit or gets a  *)
(* fuse of one tick, all else stays, and no slice loses an entry.          *)
LEMMA ExplodeIs ==
  ASSUME NEW s \in Battles, NEW kind, NEW x \in Columns
  PROVE  Exploded(s, explodeField(s, kind, x), kind, x)
<1> DEFINE r == Radius(kind)
           chained == [i \in DOMAIN s.shots |->
              IF ~s.shots[i].dead /\ Near(s.shots[i].x, x, r) THEN [s.shots[i] EXCEPT !.fuse = 1]
              ELSE s.shots[i]]
           ground == [c \in Columns |-> IF Near(c, x, r) /\ s.ground[c] > 0 THEN s.ground[c] - 1 ELSE s.ground[c]]
           hp == IF s.stakey.hp > 0 /\ Near(s.stakey.x, x, r) THEN s.stakey.hp - 1 ELSE s.stakey.hp
           objects == damageObjects(s.objects, x, r)
           shots == IF kind = "cluster" THEN chained \o <<Shot("bomb", x, 3)>> ELSE chained
           u == explodeField(s, kind, x)
<1>1. s.ground \in [Columns -> 0..2] /\ s.stakey \in StakeyBodies /\ s.objects \in Seq(Things) /\ s.shots \in Seq(Shots)
  BY DEF Battles
<1>2. u = [s EXCEPT !.ground = ground, !.stakey = [@ EXCEPT !.hp = hp], !.objects = objects, !.shots = shots]
  BY <1>1 DEF explodeField
<1>3. /\ u.ground = ground /\ u.stakey = [s.stakey EXCEPT !.hp = hp] /\ u.objects = objects /\ u.shots = shots
      /\ u = [objects |-> objects, shots |-> shots, ground |-> ground, stakey |-> [s.stakey EXCEPT !.hp = hp]]
  BY <1>2 DEF Battles
<1>4. ground \in [Columns -> 0..2]
  BY <1>1
<1>5. [s.stakey EXCEPT !.hp = hp] \in StakeyBodies
  <2>1. hp \in Health
    BY <1>1 DEF StakeyBodies, Health, MaxHP
  <2> HIDE DEF hp
  <2> QED
    BY <1>1, <2>1 DEF StakeyBodies
<1>6. /\ objects \in Seq(Things) /\ DOMAIN objects = DOMAIN s.objects /\ Len(objects) = Len(s.objects)
      /\ \A i \in DOMAIN s.objects :
           objects[i] = IF Up(s.objects[i]) /\ Near(s.objects[i].x, x, r) THEN Hit(s.objects[i]) ELSE s.objects[i]
  <2>1. \A i \in 1..Len(s.objects) : s.objects[i] \in Things /\ Hit(s.objects[i]) \in Things
    BY <1>1, HitIs
  <2>2. DOMAIN s.objects = 1..Len(s.objects) /\ Len(s.objects) \in Nat
    BY <1>1
  <2>3. objects = [i \in 1..Len(s.objects) |->
          IF Up(s.objects[i]) /\ Near(s.objects[i].x, x, r) THEN Hit(s.objects[i]) ELSE s.objects[i]]
    BY <2>2 DEF damageObjects
  <2> HIDE DEF objects, r
  <2>4. objects \in [1..Len(s.objects) -> Things]
    BY <2>1, <2>3
  <2> QED
    BY <2>2, <2>3, <2>4
<1>7. /\ chained \in Seq(Shots) /\ Len(chained) = Len(s.shots) /\ DOMAIN chained = DOMAIN s.shots
      /\ \A i \in DOMAIN s.shots : chained[i] =
            IF ~s.shots[i].dead /\ Near(s.shots[i].x, x, r) THEN [s.shots[i] EXCEPT !.fuse = 1] ELSE s.shots[i]
  <2>1. \A i \in 1..Len(s.shots) : s.shots[i] \in Shots /\ [s.shots[i] EXCEPT !.fuse = 1] \in Shots
    <3>1. \A p \in Shots : [p EXCEPT !.fuse = 1] \in Shots
      BY DEF Shots
    <3> QED
      BY <1>1, <3>1
  <2>2. DOMAIN s.shots = 1..Len(s.shots) /\ Len(s.shots) \in Nat
    BY <1>1
  <2>3. chained \in [1..Len(s.shots) -> Shots]
    BY <2>1, <2>2
  <2> QED
    BY <2>2, <2>3
<1> HIDE DEF ground, hp, objects, chained, r
<1>8. /\ shots \in Seq(Shots) /\ Len(shots) >= Len(s.shots) /\ (kind # "cluster" => Len(shots) = Len(s.shots))
      /\ \A i \in DOMAIN s.shots : shots[i] = chained[i]
  <2>1. CASE kind # "cluster"
    BY <1>1, <1>7, <2>1
  <2>2. CASE kind = "cluster"
    <3>1. Shot("bomb", x, 3) \in Shots
      BY DEF Shot, Shots, ShotKinds
    <3> QED
      BY <1>1, <1>7, <2>2, <3>1
  <2> QED
    BY <2>1, <2>2
<1> HIDE DEF shots, u
<1>9. u \in Battles
  BY <1>3, <1>4, <1>5, <1>6, <1>8 DEF Battles
<1> QED
  BY <1>3, <1>6, <1>7, <1>8, <1>9 DEF Exploded, r, u

-------------------------------------------------------------------------------
(* u is a field that has the objects of s, in their places, and at least    *)
(* its shots.                                                              *)
Follows(s, u) == u \in Battles /\ Len(u.objects) = Len(s.objects) /\ Len(u.shots) >= Len(s.shots)

LEMMA FieldIs ==
  ASSUME NEW s \in Battles
  PROVE  /\ s.objects \in Seq(Things) /\ s.shots \in Seq(Shots) /\ s.stakey \in StakeyBodies
         /\ Len(s.objects) \in Nat /\ Len(s.shots) \in Nat
         /\ DOMAIN s.objects = 1..Len(s.objects) /\ DOMAIN s.shots = 1..Len(s.shots)
         /\ \A i \in DOMAIN s.objects : s.objects[i] \in Things
         /\ \A i \in DOMAIN s.shots : s.shots[i] \in Shots
         /\ Follows(s, s)
BY DEF Battles, Follows

LEMMA ShotIs ==
  ASSUME NEW p \in Shots
  PROVE  /\ \A b \in BOOLEAN : [p EXCEPT !.dead = b] \in Shots
         /\ \A c \in Columns : [p EXCEPT !.x = c] \in Shots
         /\ \A f \in 0..3 : [p EXCEPT !.fuse = f] \in Shots
         /\ \A f \in 0..3, b \in BOOLEAN : [p EXCEPT !.fuse = f, !.dead = b] \in Shots
         /\ Alight(p) \in Shots /\ p.x \in Columns /\ p.fuse \in 0..3 /\ p.kind \in ShotKinds
         /\ (IF p.fuse > 0 THEN p.fuse - 1 ELSE 0) \in 0..3
<1>1. p.x \in Columns /\ p.fuse \in 0..3 /\ p.kind \in ShotKinds
  BY DEF Shots
<1>2. \A b \in BOOLEAN : [p EXCEPT !.dead = b] \in Shots
  BY DEF Shots
<1>3. \A c \in Columns : [p EXCEPT !.x = c] \in Shots
  BY DEF Shots
<1>4. \A f \in 0..3 : [p EXCEPT !.fuse = f] \in Shots
  BY DEF Shots
<1>5. \A f \in 0..3, b \in BOOLEAN : [p EXCEPT !.fuse = f, !.dead = b] \in Shots
  BY DEF Shots
<1>6. Alight(p) \in Shots
  <2> DEFINE q == [p EXCEPT !.burning = TRUE]
  <2>1. q \in Shots
    BY DEF Shots
  <2>2. Alight(p) = [q EXCEPT !.fuse = 2]
    BY DEF Alight
  <2> HIDE DEF q
  <2>3. \A f \in 0..3 : [q EXCEPT !.fuse = f] \in Shots
    BY <2>1 DEF Shots
  <2> QED
    BY <2>2, <2>3
<1>7. (IF p.fuse > 0 THEN p.fuse - 1 ELSE 0) \in 0..3
  BY <1>1
<1> QED
  BY <1>1, <1>2, <1>3, <1>4, <1>5, <1>6, <1>7

(* The ways of a projectile through a tick: it burns, strikes, flies, and   *)
(* explodes, and each leaves the objects in their places.                  *)
LEMMA BurnIs ==
  ASSUME NEW s \in Battles, NEW i \in DOMAIN s.shots, NEW p \in Shots
  PROVE  Follows(s, Burn(s, i, p))
<1> DEFINE f == IF p.fuse > 0 THEN p.fuse - 1 ELSE 0
           hp == IF s.stakey.hp > 0 /\ s.stakey.x = p.x THEN s.stakey.hp - 1 ELSE s.stakey.hp
           next == [s EXCEPT !.stakey = [@ EXCEPT !.hp = hp]]
           q == [p EXCEPT !.fuse = f, !.dead = f = 0]
<1>1. Burn(s, i, p) = PutShot(next, i, q)
  BY FieldIs DEF Burn, StakeyBodies
<1>2. f \in 0..3 /\ (f = 0) \in BOOLEAN
  BY ShotIs
<1> HIDE DEF f
<1>3. q \in Shots
  BY <1>2, ShotIs
<1>4. hp \in Health /\ s.stakey \in StakeyBodies
  BY FieldIs DEF StakeyBodies, Health, MaxHP
<1> HIDE DEF hp, q
<1>5. next \in Battles /\ next.shots = s.shots /\ next.objects = s.objects
  <2>1. [s.stakey EXCEPT !.hp = hp] \in StakeyBodies
    BY <1>4 DEF StakeyBodies
  <2> QED
    BY <2>1 DEF Battles
<1> HIDE DEF next
<1>6. PutShot(next, i, q) \in Battles /\ Len(PutShot(next, i, q).shots) = Len(next.shots) /\ PutShot(next, i, q).objects = next.objects
  BY <1>3, <1>5, PutIs
<1> QED
  BY <1>1, <1>5, <1>6, FieldIs DEF Follows

LEMMA StruckIs ==
  ASSUME NEW s \in Battles, NEW c
  PROVE  Follows(s, Struck(s, c)) /\ Struck(s, c).shots = s.shots
<1> DEFINE there == {j \in DOMAIN s.objects : Up(s.objects[j]) /\ s.objects[j].x = c}
           first == CHOOSE j \in there : \A k \in there : j <= k
<1>1. CASE there = {}
  BY <1>1, FieldIs DEF Struck
<1>2. CASE there # {}
  <2>1. there \subseteq Nat
    BY FieldIs
  <2>2. \E j \in there : \A k \in there : j <= k
    BY <1>2, <2>1, LeastNatural
  <2>3. first \in there
    BY <2>2
  <2>4. Struck(s, c) = PlaceObject(s, first, Hit(s.objects[first]))
    BY <1>2 DEF Struck
  <2> DEFINE j == first
             o == Hit(s.objects[j])
  <2>5. j \in DOMAIN s.objects
    BY <2>3
  <2> HIDE DEF first
  <2>6. o \in Things
    BY <2>5, FieldIs, HitIs
  <2> HIDE DEF o
  <2>7. PlaceObject(s, j, o) \in Battles /\ Len(PlaceObject(s, j, o).objects) = Len(s.objects) /\ PlaceObject(s, j, o).shots = s.shots
    BY <2>5, <2>6, PlaceIs
  <2> QED
    BY <2>4, <2>7, FieldIs DEF Follows, o
<1> QED
  BY <1>1, <1>2

LEMMA PutFollows ==
  ASSUME NEW s \in Battles, NEW u, Follows(s, u), NEW i \in DOMAIN s.shots, NEW p \in Shots
  PROVE  Follows(s, PutShot(u, i, p))
<1>1. u \in Battles /\ i \in DOMAIN u.shots
  BY FieldIs DEF Follows
<1>2. PutShot(u, i, p) \in Battles /\ Len(PutShot(u, i, p).shots) = Len(u.shots) /\ PutShot(u, i, p).objects = u.objects
  BY <1>1, PutIs
<1> QED
  BY <1>2 DEF Follows

LEMMA ExplodeFollows ==
  ASSUME NEW s \in Battles, NEW u, Follows(s, u), NEW kind, NEW x \in Columns
  PROVE  Follows(s, explodeField(u, kind, x))
<1>1. Exploded(u, explodeField(u, kind, x), kind, x)
  BY ExplodeIs DEF Follows
<1>2. Len(u.shots) \in Nat /\ Len(s.shots) \in Nat /\ Len(explodeField(u, kind, x).shots) \in Nat
  BY <1>1, FieldIs DEF Follows, Exploded
<1> QED
  BY <1>1, <1>2 DEF Follows, Exploded

LEMMA FlyIs ==
  ASSUME NEW s \in Battles, NEW i \in DOMAIN s.shots, NEW p \in Shots, NEW c \in Columns
  PROVE  Follows(s, Fly(s, i, p, c))
<1> DEFINE q == [p EXCEPT !.x = c]
           d == [q EXCEPT !.dead = TRUE]
           u == Struck(s, c)
<1>1. q \in Shots
  BY ShotIs
<1>2. d \in Shots /\ Alight(q) \in Shots
  BY <1>1, ShotIs
<1>3. Follows(s, u) /\ Follows(s, s)
  BY StruckIs, FieldIs
<1>4. Follows(s, explodeField(u, p.kind, c))
  BY <1>3, ExplodeFollows
<1>5. \/ Fly(s, i, p, c) = PutShot(s, i, d)
      \/ Fly(s, i, p, c) = PutShot(u, i, Alight(q))
      \/ Fly(s, i, p, c) = PutShot(explodeField(u, p.kind, c), i, d)
      \/ Fly(s, i, p, c) = PutShot(u, i, q)
  BY DEF Fly
<1> HIDE DEF q, d, u
<1>6. Follows(s, PutShot(s, i, d)) /\ Follows(s, PutShot(u, i, Alight(q))) /\ Follows(s, PutShot(u, i, q))
  BY <1>1, <1>2, <1>3, PutFollows
<1>7. Follows(s, PutShot(explodeField(u, p.kind, c), i, d))
  BY <1>2, <1>4, PutFollows
<1> QED
  BY <1>5, <1>6, <1>7

LEMMA MoveShotIs ==
  ASSUME NEW s \in Battles, NEW i \in DOMAIN s.shots, NEW c \in Columns
  PROVE  Follows(s, MoveShot(s, i, c))
<1> DEFINE p == s.shots[i]
           q == [p EXCEPT !.fuse = IF @ > 0 THEN @ - 1 ELSE 0]
           d == [p EXCEPT !.dead = TRUE]
<1>1. p \in Shots /\ Follows(s, s)
  BY FieldIs
<1>2. q \in Shots /\ d \in Shots /\ Alight(p) \in Shots /\ p.x \in Columns
  <2> HIDE DEF p
  <2>1. q = [p EXCEPT !.fuse = IF p.fuse > 0 THEN p.fuse - 1 ELSE 0]
    BY <1>1 DEF Shots
  <2> HIDE DEF q
  <2> QED
    BY <1>1, <2>1, ShotIs
<1>3. \/ MoveShot(s, i, c) = s
      \/ MoveShot(s, i, c) = Burn(s, i, p)
      \/ MoveShot(s, i, c) = PutShot(s, i, Alight(p))
      \/ MoveShot(s, i, c) = explodeField(PutShot(s, i, d), p.kind, p.x)
      \/ MoveShot(s, i, c) = PutShot(s, i, q)
      \/ MoveShot(s, i, c) = Fly(s, i, q, c)
  BY DEF MoveShot
<1> HIDE DEF p, q, d
<1>4. Follows(s, PutShot(s, i, Alight(p))) /\ Follows(s, PutShot(s, i, d)) /\ Follows(s, PutShot(s, i, q))
  BY <1>1, <1>2, PutFollows
<1>5. Follows(s, explodeField(PutShot(s, i, d), p.kind, p.x))
  BY <1>2, <1>4, ExplodeFollows
<1>6. Follows(s, Burn(s, i, p)) /\ Follows(s, Fly(s, i, q, c))
  BY <1>1, <1>2, BurnIs, FlyIs
<1> QED
  BY <1>1, <1>3, <1>4, <1>5, <1>6

(* What moveProjectiles leaves are live shots.                             *)
LEMMA moveProjectilesIs ==
  ASSUME NEW s \in Battles, NEW flight \in [DOMAIN s.shots -> Columns]
  PROVE  /\ moveProjectiles(s, flight) \in Battles
         /\ Len(moveProjectiles(s, flight).objects) = Len(s.objects)
         /\ \A i \in DOMAIN moveProjectiles(s, flight).shots : Live(moveProjectiles(s, flight).shots[i])
<1> DEFINE n == Len(s.shots)
           F == [q \in (1..n) \X Battles |->
                   IF q[1] \in DOMAIN q[2].shots THEN MoveShot(q[2], q[1], flight[q[1]]) ELSE s]
           Body(g, i) == IF i = 0 THEN s ELSE MoveShot(g[i - 1], i, flight[i])
           run == CHOOSE g : g = [i \in 0..n |-> Body(g, i)]
<1>1. n \in Nat /\ DOMAIN s.shots = 1..n
  BY FieldIs
<1>2. ASSUME NEW i \in 1..n, NEW u \in Battles
      PROVE F[<<i, u>>] = IF i \in DOMAIN u.shots THEN MoveShot(u, i, flight[i]) ELSE s
  OBVIOUS
<1>3. F \in [(1..n) \X Battles -> Battles]
  <2>1. ASSUME NEW i \in 1..n, NEW u \in Battles, i \in DOMAIN u.shots PROVE MoveShot(u, i, flight[i]) \in Battles
    <3>1. flight[i] \in Columns
      BY <1>1
    <3> QED
      BY <2>1, <3>1, MoveShotIs DEF Follows
  <2> QED
    BY <2>1
<1> HIDE DEF F
<1> DEFINE V == [i \in 0..n |-> {u \in Battles : Follows(s, u)}]
<1>4. ASSUME NEW i \in 1..n, NEW u \in Battles, Follows(s, u)
      PROVE  /\ F[<<i, u>>] = MoveShot(u, i, flight[i])
             /\ MoveShot(u, i, flight[i]) \in Battles /\ Follows(s, MoveShot(u, i, flight[i]))
  <2>1. i \in DOMAIN u.shots /\ Len(u.shots) \in Nat
    BY <1>1, <1>4, FieldIs DEF Follows
  <2>2. Follows(u, MoveShot(u, i, flight[i]))
    <3>1. flight[i] \in Columns
      BY <1>1
    <3> QED
      BY <2>1, <3>1, MoveShotIs
  <2>3. Len(MoveShot(u, i, flight[i]).shots) \in Nat
    BY <2>2, FieldIs DEF Follows
  <2>4. Follows(s, MoveShot(u, i, flight[i]))
    BY <1>1, <1>4, <2>1, <2>2, <2>3 DEF Follows
  <2> QED
    BY <1>2, <2>1, <2>4 DEF Follows
<1>5. s \in V[0]
  BY <1>1, FieldIs
<1>6. ASSUME NEW i \in 0..n PROVE \A u : u \in V[i] <=> u \in Battles /\ Follows(s, u)
  OBVIOUS
<1>7. \A i \in 1..n : i - 1 \in 0..n /\ i \in 0..n /\ i # 0
  BY <1>1
<1>8. n \in 0..n /\ 0 \in 0..n
  BY <1>1
<1> HIDE DEF V
<1>9. PICK g : RunsIn(g, F, s, n, Battles, V)
  <2>1. ASSUME NEW i \in 1..n, NEW u \in Battles, u \in V[i - 1] PROVE F[<<i, u>>] \in V[i]
    BY <1>4, <1>6, <1>7, <2>1
  <2> QED
    BY <1>1, <1>3, <1>5, <2>1, LoopKeeps
<1>10. g = [i \in 0..n |-> Body(g, i)]
  <2>1. ASSUME NEW i \in 0..n PROVE g[i] = Body(g, i)
    <3>1. CASE i = 0
      BY <1>9, <3>1 DEF RunsIn
    <3>2. CASE i # 0
      <4>1. i \in 1..n
        BY <1>1, <3>2
      <4>2. g[i] = MoveShot(g[i - 1], i, flight[i])
        BY <1>4, <1>6, <1>7, <1>9, <4>1 DEF RunsIn
      <4> QED
        BY <3>2, <4>2
    <3> QED
      BY <3>1, <3>2
  <2> HIDE DEF Body
  <2> QED
    BY <1>9, <2>1 DEF RunsIn
<1>11. run = [i \in 0..n |-> Body(run, i)]
  <2> HIDE DEF Body
  <2> QED
    BY <1>10
<1> HIDE DEF run
<1>12. \A i \in 0..n : run[i] = Body(run, i)
  <2> HIDE DEF Body
  <2> QED
    BY ONLY <1>11
<1>13. run[0] = s /\ \A i \in 1..n : run[i] = MoveShot(run[i - 1], i, flight[i])
  BY <1>7, <1>8, <1>12
<1> DEFINE u == run[n]
           end == [u EXCEPT !.shots = Kept(@, {i \in DOMAIN @ : Live(@[i])})]
<1>14. moveProjectiles(s, flight) = end
  BY DEF moveProjectiles, run
<1>15. u \in Battles /\ Follows(s, u)
  <2>1. ASSUME NEW i \in 1..n, run[i - 1] \in V[i - 1] PROVE run[i] \in V[i]
    BY <1>4, <1>6, <1>7, <1>13, <2>1
  <2>2. \A i \in 0..n : run[i] \in V[i]
    BY <1>1, <1>5, <1>13, <2>1, RoundsKeep
  <2> QED
    BY <1>6, <1>8, <2>2
<1> HIDE DEF u
<1> DEFINE K == {i \in DOMAIN u.shots : Live(u.shots[i])}
           kept == Kept(u.shots, K)
<1>16. end = [u EXCEPT !.shots = kept]
  OBVIOUS
<1>17. u.shots \in Seq(Shots)
  BY <1>15, FieldIs
<1> HIDE DEF K
<1>18. kept \in Seq(Shots) /\ \A j \in DOMAIN kept : \E i \in K \cap DOMAIN u.shots : kept[j] = u.shots[i]
  BY <1>17, KeptIs
<1> HIDE DEF kept, end
<1>19. \A j \in DOMAIN kept : Live(kept[j])
  BY <1>18 DEF K
<1>20. end \in Battles /\ end.shots = kept /\ end.objects = u.objects
  BY <1>15, <1>16, <1>18 DEF Battles
<1> QED
  BY <1>14, <1>15, <1>19, <1>20 DEF Follows

-------------------------------------------------------------------------------
(* u is a field that has the objects of s, in their places, and its shots. *)
KeepsShots(s, u) == u \in Battles /\ Len(u.objects) = Len(s.objects) /\ u.shots = s.shots

(* An object that has fallen may be in the water.                          *)
Fallen == [kind : ObjectKinds, x : Columns, y : 0..2, hp : Marks, arm : 0..MineArm,
           fuse : 0..MineFuse - 1, settled : BOOLEAN]

(* The ways of an object through a tick, before the chain.                 *)
LEMMA FallIs ==
  ASSUME NEW o \in Things, NEW ground \in [Columns -> 0..2]
  PROVE  FallObject(o, ground) \in Fallen
<1>1. ground[o.x] \in 0..2 /\ o.y \in 1..2 /\ o \in Fallen
  BY DEF Things, Fallen
<1>2. \A b \in BOOLEAN : [o EXCEPT !.settled = b] \in Fallen
  BY <1>1 DEF Fallen
<1>3. \A y \in 0..2 : [o EXCEPT !.y = y, !.settled = FALSE] \in Fallen
  BY <1>1 DEF Fallen
<1>4. o.y - 1 \in 0..2
  BY <1>1
<1> QED
  BY <1>1, <1>2, <1>3, <1>4 DEF FallObject

LEMMA MineIs ==
  ASSUME NEW o \in Fallen, NEW stakey \in StakeyBodies
  PROVE  TendMine(o, stakey) \in Fallen
<1> DEFINE fuse == IF o.arm = 0 /\ o.fuse = 0 /\ stakey.hp > 0 /\ Near(stakey.x, o.x, 2) THEN MineFuse ELSE o.fuse
           arm == IF o.arm > 0 THEN o.arm - 1 ELSE 0
           left == IF fuse > 0 THEN fuse - 1 ELSE 0
           hp == IF fuse = 1 THEN "hit" ELSE o.hp
<1>1. o.arm \in 0..1 /\ o.fuse \in 0..1 /\ o.hp \in Marks
  BY DEF Fallen, MineArm, MineFuse
<1>2. TendMine(o, stakey) = IF o.kind # "mine" THEN o ELSE [o EXCEPT !.arm = arm, !.fuse = left, !.hp = hp]
  BY DEF TendMine
<1>3. fuse \in 0..2
  BY <1>1 DEF MineFuse
<1> HIDE DEF fuse
<1>4. arm \in 0..1 /\ left \in 0..1 /\ hp \in Marks
  BY <1>1, <1>3 DEF Marks
<1> HIDE DEF arm, left, hp
<1>5. [o EXCEPT !.arm = arm, !.fuse = left, !.hp = hp] \in Fallen
  <2>1. arm \in 0..MineArm /\ left \in 0..MineFuse - 1
    BY <1>4 DEF MineArm, MineFuse
  <2> QED
    BY ONLY <1>4, <2>1, o \in Fallen, Zenon DEF Fallen
<1> QED
  BY <1>2, <1>5

LEMMA MoveObjectIs ==
  ASSUME NEW s \in Battles, NEW i \in DOMAIN s.objects
  PROVE  KeepsShots(s, MoveObject(s, i))
<1> DEFINE o == s.objects[i]
           m == TendMine(FallObject(o, s.ground), s.stakey)
           gone == PlaceObject(s, i, Gone(o))
           hp == IF m.kind = "health" /\ s.stakey.hp < MaxHP THEN s.stakey.hp + 1 ELSE s.stakey.hp
<1>1. o \in Things /\ s.ground \in [Columns -> 0..2] /\ s.stakey \in StakeyBodies
  BY FieldIs DEF Battles
<1> HIDE DEF o
<1>2. m \in Fallen
  BY <1>1, FallIs, MineIs
<1> HIDE DEF m
<1>3. Gone(o) \in Things
  BY <1>1, HitIs
<1>4. gone \in Battles /\ Len(gone.objects) = Len(s.objects) /\ gone.shots = s.shots /\ gone.stakey = s.stakey
  BY <1>3, PlaceIs
<1> HIDE DEF gone
<1>5. \/ MoveObject(s, i) = s
      \/ MoveObject(s, i) = gone
      \/ MoveObject(s, i) = [gone EXCEPT !.stakey.hp = hp]
      \/ m.y # 0 /\ MoveObject(s, i) = PlaceObject(s, i, m)
  BY <1>4 DEF MoveObject, gone, o, m
<1>6. KeepsShots(s, gone) /\ KeepsShots(s, s)
  BY <1>4 DEF KeepsShots
<1>7. KeepsShots(s, [gone EXCEPT !.stakey.hp = hp])
  <2>1. hp \in Health
    BY <1>1 DEF StakeyBodies, Health, MaxHP
  <2> HIDE DEF hp
  <2>2. [gone.stakey EXCEPT !.hp = hp] \in StakeyBodies
    BY <1>1, <1>4, <2>1 DEF StakeyBodies
  <2> DEFINE u == [gone EXCEPT !.stakey = [gone.stakey EXCEPT !.hp = hp]]
  <2>3. u \in Battles /\ u.objects = gone.objects /\ u.shots = gone.shots
    BY <1>4, <2>2 DEF Battles
  <2> QED
    BY <1>4, <2>3 DEF KeepsShots
<1>8. ASSUME m.y # 0 PROVE KeepsShots(s, PlaceObject(s, i, m))
  <2>1. m \in Things
    BY <1>2, <1>8 DEF Things, Fallen
  <2> QED
    BY <2>1, PlaceIs DEF KeepsShots
<1> QED
  BY <1>5, <1>6, <1>7, <1>8

LEMMA MoveObjectsIs ==
  ASSUME NEW s \in Battles
  PROVE  KeepsShots(s, MoveObjects(s))
<1> DEFINE n == Len(s.objects)
           F == [q \in (1..n) \X Battles |-> IF q[1] \in DOMAIN q[2].objects THEN MoveObject(q[2], q[1]) ELSE s]
           Body(g, i) == IF i = 0 THEN s ELSE MoveObject(g[i - 1], i)
           run == CHOOSE g : g = [i \in 0..n |-> Body(g, i)]
           V == [i \in 0..n |-> {u \in Battles : KeepsShots(s, u)}]
<1>1. n \in Nat /\ DOMAIN s.objects = 1..n /\ KeepsShots(s, s)
  BY FieldIs DEF KeepsShots
<1>2. ASSUME NEW i \in 1..n, NEW u \in Battles
      PROVE F[<<i, u>>] = IF i \in DOMAIN u.objects THEN MoveObject(u, i) ELSE s
  OBVIOUS
<1>3. F \in [(1..n) \X Battles -> Battles]
  <2>1. ASSUME NEW i \in 1..n, NEW u \in Battles, i \in DOMAIN u.objects PROVE MoveObject(u, i) \in Battles
    BY <2>1, MoveObjectIs DEF KeepsShots
  <2> QED
    BY <2>1
<1> HIDE DEF F
<1>4. ASSUME NEW i \in 1..n, NEW u \in Battles, KeepsShots(s, u)
      PROVE  /\ F[<<i, u>>] = MoveObject(u, i)
             /\ MoveObject(u, i) \in Battles /\ KeepsShots(s, MoveObject(u, i))
  <2>1. i \in DOMAIN u.objects
    BY <1>1, <1>4, FieldIs DEF KeepsShots
  <2>2. KeepsShots(u, MoveObject(u, i))
    BY <2>1, MoveObjectIs
  <2> QED
    BY <1>2, <1>4, <2>1, <2>2 DEF KeepsShots
<1>5. s \in V[0]
  BY <1>1
<1>6. ASSUME NEW i \in 0..n PROVE \A u : u \in V[i] <=> u \in Battles /\ KeepsShots(s, u)
  OBVIOUS
<1>7. \A i \in 1..n : i - 1 \in 0..n /\ i \in 0..n /\ i # 0
  BY <1>1
<1>8. n \in 0..n /\ 0 \in 0..n
  BY <1>1
<1> HIDE DEF V
<1>9. PICK g : RunsIn(g, F, s, n, Battles, V)
  <2>1. ASSUME NEW i \in 1..n, NEW u \in Battles, u \in V[i - 1] PROVE F[<<i, u>>] \in V[i]
    BY <1>4, <1>6, <1>7, <2>1
  <2> QED
    BY <1>1, <1>3, <1>5, <2>1, LoopKeeps
<1>10. g = [i \in 0..n |-> Body(g, i)]
  <2>1. ASSUME NEW i \in 0..n PROVE g[i] = Body(g, i)
    <3>1. CASE i = 0
      BY <1>9, <3>1 DEF RunsIn
    <3>2. CASE i # 0
      <4>1. i \in 1..n
        BY <1>1, <3>2
      <4>2. g[i] = MoveObject(g[i - 1], i)
        BY <1>4, <1>6, <1>7, <1>9, <4>1 DEF RunsIn
      <4> QED
        BY <3>2, <4>2
    <3> QED
      BY <3>1, <3>2
  <2> HIDE DEF Body
  <2> QED
    BY <1>9, <2>1 DEF RunsIn
<1>11. run = [i \in 0..n |-> Body(run, i)]
  <2> HIDE DEF Body
  <2> QED
    BY <1>10
<1> HIDE DEF run
<1>12. \A i \in 0..n : run[i] = Body(run, i)
  <2> HIDE DEF Body
  <2> QED
    BY ONLY <1>11
<1>13. run[0] = s /\ \A i \in 1..n : run[i] = MoveObject(run[i - 1], i)
  BY <1>7, <1>8, <1>12
<1>14. MoveObjects(s) = run[n]
  BY DEF MoveObjects, run
<1>15. ASSUME NEW i \in 1..n, run[i - 1] \in V[i - 1] PROVE run[i] \in V[i]
  BY <1>4, <1>6, <1>7, <1>13, <1>15
<1>16. \A i \in 0..n : run[i] \in V[i]
  BY <1>1, <1>5, <1>13, <1>15, RoundsKeep
<1> QED
  BY <1>6, <1>8, <1>14, <1>16

-------------------------------------------------------------------------------
(* The chain: u is where a chain that began with b has come to.            *)
Indices(b) == 1..Len(b.objects)

Reaches(b, i, x) == Near(x, b.objects[i].x, Radius(b.objects[i].kind))

Blasted(u, b) ==
  {i \in Indices(b) : b.objects[i].hp # "gone" /\ u.t.objects[i].hp = "gone" /\ b.objects[i].kind \notin Crates}

SameObjects(u, b) ==
  /\ u.t \in Battles /\ Len(u.t.objects) = Len(b.objects)
  /\ \A i \in Indices(b) :
       /\ u.t.objects[i].kind = b.objects[i].kind /\ u.t.objects[i].x = b.objects[i].x
       /\ b.objects[i].hp = "gone" => u.t.objects[i].hp = "gone"
       /\ Up(u.t.objects[i]) => Up(b.objects[i])

BlastsAre(u, b) ==
  /\ u.blasts \in Seq(Indices(b))
  /\ \A j, k \in DOMAIN u.blasts : u.blasts[j] = u.blasts[k] => j = k
  /\ {u.blasts[k] : k \in DOMAIN u.blasts} = Blasted(u, b)

ReachedAreDown(u, b) ==
  \A i \in Blasted(u, b) : \A j \in Indices(b) : Up(u.t.objects[j]) => ~Reaches(b, i, b.objects[j].x)

Charged(u, b) ==
  \A k \in DOMAIN u.t.shots :
    /\ Live(u.t.shots[k])
    /\ \A i \in Blasted(u, b) : Reaches(b, i, u.t.shots[k].x) => u.t.shots[k].fuse = 1

Caused(u, b) ==
  \A j \in Indices(b) :
    Up(b.objects[j]) /\ ~Up(u.t.objects[j]) => \E i \in Blasted(u, b) : i # j /\ Reaches(b, i, b.objects[j].x)

Chained(u, b) ==
  /\ u \in [t : Battles, blasts : Seq(Indices(b))]
  /\ SameObjects(u, b) /\ BlastsAre(u, b) /\ ReachedAreDown(u, b) /\ Charged(u, b) /\ Caused(u, b)

Dead(u, b) == {i \in Indices(b) : u.t.objects[i].hp = "gone"}
NoneHit(u, b) == \A i \in Indices(b) : u.t.objects[i].hp # "hit"

(* Before its first pass a chain has taken away nothing.                   *)
LEMMA ChainStarts ==
  ASSUME NEW b \in Battles, \A k \in DOMAIN b.shots : Live(b.shots[k])
  PROVE  Chained([t |-> b, blasts |-> <<>>], b)
<1> DEFINE u == [t |-> b, blasts |-> <<>>]
<1>1. u.t = b /\ u.blasts = <<>> /\ <<>> \in Seq(Indices(b)) /\ u \in [t : Battles, blasts : Seq(Indices(b))]
  OBVIOUS
<1> HIDE DEF u
<1>2. Blasted(u, b) = {}
  BY <1>1 DEF Blasted
<1>3. SameObjects(u, b)
  BY <1>1 DEF SameObjects
<1>4. BlastsAre(u, b)
  <2>1. DOMAIN u.blasts = {}
    BY <1>1
  <2> QED
    BY <1>1, <1>2, <2>1 DEF BlastsAre
<1>5. ReachedAreDown(u, b) /\ Charged(u, b) /\ Caused(u, b)
  BY <1>1, <1>2 DEF ReachedAreDown, Charged, Caused
<1> QED
  BY <1>1, <1>3, <1>4, <1>5 DEF Chained, u

(* A crate that is hit goes without a bang.                                *)
LEMMA CrateGoes ==
  ASSUME NEW b \in Battles, NEW u, Chained(u, b), NEW i \in Indices(b),
         u.t.objects[i].hp = "hit", b.objects[i].kind \in Crates, NEW next,
         next = [t |-> PlaceObject(u.t, i, Gone(u.t.objects[i])), blasts |-> u.blasts]
  PROVE  /\ Chained(next, b) /\ next.t.objects[i].hp = "gone"
         /\ \A j \in Indices(b) : j # i => next.t.objects[j] = u.t.objects[j]
<1> DEFINE o == Gone(u.t.objects[i])
           end == PlaceObject(u.t, i, o)
<1>1. /\ u.t \in Battles /\ u.blasts \in Seq(Indices(b)) /\ Len(u.t.objects) = Len(b.objects)
      /\ u \in [t : Battles, blasts : Seq(Indices(b))]
      /\ DOMAIN u.t.objects = Indices(b)
  BY FieldIs DEF Chained, SameObjects, Indices
<1>2. u.t.objects[i] \in Things
  BY <1>1, FieldIs
<1>3. o \in Things /\ o.hp = "gone" /\ o.x = u.t.objects[i].x /\ o.kind = u.t.objects[i].kind
  BY <1>2, HitIs
<1> HIDE DEF o
<1>4. /\ end \in Battles /\ Len(end.objects) = Len(u.t.objects) /\ end.shots = u.t.shots
      /\ end.objects = [u.t.objects EXCEPT ![i] = o]
  BY <1>1, <1>3, PlaceIs
<1> HIDE DEF end
<1>5. next.t = end /\ next.blasts = u.blasts /\ next \in [t : Battles, blasts : Seq(Indices(b))]
  BY <1>1, <1>4 DEF end, o
<1>6. next.t.objects[i] = o /\ \A j \in Indices(b) : j # i => next.t.objects[j] = u.t.objects[j]
  BY <1>1, <1>4, <1>5
<1>7. Blasted(next, b) = Blasted(u, b)
  BY <1>6 DEF Blasted
<1>8. b.objects[i].hp # "gone" /\ ~Up(o) /\ ~Up(u.t.objects[i])
  BY <1>3 DEF Chained, SameObjects, Up
<1>9. SameObjects(next, b)
  <2>1. ASSUME NEW j \in Indices(b)
        PROVE  /\ next.t.objects[j].kind = b.objects[j].kind /\ next.t.objects[j].x = b.objects[j].x
               /\ b.objects[j].hp = "gone" => next.t.objects[j].hp = "gone"
               /\ Up(next.t.objects[j]) => Up(b.objects[j])
    <3>1. CASE j = i
      BY <1>3, <1>6, <1>8, <3>1 DEF Chained, SameObjects
    <3>2. CASE j # i
      BY <1>6, <3>2 DEF Chained, SameObjects
    <3> QED
      BY <3>1, <3>2
  <2> QED
    BY <1>1, <1>4, <1>5, <2>1 DEF SameObjects
<1>10. BlastsAre(next, b)
  BY <1>5, <1>7 DEF Chained, BlastsAre
<1>11. \A j \in Indices(b) : Up(next.t.objects[j]) <=> Up(u.t.objects[j])
  BY <1>6, <1>8
<1>12. ReachedAreDown(next, b) /\ Caused(next, b)
  BY <1>7, <1>11 DEF Chained, ReachedAreDown, Caused
<1>13. Charged(next, b)
  BY <1>4, <1>5, <1>7 DEF Chained, Charged
<1> QED
  BY <1>3, <1>5, <1>6, <1>9, <1>10, <1>12, <1>13 DEF Chained

(* An explosive that is hit blasts what its explosion reaches.             *)
LEMMA Blasts ==
  ASSUME NEW b \in Battles, NEW u, Chained(u, b), NEW i \in Indices(b),
         u.t.objects[i].hp = "hit", b.objects[i].kind \notin Crates, NEW next,
         next = [t |-> explodeField(PlaceObject(u.t, i, Gone(u.t.objects[i])), u.t.objects[i].kind, u.t.objects[i].x),
              blasts |-> Append(u.blasts, i)]
  PROVE  /\ Chained(next, b) /\ next.t.objects[i].hp = "gone"
         /\ \A j \in Indices(b) : j # i =>
              \/ next.t.objects[j] = u.t.objects[j]
              \/ Up(u.t.objects[j]) /\ next.t.objects[j].hp = "hit"
<1> DEFINE o == Gone(u.t.objects[i])
           end == PlaceObject(u.t, i, o)
           kind == b.objects[i].kind
           x == b.objects[i].x
           z == explodeField(end, kind, x)
<1>1. /\ u.t \in Battles /\ u.blasts \in Seq(Indices(b)) /\ Len(u.t.objects) = Len(b.objects)
      /\ DOMAIN u.t.objects = Indices(b) /\ u.t.objects[i].kind = kind /\ u.t.objects[i].x = x
  BY FieldIs DEF Chained, SameObjects, Indices
<1>2. u.t.objects[i] \in Things /\ kind \in ObjectKinds /\ x \in Columns
  BY <1>1, FieldIs DEF Things
<1> HIDE DEF kind, x
<1>3. o \in Things /\ o.hp = "gone" /\ o.x = u.t.objects[i].x /\ o.kind = u.t.objects[i].kind
  BY <1>2, HitIs
<1> HIDE DEF o
<1>4. /\ end \in Battles /\ Len(end.objects) = Len(u.t.objects) /\ end.shots = u.t.shots
      /\ end.objects = [u.t.objects EXCEPT ![i] = o]
  BY <1>1, <1>3, PlaceIs
<1>5. end.objects[i] = o /\ \A j \in Indices(b) : j # i => end.objects[j] = u.t.objects[j]
  BY <1>1, <1>4
<1> HIDE DEF end
<1>6. Exploded(end, z, kind, x)
  BY <1>2, <1>4, ExplodeIs
<1> HIDE DEF z
<1>7. next = [t |-> z, blasts |-> Append(u.blasts, i)]
  BY <1>1 DEF z, end, o
<1>8. next.t = z /\ next.blasts = Append(u.blasts, i)
  BY <1>7
<1>9. z \in Battles /\ DOMAIN z.objects = Indices(b) /\ DOMAIN end.objects = Indices(b) /\ Len(z.objects) = Len(b.objects)
  BY <1>1, <1>4, <1>6, FieldIs DEF Exploded, Indices
<1>10. z.objects[i] = o
  BY <1>3, <1>5, <1>6, <1>9 DEF Exploded, Up
<1>11. ASSUME NEW j \in Indices(b), j # i
       PROVE z.objects[j] = IF Up(u.t.objects[j]) /\ Reaches(b, i, b.objects[j].x) THEN Hit(u.t.objects[j])
                            ELSE u.t.objects[j]
  <2>1. u.t.objects[j].x = b.objects[j].x
    BY DEF Chained, SameObjects
  <2> QED
    BY <1>5, <1>6, <1>9, <1>11, <2>1 DEF Exploded, Reaches, kind, x
<1>12. \A j \in Indices(b) : u.t.objects[j] \in Things
  BY <1>1, FieldIs
<1>13. b.objects[i].hp # "gone" /\ ~Up(o) /\ ~Up(u.t.objects[i])
  BY <1>3 DEF Chained, SameObjects, Up
<1>14. ASSUME NEW j \in Indices(b), j # i
       PROVE  /\ z.objects[j].kind = u.t.objects[j].kind /\ z.objects[j].x = u.t.objects[j].x
              /\ z.objects[j].hp = "gone" <=> u.t.objects[j].hp = "gone"
              /\ Up(z.objects[j]) <=> Up(u.t.objects[j]) /\ ~Reaches(b, i, b.objects[j].x)
  <2>1. CASE Up(u.t.objects[j]) /\ Reaches(b, i, b.objects[j].x)
    <3>1. z.objects[j] = Hit(u.t.objects[j])
      BY <1>11, <1>14, <2>1
    <3> QED
      BY <1>12, <2>1, <3>1, HitIs DEF Up
  <2>2. CASE ~(Up(u.t.objects[j]) /\ Reaches(b, i, b.objects[j].x))
    BY <1>11, <1>14, <2>2
  <2> QED
    BY <2>1, <2>2
<1>15. Blasted(next, b) = Blasted(u, b) \cup {i} /\ i \notin Blasted(u, b)
  <2>1. i \in Blasted(next, b) /\ i \notin Blasted(u, b)
    BY <1>3, <1>8, <1>10, <1>13 DEF Blasted
  <2>2. ASSUME NEW j \in Indices(b), j # i PROVE j \in Blasted(next, b) <=> j \in Blasted(u, b)
    BY <1>8, <1>14, <2>2 DEF Blasted
  <2>3. Blasted(next, b) \subseteq Indices(b) /\ Blasted(u, b) \subseteq Indices(b)
    BY DEF Blasted
  <2> QED
    BY <2>1, <2>2, <2>3
<1>16. SameObjects(next, b)
  <2>1. ASSUME NEW j \in Indices(b)
        PROVE  /\ next.t.objects[j].kind = b.objects[j].kind /\ next.t.objects[j].x = b.objects[j].x
               /\ b.objects[j].hp = "gone" => next.t.objects[j].hp = "gone"
               /\ Up(next.t.objects[j]) => Up(b.objects[j])
    <3>1. CASE j = i
      BY <1>3, <1>8, <1>10, <1>13, <3>1 DEF Chained, SameObjects
    <3>2. CASE j # i
      BY <1>8, <1>14, <3>2 DEF Chained, SameObjects
    <3> QED
      BY <3>1, <3>2
  <2> QED
    BY <1>8, <1>9, <2>1 DEF SameObjects
<1>17. BlastsAre(next, b)
  <2> DEFINE old == u.blasts
             new == Append(u.blasts, i)
  <2>1. /\ new \in Seq(Indices(b)) /\ DOMAIN new = 1..Len(old) + 1 /\ DOMAIN old = 1..Len(old) /\ Len(old) \in Nat
        /\ new[Len(old) + 1] = i /\ \A k \in 1..Len(old) : new[k] = old[k]
    BY <1>1
  <2>2. {old[k] : k \in DOMAIN old} = Blasted(u, b)
    BY DEF Chained, BlastsAre
  <2> HIDE DEF old, new
  <2>3. \A k \in DOMAIN new : k # Len(old) + 1 => k \in DOMAIN old /\ new[k] = old[k] /\ new[k] \in Blasted(u, b)
    BY <2>1, <2>2
  <2>4. \A j, k \in DOMAIN new : new[j] = new[k] => j = k
    <3>1. \A j, k \in DOMAIN old : old[j] = old[k] => j = k
      BY DEF Chained, BlastsAre, old
    <3> QED
      BY <1>15, <2>1, <2>3, <3>1
  <2>5. {new[k] : k \in DOMAIN new} = Blasted(u, b) \cup {i}
    <3>1. ASSUME NEW k \in DOMAIN new PROVE new[k] \in Blasted(u, b) \cup {i}
      BY <2>1, <2>3
    <3>2. ASSUME NEW j \in Blasted(u, b) PROVE \E k \in DOMAIN new : new[k] = j
      <4>1. PICK k \in DOMAIN old : old[k] = j
        BY <2>2
      <4> QED
        BY <2>1, <4>1
    <3>3. Len(old) + 1 \in DOMAIN new
      BY <2>1
    <3> QED
      BY <2>1, <3>1, <3>2, <3>3
  <2>6. next.blasts = new
    BY <1>8 DEF new
  <2>7. {next.blasts[k] : k \in DOMAIN next.blasts} = Blasted(next, b)
    BY ONLY <1>15, <2>5, <2>6
  <2>8. /\ next.blasts \in Seq(Indices(b))
        /\ \A j, k \in DOMAIN next.blasts : next.blasts[j] = next.blasts[k] => j = k
    BY ONLY <2>1, <2>4, <2>6
  <2> QED
    BY <2>7, <2>8 DEF BlastsAre
<1>18. ReachedAreDown(next, b)
  <2>1. ASSUME NEW k \in Blasted(next, b), NEW j \in Indices(b), Up(z.objects[j]) PROVE ~Reaches(b, k, b.objects[j].x)
    <3>1. j # i /\ Up(u.t.objects[j]) /\ ~Reaches(b, i, b.objects[j].x)
      BY <1>10, <1>13, <1>14, <2>1
    <3>2. k = i \/ k \in Blasted(u, b)
      BY <1>15
    <3> QED
      BY <3>1, <3>2 DEF Chained, ReachedAreDown
  <2> QED
    BY <1>8, <2>1 DEF ReachedAreDown
<1>19. Charged(next, b)
  <2>1. kind # "cluster" /\ DOMAIN z.shots = DOMAIN end.shots /\ DOMAIN end.shots = DOMAIN u.t.shots
    <3>1. kind # "cluster"
      BY <1>2 DEF ObjectKinds
    <3> QED
      BY <1>4, <1>6, <1>9, <3>1, FieldIs DEF Exploded
  <2>2. ASSUME NEW k \in DOMAIN z.shots
        PROVE  /\ Live(z.shots[k])
               /\ \A j \in Blasted(next, b) : Reaches(b, j, z.shots[k].x) => z.shots[k].fuse = 1
    <3> DEFINE p == u.t.shots[k]
    <3>1. p \in Shots /\ Live(p) /\ \A j \in Blasted(u, b) : Reaches(b, j, p.x) => p.fuse = 1
      BY <1>1, <2>1, FieldIs DEF Chained, Charged
    <3>2. z.shots[k] = IF Reaches(b, i, p.x) THEN [p EXCEPT !.fuse = 1] ELSE p
      BY <1>4, <1>6, <2>1, <3>1 DEF Exploded, Reaches, kind, x, Live
    <3> HIDE DEF p
    <3>3. CASE Reaches(b, i, p.x)
      <4>1. z.shots[k].fuse = 1 /\ z.shots[k].dead = p.dead
        BY <3>1, <3>2, <3>3 DEF Shots
      <4> QED
        BY <3>1, <4>1 DEF Live
    <3>4. CASE ~Reaches(b, i, p.x)
      BY <1>15, <3>1, <3>2, <3>4
    <3> QED
      BY <3>3, <3>4
  <2> QED
    BY <1>8, <2>2 DEF Charged
<1>20. Caused(next, b)
  <2>1. ASSUME NEW j \in Indices(b), Up(b.objects[j]), ~Up(z.objects[j])
        PROVE \E k \in Blasted(next, b) : k # j /\ Reaches(b, k, b.objects[j].x)
    <3>1. CASE ~Up(u.t.objects[j])
      <4>1. PICK k \in Blasted(u, b) : k # j /\ Reaches(b, k, b.objects[j].x)
        BY <2>1, <3>1 DEF Chained, Caused
      <4> QED
        BY <1>15, <4>1
    <3>2. CASE Up(u.t.objects[j])
      <4>1. j # i /\ Reaches(b, i, b.objects[j].x)
        BY <1>13, <1>14, <2>1, <3>2
      <4> QED
        BY <1>15, <4>1
    <3> QED
      BY <3>1, <3>2
  <2> QED
    BY <1>8, <2>1 DEF Caused
<1>21. next \in [t : Battles, blasts : Seq(Indices(b))]
  BY <1>7, <1>8, <1>9, <1>17 DEF BlastsAre
<1>22. ASSUME NEW j \in Indices(b), j # i
       PROVE z.objects[j] = u.t.objects[j] \/ (Up(u.t.objects[j]) /\ z.objects[j].hp = "hit")
  BY <1>11, <1>12, <1>22, HitIs
<1> QED
  BY <1>3, <1>8, <1>10, <1>16, <1>17, <1>18, <1>19, <1>20, <1>21, <1>22 DEF Chained

Struggles(b) == {u \in [t : Battles, blasts : Seq(Indices(b))] : Chained(u, b)}

(* Whatever lies at i: what GoOff does to it keeps to the chain, takes away  *)
(* one that is hit, and gives back none.                                   *)
LEMMA GoOffIs ==
  ASSUME NEW b \in Battles, NEW u \in Struggles(b), NEW i \in Indices(b)
  PROVE  /\ GoOff(u, i) \in Struggles(b)
         /\ Dead(u, b) \subseteq Dead(GoOff(u, i), b)
         /\ u.t.objects[i].hp = "hit" => i \in Dead(GoOff(u, i), b)
         /\ u.t.objects[i].hp # "hit" => GoOff(u, i) = u
         /\ \A j \in Indices(b) : u.t.objects[j].hp = "hit" => GoOff(u, i).t.objects[j].hp \in {"hit", "gone"}
<1> DEFINE next == GoOff(u, i)
<1>1. Chained(u, b)
  BY DEF Struggles
<1>2. CASE u.t.objects[i].hp # "hit"
  <2>1. next = u
    BY <1>2 DEF GoOff
  <2> QED
    BY <1>2, <2>1
<1>3. CASE u.t.objects[i].hp = "hit" /\ b.objects[i].kind \in Crates
  <2>1. u.t.objects[i].kind = b.objects[i].kind
    BY <1>1 DEF Chained, SameObjects
  <2>2. next = [t |-> PlaceObject(u.t, i, Gone(u.t.objects[i])), blasts |-> u.blasts]
    <3>1. next = [u EXCEPT !.t = PlaceObject(u.t, i, Gone(u.t.objects[i]))]
      BY <1>3, <2>1 DEF GoOff
    <3> QED
      BY <3>1 DEF Struggles
  <2> HIDE DEF next
  <2>3. /\ Chained(next, b) /\ next.t.objects[i].hp = "gone"
        /\ \A j \in Indices(b) : j # i => next.t.objects[j] = u.t.objects[j]
    BY <1>1, <1>3, <2>2, CrateGoes
  <2>4. next \in Struggles(b)
    BY <2>3 DEF Struggles, Chained
  <2>5. \A j \in Indices(b) : u.t.objects[j].hp = "hit" => next.t.objects[j].hp \in {"hit", "gone"}
    BY <2>3
  <2>6. Dead(u, b) \subseteq Dead(next, b) /\ i \in Dead(next, b)
    BY <2>3 DEF Dead
  <2> QED
    BY <1>3, <2>4, <2>5, <2>6 DEF next
<1>4. CASE u.t.objects[i].hp = "hit" /\ b.objects[i].kind \notin Crates
  <2>1. u.t.objects[i].kind = b.objects[i].kind
    BY <1>1 DEF Chained, SameObjects
  <2>2. next = [t |-> explodeField(PlaceObject(u.t, i, Gone(u.t.objects[i])), u.t.objects[i].kind, u.t.objects[i].x),
             blasts |-> Append(u.blasts, i)]
    BY <1>4, <2>1 DEF GoOff
  <2> HIDE DEF next
  <2>3. /\ Chained(next, b) /\ next.t.objects[i].hp = "gone"
        /\ \A j \in Indices(b) : j # i =>
             \/ next.t.objects[j] = u.t.objects[j]
             \/ Up(u.t.objects[j]) /\ next.t.objects[j].hp = "hit"
    BY <1>1, <1>4, <2>2, Blasts
  <2>4. next \in Struggles(b)
    BY <2>3 DEF Struggles, Chained
  <2>5. \A j \in Indices(b) : u.t.objects[j].hp = "hit" => next.t.objects[j].hp \in {"hit", "gone"}
    BY <2>3
  <2>6. Dead(u, b) \subseteq Dead(next, b) /\ i \in Dead(next, b)
    BY <2>3 DEF Dead, Up
  <2> QED
    BY <1>4, <2>4, <2>5, <2>6 DEF next
<1> QED
  BY <1>2, <1>3, <1>4

(* Every explosive that is hit when a pass begins has gone off when it ends. *)
Passed(u, end, b) ==
  /\ end \in Struggles(b)
  /\ Dead(u, b) \subseteq Dead(end, b)
  /\ \A j \in Indices(b) : u.t.objects[j].hp = "hit" => end.t.objects[j].hp \in {"hit", "gone"}
  /\ NoneHit(u, b) => end = u

LEMMA PassIs ==
  ASSUME NEW b \in Battles, NEW u \in Struggles(b)
  PROVE  /\ Passed(u, Pass(u), b)
         /\ \A j \in Indices(b) : u.t.objects[j].hp = "hit" => j \in Dead(Pass(u), b)
<1> DEFINE n == Len(u.t.objects)
           S == Struggles(b)
           F == [q \in (1..n) \X S |-> GoOff(q[2], q[1])]
           Body(g, i) == IF i = 0 THEN u ELSE GoOff(g[i - 1], i)
           run == CHOOSE g : g = [i \in 0..n |-> Body(g, i)]
           V == [i \in 0..n |->
                  {end \in S : Passed(u, end, b) /\ \A j \in 1..i : u.t.objects[j].hp = "hit" => j \in Dead(end, b)}]
<1>1. n \in Nat /\ Indices(b) = 1..n
  BY FieldIs DEF Struggles, Chained, SameObjects, Indices
<1>2. \A i \in 1..n, end \in S : F[<<i, end>>] = GoOff(end, i) /\ GoOff(end, i) \in S
  BY <1>1, GoOffIs
<1>3. F \in [(1..n) \X S -> S]
  BY <1>2
<1> HIDE DEF F
<1>4. Passed(u, u, b)
  BY DEF Passed
<1>5. u \in V[0]
  BY <1>1, <1>4
<1>6. ASSUME NEW i \in 0..n
      PROVE \A end : end \in V[i] <=> /\ end \in S /\ Passed(u, end, b)
                                  /\ \A j \in 1..i : u.t.objects[j].hp = "hit" => j \in Dead(end, b)
  OBVIOUS
<1>7. \A i \in 1..n : i - 1 \in 0..n /\ i \in 0..n /\ i # 0
  BY <1>1
<1>8. n \in 0..n /\ 0 \in 0..n
  BY <1>1
<1> HIDE DEF V
<1>9. ASSUME NEW i \in 1..n, NEW end \in S, end \in V[i - 1] PROVE GoOff(end, i) \in V[i]
  <2> DEFINE z == GoOff(end, i)
  <2>1. /\ Passed(u, end, b)
        /\ \A j \in 1..i - 1 : u.t.objects[j].hp = "hit" => j \in Dead(end, b)
    BY <1>6, <1>7, <1>9
  <2>2. /\ z \in S /\ Dead(end, b) \subseteq Dead(z, b)
        /\ end.t.objects[i].hp = "hit" => i \in Dead(z, b)
        /\ end.t.objects[i].hp # "hit" => z = end
        /\ \A j \in Indices(b) : end.t.objects[j].hp = "hit" => z.t.objects[j].hp \in {"hit", "gone"}
    BY <1>1, GoOffIs
  <2> HIDE DEF z, S
  <2>3. ASSUME NEW j \in Indices(b), u.t.objects[j].hp = "hit" PROVE z.t.objects[j].hp \in {"hit", "gone"}
    <3>1. end.t.objects[j].hp \in {"hit", "gone"}
      BY <2>1, <2>3 DEF Passed
    <3>2. end.t.objects[j].hp = "gone" => z.t.objects[j].hp = "gone"
      BY <2>2 DEF Dead
    <3> QED
      BY <2>2, <3>1, <3>2
  <2>4. ASSUME NoneHit(u, b) PROVE z = u
    BY <1>1, <2>1, <2>2, <2>4 DEF Passed, NoneHit
  <2>5. Passed(u, z, b)
    BY <2>1, <2>2, <2>3, <2>4 DEF Passed, S
  <2>6. ASSUME NEW j \in 1..i, u.t.objects[j].hp = "hit" PROVE j \in Dead(z, b)
    <3>1. CASE j # i
      <4>1. j \in 1..i - 1
        BY <3>1
      <4> QED
        BY <2>1, <2>2, <2>6, <4>1
    <3>2. CASE j = i
      <4>1. end.t.objects[i].hp \in {"hit", "gone"}
        BY <1>1, <2>1, <2>6, <3>2 DEF Passed
      <4>2. end.t.objects[i].hp = "gone" => i \in Dead(end, b)
        BY <1>1 DEF Dead
      <4> QED
        BY <2>2, <3>2, <4>1, <4>2
    <3> QED
      BY <3>1, <3>2
  <2> QED
    BY <1>6, <1>7, <2>2, <2>5, <2>6 DEF z
<1>10. PICK g : RunsIn(g, F, u, n, S, V)
  <2>1. ASSUME NEW i \in 1..n, NEW end \in S, end \in V[i - 1] PROVE F[<<i, end>>] \in V[i]
    BY <1>2, <1>9, <2>1
  <2> HIDE DEF S
  <2>2. u \in S
    BY DEF S
  <2> QED
    BY <1>1, <1>3, <1>5, <2>1, <2>2, LoopKeeps
<1>11. g = [i \in 0..n |-> Body(g, i)]
  <2>1. ASSUME NEW i \in 0..n PROVE g[i] = Body(g, i)
    <3>1. CASE i = 0
      BY <1>10, <3>1 DEF RunsIn
    <3>2. CASE i # 0
      <4>1. i \in 1..n
        BY <1>1, <3>2
      <4>2. g[i] = GoOff(g[i - 1], i)
        BY <1>2, <1>10, <4>1 DEF RunsIn
      <4> QED
        BY <3>2, <4>2
    <3> QED
      BY <3>1, <3>2
  <2> HIDE DEF Body
  <2> QED
    BY <1>10, <2>1 DEF RunsIn
<1>12. run = [i \in 0..n |-> Body(run, i)]
  <2> HIDE DEF Body
  <2> QED
    BY <1>11
<1> HIDE DEF run
<1>13. \A i \in 0..n : run[i] = Body(run, i)
  <2> HIDE DEF Body
  <2> QED
    BY ONLY <1>12
<1>14. run[0] = u /\ \A i \in 1..n : run[i] = GoOff(run[i - 1], i)
  BY <1>7, <1>8, <1>13
<1>15. Pass(u) = run[n]
  BY DEF Pass, run
<1>16. ASSUME NEW i \in 1..n, run[i - 1] \in V[i - 1] PROVE run[i] \in V[i]
  BY <1>6, <1>7, <1>9, <1>14, <1>16
<1>17. \A i \in 0..n : run[i] \in V[i]
  BY <1>1, <1>5, <1>14, <1>16, RoundsKeep
<1> QED
  BY <1>1, <1>6, <1>8, <1>15, <1>17

(* Every pass takes away one object at least while there is one that is hit; *)
(* after as many passes as there are objects none is.                       *)
LEMMA ChainIs ==
  ASSUME NEW b \in Battles, \A k \in DOMAIN b.shots : Live(b.shots[k])
  PROVE  Chained(Chain(b), b) /\ NoneHit(Chain(b), b)
<1> DEFINE n == Len(b.objects)
           S == Struggles(b)
           u == [t |-> b, blasts |-> <<>>]
           F == [q \in (1..n) \X S |-> Pass(q[2])]
           Body(g, i) == IF i = 0 THEN u ELSE Pass(g[i - 1])
           run == CHOOSE g : g = [i \in 0..n |-> Body(g, i)]
           V == [i \in 0..n |-> {end \in S : NoneHit(end, b) \/ Cardinality(Dead(end, b)) >= i}]
<1>1. n \in Nat /\ Indices(b) = 1..n
  BY FieldIs DEF Indices
<1>2. u \in S
  BY ChainStarts DEF Struggles, Chained
<1> HIDE DEF u
<1>3. \A i \in 1..n, end \in S : F[<<i, end>>] = Pass(end) /\ Pass(end) \in S
  BY PassIs DEF Passed
<1>4. F \in [(1..n) \X S -> S]
  BY <1>3
<1> HIDE DEF F
<1>5. ASSUME NEW end PROVE IsFiniteSet(Dead(end, b)) /\ Cardinality(Dead(end, b)) \in Nat
  <2>1. IsFiniteSet(Indices(b))
    BY <1>1, FS_Interval
  <2>2. Dead(end, b) \subseteq Indices(b)
    BY DEF Dead
  <2> QED
    BY <2>1, <2>2, FS_Subset, FS_CardinalityType
<1>6. u \in V[0]
  BY <1>1, <1>2, <1>5
<1>7. ASSUME NEW i \in 0..n
      PROVE \A end : end \in V[i] <=> end \in S /\ (NoneHit(end, b) \/ Cardinality(Dead(end, b)) >= i)
  OBVIOUS
<1>8. \A i \in 1..n : i - 1 \in 0..n /\ i \in 0..n /\ i # 0
  BY <1>1
<1>9. n \in 0..n /\ 0 \in 0..n
  BY <1>1
<1> HIDE DEF V
<1>10. ASSUME NEW i \in 1..n, NEW end \in S, end \in V[i - 1] PROVE Pass(end) \in V[i]
  <2>1. /\ Passed(end, Pass(end), b)
        /\ \A j \in Indices(b) : end.t.objects[j].hp = "hit" => j \in Dead(Pass(end), b)
    BY PassIs
  <2>2. Pass(end) \in S
    BY <2>1 DEF Passed
  <2>3. CASE NoneHit(end, b)
    <3>1. Pass(end) = end
      BY <2>1, <2>3 DEF Passed
    <3> QED
      BY <1>7, <1>8, <2>2, <2>3, <3>1
  <2>4. CASE ~NoneHit(end, b)
    <3>1. Cardinality(Dead(end, b)) >= i - 1
      BY <1>7, <1>8, <1>10, <2>4
    <3>2. PICK j \in Indices(b) : end.t.objects[j].hp = "hit"
      BY <2>4 DEF NoneHit
    <3>3. j \notin Dead(end, b) /\ j \in Dead(Pass(end), b) /\ Dead(end, b) \subseteq Dead(Pass(end), b)
      BY <2>1, <3>2 DEF Dead, Passed
    <3>4. Cardinality(Dead(end, b)) < Cardinality(Dead(Pass(end), b))
      <4>1. /\ Cardinality(Dead(end, b)) <= Cardinality(Dead(Pass(end), b))
            /\ Cardinality(Dead(end, b)) = Cardinality(Dead(Pass(end), b)) => Dead(end, b) = Dead(Pass(end), b)
        BY <1>5, <3>3, FS_Subset
      <4>2. Dead(end, b) # Dead(Pass(end), b)
        BY <3>3
      <4> QED
        BY <1>5, <4>1, <4>2
    <3>5. Cardinality(Dead(Pass(end), b)) >= i
      BY <1>1, <1>5, <3>1, <3>4
    <3> QED
      BY <1>7, <1>8, <2>2, <3>5
  <2> QED
    BY <2>3, <2>4
<1>11. PICK g : RunsIn(g, F, u, n, S, V)
  <2>1. ASSUME NEW i \in 1..n, NEW end \in S, end \in V[i - 1] PROVE F[<<i, end>>] \in V[i]
    BY <1>3, <1>10, <2>1
  <2> HIDE DEF S
  <2> QED
    BY <1>1, <1>2, <1>4, <1>6, <2>1, LoopKeeps
<1>12. g = [i \in 0..n |-> Body(g, i)]
  <2>1. ASSUME NEW i \in 0..n PROVE g[i] = Body(g, i)
    <3>1. CASE i = 0
      BY <1>11, <3>1 DEF RunsIn
    <3>2. CASE i # 0
      <4>1. i \in 1..n
        BY <1>1, <3>2
      <4>2. g[i] = Pass(g[i - 1])
        BY <1>3, <1>11, <4>1 DEF RunsIn
      <4> QED
        BY <3>2, <4>2
    <3> QED
      BY <3>1, <3>2
  <2> HIDE DEF Body
  <2> QED
    BY <1>11, <2>1 DEF RunsIn
<1>13. run = [i \in 0..n |-> Body(run, i)]
  <2> HIDE DEF Body
  <2> QED
    BY <1>12
<1> HIDE DEF run
<1>14. \A i \in 0..n : run[i] = Body(run, i)
  <2> HIDE DEF Body
  <2> QED
    BY ONLY <1>13
<1>15. run[0] = u /\ \A i \in 1..n : run[i] = Pass(run[i - 1])
  BY <1>8, <1>9, <1>14
<1>16. Chain(b) = run[n]
  BY DEF Chain, run, u
<1>17. ASSUME NEW i \in 1..n, run[i - 1] \in V[i - 1] PROVE run[i] \in V[i]
  BY <1>7, <1>8, <1>10, <1>15, <1>17
<1>18. \A i \in 0..n : run[i] \in V[i]
  BY <1>1, <1>6, <1>15, <1>17, RoundsKeep
<1> DEFINE end == run[n]
<1>19. end \in S /\ (NoneHit(end, b) \/ Cardinality(Dead(end, b)) >= n)
  BY <1>7, <1>9, <1>18
<1> HIDE DEF end
<1>20. ASSUME Cardinality(Dead(end, b)) >= n PROVE NoneHit(end, b)
  <2>1. IsFiniteSet(Indices(b)) /\ Cardinality(Indices(b)) = n
    BY <1>1, FS_Interval
  <2>2. Dead(end, b) \subseteq Indices(b)
    BY DEF Dead
  <2>3. Dead(end, b) = Indices(b)
    BY <1>1, <1>5, <1>20, <2>1, <2>2, FS_Subset
  <2> QED
    BY <2>3 DEF Dead, NoneHit
<1> QED
  BY <1>16, <1>19, <1>20 DEF end, Struggles

-------------------------------------------------------------------------------
ObjectsInv ==
  /\ field \in Battles /\ Len(field.objects) <= MaxObjects
  /\ \A i \in DOMAIN field.objects : Up(field.objects[i])
  /\ \A i \in DOMAIN field.shots : Live(field.shots[i])
  /\ ChainsEnd

LEMMA ObjectIs ==
  ASSUME NEW k \in ObjectKinds, NEW x \in Columns, NEW y \in 1..2
  PROVE  Object(k, x, y) \in Things /\ Up(Object(k, x, y))
<1>1. 0 \in 0..MineArm /\ MineArm \in 0..MineArm /\ 0 \in 0..MineFuse - 1
  BY DEF MineArm, MineFuse
<1> QED
  BY <1>1 DEF Object, Things, Up, Marks

LEMMA NewShotIs ==
  ASSUME NEW k \in ShotKinds, NEW x \in Columns, NEW f \in 0..3
  PROVE  Shot(k, x, f) \in Shots /\ Live(Shot(k, x, f))
BY DEF Shot, Shots, Live

(* Without a chain in this step there is nothing to be said of one.        *)
LEMMA NoChainEnds ==
  chain = NoChain => ChainsEnd
<1> SUFFICES ASSUME chain = NoChain PROVE ChainsEnd
  OBVIOUS
<1>1. chain.lost = <<>> /\ chain.blasts = <<>>
  BY DEF NoChain
<1>2. DOMAIN chain.lost = {} /\ DOMAIN chain.blasts = {}
  BY <1>1
<1> QED
  BY <1>2 DEF ChainsEnd

LEMMA ObjectsStart ==
  ObjectsInit => ObjectsInv
<1> SUFFICES ASSUME ObjectsInit PROVE ObjectsInv
  OBVIOUS
<1>1. PICK l \in Layouts :
        field = [objects |-> [i \in DOMAIN l |-> Object(l[i][1], l[i][2], 2)], shots |-> <<>>,
                 ground |-> [x \in Columns |-> 2], stakey |-> [x |-> 0, hp |-> MaxHP]]
  BY DEF ObjectsInit
<1> DEFINE objects == [i \in DOMAIN l |-> Object(l[i][1], l[i][2], 2)]
<1>2. l \in Seq(ObjectKinds \X Columns) /\ Len(l) <= MaxObjects /\ 0 \in Columns
  BY ObjectsAssumption
<1>3. \A i \in 1..Len(l) : Object(l[i][1], l[i][2], 2) \in Things /\ Up(Object(l[i][1], l[i][2], 2))
  BY <1>2, ObjectIs
<1>4. objects \in Seq(Things) /\ Len(objects) = Len(l) /\ \A i \in DOMAIN objects : Up(objects[i])
  <2>1. DOMAIN l = 1..Len(l) /\ Len(l) \in Nat
    BY <1>2
  <2>2. objects \in [1..Len(l) -> Things]
    BY <1>3, <2>1
  <2> QED
    BY <1>3, <2>1, <2>2
<1> HIDE DEF objects
<1>5. /\ field.objects = objects /\ field.shots = <<>>
      /\ field = [objects |-> objects, shots |-> <<>>, ground |-> [x \in Columns |-> 2], stakey |-> [x |-> 0, hp |-> MaxHP]]
  BY <1>1 DEF objects
<1>6. field \in Battles
  <2>1. [x \in Columns |-> 2] \in [Columns -> 0..2] /\ [x |-> 0, hp |-> MaxHP] \in StakeyBodies /\ <<>> \in Seq(Shots)
    BY <1>2 DEF StakeyBodies, Health, MaxHP
  <2> QED
    BY <1>4, <1>5, <2>1 DEF Battles
<1>7. ChainsEnd
  BY NoChainEnds DEF ObjectsInit
<1>8. \A i \in DOMAIN field.shots : Live(field.shots[i])
  BY <1>5
<1> QED
  BY <1>2, <1>4, <1>5, <1>6, <1>7, <1>8 DEF ObjectsInv

(* A tick of the simulation: projectiles, objects, then the chain to its    *)
(* end, and the slice without what is gone.                                *)
LEMMA StepHolds ==
  ASSUME ObjectsInv, NEW s \in Battles, s.objects = field.objects,
         NEW flight \in [DOMAIN s.shots -> Columns], StepField(s, flight)
  PROVE  ObjectsInv'
<1> DEFINE m == moveProjectiles(s, flight)
           b == MoveObjects(m)
           end == Chain(b)
           K == {i \in DOMAIN end.t.objects : Up(end.t.objects[i])}
           kept == Kept(end.t.objects, K)
<1>1. m \in Battles /\ Len(m.objects) = Len(field.objects) /\ \A i \in DOMAIN m.shots : Live(m.shots[i])
  BY moveProjectilesIs
<1>2. field' = [end.t EXCEPT !.objects = kept] /\ chain' = [lost |-> TakenAway(b.objects, end.t.objects), blasts |-> end.blasts]
  BY DEF StepField
<1> HIDE DEF m
<1>3. b \in Battles /\ Len(b.objects) = Len(field.objects) /\ \A i \in DOMAIN b.shots : Live(b.shots[i])
  BY <1>1, MoveObjectsIs DEF KeepsShots
<1> HIDE DEF b
<1>4. Chained(end, b) /\ NoneHit(end, b)
  BY <1>3, ChainIs
<1> HIDE DEF end
<1>5. /\ end.t \in Battles /\ Len(end.t.objects) = Len(b.objects) /\ end.t.objects \in Seq(Things)
      /\ DOMAIN end.t.objects = Indices(b) /\ DOMAIN b.objects = Indices(b)
      /\ \A i \in Indices(b) : end.t.objects[i].hp \in Marks
  <2>1. end.t \in Battles /\ Len(end.t.objects) = Len(b.objects)
    BY <1>4 DEF Chained, SameObjects
  <2>2. DOMAIN end.t.objects = Indices(b) /\ DOMAIN b.objects = Indices(b)
    BY <1>3, <2>1, FieldIs DEF Indices
  <2>3. \A o \in Things : o.hp \in Marks
    BY DEF Things
  <2> QED
    BY <2>1, <2>2, <2>3, FieldIs
<1> HIDE DEF K
<1>6. /\ kept \in Seq(Things) /\ Len(kept) <= Len(end.t.objects)
      /\ \A j \in DOMAIN kept : \E i \in K \cap DOMAIN end.t.objects : kept[j] = end.t.objects[i]
  BY <1>5, KeptIs
<1> HIDE DEF kept
<1>7. field' \in Battles /\ field'.objects = kept /\ field'.shots = end.t.shots
  BY <1>2, <1>5, <1>6 DEF Battles
<1>8. \A j \in DOMAIN kept : Up(kept[j])
  BY <1>6 DEF K
<1>9. Len(kept) <= MaxObjects
  <2>1. Len(field.objects) <= MaxObjects /\ Len(field.objects) \in Nat /\ MaxObjects \in Nat
    BY FieldIs, ObjectsAssumption DEF ObjectsInv
  <2> QED
    BY <1>3, <1>5, <1>6, <2>1
<1>10. \A k \in DOMAIN end.t.shots : Live(end.t.shots[k])
  BY <1>4 DEF Chained, Charged
<1> DEFINE lost == chain'.lost
           blasts == chain'.blasts
           Burst == {blasts[k] : k \in DOMAIN blasts}
<1>11. lost = TakenAway(b.objects, end.t.objects) /\ blasts = end.blasts
  BY <1>2
<1> HIDE DEF lost, blasts
<1>12. /\ DOMAIN lost = {i \in Indices(b) : b.objects[i].hp # "gone" /\ end.t.objects[i].hp = "gone"}
       /\ \A i \in DOMAIN lost : lost[i] = b.objects[i]
  <2>1. /\ DOMAIN lost = {i \in Indices(b) : b.objects[i].hp # "gone" /\ ~Up(end.t.objects[i])}
        /\ \A i \in DOMAIN lost : lost[i] = b.objects[i]
    BY <1>5, <1>11 DEF TakenAway
  <2>2. \A i \in Indices(b) : ~Up(end.t.objects[i]) <=> end.t.objects[i].hp = "gone"
    BY <1>4, <1>5 DEF NoneHit, Marks, Up
  <2> QED
    BY <2>1, <2>2
<1>13. Burst = Blasted(end, b) /\ \A j, k \in DOMAIN blasts : blasts[j] = blasts[k] => j = k
  BY <1>4, <1>11 DEF Chained, BlastsAre
<1> HIDE DEF Burst
<1>14. Burst = {i \in DOMAIN lost : lost[i].kind \notin Crates}
  BY <1>12, <1>13 DEF Blasted
<1>15. ASSUME NEW i \in Burst
       PROVE  i \in Blasted(end, b) /\ \A x : Near(x, lost[i].x, Radius(lost[i].kind)) <=> Reaches(b, i, x)
  BY <1>12, <1>13, <1>14 DEF Reaches
<1>16. ASSUME NEW i \in Burst, NEW j \in DOMAIN kept PROVE ~Near(kept[j].x, lost[i].x, Radius(lost[i].kind))
  <2>1. PICK k \in Indices(b) : Up(end.t.objects[k]) /\ kept[j] = end.t.objects[k]
    BY <1>5, <1>6 DEF K
  <2>2. kept[j].x = b.objects[k].x
    BY <1>4, <2>1 DEF Chained, SameObjects
  <2>3. ~Reaches(b, i, b.objects[k].x)
    BY <1>4, <1>15, <2>1 DEF Chained, ReachedAreDown
  <2> QED
    BY <1>15, <2>2, <2>3
<1>17. ASSUME NEW i \in Burst, NEW j \in DOMAIN end.t.shots, Near(end.t.shots[j].x, lost[i].x, Radius(lost[i].kind))
       PROVE end.t.shots[j].fuse = 1
  BY <1>4, <1>15, <1>17 DEF Chained, Charged
<1>18. ASSUME NEW j \in DOMAIN lost, lost[j].hp # "hit"
       PROVE \E i \in Burst : i # j /\ Near(lost[j].x, lost[i].x, Radius(lost[i].kind))
  <2>1. j \in Indices(b) /\ lost[j] = b.objects[j] /\ b.objects[j].hp # "gone" /\ ~Up(end.t.objects[j])
    BY <1>12 DEF Up
  <2>2. Up(b.objects[j])
    <3>1. b.objects[j] \in Things
      BY <1>3, <1>5, <2>1, FieldIs
    <3> QED
      BY <1>18, <2>1, <3>1 DEF Things, Marks, Up
  <2>3. PICK i \in Blasted(end, b) : i # j /\ Reaches(b, i, b.objects[j].x)
    BY <1>4, <2>1, <2>2 DEF Chained, Caused
  <2> QED
    BY <1>13, <1>15, <2>1, <2>3
<1>19. ChainsEnd'
  BY <1>7, <1>13, <1>14, <1>16, <1>17, <1>18 DEF ChainsEnd, Burst, lost, blasts
<1> QED
  BY <1>7, <1>8, <1>9, <1>10, <1>19 DEF ObjectsInv

LEMMA TickHolds ==
  ASSUME ObjectsInv, ObjectsTick
  PROVE  ObjectsInv'
<1>1. PICK flight \in [DOMAIN field.shots -> Columns], x \in Columns :
        StepField([field EXCEPT !.stakey = [x |-> x, hp |-> IF field.ground[x] = 0 THEN 0 ELSE @.hp]], flight)
  BY DEF ObjectsTick
<1> DEFINE walker == [x |-> x, hp |-> IF field.ground[x] = 0 THEN 0 ELSE field.stakey.hp]
           s == [field EXCEPT !.stakey = walker]
<1>2. StepField(s, flight)
  BY <1>1
<1>3. field \in Battles
  BY DEF ObjectsInv
<1>4. walker \in StakeyBodies
  BY <1>3 DEF Battles, StakeyBodies, Health, MaxHP
<1> HIDE DEF walker
<1>5. s \in Battles /\ s.objects = field.objects /\ s.shots = field.shots
  BY <1>3, <1>4 DEF Battles
<1> HIDE DEF s
<1>6. flight \in [DOMAIN s.shots -> Columns]
  BY <1>5
<1> QED
  BY <1>2, <1>5, <1>6, StepHolds

(* A mine that is laid, or a crate that is dropped.                        *)
LEMMA ObjectComes ==
  ASSUME ObjectsInv, NEW k \in ObjectKinds, NEW x \in Columns, field.ground[x] > 0,
         Len(field.objects) < MaxObjects, chain' = NoChain,
         field' = [field EXCEPT !.objects = Append(@, Object(k, x, field.ground[x]))]
  PROVE  ObjectsInv'
<1> DEFINE o == Object(k, x, field.ground[x])
           old == field.objects
           new == Append(old, o)
<1>1. field \in Battles /\ old \in Seq(Things) /\ Len(old) \in Nat /\ MaxObjects \in Nat /\ \A i \in DOMAIN old : Up(old[i])
  BY FieldIs, ObjectsAssumption DEF ObjectsInv
<1>2. field.ground[x] \in 1..2
  BY <1>1 DEF Battles
<1>3. o \in Things /\ Up(o)
  BY <1>2, ObjectIs
<1> HIDE DEF o
<1>4. field' = [field EXCEPT !.objects = new]
  BY DEF o
<1> HIDE DEF old
<1>5. /\ new \in Seq(Things) /\ Len(new) = Len(old) + 1 /\ DOMAIN new = 1..Len(old) + 1 /\ new[Len(old) + 1] = o
      /\ DOMAIN old = 1..Len(old) /\ \A i \in 1..Len(old) : new[i] = old[i]
  BY <1>1, <1>3
<1> HIDE DEF new
<1>6. field' \in Battles /\ field'.objects = new /\ field'.shots = field.shots
  BY <1>1, <1>4, <1>5 DEF Battles
<1>7. ASSUME NEW i \in DOMAIN new PROVE Up(new[i])
  <2>1. i = Len(old) + 1 \/ i \in 1..Len(old)
    BY <1>1, <1>5
  <2> QED
    BY <1>1, <1>3, <1>5, <2>1
<1>8. Len(new) <= MaxObjects
  BY <1>1, <1>5 DEF old
<1>9. ChainsEnd'
  <2>1. (chain = NoChain)' => ChainsEnd'
    BY NoChainEnds, PTL
  <2>2. NoChain' = NoChain
    BY DEF NoChain
  <2> QED
    BY <2>1, <2>2
<1> QED
  BY <1>6, <1>7, <1>8, <1>9 DEF ObjectsInv

LEMMA FireHolds ==
  ASSUME ObjectsInv, NEW k \in ShotKinds, fireWeapon(k)
  PROVE  ObjectsInv'
<1>1. field \in Battles /\ field.stakey.x \in Columns /\ chain' = NoChain
  BY DEF ObjectsInv, fireWeapon, Battles, StakeyBodies
<1>2. CASE k = "mine"
  <2>1. /\ field.ground[field.stakey.x] > 0 /\ Len(field.objects) < MaxObjects
        /\ field' = [field EXCEPT !.objects = Append(@, Object("mine", field.stakey.x, field.ground[field.stakey.x]))]
    BY <1>2 DEF fireWeapon
  <2>2. "mine" \in ObjectKinds
    BY DEF ObjectKinds
  <2> QED
    BY <1>1, <2>1, <2>2, ObjectComes
<1>3. CASE k # "mine"
  <2> DEFINE p == Shot(k, field.stakey.x, IF k = "rocket" THEN 0 ELSE 2)
             q == Shot("rocket", field.stakey.x, 0)
             shots == <<p>> \o IF k = "bomb" THEN <<q>> ELSE <<>>
  <2>1. field' = [field EXCEPT !.shots = shots]
    BY <1>3 DEF fireWeapon
  <2>2. p \in Shots /\ Live(p) /\ q \in Shots /\ Live(q)
    <3>1. "rocket" \in ShotKinds /\ (IF k = "rocket" THEN 0 ELSE 2) \in 0..3 /\ 0 \in 0..3
      BY DEF ShotKinds
    <3> QED
      BY <1>1, <3>1, NewShotIs
  <2> HIDE DEF p, q
  <2>3. shots \in Seq(Shots) /\ \A i \in DOMAIN shots : Live(shots[i])
    <3>1. CASE k = "bomb"
      <4>1. shots = <<p>> \o <<q>>
        BY <3>1
      <4> HIDE DEF shots
      <4>2. <<p>> \in Seq(Shots) /\ <<q>> \in Seq(Shots) /\ Len(<<p>>) = 1 /\ Len(<<q>>) = 1
        BY <2>2
      <4>3. shots \in Seq(Shots) /\ Len(shots) = 2 /\ shots[1] = p /\ shots[2] = q
        BY <4>1, <4>2
      <4>4. DOMAIN shots = 1..2 /\ \A i \in 1..2 : i = 1 \/ i = 2
        BY <4>3
      <4> QED
        BY <2>2, <4>3, <4>4
    <3>2. CASE k # "bomb"
      <4>1. shots = <<p>>
        BY <2>2, <3>2
      <4> HIDE DEF shots
      <4> QED
        BY <2>2, <4>1
    <3> QED
      BY <3>1, <3>2
  <2> HIDE DEF shots
  <2>4. field' \in Battles /\ field'.objects = field.objects /\ field'.shots = shots
    BY <1>1, <2>1, <2>3 DEF Battles
  <2>5. ChainsEnd'
    <3>1. (chain = NoChain)' => ChainsEnd'
      BY NoChainEnds, PTL
    <3>2. NoChain' = NoChain
      BY DEF NoChain
    <3> QED
      BY <1>1, <3>1, <3>2
  <2> QED
    BY <2>3, <2>4, <2>5 DEF ObjectsInv
<1> QED
  BY <1>2, <1>3

LEMMA CrateHolds ==
  ASSUME ObjectsInv, NEW k \in Crates, NEW x \in Columns, spawnCrate(k, x)
  PROVE  ObjectsInv'
<1>1. k \in ObjectKinds
  BY DEF Crates, ObjectKinds
<1> QED
  BY <1>1, ObjectComes DEF spawnCrate

(* The inductive invariant of the battlefield: between ticks nothing is hit *)
(* and waiting, and the last chain has come to its end (moveObjects).      *)
THEOREM ObjectsInvariance ==
  ObjectsSpec => []ObjectsInv
<1>1. ASSUME ObjectsInv, UNCHANGED objectVars PROVE ObjectsInv'
  BY <1>1 DEF ObjectsInv, objectVars, ChainsEnd
<1>2. ASSUME ObjectsInv, ObjectsNext PROVE ObjectsInv'
  BY <1>2, TickHolds, FireHolds, CrateHolds DEF ObjectsNext
<1> QED
  BY <1>1, <1>2, ObjectsStart, PTL DEF ObjectsSpec

(* Objects and projectiles stay on the map, with fuses and hit points in    *)
(* their ranges, and the dead are filtered out (moveProjectiles, moveObjects). *)
THEOREM ObjectsAreTyped ==
  ObjectsSpec => []ObjectsTypeOK
<1>1. ObjectsInv => ObjectsTypeOK
  BY FieldIs DEF ObjectsInv, ObjectsTypeOK, Battles, Things, Shots, StakeyBodies
<1> QED
  BY <1>1, ObjectsInvariance, PTL

(* On every map, for any number of barrels, mines and projectiles and       *)
(* whatever the order of the slices: the passes of moveObjects set off once *)
(* all that is in reach of an explosion, and nothing else, in the tick.     *)
THEOREM ChainsAlwaysEnd ==
  ObjectsSpec => []ChainsEnd
<1>1. ObjectsInv => ChainsEnd
  BY DEF ObjectsInv
<1> QED
  BY <1>1, ObjectsInvariance, PTL

-------------------------------------------------------------------------------
(* The composition: one behaviour, of the part that was chosen             *)

(* A behaviour of the composition is a behaviour of every part: of the      *)
(* chosen one step by step, of the others by resting in an initial state.  *)
THEOREM PartsAreThemselves ==
  PartsSpec =>
    /\ SettlementSpec /\ ConnectionSpec /\ WindowSpec /\ FrameSpec /\ LobbySpec /\ TakeSpec /\ SkipSpec
    /\ SettingsSpec /\ GroundSpec /\ TraceSpec /\ ObjectsSpec
<1>1. Init => /\ SettlementInit /\ ConnectionInit /\ WindowInit /\ FrameInit /\ LobbyInit /\ TakeInit /\ SkipInit
              /\ SettingsInit /\ GroundInit /\ TraceInit /\ ObjectsInit
  BY DEF Init
<1>2. ASSUME [Next]_partVars
      PROVE  /\ [SettlementNext]_settlementVars /\ [ConnectionNext]_connectionVars /\ [WindowNext]_windowVars
             /\ [FrameNext]_frameVars /\ [LobbyNext]_lobbyVars /\ [TakeNext]_takeVars /\ [SkipNext]_skipVars
             /\ [SettingsNext]_settingsVars /\ [GroundNext]_groundVars /\ [Narrow]_traceVars
             /\ [ObjectsNext]_objectVars
  BY <1>2 DEF Next, partVars
<1> QED
  BY <1>1, <1>2, PTL
  DEF PartsSpec, SettlementSpec, ConnectionSpec, WindowSpec, FrameSpec, LobbySpec, TakeSpec, SkipSpec,
      SettingsSpec, GroundSpec, TraceSpec, ObjectsSpec

LEMMA WindowIsTyped == WindowInv => WindowTypeOK
<1> SUFFICES ASSUME WindowInv PROVE WindowTypeOK
  OBVIOUS
<1>1. game \in Simulations /\ Len(game.hist) <= MaxTurns /\ Len(game.now) < TurnTicks
  BY DEF WindowInv, Sized
<1>2. ASSUME NEW S, NEW n \in Int, NEW s \in Seq(S), Len(s) <= n PROVE s \in UNION {[1..k -> S] : k \in 0..n}
  <2>1. s \in [1..Len(s) -> S] /\ Len(s) \in 0..n
    BY <1>2
  <2> QED
    BY <2>1
<1>3. game.hist \in UNION {[1..n -> Turns] : n \in 0..MaxTurns}
  BY <1>1, <1>2, WindowAssumption DEF Simulations
<1>4. game.now \in UNION {[1..n -> Moves] : n \in 0..TurnTicks - 1}
  <2>1. game.now \in Seq(Moves) /\ Len(game.now) <= TurnTicks - 1 /\ TurnTicks - 1 \in Int
    BY <1>1, WindowAssumption DEF Simulations
  <2> QED
    BY <1>2, <2>1
<1>5. game \in Games
  BY <1>1, <1>3, <1>4 DEF Simulations, Games
<1> QED
  BY <1>5 DEF WindowInv, WindowSized, WindowTypeOK

(* The state of the controller, the window with its screens and settings,   *)
(* the simulation and the experiments stays in its types, for all sizes.   *)
THEOREM PartsAreTyped ==
  PartsSpec => []PartsTypeOK
<1>1. /\ ConnectionInv => ConnectionTypeOK
      /\ SkipInv => SkipTypeOK
      /\ LobbyInv => LobbyTypeOK
      /\ FrameInv => FrameTypeOK
      /\ TakeInv => TakeTypeOK
      /\ WindowInv => WindowTypeOK
  BY TakeTyped, WindowIsTyped DEF ConnectionInv, SkipInv, LobbyInv, FrameInv
<1>2. SettingsInv => SettingsTypeOK
  BY DEF SettingsInv, ScreenTypes, Forms, Readers, Disks, SettingsTypeOK
<1>3. /\ SettlementTypeOK /\ ConnectionTypeOK /\ LobbyTypeOK /\ TakeTypeOK /\ SkipTypeOK /\ FrameTypeOK
      /\ WindowTypeOK /\ SettingsTypeOK /\ GroundTypeOK /\ ObjectsTypeOK /\ TraceTypeOK
      => PartsTypeOK
  BY DEF PartsTypeOK
<1> QED
  BY <1>1, <1>2, <1>3, PartsAreThemselves, SettlementTypes, ConnectionInvariant, LobbyInvariant, TakeInvariant,
     SkipInvariant, FrameInvariant, WindowInvariant, SettingsInvariant, GroundIsTyped, ObjectsAreTyped,
     TraceIsTyped, PTL

(* What the parts promise holds of every behaviour of the composition, for  *)
(* all sizes and failures (one conjunct for each invariant of its run).    *)
THEOREM PartsKeepTheirPromises ==
  PartsSpec =>
    [](/\ OneJobAtATime /\ ConfirmedIsPaid /\ SessionIsCurrent /\ BusyIsAnswered /\ WindowShowsTheMatch
       /\ CountdownRuns /\ ChargeIsOfThisTurn /\ EvidenceUnlocks /\ ResumesTheLatest /\ ViewDecides /\ ChainsEnd
       /\ SettingsAreAsChosen /\ HonestStepIsFound /\ NobodyBuried /\ PictureShowsGround /\ FallsAreReal)
BY PartsAreThemselves, OneJob, ReceiptsArePaid, SessionStaysCurrent, WaitingIsAnswered, WindowIsFaithful,
   CountdownAlwaysRuns, ChargesStayInTheirTurn, EvidenceAlwaysUnlocks, DisputesResume, RoundsDecideAlike,
   ChainsAlwaysEnd, ChoicesSurvive, BisectionIsSound, NobodyIsEverBuried, PictureAlwaysShowsGround,
   FallsAreAlwaysReal, PTL
================================================================================
