------------------------------- MODULE SkipRound ------------------------------
(***************************************************************************)
(* The skip experiment of internal/protocolcheck/skip.go: one observer's   *)
(* local round about an absent player.  Messages of any kind, by anyone,   *)
(* reach it at any tick, in any order and any number of times.  Ticks are  *)
(* unsigned words that wrap: 2^64 of them in the code.                     *)
(***************************************************************************)
EXTENDS Integers, Sequences

CONSTANTS Rosters,    \* sequences of seats, fit for a round or not
          Timings,    \* [turnEndsAt, grace, voteWindow]
          WordSize    \* number of ticks, after which they start again

Words == 0..WordSize - 1
Add(a, b) == IF a + b < WordSize THEN a + b ELSE a + b - WordSize

ASSUME SkipAssumption ==
  /\ WordSize \in Nat \ {0}
  /\ Timings \subseteq [turnEndsAt : Words, grace : Words, voteWindow : Words]

MessageKinds == {"propose", "vote", "answer"}
Absent   == 0
Messages == [round : {"this", "other"}, sender : 0..3, kind : MessageKinds,
             approve : BOOLEAN, signed : BOOLEAN]

VARIABLES
  active,  \* Context.Active
  now,
  round,   \* opened, closes, votes, answer, conflict
  seen     \* history: authentic votes and answers that came in the window

skipVars == <<active, now, round, seen>>

Votes  == {"none", "yes", "no"}
Closed == [open |-> FALSE, opened |-> 0, closes |-> 0, votes |-> [s \in 0..3 |-> "none"],
           answer |-> FALSE, conflict |-> FALSE]

SkipTypeOK ==
  /\ now \in Words /\ active \in Rosters /\ seen \subseteq Messages
  /\ round \in [open : BOOLEAN, opened : Words, closes : Words, votes : [0..3 -> Votes],
                answer : BOOLEAN, conflict : BOOLEAN]

SkipInit == active \in Rosters /\ now = 0 /\ round = Closed /\ seen = {}

(* digest: two to six seats in ascending order, the absent one among them. *)
Fit ==
  /\ Len(active) \in 2..6
  /\ \A i \in 2..Len(active) : active[i - 1] < active[i]
  /\ \E i \in 1..Len(active) : active[i] = Absent

Valid(m) ==
  /\ Fit /\ m.round = "this" /\ m.signed
  /\ m.approve => m.kind = "vote"
  /\ (m.kind = "answer") = (m.sender = Absent)
  /\ \E i \in 1..Len(active) : active[i] = m.sender

Open(m, timing) ==
  LET eligible == Add(timing.turnEndsAt, timing.grace)
      closes   == Add(now, timing.voteWindow)
  IN /\ ~round.open /\ Valid(m) /\ m.kind = "propose"
     /\ eligible >= timing.turnEndsAt /\ timing.voteWindow # 0 /\ closes >= now
     /\ now >= eligible
     /\ round' = [Closed EXCEPT !.open = TRUE, !.opened = now, !.closes = closes]
     /\ UNCHANGED <<active, now, seen>>

InWindow(r) == r.opened <= now /\ now < r.closes

(* Mutant: a later vote of the same seat replaces the earlier one. *)
CountLatest(r, m) ==
  IF m.kind = "vote"
    THEN [r EXCEPT !.votes[m.sender] = IF m.approve THEN "yes" ELSE "no"]
  ELSE [r EXCEPT !.answer = TRUE]

(* A seat that signs the other vote too leaves the first, and the proof.   *)
Count(r, m) ==
  LET vote == IF m.approve THEN "yes" ELSE "no" IN
  IF m.kind = "answer" THEN [r EXCEPT !.answer = TRUE]
  ELSE IF r.votes[m.sender] \notin {"none", vote} THEN [r EXCEPT !.conflict = TRUE]
  ELSE [r EXCEPT !.votes[m.sender] = vote]

Receive(m) ==
  /\ round.open /\ Valid(m) /\ InWindow(round) /\ m.kind # "propose"
  /\ round' = Count(round, m) /\ seen' = seen \cup {m}
  /\ UNCHANGED <<active, now>>

Tick == now < WordSize - 1 /\ now' = now + 1 /\ UNCHANGED <<active, round, seen>>

SkipNext ==
  \/ Tick
  \/ \E m \in Messages : Receive(m) \/ \E timing \in Timings : Open(m, timing)

SkipSpec == SkipInit /\ [][SkipNext]_skipVars

Decision(r) ==
  LET cast == {s \in 0..3 : r.votes[s] # "none"} IN
  IF r.conflict THEN "conflicting signed votes"
  ELSE IF r.answer THEN "accused answered"
  ELSE IF now < r.closes THEN "waiting"
  ELSE IF cast = {} THEN "no affirmative voters"
  ELSE IF \E s \in cast : r.votes[s] = "no" THEN "a responder voted no"
  ELSE "responders agreed to skip"

-------------------------------------------------------------------------------
(* What an observer decides depends on which messages it got in its window, *)
(* never on their order or number, and so it cannot change once the window *)
(* has closed.  A player is skipped only when everyone who voted agreed,   *)
(* somebody did, the accused was silent and nobody voted both ways.        *)
ViewDecides ==
  LET votes == {m \in seen : m.kind = "vote"}
      ways(s) == {m.approve : m \in {v \in votes : v.sender = s}}
      twice == \E s \in 0..3 : ways(s) = BOOLEAN
      answered == \E m \in seen : m.kind = "answer"
  IN round.open =>
       /\ (Decision(round) = "responders agreed to skip") =
            (now >= round.closes /\ ~answered /\ votes # {} /\ \A m \in votes : m.approve)
       /\ (Decision(round) = "conflicting signed votes") = twice
       /\ (Decision(round) = "accused answered") = (answered /\ ~twice)
       /\ \A m \in seen : m.sender # Absent \/ m.kind = "answer"
===============================================================================
