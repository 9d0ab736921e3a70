------------------------------- MODULE TakeGame -------------------------------
(***************************************************************************)
(* The bounded dispute of research/settlement/takegame: one output that is *)
(* first a checkpoint (checkpoint.go), replaced by newer certificates, and *)
(* then a game of taking one or two items (main.go), played on the chain.  *)
(* Scripts are modelled by the spends they admit.  One player is sound: it *)
(* watches every block and, as README.md of the experiment requires,       *)
(* confirms a newer certificate before a stale exit matures, and its move  *)
(* before it may be skipped.  The other may do anything the scripts allow. *)
(***************************************************************************)
EXTENDS Integers

CONSTANT Sound           \* 1 or 2

Players   == 1..2
ASSUME TakeAssumption == Sound \in Players

Snapshots == 2..5
Fee       == 20000
Delay     == 2           \* blocks, OP_CHECKSEQUENCEVERIFY
LastTurn  == 8

VARIABLES
  coin,    \* the unspent output
  held,    \* by player: snapshots of which it has both players' openings
  late     \* snapshots the sound player got when an exit was ripe already

takeVars == <<coin, held, late>>

Game(p, s, u) == [at |-> "game", pile |-> p, seat |-> s, turn |-> u]
Paid(to)      == [at |-> "paid", pile |-> 0, seat |-> to, turn |-> 0]   \* 0: both

(* Where the exit of a snapshot leads. *)
dictionary == [s \in Snapshots |->
  CASE s = 2 -> Game(3, 1, 1) [] s = 3 -> Game(2, 2, 2) [] s = 4 -> Game(1, 1, 3)
    [] s = 5 -> Paid(1)]

(* The output of a spend: where it leads, and what of its input it keeps.  *)
Output(place, cur, amount, skipped) ==
  [place |-> place, cur |-> cur, amount |-> amount, age |-> 0, skipped |-> skipped]

Checkpoint == [at |-> "checkpoint", pile |-> 0, seat |-> 0, turn |-> 0]

TakeTypeOK ==
  /\ coin.place.at \in {"checkpoint", "game", "paid"}
  /\ coin.cur \in 1..5 /\ coin.amount \in Nat /\ coin.amount <= 1060000 /\ coin.age \in 0..Delay
  /\ held \in [Players -> SUBSET Snapshots] /\ late \subseteq held[Sound]

(* A fresh claim, funded when both hold the certificate of the start. *)
TakeInit ==
  /\ coin = Output(Checkpoint, 1, 1060000, {})
  /\ held = [p \in Players |-> {2}] /\ late = {}

Newer(p)  == {s \in held[p] : s > coin.cur}
Spend(o)  == o.amount <= coin.amount /\ coin' = o

(* The other player opens its secret of a snapshot to p. *)
Certify(p, s) ==
  /\ coin.place.at = "checkpoint" /\ s \notin held[p]
  /\ held' = [held EXCEPT ![p] = @ \cup {s}]
  /\ late' = IF p = Sound /\ coin.age = Delay THEN late \cup {s} ELSE late
  /\ UNCHANGED coin

(* A spend with both openings, which the block publishes. *)
Replace(p, target) ==
  /\ coin.place.at = "checkpoint" /\ target \in Newer(p)
  /\ Spend(Output(Checkpoint, target, 1080000 - Fee * target, {}))
  /\ held' = [q \in Players |-> held[q] \cup {target}] /\ UNCHANGED late

(* Mutant: without the relative lock. *)
ExitUnripe ==
  /\ coin.place.at = "checkpoint" /\ coin.cur > 1
  /\ Spend(Output(dictionary[coin.cur], coin.cur, 1080000 - Fee * (coin.cur + 1), {}))
  /\ UNCHANGED <<held, late>>

Exit ==
  /\ coin.place.at = "checkpoint" /\ coin.cur > 1 /\ coin.age = Delay
  /\ Spend(Output(dictionary[coin.cur], coin.cur, 1080000 - Fee * (coin.cur + 1), {}))
  /\ UNCHANGED <<held, late>>

(* What a spend of the game must pay: the last item, the eighth turn, or    *)
(* the successor state of the same script.                                 *)
Successor(g, a) ==
  IF g.pile = a THEN Paid(g.seat)
  ELSE IF g.turn = LastTurn THEN Paid(0)
  ELSE Game(g.pile - a, 3 - g.seat, g.turn + 1)

Play(a, skipped) ==
  /\ Spend(Output(Successor(coin.place, a), coin.cur, 1020000 - Fee * coin.place.turn, skipped))
  /\ UNCHANGED <<held, late>>

(* Signed by the seat in turn. *)
Take(a) == coin.place.at = "game" /\ a <= coin.place.pile /\ Play(a, coin.skipped)

(* What the game's state was built to be funded with. *)
Funding(g) == 1040000 - Fee * g.turn

(* By anyone, once the output is old enough. *)
Skip ==
  /\ coin.place.at = "game" /\ coin.age = Delay
  /\ Play(0, coin.skipped \cup {coin.place.seat})

(* A block without a spend.  The sound player's own spend is in the block    *)
(* in which the output would become ripe.                                  *)
Block ==
  /\ coin.place.at # "paid" /\ coin.age < Delay
  /\ coin.age = Delay - 1 =>
       IF coin.place.at = "game" THEN coin.place.seat # Sound ELSE Newer(Sound) = {}
  /\ coin' = [coin EXCEPT !.age = @ + 1] /\ UNCHANGED <<held, late>>

TakeNext ==
  \/ Block \/ Exit \/ Skip \/ \E a \in 1..2 : Take(a)
  \/ \E p \in Players, s \in Snapshots : Certify(p, s) \/ Replace(p, s)

TakeSpec == TakeInit /\ [][TakeNext]_takeVars

-------------------------------------------------------------------------------
(* The pot resumes in no state older than the newest the sound player could *)
(* prove in time, and with exactly what that state's script pays out and    *)
(* spends, whichever checkpoints it went through; and the sound player is   *)
(* never skipped.                                                          *)
ResumesTheLatest ==
  /\ coin.place.at = "game" => coin.amount = Funding(coin.place)
  /\ coin.place.at # "checkpoint" =>
       /\ \A s \in held[Sound] \ late : s <= coin.cur
       /\ Sound \notin coin.skipped
===============================================================================
