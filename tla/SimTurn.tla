-------------------------------- MODULE SimTurn --------------------------------
(***************************************************************************)
(* pkg/sim: the turns of a match, as Step of state.go drives them: the     *)
(* phases of a turn, who is next, what a squad may do in its turn, sudden  *)
(* death and the end of the match.                                         *)
(*                                                                         *)
(* A tick is one Step: the inputs of the seat in turn, then the physics,   *)
(* then the clock.  The physics is left to chance here: in any tick any    *)
(* Stakeys may die, and things are in motion or at rest.  An input that is *)
(* refused (no ammunition, not unlocked yet, no target, no room) does what *)
(* Move does here: nothing.                                                *)
(*                                                                         *)
(* The weapons are told apart by what they do to the turn: Bazooka stands  *)
(* for all that attack once and end it, Shotgun shoots twice, RemoteCharge *)
(* is placed and set off later, Teleport moves and ends it, and NinjaRope  *)
(* stands for the tools that never end it.                                 *)
(***************************************************************************)
EXTENDS Integers, Sequences, FiniteSets

CONSTANTS
  Seats, Units,      \* how many squads, and Stakeys in each
  ReadyTicks, TurnTicks, RetreatTicks,
  MaxPhaseTick,      \* bound: the clock of a phase stops here
  SuddenDeathTurn,   \* not 0, which would mean none
  Rises,             \* the rises of the water that drown the highest place
  MaxDeaths,         \* bound: the deaths by injury of one tick
  Scripts            \* bound: the pairs of inputs a tick may have

Weapons == {"Bazooka", "Shotgun", "RemoteCharge", "Teleport", "NinjaRope"}

(* No input; one that only moves or aims, or that the arsenal or the       *)
(* terrain refuses; a SelectWeapon is its weapon.                          *)
Inputs  == {"None", "Move", "Fire", "TeleportTo", "Skip", "Surrender"} \cup Weapons
Phases  == {"Ready", "Playing", "Retreating", "Resolving", "Ended"}

ASSUME SimAssumption ==
  /\ Seats \in Nat /\ Seats >= 2
  /\ Units \in Nat \ {0}
  /\ ReadyTicks \in Nat /\ TurnTicks \in Nat \ {0} /\ RetreatTicks \in Nat
  /\ MaxPhaseTick \in Nat
  /\ ReadyTicks <= MaxPhaseTick /\ TurnTicks <= MaxPhaseTick /\ RetreatTicks <= MaxPhaseTick
  /\ SuddenDeathTurn \in Nat \ {0} /\ Rises \in Nat \ {0} /\ MaxDeaths \in Nat
  /\ Scripts \subseteq Inputs \X Inputs

(* A Stakey is its seat and its unit; the code numbers them seat by seat.  *)
Worms     == (0..Seats - 1) \X (0..Units - 1)
SeatOf(w) == w[1]

VARIABLES
  s,      \* sim.State
  order,  \* history: the Stakeys whose turns began
  uses    \* history: the attacks and teleports of this turn

vars == <<s, order, uses>>

States ==
  [phase     : Phases,
   phaseTick : 0..MaxPhaseTick,
   turn      : Nat,
   active    : Worms,
   next      : [0..Seats - 1 -> 0..Units - 1],
   alive     : SUBSET Worms,
   weapon    : Weapons,
   shots     : {0, 1},
   charge    : 0..TurnTicks + 1,  \* the fuse of a remote charge, or none
   water     : Nat,
   winner    : -1..Seats - 1]

TypeOK ==
  /\ s \in States
  /\ order \in Seq(Worms)
  /\ uses \in Nat

-------------------------------------------------------------------------------
(* The turn                                                                *)

Begin(t, w) ==
  [t EXCEPT !.active = w, !.phase = IF ReadyTicks > 0 THEN "Ready" ELSE "Playing",
            !.phaseTick = 0, !.shots = 0, !.weapon = "Bazooka"]

(* Mutant: a second skip starts the retreat again. *)
RetreatAgain(t) ==
  [t EXCEPT !.phase = "Retreating", !.phaseTick = 0,
            !.charge = IF t.weapon = "RemoteCharge" /\ @ > 0 THEN 1 ELSE @]

(* Mutant: a charge that was placed is left to its fuse. *)
RetreatUnlit(t) ==
  IF t.phase # "Playing" THEN t
  ELSE [t EXCEPT !.phase = "Retreating", !.phaseTick = 0]

Retreat(t) ==
  IF t.phase # "Playing" THEN t
  ELSE [t EXCEPT !.phase = "Retreating", !.phaseTick = 0,
                 !.charge = IF t.weapon = "RemoteCharge" /\ @ > 0 THEN 1 ELSE @]

Living(t) == {SeatOf(w) : w \in t.alive}

(* The first living seat after the active one, the first living unit of a  *)
(* seat from the one its pointer is at.                                    *)
NextSeat(t) ==
  LET from == SeatOf(t.active)
      n == CHOOSE n \in 1..Seats :
             /\ (from + n) % Seats \in Living(t)
             /\ \A m \in 1..n - 1 : (from + m) % Seats \notin Living(t)
  IN  (from + n) % Seats

NextUnit(t, seat) ==
  LET n == CHOOSE n \in 0..Units - 1 :
             /\ <<seat, (t.next[seat] + n) % Units>> \in t.alive
             /\ \A m \in 0..n - 1 : <<seat, (t.next[seat] + m) % Units>> \notin t.alive
  IN  (t.next[seat] + n) % Units

(* Where the pointer of a seat goes after a unit's turn. *)
AfterCounting(t, seat, unit) == (t.next[seat] + 1) % Units   \* mutant: over the dead

After(t, seat, unit) == (unit + 1) % Units

(* Sudden death: the water at the start of the next turn. *)
Rise(t) == IF t.turn + 1 >= SuddenDeathTurn THEN t.water + 1 ELSE t.water

NextTurn(t) ==
  IF Cardinality(Living(t)) <= 1
    THEN [t EXCEPT !.phase = "Ended",
                   !.winner = IF t.alive = {} THEN -1 ELSE CHOOSE q \in Living(t) : TRUE]
    ELSE LET seat == NextSeat(t)
             unit == NextUnit(t, seat)
         IN  Begin([t EXCEPT !.turn = @ + 1, !.water = Rise(t),
                             !.next[seat] = After(t, seat, unit)], <<seat, unit>>)

-------------------------------------------------------------------------------
(* apply: one input                                                        *)

RemainingTicks(t) ==
  IF t.phase # "Playing" \/ t.phaseTick >= TurnTicks THEN 0 ELSE TurnTicks - t.phaseTick

Fires(t) ==
  /\ t.phase = "Playing"
  /\ \/ t.weapon \in {"Bazooka", "Shotgun"}
     \/ (t.weapon = "RemoteCharge" /\ t.shots = 0)

Fire(t) ==
  IF t.weapon = "RemoteCharge" /\ t.shots > 0 THEN Retreat(t)
  ELSE IF ~Fires(t) THEN t
  ELSE IF t.weapon = "RemoteCharge"
         THEN [t EXCEPT !.shots = 1, !.charge = RemainingTicks(t) + 1]
  ELSE IF t.weapon = "Shotgun" /\ t.shots = 0 THEN [t EXCEPT !.shots = 1]
  ELSE Retreat(t)

Teleports(t, v) ==
  v = "TeleportTo" /\ t.phase = "Playing" /\ t.weapon = "Teleport"

Deaf(t) == t.active \notin t.alive \/ t.phase = "Resolving"

(* Mutant: the weapon may be changed after the first shot. *)
ApplySwitching(t, v) ==
  IF Deaf(t) THEN t ELSE
  CASE v \in Weapons /\ t.phase = "Playing" ->
         [t EXCEPT !.weapon = v, !.shots = 0]
    [] v = "Fire" /\ t.phase = "Playing" -> Fire(t)
    [] Teleports(t, v) \/ v = "Skip" -> Retreat(t)
    [] v = "Surrender" ->
         Retreat([t EXCEPT !.alive = {w \in @ : SeatOf(w) # SeatOf(t.active)}])
    [] OTHER -> t

Apply(t, v) ==
  IF Deaf(t) THEN t ELSE
  CASE v \in Weapons /\ t.phase = "Playing" /\ t.shots = 0 ->
         [t EXCEPT !.weapon = v]
    [] v = "Fire" /\ t.phase = "Playing" -> Fire(t)
    [] Teleports(t, v) \/ v = "Skip" -> Retreat(t)
    [] v = "Surrender" ->
         Retreat([t EXCEPT !.alive = {w \in @ : SeatOf(w) # SeatOf(t.active)}])
    [] OTHER -> t

Uses(t, v) ==
  IF ~Deaf(t) /\ ((v = "Fire" /\ Fires(t)) \/ Teleports(t, v)) THEN 1 ELSE 0

-------------------------------------------------------------------------------
(* The physics: some die, and all do once the water is over the highest a  *)
(* Stakey can be; a charge burns down, is set off by another explosion in  *)
(* this tick or for the next one, or leaves the world.                     *)
Drowned(t) == t.water >= Rises

Burnt(c) == IF c <= 1 THEN {0} ELSE {0, 1, c - 1}

Physics(t, dead, charge) ==
  [t EXCEPT !.alive = IF Drowned(t) THEN {} ELSE @ \ dead, !.charge = charge]

Clock(t) == [t EXCEPT !.phaseTick = IF @ < MaxPhaseTick THEN @ + 1 ELSE @]

TurnOver(t, moving) ==
  LET u == IF t.active \notin t.alive THEN Retreat(t) ELSE t IN
  CASE u.phase = "Playing" /\ u.phaseTick >= TurnTicks -> Retreat(u)
    [] u.phase = "Retreating" /\ u.phaseTick >= RetreatTicks ->
         [u EXCEPT !.phase = "Resolving", !.phaseTick = 0]
    [] u.phase = "Resolving" /\ ~moving /\ u.charge = 0 -> NextTurn(u)
    [] OTHER -> u

-------------------------------------------------------------------------------
(* Step                                                                    *)

(* A tick without inputs before the turn: nothing moves. *)
Wait ==
  /\ s.phase = "Ready"
  /\ s' = IF s.phaseTick + 1 >= ReadyTicks
            THEN [s EXCEPT !.phase = "Playing", !.phaseTick = 0]
            ELSE Clock(s)
  /\ UNCHANGED <<order, uses>>

Woken == IF s.phase = "Ready" THEN [s EXCEPT !.phase = "Playing", !.phaseTick = 0] ELSE s

Tick(script, dead, moving) ==
  /\ s.phase # "Ended"
  /\ s.phase = "Ready" => script # <<"None", "None">>
  /\ LET one == Apply(Woken, script[1])
         two == Apply(one, script[2])
     IN  /\ \E c \in Burnt(two.charge) :
              s' = TurnOver(Clock(Physics(two, dead, c)), moving)
         /\ order' = IF s'.turn = s.turn THEN order ELSE Append(order, s'.active)
         /\ uses' = IF s'.turn # s.turn THEN 0
                    ELSE uses + Uses(Woken, script[1]) + Uses(one, script[2])

Init ==
  /\ s = Begin([phase |-> "Ready", phaseTick |-> 0, turn |-> 0, active |-> <<0, 0>>,
                next |-> [q \in 0..Seats - 1 |-> IF q = 0 THEN 1 % Units ELSE 0],
                alive |-> Worms, weapon |-> "Bazooka", shots |-> 0,
                charge |-> 0, water |-> 0, winner |-> -1], <<0, 0>>)
  /\ order = <<<<0, 0>>>>
  /\ uses = 0

AnyTick(moving) ==
  \E script \in Scripts, dead \in {d \in SUBSET s.alive : Cardinality(d) <= MaxDeaths} :
    Tick(script, dead, moving)

(* Only the last phase of a turn asks whether all is at rest. *)
Next == Wait \/ \E moving \in {FALSE, s.phase = "Resolving"} : AnyTick(moving)

Spec == Init /\ [][Next]_vars

(* The window ticks on, with or without inputs, and what is in flight       *)
(* comes down: past ResolutionTicks every fuse is set to one tick, and     *)
(* bodies fall until they land or leave the world.                         *)
FairSpec == Spec /\ WF_vars(Wait) /\ WF_vars(AnyTick(FALSE))

-------------------------------------------------------------------------------
(* No squad is passed over while one of its Stakeys lives, and no Stakey   *)
(* plays twice while a living one of its squad waits, whoever dies when.   *)
RotationIsFair ==
  \A i, j \in DOMAIN order : i < j =>
    /\ SeatOf(order[i]) = SeatOf(order[j]) =>
         \A q \in Living(s) : \E k \in i..j - 1 : SeatOf(order[k]) = q
    /\ order[i] = order[j] =>
         \A w \in s.alive : SeatOf(w) = SeatOf(order[i]) => \E k \in i..j - 1 : order[k] = w

(* A remote charge goes off in the turn that placed it, in the tick after  *)
(* the turn's last at the latest, however the turn ends.                   *)
ChargeEndsWithTurn ==
  s.charge > 0 => \/ s.phase = "Playing" /\ s.charge <= TurnTicks - s.phaseTick + 1
                  \/ s.phase \in {"Retreating", "Resolving"} /\ s.charge = 1 /\ s.phaseTick = 0

(* A turn has one attack or teleport, of two shots with a shotgun, and no  *)
(* order of selecting, firing and skipping within a tick gives another.    *)
OneAttackPerTurn == uses <= IF s.weapon = "Shotgun" THEN 2 ELSE 1

(* Sudden death bounds the turns of a match, however carefully it is       *)
(* played; the turn that would be its last is not counted.                 *)
TurnsAreBounded == s.turn < SuddenDeathTurn + Rises

(* Every match ends, whatever its players do or do not. *)
MatchEnds == <>(s.phase = "Ended")
===============================================================================
