----------------------------- MODULE SimTurn_proofs ----------------------------
(***************************************************************************)
(* Proofs about the turns of a match, for any number of seats and units,   *)
(* any durations, any scripts of two inputs and any deaths.                *)
(*                                                                         *)
(* The argument: while a turn is played, its uses are its shots, so the    *)
(* lock on the weapon is a lock on the attack; a charge is only in the air *)
(* while the turn of its weapon is played, with a fuse the clock runs out  *)
(* with; and the water has risen once for every turn of sudden death, so a *)
(* turn that begins finds it below the highest place.                      *)
(* Of the order of turns: since any earlier turn, a living squad has played *)
(* or still lies ahead of the one in turn, counted round the table, and so *)
(* has a living Stakey of the squad ahead of its squad's pointer.           *)
(***************************************************************************)
EXTENDS SimTurn, NaturalFacts, FiniteSetTheorems, TLAPS

(* The seat that nextTurn comes to is the first living one after the seat   *)
(* in turn: there is one, however many have died.                          *)
LEMMA NextSeatIsFirst ==
  ASSUME NEW t \in States, Living(t) # {}
  PROVE  \E n \in 1..Seats :
           /\ NextSeat(t) = (SeatOf(t.active) + n) % Seats /\ NextSeat(t) \in Living(t)
           /\ \A m \in 1..n - 1 : (SeatOf(t.active) + m) % Seats \notin Living(t)
<1> DEFINE from == SeatOf(t.active)
           far  == {n \in 1..Seats : (from + n) % Seats \in Living(t)}
           First(n) == /\ (from + n) % Seats \in Living(t)
                       /\ \A m \in 1..n - 1 : (from + m) % Seats \notin Living(t)
<1>1. from \in 0..Seats - 1 /\ Seats \in Nat \ {0}
  BY SimAssumption DEF States, Worms, SeatOf
<1>2. PICK q \in Living(t) : q \in 0..Seats - 1
  BY DEF Living, States, Worms, SeatOf
<1>3. far # {}
  <2>1. CASE q > from
    <3>1. q - from \in 1..Seats /\ from + (q - from) = q
      BY <1>1, <1>2, <2>1
    <3>2. (from + (q - from)) % Seats = q
      BY <1>1, <1>2, <3>1, ModSmall
    <3> QED
      BY <1>2, <3>1, <3>2
  <2>2. CASE q <= from
    <3>1. q - from + Seats \in 1..Seats /\ from + (q - from + Seats) = q + Seats
      BY <1>1, <1>2, <2>2
    <3>2. (from + (q - from + Seats)) % Seats = q
      BY <1>1, <1>2, <3>1, ModSmall
    <3> QED
      BY <1>2, <3>1, <3>2
  <2> QED
    BY <1>1, <1>2, <2>1, <2>2
<1>4. PICK n \in far : \A k \in far : n <= k
  <2>1. far \subseteq Nat
    OBVIOUS
  <2> HIDE DEF far
  <2> QED
    BY <1>3, <2>1, LeastNatural
<1>5. n \in 1..Seats /\ First(n)
  BY <1>1, <1>4
<1>6. NextSeat(t) = (from + (CHOOSE k \in 1..Seats : First(k))) % Seats
  BY DEF NextSeat
<1> HIDE DEF First
<1>7. PICK k \in 1..Seats : First(k) /\ NextSeat(t) = (from + k) % Seats
  BY <1>5, <1>6
<1> QED
  BY <1>7 DEF First

LEMMA NextSeatIsLiving ==
  ASSUME NEW t \in States, Living(t) # {}
  PROVE  NextSeat(t) \in Living(t)
BY NextSeatIsFirst

(* And so is the unit, from the pointer of its seat on. *)
LEMMA NextUnitIsFirst ==
  ASSUME NEW t \in States, NEW seat \in Living(t)
  PROVE  \E n \in 0..Units - 1 :
           /\ NextUnit(t, seat) = (t.next[seat] + n) % Units /\ <<seat, NextUnit(t, seat)>> \in t.alive
           /\ \A m \in 0..n - 1 : <<seat, (t.next[seat] + m) % Units>> \notin t.alive
<1> DEFINE at  == t.next[seat]
           far == {n \in 0..Units - 1 : <<seat, (at + n) % Units>> \in t.alive}
           First(n) == /\ <<seat, (at + n) % Units>> \in t.alive
                       /\ \A m \in 0..n - 1 : <<seat, (at + m) % Units>> \notin t.alive
<1>1. PICK u \in 0..Units - 1 : <<seat, u>> \in t.alive
  <2>1. PICK w \in t.alive : seat = w[1]
    BY DEF Living, SeatOf
  <2>2. w \in (0..Seats - 1) \X (0..Units - 1)
    BY DEF States, Worms
  <2>3. w = <<w[1], w[2]>> /\ w[2] \in 0..Units - 1
    BY <2>2
  <2> QED
    BY <2>1, <2>3
<1>2. seat \in 0..Seats - 1
  BY DEF Living, States, Worms, SeatOf
<1>3. at \in 0..Units - 1 /\ Units \in Nat \ {0}
  BY <1>2, SimAssumption DEF States
<1>4. far # {}
  <2>1. CASE u >= at
    <3>1. u - at \in 0..Units - 1 /\ at + (u - at) = u
      BY <1>3, <2>1
    <3>2. (at + (u - at)) % Units = u
      BY <1>3, <3>1, ModSmall
    <3> QED
      BY <1>1, <3>1, <3>2
  <2>2. CASE u < at
    <3>1. u - at + Units \in 0..Units - 1 /\ at + (u - at + Units) = u + Units
      BY <1>3, <2>2
    <3>2. (at + (u - at + Units)) % Units = u
      BY <1>3, <3>1, ModSmall
    <3> QED
      BY <1>1, <3>1, <3>2
  <2> HIDE DEF far
  <2> QED
    BY <1>1, <1>3, <2>1, <2>2
<1>5. PICK n \in far : \A k \in far : n <= k
  <2>1. far \subseteq Nat
    OBVIOUS
  <2> HIDE DEF far
  <2> QED
    BY <1>4, <2>1, LeastNatural
<1>6. n \in 0..Units - 1 /\ First(n)
  BY <1>3, <1>5
<1>7. NextUnit(t, seat) = (at + (CHOOSE k \in 0..Units - 1 : First(k))) % Units
  BY DEF NextUnit
<1> HIDE DEF First
<1>8. PICK k \in 0..Units - 1 : First(k) /\ NextUnit(t, seat) = (at + k) % Units
  BY <1>6, <1>7
<1> QED
  BY <1>8 DEF First

LEMMA NextUnitIsAlive ==
  ASSUME NEW t \in States, NEW seat \in Living(t)
  PROVE  /\ NextUnit(t, seat) \in 0..Units - 1
         /\ <<seat, NextUnit(t, seat)>> \in t.alive
<1>1. <<seat, NextUnit(t, seat)>> \in t.alive
  BY NextUnitIsFirst
<1>2. <<seat, NextUnit(t, seat)>> \in Worms
  BY <1>1 DEF States
<1> QED
  BY <1>1, <1>2 DEF Worms

-------------------------------------------------------------------------------
LEMMA FieldTypes ==
  ASSUME NEW t \in States
  PROVE  /\ \A p \in Phases : [t EXCEPT !.phase = p] \in States
         /\ \A k \in 0..MaxPhaseTick : [t EXCEPT !.phaseTick = k] \in States
         /\ \A k \in Nat : [t EXCEPT !.turn = k] \in States
         /\ \A w \in Worms : [t EXCEPT !.active = w] \in States
         /\ \A d \in SUBSET Worms : [t EXCEPT !.alive = d] \in States
         /\ \A g \in Weapons : [t EXCEPT !.weapon = g] \in States
         /\ \A k \in {0, 1} : [t EXCEPT !.shots = k] \in States
         /\ \A c \in 0..TurnTicks + 1 : [t EXCEPT !.charge = c] \in States
         /\ \A k \in Nat : [t EXCEPT !.water = k] \in States
         /\ \A q \in -1..Seats - 1 : [t EXCEPT !.winner = q] \in States
<1>1. \A p \in Phases : [t EXCEPT !.phase = p] \in States
  BY DEF States
<1>2. \A k \in 0..MaxPhaseTick : [t EXCEPT !.phaseTick = k] \in States
  BY DEF States
<1>3. \A k \in Nat : [t EXCEPT !.turn = k] \in States
  BY DEF States
<1>4. \A w \in Worms : [t EXCEPT !.active = w] \in States
  BY DEF States
<1>5. \A d \in SUBSET Worms : [t EXCEPT !.alive = d] \in States
  BY DEF States
<1>6. \A g \in Weapons : [t EXCEPT !.weapon = g] \in States
  BY DEF States
<1>7. \A k \in {0, 1} : [t EXCEPT !.shots = k] \in States
  BY DEF States
<1>8. \A c \in 0..TurnTicks + 1 : [t EXCEPT !.charge = c] \in States
  BY DEF States
<1>9. \A k \in Nat : [t EXCEPT !.water = k] \in States
  BY DEF States
<1>10. \A q \in -1..Seats - 1 : [t EXCEPT !.winner = q] \in States
  BY DEF States
<1> QED
  BY <1>1, <1>2, <1>3, <1>4, <1>5, <1>6, <1>7, <1>8, <1>9, <1>10

LEMMA PhaseTypes ==
  ASSUME NEW t \in States, NEW p \in Phases
  PROVE  [t EXCEPT !.phase = p, !.phaseTick = 0] \in States
<1> DEFINE a == [t EXCEPT !.phase = p]
<1>1. a \in States
  BY FieldTypes
<1> HIDE DEF a
<1>2. 0 \in 0..MaxPhaseTick
  BY SimAssumption
<1>3. [a EXCEPT !.phaseTick = 0] \in States
  BY <1>1, <1>2, FieldTypes
<1> QED
  BY <1>3 DEF a

LEMMA BeginType ==
  ASSUME NEW t \in States, NEW w \in Worms
  PROVE  Begin(t, w) \in States
<1> DEFINE p == IF ReadyTicks > 0 THEN "Ready" ELSE "Playing"
           a == [t EXCEPT !.active = w]
           b == [a EXCEPT !.phase = p, !.phaseTick = 0]
           c == [b EXCEPT !.shots = 0]
<1>1. a \in States
  BY FieldTypes
<1> HIDE DEF a
<1>2. b \in States
  BY <1>1, PhaseTypes DEF Phases
<1> HIDE DEF b
<1>3. c \in States
  BY <1>2, FieldTypes
<1> HIDE DEF c
<1>4. [c EXCEPT !.weapon = "Bazooka"] \in States
  BY <1>3, FieldTypes DEF Weapons
<1> QED
  BY <1>4 DEF Begin, a, b, c

LEMMA RetreatType ==
  ASSUME NEW t \in States
  PROVE  Retreat(t) \in States
<1> DEFINE a == [t EXCEPT !.phase = "Retreating", !.phaseTick = 0]
           k == IF t.weapon = "RemoteCharge" /\ t.charge > 0 THEN 1 ELSE t.charge
<1>1. a \in States
  BY PhaseTypes DEF Phases
<1> HIDE DEF a
<1>2. k \in 0..TurnTicks + 1
  BY SimAssumption DEF States
<1>3. [a EXCEPT !.charge = k] \in States
  BY <1>1, <1>2, FieldTypes
<1>4. [a EXCEPT !.charge = k] =
        [t EXCEPT !.phase = "Retreating", !.phaseTick = 0,
                  !.charge = IF t.weapon = "RemoteCharge" /\ @ > 0 THEN 1 ELSE @]
  BY DEF a, States
<1> QED
  BY <1>3, <1>4 DEF Retreat

LEMMA FireType ==
  ASSUME NEW t \in States
  PROVE  Fire(t) \in States
<1>1. RemainingTicks(t) + 1 \in 0..TurnTicks + 1
  BY SimAssumption DEF RemainingTicks, States
<1> DEFINE a == [t EXCEPT !.shots = 1]
<1>2. a \in States
  BY FieldTypes
<1> HIDE DEF a
<1>3. [a EXCEPT !.charge = RemainingTicks(t) + 1] \in States
  BY <1>1, <1>2, FieldTypes
<1> QED
  BY <1>2, <1>3, RetreatType DEF Fire, a

LEMMA ApplyType ==
  ASSUME NEW t \in States, NEW v \in Inputs
  PROVE  Apply(t, v) \in States
<1>1. ASSUME v \in Weapons PROVE [t EXCEPT !.weapon = v] \in States
  BY <1>1, FieldTypes
<1>2. [t EXCEPT !.alive = {w \in @ : SeatOf(w) # SeatOf(t.active)}] \in States
  <2>1. {w \in t.alive : SeatOf(w) # SeatOf(t.active)} \in SUBSET Worms
    BY DEF States
  <2> QED
    BY <2>1, FieldTypes
<1> QED
  BY <1>1, <1>2, FireType, RetreatType DEF Apply

LEMMA PhysicsType ==
  ASSUME NEW t \in States, NEW dead, NEW c \in Burnt(t.charge)
  PROVE  Physics(t, dead, c) \in States /\ Clock(t) \in States
<1>1. c \in 0..TurnTicks + 1
  BY SimAssumption DEF Burnt, States
<1> DEFINE d == IF Drowned(t) THEN {} ELSE t.alive \ dead
           a == [t EXCEPT !.alive = d]
           k == IF t.phaseTick < MaxPhaseTick THEN t.phaseTick + 1 ELSE t.phaseTick
<1>2. d \in SUBSET Worms /\ k \in 0..MaxPhaseTick
  BY SimAssumption DEF States
<1> HIDE DEF d, k
<1>3. a \in States
  BY <1>2, FieldTypes
<1> HIDE DEF a
<1>4. [a EXCEPT !.charge = c] \in States /\ [t EXCEPT !.phaseTick = k] \in States
  BY <1>1, <1>2, <1>3, FieldTypes
<1>5. [a EXCEPT !.charge = c] = Physics(t, dead, c)
  BY DEF a, d, Physics
<1>6. [t EXCEPT !.phaseTick = k] = Clock(t)
  BY DEF k, Clock
<1> QED
  BY <1>4, <1>5, <1>6

LEMMA NextTurnType ==
  ASSUME NEW t \in States
  PROVE  NextTurn(t) \in States
<1>1. CASE Cardinality(Living(t)) <= 1
  <2>1. t.alive # {} => (CHOOSE q \in Living(t) : TRUE) \in 0..Seats - 1
    BY DEF Living, States, Worms, SeatOf
  <2> DEFINE q == IF t.alive = {} THEN -1 ELSE CHOOSE q \in Living(t) : TRUE
             a == [t EXCEPT !.phase = "Ended"]
  <2>2. q \in -1..Seats - 1
    BY <2>1, SimAssumption
  <2>3. a \in States
    BY FieldTypes DEF Phases
  <2> HIDE DEF a, q
  <2>4. [a EXCEPT !.winner = q] \in States
    BY <2>2, <2>3, FieldTypes
  <2> QED
    BY <1>1, <2>4 DEF NextTurn, a, q
<1>2. CASE ~(Cardinality(Living(t)) <= 1)
  <2> DEFINE seat == NextSeat(t)
             unit == NextUnit(t, seat)
  <2>1. Living(t) # {}
    BY <1>2, FS_EmptySet
  <2>2. seat \in Living(t) /\ seat \in 0..Seats - 1
    BY <2>1, NextSeatIsLiving DEF Living, States, Worms, SeatOf
  <2>3. unit \in 0..Units - 1
    BY <2>2, NextUnitIsAlive
  <2>4. After(t, seat, unit) \in 0..Units - 1
    BY <2>3, SimAssumption, ModRange DEF After
  <2>5. Rise(t) \in Nat
    BY DEF Rise, States
  <2> DEFINE a == [t EXCEPT !.turn = @ + 1]
             b == [a EXCEPT !.water = Rise(t)]
  <2> HIDE DEF seat, unit
  <2>6. [t EXCEPT !.turn = @ + 1, !.water = Rise(t), !.next[seat] = After(t, seat, unit)]
          \in States
    <3>1. a \in States
      <4>1. t.turn + 1 \in Nat
        BY DEF States
      <4> QED
        BY <4>1, FieldTypes
    <3> HIDE DEF a
    <3>2. b \in States
      BY <2>5, <3>1, FieldTypes
    <3> HIDE DEF b
    <3>3. [b EXCEPT !.next[seat] = After(t, seat, unit)] \in States
      BY <2>2, <2>4, <3>2 DEF States
    <3> QED
      BY <3>3 DEF a, b
  <2>7. <<seat, unit>> \in Worms
    BY <2>2, <2>3 DEF Worms
  <2> QED
    BY <1>2, <2>6, <2>7, BeginType DEF NextTurn, seat, unit
<1> QED
  BY <1>1, <1>2

LEMMA TurnOverType ==
  ASSUME NEW t \in States, NEW moving \in BOOLEAN
  PROVE  TurnOver(t, moving) \in States
<1> DEFINE u == IF t.active \notin t.alive THEN Retreat(t) ELSE t
<1>1. u \in States
  BY RetreatType
<1>2. [u EXCEPT !.phase = "Resolving", !.phaseTick = 0] \in States
  BY <1>1, PhaseTypes DEF Phases
<1> QED
  BY <1>1, <1>2, RetreatType, NextTurnType DEF TurnOver

-------------------------------------------------------------------------------
(* What each part of a step does to the fields the invariants speak of     *)

LEMMA RetreatFields ==
  ASSUME NEW t \in States
  PROVE  /\ Retreat(t).phase = IF t.phase = "Playing" THEN "Retreating" ELSE t.phase
         /\ Retreat(t).phaseTick = IF t.phase = "Playing" THEN 0 ELSE t.phaseTick
         /\ Retreat(t).charge = IF t.phase = "Playing" /\ t.weapon = "RemoteCharge" /\ t.charge > 0
                                  THEN 1 ELSE t.charge
         /\ Retreat(t).weapon = t.weapon /\ Retreat(t).shots = t.shots
         /\ Retreat(t).turn = t.turn /\ Retreat(t).water = t.water
         /\ Retreat(t).alive = t.alive /\ Retreat(t).active = t.active
BY DEF Retreat, States

LEMMA PhysicsFields ==
  ASSUME NEW t \in States, NEW dead, NEW c \in Burnt(t.charge)
  PROVE  LET p == Clock(Physics(t, dead, c)) IN
         /\ p \in States
         /\ p.phase = t.phase /\ p.charge = c
         /\ p.phaseTick = IF t.phaseTick < MaxPhaseTick THEN t.phaseTick + 1 ELSE t.phaseTick
         /\ p.weapon = t.weapon /\ p.shots = t.shots
         /\ p.turn = t.turn /\ p.water = t.water
         /\ Drowned(p) => p.alive = {}
<1> DEFINE q == Physics(t, dead, c)
<1>1. q \in States
  BY PhysicsType
<1>2. /\ q.phase = t.phase /\ q.charge = c /\ q.phaseTick = t.phaseTick
      /\ q.weapon = t.weapon /\ q.shots = t.shots
      /\ q.turn = t.turn /\ q.water = t.water
      /\ q.alive = IF Drowned(t) THEN {} ELSE t.alive \ dead
  BY DEF Physics, States
<1> HIDE DEF q
<1>3. PICK d \in Burnt(q.charge) : TRUE
  BY DEF Burnt
<1>4. Clock(q) \in States
  BY <1>1, <1>3, PhysicsType
<1>5. /\ Clock(q).phase = q.phase /\ Clock(q).charge = q.charge
      /\ Clock(q).phaseTick = IF q.phaseTick < MaxPhaseTick THEN q.phaseTick + 1 ELSE q.phaseTick
      /\ Clock(q).weapon = q.weapon /\ Clock(q).shots = q.shots
      /\ Clock(q).turn = q.turn /\ Clock(q).water = q.water /\ Clock(q).alive = q.alive
  BY <1>1 DEF Clock, States
<1> QED
  BY <1>2, <1>4, <1>5 DEF Drowned, q

LEMMA NextTurnFields ==
  ASSUME NEW t \in States
  PROVE  LET n == NextTurn(t) IN
         \/ /\ n.phase = "Ended" /\ n.phaseTick = t.phaseTick
            /\ n.weapon = t.weapon /\ n.shots = t.shots /\ n.charge = t.charge
            /\ n.turn = t.turn /\ n.water = t.water
         \/ /\ t.alive # {}
            /\ n.phase \in {"Ready", "Playing"} /\ n.phaseTick = 0
            /\ n.shots = 0 /\ n.charge = t.charge
            /\ n.turn = t.turn + 1 /\ n.water = Rise(t)
<1>1. CASE Cardinality(Living(t)) <= 1
  BY <1>1 DEF NextTurn, States
<1>2. CASE ~(Cardinality(Living(t)) <= 1)
  <2>1. t.alive # {}
    <3>1. Living(t) # {}
      BY <1>2, FS_EmptySet
    <3> QED
      BY <3>1 DEF Living
  <2> DEFINE seat == NextSeat(t)
             unit == NextUnit(t, seat)
             a == [t EXCEPT !.turn = @ + 1, !.water = Rise(t),
                            !.next[seat] = After(t, seat, unit)]
  <2>2. /\ a.turn = t.turn + 1 /\ a.water = Rise(t) /\ a.charge = t.charge
        /\ DOMAIN a = DOMAIN t
    BY DEF States
  <2>3. NextTurn(t) = Begin(a, <<seat, unit>>)
    BY <1>2 DEF NextTurn
  <2> HIDE DEF a
  <2>4. LET n == Begin(a, <<seat, unit>>) IN
        /\ n.phase \in {"Ready", "Playing"} /\ n.phaseTick = 0
        /\ n.shots = 0 /\ n.charge = a.charge
        /\ n.turn = a.turn /\ n.water = a.water
    BY <2>2 DEF Begin, States
  <2> QED
    BY <2>1, <2>2, <2>3, <2>4
<1> QED
  BY <1>1, <1>2

LEMMA FireFields ==
  ASSUME NEW t \in States, t.phase = "Playing"
  PROVE  /\ Fire(t).turn = t.turn /\ Fire(t).water = t.water /\ Fire(t).weapon = t.weapon
         /\ \/ Fire(t) = Retreat(t)
            \/ Fire(t) = t /\ ~Fires(t)
            \/ /\ t.weapon \in {"RemoteCharge", "Shotgun"} /\ t.shots = 0
               /\ Fire(t).shots = 1 /\ Fire(t).phase = "Playing"
               /\ Fire(t).phaseTick = t.phaseTick
               /\ Fire(t).charge = IF t.weapon = "RemoteCharge" THEN RemainingTicks(t) + 1
                                    ELSE t.charge
<1>1. CASE t.weapon = "RemoteCharge" /\ t.shots > 0
  BY <1>1, RetreatFields DEF Fire
<1>2. CASE ~(t.weapon = "RemoteCharge" /\ t.shots > 0) /\ ~Fires(t)
  BY <1>2 DEF Fire
<1>3. CASE t.weapon = "RemoteCharge" /\ Fires(t)
  <2>1. t.shots = 0
    BY <1>3 DEF Fires, States
  <2>2. Fire(t) = [t EXCEPT !.shots = 1, !.charge = RemainingTicks(t) + 1]
    BY <1>3, <2>1 DEF Fire
  <2> QED
    BY <1>3, <2>1, <2>2 DEF States
<1>4. CASE t.weapon = "Shotgun" /\ t.shots = 0
  <2>1. Fire(t) = [t EXCEPT !.shots = 1]
    BY <1>4 DEF Fire, Fires
  <2> QED
    BY <1>4, <2>1 DEF States
<1>5. CASE /\ t.weapon # "RemoteCharge" /\ Fires(t)
           /\ ~(t.weapon = "Shotgun" /\ t.shots = 0)
  <2>1. Fire(t) = Retreat(t)
    BY <1>5 DEF Fire
  <2> QED
    BY <2>1, RetreatFields
<1> QED
  BY <1>1, <1>2, <1>3, <1>4, <1>5 DEF Fires

-------------------------------------------------------------------------------
(* The inductive invariant, of a state t and the uses u of its turn        *)

ChargeInv(t) ==
  t.charge > 0 =>
    \/ /\ t.phase = "Playing" /\ t.weapon = "RemoteCharge" /\ t.shots = 1
       /\ t.charge <= TurnTicks - t.phaseTick + 1
    \/ t.phase \in {"Retreating", "Resolving"} /\ t.charge = 1 /\ t.phaseTick = 0

UseInv(t, u) ==
  /\ u \in Nat
  /\ u <= IF t.weapon = "Shotgun" THEN 2 ELSE 1
  /\ t.phase = "Ready" => u = 0
  /\ t.phase = "Playing" =>
       u = t.shots /\ (t.shots > 0 => t.weapon \in {"Shotgun", "RemoteCharge"})

WaterInv(t) ==
  /\ t.water = IF t.turn >= SuddenDeathTurn THEN t.turn - SuddenDeathTurn + 1 ELSE 0
  /\ t.turn < SuddenDeathTurn + Rises

ClockInv(t) ==
  /\ t.phase = "Playing" => t.phaseTick < TurnTicks
  /\ t.phase = "Ready" => t.shots = 0

SimInv ==
  TypeOK /\ ChargeInv(s) /\ UseInv(s, uses) /\ WaterInv(s) /\ ClockInv(s)

(* One input, in a turn that has begun. *)
LEMMA ApplyKeeps ==
  ASSUME NEW t \in States, NEW u \in Nat, NEW v \in Inputs,
         ChargeInv(t), UseInv(t, u), ClockInv(t), t.phase # "Ready"
  PROVE  LET a == Apply(t, v) IN
         /\ a \in States /\ a.turn = t.turn /\ a.water = t.water
         /\ ChargeInv(a) /\ UseInv(a, u + Uses(t, v)) /\ ClockInv(a) /\ a.phase # "Ready"
<1> DEFINE a == Apply(t, v)
<1>1. a \in States
  BY ApplyType
<1>2. CASE a = t /\ Uses(t, v) = 0
  BY <1>1, <1>2
<1>3. ASSUME NEW r \in States, a = Retreat(r), Uses(t, v) \in {0, 1},
             Uses(t, v) = 1 => \/ t.weapon = "Shotgun"
                               \/ t.phase = "Playing" /\ t.weapon \in {"Bazooka", "Teleport"},
             r.phase = t.phase, r.phaseTick = t.phaseTick, r.charge = t.charge,
             r.weapon = t.weapon, r.shots = t.shots, r.turn = t.turn, r.water = t.water,
             Uses(t, v) = 1 => t.phase = "Playing"
      PROVE  /\ a.turn = t.turn /\ a.water = t.water
             /\ ChargeInv(a) /\ UseInv(a, u + Uses(t, v)) /\ ClockInv(a) /\ a.phase # "Ready"
  <2>1. /\ a.phase = IF t.phase = "Playing" THEN "Retreating" ELSE t.phase
        /\ a.phaseTick = IF t.phase = "Playing" THEN 0 ELSE t.phaseTick
        /\ a.charge = IF t.phase = "Playing" /\ t.weapon = "RemoteCharge" /\ t.charge > 0
                         THEN 1 ELSE t.charge
        /\ a.weapon = t.weapon /\ a.shots = t.shots /\ a.turn = t.turn /\ a.water = t.water
    BY <1>3, RetreatFields
  <2>2. t.shots \in {0, 1} /\ t.charge \in Nat
    BY DEF States
  <2>3. ChargeInv(a)
    BY <2>1, <2>2 DEF ChargeInv
  <2>4. UseInv(a, u + Uses(t, v))
    BY <1>3, <2>1, <2>2 DEF UseInv
  <2>5. ClockInv(a) /\ a.phase # "Ready"
    BY <2>1 DEF ClockInv
  <2> QED
    BY <2>1, <2>3, <2>4, <2>5
<1>4. CASE Deaf(t)
  BY <1>2, <1>4 DEF Apply, Uses
<1>5. CASE ~Deaf(t) /\ v \in Weapons
  <2>1. Uses(t, v) = 0
    BY <1>5 DEF Uses, Teleports, Weapons
  <2>2. CASE t.phase = "Playing" /\ t.shots = 0
    <3>1. a = [t EXCEPT !.weapon = v]
      BY <1>5, <2>2 DEF Apply, Teleports, Weapons
    <3>2. /\ a.phase = t.phase /\ a.phaseTick = t.phaseTick /\ a.charge = t.charge
          /\ a.weapon = v /\ a.shots = 0 /\ a.turn = t.turn /\ a.water = t.water
      BY <2>2, <3>1 DEF States
    <3>3. t.charge \in Nat /\ t.charge = 0
      BY <2>2 DEF ChargeInv, States
    <3>4. ChargeInv(a) /\ UseInv(a, u) /\ ClockInv(a)
      BY <2>2, <3>2, <3>3 DEF ChargeInv, UseInv, ClockInv
    <3> QED
      BY <1>1, <2>1, <2>2, <3>2, <3>4
  <2>3. CASE ~(t.phase = "Playing" /\ t.shots = 0)
    <3>1. a = t
      BY <1>5, <2>3 DEF Apply, Teleports, Weapons
    <3> QED
      BY <1>2, <2>1, <3>1
  <2> QED
    BY <2>2, <2>3
<1>6. CASE ~Deaf(t) /\ v = "Fire" /\ t.phase = "Playing"
  <2>1. a = Fire(t) /\ Uses(t, v) = IF Fires(t) THEN 1 ELSE 0
    BY <1>6 DEF Apply, Uses, Teleports, Weapons
  <2>2. CASE Fire(t) = t /\ ~Fires(t)
    BY <1>2, <2>1, <2>2
  <2>3. CASE Fire(t) = Retreat(t)
    <3>1. Fires(t) => t.weapon \in {"Shotgun", "Bazooka"}
      <4>1. Fires(t) /\ t.weapon = "RemoteCharge" => Fire(t).shots = 1 /\ t.shots = 0
        BY <1>6, RetreatFields DEF Fire, Fires, States
      <4>2. Retreat(t).shots = t.shots
        BY RetreatFields
      <4> QED
        BY <2>3, <4>1, <4>2 DEF Fires
    <3> QED
      BY <1>1, <1>3, <1>6, <2>1, <2>3, <3>1
  <2>4. CASE /\ t.weapon \in {"RemoteCharge", "Shotgun"} /\ t.shots = 0
             /\ a.shots = 1 /\ a.phase = "Playing" /\ a.phaseTick = t.phaseTick
             /\ a.charge = IF t.weapon = "RemoteCharge" THEN RemainingTicks(t) + 1
                            ELSE t.charge
    <3>1. Uses(t, v) = 1
      BY <1>6, <2>1, <2>4 DEF Fires
    <3>2. a.turn = t.turn /\ a.water = t.water /\ a.weapon = t.weapon
      BY <1>6, <2>1, FireFields
    <3>3. t.charge = 0 /\ u = 0
      BY <1>6, <2>4 DEF ChargeInv, UseInv, States
    <3>4. RemainingTicks(t) = TurnTicks - t.phaseTick
      BY <1>6, SimAssumption DEF RemainingTicks, ClockInv, States
    <3>5. ChargeInv(a)
      BY <2>4, <3>2, <3>3, <3>4, SimAssumption DEF ChargeInv, States
    <3>6. UseInv(a, u + 1) /\ ClockInv(a)
      BY <1>6, <2>4, <3>2, <3>3 DEF UseInv, ClockInv
    <3> QED
      BY <1>1, <2>4, <3>1, <3>2, <3>5, <3>6
  <2> QED
    BY <1>6, <2>1, <2>2, <2>3, <2>4, FireFields
<1>7. CASE ~Deaf(t) /\ (Teleports(t, v) \/ v = "Skip")
  <2>1. a = Retreat(t)
    BY <1>7 DEF Apply, Teleports, Weapons
  <2>2. Uses(t, v) = IF Teleports(t, v) THEN 1 ELSE 0
    BY <1>7 DEF Uses, Teleports
  <2>3. Teleports(t, v) => t.phase = "Playing" /\ t.weapon = "Teleport"
    BY DEF Teleports
  <2> QED
    BY <1>1, <1>3, <2>1, <2>2, <2>3
<1>8. CASE ~Deaf(t) /\ v = "Surrender"
  <2> DEFINE r == [t EXCEPT !.alive = {w \in @ : SeatOf(w) # SeatOf(t.active)}]
  <2>1. a = Retreat(r)
    BY <1>8 DEF Apply, Teleports, Weapons
  <2>2. Uses(t, v) = 0
    BY <1>8 DEF Uses, Teleports
  <2>3. r \in States
    <3>1. {w \in t.alive : SeatOf(w) # SeatOf(t.active)} \in SUBSET Worms
      BY DEF States
    <3> QED
      BY <3>1, FieldTypes
  <2>4. /\ r.phase = t.phase /\ r.phaseTick = t.phaseTick /\ r.charge = t.charge
        /\ r.weapon = t.weapon /\ r.shots = t.shots /\ r.turn = t.turn /\ r.water = t.water
    BY DEF States
  <2> HIDE DEF r
  <2> QED
    BY <1>1, <1>3, <2>1, <2>2, <2>3, <2>4
<1>9. CASE /\ ~Deaf(t) /\ v \notin Weapons /\ ~(v = "Fire" /\ t.phase = "Playing")
           /\ ~Teleports(t, v) /\ v \notin {"Skip", "Surrender"}
  <2>1. a = t /\ Uses(t, v) = 0
    BY <1>9 DEF Apply, Uses, Fires
  <2> QED
    BY <1>2, <2>1
<1> QED
  BY <1>4, <1>5, <1>6, <1>7, <1>8, <1>9

(* The end of a step: p has seen the physics and the clock, but its turn   *)
(* may be over.                                                            *)
LEMMA TurnOverKeeps ==
  ASSUME NEW p \in States, NEW u \in Nat, NEW moving \in BOOLEAN,
         ChargeInv(p), UseInv(p, u), WaterInv(p), p.phase # "Ready",
         p.charge > 0 => p.phase = "Playing",
         p.phase = "Playing" => p.phaseTick <= TurnTicks,
         Drowned(p) => p.alive = {}
  PROVE  LET n == TurnOver(p, moving) IN
         /\ n \in States /\ WaterInv(n) /\ ClockInv(n) /\ ChargeInv(n)
         /\ n.turn \in {p.turn, p.turn + 1}
         /\ UseInv(n, IF n.turn # p.turn THEN 0 ELSE u)
<1> DEFINE r == IF p.active \notin p.alive THEN Retreat(p) ELSE p
           n == TurnOver(p, moving)
<1> SUFFICES /\ n \in States /\ WaterInv(n) /\ ClockInv(n) /\ ChargeInv(n)
             /\ n.turn \in {p.turn, p.turn + 1}
             /\ UseInv(n, IF n.turn # p.turn THEN 0 ELSE u)
  OBVIOUS
<1>0. n \in States
  BY TurnOverType
<1>1. /\ r \in States /\ r.weapon = p.weapon /\ r.turn = p.turn /\ r.water = p.water
      /\ r.alive = p.alive /\ r.phase # "Ready"
  BY RetreatFields, RetreatType
<1>2. ChargeInv(r) /\ UseInv(r, u) /\ WaterInv(r)
  <2>1. CASE r = p
    BY <2>1
  <2>2. CASE r = Retreat(p)
    <3>1. p.charge \in Nat
      BY DEF States
    <3>2. ChargeInv(r)
      BY <2>2, <3>1, RetreatFields DEF ChargeInv
    <3>3. UseInv(r, u)
      BY <2>2, RetreatFields DEF UseInv
    <3>4. WaterInv(r)
      BY <1>1 DEF WaterInv
    <3> QED
      BY <3>2, <3>3, <3>4
  <2> QED
    BY <2>1, <2>2
<1>3. r.phase = "Playing" => r = p
  BY RetreatFields
<1>4. /\ r.charge > 0 => r.phase \in {"Playing", "Retreating"}
      /\ r.charge \in Nat
  BY <1>1, RetreatFields DEF States
<1>5. n = CASE r.phase = "Playing" /\ r.phaseTick >= TurnTicks -> Retreat(r)
            [] r.phase = "Retreating" /\ r.phaseTick >= RetreatTicks ->
                 [r EXCEPT !.phase = "Resolving", !.phaseTick = 0]
            [] r.phase = "Resolving" /\ ~moving /\ r.charge = 0 -> NextTurn(r)
            [] OTHER -> r
  BY DEF TurnOver
<1> HIDE DEF r, n
<1>6. CASE r.phase = "Playing" /\ r.phaseTick >= TurnTicks
  <2>1. n = Retreat(r)
    BY <1>5, <1>6
  <2>2. /\ n.phase = "Retreating" /\ n.phaseTick = 0 /\ n.weapon = r.weapon
        /\ n.charge = IF r.weapon = "RemoteCharge" /\ r.charge > 0 THEN 1 ELSE r.charge
        /\ n.turn = r.turn /\ n.water = r.water
    BY <1>1, <1>6, <2>1, RetreatFields
  <2>3. ChargeInv(n)
    BY <1>2, <1>4, <1>6, <2>2 DEF ChargeInv
  <2>4. UseInv(n, u) /\ WaterInv(n) /\ ClockInv(n)
    BY <1>2, <2>2 DEF UseInv, WaterInv, ClockInv
  <2> QED
    BY <1>0, <1>1, <2>2, <2>3, <2>4
<1>7. CASE r.phase = "Retreating" /\ r.phaseTick >= RetreatTicks
  <2>1. n = [r EXCEPT !.phase = "Resolving", !.phaseTick = 0]
    BY <1>5, <1>7
  <2>2. /\ n.phase = "Resolving" /\ n.phaseTick = 0 /\ n.weapon = r.weapon
        /\ n.charge = r.charge /\ n.turn = r.turn /\ n.water = r.water
    BY <1>1, <2>1 DEF States
  <2>3. ChargeInv(n)
    BY <1>2, <1>7, <2>2 DEF ChargeInv
  <2>4. UseInv(n, u) /\ WaterInv(n) /\ ClockInv(n)
    BY <1>2, <2>2 DEF UseInv, WaterInv, ClockInv
  <2> QED
    BY <1>0, <1>1, <2>2, <2>3, <2>4
<1>8. CASE r.phase = "Resolving" /\ ~moving /\ r.charge = 0
  <2>1. n = NextTurn(r)
    BY <1>5, <1>8
  <2>2. CASE /\ n.phase = "Ended" /\ n.weapon = r.weapon /\ n.charge = r.charge
             /\ n.turn = r.turn /\ n.water = r.water
    <3>1. ChargeInv(n) /\ UseInv(n, u) /\ WaterInv(n) /\ ClockInv(n)
      BY <1>2, <1>8, <2>2 DEF ChargeInv, UseInv, WaterInv, ClockInv
    <3> QED
      BY <1>0, <1>1, <2>2, <3>1
  <2>3. CASE /\ r.alive # {}
             /\ n.phase \in {"Ready", "Playing"} /\ n.phaseTick = 0
             /\ n.shots = 0 /\ n.charge = r.charge
             /\ n.turn = r.turn + 1 /\ n.water = Rise(r)
    <3>1. r.water < Rises
      <4>1. p.water \in Nat /\ p.alive # {}
        BY <1>1, <2>3 DEF States
      <4>2. ~(p.water >= Rises)
        BY <4>1 DEF Drowned
      <4> QED
        BY <1>1, <4>1, <4>2, SimAssumption
    <3>2. r.turn \in Nat /\ n.turn # r.turn
      BY <1>1, <2>3 DEF States
    <3>3. WaterInv(n)
      BY <1>2, <2>3, <3>1, <3>2, SimAssumption DEF WaterInv, Rise
    <3>4. ChargeInv(n) /\ UseInv(n, 0) /\ ClockInv(n)
      BY <1>8, <2>3, SimAssumption DEF ChargeInv, UseInv, ClockInv
    <3> QED
      BY <1>0, <1>1, <2>3, <3>2, <3>3, <3>4
  <2> QED
    BY <1>1, <2>1, <2>2, <2>3, NextTurnFields
<1>9. CASE /\ ~(r.phase = "Playing" /\ r.phaseTick >= TurnTicks)
           /\ ~(r.phase = "Retreating" /\ r.phaseTick >= RetreatTicks)
           /\ ~(r.phase = "Resolving" /\ ~moving /\ r.charge = 0)
  <2>1. n = r
    BY <1>5, <1>9
  <2>2. ClockInv(r)
    BY <1>1, <1>9, SimAssumption DEF ClockInv, States
  <2> QED
    BY <1>0, <1>1, <1>2, <2>1, <2>2
<1> QED
  BY <1>6, <1>7, <1>8, <1>9

-------------------------------------------------------------------------------
LEMMA SimStart == Init => SimInv
<1> SUFFICES ASSUME Init PROVE SimInv
  OBVIOUS
<1> DEFINE first == [phase |-> "Ready", phaseTick |-> 0, turn |-> 0, active |-> <<0, 0>>,
                next |-> [q \in 0..Seats - 1 |-> IF q = 0 THEN 1 % Units ELSE 0],
                alive |-> Worms, weapon |-> "Bazooka", shots |-> 0,
                charge |-> 0, water |-> 0, winner |-> -1]
<1>1. <<0, 0>> \in Worms
  BY SimAssumption DEF Worms
<1>2. 1 % Units \in 0..Units - 1
  BY SimAssumption, ModRange
<1>3. first \in States
  BY <1>1, <1>2, SimAssumption DEF States, Phases, Weapons
<1>4. s = Begin(first, <<0, 0>>) /\ order = <<<<0, 0>>>> /\ uses = 0
  BY DEF Init
<1>5. s \in States
  BY <1>1, <1>3, <1>4, BeginType
<1>6. /\ s.phase \in {"Ready", "Playing"} /\ s.phaseTick = 0 /\ s.shots = 0
      /\ s.charge = 0 /\ s.turn = 0 /\ s.water = 0
  BY <1>4 DEF Begin
<1>7. TypeOK
  BY <1>1, <1>4, <1>5 DEF TypeOK
<1>8. ChargeInv(s) /\ UseInv(s, uses) /\ WaterInv(s) /\ ClockInv(s)
  BY <1>4, <1>6, SimAssumption DEF ChargeInv, UseInv, WaterInv, ClockInv
<1> QED
  BY <1>7, <1>8 DEF SimInv

LEMMA WaitKeeps == SimInv /\ Wait => SimInv'
<1> SUFFICES ASSUME SimInv, Wait PROVE SimInv'
  OBVIOUS
<1>1. s \in States /\ s.phase = "Ready" /\ order' = order /\ uses' = uses
  BY DEF SimInv, TypeOK, Wait
<1>2. CASE s.phaseTick + 1 >= ReadyTicks
  <2>1. s' = [s EXCEPT !.phase = "Playing", !.phaseTick = 0]
    BY <1>2 DEF Wait
  <2>2. s' \in States
    BY <1>1, <2>1, PhaseTypes DEF Phases
  <2>3. /\ s'.phase = "Playing" /\ s'.phaseTick = 0 /\ s'.shots = s.shots
        /\ s'.weapon = s.weapon /\ s'.charge = s.charge
        /\ s'.turn = s.turn /\ s'.water = s.water
    BY <1>1, <2>1 DEF States
  <2>4. ChargeInv(s') /\ UseInv(s', uses') /\ WaterInv(s') /\ ClockInv(s')
    BY <1>1, <2>3, SimAssumption DEF SimInv, ChargeInv, UseInv, WaterInv, ClockInv
  <2> QED
    BY <1>1, <2>2, <2>4 DEF SimInv, TypeOK, ChargeInv, UseInv, WaterInv, ClockInv
<1>3. CASE ~(s.phaseTick + 1 >= ReadyTicks)
  <2>1. s' = Clock(s)
    BY <1>3 DEF Wait
  <2>2. s' \in States
    <3>1. PICK c \in Burnt(s.charge) : TRUE
      BY DEF Burnt
    <3> QED
      BY <1>1, <2>1, <3>1, PhysicsType
  <2>3. /\ s'.phase = "Ready" /\ s'.shots = s.shots
        /\ s'.weapon = s.weapon /\ s'.charge = s.charge
        /\ s'.turn = s.turn /\ s'.water = s.water
    BY <1>1, <2>1 DEF Clock, States
  <2>4. ChargeInv(s') /\ UseInv(s', uses') /\ WaterInv(s') /\ ClockInv(s')
    BY <1>1, <2>3, SimAssumption DEF SimInv, ChargeInv, UseInv, WaterInv, ClockInv
  <2> QED
    BY <1>1, <2>2, <2>4 DEF SimInv, TypeOK, ChargeInv, UseInv, WaterInv, ClockInv
<1> QED
  BY <1>2, <1>3

LEMMA WokenKeeps ==
  ASSUME SimInv
  PROVE  /\ Woken \in States /\ Woken.turn = s.turn /\ Woken.water = s.water
         /\ ChargeInv(Woken) /\ UseInv(Woken, uses) /\ WaterInv(Woken) /\ ClockInv(Woken)
         /\ Woken.phase # "Ready"
<1>1. s \in States
  BY DEF SimInv, TypeOK
<1>2. CASE s.phase # "Ready"
  BY <1>1, <1>2 DEF Woken, SimInv
<1>3. CASE s.phase = "Ready"
  <2>1. Woken = [s EXCEPT !.phase = "Playing", !.phaseTick = 0]
    BY <1>3 DEF Woken
  <2>2. Woken \in States
    BY <1>1, <2>1, PhaseTypes DEF Phases
  <2>3. /\ Woken.phase = "Playing" /\ Woken.phaseTick = 0 /\ Woken.shots = s.shots
        /\ Woken.weapon = s.weapon /\ Woken.charge = s.charge
        /\ Woken.turn = s.turn /\ Woken.water = s.water
    BY <1>1, <2>1 DEF States
  <2>4. ChargeInv(Woken) /\ UseInv(Woken, uses) /\ WaterInv(Woken) /\ ClockInv(Woken)
    BY <1>1, <1>3, <2>3, SimAssumption DEF SimInv, ChargeInv, UseInv, WaterInv, ClockInv
  <2> QED
    BY <2>2, <2>3, <2>4
<1> QED
  BY <1>2, <1>3

LEMMA TickKeeps ==
  ASSUME SimInv, NEW script \in Scripts, NEW dead \in SUBSET s.alive, NEW moving \in BOOLEAN,
         Tick(script, dead, moving)
  PROVE  SimInv'
<1> DEFINE one == Apply(Woken, script[1])
           two == Apply(one, script[2])
           u1  == uses + Uses(Woken, script[1])
           u2  == u1 + Uses(one, script[2])
<1>1. script[1] \in Inputs /\ script[2] \in Inputs
  BY SimAssumption
<1>2. uses \in Nat /\ u1 \in Nat /\ u2 \in Nat
  BY DEF SimInv, TypeOK, Uses
<1>3. /\ one \in States /\ one.turn = s.turn /\ one.water = s.water
      /\ ChargeInv(one) /\ UseInv(one, u1) /\ ClockInv(one) /\ one.phase # "Ready"
  BY <1>1, <1>2, WokenKeeps, ApplyKeeps
<1> HIDE DEF u1
<1>4. /\ two \in States /\ two.turn = s.turn /\ two.water = s.water
      /\ ChargeInv(two) /\ UseInv(two, u2) /\ ClockInv(two) /\ two.phase # "Ready"
  <2> HIDE DEF one
  <2> QED
    BY <1>1, <1>2, <1>3, ApplyKeeps
<1>5. PICK c \in Burnt(two.charge) :
        s' = TurnOver(Clock(Physics(two, dead, c)), moving)
  BY DEF Tick
<1>6. /\ order' = IF s'.turn = s.turn THEN order ELSE Append(order, s'.active)
      /\ uses' = IF s'.turn # s.turn THEN 0 ELSE u2
  BY DEF Tick, u1
<1> HIDE DEF one, two, u2
<1> DEFINE p == Clock(Physics(two, dead, c))
<1>7. /\ p \in States
      /\ p.phase = two.phase /\ p.charge = c
      /\ p.phaseTick = IF two.phaseTick < MaxPhaseTick THEN two.phaseTick + 1 ELSE two.phaseTick
      /\ p.weapon = two.weapon /\ p.shots = two.shots
      /\ p.turn = s.turn /\ p.water = s.water
      /\ Drowned(p) => p.alive = {}
  BY <1>4, <1>5, PhysicsFields
<1> HIDE DEF p
<1>8. two.phaseTick \in Nat /\ two.charge \in Nat /\ c \in Nat
  BY <1>4, <1>5 DEF States, Burnt
<1>9. p.phase = "Playing" => p.phaseTick <= TurnTicks /\ p.phaseTick = two.phaseTick + 1
  BY <1>4, <1>7, <1>8, SimAssumption DEF ClockInv
<1>10. p.charge > 0 => p.phase = "Playing"
  BY <1>4, <1>5, <1>7, <1>8 DEF Burnt, ChargeInv
<1>11. ChargeInv(p)
  <2> SUFFICES ASSUME p.charge > 0 PROVE ChargeInv(p)
    BY DEF ChargeInv
  <2>1. two.charge > 1 /\ c \in {1, two.charge - 1}
    BY <1>5, <1>7, <1>8 DEF Burnt
  <2>2. /\ two.phase = "Playing" /\ two.weapon = "RemoteCharge" /\ two.shots = 1
        /\ two.charge <= TurnTicks - two.phaseTick + 1
    BY <1>4, <1>8, <2>1 DEF ChargeInv
  <2>3. p.charge <= TurnTicks - p.phaseTick + 1
    BY <1>7, <1>8, <1>9, <2>1, <2>2, SimAssumption
  <2> QED
    BY <1>7, <2>2, <2>3 DEF ChargeInv
<1>12. UseInv(p, u2) /\ WaterInv(p) /\ p.phase # "Ready"
  BY <1>4, <1>7 DEF SimInv, UseInv, WaterInv
<1>13. /\ s' \in States /\ WaterInv(s') /\ ClockInv(s') /\ ChargeInv(s')
       /\ UseInv(s', IF s'.turn # s.turn THEN 0 ELSE u2)
  <2>1. s' = TurnOver(p, moving)
    BY <1>5 DEF p
  <2> QED
    BY <1>2, <1>7, <1>9, <1>10, <1>11, <1>12, <2>1, TurnOverKeeps
<1>14. TypeOK'
  <2>1. s'.active \in Worms
    BY <1>13 DEF States
  <2>2. order' \in Seq(Worms)
    BY <1>6, <2>1 DEF SimInv, TypeOK
  <2> QED
    BY <1>2, <1>6, <1>13, <2>2 DEF TypeOK
<1> QED
  BY <1>6, <1>13, <1>14 DEF SimInv, ChargeInv, UseInv, WaterInv, ClockInv

LEMMA SimStep == SimInv /\ [Next]_vars => SimInv'
<1> SUFFICES ASSUME SimInv, [Next]_vars PROVE SimInv'
  OBVIOUS
<1>1. CASE Wait
  BY <1>1, WaitKeeps
<1>2. ASSUME NEW moving \in {FALSE, s.phase = "Resolving"}, AnyTick(moving) PROVE SimInv'
  BY <1>2, TickKeeps DEF AnyTick
<1>3. CASE UNCHANGED vars
  BY <1>3 DEF vars, SimInv, TypeOK, ChargeInv, UseInv, WaterInv, ClockInv
<1> QED
  BY <1>1, <1>2, <1>3 DEF Next

LEMMA SimAlways == Spec => []SimInv
BY SimStart, SimStep, PTL DEF Spec

-------------------------------------------------------------------------------
(* Every state of a match is of the simulation's types: the seat and unit  *)
(* pointers of nextTurn stay in range however many have died.              *)
THEOREM TypeCorrect == Spec => []TypeOK
<1>1. SimInv => TypeOK
  BY DEF SimInv
<1> QED
  BY <1>1, SimAlways, PTL

(* A remote charge never outlives the turn that placed it by more than the *)
(* tick in which it goes off.                                              *)
THEOREM ChargeEnds == Spec => []ChargeEndsWithTurn
<1>1. SimInv => ChargeEndsWithTurn
  BY DEF SimInv, ChargeInv, ChargeEndsWithTurn
<1> QED
  BY <1>1, SimAlways, PTL

(* No order of selecting, firing, teleporting and skipping gives a turn a  *)
(* second attack.                                                          *)
THEOREM OneAttack == Spec => []OneAttackPerTurn
<1>1. SimInv => OneAttackPerTurn
  BY DEF SimInv, UseInv, OneAttackPerTurn
<1> QED
  BY <1>1, SimAlways, PTL

(* Sudden death bounds the turns of a match by when it begins and by how   *)
(* often the water has to rise, whatever the players do.                   *)
THEOREM TurnsBounded == Spec => []TurnsAreBounded
<1>1. SimInv => TurnsAreBounded
  BY DEF SimInv, WaterInv, TurnsAreBounded
<1> QED
  BY <1>1, SimAlways, PTL

-------------------------------------------------------------------------------
(* The order of turns                                                      *)

(* How far it is from one place of a round table to another. *)
Gap(n, from, to) == IF to >= from THEN to - from ELSE to - from + n

(* Whoever walks from a to the first place of T after it does not pass q,   *)
(* which is in T and lay ahead, nor the place p that lies behind.          *)
LEMMA RoundTheTable ==
  ASSUME NEW N \in Nat \ {0}, NEW p \in 0..N - 1, NEW a \in 0..N - 1, NEW q \in 0..N - 1,
         NEW n \in 1..N, NEW T, \A m \in 1..n - 1 : (a + m) % N \notin T, q \in T,
         Gap(N, p, a) < Gap(N, p, q)
  PROVE  /\ (a + n) % N # p
         /\ (a + n) % N = q \/ Gap(N, p, (a + n) % N) < Gap(N, p, q)
<1> DEFINE d == Gap(N, p, q) - Gap(N, p, a)
           b == (a + n) % N
<1>1. d \in 1..N - 1
  BY DEF Gap
<1>2. (a + d) % N = q
  <2>1. a + d = q \/ a + d = q + N
    BY DEF Gap
  <2> QED
    BY <2>1, ModSmall
<1>3. n <= d
  BY <1>1, <1>2
<1>4. b = IF a + n < N THEN a + n ELSE a + n - N
  <2>1. CASE a + n < N
    <3>1. a + n \in 0..N - 1
      BY <2>1
    <3> QED
      BY <2>1, <3>1, ModSmall
  <2>2. CASE a + n >= N
    <3>1. a + n - N \in 0..N - 1 /\ (a + n - N) + N = a + n
      BY <2>2
    <3>2. ((a + n - N) + N) % N = a + n - N
      BY <3>1, ModSmall
    <3> QED
      BY <2>2, <3>1, <3>2
  <2> QED
    BY <2>1, <2>2
<1>5. b \in 0..N - 1
  BY <1>4
<1> HIDE DEF b
<1>6. Gap(N, p, b) = Gap(N, p, a) + n
  BY <1>1, <1>3, <1>4, <1>5 DEF Gap
<1>7. b # p
  BY <1>5, <1>6 DEF Gap
<1>8. b = q \/ Gap(N, p, b) < Gap(N, p, q)
  BY <1>1, <1>3, <1>5, <1>6 DEF Gap
<1> QED
  BY <1>7, <1>8 DEF b

(* The turns so far, and who is in turn.  q has played since the i-th turn, *)
(* or still lies ahead.                                                    *)
LastIsActive == order # <<>> /\ order[Len(order)] = s.active

SeatsInv ==
  \A i \in DOMAIN order, q \in Living(s) :
    \/ \E k \in i..Len(order) : SeatOf(order[k]) = q
    \/ Gap(Seats, SeatOf(order[i]), SeatOf(s.active)) < Gap(Seats, SeatOf(order[i]), q)

UnitsInv ==
  \A i \in DOMAIN order : \A w \in s.alive :
    SeatOf(w) = SeatOf(order[i]) =>
      \/ \E k \in i..Len(order) : order[k] = w
      \/ \E u \in 0..Units - 1 :
           s.next[SeatOf(w)] = (u + 1) % Units /\ Gap(Units, order[i][2], u) < Gap(Units, order[i][2], w[2])

OrderInv == LastIsActive /\ SeatsInv /\ UnitsInv /\ RotationIsFair

(* A part of a step that ends no turn, and nextTurn. *)
Still(t, v) == v.alive \subseteq t.alive /\ v.active = t.active /\ v.next = t.next /\ v.turn = t.turn

Passes(t, v) ==
  LET seat == NextSeat(t)
      unit == NextUnit(t, seat)
  IN  /\ Living(t) # {}
      /\ v.alive = t.alive /\ v.active = <<seat, unit>> /\ v.turn = t.turn + 1
      /\ v.next = [t.next EXCEPT ![seat] = After(t, seat, unit)]

LEMMA StillFurther ==
  ASSUME NEW t, NEW u, NEW v, Still(t, u), Still(u, v)
  PROVE  Still(t, v)
BY DEF Still

LEMMA RetreatStill ==
  ASSUME NEW t \in States
  PROVE  Still(t, Retreat(t))
BY DEF Still, Retreat, States

LEMMA FireStill ==
  ASSUME NEW t \in States
  PROVE  Still(t, Fire(t))
<1>1. Still(t, Retreat(t)) /\ Still(t, t)
  BY RetreatStill DEF Still
<1>2. Still(t, [t EXCEPT !.shots = 1])
  BY DEF Still, States
<1>3. Still(t, [t EXCEPT !.shots = 1, !.charge = RemainingTicks(t) + 1])
  BY DEF Still, States
<1> QED
  BY <1>1, <1>2, <1>3 DEF Fire

LEMMA ApplyStill ==
  ASSUME NEW t \in States, NEW v \in Inputs
  PROVE  Still(t, Apply(t, v))
<1> DEFINE gone == {w \in t.alive : SeatOf(w) # SeatOf(t.active)}
           y == [t EXCEPT !.alive = gone]
<1>1. Still(t, Retreat(t)) /\ Still(t, t) /\ Still(t, Fire(t))
  BY RetreatStill, FireStill DEF Still
<1>2. Still(t, [t EXCEPT !.weapon = v])
  BY DEF Still, States
<1>3. gone \subseteq t.alive
  OBVIOUS
<1>4. y = [t EXCEPT !.alive = {w \in @ : SeatOf(w) # SeatOf(t.active)}]
  OBVIOUS
<1> HIDE DEF gone
<1>5. y \in States /\ Still(t, y)
  BY <1>3 DEF Still, States
<1> HIDE DEF y
<1>6. Still(t, Retreat(y))
  BY <1>5, RetreatStill, StillFurther
<1>7. Apply(t, v) \in {t, [t EXCEPT !.weapon = v], Fire(t), Retreat(t), Retreat(y)}
  BY <1>4 DEF Apply
<1> QED
  BY <1>1, <1>2, <1>6, <1>7

LEMMA PhysicsStill ==
  ASSUME NEW t \in States, NEW dead, NEW c \in Burnt(t.charge)
  PROVE  Still(t, Clock(Physics(t, dead, c)))
<1> DEFINE y == Physics(t, dead, c)
<1>1. y \in States
  BY PhysicsType
<1>2. Still(t, y)
  BY DEF Physics, Still, States
<1> HIDE DEF y
<1>3. Still(y, Clock(y))
  BY <1>1 DEF Clock, Still, States
<1> QED
  BY <1>2, <1>3, StillFurther DEF y

LEMMA NextTurnPasses ==
  ASSUME NEW t \in States
  PROVE  Still(t, NextTurn(t)) \/ Passes(t, NextTurn(t))
<1>1. CASE Cardinality(Living(t)) <= 1
  BY <1>1 DEF NextTurn, States, Still
<1>2. CASE ~(Cardinality(Living(t)) <= 1)
  <2>1. Living(t) # {}
    BY <1>2, FS_EmptySet
  <2> DEFINE seat == NextSeat(t)
             unit == NextUnit(t, seat)
             a == [t EXCEPT !.turn = @ + 1, !.water = Rise(t), !.next[seat] = After(t, seat, unit)]
  <2>2. /\ a.turn = t.turn + 1 /\ a.alive = t.alive
        /\ a.next = [t.next EXCEPT ![seat] = After(t, seat, unit)]
        /\ DOMAIN a = DOMAIN t
    BY DEF States
  <2>3. NextTurn(t) = Begin(a, <<seat, unit>>)
    BY <1>2 DEF NextTurn
  <2> HIDE DEF a
  <2>4. LET n == Begin(a, <<seat, unit>>) IN
        /\ n.turn = a.turn /\ n.alive = a.alive /\ n.next = a.next /\ n.active = <<seat, unit>>
    BY <2>2 DEF Begin, States
  <2> QED
    BY <2>1, <2>2, <2>3, <2>4 DEF Passes
<1> QED
  BY <1>1, <1>2

(* A tick ends no turn, or passes it on once the dead are dead. *)
LEMMA TurnOverPasses ==
  ASSUME NEW t \in States, NEW moving \in BOOLEAN
  PROVE  \/ Still(t, TurnOver(t, moving))
         \/ \E u \in States : Still(t, u) /\ Passes(u, TurnOver(t, moving))
<1> DEFINE u == IF t.active \notin t.alive THEN Retreat(t) ELSE t
           r == [u EXCEPT !.phase = "Resolving", !.phaseTick = 0]
<1>1. u \in States /\ Still(t, u)
  BY RetreatType, RetreatStill DEF Still
<1>2. TurnOver(t, moving) \in {Retreat(u), r, NextTurn(u), u}
  BY DEF TurnOver
<1> HIDE DEF u
<1>3. Still(u, r)
  BY <1>1 DEF Still, States
<1> HIDE DEF r
<1>4. Still(u, Retreat(u)) /\ Still(u, u) /\ (Still(u, NextTurn(u)) \/ Passes(u, NextTurn(u)))
  BY <1>1, RetreatStill, NextTurnPasses DEF Still
<1> QED
  BY <1>1, <1>2, <1>3, <1>4, StillFurther

(* Who has died is missed by nobody. *)
LEMMA StillInOrder ==
  ASSUME OrderInv, TypeOK, Still(s, s'), order' = order
  PROVE  OrderInv'
<1>1. /\ s'.alive \subseteq s.alive /\ s'.active = s.active /\ s'.next = s.next
      /\ Living(s') \subseteq Living(s)
  BY DEF Still, Living
<1>2. LastIsActive'
  BY <1>1 DEF OrderInv, LastIsActive
<1>3. SeatsInv'
  BY <1>1 DEF OrderInv, SeatsInv
<1>4. UnitsInv'
  BY <1>1 DEF OrderInv, UnitsInv
<1>5. RotationIsFair'
  BY <1>1 DEF OrderInv, RotationIsFair
<1> QED
  BY <1>2, <1>3, <1>4, <1>5 DEF OrderInv

LEMMA PassesInOrder ==
  ASSUME OrderInv, TypeOK, TypeOK', NEW t \in States, Still(s, t), Passes(t, s'),
         order' = Append(order, s'.active)
  PROVE  OrderInv'
<1> DEFINE seat == NextSeat(t)
           unit == NextUnit(t, seat)
           at   == SeatOf(s.active)
           n    == Len(order)
<1>1. /\ s'.alive \subseteq s.alive /\ s'.alive = t.alive /\ s'.active = <<seat, unit>>
      /\ s'.next = [s.next EXCEPT ![seat] = (unit + 1) % Units]
      /\ Living(t) = Living(s') /\ Living(s') \subseteq Living(s) /\ Living(t) # {}
      /\ t.active = s.active /\ t.next = s.next
  BY DEF Still, Passes, Living, After
<1>2. /\ s \in States /\ s' \in States /\ order \in Seq(Worms) /\ n \in Nat /\ Seats \in Nat \ {0}
      /\ Units \in Nat \ {0}
  BY SimAssumption DEF TypeOK
<1>3. at \in 0..Seats - 1
  BY <1>2 DEF States, Worms, SeatOf
<1>4. PICK d \in 1..Seats : /\ seat = (at + d) % Seats /\ seat \in Living(t)
                            /\ \A m \in 1..d - 1 : (at + m) % Seats \notin Living(t)
  BY <1>1, NextSeatIsFirst
<1>5. PICK e \in 0..Units - 1 :
        /\ unit = (s.next[seat] + e) % Units /\ <<seat, unit>> \in t.alive
        /\ \A m \in 0..e - 1 : <<seat, (s.next[seat] + m) % Units>> \notin t.alive
  BY <1>1, <1>4, NextUnitIsFirst
<1> HIDE DEF seat, unit, at
<1>6. seat \in 0..Seats - 1 /\ unit \in 0..Units - 1 /\ SeatOf(s'.active) = seat
  <2>1. s'.active \in Worms
    BY <1>2 DEF States
  <2> QED
    BY <1>1, <2>1 DEF Worms, SeatOf
<1>7. /\ Len(order') = n + 1 /\ DOMAIN order' = 1..n + 1 /\ DOMAIN order = 1..n
      /\ order'[n + 1] = s'.active /\ \A k \in 1..n : order'[k] = order[k]
  BY <1>2, <1>6
<1>8. \A k \in 1..n : /\ order[k] \in Worms /\ SeatOf(order[k]) \in 0..Seats - 1
                      /\ order[k][2] \in 0..Units - 1
                      /\ order[k] = <<SeatOf(order[k]), order[k][2]>>
  BY <1>2 DEF Worms, SeatOf
<1>9. \A q \in Living(s') : q \in 0..Seats - 1
  BY <1>2 DEF Living, States, Worms, SeatOf
<1>10. \A w \in s'.alive : /\ SeatOf(w) \in 0..Seats - 1 /\ w[2] \in 0..Units - 1
                           /\ w = <<SeatOf(w), w[2]>>
  <2>1. s'.alive \subseteq Worms
    BY <1>2 DEF States
  <2> QED
    BY <2>1 DEF Worms, SeatOf
<1>11. Gap(Seats, seat, seat) = 0 /\ Gap(Units, unit, unit) = 0
  BY <1>6 DEF Gap
  (* The seats *)
<1>12. ASSUME NEW i \in 1..n, NEW q \in Living(s')
       PROVE  \/ \E k \in i..n : SeatOf(order[k]) = q
              \/ /\ seat # SeatOf(order[i])
                 /\ seat = q \/ Gap(Seats, SeatOf(order[i]), seat) < Gap(Seats, SeatOf(order[i]), q)
  <2>1. \/ \E k \in i..n : SeatOf(order[k]) = q
        \/ Gap(Seats, SeatOf(order[i]), at) < Gap(Seats, SeatOf(order[i]), q)
    BY <1>1, <1>7 DEF OrderInv, SeatsInv, at
  <2>2. q \in 0..Seats - 1 /\ SeatOf(order[i]) \in 0..Seats - 1 /\ q \in Living(t)
    BY <1>1, <1>8, <1>9
  <2> QED
    BY <1>2, <1>3, <1>4, <2>1, <2>2, RoundTheTable
<1>13. SeatsInv'
  <2> SUFFICES ASSUME NEW i \in 1..n + 1, NEW q \in Living(s')
               PROVE  \/ \E k \in i..n + 1 : SeatOf(order'[k]) = q
                      \/ Gap(Seats, SeatOf(order'[i]), seat) < Gap(Seats, SeatOf(order'[i]), q)
    BY <1>6, <1>7 DEF SeatsInv
  <2>1. CASE q = seat
    BY <1>2, <1>6, <1>7, <2>1
  <2>2. CASE q # seat /\ i \in 1..n
    BY <1>2, <1>7, <1>12, <2>2
  <2>3. CASE q # seat /\ i = n + 1
    <3>1. Gap(Seats, seat, seat) < Gap(Seats, seat, q)
      <4>1. seat \in Int /\ q \in 0..Seats - 1 /\ q # seat
        BY <1>6, <1>9, <2>3
      <4> QED
        BY <1>2, <1>6, <1>11, <4>1 DEF Gap
    <3> QED
      BY <1>6, <1>7, <2>3, <3>1
  <2> QED
    BY <1>2, <2>1, <2>2, <2>3
  (* The units of the seat *)
<1>14. ASSUME NEW i \in 1..n, NEW w \in s'.alive, SeatOf(w) = seat, SeatOf(order[i]) = seat
       PROVE  \/ \E k \in i..n : order[k] = w
              \/ /\ unit # order[i][2]
                 /\ unit = w[2] \/ Gap(Units, order[i][2], unit) < Gap(Units, order[i][2], w[2])
  <2>1. CASE \E k \in i..n : order[k] = w
    BY <2>1
  <2>2. CASE ~ \E k \in i..n : order[k] = w
    <3>1. PICK u \in 0..Units - 1 :
            s.next[seat] = (u + 1) % Units /\ Gap(Units, order[i][2], u) < Gap(Units, order[i][2], w[2])
      BY <1>1, <1>7, <1>14, <2>2 DEF OrderInv, UnitsInv
    <3>2. s.next[seat] = IF u + 1 < Units THEN u + 1 ELSE 0
      <4>1. CASE u + 1 < Units
        <5>1. u + 1 \in 0..Units - 1
          BY <1>2, <4>1
        <5> QED
          BY <1>2, <3>1, <4>1, <5>1, ModSmall
      <4>2. CASE ~(u + 1 < Units)
        <5>1. u + 1 = 0 + Units /\ 0 \in 0..Units - 1
          BY <1>2, <4>2
        <5> QED
          BY <1>2, <3>1, <4>2, <5>1, ModSmall
      <4> QED
        BY <4>1, <4>2
    <3>3. \A m \in 0..Units - 1 : (s.next[seat] + m) % Units = (u + (m + 1)) % Units
      <4> SUFFICES ASSUME NEW m \in 0..Units - 1
                   PROVE  (s.next[seat] + m) % Units = (u + (m + 1)) % Units
        OBVIOUS
      <4>1. CASE u + 1 < Units
        <5>1. s.next[seat] + m = u + (m + 1)
          BY <1>2, <3>2, <4>1
        <5> QED
          BY <5>1
      <4>2. CASE ~(u + 1 < Units)
        <5>1. s.next[seat] + m = m /\ u + (m + 1) = m + Units
          BY <1>2, <3>2, <4>2
        <5> QED
          BY <1>2, <5>1, ModSmall
      <4> QED
        BY <4>1, <4>2
    <3> DEFINE T == {v \in 0..Units - 1 : <<seat, v>> \in t.alive}
    <3>4. e + 1 \in 1..Units /\ unit = (u + (e + 1)) % Units
      BY <1>2, <1>5, <3>3
    <3>5. \A m \in 1..(e + 1) - 1 : (u + m) % Units \notin T
      <4> SUFFICES ASSUME NEW m \in 1..(e + 1) - 1 PROVE <<seat, (u + m) % Units>> \notin t.alive
        OBVIOUS
      <4>1. m - 1 \in 0..e - 1 /\ m - 1 \in 0..Units - 1 /\ (m - 1) + 1 = m
        BY <1>2
      <4>2. (s.next[seat] + (m - 1)) % Units = (u + m) % Units
        BY <3>3, <4>1
      <4> QED
        BY <1>5, <4>1, <4>2
    <3>6. w[2] \in 0..Units - 1 /\ w[2] \in T /\ order[i][2] \in 0..Units - 1
      BY <1>1, <1>8, <1>10, <1>14
    <3> HIDE DEF T
    <3> QED
      BY <1>2, <3>1, <3>4, <3>5, <3>6, RoundTheTable
  <2> QED
    BY <2>1, <2>2
<1>15. /\ s'.next[seat] = (unit + 1) % Units
       /\ \A q \in 0..Seats - 1 : q # seat => s'.next[q] = s.next[q]
  BY <1>1, <1>2, <1>6 DEF States
<1>16. UnitsInv'
  <2> SUFFICES ASSUME NEW i \in 1..n + 1, NEW w \in s'.alive, SeatOf(w) = SeatOf(order'[i])
               PROVE  \/ \E k \in i..n + 1 : order'[k] = w
                      \/ \E u \in 0..Units - 1 :
                           /\ s'.next[SeatOf(w)] = (u + 1) % Units
                           /\ Gap(Units, order'[i][2], u) < Gap(Units, order'[i][2], w[2])
    BY <1>7 DEF UnitsInv
  <2>1. CASE SeatOf(w) # seat
    <3>1. i \in 1..n /\ order'[i] = order[i]
      BY <1>2, <1>6, <1>7, <2>1
    <3>2. \/ \E k \in i..n : order[k] = w
          \/ \E u \in 0..Units - 1 :
               s.next[SeatOf(w)] = (u + 1) % Units /\ Gap(Units, order[i][2], u) < Gap(Units, order[i][2], w[2])
      BY <1>1, <1>7, <3>1 DEF OrderInv, UnitsInv
    <3> QED
      BY <1>2, <1>7, <1>10, <1>15, <2>1, <3>1, <3>2
  <2>2. CASE w = s'.active
    BY <1>2, <1>7, <2>2
  <2>3. CASE SeatOf(w) = seat /\ w # s'.active /\ i \in 1..n
    <3>1. w[2] # unit
      BY <1>1, <1>10, <2>3
    <3>2. \/ \E k \in i..n : order[k] = w
          \/ Gap(Units, order[i][2], unit) < Gap(Units, order[i][2], w[2])
      BY <1>7, <1>14, <2>3, <3>1
    <3> QED
      BY <1>2, <1>6, <1>7, <1>15, <2>3, <3>2
  <2>4. CASE SeatOf(w) = seat /\ w # s'.active /\ i = n + 1
    <3>1. w[2] # unit /\ order'[i][2] = unit
      BY <1>1, <1>7, <1>10, <2>4
    <3>2. Gap(Units, unit, unit) < Gap(Units, unit, w[2])
      <4>1. unit \in Int /\ w[2] \in 0..Units - 1 /\ w[2] # unit
        BY <1>6, <1>10, <3>1
      <4> QED
        BY <1>2, <1>6, <1>11, <4>1 DEF Gap
    <3> QED
      BY <1>6, <1>15, <2>4, <3>1, <3>2
  <2>5. i \in 1..n \/ i = n + 1
    BY <1>2
  <2> QED
    BY ONLY <2>1, <2>2, <2>3, <2>4, <2>5
<1>17. RotationIsFair'
  <2> SUFFICES ASSUME NEW i \in 1..n + 1, NEW j \in 1..n + 1, i < j
               PROVE  /\ SeatOf(order'[i]) = SeatOf(order'[j]) =>
                           \A q \in Living(s') : \E k \in i..j - 1 : SeatOf(order'[k]) = q
                      /\ order'[i] = order'[j] =>
                           \A w \in s'.alive :
                             SeatOf(w) = SeatOf(order'[i]) => \E k \in i..j - 1 : order'[k] = w
    BY <1>7 DEF RotationIsFair
  <2>0. i \in 1..n /\ \A k \in i..j - 1 : order'[k] = order[k]
    BY <1>2, <1>7
  <2>1. CASE j \in 1..n
    <3>1. /\ SeatOf(order[i]) = SeatOf(order[j]) =>
               \A q \in Living(s) : \E k \in i..j - 1 : SeatOf(order[k]) = q
          /\ order[i] = order[j] =>
               \A w \in s.alive : SeatOf(w) = SeatOf(order[i]) => \E k \in i..j - 1 : order[k] = w
      BY <1>7, <2>0, <2>1 DEF OrderInv, RotationIsFair
    <3> QED
      BY <1>1, <1>7, <2>0, <2>1, <3>1
  <2>2. CASE j = n + 1
    <3>1. ASSUME SeatOf(order[i]) = seat, NEW q \in Living(s') PROVE \E k \in i..n : SeatOf(order[k]) = q
      BY <1>12, <2>0, <3>1
    <3>2. ASSUME order[i] = <<seat, unit>>, NEW w \in s'.alive, SeatOf(w) = SeatOf(order[i])
          PROVE  \E k \in i..n : order[k] = w
      <4>1. SeatOf(order[i]) = seat /\ order[i][2] = unit
        BY <3>2 DEF SeatOf
      <4> QED
        BY <1>14, <2>0, <3>2, <4>1
    <3>3. j - 1 = n /\ order'[j] = <<seat, unit>> /\ order'[i] = order[i] /\ SeatOf(order'[j]) = seat
      BY <1>1, <1>2, <1>6, <1>7, <2>0, <2>2
    <3> QED
      BY <2>0, <3>1, <3>2, <3>3
  <2> QED
    BY <1>2, <2>1, <2>2
<1>18. LastIsActive'
  BY <1>2, <1>7 DEF LastIsActive
<1> QED
  BY <1>13, <1>16, <1>17, <1>18 DEF OrderInv

LEMMA TickInOrder ==
  ASSUME SimInv, OrderInv, TypeOK', NEW script \in Scripts, NEW dead \in SUBSET s.alive, NEW moving \in BOOLEAN,
         Tick(script, dead, moving)
  PROVE  OrderInv'
<1> DEFINE one == Apply(Woken, script[1])
           two == Apply(one, script[2])
<1>1. script[1] \in Inputs /\ script[2] \in Inputs /\ s \in States /\ s.turn \in Nat /\ TypeOK
  BY SimAssumption DEF SimInv, TypeOK, States
<1>2. Woken \in States /\ Still(s, Woken)
  <2>1. Still(s, [s EXCEPT !.phase = "Playing", !.phaseTick = 0]) /\ Still(s, s)
    BY <1>1 DEF Still, States
  <2> QED
    BY <2>1, WokenKeeps DEF Woken
<1>3. one \in States /\ Still(Woken, one)
  BY <1>1, <1>2, ApplyType, ApplyStill
<1>4. PICK c \in Burnt(two.charge) : s' = TurnOver(Clock(Physics(two, dead, c)), moving)
  BY DEF Tick
<1>5. order' = IF s'.turn = s.turn THEN order ELSE Append(order, s'.active)
  BY DEF Tick
<1> HIDE DEF one
<1>6. two \in States /\ Still(one, two)
  BY <1>1, <1>3, ApplyType, ApplyStill
<1> HIDE DEF two
<1> DEFINE p == Clock(Physics(two, dead, c))
<1>7. p \in States /\ Still(two, p)
  BY <1>4, <1>6, PhysicsFields, PhysicsStill
<1>8. s' = TurnOver(p, moving)
  BY <1>4
<1> HIDE DEF p
<1>9. Still(s, p)
  BY <1>2, <1>3, <1>6, <1>7, StillFurther
<1>10. CASE Still(p, s')
  <2>1. Still(s, s')
    BY <1>9, <1>10, StillFurther
  <2>2. order' = order
    BY <1>5, <2>1 DEF Still
  <2> QED
    BY <1>1, <2>1, <2>2, StillInOrder
<1>11. ASSUME NEW u \in States, Still(p, u), Passes(u, s') PROVE OrderInv'
  <2>1. Still(s, u)
    BY <1>9, <1>11, StillFurther
  <2>2. s'.turn # s.turn
    BY <1>1, <1>11, <2>1 DEF Still, Passes
  <2> QED
    BY <1>1, <1>5, <1>11, <2>1, <2>2, PassesInOrder
<1> QED
  BY <1>7, <1>8, <1>10, <1>11, TurnOverPasses

(* No squad is passed over while it lives, nor a Stakey of a squad, whoever *)
(* dies when: nextTurn of state.go.                                        *)
THEOREM TurnsRotate == Spec => []RotationIsFair
<1>1. Init => OrderInv
  <2> SUFFICES ASSUME Init PROVE OrderInv
    OBVIOUS
  <2>1. order = <<<<0, 0>>>> /\ s.active = <<0, 0>> /\ s.next[0] = 1 % Units /\ DOMAIN order = 1..1
        /\ order[1] = <<0, 0>> /\ Len(order) = 1
    BY SimAssumption DEF Init, Begin
  <2>2. s \in States
    BY SimStart DEF SimInv, TypeOK
  <2>3. RotationIsFair /\ LastIsActive
    BY <2>1 DEF RotationIsFair, LastIsActive
  <2>4. SeatsInv
    <3> SUFFICES ASSUME NEW q \in Living(s), q # 0
                 PROVE  Gap(Seats, 0, 0) < Gap(Seats, 0, q)
      BY <2>1 DEF SeatsInv, SeatOf
    <3>1. q \in 0..Seats - 1
      BY <2>2 DEF Living, States, Worms, SeatOf
    <3> QED
      BY <3>1, SimAssumption DEF Gap
  <2>5. UnitsInv
    <3> SUFFICES ASSUME NEW w \in s.alive, SeatOf(w) = 0, w # <<0, 0>>
                 PROVE  Gap(Units, 0, 0) < Gap(Units, 0, w[2]) /\ 0 \in 0..Units - 1 /\ (0 + 1) % Units = 1 % Units
      BY <2>1 DEF UnitsInv, SeatOf
    <3>1. w[2] \in 0..Units - 1 /\ w = <<SeatOf(w), w[2]>>
      BY <2>2 DEF States, Worms, SeatOf
    <3> QED
      BY <3>1, SimAssumption DEF Gap
  <2> QED
    BY <2>3, <2>4, <2>5 DEF OrderInv
<1>2. SimInv /\ SimInv' /\ OrderInv /\ [Next]_vars => OrderInv'
  <2> SUFFICES ASSUME SimInv, SimInv', OrderInv, [Next]_vars PROVE OrderInv'
    OBVIOUS
  <2>1. TypeOK /\ TypeOK' /\ s \in States
    BY DEF SimInv, TypeOK
  <2>2. CASE Wait
    <3>1. order' = order /\ Still(s, s')
      BY <2>1, <2>2 DEF Wait, Clock, Still, States
    <3> QED
      BY <2>1, <3>1, StillInOrder
  <2>3. ASSUME NEW moving \in {FALSE, s.phase = "Resolving"}, AnyTick(moving) PROVE OrderInv'
    BY <2>1, <2>3, TickInOrder DEF AnyTick
  <2>4. CASE UNCHANGED vars
    BY <2>1, <2>4, StillInOrder DEF vars, Still
  <2> QED
    BY <2>2, <2>3, <2>4 DEF Next
<1>3. OrderInv => RotationIsFair
  BY DEF OrderInv
<1> QED
  BY <1>1, <1>2, <1>3, SimAlways, PTL DEF Spec
================================================================================
