-------------------------------- MODULE Objects -------------------------------
(***************************************************************************)
(* Projectiles, explosions and objects of one tick: moveProjectiles and    *)
(* explode of pkg/sim/physics.go, moveObjects of environment.go.  The      *)
(* battlefield is a row of columns of earth over water; the flight of a    *)
(* projectile and the walk of the Stakeys are inputs, and so is the site   *)
(* of a crate.  Slices are sequences, passed through in their order; a loop *)
(* over a slice is a recursive function of the number of its rounds.       *)
(***************************************************************************)
EXTENDS Integers, Sequences, FiniteSets

CONSTANTS
  Columns,      \* 0..n
  Layouts,      \* sequences of objects, as the seed and earlier turns leave them
  MaxObjects,
  MaxShots      \* projectiles fired in all

MineArm  == 1        \* ticks; 120 in the code, as the fuse is 30
MineFuse == 2
MaxHP    == 2
MaxCrates == 1       \* 4 in the code

ObjectKinds == {"barrel", "mine", "health", "ammo"}
ShotKinds   == {"rocket", "bomb", "cluster", "flame", "mine"}
Radius(k)   == IF k = "barrel" THEN 3 ELSE 2

VARIABLES
  field,    \* objects, shots, ground, stakey
  fired,
  chain     \* history of the last tick: the objects that its chain took away,
            \* by their places, as they were before; and the places of those
            \* that went off, in this order

objectVars == <<field, fired, chain>>

Health == 0..MaxHP

(* An object is up, hit (its HP is 0) or gone. *)
Object(k, x, y) ==
  [kind |-> k, x |-> x, y |-> y, hp |-> "up", arm |-> IF k = "mine" THEN MineArm ELSE 0,
   fuse |-> 0, settled |-> k # "mine"]
Shot(k, x, fuse) == [kind |-> k, x |-> x, fuse |-> fuse, burning |-> FALSE, dead |-> FALSE]

Up(o)   == o.hp = "up"
Hit(o)  == [o EXCEPT !.hp = "hit"]
Gone(o) == [o EXCEPT !.hp = "gone"]
Live(p) == ~p.dead

ASSUME ObjectsAssumption ==
  /\ Columns \subseteq Int /\ 0 \in Columns
  /\ MaxObjects \in Nat /\ MaxShots \in Nat
  /\ \A l \in Layouts : l \in Seq(ObjectKinds \X Columns) /\ Len(l) <= MaxObjects

ObjectsTypeOK ==
  /\ Len(field.objects) <= MaxObjects
  /\ \A i \in DOMAIN field.objects :
       Up(field.objects[i]) /\ field.objects[i].y \in 1..2 /\ field.objects[i].fuse \in 0..MineFuse - 1
  /\ \A i \in DOMAIN field.shots : Live(field.shots[i]) /\ field.shots[i].fuse \in 0..3
  /\ field.ground \in [Columns -> 0..2] /\ field.stakey \in [x : Columns, hp : Health]

NoChain == [lost |-> <<>>, blasts |-> <<>>]

ObjectsInit ==
  /\ \E l \in Layouts :
       field = [objects |-> [i \in DOMAIN l |-> Object(l[i][1], l[i][2], 2)], shots |-> <<>>,
                ground |-> [x \in Columns |-> 2], stakey |-> [x |-> 0, hp |-> MaxHP]]
  /\ fired = 0 /\ chain = NoChain

(* Filtered in place: what is kept of a slice, in its order. *)
Kept(xs, K) ==
  LET kept[i \in 0..Len(xs)] ==
        IF i = 0 THEN <<>> ELSE IF i \in K THEN Append(kept[i - 1], xs[i]) ELSE kept[i - 1]
  IN  kept[Len(xs)]

Near(a, b, r) == a - b < r /\ b - a < r

damageObjects(os, x, r) ==
  [i \in DOMAIN os |->
     IF Up(os[i]) /\ Near(os[i].x, x, r) THEN Hit(os[i]) ELSE os[i]]

(* Earth, Stakeys, objects, then projectiles that exist already; the        *)
(* children of a cluster come last and are not set off by it.              *)
explodeField(t, kind, x) ==
  LET r == Radius(kind)
      chained == [i \in DOMAIN t.shots |->
        IF ~t.shots[i].dead /\ Near(t.shots[i].x, x, r) THEN [t.shots[i] EXCEPT !.fuse = 1]
        ELSE t.shots[i]]
  IN [t EXCEPT
       !.ground = [c \in Columns |-> IF Near(c, x, r) /\ @[c] > 0 THEN @[c] - 1 ELSE @[c]],
       !.stakey.hp = IF @ > 0 /\ Near(t.stakey.x, x, r) THEN @ - 1 ELSE @,
       !.objects = damageObjects(@, x, r),
       !.shots = IF kind = "cluster" THEN chained \o <<Shot("bomb", x, 3)>> ELSE chained]

-------------------------------------------------------------------------------
(* moveProjectiles                                                         *)

PutShot(t, i, p)     == [t EXCEPT !.shots[i] = p]
PlaceObject(t, i, o) == [t EXCEPT !.objects[i] = o]

(* A flame burns where it lies; its fuse runs out without an explosion.     *)
Burn(t, i, p) ==
  LET f == IF p.fuse > 0 THEN p.fuse - 1 ELSE 0 IN
  PutShot([t EXCEPT !.stakey.hp = IF @ > 0 /\ t.stakey.x = p.x THEN @ - 1 ELSE @],
          i, [p EXCEPT !.fuse = f, !.dead = f = 0])

Alight(p) == [p EXCEPT !.burning = TRUE, !.fuse = 2]

(* The first object in column c, if there is one, is hit. *)
Struck(t, c) ==
  LET there == {j \in DOMAIN t.objects : Up(t.objects[j]) /\ t.objects[j].x = c}
      first == CHOOSE j \in there : \A k \in there : j <= k
  IN  IF there = {} THEN t ELSE PlaceObject(t, first, Hit(t.objects[first]))

InTheWay(t, c) ==
  \/ t.ground[c] > 0 \/ (t.stakey.hp > 0 /\ t.stakey.x = c)
  \/ \E j \in DOMAIN t.objects : Up(t.objects[j]) /\ t.objects[j].x = c

(* The swept path ends in column c: over the edge, in something, or in air. *)
Fly(t, i, p, c) ==
  LET q == [p EXCEPT !.x = c]
      u == Struck(t, c)
  IN  IF ~InTheWay(t, c) THEN PutShot(t, i, [q EXCEPT !.dead = TRUE])
      ELSE IF p.kind = "flame" THEN PutShot(u, i, Alight(q))
      ELSE IF p.kind = "rocket" THEN PutShot(explodeField(u, p.kind, c), i, [q EXCEPT !.dead = TRUE])
      ELSE PutShot(u, i, q)

(* The copy p is written back over what its own explosion did to its slot. *)
MoveShot(t, i, c) ==
  LET p == t.shots[i]
      q == [p EXCEPT !.fuse = IF @ > 0 THEN @ - 1 ELSE 0]
  IN IF p.dead THEN t
     ELSE IF p.burning THEN Burn(t, i, p)
     ELSE IF p.fuse = 1
       THEN IF p.kind = "flame" THEN PutShot(t, i, Alight(p))
            ELSE explodeField(PutShot(t, i, [p EXCEPT !.dead = TRUE]), p.kind, p.x)
     ELSE IF c = p.x THEN PutShot(t, i, q)
     ELSE Fly(t, i, q, c)

moveProjectiles(t, flight) ==
  LET n == Len(t.shots)
      run[i \in 0..n] == IF i = 0 THEN t ELSE MoveShot(run[i - 1], i, flight[i])
      u == run[n]
  IN  [u EXCEPT !.shots = Kept(@, {i \in DOMAIN @ : Live(@[i])})]

-------------------------------------------------------------------------------
(* moveObjects                                                             *)

(* Nothing holds the object any more, it falls, or it has landed. *)
FallObject(o, ground) ==
  LET settled == o.settled /\ o.y <= ground[o.x] IN
  IF settled THEN o
  ELSE IF o.y > ground[o.x] THEN [o EXCEPT !.y = @ - 1, !.settled = FALSE]
  ELSE [o EXCEPT !.settled = TRUE]

(* Mutant: the fuse counts on below zero. *)
MineCountsOn(o, stakey) ==
  LET near == stakey.hp > 0 /\ Near(stakey.x, o.x, 2)
      fuse == IF o.arm = 0 /\ o.fuse = 0 /\ near THEN MineFuse ELSE o.fuse
  IN IF o.kind # "mine" THEN o
     ELSE [o EXCEPT !.arm = IF @ > 0 THEN @ - 1 ELSE 0,
                    !.fuse = fuse - 1,
                    !.hp = IF fuse = 1 THEN "hit" ELSE @]

(* Armed, a mine that someone comes near to begins to count down at once. *)
TendMine(o, stakey) ==
  LET near == stakey.hp > 0 /\ Near(stakey.x, o.x, 2)
      fuse == IF o.arm = 0 /\ o.fuse = 0 /\ near THEN MineFuse ELSE o.fuse
  IN IF o.kind # "mine" THEN o
     ELSE [o EXCEPT !.arm = IF @ > 0 THEN @ - 1 ELSE 0,
                    !.fuse = IF fuse > 0 THEN fuse - 1 ELSE 0,
                    !.hp = IF fuse = 1 THEN "hit" ELSE @]

Crates == {"health", "ammo"}

MoveObject(t, i) ==
  LET o == t.objects[i]
      m == TendMine(FallObject(o, t.ground), t.stakey)
      taken == m.kind \in Crates /\ t.stakey.hp > 0 /\ t.stakey.x = m.x
  IN IF ~Up(o) THEN t
     ELSE IF m.y = 0 THEN PlaceObject(t, i, Gone(o))
     ELSE IF taken
       THEN [PlaceObject(t, i, Gone(o)) EXCEPT !.stakey.hp = IF m.kind = "health" /\ @ < MaxHP THEN @ + 1 ELSE @]
     ELSE PlaceObject(t, i, m)

MoveObjects(t) ==
  LET n == Len(t.objects)
      run[i \in 0..n] == IF i = 0 THEN t ELSE MoveObject(run[i - 1], i)
  IN  run[n]

(* What was destroyed goes off, once, whatever its explosion destroys. *)
GoOff(u, i) ==
  LET o == u.t.objects[i]
      gone == PlaceObject(u.t, i, Gone(o))
  IN IF o.hp # "hit" THEN u
     ELSE IF o.kind \in Crates THEN [u EXCEPT !.t = gone]
     ELSE [t |-> explodeField(gone, o.kind, o.x), blasts |-> Append(u.blasts, i)]

Pass(u) ==
  LET n == Len(u.t.objects)
      run[i \in 0..n] == IF i = 0 THEN u ELSE GoOff(run[i - 1], i)
  IN  run[n]

(* Mutant: one pass over the objects. *)
ChainOnce(t) == Pass([t |-> t, blasts |-> <<>>])

(* As many passes as there are objects. *)
Chain(t) ==
  LET n == Len(t.objects)
      run[k \in 0..n] == IF k = 0 THEN [t |-> t, blasts |-> <<>>] ELSE Pass(run[k - 1])
  IN  run[n]

(* What a chain has taken away of the objects it began with. *)
TakenAway(old, new) ==
  [i \in {j \in DOMAIN old : old[j].hp # "gone" /\ ~Up(new[j])} |-> old[i]]

StepField(t, flight) ==
  LET begun == MoveObjects(moveProjectiles(t, flight))
      ended == Chain(begun)
  IN  /\ field' = [ended.t EXCEPT !.objects = Kept(@, {i \in DOMAIN @ : Up(@[i])})]
      /\ chain' = [lost |-> TakenAway(begun.objects, ended.t.objects), blasts |-> ended.blasts]

-------------------------------------------------------------------------------
(* A shot flies to a column and may rest or pass there on the way; a Stakey *)
(* takes a step; one in the water has drowned.                             *)
ObjectsTick ==
  \E flight \in [DOMAIN field.shots -> Columns], x \in Columns :
    /\ Near(x, field.stakey.x, 2) /\ (field.stakey.hp = 0 => x = field.stakey.x)
    /\ StepField([field EXCEPT !.stakey = [x |-> x, hp |-> IF field.ground[x] = 0 THEN 0 ELSE @.hp]], flight)
    /\ UNCHANGED fired

Quiescent ==
  /\ field.shots = <<>>
  /\ \A i \in DOMAIN field.objects : field.objects[i].settled /\ field.objects[i].fuse = 0

(* A turn that fires, or lays a mine while there is room for one. *)
fireWeapon(k) ==
  /\ Quiescent /\ field.stakey.hp > 0 /\ fired < MaxShots /\ fired' = fired + 1
  /\ k = "mine" => Len(field.objects) < MaxObjects /\ field.ground[field.stakey.x] > 0
  /\ field' = IF k = "mine"
            THEN [field EXCEPT !.objects = Append(@, Object("mine", field.stakey.x, field.ground[field.stakey.x]))]
          ELSE [field EXCEPT !.shots =
                  <<Shot(k, field.stakey.x, IF k = "rocket" THEN 0 ELSE 2)>> \o
                  IF k = "bomb" THEN <<Shot("rocket", field.stakey.x, 0)>> ELSE <<>>]
  /\ chain' = NoChain

(* Between two rounds, where there is earth and nothing near. *)
spawnCrate(k, x) ==
  /\ Quiescent /\ k \in Crates /\ Len(field.objects) < MaxObjects /\ field.ground[x] > 0
  /\ Cardinality({i \in DOMAIN field.objects : field.objects[i].kind \in Crates}) < MaxCrates
  /\ \A i \in DOMAIN field.objects : field.objects[i].x # x
  /\ field.stakey.hp > 0 => ~Near(field.stakey.x, x, 2)
  /\ field' = [field EXCEPT !.objects = Append(@, Object(k, x, field.ground[x]))]
  /\ chain' = NoChain /\ UNCHANGED fired

ObjectsNext ==
  \/ ObjectsTick
  \/ \E k \in ShotKinds : fireWeapon(k)
  \/ \E k \in Crates, x \in Columns : spawnCrate(k, x)

ObjectsSpec == ObjectsInit /\ [][ObjectsNext]_objectVars

-------------------------------------------------------------------------------
(* However explosions set one another off within a tick, the chain ends     *)
(* with it: every explosive that is destroyed goes off, once; what is near  *)
(* one that went off is gone, or a charge about to go off; and nothing is   *)
(* set off but by reach, whatever the order of the slice.                  *)
ChainsEnd ==
  LET lost   == chain.lost
      blasts == chain.blasts
      Reaches(i, x) == Near(x, lost[i].x, Radius(lost[i].kind))
      Blasted == {blasts[k] : k \in DOMAIN blasts}
  IN
  /\ \A j, k \in DOMAIN blasts : blasts[j] = blasts[k] => j = k
  /\ Blasted = {i \in DOMAIN lost : lost[i].kind \notin Crates}
  /\ \A i \in Blasted :
       /\ \A j \in DOMAIN field.objects : ~Reaches(i, field.objects[j].x)
       /\ \A j \in DOMAIN field.shots : Reaches(i, field.shots[j].x) => field.shots[j].fuse = 1
  /\ \A j \in DOMAIN lost :
       lost[j].hp = "hit" \/ \E i \in Blasted : i # j /\ Reaches(i, lost[j].x)
===============================================================================
