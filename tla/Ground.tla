-------------------------------- MODULE Ground --------------------------------
(***************************************************************************)
(* The ground and what stands, falls and hangs on it: the collision mask   *)
(* of pkg/sim/terrain, the drill (dig.go), girders (arsenal.go), the walk   *)
(* and fall of Stakeys (moveWorm of physics.go), the sweep of one on the    *)
(* rope (swing of rope.go), and the picture of the ground that             *)
(* pkg/render/scene.go repaints where an effect says so.                   *)
(*                                                                         *)
(* A point is a pixel of a small battlefield, y grows downward.  Distances *)
(* are the larger of both coordinates, and the velocity of a tick is any   *)
(* within the clamp: gravity, wind, tension, jumps and blows only choose   *)
(* among them.  Whoever is in the air may hang on a rope, whose corners and *)
(* lengths are the velocity's matter, and may lose it at any tick; the      *)
(* drill cuts at any tick, and nothing but Stakeys, earth and water is in   *)
(* a girder's way.  Hit points are as many as it takes: no blow is the last,   *)
(* only the water and the edge of the field take a Stakey away.  The       *)
(* parachute, wherever it matters, is open or not.                         *)
(***************************************************************************)
EXTENDS Integers, Sequences

CONSTANTS
  Width, Height, WaterY,
  Lands,         \* [ground, at] : sets of points and the places of both Stakeys
  Targets,       \* points for blasts, girders and teleports
  MaxChanges     \* bound: nothing changes the ground any more after so many ticks

Active    == 1
Stakeys   == 1..2
HalfWidth == 0     \* of a body; 6 in the code
BodyHeight == 2    \* 20
Slope     == 1     \* 4: the step a Stakey climbs or descends
SafeFall  == 1     \* 64
Sky       == 0     \* Height: so far above the field a Stakey may be
Crater     == 2     \* radius of an explosion
Reach     == 3     \* 240: of a girder

(* Walking decides on the ground; the velocity, the parachute and the rope, *)
(* which may be reeled in, above it.                                       *)
Motions ==
  [walk : {0}, vel : {-1, 1} \X {-2} \cup {<<0, 2>>}, chute : {FALSE}, rope : {"none", "hung"}] \cup
  [walk : {0}, vel : {-1, 1} \X {0}, chute : {FALSE}, rope : {"reeled"}] \cup
  {[walk |-> d, vel |-> <<d, 1>>, chute |-> TRUE, rope |-> "none"] : d \in {-1, 1}}
Directions == {<<0, 1>>, <<1, 0>>, <<0, -1>>, <<1, -1>>}

Cells == (0..Width - 1) \X (0..Height - 1)

VARIABLES
  land,      \* the solid points
  body,      \* Stakeys; top (history): the highest point since it last stood
  picture,   \* the ground as it is on the screen
  changes,
  hurt       \* history of the last tick: falls and the damage they did

groundVars == <<land, body, picture, changes, hurt>>

-------------------------------------------------------------------------------
(* Points                                                                  *)

Plus(p, q)  == <<p[1] + q[1], p[2] + q[2]>>
Minus(p, q) == <<p[1] - q[1], p[2] - q[2]>>
Size(n)     == IF n < 0 THEN -n ELSE n
Larger(m, n)  == IF m > n THEN m ELSE n
Smaller(m, n) == IF m < n THEN m ELSE n
Len2(p)     == Larger(Size(p[1]), Size(p[2]))
Distance(p, q) == Len2(Minus(p, q))

(* Integer division towards zero. *)
Share(k, n, d) == IF k < 0 THEN -((-k * n) \div d) ELSE (k * n) \div d
Part(p, n, d)  == <<Share(p[1], n, d), Share(p[2], n, d)>>

Least(S) == CHOOSE n \in S : \A m \in S : n <= m

-------------------------------------------------------------------------------
(* The mask: nothing is solid outside of it.                               *)

Rect(x0, y0, x1, y1) == (x0..x1 - 1) \X (y0..y1 - 1)

Clip(b) == <<Larger(b[1], 0), Larger(b[2], 0), Smaller(b[3], Width), Smaller(b[4], Height)>>

(* The box of a circle, as far as it is on the field. *)
CircleBox(c, r) == Clip(<<c[1] - r, c[2] - r, c[1] + r + 1, c[2] + r + 1>>)

Circle(c, r) ==
  {p \in Rect(c[1] - r, c[2] - r, c[1] + r + 1, c[2] + r + 1) :
     (p[1] - c[1]) * (p[1] - c[1]) + (p[2] - c[2]) * (p[2] - c[2]) <= r * r}

blocked(g, p) ==
  \E x \in p[1] - HalfWidth..p[1] + HalfWidth, y \in p[2] - BodyHeight..p[2] - 1 : <<x, y>> \in g

supported(g, p) == \E x \in p[1] - HalfWidth..p[1] + HalfWidth : <<x, p[2]>> \in g

(* The water is above the bottom of the field, and a map seats both Stakeys *)
(* on free ground.                                                         *)
ASSUME GroundAssumption ==
  /\ Width \in Nat /\ Height \in Nat /\ WaterY \in 0..Height /\ MaxChanges \in Nat
  /\ Targets \subseteq Int \X Int
  /\ \A l \in Lands :
       /\ l.ground \subseteq Cells /\ l.at \in [Stakeys -> Int \X Int]
       /\ \A i \in Stakeys : ~blocked(l.ground, l.at[i])

(* A tick changes t: the ground, the bodies, and the boxes that its effects *)
(* tell the screen to repaint.                                             *)
Cleared(t, cells, b) == [t EXCEPT !.land = @ \ cells, !.dirty = Append(@, b)]
Built(t, cells, b)   == [t EXCEPT !.land = @ \cup cells, !.dirty = Append(@, b)]

-------------------------------------------------------------------------------
(* The picture                                                             *)

(* Scene.update: earth is lit at the top and dark at its other edges; a     *)
(* point looks as far as four up, two aside and three down.                *)
Shade(g, p) ==
  LET Solid(x, y) == Plus(p, <<x, y>>) \in g
  IN  IF p \notin g THEN "air"
      ELSE IF ~Solid(0, -1) THEN "rim"
      ELSE IF ~Solid(0, -2) THEN "lit"
      ELSE IF ~Solid(-1, 0) \/ ~Solid(1, 0) \/ ~Solid(0, 1) THEN "dark"
      ELSE "earth"

Paint(g) == [p \in Cells |-> Shade(g, p)]

Hull(boxes) ==
  LET bound(i, S) == CHOOSE n \in S : \A m \in S : IF i <= 2 THEN n <= m ELSE n >= m
  IN  [i \in 1..4 |-> bound(i, {boxes[k][i] : k \in DOMAIN boxes})]

Inside(b) == Rect(b[1], b[2], b[3], b[4]) \cap Cells

(* Mutant: the boxes are repainted as they are. *)
RepaintExactly(boxes) == IF boxes = <<>> THEN {} ELSE Inside(Hull(boxes))

(* Scene.Update: the hull of all boxes, with a margin of five; two here,    *)
(* where a point looks two up.                                             *)
Repainted(boxes) ==
  IF boxes = <<>> THEN {}
  ELSE LET b == Hull(boxes) IN Inside(<<b[1] - 2, b[2] - 2, b[3] + 2, b[4] + 2>>)

-------------------------------------------------------------------------------
(* Walking and falling                                                     *)

Put(t, i, w) == [t EXCEPT !.body[i] = w]
Aloft(w) == [w EXCEPT !.grounded = FALSE, !.apex = w.at[2]]

(* One half of a tick's walk: up a small step, or down one that it reaches  *)
(* without entering anything; else it has walked over an edge.             *)
Pace(g, w, dx) ==
  LET p     == Plus(w.at, <<dx, 0>>)
      ups   == {n \in 0..Slope : ~blocked(g, Minus(p, <<0, n>>))}
      q     == IF ups = {} THEN w.at ELSE Minus(p, <<0, Least(ups)>>)
      downs == {n \in 1..Slope : /\ supported(g, Plus(q, <<0, n>>))
                                 /\ \A m \in 1..n : ~blocked(g, Plus(q, <<0, m>>))}
      to    == IF ~supported(g, q) /\ downs # {} THEN Plus(q, <<0, Least(downs)>>) ELSE q
  IN  [w EXCEPT !.at = to, !.apex = to[2], !.top = to[2], !.grounded = supported(g, to)]

PaceOn(g, w, dx) == IF w.grounded THEN Pace(g, w, dx) ELSE w
Walk(g, w, dx) == PaceOn(g, Pace(g, w, dx), dx)

Cost(w) == Larger(w.at[2] - w.apex - SafeFall, 0)
Hurt(w) == [damage |-> Cost(w), fell |-> w.at[2] - w.top]

(* Mutant: a landing leaves the apex where it was. *)
LandWithApex(t, i, w) ==
  [Put(t, i, [w EXCEPT !.grounded = TRUE, !.vy = 0]) EXCEPT !.hurt = @ \cup {Hurt(w)}]

(* Feet on the ground: what the fall from the apex costs. *)
Land(t, i, w) ==
  [Put(t, i, [w EXCEPT !.grounded = TRUE, !.apex = w.at[2], !.vy = 0]) EXCEPT !.hurt = @ \cup {Hurt(w)}]

Risen(w) == [w EXCEPT !.apex = Smaller(@, w.at[2]), !.top = Smaller(@, w.at[2])]

(* A step of the sweep: aside, then up or down; what is in the way stops it.*)
Sweep(t, i, dx, dy) ==
  LET w == t.body[i]
      x == <<w.at[1] + IF w.vx = 0 THEN 0 ELSE dx, w.at[2]>>
      u == IF blocked(t.land, x) THEN [w EXCEPT !.vx = 0] ELSE [w EXCEPT !.at = x]
      y == <<u.at[1], u.at[2] + IF u.vy = 0 THEN 0 ELSE dy>>
  IN  IF ~blocked(t.land, y) THEN Put(t, i, Risen([u EXCEPT !.at = y]))
      ELSE IF u.vy > 0 THEN Land(t, i, u)
      ELSE Put(t, i, [u EXCEPT !.vy = 0])

Steps(v) == Larger(Len2(v), 1)
Delta(v, n) == Minus(Part(v, n, Steps(v)), Part(v, n - 1, Steps(v)))

(* An open parachute brakes a fall to its pace. *)
Fall(t, i, v, chute) ==
  LET w == t.body[i]
      vy == IF chute THEN Smaller(v[2], 1) ELSE v[2]
      z == [w EXCEPT !.vx = v[1], !.vy = vy,
                     !.apex = IF chute /\ vy > 0 THEN w.at[2] ELSE @]
      go(u, n) == IF n > Steps(<<v[1], vy>>) THEN u
                  ELSE LET d == Delta(<<v[1], vy>>, n) IN Sweep(u, i, d[1], d[2])
  IN  go(go(Put(t, i, z), 1), 2)

-------------------------------------------------------------------------------
(* The rope                                                                *)

(* Mutant: a reeled Stakey is lifted and then pulled aside, without a look  *)
(* at what is there.                                                       *)
TowBlindly(g, p, d, reeled) ==
  LET aside == Plus(p, d)
      up    == Plus(p, <<d[1], -Slope>>)
  IN  IF ~blocked(g, aside) THEN aside
      ELSE IF reeled /\ supported(g, p) /\ ~blocked(g, Minus(p, <<0, Slope>>)) THEN up
      ELSE p

(* A step of the swing: as the rope pulls; or, reeled along the ground, up  *)
(* a small step; or first up or down, then aside, as far as either is free. *)
Tow(g, p, d, reeled) ==
  LET ups   == {n \in 1..Slope : /\ \A m \in 1..n : ~blocked(g, Minus(p, <<0, m>>))
                                 /\ ~blocked(g, Plus(p, <<d[1], -n>>))}
      y     == IF blocked(g, Plus(p, <<0, d[2]>>)) THEN p ELSE Plus(p, <<0, d[2]>>)
      x     == Plus(y, <<d[1], 0>>)
  IN  IF ~blocked(g, Plus(p, d)) THEN Plus(p, d)
      ELSE IF reeled /\ d[1] # 0 /\ supported(g, p) /\ ups # {} THEN Plus(p, <<d[1], -Least(ups)>>)
      ELSE IF blocked(g, x) THEN y ELSE x

swing(g, w, v, reeled) ==
  LET go(p, n) == IF n > Steps(v) THEN p ELSE Tow(g, p, Delta(v, n), reeled)
  IN  Risen([w EXCEPT !.at = go(go(w.at, 1), 2)])

-------------------------------------------------------------------------------
(* A tick                                                                  *)

Lost(w) == w.at[2] >= WaterY \/ w.at[2] < -Sky \/ w.at[1] \notin 0..Width - 1

(* Earth that is gone holds nobody, and who stands may walk, or else falls. *)
Held(g, w) == IF w.grounded /\ ~supported(g, w.at) THEN Aloft(w) ELSE w
WalkIfHeld(g, w, dx) == IF w.grounded /\ dx # 0 THEN Walk(g, w, dx) ELSE w
FallUnlessHeld(t, i, m) == IF t.body[i].grounded THEN t ELSE Fall(t, i, m.vel, m.chute)

(* Only the active one walks, thrusts or hangs on the rope. *)
moveWorm(t, i, m) ==
  LET w == t.body[i]
  IN  IF ~w.alive THEN t
      ELSE IF Lost(w) THEN Put(t, i, [w EXCEPT !.alive = FALSE])
      ELSE IF m.rope # "none" /\ ~w.grounded THEN Put(t, i, swing(t.land, w, m.vel, m.rope = "reeled"))
      ELSE FallUnlessHeld(Put(t, i, WalkIfHeld(t.land, Held(t.land, w), m.walk)), i, m)

(* Step: the water; and (history) where a Stakey has stood last.           *)
Drowned(t, i) ==
  LET w == t.body[i]
  IN  Put(t, i, [w EXCEPT !.alive = @ /\ w.at[2] < WaterY,
                          !.top = IF w.grounded THEN w.at[2] ELSE @])

(* Who is nearer than the radius is thrown off its feet. *)
explode(t, c) ==
  LET hit(w) == w.alive /\ Distance(Minus(w.at, <<0, 1>>), c) < Crater
  IN  [Cleared(t, Circle(c, Crater), CircleBox(c, Crater))
         EXCEPT !.body = [i \in Stakeys |-> IF hit(@[i]) THEN Aloft(@[i]) ELSE @[i]]]

-------------------------------------------------------------------------------
(* What the player does with the active Stakey; power and time of a weapon  *)
(* are abstracted.                                                         *)

(* The drill: first the room of the body, then cuts the way it points to.   *)
dig(t, dir) ==
  LET at   == t.body[Active].at
      x    == at[1]
      y    == at[2]
      room == <<x - HalfWidth - 1, y - BodyHeight - 1, x + HalfWidth + 2, y>>
      cut  == Plus(Minus(at, <<0, 1>>), dir)
  IN  Cleared(Cleared(t, Rect(room[1], room[2], room[3], room[4]), room), Circle(cut, 1), CircleBox(cut, 1))

GirderBox(p) == <<p[1] - 1, p[2] - 1, p[1] + 1, p[2] + 1>>
Girder(p) == Rect(p[1] - 1, p[2] - 1, p[1] + 1, p[2] + 1)

(* A girder at p would overlap the body of w. *)
Overlaps(w, p) ==
  /\ w.at[1] + HalfWidth >= p[1] - 1 /\ w.at[1] - HalfWidth < p[1] + 1
  /\ w.at[2] >= p[2] - 1 /\ w.at[2] - BodyHeight < p[2] + 1

CanReach(t, p) ==
  /\ Distance(p, t.body[Active].at) <= Reach
  /\ p[1] >= 1 /\ p[1] + 1 < Width /\ p[2] >= 1 /\ p[2] + 1 < WaterY
  /\ Girder(p) \cap t.land = {}

(* The whole girder is free: of earth, of Stakeys and of the water; objects *)
(* and projectiles, which block one too, are not here.                     *)
CanPlaceGirder(t, p) ==
  CanReach(t, p) /\ \A i \in Stakeys : t.body[i].alive => ~Overlaps(t.body[i], p)

placeGirder(t, p) == Built(t, Girder(p), GirderBox(p))

Now == [land |-> land, body |-> body, dirty |-> <<>>, hurt |-> {}]

Changing == changes < MaxChanges
Still == [walk |-> 0, vel |-> <<0, 1>>, chute |-> FALSE, rope |-> "none"]

Moved(t, i, m) == Drowned(moveWorm(t, i, m), i)
BothMoved(t, m) == Moved(Moved(t, Active, m), 3 - Active, Still)

Repaints(mends) ==
  picture' = IF mends = {} THEN picture
             ELSE [p \in Cells |-> IF p \in mends THEN Shade(land', p) ELSE picture[p]]

TickEnds(t) ==
  /\ changes' = IF t.dirty = <<>> THEN changes ELSE changes + 1
  /\ land' = t.land
  /\ body' = [i \in Stakeys |-> [t.body[i] EXCEPT !.vx = 0, !.vy = 0]]
  /\ hurt' = t.hurt
  /\ Repaints(Repainted(t.dirty))

(* State.Step: the input has made t of the last tick; both Stakeys move,    *)
(* then something may explode; and the picture follows.                    *)
Step(t) ==
  \E m \in Motions :
    \/ TickEnds(BothMoved(t, m))
    \/ Changing /\ \E c \in Targets : TickEnds(explode(BothMoved(t, m), c))

me == body[Active]

Walks == Step(Now)

(* A jump needs the ground; the rope is shot from there or in mid-air. *)
Jumps == me.alive /\ me.grounded /\ Step(Put(Now, Active, Aloft(me)))
Attaches == me.alive /\ Step(Put(Now, Active, Aloft(me)))

(* The jetpack: off the ground, from where the last fall ended. *)
Thrusts == me.alive /\ me.grounded /\ Step(Put(Now, Active, [me EXCEPT !.grounded = FALSE]))

Drills == me.alive /\ Changing /\ \E dir \in Directions : Step(dig(Now, dir))

Builds ==
  me.alive /\ Changing /\ \E p \in Targets : CanPlaceGirder(Now, p) /\ Step(placeGirder(Now, p))

Teleports ==
  /\ me.alive
  /\ \E p \in Targets :
       /\ ~blocked(land, p)
       /\ Step(Put(Now, Active, [Aloft([me EXCEPT !.at = p]) EXCEPT !.top = p[2]]))

Standing(p) ==
  [at |-> p, alive |-> TRUE, grounded |-> TRUE, apex |-> p[2], top |-> p[2], vx |-> 0, vy |-> 0]

GroundInit ==
  /\ \E l \in Lands : land = l.ground /\ body = [i \in Stakeys |-> Standing(l.at[i])]
  /\ picture = Paint(land) /\ changes = 0 /\ hurt = {}

GroundNext ==
  \/ Walks \/ Jumps \/ Attaches \/ Thrusts \/ Drills \/ Builds \/ Teleports

GroundSpec == GroundInit /\ [][GroundNext]_groundVars

-------------------------------------------------------------------------------

Bodies == [at : Int \X Int, alive : BOOLEAN, grounded : BOOLEAN,
           apex : Int, top : Int, vx : {0}, vy : {0}]

GroundTypeOK ==
  /\ land \subseteq Cells
  /\ DOMAIN body = Stakeys /\ \A i \in Stakeys : body[i] \in Bodies
  /\ DOMAIN picture = Cells
  /\ changes \in 0..MaxChanges + 1

(* No living Stakey is ever inside of the earth: neither a walk, a fall or  *)
(* a swing takes it there, each of which has a sweep of its own, nor a      *)
(* girder, a teleport, or another Stakey's work beside it.  Only a drill    *)
(* could free it again.                                                    *)
NobodyBuried == \A i \in Stakeys : body[i].alive => ~blocked(land, body[i].at)

(* The screen shows the ground that the simulation has, shades included,    *)
(* though it repaints only near the areas that the effects report.         *)
PictureShowsGround == picture = Paint(land)

(* A fall hurts only who has fallen: a Stakey that was carried, thrown,     *)
(* teleported or pulled up a rope in between pays at most for the height    *)
(* since it last stood.                                                    *)
FallsAreReal == \A h \in hurt : h.damage > 0 => h.fell >= h.damage + SafeFall
================================================================================
