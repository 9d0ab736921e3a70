--------------------------------- MODULE Frame ---------------------------------
(***************************************************************************)
(* cmd/stakewars: one frame of the window.  Update polls the session and   *)
(* then goes to the screen that is open; every screen decides by itself    *)
(* what becomes of the turn's countdown and of a shot that is charging.    *)
(*                                                                         *)
(* A frame sees whether the fire key is down, the keys that were just      *)
(* pressed and where the mouse was; release builds only, so there is no    *)
(* arena without a network match.  The simulation is reduced to the turn   *)
(* that ends; the session's view changes between frames.                   *)
(***************************************************************************)
EXTENDS Naturals

CONSTANTS
  Tables,      \* the player's tables
  FullPower    \* frames to full power: 84 in the code

ASSUME FrameAssumption == FullPower \in Nat

None  == "none"
Keys  == {"escape", "pause", "controls", "menu", "enter", "tab"}
Spots == {None, "settings", "tables", "resume", "quit", "help", "back", "panel", "binding"}

(* Bound: one key or one click in a frame, or the two keys that open and    *)
(* close the pause.                                                        *)
KeySets == {{}, {"escape", "pause"}} \cup {{k} : k \in Keys}

VARIABLES
  w,      \* the window; shot and step are of the frame under way
  v,      \* the session's view: table in the foreground, its head, own turn
  past    \* history: frames lost, automatic shot, age of the charge

frameVars == <<w, v, past>>

FrameTypeOK ==
  /\ w \in [startup : {"cover", "ready", "over"}, settings : BOOLEAN, table : Tables \cup {None},
            open : BOOLEAN, help : BOOLEAN, arena : BOOLEAN, paused : BOOLEAN,
            controls : BOOLEAN, binding : BOOLEAN, menu : BOOLEAN, charging : BOOLEAN,
            power : 0..FullPower, released : BOOLEAN, match : Tables \cup {None},
            playing : BOOLEAN, ended : BOOLEAN, reviewing : BOOLEAN, clicked : BOOLEAN, quit : BOOLEAN,
            shot : {None}, step : {FALSE}]
  /\ v \in [table : Tables \cup {None}, head : BOOLEAN, own : BOOLEAN, asked : BOOLEAN]
  /\ past \in [idle : 0..2, held : BOOLEAN, stale : BOOLEAN, crossed : BOOLEAN]

(* reset, and the fields of a window that has just opened. *)
FrameInit ==
  /\ w = [startup |-> "cover", settings |-> FALSE, table |-> None, open |-> FALSE,
          help |-> FALSE, arena |-> FALSE, paused |-> FALSE, controls |-> FALSE,
          binding |-> FALSE, menu |-> FALSE, charging |-> FALSE, power |-> 0,
          released |-> TRUE, match |-> None, playing |-> TRUE, ended |-> FALSE, reviewing |-> FALSE,
          clicked |-> FALSE, quit |-> FALSE, shot |-> None,
          step |-> FALSE]
  /\ v = [table |-> None, head |-> FALSE, own |-> FALSE, asked |-> FALSE]
  /\ past = [idle |-> 0, held |-> FALSE, stale |-> FALSE, crossed |-> FALSE]

Calm(f) == [f EXCEPT !.charging = FALSE, !.power = 0]

(* pollSettings and pollSession: a table that is new in the foreground      *)
(* opens its room, and a match that begins or comes back takes the state.  *)
Polled(fire) ==
  LET a == [w EXCEPT !.released = @ \/ ~fire, !.table = v.table]
      b == IF v.table \notin {None, w.table}
             THEN [a EXCEPT !.open = TRUE, !.settings = FALSE, !.arena = FALSE] ELSE a
  IN  IF v.head /\ w.match # v.table
        THEN [b EXCEPT !.match = v.table, !.playing = TRUE, !.ended = FALSE, !.reviewing = FALSE]
      ELSE b

(* sim.Step, in the own turn or replaying: Ready and Playing, the retreat   *)
(* and the resolution that end the turn.  The camera shows the last hit.    *)
Ends(f) == IF f.playing THEN {"goes on", "retreat"} ELSE {"goes on", "turn", "match"}
Stepped(f, end) ==
  [f EXCEPT !.step = TRUE,
            !.playing = IF end = "goes on" THEN @ ELSE end = "turn",
            !.ended = end = "match", !.reviewing = end = "match"]

(* updateRemoteTurn *)
Remote(f, end) == Stepped(Calm(f), end)

(* Mutant: the screens hold the countdown up. *)
IdleWaits(f, end) ==
  IF f.match = None \/ f.ended \/ v.own THEN f ELSE Remote(f, end)

(* advanceNetworkIdle: screens suppress inputs, not the countdown. *)
Idle(f, end) ==
  IF f.match = None \/ f.ended THEN f
  ELSE IF v.own THEN Stepped(f, end) ELSE Remote(f, end)

(* updateControls, with a key to bind or without. *)
Controls(f, keys, spot) ==
  IF f.binding THEN [f EXCEPT !.binding = keys = {}]
  ELSE [f EXCEPT !.binding = spot = "binding"]

(* updateSettings: escape leaves the key to bind, then the screen. *)
Settings(f, keys, spot) ==
  IF "escape" \in keys
    THEN IF f.binding THEN [f EXCEPT !.binding = FALSE] ELSE [f EXCEPT !.settings = FALSE]
  ELSE IF spot = "quit" THEN [f EXCEPT !.quit = TRUE]
  ELSE IF spot = "back" THEN [f EXCEPT !.settings = FALSE, !.binding = FALSE]
  ELSE Controls(f, keys, spot)

(* updateTableLobby *)
Room(f, keys, spot) ==
  IF f.help THEN [f EXCEPT !.help = "escape" \notin keys /\ spot # "help"]
  ELSE IF "escape" \in keys \/ spot = "back" THEN [f EXCEPT !.open = FALSE]
  ELSE IF v.head /\ ("enter" \in keys \/ spot = "resume")
    THEN [f EXCEPT !.arena = TRUE, !.paused = FALSE]
  ELSE [f EXCEPT !.help = spot = "help"]

(* The lobby behind the room. *)
Lobby(f, keys, spot) ==
  IF "escape" \in keys \/ spot = "quit" THEN [f EXCEPT !.quit = TRUE]
  ELSE IF f.match # None /\ ("enter" \in keys \/ spot = "resume")
    THEN [f EXCEPT !.arena = TRUE, !.paused = FALSE] ELSE f

(* The arena's keys for its menus: what they leave of the charge. *)
Menus(f, keys, spot) ==
  LET a == IF "controls" \in keys /\ ~f.paused /\ ~f.binding
             THEN Calm([f EXCEPT !.controls = ~@, !.menu = FALSE]) ELSE f
      b == IF a.controls THEN Controls(a, keys, spot) ELSE a
      c == IF "escape" \in keys /\ ~b.controls
             THEN Calm(IF b.menu THEN [b EXCEPT !.menu = FALSE] ELSE [b EXCEPT !.paused = ~@])
             ELSE b
  IN  IF "pause" \in keys /\ ~c.controls THEN [c EXCEPT !.paused = ~@] ELSE c

Paused(f, spot) ==
  Calm(IF spot = "resume" THEN [f EXCEPT !.paused = FALSE]
       ELSE IF spot = "back" THEN [f EXCEPT !.arena = FALSE, !.paused = FALSE] ELSE f)

Weapons(f, keys, spot) ==
  LET a == IF "menu" \in keys /\ ~f.controls THEN Calm([f EXCEPT !.menu = ~@]) ELSE f
  IN  IF a.menu /\ spot # None THEN [a EXCEPT !.menu = FALSE] ELSE a

(* Mutant: the key need not be let go after a shot at full power. *)
ChargeAgain(f, fire) ==
  IF fire THEN IF f.power + 1 < FullPower THEN [f EXCEPT !.charging = TRUE, !.power = @ + 1]
               ELSE [Calm(f) EXCEPT !.shot = "automatic"]
  ELSE IF f.charging THEN [Calm(f) EXCEPT !.shot = "released"] ELSE f

(* chargeShot: the shot goes off on release or at full power. *)
Charge(f, fire) ==
  IF ~f.released /\ fire THEN f
  ELSE IF fire THEN IF f.power + 1 < FullPower THEN [f EXCEPT !.charging = TRUE, !.power = @ + 1]
                    ELSE [Calm(f) EXCEPT !.released = FALSE, !.shot = "automatic"]
  ELSE IF f.charging THEN [Calm(f) EXCEPT !.shot = "released"] ELSE f

(* The end of Update in the own turn: a weapon that charges, a phase in     *)
(* which it may, and no panel in the way.                                  *)
Local(f, fire, charges, covered, end) ==
  LET a == IF f.playing /\ charges /\ ~covered THEN Charge(f, fire) ELSE Calm(f)
      b == Stepped(a, end)
  IN  IF end = "turn" THEN Calm([b EXCEPT !.menu = FALSE]) ELSE b

-------------------------------------------------------------------------------
(* The screen that a frame goes to from the state polled, and its end.     *)
Arena(f, keys, spot) == Weapons(Menus(f, keys, spot), keys, spot)

Screen(f, keys, spot) ==
  IF f.settings THEN "settings"
  ELSE IF ~f.arena /\ spot = "settings" THEN "open settings"
  ELSE IF ~f.arena /\ f.open THEN "room"
  ELSE IF ~f.arena /\ spot = "tables" /\ "escape" \notin keys THEN "open room"
  ELSE IF ~f.arena THEN "lobby"
  ELSE IF f.ended THEN "ended"
  ELSE IF Menus(f, keys, spot).paused THEN "paused"
  ELSE IF v.own THEN "own turn" ELSE "remote turn"

After(f, screen, fire, keys, spot, charges, end) ==
  CASE screen = "settings"      -> Idle(Settings(f, keys, spot), end)
    [] screen = "open settings" -> [f EXCEPT !.settings = TRUE, !.binding = FALSE]
    [] screen = "room"          -> Idle(Room(f, keys, spot), end)
    [] screen = "open room"     -> [f EXCEPT !.open = TRUE]
    [] screen = "lobby"         -> Idle(Lobby(f, keys, spot), end)
    [] screen = "ended"         -> IF ~f.reviewing /\ ("escape" \in keys \/ spot = "back")
                                     THEN [f EXCEPT !.arena = FALSE, !.paused = FALSE] ELSE f
    [] screen = "paused"        -> Idle(Paused(Menus(f, keys, spot), spot), end)
    [] screen = "remote turn"   -> Remote(Arena(f, keys, spot), end)
    [] screen = "own turn"      ->
         LET a == Arena(f, keys, spot)
             covered == a.controls \/ Menus(f, keys, spot).menu \/ a.menu \/ spot = "panel"
         IN  Local(a, fire, charges, covered, end)

Remembered(f, f2, fire, end) ==
  [idle |-> IF v.own /\ ~f.ended /\ ~f2.step THEN past.idle + 1 ELSE 0,
   held |-> fire /\ (past.held \/ f2.shot = "automatic"),
   stale |-> f2.charging /\ w.charging
               /\ (past.stale \/ f.match # w.match \/ end = "turn"),
   crossed |-> f2.charging /\ (past.crossed \/ (w.arena /\ ~f.arena))]

(* Startup: the cover first, the state when it has been drawn. *)
Startup(keys, spot) ==
  /\ w.startup # "over" /\ "escape" \notin keys
  /\ \E ready \in IF w.startup = "ready" THEN {"ready"} ELSE {"cover", "ready"} :
       w' = [w EXCEPT !.startup = IF ready = "ready" /\ ("enter" \in keys \/ spot # None)
                                    THEN "over" ELSE ready,
                      !.clicked = spot # None]
  /\ UNCHANGED <<v, past>>

Update(fire, keys, spot) ==
  /\ w.startup = "over"
  /\ LET f == Polled(fire)
         screen == Screen(f, keys, spot)
         steps == screen \notin {"open settings", "open room", "ended"} /\ f.match # None /\ ~f.ended
     IN  \E charges \in IF screen = "own turn" THEN BOOLEAN ELSE {FALSE},
            end \in IF steps THEN Ends(f) ELSE {"goes on"} :
           LET f2 == After(f, screen, fire, keys, spot, charges, end)
           IN  /\ w' = [f2 EXCEPT !.clicked = spot # None, !.shot = None, !.step = FALSE]
               /\ v' = [v EXCEPT !.own = @ /\ end \notin {"turn", "match"},
                                 !.asked = @ \/ (screen = "room" /\ ~f.help /\ "tab" \in keys)]
               /\ past' = Remembered(f, f2, fire, end)

(* A mouse button is not just pressed in two frames that follow each other. *)
Frame ==
  /\ ~w.quit
  /\ \E fire \in BOOLEAN, keys \in KeySets :
       \E spot \in IF w.clicked \/ keys # {} THEN {None} ELSE Spots :
         Startup(keys, spot) \/ Update(fire, keys, spot)

(* Camera.Advance, after the frame: the impact has been reviewed. *)
Reviewed ==
  /\ w.reviewing /\ w' = [w EXCEPT !.reviewing = FALSE]
  /\ UNCHANGED <<v, past>>

(* The session's tick.  A table that comes to the foreground by itself while *)
(* another is played has not begun; one that the player asked for may have. *)
View ==
  /\ \E t \in Tables \cup {None}, h, o \in BOOLEAN :
       /\ o => h
       /\ h => t # None /\ (t = v.table \/ v.asked \/ ~w.arena)
       /\ v' = [table |-> t, head |-> h, own |-> o, asked |-> v.asked /\ t = v.table]
  /\ UNCHANGED <<w, past>>

FrameNext == Frame \/ Reviewed \/ View
FrameSpec == FrameInit /\ [][FrameNext]_frameVars

-------------------------------------------------------------------------------
(* "Menus and the lobby suppress inputs, not the multiplayer turn           *)
(* countdown" (network.go): whatever screens the player goes through in the *)
(* own turn, no two frames in a row go by without a step of the simulation. *)
CountdownRuns == past.idle <= 1

(* "Holding fire after an automatic shot cannot start another charge, even  *)
(* across a turn transition" (charge.go), and a charge begun in one turn    *)
(* never goes off in another one or in another match; but for a table the   *)
(* player asked for that comes up while fire is held, where pollSession     *)
(* takes the screen and leaves the charge.                                 *)
ChargeIsOfThisTurn ==
  w.charging => ~past.held /\ (past.stale => past.crossed)
===============================================================================
