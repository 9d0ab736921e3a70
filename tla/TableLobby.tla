------------------------------ MODULE TableLobby ------------------------------
(***************************************************************************)
(* internal/tablelobby and pollSession of cmd/stakewars/network.go: what   *)
(* the room of a table tells its player, derived in every frame from the   *)
(* session's view.  The evidence of the view may change in any direction:  *)
(* outputs are reorganised away, checks fail, the bridge comes and goes.   *)
(*                                                                         *)
(* A payment keeps its phase, whether it was checked locally, and whether  *)
(* it has its confirmations.  Live tables only; the demonstration tables   *)
(* of development builds are left out.                                     *)
(***************************************************************************)
EXTENDS Naturals

CONSTANT NSeats       \* 2 to 6
ASSUME LobbyAssumption == NSeats \in Nat /\ NSeats >= 2

Places == 1..NSeats
Ours   == 1            \* the window's seat, once the seats are drawn

(* What the local verifier says of a deposit; "none": there is no deposit.  *)
Checks == {"none", "announced", "confirming", "verified", "missing", "spending", "spent"}

VARIABLES
  view,   \* the session's view: what the runtime and the controller found
  t       \* the table as the window holds it

lobbyVars == <<view, t>>

Facts ==
  [connected : BOOLEAN, height : BOOLEAN, closed : BOOLEAN, joins : 0..NSeats,
   drawn : BOOLEAN, admission : BOOLEAN, world : BOOLEAN, payouts : BOOLEAN,
   play : {"none", "playing", "proposing", "mempool", "confirmed"},
   stake : [Places -> Checks], bond : Checks]

(* refresh fills a view from the top: a step that fails leaves the rest. A  *)
(* receipt outranks every step, the journal's end outranks the stakes.      *)
Refreshed(u) ==
  LET drawn == u.drawn /\ u.joins = NSeats
      admission == u.admission /\ drawn /\ ~u.closed
      world == u.world /\ admission
      staked == u.payouts /\ \A i \in Places : u.stake[i] = "verified"
  IN  [u EXCEPT !.drawn = drawn, !.admission = admission, !.world = world,
                !.stake = IF drawn THEN @ ELSE [i \in Places |-> "none"],
                !.play = IF @ = "confirmed" THEN IF drawn THEN @ ELSE "none"
                         ELSE IF ~world \/ (@ = "playing" /\ ~staked) THEN "none" ELSE @]

Finished(u) == u.play \in {"proposing", "mempool", "confirmed"}

-------------------------------------------------------------------------------
(* Payments                                                                *)

Unknown == [phase |-> "unknown", checked |-> FALSE, enough |-> FALSE]

(* Mutant: what was announced counts as checked. *)
PaymentOfClaims(u, check, purpose) ==
  [phase |-> IF check = "none" THEN "unknown" ELSE "verified", checked |-> TRUE, enough |-> TRUE]

(* pollSession's reading of one deposit. *)
PaymentOf(u, check, purpose) ==
  IF check = "none" THEN Unknown
  ELSE IF Finished(u) /\ purpose = "stake" /\ check \in {"spending", "spent", "missing"}
    THEN [phase |-> "paidOut", checked |-> TRUE, enough |-> FALSE]
  ELSE IF Finished(u) /\ purpose = "bond" /\ check = "verified"
    THEN [phase |-> "locked", checked |-> TRUE, enough |-> FALSE]
  ELSE [phase |-> IF check \in {"confirming", "verified"} THEN check
                  ELSE IF check = "missing" THEN "rejected" ELSE "announced",
        checked |-> check \in {"confirming", "verified"},
        enough  |-> check = "verified"]

Complete(p) == p.phase = "verified" /\ p.checked /\ p.enough

(* The long label of a payment, and the two short ones of a seat's card.    *)
Label(p) ==
  IF Complete(p) THEN "verified"
  ELSE IF p.phase \in {"confirming", "verified"}
    THEN IF p.checked THEN "confirming" ELSE "awaiting verification"
  ELSE p.phase

BondCardLabel(p) ==
  IF Complete(p) THEN "bond verified"
  ELSE IF p.phase \in {"confirming", "verified"} /\ p.checked THEN "bond posted"
  ELSE IF p.phase \in {"announced", "confirming", "verified"} THEN "verifying output"
  ELSE IF p.phase = "rejected" THEN "bond rejected" ELSE "no bond"

StakeCardLabel(p) ==
  IF p.phase \in {"confirming", "verified"} /\ p.checked THEN "stake paid" ELSE "waiting for stake"

-------------------------------------------------------------------------------
(* The table                                                               *)

(* pollSession: the seats of the draw, or the players in the order of their *)
(* joins; the own bond before that in a provisional place.                  *)
SeatOf(u, i) ==
  [joined    |-> u.joins >= i, committed |-> u.drawn,
   admission |-> IF i = Ours /\ u.bond # "none" THEN PaymentOf(u, u.bond, "bond")
                 ELSE IF u.drawn /\ u.admission
                   THEN [phase |-> "verified", checked |-> TRUE, enough |-> TRUE]
                 ELSE Unknown,
   stake     |-> PaymentOf(u, u.stake[i], "stake")]

Derived(u) ==
  [seats |-> [i \in Places |-> SeatOf(u, i)], connected |-> u.connected, chain |-> u.height,
   stale |-> FALSE, closed |-> u.closed, roster |-> u.joins = NSeats, drawn |-> u.drawn,
   world |-> u.world \/ u.play # "none", payouts |-> u.payouts,
   finished |-> Finished(u), payout |-> u.play]

(* The first condition that is not met. *)
Stage(b) ==
  IF b.finished THEN 8
  ELSE IF b.stale \/ ~b.connected \/ ~b.chain
          \/ \E i \in Places : ~b.seats[i].joined \/ ~Complete(b.seats[i].admission) THEN 1
  ELSE IF ~b.roster \/ \E i \in Places : ~b.seats[i].committed THEN 2
  ELSE IF ~b.drawn THEN 3
  ELSE IF ~b.world THEN 4
  ELSE IF \E i \in Places : ~Complete(b.seats[i].stake) THEN 5
  ELSE IF ~b.payouts THEN 6 ELSE 7

SeatStatus(b, i) ==
  LET s == b.seats[i]
  IN  IF b.finished THEN "finished"
      ELSE IF ~s.joined THEN "no player"
      ELSE IF ~Complete(s.admission) THEN BondCardLabel(s.admission)
      ELSE IF ~s.committed THEN "agreeing roster"
      ELSE IF ~Complete(s.stake) THEN StakeCardLabel(s.stake) ELSE "funds verified"

Funded(b) ==
  {i \in Places : LET s == b.seats[i]
                 IN  s.joined /\ Complete(s.admission) /\ s.committed /\ Complete(s.stake)}

(* Guidance's title: the step that the player is told to wait for. *)
Guidance(b) ==
  IF b.finished THEN b.payout
  ELSE CASE Stage(b) = 1 -> "bonds"   [] Stage(b) = 2 -> "roster"
         [] Stage(b) = 3 -> "block"   [] Stage(b) = 4 -> "battlefield"
         [] Stage(b) = 5 -> "stakes"  [] Stage(b) = 6 -> "payouts" [] OTHER -> "play"

Closable(b) == b.closed \/ (b.finished /\ b.payout = "confirmed")

Empty ==
  [connected |-> TRUE, height |-> TRUE, closed |-> FALSE, joins |-> 0, drawn |-> FALSE,
   admission |-> FALSE, world |-> FALSE, payouts |-> FALSE, play |-> "none",
   stake |-> [i \in Places |-> "none"], bond |-> "none"]

LobbyInit == view = Empty /\ t = Derived(view)

(* The fact that changes before the next tick, in either direction. *)
Changes ==
  {[view EXCEPT !.stake[i] = c] : i \in Places, c \in Checks} \cup
  {[view EXCEPT !.bond = c] : c \in Checks} \cup
  {[view EXCEPT !.joins = n] : n \in 0..NSeats} \cup
  {[view EXCEPT !.play = p] : p \in {"none", "playing", "proposing", "mempool", "confirmed"}} \cup
  {[view EXCEPT !.connected = ~@], [view EXCEPT !.height = ~@], [view EXCEPT !.closed = ~@],
   [view EXCEPT !.drawn = ~@], [view EXCEPT !.admission = ~@], [view EXCEPT !.world = ~@],
   [view EXCEPT !.payouts = ~@]}

(* A tick, and a frame with a session: the table is made anew from its view. *)
PollSession ==
  \E u \in Changes : view' = Refreshed(u) /\ t' = Derived(view')

(* stopBridge *)
StopBridge ==
  /\ t' = [t EXCEPT !.connected = FALSE, !.chain = FALSE, !.stale = TRUE]
  /\ UNCHANGED view

LobbyTypeOK == view \in Facts

LobbyNext == PollSession \/ StopBridge
LobbySpec == LobbyInit /\ [][LobbyNext]_lobbyVars

-------------------------------------------------------------------------------
(* "Unknown, stale or invalid evidence never unlocks progress" (model.go):  *)
(* whatever the checks of the deposits said before, a step that the room    *)
(* shows as done was checked by this program for every seat, a card that    *)
(* calls the funds verified agrees with the step and the count, and only a  *)
(* paid or closed table can be put away.                                   *)
EvidenceUnlocks ==
  /\ Stage(t) \in 2..7 => view.admission /\ view.connected /\ view.bond \in {"none", "verified"}
  /\ Stage(t) >= 5 /\ ~t.finished => view.world
  /\ Stage(t) \in 6..7 => Funded(t) = Places /\ \A i \in Places : view.stake[i] = "verified"
  /\ \A i \in Places : SeatStatus(t, i) = "funds verified" <=> ~t.finished /\ i \in Funded(t)
  /\ \A i \in Funded(t) : view.stake[i] = "verified" /\ Label(t.seats[i].stake) = "verified"
  /\ Guidance(t) = "play" => view.payouts /\ Funded(t) = Places
  /\ Closable(t) => view.closed \/ view.play = "confirmed"
===============================================================================
