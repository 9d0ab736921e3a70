-------------------------------- MODULE Window --------------------------------
(***************************************************************************)
(* cmd/stakewars/network.go and main.go: the turns of a network match as   *)
(* the window plays and shows them, beside the session that signs them.    *)
(*                                                                         *)
(* A frame first reads the session's view.  In its own turn the window     *)
(* simulates tick by tick what the player does and submits the whole turn  *)
(* when it ends; it shows a remote turn once the journal has accepted it.  *)
(* The session's loop takes submitted turns from a queue, and a            *)
(* reconnection replaces the session, queue and all, under the window.     *)
(*                                                                         *)
(* A turn is the sequence of what was done in its TurnTicks ticks, and a   *)
(* state of the simulation is the turns so far and the ticks of this one;  *)
(* equal hashes are equal states.  The stakes are taken as verified.       *)
(***************************************************************************)
EXTENDS Integers, SequencesExt

CONSTANTS
  Moves, TurnTicks,
  MaxTurns,    \* bound: the match ends after so many
  QueueSize,   \* of the channel turns
  WindowFailures  \* subset of {"tick", "write", "disconnect", "switch", "quit"}

ASSUME WindowAssumption ==
  TurnTicks \in Nat \ {0} /\ MaxTurns \in Nat /\ QueueSize \in Nat \ {0}

OwnTurn(t) == t % 2 = 0    \* two seats alternate; the window's seat begins
Turns   == [1..TurnTicks -> Moves]
NoMatch == "none"          \* no head, batch or reservation

VARIABLES
  game,      \* the window: match, turns and ticks simulated, turnInputs, remoteBatch, submitted
  session,   \* the controller: nil or not, its match opened, its queue, its view
  journal    \* durable: the accepted turns, and the reserved one

windowVars == <<game, session, journal>>

(* The state simulated: hist is the turns that ended, now the ticks since. *)
Games ==
  [match : {NoMatch, "this", "other"}, hist : UNION {[1..n -> Turns] : n \in 0..MaxTurns},
   now : UNION {[1..n -> Moves] : n \in 0..TurnTicks - 1},
   inputs : Seq(Moves), batch : Turns \cup {<<>>},
   submitted : BOOLEAN, diverged : BOOLEAN, overtaken : BOOLEAN]

NoGame ==
  [match |-> NoMatch, hist |-> <<>>, now |-> <<>>, inputs |-> <<>>, batch |-> <<>>,
   submitted |-> FALSE, diverged |-> FALSE, overtaken |-> FALSE]

NoSession == [up |-> FALSE, opened |-> FALSE, queue |-> <<>>, view |-> NoMatch, head |-> -1]

WindowTypeOK ==
  /\ game \in Games
  /\ session.up \in BOOLEAN /\ session.opened \in BOOLEAN /\ Len(session.queue) <= QueueSize
  /\ session.view \in {NoMatch, "this", "other"} /\ session.head \in -1..MaxTurns
  /\ Len(journal.log) <= MaxTurns /\ journal.reserved \in Turns \cup {<<>>}

WindowInit == game = NoGame /\ session = NoSession /\ journal = [log |-> <<>>, reserved |-> <<>>]

Turn(w) == Len(w.hist)
Ended(w) == Turn(w) = MaxTurns

-------------------------------------------------------------------------------
(* A frame                                                                 *)

(* Mutant: the batch under replay survives a change of table. *)
RestartedInBatch(w) ==
  IF session.view = "other" THEN [NoGame EXCEPT !.match = "other", !.batch = w.batch]
  ELSE [NoGame EXCEPT !.match = "this", !.hist = SubSeq(journal.log, 1, session.head), !.batch = w.batch,
                      !.overtaken = session.queue # <<>> \/ journal.reserved # <<>>]

(* pollSession: a match that comes to the foreground starts at its head.    *)
(* overtaken (history): a turn of its own was still on its way past it.     *)
Restarted(w) ==
  IF session.view = "other" THEN [NoGame EXCEPT !.match = "other"]
  ELSE [NoGame EXCEPT !.match = "this", !.hist = SubSeq(journal.log, 1, session.head),
                      !.overtaken = session.queue # <<>> \/ journal.reserved # <<>>]

pollSession ==
  LET w == IF session.head >= 0 /\ game.match # session.view THEN Restarted(game) ELSE game
  IN  IF w.submitted /\ session.head >= Turn(w) THEN [w EXCEPT !.submitted = FALSE] ELSE w

LocalTurn(w) ==
  /\ session.head >= 0 /\ ~w.submitted
  /\ OwnTurn(Turn(w)) /\ session.head = Turn(w)

Playing(w) == session.up /\ w.match = "this" /\ ~Ended(w) /\ ~w.diverged

(* sim.Step: another tick, the last of the turn or not. *)
step(w, m) ==
  IF Len(w.now) + 1 = TurnTicks
    THEN [w EXCEPT !.hist = Append(@, Append(w.now, m)), !.now = <<>>]
    ELSE [w EXCEPT !.now = Append(@, m)]

(* Update and advanceNetworkIdle in the own turn: the turn goes into the    *)
(* queue when it ends, or stays with the window if the queue is full.      *)
LocalFrame(m) ==
  LET f == pollSession
      w == [f EXCEPT !.inputs = Append(@, m)]
      v == step(w, m)
  IN  /\ Playing(f) /\ LocalTurn(f)
      /\ IF Turn(v) = Turn(w) THEN game' = v /\ UNCHANGED session
         ELSE IF Len(session.queue) < QueueSize
           THEN /\ game' = [v EXCEPT !.submitted = TRUE, !.inputs = <<>>]
                /\ session' = [session EXCEPT !.queue = Append(@, [after |-> v.hist, inputs |-> v.inputs])]
           ELSE game' = v /\ UNCHANGED session
      /\ UNCHANGED journal

(* updateRemoteTurn: the accepted turn, tick by tick, and the hash at its   *)
(* end.  It may be the own turn.                                           *)
RemoteFrame ==
  LET f == pollSession
      w == IF f.batch = <<>> THEN [f EXCEPT !.batch = journal.log[Turn(f) + 1]] ELSE f
      v == step(w, w.batch[Len(w.now) + 1])
  IN  /\ Playing(f) /\ ~LocalTurn(f) /\ ~f.submitted
      /\ f.batch # <<>> \/ (session.opened /\ Turn(f) < Len(journal.log))
      /\ game' = IF Turn(v) = Turn(w) THEN v
                 ELSE [v EXCEPT !.batch = <<>>, !.diverged = ~IsPrefix(v.hist, journal.log)]
      /\ UNCHANGED <<session, journal>>

(* Nothing to show yet, or another table in the foreground. *)
IdleFrame ==
  /\ game' = pollSession /\ game' # game
  /\ UNCHANGED <<session, journal>>

-------------------------------------------------------------------------------
(* The session                                                             *)

connectBridge ==
  /\ ~session.up /\ ~game.diverged
  /\ session' = [NoSession EXCEPT !.up = TRUE]
  /\ UNCHANGED <<game, journal>>

(* stopBridge: the session and its queue are gone, the game stays.          *)
stopBridge ==
  /\ "disconnect" \in WindowFailures /\ session.up
  /\ session' = NoSession
  /\ UNCHANGED <<game, journal>>

(* The program ends, by itself when a replay has diverged. *)
Quit ==
  /\ "quit" \in WindowFailures \/ game.diverged
  /\ game' = NoGame /\ session' = NoSession
  /\ UNCHANGED journal

(* The head that publishHead leaves in the view of the match it shows. *)
Published(k) == IF session.view = "this" THEN [k EXCEPT !.head = Len(journal'.log)] ELSE k

(* refresh; the first one opens the match and resumes the reserved turn.    *)
refresh ==
  /\ session.up
  /\ IF ~session.opened /\ journal.reserved # <<>>
       THEN journal' = [log |-> Append(journal.log, journal.reserved), reserved |-> <<>>]
       ELSE UNCHANGED journal
  /\ session' = [session EXCEPT !.opened = TRUE, !.view = "this", !.head = Len(journal'.log)]
  /\ UNCHANGED game

(* A tick that ends early shows no head. *)
refreshEarly ==
  /\ "tick" \in WindowFailures /\ session.up /\ session.head >= 0
  /\ session' = [session EXCEPT !.view = "this", !.head = -1]
  /\ UNCHANGED <<game, journal>>

(* The player brings another table to the foreground, one that has begun.   *)
refreshOther ==
  /\ "switch" \in WindowFailures /\ session.up /\ session.opened
  /\ session' = [session EXCEPT !.view = "other", !.head = 0]
  /\ UNCHANGED <<game, journal>>

(* submit: it is this seat's turn, and the inputs replay to the state after.*)
Accepts(cmd) ==
  /\ session.opened /\ Len(journal.log) < MaxTurns /\ OwnTurn(Len(journal.log))
  /\ cmd.after = Append(journal.log, cmd.inputs)
  /\ journal.reserved \in {<<>>, cmd.inputs}

submit ==
  /\ session.queue # <<>>
  /\ journal' = IF Accepts(Head(session.queue))
                  THEN [log |-> Append(journal.log, Head(session.queue).inputs), reserved |-> <<>>]
                  ELSE journal
  /\ session' = Published([session EXCEPT !.queue = Tail(@)])
  /\ UNCHANGED game

(* The turn is reserved, the accepted one cannot be written. *)
submitFails ==
  /\ "write" \in WindowFailures /\ session.queue # <<>> /\ Accepts(Head(session.queue))
  /\ journal' = [journal EXCEPT !.reserved = Head(session.queue).inputs]
  /\ session' = [session EXCEPT !.queue = Tail(@)]
  /\ UNCHANGED game

(* receive: the other seat's turn. *)
receive ==
  /\ session.opened /\ Len(journal.log) < MaxTurns /\ ~OwnTurn(Len(journal.log))
  /\ \E b \in Turns : journal' = [journal EXCEPT !.log = Append(@, b)]
  /\ session' = Published(session)
  /\ UNCHANGED game

WindowNext ==
  \/ \E m \in Moves : LocalFrame(m)
  \/ RemoteFrame \/ IdleFrame
  \/ connectBridge \/ stopBridge \/ Quit
  \/ refresh \/ refreshEarly \/ refreshOther
  \/ submit \/ submitFails \/ receive

WindowSpec == WindowInit /\ [][WindowNext]_windowVars

-------------------------------------------------------------------------------
(* What the window shows of the turns that the journal holds is what the    *)
(* journal holds, so that no replay ever diverges: through reconnections   *)
(* in mid-turn, restarts, failed writes and tables brought to the          *)
(* foreground and back; but for a table that comes back while a turn of    *)
(* its own is still in the queue, which the window lets the player take    *)
(* again (network.go:172).                                                 *)
WindowShowsTheMatch ==
  ~game.overtaken =>
    /\ ~game.diverged
    /\ game.match = "this" =>
         \A t \in 1..Turn(game) : t <= Len(journal.log) => game.hist[t] = journal.log[t]
===============================================================================
