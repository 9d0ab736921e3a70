-------------------------------- MODULE MCParts --------------------------------
(***************************************************************************)
(* The parts of the program that share no state with each other, in one    *)
(* instance: a behaviour is a behaviour of one part, chosen at the start,  *)
(* and the variables of the others rest in one of their initial states.    *)
(***************************************************************************)
EXTENDS Settlement, Connection, SkipRound, TakeGame, TableLobby, Frame, Window, Settings, Ground,
        TurnTrace, Objects

VARIABLE part

MCRosters == {<<0, 1, 2, 3>>, <<1, 2>>, <<0, 2, 1>>, <<0>>}
MCTimings == [turnEndsAt : {2}, grace : {1, 15}, voteWindow : {0, 3, 14}]

Input(at, sequence) == [tick |-> at, sequence |-> sequence]
MCRecordings == {[ticks |-> 5, inputs |-> <<Input(0, 0), Input(1, 0), Input(1, 1), Input(3, 0)>>],
                 [ticks |-> 2, inputs |-> <<Input(1, 1), Input(1, 0)>>],
                 [ticks |-> 3, inputs |-> <<>>]}

MCColumns == 0..3
MCLayouts == {<<<<"barrel", 1>>, <<"mine", 3>>, <<"health", 2>>>>, <<<<"barrel", 3>>, <<"barrel", 1>>>>}

Area(xs, ys) == xs \X ys
MCLands   == {[ground |-> Area(0..4, {4}) \cup {<<2, 3>>}, at |-> <<<<0, 4>>, <<3, 4>>>>]}
MCTargets == {<<2, 2>>, <<3, 2>>}

partVars ==
  <<part, settlementVars, connectionVars, windowVars, frameVars, lobbyVars, takeVars, skipVars, objectVars,
    settingsVars, traceVars, groundVars>>

(* The trace that the other parts leave alone, and the layout.             *)
OneTrace  == claim.recording.ticks = 3 /\ StateCount = 2 /\ claim.b = claim.a
OneLayout == Len(field.objects) = 2

Init ==
  /\ part \in {"settlement", "connection", "window", "frame", "lobby", "takegame", "skip", "objects",
              "settings", "trace", "ground"}
  /\ SettlementInit /\ (part # "settlement" => net.paid = {})
  /\ ConnectionInit /\ (part # "connection" => win.config = "good" /\ lock = Nobody)
  /\ LobbyInit /\ TakeInit /\ FrameInit /\ WindowInit /\ GroundInit
  /\ SkipInit /\ (part # "skip" => active = <<0>>)
  /\ SettingsInit /\ (part # "settings" => files.bridge = Missing /\ files.keys = defaultControls)
  /\ ObjectsInit /\ (part # "objects" => OneLayout)
  /\ TraceInit /\ (part # "trace" => OneTrace)

Next ==
  /\ UNCHANGED part
  /\ \/ part = "settlement" /\ SettlementNext
        /\ UNCHANGED <<connectionVars, windowVars, frameVars, lobbyVars, takeVars, skipVars, objectVars,
                       settingsVars, traceVars, groundVars>>
     \/ part = "connection" /\ ConnectionNext
        /\ UNCHANGED <<settlementVars, windowVars, frameVars, lobbyVars, takeVars, skipVars, objectVars,
                       settingsVars, traceVars, groundVars>>
     \/ part = "window" /\ WindowNext
        /\ UNCHANGED <<settlementVars, connectionVars, frameVars, lobbyVars, takeVars, skipVars, objectVars,
                       settingsVars, traceVars, groundVars>>
     \/ part = "frame" /\ FrameNext
        /\ UNCHANGED <<settlementVars, connectionVars, windowVars, lobbyVars, takeVars, skipVars, objectVars,
                       settingsVars, traceVars, groundVars>>
     \/ part = "lobby" /\ LobbyNext
        /\ UNCHANGED <<settlementVars, connectionVars, windowVars, frameVars, takeVars, skipVars, objectVars,
                       settingsVars, traceVars, groundVars>>
     \/ part = "takegame" /\ TakeNext
        /\ UNCHANGED <<settlementVars, connectionVars, windowVars, frameVars, lobbyVars, skipVars, objectVars,
                       settingsVars, traceVars, groundVars>>
     \/ part = "skip" /\ SkipNext
        /\ UNCHANGED <<settlementVars, connectionVars, windowVars, frameVars, lobbyVars, takeVars, objectVars,
                       settingsVars, traceVars, groundVars>>
     \/ part = "objects" /\ ObjectsNext
        /\ UNCHANGED <<settlementVars, connectionVars, windowVars, frameVars, lobbyVars, takeVars, skipVars,
                       settingsVars, traceVars, groundVars>>
     \/ part = "settings" /\ SettingsNext
        /\ UNCHANGED <<settlementVars, connectionVars, windowVars, frameVars, lobbyVars, takeVars, skipVars,
                       objectVars, traceVars, groundVars>>
     \/ part = "trace" /\ Narrow
        /\ UNCHANGED <<settlementVars, connectionVars, windowVars, frameVars, lobbyVars, takeVars, skipVars,
                       objectVars, settingsVars, groundVars>>
     \/ part = "ground" /\ GroundNext
        /\ UNCHANGED <<settlementVars, connectionVars, windowVars, frameVars, lobbyVars, takeVars, skipVars,
                       objectVars, settingsVars, traceVars>>

PartsSpec == Init /\ [][Next]_partVars

(* Every part's variables stay in their types. *)
PartsTypeOK ==
  /\ SettlementTypeOK
  /\ ConnectionTypeOK /\ LobbyTypeOK /\ TakeTypeOK /\ SkipTypeOK /\ FrameTypeOK /\ WindowTypeOK
  /\ SettingsTypeOK /\ GroundTypeOK /\ ObjectsTypeOK /\ TraceTypeOK
================================================================================
