---- MODULE MCSimTurn ----
(* Every single input in a tick, and the pairs that may undo each other. *)
EXTENDS SimTurn

MCScripts ==
  {<<v, "None">> : v \in Inputs} \cup
  {<<"Fire", "Fire">>, <<"Fire", "Bazooka">>, <<"Skip", "Fire">>,
   <<"Teleport", "TeleportTo">>, <<"RemoteCharge", "Fire">>}
====
