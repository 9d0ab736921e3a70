---------------------------- MODULE WorldAgreement ----------------------------
(***************************************************************************)
(* internal/session: how the seats of a formed table agree on the world    *)
(* (the battlefield) before any stake is asked for: prepareWorld and       *)
(* refresh of controller.go, handleWorld of rules.go.                      *)
(*                                                                         *)
(* A world is a function of the table's terms, its roster and the hash of  *)
(* the seating block, so here a world is that block.  Every seat durably   *)
(* reserves one world, signs it, publishes the signature once, and opens   *)
(* the match when every seat's signature of that same world is in memory.  *)
(*                                                                         *)
(* Outside src/ and modelled from how the code uses them: the SDK writes   *)
(* the table record (Commit, Draw) and the bridge reads the chain (Mine).  *)
(* The bridge keeps every published message, hands each to a running game  *)
(* process once, in any order, and hands all of them to a new process      *)
(* again.                                                                  *)
(***************************************************************************)
CONSTANTS
  Seats,   \* the seats of the table
  Blocks,  \* blocks that may be found at the seating height
  Faulty,  \* seats that sign any world at any time; the others run the code
  None

ASSUME WorldAssumption == None \notin Blocks /\ Faulty \subseteq Seats

Sound == Seats \ Faulty

VARIABLES
  node,       \* the seating block as a seat's own node reports it
  rostered,   \* the seat's table record holds the committed roster
  beacon,     \* the seating block in the table record (rec.Beacon)
  up,         \* the game process runs
  known,      \* volatile: the roster in the session's copy of the record
  approvals,  \* volatile: the world signed by each seat, as far as heard
  problem,    \* volatile: a seat was caught signing two worlds
  live,       \* volatile: the world of the open match
  reserved,   \* durable: the world this seat may sign
  sent,       \* durable: the signature has been published
  worlds,     \* the published signatures
  heard       \* volatile: what this process has been handed

recordVars == <<node, rostered, beacon>>
memoryVars == <<up, known, approvals, problem, live>>
bridgeVars == <<worlds, heard>>
worldVars  == <<recordVars, memoryVars, reserved, sent, bridgeVars>>

Maybe      == Blocks \cup {None}
WorldMsgs  == [from : Seats, world : Blocks]

WorldTypeOK ==
  /\ node \in [Seats -> Maybe] /\ rostered \in [Seats -> BOOLEAN]
  /\ beacon \in [Seats -> Maybe] /\ up \in [Seats -> BOOLEAN]
  /\ known \in [Seats -> BOOLEAN]
  /\ approvals \in [Seats -> [Seats -> Maybe]]
  /\ problem \in [Seats -> BOOLEAN] /\ live \in [Seats -> Maybe]
  /\ reserved \in [Seats -> Maybe] /\ sent \in [Seats -> BOOLEAN]
  /\ worlds \subseteq WorldMsgs
  /\ heard \in [Seats -> SUBSET WorldMsgs]

Nobody == [q \in Seats |-> None]

Blank ==
  /\ node = Nobody
  /\ beacon = Nobody
  /\ up = [p \in Seats |-> FALSE]
  /\ known = [p \in Seats |-> FALSE]
  /\ approvals = [p \in Seats |-> Nobody]
  /\ problem = [p \in Seats |-> FALSE]
  /\ live = Nobody
  /\ reserved = Nobody
  /\ sent = [p \in Seats |-> FALSE]
  /\ worlds = {}
  /\ heard = [p \in Seats |-> {}]

WorldInit  == Blank /\ rostered = [p \in Seats |-> FALSE]
FormedInit == Blank /\ rostered = [p \in Seats |-> TRUE]

-------------------------------------------------------------------------------
(* The chain, and the SDK, which runs in the game process.                  *)

Mine(p) ==
  /\ \E b \in Blocks : node' = [node EXCEPT ![p] = b]
  /\ UNCHANGED <<rostered, beacon, memoryVars, reserved, sent, bridgeVars>>

Commit(p) ==
  /\ up[p] /\ ~rostered[p]
  /\ rostered' = [rostered EXCEPT ![p] = TRUE]
  /\ UNCHANGED <<node, beacon, memoryVars, reserved, sent, bridgeVars>>

Draw(p) ==
  /\ up[p] /\ rostered[p] /\ node[p] # None
  /\ beacon' = [beacon EXCEPT ![p] = node[p]]
  /\ UNCHANGED <<node, rostered, memoryVars, reserved, sent, bridgeVars>>

-------------------------------------------------------------------------------
(* The process.  Run loads the table records before it subscribes.         *)

(* Mutant: subscribe first, load the records with the first tick. *)
StartUnloaded(p) ==
  /\ ~up[p]
  /\ up' = [up EXCEPT ![p] = TRUE]
  /\ known' = [known EXCEPT ![p] = FALSE]
  /\ UNCHANGED <<recordVars, approvals, problem, live, reserved, sent, bridgeVars>>

Start(p) ==
  /\ ~up[p]
  /\ up' = [up EXCEPT ![p] = TRUE]
  /\ known' = [known EXCEPT ![p] = rostered[p]]
  /\ UNCHANGED <<recordVars, approvals, problem, live, reserved, sent, bridgeVars>>

Stop(p) ==
  /\ up[p]
  /\ up' = [up EXCEPT ![p] = FALSE]
  /\ known' = [known EXCEPT ![p] = FALSE]
  /\ approvals' = [approvals EXCEPT ![p] = Nobody]
  /\ problem' = [problem EXCEPT ![p] = FALSE]
  /\ live' = [live EXCEPT ![p] = None]
  /\ heard' = [heard EXCEPT ![p] = {}]
  /\ UNCHANGED <<recordVars, reserved, sent, worlds>>

(* Every tick of refresh copies the table records first. *)
Refresh(p) ==
  /\ up[p]
  /\ known' = [known EXCEPT ![p] = rostered[p]]
  /\ UNCHANGED <<recordVars, up, approvals, problem, live, reserved, sent, bridgeVars>>

-------------------------------------------------------------------------------
(* Mutant: a world without a reservation. *)
ApproveUnreserved(p) ==
  /\ up[p] /\ live[p] = None
  /\ rostered[p] /\ beacon[p] # None /\ node[p] = beacon[p]
  /\ approvals' = [approvals EXCEPT ![p][p] = beacon[p]]
  /\ known' = [known EXCEPT ![p] = TRUE]
  /\ UNCHANGED <<recordVars, up, problem, reserved, heard>>

(* prepareWorld, on the tick of a seat whose match is not open: the seating *)
(* block still is the one on the node's chain, and the reservation of this *)
(* world goes through.  The own signature joins the approvals.             *)
Approve(p) ==
  /\ up[p] /\ live[p] = None
  /\ rostered[p] /\ beacon[p] # None /\ node[p] = beacon[p]
  /\ reserved[p] \in {None, beacon[p]}
  /\ reserved' = [reserved EXCEPT ![p] = beacon[p]]
  /\ approvals' = [approvals EXCEPT ![p][p] = beacon[p]]
  /\ known' = [known EXCEPT ![p] = TRUE]
  /\ UNCHANGED <<recordVars, up, problem, heard>>

(* Mutant: everybody approved something. *)
Everybody(p) == \A q \in Seats : approvals'[p][q] # None

Unanimous(p) == \A q \in Seats : approvals'[p][q] = beacon[p]

Publish(p) == worlds' = worlds \cup {[from |-> p, world |-> beacon[p]]}

(* The tick goes through: publish if that has not been done, then open the *)
(* match if everybody approves this world.                                 *)
Prepare(p) ==
  /\ Approve(p)
  /\ ~problem[p]
  /\ IF sent[p] THEN UNCHANGED worlds ELSE Publish(p)
  /\ sent' = [sent EXCEPT ![p] = TRUE]
  /\ live' = IF Unanimous(p) THEN [live EXCEPT ![p] = beacon[p]] ELSE live

(* The tick ends early: a seat signed two worlds, or Send failed. *)
PrepareHalts(p) ==
  /\ Approve(p)
  /\ problem[p] \/ ~sent[p]
  /\ UNCHANGED <<live, sent, worlds>>

(* The tick ends between Send and the record that it was sent. *)
PrepareUnrecorded(p) ==
  /\ Approve(p)
  /\ ~problem[p] /\ ~sent[p]
  /\ Publish(p)
  /\ UNCHANGED <<live, sent>>

-------------------------------------------------------------------------------
(* handleWorld.  A world for a roster the session does not know of yet is  *)
(* refused, and so is a second world of one signer.                        *)
Hear(p, m) ==
  /\ up[p] /\ m.from # p /\ m \notin heard[p]
  /\ heard' = [heard EXCEPT ![p] = @ \cup {m}]
  /\ IF known[p] /\ approvals[p][m.from] \in {None, m.world}
       THEN approvals' = [approvals EXCEPT ![p][m.from] = m.world]
       ELSE UNCHANGED approvals
  /\ IF known[p] /\ approvals[p][m.from] \notin {None, m.world}
       THEN problem' = [problem EXCEPT ![p] = TRUE]
       ELSE UNCHANGED problem
  /\ UNCHANGED <<recordVars, up, known, live, reserved, sent, worlds>>

(* A faulty seat publishes a signature of any world. *)
SignAnother(p) ==
  /\ p \in Faulty
  /\ \E b \in Blocks : worlds' = worlds \cup {[from |-> p, world |-> b]}
  /\ UNCHANGED <<recordVars, memoryVars, reserved, sent, heard>>

Attempt(p) == Prepare(p) \/ PrepareHalts(p) \/ PrepareUnrecorded(p)

SoundStep(p) ==
  \/ Mine(p) \/ Commit(p) \/ Draw(p)
  \/ Start(p) \/ Stop(p) \/ Refresh(p)
  \/ Attempt(p)
  \/ \E m \in worlds : Hear(p, m)

WorldNext ==
  \/ \E p \in Sound  : SoundStep(p)
  \/ \E p \in Faulty : SignAnother(p)

WorldSpec == WorldInit /\ [][WorldNext]_worldVars

(* The refresh tick repeats every second and the bridge hands over what it *)
(* kept, so a tick that stays possible goes through at last, send and all, *)
(* and a published signature is handed to a process that keeps running.    *)
WorldFairness ==
  \A p \in Sound :
    /\ WF_worldVars(Prepare(p))
    /\ \A m \in WorldMsgs : WF_worldVars(m \in worlds /\ Hear(p, m))

FairWorldSpec == WorldSpec /\ WorldFairness

(* Every process is started after its table formed. *)
FormedWorldSpec == FormedInit /\ [][WorldNext]_worldVars /\ WorldFairness

-------------------------------------------------------------------------------
(* A seat that keeps its reservations publishes one world per match: not   *)
(* after a restart, not after the seating block was reorganised away and   *)
(* another one drawn.                                                      *)
OneWorldPerSeat ==
  \A m, n \in worlds : m.from = n.from /\ m.from \notin Faulty => m = n

(* A match is open only in a world that every sound seat has durably bound *)
(* itself to, so no two open matches differ, whatever a faulty seat signs  *)
(* and to whom its signatures are delivered first.                         *)
OpenIsUnanimous ==
  \A p \in Seats : live[p] # None =>
    \A q \in Sound : reserved[q] = live[p]

(* Once the seats stay up, on one chain, and nobody is bound to another    *)
(* world, every match opens.                                               *)
Settled(b) ==
  \A p \in Seats :
    up[p] /\ node[p] = b /\ beacon[p] = b /\ reserved[p] \in {None, b}

OpensEverywhere ==
  \A b \in Blocks : <>[]Settled(b) => <>(\A p \in Seats : live[p] = b)
===============================================================================
