------------------------ MODULE WorldAgreement_proofs ------------------------
(* Proofs about WorldAgreement, for every set of seats, every set of blocks *)
(* and any number of faulty seats.                                         *)
EXTENDS WorldAgreement, TLAPS

(* A seat that runs the code publishes only the world it reserved. *)
PublishedIsReserved ==
  \A m \in worlds : m.from \in Sound => reserved[m.from] = m.world

(* What a seat holds of another is what that one published. *)
ApprovalIsPublished ==
  \A p, q \in Seats : p # q /\ approvals[p][q] # None =>
    [from |-> q, world |-> approvals[p][q]] \in worlds

(* What a seat holds of its own is what it reserved. *)
OwnIsReserved ==
  \A p \in Seats : approvals[p][p] # None => reserved[p] = approvals[p][p]

WorldInv ==
  /\ WorldTypeOK
  /\ PublishedIsReserved
  /\ ApprovalIsPublished
  /\ OwnIsReserved
  /\ OpenIsUnanimous

-------------------------------------------------------------------------------
LEMMA WorldStart == WorldInit => WorldInv
BY WorldAssumption DEF WorldInit, Blank, Nobody, WorldInv, WorldTypeOK, Maybe,
   PublishedIsReserved, ApprovalIsPublished, OwnIsReserved, OpenIsUnanimous

(* A step that leaves approvals, reservations and open matches alone, and   *)
(* publishes at most a faulty seat's signature.                            *)
LEMMA Aside ==
  ASSUME WorldInv, WorldTypeOK',
         UNCHANGED <<approvals, live, reserved>>,
         worlds' = worlds \/ \E p \in Faulty, b \in Blocks :
           worlds' = worlds \cup {[from |-> p, world |-> b]}
  PROVE  WorldInv'
<1>1. PublishedIsReserved'
  BY DEF WorldInv, PublishedIsReserved, Sound
<1>2. ApprovalIsPublished'
  BY DEF WorldInv, ApprovalIsPublished
<1>3. OwnIsReserved' /\ OpenIsUnanimous'
  BY DEF WorldInv, OwnIsReserved, OpenIsUnanimous
<1> QED
  BY <1>1, <1>2, <1>3 DEF WorldInv

(* The tick of refresh, up to and including the reservation and what may be *)
(* published: everything but the opening of the match.                     *)
LEMMA ApproveKeeps ==
  ASSUME WorldInv, NEW p \in Sound, Approve(p), WorldTypeOK',
         worlds' = worlds \/ Publish(p)
  PROVE  /\ PublishedIsReserved' /\ ApprovalIsPublished' /\ OwnIsReserved'
         /\ \A q \in Seats : reserved[q] # None => reserved'[q] = reserved[q]
         /\ reserved'[p] = beacon[p]
<1>0. p \in Seats /\ WorldTypeOK
  BY WorldAssumption DEF Sound, WorldInv
<1>1. /\ reserved' = [reserved EXCEPT ![p] = beacon[p]]
      /\ reserved[p] \in {None, beacon[p]} /\ beacon[p] # None
  BY DEF Approve
<1>2. \A q \in Seats : reserved[q] # None => reserved'[q] = reserved[q]
  BY <1>0, <1>1 DEF WorldTypeOK
<1>3. reserved'[p] = beacon[p]
  BY <1>0, <1>1 DEF WorldTypeOK
<1>4. PublishedIsReserved'
  <2> SUFFICES ASSUME NEW m \in worlds', m.from \in Sound
               PROVE  reserved'[m.from] = m.world
    BY DEF PublishedIsReserved
  <2>1. CASE m \in worlds
    <3>1. m \in WorldMsgs /\ reserved[m.from] = m.world
      BY <2>1, <1>0 DEF WorldInv, PublishedIsReserved, WorldTypeOK
    <3>2. m.from \in Seats /\ m.world # None
      BY <3>1, WorldAssumption DEF WorldMsgs
    <3> QED
      BY <3>1, <3>2, <1>2
  <2>2. CASE m \notin worlds
    <3>1. m = [from |-> p, world |-> beacon[p]]
      BY <2>2 DEF Publish
    <3> QED
      BY <3>1, <1>3
  <2> QED
    BY <2>1, <2>2
<1>5. approvals' = [approvals EXCEPT ![p][p] = beacon[p]]
  BY DEF Approve
<1>6. ApprovalIsPublished'
  BY <1>0, <1>5 DEF WorldInv, ApprovalIsPublished, WorldTypeOK, Publish
<1>7. OwnIsReserved'
  <2> SUFFICES ASSUME NEW q \in Seats, approvals'[q][q] # None
               PROVE  reserved'[q] = approvals'[q][q]
    BY DEF OwnIsReserved
  <2>1. CASE q = p
    BY <2>1, <1>0, <1>3, <1>5 DEF WorldTypeOK
  <2>2. CASE q # p
    BY <2>2, <1>0, <1>1, <1>5 DEF WorldInv, OwnIsReserved, WorldTypeOK
  <2> QED
    BY <2>1, <2>2
<1> QED
  BY <1>2, <1>3, <1>4, <1>6, <1>7

(* A reservation that was made stays, so open matches stay unanimous. *)
LEMMA StaysUnanimous ==
  ASSUME WorldInv, live' = live,
         \A q \in Seats : reserved[q] # None => reserved'[q] = reserved[q]
  PROVE  OpenIsUnanimous'
BY WorldAssumption DEF WorldInv, OpenIsUnanimous, Sound

(* The step that opens the match: the other sound seats' approvals are      *)
(* published signatures, hence reservations.                               *)
LEMMA PrepareKeeps ==
  ASSUME WorldInv, NEW p \in Sound, Prepare(p), WorldTypeOK'
  PROVE  WorldInv'
<1>0. p \in Seats /\ WorldTypeOK
  BY WorldAssumption DEF Sound, WorldInv
<1>1. Approve(p) /\ (worlds' = worlds \/ Publish(p))
  BY DEF Prepare
<1>2. /\ PublishedIsReserved' /\ ApprovalIsPublished' /\ OwnIsReserved'
      /\ \A q \in Seats : reserved[q] # None => reserved'[q] = reserved[q]
      /\ reserved'[p] = beacon[p]
  BY <1>1, ApproveKeeps
<1>3. OpenIsUnanimous'
  <2>1. CASE ~Unanimous(p)
    <3>1. live' = live
      BY <2>1 DEF Prepare
    <3> QED
      BY <3>1, <1>2, StaysUnanimous
  <2>2. CASE Unanimous(p)
    <3>1. live' = [live EXCEPT ![p] = beacon[p]]
      BY <2>2 DEF Prepare
    <3>2. ASSUME NEW q \in Sound
          PROVE  reserved'[q] = beacon[p]
      <4>1. q \in Seats /\ beacon[p] # None
        BY <1>1 DEF Sound, Approve
      <4>2. CASE q = p
        BY <4>2, <1>2
      <4>3. CASE q # p
        <5>1. approvals'[p][q] = beacon[p]
          BY <2>2, <4>1 DEF Unanimous
        <5>2. [from |-> q, world |-> beacon[p]] \in worlds'
          BY <5>1, <4>1, <4>3, <1>0, <1>2 DEF ApprovalIsPublished
        <5> QED
          BY <5>2, <1>2 DEF PublishedIsReserved
      <4> QED
        BY <4>2, <4>3
    <3>3. ASSUME NEW q \in Seats, live'[q] # None, NEW r \in Sound
          PROVE  reserved'[r] = live'[q]
      <4>1. CASE q = p
        BY <4>1, <3>1, <3>2, <1>0 DEF WorldTypeOK
      <4>2. CASE q # p
        <5>1. live'[q] = live[q]
          BY <4>2, <3>1, <1>0 DEF WorldTypeOK
        <5>2. reserved[r] = live[q] /\ r \in Seats
          BY <5>1, <3>3 DEF WorldInv, OpenIsUnanimous, Sound
        <5> QED
          BY <5>1, <5>2, <3>3, <1>2
      <4> QED
        BY <4>1, <4>2
    <3> QED
      BY <3>3 DEF OpenIsUnanimous
  <2> QED
    BY <2>1, <2>2
<1> QED
  BY <1>2, <1>3 DEF WorldInv

LEMMA AttemptKeeps ==
  ASSUME WorldInv, NEW p \in Sound, Attempt(p), WorldTypeOK'
  PROVE  WorldInv'
<1>1. CASE Prepare(p)
  BY <1>1, PrepareKeeps
<1>2. CASE PrepareHalts(p) \/ PrepareUnrecorded(p)
  <2>1. Approve(p) /\ (worlds' = worlds \/ Publish(p)) /\ live' = live
    BY <1>2 DEF PrepareHalts, PrepareUnrecorded
  <2>2. /\ PublishedIsReserved' /\ ApprovalIsPublished' /\ OwnIsReserved'
        /\ \A q \in Seats : reserved[q] # None => reserved'[q] = reserved[q]
    BY <2>1, ApproveKeeps
  <2>3. OpenIsUnanimous'
    BY <2>1, <2>2, StaysUnanimous
  <2> QED
    BY <2>2, <2>3 DEF WorldInv
<1> QED
  BY <1>1, <1>2 DEF Attempt

LEMMA HearKeeps ==
  ASSUME WorldInv, NEW p \in Sound, NEW m \in worlds, Hear(p, m), WorldTypeOK'
  PROVE  WorldInv'
<1>0. p \in Seats /\ WorldTypeOK /\ m \in WorldMsgs
  BY WorldAssumption DEF Sound, WorldInv, WorldTypeOK
<1>1. /\ m.from # p /\ UNCHANGED <<live, reserved, worlds>>
      /\ \/ approvals' = [approvals EXCEPT ![p][m.from] = m.world]
         \/ approvals' = approvals
  BY DEF Hear
<1>2. m = [from |-> m.from, world |-> m.world] /\ m.from \in Seats
  BY <1>0 DEF WorldMsgs
<1>3. ApprovalIsPublished'
  BY <1>0, <1>1, <1>2 DEF WorldInv, ApprovalIsPublished, WorldTypeOK
<1>4. OwnIsReserved'
  BY <1>0, <1>1, <1>2 DEF WorldInv, OwnIsReserved, WorldTypeOK
<1>5. PublishedIsReserved' /\ OpenIsUnanimous'
  BY <1>1 DEF WorldInv, PublishedIsReserved, OpenIsUnanimous
<1> QED
  BY <1>3, <1>4, <1>5 DEF WorldInv

LEMMA StopKeeps ==
  ASSUME WorldInv, NEW p \in Sound, Stop(p), WorldTypeOK'
  PROVE  WorldInv'
<1>0. p \in Seats /\ WorldTypeOK
  BY WorldAssumption DEF Sound, WorldInv
<1>1. /\ approvals' = [approvals EXCEPT ![p] = Nobody]
      /\ live' = [live EXCEPT ![p] = None]
      /\ UNCHANGED <<reserved, worlds>>
  BY DEF Stop
<1>2. ApprovalIsPublished' /\ OwnIsReserved'
  BY <1>0, <1>1 DEF WorldInv, ApprovalIsPublished, OwnIsReserved, WorldTypeOK,
     Nobody
<1>3. OpenIsUnanimous'
  BY <1>0, <1>1 DEF WorldInv, OpenIsUnanimous, WorldTypeOK
<1>4. PublishedIsReserved'
  BY <1>1 DEF WorldInv, PublishedIsReserved
<1> QED
  BY <1>2, <1>3, <1>4 DEF WorldInv

-------------------------------------------------------------------------------
LEMMA WorldTypeStep ==
  ASSUME WorldTypeOK, [WorldNext]_worldVars
  PROVE  WorldTypeOK'
<1> USE WorldAssumption DEF WorldTypeOK
<1>1. ASSUME NEW p \in Sound, Mine(p) \/ Commit(p) \/ Draw(p) PROVE WorldTypeOK'
  BY <1>1 DEF Mine, Commit, Draw, Sound, Maybe, memoryVars, bridgeVars
<1>2. ASSUME NEW p \in Sound, Start(p) \/ Refresh(p) PROVE WorldTypeOK'
  BY <1>2 DEF Start, Refresh, Sound, recordVars, bridgeVars
<1>3. ASSUME NEW p \in Sound, Stop(p) PROVE WorldTypeOK'
  BY <1>3 DEF Stop, Sound, recordVars, Nobody, Maybe
<1>4. ASSUME NEW p \in Sound, Attempt(p) PROVE WorldTypeOK'
  <2>1. p \in Seats /\ beacon[p] \in Blocks
    BY <1>4 DEF Attempt, Prepare, PrepareHalts, PrepareUnrecorded, Approve,
       Sound, Maybe
  <2>2. /\ reserved' = [reserved EXCEPT ![p] = beacon[p]]
        /\ approvals' = [approvals EXCEPT ![p][p] = beacon[p]]
        /\ known' = [known EXCEPT ![p] = TRUE]
        /\ UNCHANGED <<recordVars, up, problem, heard>>
    BY <1>4 DEF Attempt, Prepare, PrepareHalts, PrepareUnrecorded, Approve
  <2>3. worlds' \subseteq WorldMsgs
    BY <1>4, <2>1 DEF Attempt, Prepare, PrepareHalts, PrepareUnrecorded,
       Publish, WorldMsgs
  <2>4. sent' \in [Seats -> BOOLEAN] /\ live' \in [Seats -> Maybe]
    BY <1>4, <2>1 DEF Attempt, Prepare, PrepareHalts, PrepareUnrecorded, Maybe
  <2> QED
    BY <2>1, <2>2, <2>3, <2>4 DEF recordVars, Maybe
<1>5. ASSUME NEW p \in Sound, NEW m \in worlds, Hear(p, m) PROVE WorldTypeOK'
  <2>1. m.from \in Seats /\ m.world \in Maybe /\ p \in Seats
    BY DEF WorldMsgs, Maybe, Sound
  <2>2. approvals' \in [Seats -> [Seats -> Maybe]]
    BY <1>5, <2>1 DEF Hear
  <2>3. heard' \in [Seats -> SUBSET WorldMsgs] /\ problem' \in [Seats -> BOOLEAN]
    BY <1>5, <2>1 DEF Hear
  <2> QED
    BY <1>5, <2>2, <2>3 DEF Hear, recordVars
<1>6. ASSUME NEW p \in Faulty, SignAnother(p) PROVE WorldTypeOK'
  BY <1>6 DEF SignAnother, recordVars, memoryVars, WorldMsgs
<1>7. CASE UNCHANGED worldVars
  BY <1>7 DEF worldVars, recordVars, memoryVars, bridgeVars
<1> QED
  BY <1>1, <1>2, <1>3, <1>4, <1>5, <1>6, <1>7 DEF WorldNext, SoundStep

LEMMA WorldStep ==
  ASSUME WorldInv, [WorldNext]_worldVars
  PROVE  WorldInv'
<1>0. WorldTypeOK'
  BY WorldTypeStep DEF WorldInv
<1>1. ASSUME NEW p \in Sound, Mine(p) \/ Commit(p) \/ Draw(p) PROVE WorldInv'
  BY <1>0, <1>1, Aside DEF Mine, Commit, Draw, memoryVars, bridgeVars
<1>2. ASSUME NEW p \in Sound, Start(p) \/ Refresh(p) PROVE WorldInv'
  BY <1>0, <1>2, Aside DEF Start, Refresh, bridgeVars
<1>3. ASSUME NEW p \in Sound, Stop(p) PROVE WorldInv'
  BY <1>0, <1>3, StopKeeps
<1>4. ASSUME NEW p \in Sound, Attempt(p) PROVE WorldInv'
  BY <1>0, <1>4, AttemptKeeps
<1>5. ASSUME NEW p \in Sound, NEW m \in worlds, Hear(p, m) PROVE WorldInv'
  BY <1>0, <1>5, HearKeeps
<1>6. ASSUME NEW p \in Faulty, SignAnother(p) PROVE WorldInv'
  BY <1>0, <1>6, Aside DEF SignAnother, memoryVars
<1>7. CASE UNCHANGED worldVars
  BY <1>0, <1>7, Aside DEF worldVars, memoryVars, bridgeVars
<1> QED
  BY <1>1, <1>2, <1>3, <1>4, <1>5, <1>6, <1>7 DEF WorldNext, SoundStep

(* WorldInv is an invariant of the agreement. *)
THEOREM WorldInvariance == WorldSpec => []WorldInv
<1>1. WorldInv /\ [WorldNext]_worldVars => WorldInv'
  BY WorldStep
<1> QED
  BY <1>1, WorldStart, PTL DEF WorldSpec

(* The state is well formed. *)
THEOREM WorldTypeCorrect == WorldSpec => []WorldTypeOK
<1>1. WorldInv => WorldTypeOK
  BY DEF WorldInv
<1> QED
  BY <1>1, WorldInvariance, PTL

(* controller.go, prepareWorld: a seat that keeps its reservations          *)
(* publishes one world per match, whatever is reorganised and however often *)
(* it restarts.                                                            *)
THEOREM SingleWorld == WorldSpec => []OneWorldPerSeat
<1>1. WorldInv => OneWorldPerSeat
  <2> SUFFICES ASSUME WorldInv, NEW m \in worlds, NEW n \in worlds,
                      m.from = n.from, m.from \notin Faulty
               PROVE  m = n
    BY DEF OneWorldPerSeat
  <2>1. m \in WorldMsgs /\ n \in WorldMsgs
    BY DEF WorldInv, WorldTypeOK
  <2>2. m.from \in Sound
    BY <2>1 DEF Sound, WorldMsgs
  <2>3. m.world = n.world
    BY <2>2 DEF WorldInv, PublishedIsReserved
  <2> QED
    BY <2>1, <2>3 DEF WorldMsgs
<1> QED
  BY <1>1, WorldInvariance, PTL

(* controller.go, prepareWorld: an open match is in the one world that      *)
(* every sound seat has durably reserved, whatever faulty seats sign.      *)
THEOREM Unanimity == WorldSpec => []OpenIsUnanimous
<1>1. WorldInv => OpenIsUnanimous
  BY DEF WorldInv
<1> QED
  BY <1>1, WorldInvariance, PTL
===============================================================================
