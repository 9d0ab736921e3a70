-------------------------- MODULE MatchSession_proofs --------------------------
(***************************************************************************)
(* Proofs about a match, for any number of seats and turns, any turn       *)
(* order, any window and all failures.                                     *)
(*                                                                         *)
(* The argument: an open match means that every approval is published, so  *)
(* stakes follow agreement; a seat signs only in a funded match, so its    *)
(* first turn follows all stakes; and whatever a peer holds of a turn      *)
(* began with the author's own disk.  The settlement that follows keeps    *)
(* its own invariant, from Settlement_proofs, because a match moves none   *)
(* of its state; what joins both is that a head stays at the last turn.    *)
(***************************************************************************)
EXTENDS PaidMatch, NaturalFacts, TLAPS

SentIsPublished      == \A p \in Seats : sent[p] => p \in worlds
ApprovalsArePublished == \A p \in Seats : approvals[p] \subseteq worlds
OpenedIsAgreed       == \A p \in Seats : opened[p] => worlds = Seats
FundedIsStaked       == \A p \in Seats : funded[p] => staked = Seats
ReservedIsOwn ==
  \A p \in Seats : reserved[p] /\ head[p] < MaxTurns => Active[head[p]] = p

SessionInv ==
  /\ TypeOK
  /\ SentIsPublished /\ ApprovalsArePublished /\ OpenedIsAgreed
  /\ FundedIsStaked /\ ReservedIsOwn
  /\ NoStakeBeforeAgreement /\ NoPlayBeforeStakes /\ AuthorHasTurn

-------------------------------------------------------------------------------
(* Where the journal's loop stops                                          *)

(* The loop ends at the first turn that is not buffered, within the match. *)
LEMMA DrainedIsFirstGap ==
  ASSUME TypeOK, NEW p \in Seats, head[p] < MaxTurns
  PROVE  /\ Drained(p) \in head[p] + 1 .. MaxTurns
         /\ \A t \in head[p] + 1 .. Drained(p) - 1 : t \in pending[p]
<1> DEFINE gaps == {n \in head[p] + 1 .. MaxTurns : n \notin pending[p]}
<1>1. head[p] \in Nat /\ MaxTurns \in Nat /\ pending[p] \subseteq 0 .. MaxTurns - 1
  BY SessionAssumption DEF TypeOK, Turns
<1>2. gaps \subseteq Nat /\ MaxTurns \in gaps
  BY <1>1
<1>3. PICK n \in gaps : \A k \in gaps : n <= k
  <2> HIDE DEF gaps
  <2> QED
    BY <1>2, LeastNatural
<1>4. \A t \in head[p] + 1 .. n - 1 : t \in pending[p]
  <2> SUFFICES ASSUME NEW t \in head[p] + 1 .. n - 1, t \notin pending[p]
               PROVE  FALSE
    OBVIOUS
  <2>1. t \in gaps
    BY <1>1
  <2> QED
    BY <1>1, <1>3, <2>1
<1>5. \E m \in head[p] + 1 .. MaxTurns :
        /\ \A t \in head[p] + 1 .. m - 1 : t \in pending[p]
        /\ m \notin pending[p]
  BY <1>3, <1>4
<1> QED
  BY <1>5 DEF Drained

-------------------------------------------------------------------------------
LEMMA SessionStart == Init => SessionInv
<1> SUFFICES ASSUME Init PROVE SessionInv
  OBVIOUS
<1>1. TypeOK
  BY SessionAssumption DEF Init, TypeOK
<1>2. AuthorHasTurn /\ NoPlayBeforeStakes
  BY DEF Init, AuthorHasTurn, NoPlayBeforeStakes, Turns
<1> QED
  BY <1>1, <1>2 DEF Init, SessionInv, SentIsPublished, ApprovalsArePublished,
     OpenedIsAgreed, FundedIsStaked, ReservedIsOwn, NoStakeBeforeAgreement

(* A head that moves over a turn its author has, and over buffered turns.   *)
LEMMA HeadMoves ==
  ASSUME SessionInv, NEW p \in Seats, head[p] < MaxTurns, staked = Seats,
         NEW n \in head[p] .. Drained(p),
         head' = [head EXCEPT ![p] = n],
         pending' \in [Seats -> SUBSET Turns],
         \A q \in Seats : pending'[q] \subseteq pending[q],
         \/ Active[head[p]] = p
         \/ head[Active[head[p]]] > head[p],
         turns' \subseteq turns \cup {t \in {head[p]} : Active[t] = p /\ n > t}
  PROVE  head' \in [Seats -> 0..MaxTurns] /\ AuthorHasTurn'
<1>0. /\ head \in [Seats -> 0..MaxTurns] /\ MaxTurns \in Nat /\ TypeOK
      /\ \A t \in Turns : Active[t] \in Seats
  BY SessionAssumption DEF SessionInv, TypeOK
<1>1. /\ Drained(p) \in head[p] + 1 .. MaxTurns
      /\ \A t \in head[p] + 1 .. Drained(p) - 1 : t \in pending[p]
  BY <1>0, DrainedIsFirstGap
<1> DEFINE d == Drained(p)
<1> HIDE DEF d
<1>2. /\ d \in head[p] + 1 .. MaxTurns /\ n \in head[p] .. d
      /\ \A t \in head[p] + 1 .. d - 1 : t \in pending[p]
  BY <1>1 DEF d
<1>3. n \in 0..MaxTurns /\ n >= head[p]
  BY <1>0, <1>2
<1>4. head' \in [Seats -> 0..MaxTurns] /\ head'[p] = n
  BY <1>0, <1>3
<1>5. \A q \in Seats : head'[q] >= head[q] /\ (q # p => head'[q] = head[q])
  BY <1>0, <1>3, <1>4
<1>6. ASSUME NEW t \in Turns, head[Active[t]] > t
      PROVE  head'[Active[t]] > t
  <2>1. Active[t] \in Seats /\ t \in Nat
    BY <1>0 DEF Turns
  <2> QED
    BY <1>0, <1>4, <1>5, <1>6, <2>1
<1>7. ASSUME NEW t \in Turns, t = head[p], n > t
      PROVE  head'[Active[t]] > t
  BY <1>4, <1>6, <1>7
<1>8. ASSUME NEW q \in Seats, NEW t \in Turns,
             t < head'[q] \/ t \in pending'[q] \cup turns'
      PROVE  head'[Active[t]] > t
  <2>1. CASE t < head[q] \/ t \in pending[q] \cup turns
    BY <2>1, <1>6 DEF SessionInv, AuthorHasTurn
  <2>2. CASE t \in turns' \ turns
    BY <2>2, <1>7
  <2>3. CASE t < head'[q] /\ ~(t < head[q])
    <3>1. q = p /\ t < n /\ t >= head[p] /\ t \in Nat
      BY <1>0, <1>4, <1>5, <2>3 DEF Turns
    <3>2. CASE t = head[p]
      BY <1>7, <3>1, <3>2
    <3>3. CASE t # head[p]
      <4>1. t \in head[p] + 1 .. d - 1
        BY <1>0, <1>2, <3>1, <3>3
      <4> QED
        BY <1>2, <1>6, <4>1 DEF SessionInv, AuthorHasTurn
    <3> QED
      BY <3>2, <3>3
  <2> QED
    BY <2>1, <2>2, <2>3, <1>8
<1> QED
  BY <1>4, <1>8 DEF AuthorHasTurn

(* The same, with everything a step of the journal leaves alone.           *)
LEMMA JournalKeeps ==
  ASSUME SessionInv, NEW p \in Seats, head[p] < MaxTurns, staked = Seats,
         NEW n \in head[p] .. Drained(p),
         head' = [head EXCEPT ![p] = n],
         pending' \in [Seats -> SUBSET Turns],
         \A q \in Seats : pending'[q] \subseteq pending[q],
         \/ Active[head[p]] = p
         \/ head[Active[head[p]]] > head[p],
         turns' \subseteq turns \cup {t \in {head[p]} : Active[t] = p /\ n > t},
         reserved' \in [Seats -> BOOLEAN],
         ~reserved'[p], \A q \in Seats \ {p} : reserved'[q] = reserved[q],
         up' \in [Seats -> BOOLEAN], heard' \in [Seats -> SUBSET Turns],
         told' \in [Seats -> SUBSET Seats],
         opened' \in [Seats -> BOOLEAN], funded' \in [Seats -> BOOLEAN],
         approvals' \in [Seats -> SUBSET Seats],
         \A q \in Seats : opened'[q] => opened[q],
         \A q \in Seats : approvals'[q] \subseteq approvals[q],
         UNCHANGED <<sent, worlds, staked>>
  PROVE  SessionInv'
<1>1. head' \in [Seats -> 0..MaxTurns] /\ AuthorHasTurn'
  BY HeadMoves
<1>2. turns' \subseteq Turns
  <2>1. head[p] \in Turns
    BY SessionAssumption DEF SessionInv, TypeOK, Turns
  <2> QED
    BY <2>1 DEF SessionInv, TypeOK
<1>3. TypeOK'
  BY <1>1, <1>2 DEF SessionInv, TypeOK, Turns
<1>4. SentIsPublished' /\ ApprovalsArePublished' /\ OpenedIsAgreed'
  BY DEF SessionInv, SentIsPublished, ApprovalsArePublished, OpenedIsAgreed
<1>5. FundedIsStaked' /\ NoStakeBeforeAgreement' /\ NoPlayBeforeStakes'
  BY DEF SessionInv, FundedIsStaked, NoStakeBeforeAgreement, NoPlayBeforeStakes
<1>6. ReservedIsOwn'
  BY DEF SessionInv, ReservedIsOwn, TypeOK
<1> QED
  BY <1>1, <1>3, <1>4, <1>5, <1>6 DEF SessionInv

(* A funded match lets its active seat play: all have staked. *)
LEMMA PlayIsStaked ==
  ASSUME SessionInv, NEW p \in Seats, MayPlay(p)
  PROVE  staked = Seats /\ head[p] < MaxTurns /\ Active[head[p]] = p
BY DEF SessionInv, FundedIsStaked, MayPlay

(* A turn handed to a peer at its head is on its author's disk. *)
LEMMA HandedIsStaked ==
  ASSUME SessionInv, NEW p \in Seats, NEW t \in turns, t = head[p]
  PROVE  staked = Seats /\ head[p] < MaxTurns /\ head[Active[head[p]]] > head[p]
<1>1. t \in Turns /\ Active[t] \in Seats /\ head[Active[t]] > t
  BY SessionAssumption DEF SessionInv, TypeOK, AuthorHasTurn
<1>2. t \in Nat /\ t < MaxTurns /\ head[Active[t]] \in Nat
  BY <1>1, SessionAssumption DEF SessionInv, TypeOK, Turns
<1>3. head[Active[t]] > 0
  BY <1>1, <1>2
<1> QED
  BY <1>1, <1>2, <1>3 DEF SessionInv, NoPlayBeforeStakes

LEMMA AdvanceTypes ==
  ASSUME SessionInv, NEW p \in Seats, head[p] < MaxTurns, Advance(p)
  PROVE  /\ head' = [head EXCEPT ![p] = Drained(p)]
         /\ Drained(p) \in head[p] .. Drained(p) /\ Drained(p) > head[p]
         /\ pending' \in [Seats -> SUBSET Turns]
         /\ \A q \in Seats : pending'[q] \subseteq pending[q]
         /\ reserved' \in [Seats -> BOOLEAN] /\ ~reserved'[p]
         /\ \A q \in Seats \ {p} : reserved'[q] = reserved[q]
<1>1. Drained(p) \in head[p] + 1 .. MaxTurns /\ head[p] \in Nat /\ MaxTurns \in Nat
  BY DrainedIsFirstGap, SessionAssumption DEF SessionInv, TypeOK
<1>2. Drained(p) \in head[p] .. Drained(p) /\ Drained(p) > head[p]
  BY <1>1
<1>3. /\ pending' \in [Seats -> SUBSET Turns]
      /\ \A q \in Seats : pending'[q] \subseteq pending[q]
  BY DEF Advance, SessionInv, TypeOK
<1>4. /\ reserved' \in [Seats -> BOOLEAN] /\ ~reserved'[p]
      /\ \A q \in Seats \ {p} : reserved'[q] = reserved[q]
  BY DEF Advance, SessionInv, TypeOK
<1> QED
  BY <1>2, <1>3, <1>4 DEF Advance

-------------------------------------------------------------------------------
LEMMA PrepareKeeps ==
  ASSUME SessionInv, NEW p \in Seats, Prepare(p)
  PROVE  SessionInv'
<1>1. /\ approvals' = [approvals EXCEPT ![p] = @ \cup {p}]
      /\ worlds' = (IF sent[p] THEN worlds ELSE worlds \cup {p})
      /\ sent' = [sent EXCEPT ![p] = TRUE]
      /\ opened' = [opened EXCEPT ![p] = approvals'[p] = Seats]
      /\ UNCHANGED <<up, funded, heard, told, turns, staked>>
  BY DEF Prepare
<1>2. /\ worlds \subseteq worlds' /\ worlds' \subseteq Seats /\ p \in worlds'
  BY <1>1 DEF SessionInv, TypeOK, SentIsPublished
<1>3. SentIsPublished' /\ ApprovalsArePublished'
  BY <1>1, <1>2 DEF SessionInv, TypeOK, SentIsPublished, ApprovalsArePublished
<1>4. OpenedIsAgreed'
  <2> SUFFICES ASSUME NEW q \in Seats, opened'[q] PROVE worlds' = Seats
    BY DEF OpenedIsAgreed
  <2>1. CASE q = p
    <3>1. approvals'[p] = Seats
      BY <1>1, <2>1 DEF SessionInv, TypeOK
    <3> QED
      BY <1>2, <1>3, <3>1 DEF ApprovalsArePublished
  <2>2. CASE q # p
    BY <1>1, <1>2, <2>2 DEF SessionInv, TypeOK, OpenedIsAgreed
  <2> QED
    BY <2>1, <2>2
<1>5. FundedIsStaked' /\ NoStakeBeforeAgreement'
  BY <1>1, <1>2 DEF SessionInv, FundedIsStaked, NoStakeBeforeAgreement
<1>6. approvals' \in [Seats -> SUBSET Seats] /\ sent' \in [Seats -> BOOLEAN]
  BY <1>1 DEF SessionInv, TypeOK
<1>7. opened' \in [Seats -> BOOLEAN]
  BY <1>1 DEF SessionInv, TypeOK
<1>8. CASE opened'[p] /\ reserved[p] /\ head[p] < MaxTurns
  <2>1. Advance(p)
    BY <1>8 DEF Prepare
  <2>2. staked = Seats /\ Active[head[p]] = p
    BY <1>8 DEF SessionInv, NoPlayBeforeStakes, ReservedIsOwn
  <2>3. /\ head' = [head EXCEPT ![p] = Drained(p)]
        /\ Drained(p) \in head[p] .. Drained(p)
        /\ pending' \in [Seats -> SUBSET Turns]
        /\ \A q \in Seats : pending'[q] \subseteq pending[q]
        /\ reserved' \in [Seats -> BOOLEAN] /\ ~reserved'[p]
        /\ \A q \in Seats \ {p} : reserved'[q] = reserved[q]
    BY <1>8, <2>1, AdvanceTypes
  <2>4. head' \in [Seats -> 0..MaxTurns] /\ AuthorHasTurn'
    BY <1>1, <1>8, <2>2, <2>3, HeadMoves
  <2>5. ReservedIsOwn' /\ NoPlayBeforeStakes'
    BY <1>1, <2>2, <2>3 DEF SessionInv, TypeOK, ReservedIsOwn, NoPlayBeforeStakes
  <2>6. TypeOK'
    BY <1>1, <1>2, <1>6, <1>7, <2>3, <2>4 DEF SessionInv, TypeOK
  <2> QED
    BY <1>3, <1>4, <1>5, <2>4, <2>5, <2>6 DEF SessionInv
<1>9. CASE ~(opened'[p] /\ reserved[p] /\ head[p] < MaxTurns)
  <2>1. UNCHANGED <<head, pending, reserved>>
    BY <1>9 DEF Prepare
  <2>2. ReservedIsOwn' /\ NoPlayBeforeStakes' /\ AuthorHasTurn'
    BY <1>1, <2>1 DEF SessionInv, ReservedIsOwn, NoPlayBeforeStakes, AuthorHasTurn
  <2>3. TypeOK'
    BY <1>1, <1>2, <1>6, <1>7, <2>1 DEF SessionInv, TypeOK
  <2> QED
    BY <1>3, <1>4, <1>5, <2>2, <2>3 DEF SessionInv
<1> QED
  BY <1>8, <1>9

LEMMA PlayKeeps ==
  ASSUME SessionInv, NEW p \in Seats,
         Submit(p) \/ SubmitUnsent(p) \/ SubmitUnaccepted(p) \/ SubmitCrash(p)
  PROVE  SessionInv'
<1>0. staked = Seats /\ head[p] < MaxTurns /\ Active[head[p]] = p
  BY PlayIsStaked DEF Submit, SubmitUnsent, SubmitUnaccepted, SubmitCrash
<1>1. CASE Submit(p) \/ SubmitUnsent(p)
  <2>1. /\ Advance(p)
        /\ UNCHANGED <<up, approvals, opened, funded, heard, told, sent, worlds, staked>>
        /\ turns' \subseteq turns \cup {head[p]}
    BY <1>1 DEF Submit, SubmitUnsent, outside
  <2>2. /\ head' = [head EXCEPT ![p] = Drained(p)]
        /\ Drained(p) \in head[p] .. Drained(p) /\ Drained(p) > head[p]
        /\ pending' \in [Seats -> SUBSET Turns]
        /\ \A q \in Seats : pending'[q] \subseteq pending[q]
        /\ reserved' \in [Seats -> BOOLEAN] /\ ~reserved'[p]
        /\ \A q \in Seats \ {p} : reserved'[q] = reserved[q]
    BY <1>0, <2>1, AdvanceTypes
  <2>3. turns' \subseteq turns \cup {t \in {head[p]} : Active[t] = p /\ Drained(p) > t}
    BY <1>0, <2>1, <2>2
  <2>4. /\ up' \in [Seats -> BOOLEAN] /\ heard' \in [Seats -> SUBSET Turns]
        /\ told' \in [Seats -> SUBSET Seats]
        /\ opened' \in [Seats -> BOOLEAN] /\ funded' \in [Seats -> BOOLEAN]
        /\ approvals' \in [Seats -> SUBSET Seats]
    BY <2>1 DEF SessionInv, TypeOK
  <2> QED
    BY <1>0, <2>1, <2>2, <2>3, <2>4, JournalKeeps
<1>2. CASE SubmitUnaccepted(p)
  <2>1. /\ reserved' = [reserved EXCEPT ![p] = TRUE]
        /\ UNCHANGED <<memory, sent, head, outside>>
    BY <1>2 DEF SubmitUnaccepted
  <2> QED
    BY <1>0, <2>1 DEF SessionInv, TypeOK, SentIsPublished, ApprovalsArePublished,
       OpenedIsAgreed, FundedIsStaked, ReservedIsOwn, NoStakeBeforeAgreement,
       NoPlayBeforeStakes, AuthorHasTurn, memory, outside
<1>3. CASE SubmitCrash(p)
  <2>1. Forget(p) /\ UNCHANGED <<sent, worlds, turns, staked>>
    BY <1>3 DEF SubmitCrash, outside
  <2>2. /\ up' \in [Seats -> BOOLEAN] /\ heard' \in [Seats -> SUBSET Turns]
        /\ told' \in [Seats -> SUBSET Seats]
        /\ opened' \in [Seats -> BOOLEAN] /\ funded' \in [Seats -> BOOLEAN]
        /\ approvals' \in [Seats -> SUBSET Seats]
        /\ pending' \in [Seats -> SUBSET Turns]
    BY <2>1 DEF SessionInv, TypeOK, Forget
  <2>3. \A q \in Seats : /\ pending'[q] \subseteq pending[q]
                         /\ opened'[q] => opened[q]
                         /\ funded'[q] => funded[q]
                         /\ approvals'[q] \subseteq approvals[q]
    BY <2>1 DEF SessionInv, TypeOK, Forget
  <2>4. CASE head' = [head EXCEPT ![p] = @ + 1] /\ reserved' = [reserved EXCEPT ![p] = FALSE]
    <3>1. head[p] + 1 \in head[p] .. Drained(p)
      BY <1>0, DrainedIsFirstGap DEF SessionInv, TypeOK
    <3>2. head' = [head EXCEPT ![p] = head[p] + 1]
      BY <2>4
    <3>3. /\ reserved' \in [Seats -> BOOLEAN] /\ ~reserved'[p]
          /\ \A q \in Seats \ {p} : reserved'[q] = reserved[q]
      BY <2>4 DEF SessionInv, TypeOK
    <3> QED
      BY <1>0, <2>1, <2>2, <2>3, <3>1, <3>2, <3>3, JournalKeeps
  <2>5. CASE head' = head /\ reserved' = [reserved EXCEPT ![p] = TRUE]
    <3>1. TypeOK'
      BY <2>1, <2>2, <2>5 DEF SessionInv, TypeOK
    <3>2. SentIsPublished' /\ ApprovalsArePublished' /\ OpenedIsAgreed'
      BY <2>1, <2>3 DEF SessionInv, SentIsPublished, ApprovalsArePublished, OpenedIsAgreed
    <3>3. FundedIsStaked' /\ ReservedIsOwn' /\ NoStakeBeforeAgreement' /\ NoPlayBeforeStakes'
      BY <1>0, <2>1, <2>5 DEF SessionInv, TypeOK, FundedIsStaked, ReservedIsOwn,
         NoStakeBeforeAgreement, NoPlayBeforeStakes
    <3>4. AuthorHasTurn'
      BY <2>1, <2>3, <2>5 DEF SessionInv, AuthorHasTurn
    <3> QED
      BY <3>1, <3>2, <3>3, <3>4 DEF SessionInv
  <2> QED
    BY <1>3, <2>4, <2>5 DEF SubmitCrash
<1> QED
  BY <1>1, <1>2, <1>3

LEMMA HearKeeps ==
  ASSUME SessionInv, NEW p \in Seats, NEW t \in turns,
         HearTurn(p, t) \/ AcceptTurnFails(p, t)
  PROVE  SessionInv'
<1>0. /\ Handed(p, t) /\ heard' \in [Seats -> SUBSET Turns] /\ t \in Turns
  BY DEF HearTurn, DropTurn, BufferTurn, AcceptTurn, AcceptTurnFails, Handed,
     SessionInv, TypeOK
<1>1. CASE DropTurn(p, t)
  BY <1>0, <1>1 DEF DropTurn, SessionInv, TypeOK, SentIsPublished,
     ApprovalsArePublished, OpenedIsAgreed, FundedIsStaked, ReservedIsOwn,
     NoStakeBeforeAgreement, NoPlayBeforeStakes, AuthorHasTurn, disk, outside
<1>2. CASE BufferTurn(p, t)
  <2>1. /\ pending' = [pending EXCEPT ![p] = @ \cup {t}]
        /\ UNCHANGED <<up, approvals, opened, funded, told, disk, outside>>
    BY <1>2 DEF BufferTurn
  <2>2. TypeOK'
    BY <1>0, <2>1 DEF SessionInv, TypeOK, disk, outside
  <2>3. AuthorHasTurn'
    BY <2>1 DEF SessionInv, TypeOK, AuthorHasTurn, disk, outside
  <2> QED
    BY <2>1, <2>2, <2>3 DEF SessionInv, SentIsPublished, ApprovalsArePublished,
       OpenedIsAgreed, FundedIsStaked, ReservedIsOwn, NoStakeBeforeAgreement,
       NoPlayBeforeStakes, disk, outside
<1>3. CASE AcceptTurn(p, t)
  <2>0. staked = Seats /\ head[p] < MaxTurns /\ head[Active[head[p]]] > head[p]
    BY <1>3, HandedIsStaked DEF AcceptTurn
  <2>1. /\ Advance(p)
        /\ UNCHANGED <<up, approvals, opened, funded, told, sent, worlds, turns, staked>>
    BY <1>3 DEF AcceptTurn, outside
  <2>2. /\ head' = [head EXCEPT ![p] = Drained(p)]
        /\ Drained(p) \in head[p] .. Drained(p)
        /\ pending' \in [Seats -> SUBSET Turns]
        /\ \A q \in Seats : pending'[q] \subseteq pending[q]
        /\ reserved' \in [Seats -> BOOLEAN] /\ ~reserved'[p]
        /\ \A q \in Seats \ {p} : reserved'[q] = reserved[q]
    BY <2>0, <2>1, AdvanceTypes
  <2>3. /\ up' \in [Seats -> BOOLEAN] /\ told' \in [Seats -> SUBSET Seats]
        /\ opened' \in [Seats -> BOOLEAN] /\ funded' \in [Seats -> BOOLEAN]
        /\ approvals' \in [Seats -> SUBSET Seats]
    BY <2>1 DEF SessionInv, TypeOK
  <2> QED
    BY <1>0, <2>0, <2>1, <2>2, <2>3, JournalKeeps
<1>4. CASE AcceptTurnFails(p, t)
  <2>0. staked = Seats /\ head[p] < MaxTurns /\ head[Active[head[p]]] > head[p]
    BY <1>4, HandedIsStaked DEF AcceptTurnFails
  <2>1. PICK n \in head[p] .. Drained(p) - 1 :
          /\ head' = [head EXCEPT ![p] = n]
          /\ pending' = [pending EXCEPT ![p] = {u \in @ : u >= n}]
    BY <1>4 DEF AcceptTurnFails
  <2>2. UNCHANGED <<up, approvals, opened, funded, told, sent, reserved, worlds, turns, staked>>
    BY <1>4 DEF AcceptTurnFails, outside
  <2>3. n \in head[p] .. Drained(p)
    BY <2>0, DrainedIsFirstGap DEF SessionInv, TypeOK
  <2>4. /\ pending' \in [Seats -> SUBSET Turns]
        /\ \A q \in Seats : pending'[q] \subseteq pending[q]
    BY <2>1 DEF SessionInv, TypeOK
  <2>5. ~reserved[p]
    BY <1>0, <1>4, <2>0 DEF Handed, AcceptTurnFails, SessionInv, ReservedIsOwn
  <2>6. /\ up' \in [Seats -> BOOLEAN] /\ told' \in [Seats -> SUBSET Seats]
        /\ opened' \in [Seats -> BOOLEAN] /\ funded' \in [Seats -> BOOLEAN]
        /\ approvals' \in [Seats -> SUBSET Seats] /\ reserved' \in [Seats -> BOOLEAN]
    BY <2>2 DEF SessionInv, TypeOK
  <2> QED
    BY <1>0, <2>0, <2>1, <2>2, <2>3, <2>4, <2>5, <2>6, JournalKeeps
<1> QED
  BY <1>1, <1>2, <1>3, <1>4 DEF HearTurn

(* Steps outside the journal.                                              *)
LEMMA OtherKeeps ==
  ASSUME SessionInv, NEW p \in Seats,
         \/ Start(p) \/ Stop(p) \/ NoteFunded(p) \/ Fund(p)
         \/ \E q \in worlds : HearWorld(p, q)
  PROVE  SessionInv'
<1> USE DEF SentIsPublished, ApprovalsArePublished, OpenedIsAgreed,
     FundedIsStaked, ReservedIsOwn, NoStakeBeforeAgreement, NoPlayBeforeStakes,
     AuthorHasTurn, SessionInv, TypeOK, memory, disk, outside
<1>1. CASE Start(p)
  BY <1>1 DEF Start
<1>2. CASE Stop(p)
  BY <1>2 DEF Stop, Forget
<1>3. CASE NoteFunded(p)
  BY <1>3, SessionAssumption DEF NoteFunded
<1>4. CASE Fund(p)
  BY <1>4 DEF Fund
<1>5. ASSUME NEW q \in worlds, HearWorld(p, q) PROVE SessionInv'
  BY <1>5 DEF HearWorld
<1> QED
  BY <1>1, <1>2, <1>3, <1>4, <1>5

LEMMA SessionStep ==
  ASSUME SessionInv, [Next]_vars
  PROVE  SessionInv'
<1>1. CASE UNCHANGED vars
  BY <1>1 DEF vars, memory, disk, outside, SessionInv, TypeOK, SentIsPublished,
     ApprovalsArePublished, OpenedIsAgreed, FundedIsStaked, ReservedIsOwn,
     NoStakeBeforeAgreement, NoPlayBeforeStakes, AuthorHasTurn
<1>2. CASE Next
  BY <1>2, PrepareKeeps, PlayKeeps, HearKeeps, OtherKeeps DEF Next, Failure
<1> QED
  BY <1>1, <1>2

(* SessionInv is an invariant of a match. *)
THEOREM SessionInvariance == Spec => []SessionInv
<1>1. SessionInv /\ [Next]_vars => SessionInv'
  BY SessionStep
<1> QED
  BY <1>1, SessionStart, PTL DEF Spec

(* The state is well formed. *)
THEOREM SessionTypeCorrect == Spec => []TypeOK
<1>1. SessionInv => TypeOK
  BY DEF SessionInv
<1> QED
  BY <1>1, SessionInvariance, PTL

(* controller.go, submit and prepareWorld: no turn is reserved or accepted  *)
(* anywhere before every seat has staked.                                  *)
THEOREM StakesComeFirst == Spec => []NoPlayBeforeStakes
<1>1. SessionInv => NoPlayBeforeStakes
  BY DEF SessionInv
<1> QED
  BY <1>1, SessionInvariance, PTL

(* controller.go, refresh: nobody is asked for a stake before every seat's  *)
(* approval of the battlefield is published.                               *)
THEOREM AgreementComesFirst == Spec => []NoStakeBeforeAgreement
<1>1. SessionInv => NoStakeBeforeAgreement
  BY DEF SessionInv
<1> QED
  BY <1>1, SessionInvariance, PTL

(* controller.go, submit: whatever a peer holds of a turn, its author has   *)
(* it on disk.                                                             *)
THEOREM AuthorFirst == Spec => []AuthorHasTurn
<1>1. SessionInv => AuthorHasTurn
  BY DEF SessionInv
<1> QED
  BY <1>1, SessionInvariance, PTL
-------------------------------------------------------------------------------
(* The match and its payout in a row: PaidMatch                            *)

Paid == INSTANCE Settlement_proofs WITH disk <- records, Failures <- PayFailures

EndedIsPlayed == \A p \in Seats : records[p].ended => head[p] = MaxTurns

PaidInv == SessionInv /\ Paid!MoneyInv /\ EndedIsPlayed

(* The lemmas of Settlement_proofs hold of this match: it has seats. *)
LEMMA PaidAssumption == Paid!SettlementAssumption
<1>1. 0 \in Turns
  BY SessionAssumption DEF Turns
<1>2. Active[0] \in Seats
  BY <1>1, SessionAssumption
<1> QED
  BY <1>2, PayAssumption DEF Paid!SettlementAssumption

(* Nothing moves a journal that holds the last turn. *)
LEMMA EndStays ==
  ASSUME SessionInv, [Next]_vars, NEW p \in Seats, head[p] = MaxTurns
  PROVE  head'[p] = MaxTurns
<1>1. head \in [Seats -> 0..MaxTurns] /\ turns \subseteq Turns /\ MaxTurns \in Nat
  BY SessionAssumption DEF SessionInv, TypeOK
<1>2. \A q \in Seats : \A n : head' = [head EXCEPT ![q] = n] /\ q # p => head'[p] = MaxTurns
  BY <1>1
<1>3. CASE UNCHANGED vars \/ head' = head
  BY <1>3 DEF vars, disk
<1>4. ASSUME NEW q \in Seats,
             \/ Start(q) \/ Stop(q) \/ NoteFunded(q) \/ Fund(q) \/ SubmitUnaccepted(q)
             \/ \E r \in worlds : HearWorld(q, r)
             \/ \E t \in turns : DropTurn(q, t) \/ BufferTurn(q, t)
      PROVE  head' = head
  BY <1>4 DEF Start, Stop, NoteFunded, Fund, SubmitUnaccepted, HearWorld, DropTurn,
     BufferTurn, disk
<1>5. ASSUME NEW q \in Seats,
             \/ Prepare(q) \/ Submit(q) \/ SubmitUnsent(q) \/ SubmitCrash(q)
             \/ \E t \in turns : AcceptTurn(q, t) \/ AcceptTurnFails(q, t)
      PROVE  \/ head' = head
             \/ head[q] < MaxTurns /\ \E n : head' = [head EXCEPT ![q] = n]
  <2>1. CASE Prepare(q)
    BY <2>1 DEF Prepare, Advance
  <2>2. CASE Submit(q) \/ SubmitUnsent(q) \/ SubmitCrash(q)
    BY <2>2 DEF Submit, SubmitUnsent, SubmitCrash, MayPlay, Advance
  <2>3. CASE \E t \in turns : AcceptTurn(q, t) \/ AcceptTurnFails(q, t)
    <3>1. PICK t \in turns : AcceptTurn(q, t) \/ AcceptTurnFails(q, t)
      BY <2>3
    <3>2. t = head[q] /\ t \in Turns
      BY <1>1, <3>1 DEF AcceptTurn, AcceptTurnFails
    <3>3. head[q] < MaxTurns
      BY <1>1, <3>2 DEF Turns
    <3> QED
      BY <3>1, <3>3 DEF AcceptTurn, AcceptTurnFails, Advance
  <2> QED
    BY <2>1, <2>2, <2>3, <1>5
<1>6. CASE Next
  <2>1. PICK q \in Seats :
          \/ head' = head
          \/ head[q] < MaxTurns /\ \E n : head' = [head EXCEPT ![q] = n]
    BY <1>4, <1>5, <1>6 DEF Next, HearTurn, Failure
  <2>2. CASE head[q] < MaxTurns /\ \E n : head' = [head EXCEPT ![q] = n]
    <3>1. q # p
      BY <2>2, <1>1
    <3> QED
      BY <1>2, <2>2, <3>1
  <2> QED
    BY <1>3, <2>1, <2>2
<1> QED
  BY <1>3, <1>6

(* Every step of the settlement is a step of Settlement_proofs. *)
LEMMA PaidSteps ==
  /\ Money!PlayedInit <=> Paid!PlayedInit
  /\ \A p \in Seats : Money!PlayEnds(p) <=> Paid!PlayEnds(p)
  /\ \A p \in Seats : Money!SeatSteps(p) <=> Paid!SeatSteps(p)
  /\ Money!Broadcast <=> Paid!Broadcast
  /\ Money!Mine <=> Paid!Mine
<1> USE DEF Money!Does, Paid!Does, Money!Wrote, Paid!Wrote, Money!Job, Paid!Job,
     Money!Blank, Paid!Blank, Money!Kinds, Paid!Kinds, Money!Outside, Paid!Outside,
     Money!Refunded, Paid!Refunded, Money!LeftEscrow, Paid!LeftEscrow,
     Money!LeavesEscrow, Paid!LeavesEscrow
<1>1. Money!PlayedInit <=> Paid!PlayedInit
  BY DEF Money!PlayedInit, Paid!PlayedInit, Money!Unpaid, Paid!Unpaid
<1>2. \A p \in Seats : Money!PlayEnds(p) <=> Paid!PlayEnds(p)
  BY DEF Money!PlayEnds, Paid!PlayEnds
<1>3. \A p \in Seats : Money!Refresh(p) <=> Paid!Refresh(p)
  BY DEF Money!Refresh, Paid!Refresh, Money!TickAway, Paid!TickAway,
     Money!TickBlank, Paid!TickBlank, Money!TickReceipt, Paid!TickReceipt,
     Money!TickStakes, Paid!TickStakes, Money!StakesView, Paid!StakesView, Money!NoteSettled, Paid!NoteSettled,
     Money!NoteSettledFails, Paid!NoteSettledFails,
     Money!SettleFinished, Paid!SettleFinished, Money!Ticks, Paid!Ticks,
     Money!SeesPaid, Paid!SeesPaid, Money!OwnChecks, Paid!OwnChecks,
     Money!PayoutProgress, Paid!PayoutProgress, Money!Foreground, Paid!Foreground
<1>4. \A p \in Seats : Money!SeatSteps(p) <=> Paid!SeatSteps(p)
  BY <1>3 DEF Money!SeatSteps, Paid!SeatSteps, Money!Start, Paid!Start,
     Money!Stop, Paid!Stop, Money!Fund, Paid!Fund, Money!Close, Paid!Close,
     Money!Select, Paid!Select, Money!JobEnds, Paid!JobEnds, Money!JobDone, Paid!JobDone,
     Money!Deposit, Paid!Deposit, Money!Learn, Paid!Learn, Money!CoSign, Paid!CoSign,
     Money!Refund, Paid!Refund, Money!RefundMined, Paid!RefundMined
<1>5. (Money!Broadcast <=> Paid!Broadcast) /\ (Money!Mine <=> Paid!Mine)
  BY DEF Money!Broadcast, Paid!Broadcast, Money!Mine, Paid!Mine
<1> QED
  BY <1>1, <1>2, <1>4, <1>5

LEMMA PaidStart == MatchInit => PaidInv
<1> SUFFICES ASSUME MatchInit PROVE PaidInv
  OBVIOUS
<1>1. SessionInv
  BY SessionStart DEF MatchInit
<1>2. Paid!PlayedInit
  BY PaidSteps DEF MatchInit
<1>3. Paid!MoneyInv
  BY <1>2, PaidAssumption, Paid!JobStart, Paid!PayStart DEF Paid!MoneyInv
<1>4. EndedIsPlayed
  BY <1>2 DEF Paid!PlayedInit, Paid!Unpaid, EndedIsPlayed
<1> QED
  BY <1>1, <1>3, <1>4 DEF PaidInv

(* Only PlayEnds ends a seat's record. *)
LEMMA EndedByPlay ==
  ASSUME Paid!SettlementTypeOK, NEW q \in Seats,
         \/ Paid!Broadcast \/ Paid!Mine \/ \E p \in Seats : Paid!SeatSteps(p)
  PROVE  records'[q].ended = records[q].ended
<1>1. records \in [Seats -> [ended : BOOLEAN, receipt : BOOLEAN, concluded : BOOLEAN]]
  BY DEF Paid!SettlementTypeOK
<1>2. \A p \in Seats : \A r : 
        Paid!Wrote(p, [records[p] EXCEPT !.receipt = r]) => records'[q].ended = records[q].ended
  BY <1>1 DEF Paid!Wrote
<1>3. \A p \in Seats :
        Paid!Wrote(p, [records[p] EXCEPT !.concluded = TRUE])
          => records'[q].ended = records[q].ended
  BY <1>1 DEF Paid!Wrote
<1>4. CASE Paid!Broadcast \/ Paid!Mine
  BY <1>4 DEF Paid!Broadcast, Paid!Mine, Paid!Outside
<1>5. ASSUME NEW p \in Seats, Paid!Refresh(p)
      PROVE  records'[q].ended = records[q].ended
  BY <1>2, <1>5 DEF Paid!Refresh, Paid!TickAway, Paid!TickBlank, Paid!TickReceipt,
     Paid!TickStakes, Paid!NoteSettled, Paid!NoteSettledFails, Paid!SettleFinished
<1>6. ASSUME NEW p \in Seats, Paid!SeatSteps(p), ~Paid!Refresh(p)
      PROVE  records'[q].ended = records[q].ended
  BY <1>3, <1>6 DEF Paid!SeatSteps, Paid!Start, Paid!Stop, Paid!Fund, Paid!Close,
     Paid!Select, Paid!JobEnds, Paid!JobDone, Paid!Deposit, Paid!Learn, Paid!CoSign,
     Paid!Refund, Paid!RefundMined, Paid!Outside
<1> QED
  BY <1>4, <1>5, <1>6

LEMMA PaidStep ==
  ASSUME PaidInv, [MatchNext]_Both
  PROVE  PaidInv'
<1>1. CASE UNCHANGED Both \/ (Next /\ UNCHANGED paid)
  <2>1. [Next]_vars /\ UNCHANGED paid
    BY <1>1 DEF Both
  <2>2. UNCHANGED <<mem, records, net>>
    BY <2>1 DEF paid
  <2>3. [Paid!SettlementNext]_Paid!settlementVars
    BY <2>2 DEF Paid!settlementVars
  <2>4. SessionInv' /\ Paid!MoneyInv'
    BY <2>1, <2>3, SessionStep, PaidAssumption, Paid!JobStep, Paid!PayStep
    DEF PaidInv, Paid!MoneyInv, Paid!JobInv
  <2>5. EndedIsPlayed'
    BY <2>1, <2>2, EndStays DEF PaidInv, EndedIsPlayed
  <2> QED
    BY <2>4, <2>5 DEF PaidInv
<1>2. CASE Settle \/ \E p \in Seats : Played(p)
  <2>1. UNCHANGED vars
    BY <1>2 DEF Settle, Played
  <2>2. Paid!SettlementNext
    BY <1>2, PaidSteps DEF Settle, Played, Paid!SettlementNext, Paid!SettlementSteps
  <2>3. SessionInv' /\ Paid!MoneyInv'
    BY <2>1, <2>2, SessionStep, PaidAssumption, Paid!JobStep, Paid!PayStep
    DEF PaidInv, Paid!MoneyInv, Paid!JobInv
  <2>4. head' = head
    BY <2>1 DEF vars, disk
  <2>5. CASE Settle
    <3>1. \A q \in Seats : records'[q].ended = records[q].ended
      BY <2>5, PaidSteps, EndedByPlay DEF Settle, PaidInv, Paid!MoneyInv, Paid!JobInv
    <3> QED
      BY <2>3, <2>4, <3>1 DEF PaidInv, EndedIsPlayed
  <2>6. CASE \E p \in Seats : Played(p)
    <3>1. PICK p \in Seats : head[p] = MaxTurns /\ Paid!PlayEnds(p)
      BY <2>6, PaidSteps DEF Played
    <3>2. \A q \in Seats \ {p} : records'[q] = records[q]
      BY <3>1 DEF Paid!PlayEnds, Paid!Wrote, PaidInv, Paid!MoneyInv, Paid!JobInv,
         Paid!SettlementTypeOK
    <3> QED
      BY <2>3, <2>4, <3>1, <3>2 DEF PaidInv, EndedIsPlayed
  <2> QED
    BY <1>2, <2>5, <2>6
<1> QED
  BY <1>1, <1>2 DEF MatchNext

(* controller.go, settleFinished, and rules.go, WillCoSign, over the turns  *)
(* that actually arrive: nobody signs before the own journal holds the      *)
(* last turn, and no payout is made before every journal does.             *)
THEOREM SignaturesFollowPlay == MatchSpec => []SignsOnlyEnded
<1>1. PaidInv => SignsOnlyEnded
  BY DEF PaidInv, EndedIsPlayed, Paid!MoneyInv, Paid!PayInv, Paid!SignsOnlyEnded,
     SignsOnlyEnded, Money!SignsOnlyEnded
<1>2. PaidInv /\ [MatchNext]_Both => PaidInv'
  BY PaidStep
<1> QED
  BY <1>1, <1>2, PaidStart, PTL DEF MatchSpec
===============================================================================
