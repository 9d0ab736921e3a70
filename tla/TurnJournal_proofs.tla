--------------------------- MODULE TurnJournal_proofs ---------------------------
(***************************************************************************)
(* Proofs about the turn journal, for any number of seats, any moves, any  *)
(* turn order, any window and any length of the match.                     *)
(*                                                                         *)
(* The argument: every history in play is chained, that is, each of its    *)
(* moves comes from a batch signed by the seat whose turn it was, because   *)
(* Receive and the signer's journal both replay a batch before they record  *)
(* it, whatever a faulty seat has signed; a sound seat signs a body only    *)
(* when a record that no failure takes holds it; that record is the only   *)
(* one of its turn.  Where every seat is sound two histories of signed     *)
(* batches therefore cannot part.                                          *)
(***************************************************************************)
EXTENDS TurnJournal, NaturalFacts, FiniteSetTheorems, TLAPS

(* Every move of h was signed by the seat whose turn it was. *)
Chained(h) == \A i \in 1..Len(h) : BatchOf(h, i) \in signed

(* b is a batch its active seat could make at a chained, unfinished state. *)
Sound(b) ==
  /\ b.seat = ActiveSeat[b.before]
  /\ b.before \notin Ended
  /\ Chained(b.before)

ClosedIsEmpty ==
  \A p \in Seats : ~open[p] =>
    head[p] = <<>> /\ pending[p] = {} /\ cursor[p] = None /\ intent[p] = None

SignedIsSound    == \A b \in signed : b.seat \notin Faulty => Sound(b)
SignedIsReserved == \A b \in signed : b.seat \notin Faulty => Reserved(b) \in stable[b.seat]
StableIsStored   == \A p \in Seats : stable[p] \subseteq store[p]
WriteOnce ==
  \A p \in Seats : \A q, r \in store[p] :
    q.kind = r.kind /\ Turn(q.batch) = Turn(r.batch) => q = r
HeadIsChained    == \A p \in Seats : Chained(head[p])
StoredIsSigned ==
  \A p \in Seats : \A r \in store[p] : r.kind = "a" => r.batch \in signed /\ Sound(r.batch)
StoredIsSound ==
  \A p \in Seats : \A r \in store[p] : r.kind = "s" => r.batch.seat = p /\ Sound(r.batch)
IntentIsReserved == \A p \in Seats : intent[p] # None => Reserved(intent[p]) \in stable[p]
MemoryIsSigned ==
  \A p \in Seats : pending[p] \subseteq signed /\ (cursor[p] # None => cursor[p] \in signed)

IInv ==
  /\ TypeOK
  /\ ClosedIsEmpty
  /\ SignedIsSound
  /\ SignedIsReserved
  /\ StableIsStored
  /\ WriteOnce
  /\ HeadIsChained
  /\ StoredIsSigned
  /\ StoredIsSound
  /\ IntentIsReserved
  /\ MemoryIsSigned

(* While every directory is sound a turn has one batch. *)
OneBatchPerTurn ==
  Faulty = {} => \A b, c \in signed : Turn(b) = Turn(c) => b = c

-------------------------------------------------------------------------------
(* Histories and batches                                                   *)

(* A history is a sequence of moves no longer than the bound. *)
LEMMA HistoryIsSeq ==
  ASSUME NEW h \in Histories
  PROVE  h \in Seq(Moves) /\ Len(h) \in 0..MaxTurns /\ h = [i \in 1..Len(h) |-> h[i]]
  <1>1. PICK n \in 0..MaxTurns : h \in [1..n -> Moves]
    BY DEF Histories
  <1>2. n \in Nat
    BY <1>1, ConstantsAssumption
  <1> QED
    BY <1>1, <1>2

(* Conversely, a short enough sequence of moves is a history. *)
LEMMA SeqIsHistory ==
  ASSUME NEW s \in Seq(Moves), Len(s) \in 0..MaxTurns
  PROVE  s \in Histories
  <1>1. s \in [1..Len(s) -> Moves]
    OBVIOUS
  <1> QED
    BY <1>1 DEF Histories

(* The beginning of a history is a history. *)
LEMMA PrefixIsHistory ==
  ASSUME NEW h \in Histories, NEW i \in 1..Len(h)
  PROVE  /\ SubSeq(h, 1, i - 1) \in Histories
         /\ Len(SubSeq(h, 1, i - 1)) = i - 1
         /\ h[i] \in Moves
  <1>1. h \in Seq(Moves) /\ Len(h) \in 0..MaxTurns
    BY HistoryIsSeq
  <1>2. SubSeq(h, 1, i - 1) = [j \in 1..(i - 1) |-> h[j]]
    BY <1>1
  <1>3. i - 1 \in 0..MaxTurns /\ h[i] \in Moves
    BY <1>1, ConstantsAssumption
  <1>4. \A j \in 1..(i - 1) : h[j] \in Moves
    BY <1>1
  <1>5. SubSeq(h, 1, i - 1) \in [1..(i - 1) -> Moves]
    BY <1>2, <1>4
  <1> QED
    BY <1>1, <1>2, <1>3, <1>5 DEF Histories

(* The batch that made move i is a batch of turn i - 1. *)
LEMMA BatchOfType ==
  ASSUME NEW h \in Histories, NEW i \in 1..Len(h)
  PROVE  /\ BatchOf(h, i) \in Batches
         /\ Turn(BatchOf(h, i)) = i - 1
         /\ BatchOf(h, i).move = h[i]
         /\ BatchOf(h, i).before = SubSeq(h, 1, i - 1)
  BY PrefixIsHistory, ConstantsAssumption DEF BatchOf, Batches, Turn

(* One more move makes a history of a history that has not ended. *)
LEMMA ExtendedHistory ==
  ASSUME NEW h \in Histories, h \notin Ended, NEW m \in Moves
  PROVE  /\ Append(h, m) \in Histories
         /\ Len(Append(h, m)) = Len(h) + 1
  <1>1. h \in Seq(Moves) /\ Len(h) \in 0..MaxTurns
    BY HistoryIsSeq
  <1>2. Len(h) # MaxTurns
    BY ConstantsAssumption
  <1>3. Len(h) + 1 \in 0..MaxTurns
    BY <1>1, <1>2, ConstantsAssumption
  <1>4. Append(h, m) \in Seq(Moves) /\ Len(Append(h, m)) = Len(h) + 1
    BY <1>1
  <1> QED
    BY <1>3, <1>4, SeqIsHistory

(* Appending a move changes no earlier batch and adds the one that made it. *)
LEMMA BatchOfAppend ==
  ASSUME NEW h \in Histories, NEW m \in Moves, NEW i \in 1..(Len(h) + 1)
  PROVE  BatchOf(Append(h, m), i) =
           IF i = Len(h) + 1 THEN [seat |-> ActiveSeat[h], before |-> h, move |-> m]
                             ELSE BatchOf(h, i)
  <1>1. h \in Seq(Moves) /\ Len(h) \in Nat
    BY HistoryIsSeq
  <1>2. SubSeq(Append(h, m), 1, i - 1) = SubSeq(h, 1, i - 1)
    <2>1. Append(h, m) \in Seq(Moves) /\ Len(Append(h, m)) = Len(h) + 1
      BY <1>1
    <2>2. SubSeq(Append(h, m), 1, i - 1) = [j \in 1..(i - 1) |-> Append(h, m)[j]]
      BY <2>1, <1>1
    <2>3. SubSeq(h, 1, i - 1) = [j \in 1..(i - 1) |-> h[j]]
      BY <1>1
    <2>4. \A j \in 1..(i - 1) : Append(h, m)[j] = h[j]
      BY <1>1
    <2> QED
      BY <2>2, <2>3, <2>4
  <1>3. CASE i = Len(h) + 1
    <2>1. SubSeq(Append(h, m), 1, i - 1) = h
      BY <1>1, <1>2, <1>3
    <2>2. Append(h, m)[i] = m
      BY <1>1, <1>3
    <2> QED
      BY <1>3, <2>1, <2>2 DEF BatchOf
  <1>4. CASE i # Len(h) + 1
    <2>1. Append(h, m)[i] = h[i]
      BY <1>1, <1>4
    <2> QED
      BY <1>2, <1>4, <2>1 DEF BatchOf
  <1> QED
    BY <1>3, <1>4

-------------------------------------------------------------------------------
(* Type correctness                                                        *)

(* What the head becomes when its next turn is accepted is a history. *)
LEMMA AfterIsHistory ==
  ASSUME NEW h \in Histories, NEW b \in Batches, Extends(b, h)
  PROVE  After(b) \in Histories
  BY ExtendedHistory DEF Extends, After, Batches

(* A match starts with the empty history. *)
LEMMA EmptyHistory == <<>> \in Histories
  <1>1. <<>> \in Seq(Moves) /\ Len(<<>>) \in 0..MaxTurns
    BY ConstantsAssumption
  <1> QED
    BY <1>1, SeqIsHistory

LEMMA TypeInit == Init => TypeOK
  BY EmptyHistory DEF Init, TypeOK

(* Every step keeps the type of every variable. *)
LEMMA TypeStep == TypeOK /\ [Next]_vars => TypeOK'
  <1> SUFFICES ASSUME TypeOK, [Next]_vars
               PROVE  TypeOK'
    OBVIOUS
  <1> USE DEF TypeOK
  <1>1. ASSUME NEW p \in Seats, OpenJournal(p)
        PROVE  TypeOK'
    BY <1>1 DEF OpenJournal
  <1>2. ASSUME NEW p \in Seats, NEW m \in Moves, Reserve(p, m) \/ ReserveUnsure(p, m)
        PROVE  TypeOK'
    <2>1. Body(p, m) \in Batches /\ Reserved(Body(p, m)) \in Records
      BY DEF Body, Batches, Reserved, Records
    <2> QED
      BY <1>2, <2>1 DEF Reserve, ReserveUnsure, Put, PutUnsure
  <1>3. ASSUME NEW p \in Seats, Resume(p)
        PROVE  TypeOK'
    <2>1. PICK r \in store[p] : Put(p, r) /\ intent' = [intent EXCEPT ![p] = r.batch]
      BY <1>3 DEF Resume
    <2>2. r \in Records /\ r.batch \in Batches
      BY DEF Records
    <2> QED
      BY <1>3, <2>1, <2>2 DEF Resume, Put
  <1>4. ASSUME NEW p \in Seats, Sign(p)
        PROVE  TypeOK'
    BY <1>4 DEF Sign
  <1>5. ASSUME NEW p \in Seats, NEW b \in Batches, Deliver(p, b) \/ Forge(p, b)
        PROVE  TypeOK'
    BY <1>5 DEF Deliver, Buffer, Begin, Forge
  <1>6. ASSUME NEW p \in Seats, Accept(p)
        PROVE  TypeOK'
    <2> DEFINE b == cursor[p]
               next == {c \in pending'[p] : Turn(c) = HeadTurn(After(b)) /\ After(b) \notin Ended}
    <2>1. b \in Batches /\ Accepted(b) \in Records
      BY <1>6 DEF Accept, Accepted, Records
    <2>2. After(b) \in Histories
      BY <1>6, <2>1, AfterIsHistory DEF Accept, Verifies
    <2>3. pending' \in [Seats -> SUBSET Batches]
      BY <1>6 DEF Accept, Without
    <2>4. cursor' \in [Seats -> Batches \cup {None}]
      <3>1. cursor' = [cursor EXCEPT ![p] = IF next = {} THEN None ELSE CHOOSE c \in next : TRUE]
        BY <1>6 DEF Accept
      <3>2. next # {} => (CHOOSE c \in next : TRUE) \in Batches
        BY <2>3
      <3> HIDE DEF next
      <3> QED
        BY <3>1, <3>2
    <2>5. store' \in [Seats -> SUBSET Records] /\ stable' \in [Seats -> SUBSET Records]
      BY <1>6, <2>1 DEF Accept, Put
    <2> QED
      BY <1>6, <2>2, <2>3, <2>4, <2>5 DEF Accept
  <1>7. ASSUME NEW p \in Seats, Reject(p)
        PROVE  TypeOK'
    BY <1>7 DEF Reject, Without
  <1>8. ASSUME NEW p \in Seats, AcceptFail(p)
        PROVE  TypeOK'
    <2>1. Accepted(cursor[p]) \in Records
      BY <1>8 DEF AcceptFail, Accepted, Records
    <2> QED
      BY <1>8, <2>1 DEF AcceptFail, PutUnsure
  <1>9. ASSUME NEW p \in Seats, Failure(p)
        PROVE  TypeOK'
    <2>1. CASE ProcessCrash(p)
      BY <2>1, EmptyHistory DEF ProcessCrash, Stop
    <2>2. CASE PowerLoss(p)
      <3>1. PICK S \in SUBSET store[p] : /\ store' = [store EXCEPT ![p] = S]
                                         /\ stable' = [stable EXCEPT ![p] = S]
        BY <2>2 DEF PowerLoss
      <3>2. S \in SUBSET Records
        OBVIOUS
      <3>3. store' \in [Seats -> SUBSET Records] /\ stable' \in [Seats -> SUBSET Records]
        BY <3>1, <3>2
      <3> QED
        BY <2>2, <3>3, EmptyHistory DEF PowerLoss, Stop
    <2>3. CASE Wipe(p)
      BY <2>3 DEF Wipe
    <2> QED
      BY <1>9, <2>1, <2>2, <2>3 DEF Failure
  <1>10. CASE UNCHANGED vars
    BY <1>10 DEF vars
  <1> QED
    BY <1>1, <1>2, <1>3, <1>4, <1>5, <1>6, <1>7, <1>8, <1>9, <1>10 DEF Next

(* Every variable of the journals keeps its type, for every instance. *)
THEOREM TypeCorrect == Spec => []TypeOK
  <1> QED
    BY TypeInit, TypeStep, PTL DEF Spec

-------------------------------------------------------------------------------
(* The inductive invariant                                                 *)

(* A chain stays one as more batches are signed. *)
LEMMA ChainedStays ==
  ASSUME NEW h, Chained(h), signed \subseteq signed'
  PROVE  Chained(h)'
  BY DEF Chained

LEMMA SoundStays ==
  ASSUME NEW b, Sound(b), signed \subseteq signed'
  PROVE  Sound(b)'
  BY ChainedStays DEF Sound

(* Accepting a signed batch at a chained head leaves a chained head. *)
LEMMA ChainedAppend ==
  ASSUME NEW h \in Histories, NEW b \in signed, b \in Batches,
         Chained(h), Extends(b, h)
  PROVE  Chained(After(b))
  <1>1. After(b) = Append(h, b.move) /\ b.move \in Moves /\ Len(After(b)) = Len(h) + 1
    BY ExtendedHistory DEF Extends, After, Batches
  <1>2. b = [seat |-> ActiveSeat[h], before |-> h, move |-> b.move]
    BY DEF Extends, Batches
  <1>3. Len(h) \in Nat
    BY HistoryIsSeq, ConstantsAssumption
  <1>4. ASSUME NEW i \in 1..(Len(h) + 1)
        PROVE  BatchOf(After(b), i) \in signed
    <2>1. BatchOf(After(b), i) = IF i = Len(h) + 1 THEN b ELSE BatchOf(h, i)
      BY <1>1, <1>2, BatchOfAppend
    <2>2. i # Len(h) + 1 => i \in 1..Len(h)
      BY <1>3
    <2> QED
      BY <2>1, <2>2 DEF Chained
  <1> QED
    BY <1>1, <1>4 DEF Chained

(* Linking a record its key does not refuse keeps records write-once. *)
LEMMA WriteOnceStays ==
  ASSUME WriteOnce, TypeOK, NEW p \in Seats, NEW r, ~Refuses(store[p], r),
         store' = [store EXCEPT ![p] = @ \cup {r}]
  PROVE  WriteOnce'
  BY DEF WriteOnce, TypeOK, Refuses

LEMMA IInvInit == Init => IInv
  <1> SUFFICES ASSUME Init
               PROVE  IInv
    OBVIOUS
  <1>1. TypeOK
    BY TypeInit
  <1>2. \A p \in Seats : Chained(head[p])
    BY DEF Init, Chained
  <1> QED
    BY <1>1, <1>2 DEF Init, IInv, ClosedIsEmpty, SignedIsSound, SignedIsReserved,
      StableIsStored, WriteOnce, HeadIsChained, StoredIsSigned, StoredIsSound,
      IntentIsReserved, MemoryIsSigned

(* Opening a journal rebuilds a chained head from recorded turns. *)
LEMMA OpenStep ==
  ASSUME IInv, TypeOK', NEW p \in Seats, OpenJournal(p)
  PROVE  IInv'
  <1> USE DEF IInv
  <1>1. PICK h \in Histories : Replays(store[p], h) /\ head' = [head EXCEPT ![p] = h]
    BY DEF OpenJournal
  <1>2. open' = [open EXCEPT ![p] = TRUE] /\ stable' = [stable EXCEPT ![p] = store[p]]
        /\ pending' = pending /\ cursor' = cursor /\ intent' = intent
        /\ store' = store /\ signed' = signed
    BY DEF OpenJournal
  <1>3. Chained(h)
    <2> SUFFICES ASSUME NEW i \in 1..Len(h)
                 PROVE  BatchOf(h, i) \in signed
      BY DEF Chained
    <2>1. Accepted(BatchOf(h, i)) \in store[p]
      BY <1>1 DEF Replays
    <2> QED
      BY <2>1 DEF StoredIsSigned, Accepted
  <1>4. HeadIsChained'
    BY <1>1, <1>2, <1>3, ChainedStays DEF HeadIsChained, TypeOK, Chained
  <1>5. ClosedIsEmpty'
    BY <1>1, <1>2 DEF ClosedIsEmpty, TypeOK
  <1>6. \A q \in Seats : stable[q] \subseteq stable'[q] /\ stable'[q] \subseteq store'[q]
    BY <1>2 DEF StableIsStored, TypeOK
  <1>7. SignedIsReserved' /\ StableIsStored' /\ IntentIsReserved'
    BY <1>2, <1>6 DEF SignedIsReserved, StableIsStored, IntentIsReserved, TypeOK, Batches
  <1>8. SignedIsSound' /\ StoredIsSound' /\ StoredIsSigned'
    BY <1>2, SoundStays DEF SignedIsSound, StoredIsSound, StoredIsSigned
  <1> QED
    BY <1>2, <1>4, <1>5, <1>7, <1>8 DEF WriteOnce, MemoryIsSigned

(* Reserving a body, whether or not the write is known to be durable, adds *)
(* the only record of its turn, of a batch sound at the peer's own head.   *)
LEMMA ReserveStep ==
  ASSUME IInv, TypeOK', NEW p \in Seats, NEW m \in Moves,
         Reserve(p, m) \/ ReserveUnsure(p, m)
  PROVE  IInv'
  <1> USE DEF IInv
  <1> DEFINE r == Reserved(Body(p, m))
  <1>1. /\ Idle(p) /\ Extends(Body(p, m), head[p]) /\ ~Refuses(store[p], r)
        /\ store' = [store EXCEPT ![p] = @ \cup {r}]
        /\ \/ stable' = [stable EXCEPT ![p] = store[p] \cup {r}] /\ intent' = [intent EXCEPT ![p] = Body(p, m)]
           \/ stable' = stable /\ intent' = intent
        /\ open' = open /\ head' = head /\ pending' = pending /\ cursor' = cursor /\ signed' = signed
    BY DEF Reserve, ReserveUnsure, Put, PutUnsure
  <1>2. WriteOnce'
    BY <1>1, WriteOnceStays
  <1>3. \A q \in Seats : stable[q] \subseteq stable'[q] /\ stable'[q] \subseteq store'[q]
    BY <1>1 DEF StableIsStored, TypeOK
  <1>4. SignedIsReserved' /\ StableIsStored'
    BY <1>1, <1>3 DEF SignedIsReserved, StableIsStored, TypeOK, Batches
  <1>5. IntentIsReserved'
    BY <1>1, <1>3 DEF IntentIsReserved, TypeOK
  <1>6. r.kind = "s" /\ r.batch.seat = p /\ Sound(r.batch)
    <2>1. Chained(head[p])
      BY DEF HeadIsChained
    <2> QED
      BY <1>1, <2>1 DEF Reserved, Body, Sound, Extends
  <1>7. StoredIsSound' /\ StoredIsSigned'
    <2>1. \A q \in Seats : \A x \in store'[q] : x \in store[q] \/ (q = p /\ x = r)
      BY <1>1 DEF TypeOK
    <2>2. \A x : Sound(x) => Sound(x)'
      BY <1>1, SoundStays
    <2> HIDE DEF r
    <2> QED
      BY <1>1, <1>6, <2>1, <2>2 DEF StoredIsSound, StoredIsSigned
  <1>8. ClosedIsEmpty'
    BY <1>1 DEF ClosedIsEmpty, Idle, TypeOK
  <1>9. SignedIsSound' /\ HeadIsChained' /\ MemoryIsSigned'
    BY <1>1, SoundStays, ChainedStays DEF SignedIsSound, HeadIsChained, MemoryIsSigned
  <1> QED
    BY <1>2, <1>4, <1>5, <1>7, <1>8, <1>9

(* Resuming makes the stored reservation durable before it is signed. *)
LEMMA ResumeStep ==
  ASSUME IInv, TypeOK', NEW p \in Seats, Resume(p)
  PROVE  IInv'
  <1> USE DEF IInv
  <1>1. PICK r \in store[p] : /\ r.kind = "s"
                              /\ Put(p, r)
                              /\ intent' = [intent EXCEPT ![p] = r.batch]
    BY DEF Resume
  <1>2. /\ Idle(p) /\ open' = open /\ head' = head /\ pending' = pending
        /\ cursor' = cursor /\ signed' = signed
    BY DEF Resume
  <1>3. store' = store /\ stable' = [stable EXCEPT ![p] = store[p]]
    <2>1. store[p] \cup {r} = store[p]
      OBVIOUS
    <2>2. [store EXCEPT ![p] = store[p]] = store
      BY DEF TypeOK
    <2> QED
      BY <1>1, <2>1, <2>2 DEF Put
  <1>4. r = Reserved(r.batch)
    BY <1>1 DEF Reserved, Records, TypeOK
  <1>5. \A q \in Seats : stable[q] \subseteq stable'[q] /\ stable'[q] \subseteq store'[q]
    BY <1>3 DEF StableIsStored, TypeOK
  <1>6. IntentIsReserved'
    BY <1>1, <1>3, <1>4, <1>5 DEF IntentIsReserved, TypeOK
  <1>7. SignedIsReserved' /\ StableIsStored'
    BY <1>2, <1>3, <1>5 DEF SignedIsReserved, StableIsStored, TypeOK, Batches
  <1>8. ClosedIsEmpty'
    BY <1>1, <1>2 DEF ClosedIsEmpty, Idle, TypeOK
  <1>9. /\ SignedIsSound' /\ HeadIsChained' /\ MemoryIsSigned'
        /\ WriteOnce' /\ StoredIsSigned' /\ StoredIsSound'
    BY <1>2, <1>3, SoundStays, ChainedStays DEF SignedIsSound, HeadIsChained,
      MemoryIsSigned, WriteOnce, StoredIsSigned, StoredIsSound
  <1> QED
    BY <1>6, <1>7, <1>8, <1>9

(* A signature is only ever made of a reserved, sound body. *)
LEMMA SignStep ==
  ASSUME IInv, TypeOK', NEW p \in Seats, Sign(p)
  PROVE  IInv'
  <1> USE DEF IInv
  <1> DEFINE b == intent[p]
  <1>1. /\ b # None /\ signed' = signed \cup {b} /\ intent' = [intent EXCEPT ![p] = None]
        /\ open' = open /\ head' = head /\ pending' = pending /\ cursor' = cursor
        /\ store' = store /\ stable' = stable
    BY DEF Sign
  <1>2. Reserved(b) \in stable[p] /\ Reserved(b) \in store[p]
    BY <1>1 DEF IntentIsReserved, StableIsStored
  <1>3. b.seat = p /\ Sound(b)
    BY <1>2 DEF StoredIsSound, Reserved
  <1>4. signed \subseteq signed'
    BY <1>1
  <1>5. SignedIsSound' /\ StoredIsSound' /\ StoredIsSigned'
    <2>1. \A x : Sound(x) => Sound(x)'
      BY <1>4, SoundStays
    <2> HIDE DEF b
    <2> QED
      BY <1>1, <1>3, <1>4, <2>1 DEF SignedIsSound, StoredIsSound, StoredIsSigned
  <1>6. HeadIsChained'
    BY <1>1, <1>4, ChainedStays DEF HeadIsChained
  <1>7. SignedIsReserved' /\ MemoryIsSigned'
    BY <1>1, <1>2, <1>3, <1>4 DEF SignedIsReserved, MemoryIsSigned
  <1>8. IntentIsReserved' /\ ClosedIsEmpty'
    BY <1>1 DEF IntentIsReserved, ClosedIsEmpty, TypeOK
  <1>9. WriteOnce' /\ StableIsStored'
    BY <1>1 DEF WriteOnce, StableIsStored
  <1> QED
    BY <1>5, <1>6, <1>7, <1>8, <1>9

(* What a faulty seat signs by itself is no sound seat's signature. *)
LEMMA ForgeStep ==
  ASSUME IInv, TypeOK', NEW p \in Seats, NEW b \in Batches, Forge(p, b)
  PROVE  IInv'
  <1> USE DEF IInv
  <1>1. /\ signed' = signed \cup {b} /\ b.seat \in Faulty /\ signed \subseteq signed'
        /\ UNCHANGED <<open, head, pending, cursor, intent, store, stable>>
    BY DEF Forge
  <1>2. \A x : Sound(x) => Sound(x)'
    BY <1>1, SoundStays
  <1>3. SignedIsSound' /\ StoredIsSound' /\ StoredIsSigned'
    BY <1>1, <1>2 DEF SignedIsSound, StoredIsSound, StoredIsSigned
  <1>4. HeadIsChained'
    BY <1>1, ChainedStays DEF HeadIsChained
  <1>5. SignedIsReserved' /\ MemoryIsSigned'
    BY <1>1 DEF SignedIsReserved, MemoryIsSigned
  <1>6. ClosedIsEmpty' /\ IntentIsReserved' /\ WriteOnce' /\ StableIsStored'
    BY <1>1 DEF ClosedIsEmpty, IntentIsReserved, WriteOnce, StableIsStored
  <1> QED
    BY <1>3, <1>4, <1>5, <1>6

(* Taking a delivered batch into memory touches no record. *)
LEMMA DeliverStep ==
  ASSUME IInv, TypeOK', NEW p \in Seats, NEW b \in Batches, Deliver(p, b)
  PROVE  IInv'
  <1> USE DEF IInv
  <1>1. /\ Idle(p) /\ open' = open /\ head' = head /\ intent' = intent
        /\ store' = store /\ stable' = stable /\ signed' = signed /\ b \in signed
    BY DEF Deliver, Buffer, Begin, Authenticates
  <1>2. \/ pending' = [pending EXCEPT ![p] = @ \cup {b}] /\ cursor' = cursor
        \/ cursor' = [cursor EXCEPT ![p] = b] /\ pending' = pending
    BY DEF Deliver, Buffer, Begin
  <1>3. MemoryIsSigned'
    BY <1>1, <1>2 DEF MemoryIsSigned, TypeOK
  <1>4. ClosedIsEmpty'
    BY <1>1, <1>2 DEF ClosedIsEmpty, Idle, TypeOK
  <1>5. SignedIsSound' /\ HeadIsChained' /\ StoredIsSound' /\ StoredIsSigned'
    BY <1>1, SoundStays, ChainedStays DEF SignedIsSound, HeadIsChained, StoredIsSound, StoredIsSigned
  <1>6. SignedIsReserved' /\ StableIsStored' /\ WriteOnce' /\ IntentIsReserved'
    BY <1>1 DEF SignedIsReserved, StableIsStored, WriteOnce, IntentIsReserved
  <1> QED
    BY <1>3, <1>4, <1>5, <1>6

(* Accepting the batch at the head records a signed batch and advances to  *)
(* the chained history it makes.                                           *)
LEMMA AcceptStep ==
  ASSUME IInv, TypeOK', NEW p \in Seats, Accept(p)
  PROVE  IInv'
  <1> USE DEF IInv
  <1> DEFINE b == cursor[p]
             r == Accepted(b)
             next == {c \in pending'[p] : Turn(c) = HeadTurn(After(b)) /\ After(b) \notin Ended}
  <1>1. /\ b # None /\ b \in signed /\ Extends(b, head[p]) /\ ~Refuses(store[p], r)
        /\ store' = [store EXCEPT ![p] = @ \cup {r}]
        /\ stable' = [stable EXCEPT ![p] = store[p] \cup {r}]
        /\ head' = [head EXCEPT ![p] = After(b)]
        /\ pending' = [pending EXCEPT ![p] = Without(@, b)]
        /\ cursor' = [cursor EXCEPT ![p] = IF next = {} THEN None ELSE CHOOSE c \in next : TRUE]
        /\ open' = open /\ intent' = intent /\ signed' = signed
    BY DEF Accept, Verifies, Authenticates, Put
  <1>2. b \in signed /\ b \in Batches
    BY <1>1 DEF TypeOK
  <1>3. r.kind = "a" /\ r.batch = b /\ Sound(b)
    BY <1>1 DEF Accepted, Sound, Extends, HeadIsChained
  <1>4. \A q \in Seats : \A x \in store'[q] : x \in store[q] \/ (q = p /\ x = r)
    BY <1>1 DEF TypeOK
  <1>5. \A q \in Seats : stable[q] \subseteq stable'[q] /\ stable'[q] \subseteq store'[q]
    BY <1>1 DEF StableIsStored, TypeOK
  <1>6. \A q \in Seats : pending'[q] \subseteq pending[q]
    BY <1>1 DEF Without, TypeOK
  <1>7. WriteOnce'
    BY <1>1, WriteOnceStays
  <1>8. HeadIsChained'
    <2>1. Chained(After(b))
      BY <1>1, <1>2, ChainedAppend DEF HeadIsChained, TypeOK
    <2> HIDE DEF b
    <2> QED
      BY <1>1, <2>1, ChainedStays DEF HeadIsChained, TypeOK, Chained
  <1>9. StoredIsSigned' /\ StoredIsSound'
    <2>1. \A x : Sound(x) => Sound(x)'
      BY <1>1, SoundStays
    <2> HIDE DEF r
    <2> QED
      BY <1>1, <1>2, <1>3, <1>4, <2>1 DEF StoredIsSigned, StoredIsSound
  <1>10. SignedIsReserved' /\ StableIsStored' /\ IntentIsReserved'
    BY <1>1, <1>5 DEF SignedIsReserved, StableIsStored, IntentIsReserved, TypeOK, Batches
  <1>11. MemoryIsSigned'
    <2>1. next # {} => (CHOOSE c \in next : TRUE) \in pending'[p]
      OBVIOUS
    <2>2. cursor'[p] # None => cursor'[p] \in signed
      <3> HIDE DEF next
      <3> QED
        BY <1>1, <1>6, <2>1 DEF MemoryIsSigned, TypeOK
    <2>3. \A q \in Seats : q # p => cursor'[q] = cursor[q]
      BY <1>1 DEF TypeOK
    <2> QED
      BY <1>1, <1>6, <2>2, <2>3 DEF MemoryIsSigned
  <1>12. ClosedIsEmpty'
    <2>1. open[p]
      BY <1>1 DEF ClosedIsEmpty
    <2>2. \A q \in Seats : q # p => cursor'[q] = cursor[q] /\ head'[q] = head[q] /\ pending'[q] = pending[q]
      BY <1>1 DEF TypeOK
    <2> QED
      BY <1>1, <2>1, <2>2 DEF ClosedIsEmpty
  <1>13. SignedIsSound'
    BY <1>1, SoundStays DEF SignedIsSound
  <1> QED
    BY <1>7, <1>8, <1>9, <1>10, <1>11, <1>12, <1>13

(* A refused batch only leaves memory. *)
LEMMA RejectStep ==
  ASSUME IInv, TypeOK', NEW p \in Seats, Reject(p)
  PROVE  IInv'
  <1> USE DEF IInv
  <1>1. /\ cursor[p] # None
        /\ pending' = [pending EXCEPT ![p] = Without(@, cursor[p])]
        /\ cursor' = [cursor EXCEPT ![p] = None]
        /\ open' = open /\ head' = head /\ intent' = intent
        /\ store' = store /\ stable' = stable /\ signed' = signed
    BY DEF Reject
  <1>2. MemoryIsSigned' /\ ClosedIsEmpty'
    BY <1>1 DEF MemoryIsSigned, ClosedIsEmpty, Without, TypeOK
  <1>3. SignedIsSound' /\ HeadIsChained' /\ StoredIsSound' /\ StoredIsSigned'
    BY <1>1, SoundStays, ChainedStays DEF SignedIsSound, HeadIsChained, StoredIsSound, StoredIsSigned
  <1>4. SignedIsReserved' /\ StableIsStored' /\ WriteOnce' /\ IntentIsReserved'
    BY <1>1 DEF SignedIsReserved, StableIsStored, WriteOnce, IntentIsReserved
  <1> QED
    BY <1>2, <1>3, <1>4

(* A failed write leaves at most the record of a signed batch behind. *)
LEMMA AcceptFailStep ==
  ASSUME IInv, TypeOK', NEW p \in Seats, AcceptFail(p)
  PROVE  IInv'
  <1> USE DEF IInv
  <1> DEFINE r == Accepted(cursor[p])
  <1>1. /\ cursor[p] # None /\ cursor[p] \in signed /\ Extends(cursor[p], head[p])
        /\ cursor' = [cursor EXCEPT ![p] = None]
        /\ open' = open /\ head' = head /\ pending' = pending /\ intent' = intent
        /\ stable' = stable /\ signed' = signed
        /\ \/ store' = store
           \/ ~Refuses(store[p], r) /\ store' = [store EXCEPT ![p] = @ \cup {r}]
    BY DEF AcceptFail, Verifies, Authenticates, PutUnsure
  <1>2. r.kind = "a" /\ r.batch \in signed /\ Sound(r.batch)
    BY <1>1 DEF Accepted, Sound, Extends, HeadIsChained
  <1>3. \A q \in Seats : store[q] \subseteq store'[q]
                         /\ \A x \in store'[q] : x \in store[q] \/ (q = p /\ x = r)
    BY <1>1 DEF TypeOK
  <1>4. WriteOnce'
    <2>1. CASE store' = store
      BY <2>1 DEF WriteOnce
    <2> QED
      BY <1>1, <2>1, WriteOnceStays
  <1>5. StoredIsSigned' /\ StoredIsSound'
    <2>1. \A x : Sound(x) => Sound(x)'
      BY <1>1, SoundStays
    <2> HIDE DEF r
    <2> QED
      BY <1>1, <1>2, <1>3, <2>1 DEF StoredIsSigned, StoredIsSound
  <1>6. MemoryIsSigned' /\ ClosedIsEmpty'
    BY <1>1 DEF MemoryIsSigned, ClosedIsEmpty, TypeOK
  <1>7. SignedIsSound' /\ HeadIsChained'
    BY <1>1, SoundStays, ChainedStays DEF SignedIsSound, HeadIsChained
  <1>8. SignedIsReserved' /\ StableIsStored' /\ IntentIsReserved'
    BY <1>1, <1>3 DEF SignedIsReserved, StableIsStored, IntentIsReserved
  <1> QED
    BY <1>4, <1>5, <1>6, <1>7, <1>8

(* A failure empties the memory and takes no stable record, except that a  *)
(* faulty seat may lose its directory.                                     *)
LEMMA FailureStep ==
  ASSUME IInv, TypeOK', NEW p \in Seats, Failure(p)
  PROVE  IInv'
  <1> USE DEF IInv
  <1>1. signed' = signed
    BY DEF Failure, ProcessCrash, PowerLoss, Wipe
  <1>2. \A q \in Seats : store'[q] \subseteq store[q] /\ stable'[q] \subseteq store'[q]
    <2>1. CASE ProcessCrash(p)
      BY <2>1 DEF ProcessCrash, StableIsStored
    <2>2. CASE PowerLoss(p)
      BY <2>2 DEF PowerLoss, StableIsStored, TypeOK
    <2>3. CASE Wipe(p)
      BY <2>3 DEF Wipe, StableIsStored, TypeOK
    <2> QED
      BY <2>1, <2>2, <2>3 DEF Failure
  <1>3. \A q \in Seats : stable[q] \subseteq stable'[q] \/ (q \in Faulty /\ ~open[q] /\ intent'[q] = None)
    <2>1. CASE ProcessCrash(p)
      BY <2>1 DEF ProcessCrash
    <2>2. CASE PowerLoss(p)
      BY <2>2 DEF PowerLoss, TypeOK
    <2>3. CASE Wipe(p)
      BY <2>3 DEF Wipe, ClosedIsEmpty, TypeOK
    <2> QED
      BY <2>1, <2>2, <2>3 DEF Failure
  <1>4. \/ /\ open' = [open EXCEPT ![p] = FALSE]
           /\ head' = [head EXCEPT ![p] = <<>>]
           /\ pending' = [pending EXCEPT ![p] = {}]
           /\ cursor' = [cursor EXCEPT ![p] = None]
           /\ intent' = [intent EXCEPT ![p] = None]
        \/ UNCHANGED <<open, head, pending, cursor, intent>>
    BY DEF Failure, ProcessCrash, PowerLoss, Wipe, Stop
  <1>5. ClosedIsEmpty' /\ MemoryIsSigned'
    BY <1>1, <1>4 DEF ClosedIsEmpty, MemoryIsSigned, TypeOK
  <1>6. HeadIsChained'
    <2>1. Chained(<<>>)
      BY DEF Chained
    <2> QED
      BY <1>1, <1>4, <2>1, ChainedStays DEF HeadIsChained, TypeOK, Chained
  <1>7. SignedIsReserved'
    BY <1>1, <1>3 DEF SignedIsReserved, TypeOK, Batches
  <1>8. IntentIsReserved'
    <2>1. \A q \in Seats : intent'[q] # None => intent'[q] = intent[q]
      BY <1>4 DEF TypeOK
    <2> QED
      BY <1>3, <2>1 DEF IntentIsReserved
  <1>9. SignedIsSound'
    BY <1>1, SoundStays DEF SignedIsSound
  <1>10. StoredIsSigned' /\ StoredIsSound'
    BY <1>1, <1>2, SoundStays DEF StoredIsSigned, StoredIsSound
  <1>11. WriteOnce' /\ StableIsStored'
    BY <1>2 DEF WriteOnce, StableIsStored
  <1> QED
    BY <1>5, <1>6, <1>7, <1>8, <1>9, <1>10, <1>11

LEMMA IInvStep == IInv /\ [Next]_vars => IInv'
  <1> SUFFICES ASSUME IInv, [Next]_vars
               PROVE  IInv'
    OBVIOUS
  <1>1. TypeOK'
    BY TypeStep DEF IInv
  <1>2. CASE UNCHANGED vars
    <2>1. UNCHANGED <<open, head, pending, cursor, intent, store, stable, signed>>
      BY <1>2 DEF vars
    <2>2. SignedIsSound' /\ HeadIsChained' /\ StoredIsSound' /\ StoredIsSigned'
      BY <2>1, SoundStays, ChainedStays DEF IInv, SignedIsSound, HeadIsChained, StoredIsSound, StoredIsSigned
    <2> QED
      BY <1>1, <2>1, <2>2 DEF IInv, ClosedIsEmpty, SignedIsReserved, StableIsStored,
        WriteOnce, IntentIsReserved, MemoryIsSigned
  <1>3. CASE Next
    BY <1>1, <1>3, OpenStep, ReserveStep, ResumeStep, SignStep, ForgeStep, DeliverStep, AcceptStep,
      RejectStep, AcceptFailStep, FailureStep DEF Next
  <1> QED
    BY <1>2, <1>3

(* The strengthened invariant holds in every reachable state. *)
THEOREM Invariance == Spec => []IInv
  <1> QED
    BY IInvInit, IInvStep, PTL DEF Spec

-------------------------------------------------------------------------------
(* What follows from it                                                    *)

(* A sound seat signs one body per turn, across crashes and restarts.      *)
THEOREM OneBody == Spec => []OneBodyPerTurn
  <1>1. IInv => OneBodyPerTurn
    <2> SUFFICES ASSUME IInv, NEW b \in signed, NEW c \in signed,
                        b.seat = c.seat, b.seat \notin Faulty, Turn(b) = Turn(c)
                 PROVE  b = c
      BY DEF OneBodyPerTurn
    <2>1. b.seat \in Seats
      BY DEF IInv, TypeOK, Batches
    <2>2. Reserved(b) \in store[b.seat] /\ Reserved(c) \in store[b.seat]
      BY <2>1 DEF IInv, SignedIsReserved, StableIsStored
    <2>3. Reserved(b) = Reserved(c)
      BY <2>1, <2>2 DEF IInv, WriteOnce, Reserved
    <2> QED
      BY <2>3 DEF Reserved
  <1> QED
    BY <1>1, Invariance, PTL

(* Whatever a faulty seat signs, a recorded turn and every turn before it   *)
(* was signed by the seat whose turn it was, and a sound seat's is the body *)
(* that this seat's own disk has reserved.                                 *)
THEOREM Authentic == Spec => []AcceptedIsSigned
  <1>1. IInv => AcceptedIsSigned
    <2> SUFFICES ASSUME IInv, NEW p \in Seats, NEW r \in store[p], r.kind = "a"
                 PROVE  LET b == r.batch IN
                        /\ b \in signed /\ b.seat = ActiveSeat[b.before] /\ b.before \notin Ended
                        /\ \A i \in 1..Turn(b) : BatchOf(b.before, i) \in signed
                        /\ b.seat \notin Faulty => Reserved(b) \in stable[b.seat]
      BY DEF AcceptedIsSigned
    <2>1. r.batch \in signed /\ Sound(r.batch)
      BY DEF IInv, StoredIsSigned
    <2> QED
      BY <2>1 DEF IInv, SignedIsReserved, Sound, Chained, Turn
  <1> QED
    BY <1>1, Invariance, PTL

-------------------------------------------------------------------------------
(* Agreement                                                               *)

(* Where a turn has one batch, two chained histories of one length are the *)
(* same history.                                                           *)
LEMMA ChainsAgree ==
  ASSUME \A b, c \in signed : Turn(b) = Turn(c) => b = c,
         NEW g \in Histories, Chained(g), NEW h \in Histories, Chained(h)
  PROVE  \A i \in 1..Len(g) : i <= Len(h) => g[i] = h[i]
  <1> SUFFICES ASSUME NEW i \in 1..Len(g), i <= Len(h)
               PROVE  g[i] = h[i]
    OBVIOUS
  <1>1. i \in 1..Len(h)
    BY HistoryIsSeq, ConstantsAssumption
  <1>2. BatchOf(g, i) \in signed /\ BatchOf(h, i) \in signed
    BY <1>1 DEF Chained
  <1>3. Turn(BatchOf(g, i)) = i - 1 /\ BatchOf(g, i).move = g[i]
    BY BatchOfType
  <1>4. Turn(BatchOf(h, i)) = i - 1 /\ BatchOf(h, i).move = h[i]
    BY <1>1, BatchOfType
  <1> QED
    BY <1>2, <1>3, <1>4

LEMMA ChainsEqual ==
  ASSUME \A b, c \in signed : Turn(b) = Turn(c) => b = c,
         NEW g \in Histories, Chained(g), NEW h \in Histories, Chained(h),
         Len(g) = Len(h)
  PROVE  g = h
  <1>1. \A i \in 1..Len(g) : g[i] = h[i]
    BY ChainsAgree, HistoryIsSeq
  <1>2. g = [i \in 1..Len(g) |-> g[i]] /\ h = [i \in 1..Len(h) |-> h[i]]
    BY HistoryIsSeq
  <1> QED
    BY <1>1, <1>2

(* Signing keeps it so: the new batch sits on the only chain of its length, *)
(* and its seat's one reservation of the turn is the batch itself.         *)
LEMMA OneBatchStep == IInv /\ OneBatchPerTurn /\ [Next]_vars => OneBatchPerTurn'
  <1> SUFFICES ASSUME IInv, OneBatchPerTurn, [Next]_vars, Faulty = {}
               PROVE  (\A b, c \in signed : Turn(b) = Turn(c) => b = c)'
    BY DEF OneBatchPerTurn
  <1>1. \A b, c \in signed : Turn(b) = Turn(c) => b = c
    BY DEF OneBatchPerTurn
  <1>2. IInv'
    BY IInvStep
  <1>3. signed' = signed \/ \E p \in Seats : Sign(p)
    BY DEF Next, vars, OpenJournal, Reserve, ReserveUnsure, Resume, Deliver, Buffer,
      Begin, Forge, Accept, Reject, AcceptFail, Failure, ProcessCrash, PowerLoss, Wipe
  <1>4. ASSUME NEW p \in Seats, Sign(p)
        PROVE  (\A b, c \in signed : Turn(b) = Turn(c) => b = c)'
    <2> DEFINE n == intent[p]
    <2>1. signed' = signed \cup {n} /\ n # None /\ n \in Batches /\ store' = store /\ stable' = stable
      BY <1>4 DEF Sign, IInv, TypeOK
    <2>2. n.seat = p /\ Sound(n) /\ Reserved(n) \in store[p]
      <3>1. Reserved(n) \in store[p]
        BY <2>1 DEF IInv, IntentIsReserved, StableIsStored
      <3> QED
        BY <3>1 DEF IInv, StoredIsSound, Reserved
    <2>3. ASSUME NEW c \in signed, Turn(c) = Turn(n)
          PROVE  c = n
      <3>1. c \in Batches /\ Sound(c)
        BY DEF IInv, TypeOK, SignedIsSound
      <3>2. c.before = n.before
        <4>1. c.before \in Histories /\ n.before \in Histories
          BY <2>1, <3>1 DEF Batches
        <4>2. Chained(c.before) /\ Chained(n.before) /\ Len(c.before) = Len(n.before)
          BY <2>2, <2>3, <3>1 DEF Sound, Turn
        <4> HIDE DEF n
        <4> QED
          BY <1>1, <4>1, <4>2, ChainsEqual
      <3>3. c.seat = p
        BY <2>2, <3>1, <3>2 DEF Sound
      <3>4. Reserved(c) \in store[p]
        BY <3>3 DEF IInv, SignedIsReserved, StableIsStored
      <3>5. Reserved(c) = Reserved(n)
        BY <2>2, <2>3, <3>4 DEF IInv, WriteOnce, Reserved
      <3> QED
        BY <3>5 DEF Reserved
    <2> HIDE DEF n
    <2> QED
      BY <1>1, <2>1, <2>3 DEF Turn
  <1> QED
    BY <1>1, <1>3, <1>4 DEF Turn

LEMMA OneBatch == Spec => []OneBatchPerTurn
  <1>1. Init => OneBatchPerTurn
    BY DEF Init, OneBatchPerTurn
  <1> QED
    BY <1>1, OneBatchStep, Invariance, PTL DEF Spec

(* Peers with sound directories never record different turns: the journals *)
(* of a match hold one history.                                            *)
THEOREM Agreement == Spec => []AcceptedAgree
  <1>1. IInv /\ OneBatchPerTurn => AcceptedAgree
    <2> SUFFICES ASSUME IInv, OneBatchPerTurn, Faulty = {},
                        NEW p \in Seats, NEW q \in Seats, NEW r \in store[p], NEW s \in store[q],
                        r.kind = "a", s.kind = "a", Turn(r.batch) = Turn(s.batch)
                 PROVE  r = s
      BY DEF AcceptedAgree
    <2>1. r.batch = s.batch
      BY DEF IInv, StoredIsSigned, OneBatchPerTurn
    <2>2. r \in Records /\ s \in Records
      BY DEF IInv, TypeOK
    <2> QED
      BY <2>1, <2>2 DEF Records
  <1> QED
    BY <1>1, OneBatch, Invariance, PTL

(* Two open journals show the same match, one perhaps less of it.          *)
THEOREM HeadAgreement == Spec => []HeadsAgree
  <1>1. IInv /\ OneBatchPerTurn => HeadsAgree
    <2> SUFFICES ASSUME IInv, OneBatchPerTurn, Faulty = {}, NEW p \in Seats, NEW q \in Seats
                 PROVE  \A i \in 1..Len(head[p]) : i <= Len(head[q]) => head[p][i] = head[q][i]
      BY DEF HeadsAgree
    <2>1. \A b, c \in signed : Turn(b) = Turn(c) => b = c
      BY DEF OneBatchPerTurn
    <2>2. head[p] \in Histories /\ Chained(head[p]) /\ head[q] \in Histories /\ Chained(head[q])
      BY DEF IInv, TypeOK, HeadIsChained
    <2> QED
      BY <2>1, <2>2, ChainsAgree
  <1> QED
    BY <1>1, OneBatch, Invariance, PTL

-------------------------------------------------------------------------------
(* Durability                                                              *)

LEMMA DurableStep == IInv /\ HeadIsDurable /\ [Next]_vars => HeadIsDurable'
  <1> SUFFICES ASSUME IInv, HeadIsDurable, [Next]_vars
               PROVE  HeadIsDurable'
    OBVIOUS
  <1> USE DEF IInv
  <1>1. ASSUME NEW p \in Seats, OpenJournal(p)
        PROVE  HeadIsDurable'
    <2>1. PICK h \in Histories : Replays(store[p], h) /\ head' = [head EXCEPT ![p] = h]
      BY <1>1 DEF OpenJournal
    <2>2. \A i \in 1..Len(h) : Accepted(BatchOf(h, i)) \in store[p]
      BY <2>1 DEF Replays
    <2>3. \A q \in Seats : q # p => /\ head'[q] = head[q] /\ open'[q] = open[q]
                                    /\ stable'[q] = stable[q]
      BY <1>1 DEF OpenJournal, TypeOK
    <2>4. head'[p] = h /\ stable'[p] = store[p]
      BY <1>1, <2>1 DEF OpenJournal, TypeOK
    <2> QED
      BY <2>2, <2>3, <2>4 DEF HeadIsDurable
  <1>2. ASSUME NEW p \in Seats, Accept(p)
        PROVE  HeadIsDurable'
    <2> DEFINE b == cursor[p]
    <2>1. b \in Batches /\ Extends(b, head[p]) /\ head[p] \in Histories
      BY <1>2 DEF Accept, Verifies, TypeOK
    <2>2. open[p]
      BY <1>2 DEF Accept, ClosedIsEmpty
    <2>3. /\ head'[p] = After(b)
          /\ stable'[p] = store[p] \cup {Accepted(b)} /\ stable[p] \subseteq stable'[p]
          /\ \A q \in Seats : q # p => /\ head'[q] = head[q] /\ open'[q] = open[q]
                                       /\ stable'[q] = stable[q]
      BY <1>2 DEF Accept, Put, TypeOK, StableIsStored
    <2>4. After(b) = Append(head[p], b.move) /\ b.move \in Moves
          /\ Len(After(b)) = Len(head[p]) + 1
          /\ b = [seat |-> ActiveSeat[head[p]], before |-> head[p], move |-> b.move]
      BY <2>1, ExtendedHistory DEF Extends, After, Batches
    <2>5. ASSUME NEW i \in 1..(Len(head[p]) + 1)
          PROVE  Accepted(BatchOf(After(b), i)) \in stable'[p]
      <3>1. BatchOf(After(b), i) = IF i = Len(head[p]) + 1 THEN b ELSE BatchOf(head[p], i)
        BY <2>1, <2>4, BatchOfAppend
      <3>2. i # Len(head[p]) + 1 => i \in 1..Len(head[p])
        BY <2>1, HistoryIsSeq, ConstantsAssumption
      <3> QED
        BY <2>2, <2>3, <3>1, <3>2 DEF HeadIsDurable
    <2> HIDE DEF b
    <2> QED
      BY <2>3, <2>4, <2>5 DEF HeadIsDurable
  <1>3. ASSUME NEW p \in Seats, NEW m \in Moves, Reserve(p, m) \/ ReserveUnsure(p, m)
        PROVE  HeadIsDurable'
    <2>1. head' = head /\ open' = open /\ \A q \in Seats : stable[q] \subseteq stable'[q]
      BY <1>3 DEF Reserve, ReserveUnsure, Put, PutUnsure, TypeOK, StableIsStored
    <2> QED
      BY <2>1 DEF HeadIsDurable
  <1>4. ASSUME NEW p \in Seats, Resume(p)
        PROVE  HeadIsDurable'
    <2>1. head' = head /\ open' = open /\ \A q \in Seats : stable[q] \subseteq stable'[q]
      BY <1>4 DEF Resume, Put, TypeOK, StableIsStored
    <2> QED
      BY <2>1 DEF HeadIsDurable
  <1>5. ASSUME NEW p \in Seats, Failure(p)
        PROVE  HeadIsDurable'
    <2>1. ~open'[p] /\ \A q \in Seats : q # p => /\ open'[q] = open[q] /\ head'[q] = head[q]
                                                 /\ stable'[q] = stable[q]
      BY <1>5 DEF Failure, ProcessCrash, PowerLoss, Wipe, Stop, TypeOK
    <2> QED
      BY <2>1 DEF HeadIsDurable
  <1>6. ASSUME NEW p \in Seats,
               \/ Sign(p) \/ Reject(p) \/ AcceptFail(p)
               \/ \E b \in Batches : Deliver(p, b) \/ Forge(p, b)
        PROVE  HeadIsDurable'
    <2>1. UNCHANGED <<open, head, stable>>
      BY <1>6 DEF Sign, Forge, Deliver, Buffer, Begin, Reject, AcceptFail, PutUnsure
    <2> QED
      BY <2>1 DEF HeadIsDurable
  <1>7. CASE UNCHANGED vars
    BY <1>7 DEF vars, HeadIsDurable
  <1> QED
    BY <1>1, <1>2, <1>3, <1>4, <1>5, <1>6, <1>7 DEF Next

(* The head an open journal shows rests on records no power loss takes.    *)
THEOREM Durability == Spec => []HeadIsDurable
  <1>1. Init => HeadIsDurable
    BY DEF Init, HeadIsDurable
  <1> QED
    BY <1>1, DurableStep, Invariance, PTL DEF Spec

-------------------------------------------------------------------------------
(* No false alarm                                                          *)

(* The batch Receive's loop is at belongs to the turn of the head. *)
CursorAtHead ==
  \A p \in Seats : cursor[p] # None =>
    Turn(cursor[p]) = Len(head[p]) /\ head[p] \notin Ended

LEMMA CursorStep == IInv /\ CursorAtHead /\ [Next]_vars => CursorAtHead'
  <1> SUFFICES ASSUME IInv, CursorAtHead, [Next]_vars
               PROVE  CursorAtHead'
    OBVIOUS
  <1> USE DEF IInv
  <1>1. ASSUME NEW p \in Seats, OpenJournal(p)
        PROVE  CursorAtHead'
    <2>1. cursor' = cursor /\ cursor[p] = None /\ \A q \in Seats : q # p => head'[q] = head[q]
      BY <1>1 DEF OpenJournal, ClosedIsEmpty, TypeOK
    <2> QED
      BY <2>1 DEF CursorAtHead, Turn
  <1>2. ASSUME NEW p \in Seats, NEW b \in Batches, Deliver(p, b)
        PROVE  CursorAtHead'
    <2>1. CASE Buffer(p, b)
      BY <2>1 DEF Buffer, CursorAtHead, Turn
    <2>2. CASE Begin(p, b)
      <3>1. Turn(b) = Len(head[p]) /\ head[p] \notin Ended
        BY <2>2 DEF Begin, Past, HeadTurn
      <3>2. cursor' = [cursor EXCEPT ![p] = b] /\ head' = head
        BY <2>2 DEF Begin
      <3> QED
        BY <3>1, <3>2 DEF CursorAtHead, Turn, TypeOK
    <2> QED
      BY <1>2, <2>1, <2>2 DEF Deliver
  <1>3. ASSUME NEW p \in Seats, Accept(p)
        PROVE  CursorAtHead'
    <2> DEFINE h == After(cursor[p])
               next == {c \in pending'[p] : Turn(c) = HeadTurn(h) /\ h \notin Ended}
    <2>1. cursor' = [cursor EXCEPT ![p] = IF next = {} THEN None ELSE CHOOSE c \in next : TRUE]
          /\ head' = [head EXCEPT ![p] = h]
      BY <1>3 DEF Accept
    <2>2. next # {} => Turn(CHOOSE c \in next : TRUE) = HeadTurn(h) /\ h \notin Ended
      <3>1. next # {} => (CHOOSE c \in next : TRUE) \in next
        OBVIOUS
      <3>2. \A c \in next : Turn(c) = HeadTurn(h) /\ h \notin Ended
        OBVIOUS
      <3> HIDE DEF next
      <3> QED
        BY <3>1, <3>2
    <2>3. cursor'[p] # None => Turn(cursor'[p]) = Len(h) /\ h \notin Ended
      <3> HIDE DEF next, h
      <3> QED
        BY <2>1, <2>2 DEF HeadTurn, TypeOK
    <2>4. \A q \in Seats : q # p => cursor'[q] = cursor[q] /\ head'[q] = head[q]
      BY <2>1 DEF TypeOK
    <2>5. head'[p] = h
      BY <2>1 DEF TypeOK
    <2> HIDE DEF h, next
    <2> QED
      BY <2>3, <2>4, <2>5 DEF CursorAtHead, Turn
  <1>4. ASSUME NEW p \in Seats, Reject(p) \/ AcceptFail(p)
        PROVE  CursorAtHead'
    <2>1. cursor' = [cursor EXCEPT ![p] = None] /\ head' = head
      BY <1>4 DEF Reject, AcceptFail
    <2> QED
      BY <2>1 DEF CursorAtHead, Turn, TypeOK
  <1>5. ASSUME NEW p \in Seats, Failure(p)
        PROVE  CursorAtHead'
    <2>1. \/ cursor' = [cursor EXCEPT ![p] = None] /\ head' = [head EXCEPT ![p] = <<>>]
          \/ cursor' = cursor /\ head' = head
      BY <1>5 DEF Failure, ProcessCrash, PowerLoss, Wipe, Stop
    <2> QED
      BY <2>1 DEF CursorAtHead, Turn, TypeOK
  <1>6. ASSUME UNCHANGED <<cursor, head>>
        PROVE  CursorAtHead'
    BY <1>6 DEF CursorAtHead, Turn
  <1>7. ASSUME NEW p \in Seats,
               \/ \E m \in Moves : Reserve(p, m) \/ ReserveUnsure(p, m)
               \/ Resume(p) \/ Sign(p) \/ \E b \in Batches : Forge(p, b)
        PROVE  UNCHANGED <<cursor, head>>
    BY <1>7 DEF Reserve, ReserveUnsure, Resume, Sign, Forge
  <1>8. CASE UNCHANGED vars
    BY <1>6, <1>8 DEF vars
  <1> QED
    BY <1>1, <1>2, <1>3, <1>4, <1>5, <1>6, <1>7, <1>8 DEF Next

(* While every directory is sound no genuine turn is ever refused.         *)
THEOREM NoFalseAlarm == Spec => []NoFalseConflict
  <1>1. Init => CursorAtHead
    BY DEF Init, CursorAtHead
  <1>2. IInv /\ OneBatchPerTurn /\ CursorAtHead => NoFalseConflict
    <2> SUFFICES ASSUME IInv, OneBatchPerTurn, CursorAtHead, Faulty = {}, NEW p \in Seats
                 PROVE  /\ cursor[p] # None => /\ Extends(cursor[p], head[p])
                                               /\ ~Refuses(store[p], Accepted(cursor[p]))
                        /\ open[p] => \A b \in signed : /\ ~Clashes(p, b)
                                                        /\ ~Refuses(store[p], Accepted(b))
      BY DEF NoFalseConflict
    <2>1. \A b, c \in signed : Turn(b) = Turn(c) => b = c
      BY DEF OneBatchPerTurn
    <2>2. ASSUME NEW b \in signed
          PROVE  ~Clashes(p, b) /\ ~Refuses(store[p], Accepted(b))
      <3>1. ~Clashes(p, b)
        BY <2>1 DEF Clashes, IInv, MemoryIsSigned
      <3>2. ASSUME NEW q \in store[p], q.kind = "a", Turn(q.batch) = Turn(b)
            PROVE  q = Accepted(b)
        <4>1. q.batch = b
          BY <2>1, <3>2 DEF IInv, StoredIsSigned
        <4>2. q \in Records
          BY DEF IInv, TypeOK
        <4> QED
          BY <3>2, <4>1, <4>2 DEF Records, Accepted
      <3>3. Accepted(b).kind = "a" /\ Accepted(b).batch = b
        BY DEF Accepted
      <3> QED
        BY <3>1, <3>2, <3>3 DEF Refuses
    <2>3. ASSUME cursor[p] # None
          PROVE  Extends(cursor[p], head[p])
      <3>1. cursor[p] \in signed /\ cursor[p] \in Batches /\ Sound(cursor[p])
        BY <2>3 DEF IInv, MemoryIsSigned, TypeOK, SignedIsSound
      <3>2. cursor[p].before \in Histories /\ head[p] \in Histories /\ Chained(head[p])
        BY <3>1 DEF Batches, IInv, TypeOK, HeadIsChained
      <3>3. cursor[p].before = head[p]
        BY <2>1, <2>3, <3>1, <3>2, ChainsEqual DEF CursorAtHead, Turn, Sound
      <3> QED
        BY <3>1, <3>3 DEF Extends, Sound
    <2> QED
      BY <2>2, <2>3 DEF IInv, MemoryIsSigned
  <1> QED
    BY <1>1, <1>2, CursorStep, OneBatch, Invariance, PTL DEF Spec

-------------------------------------------------------------------------------
(* The head and the memory                                                 *)

LEMMA NextHead ==
  ASSUME IInv, NEW p \in Seats, Accept(p)
  PROVE  LET b == cursor[p] IN
         /\ head' = [head EXCEPT ![p] = Append(head[p], b.move)]
         /\ head[p] \in Seq(Moves) /\ b.move \in Moves
         /\ Len(Append(head[p], b.move)) = Len(head[p]) + 1
         /\ Turn(b) = Len(head[p]) /\ head[p] \notin Ended
  <1>1. cursor[p] \in Batches /\ Extends(cursor[p], head[p]) /\ head[p] \in Histories
        /\ head' = [head EXCEPT ![p] = After(cursor[p])]
    BY DEF Accept, Verifies, IInv, TypeOK
  <1> QED
    BY <1>1, HistoryIsSeq DEF Extends, After, Batches, Turn

(* An open journal's head only ever gets longer: only a stop or the next    *)
(* accepted turn changes it.                                               *)
LEMMA HeadStep ==
  ASSUME IInv, [Next]_vars, NEW p \in Seats, open[p], open'[p]
  PROVE  /\ Len(head[p]) <= Len(head'[p])
         /\ head[p] = SubSeq(head'[p], 1, Len(head[p]))
  <1>1. head[p] \in Seq(Moves) /\ Len(head[p]) \in Nat
    BY HistoryIsSeq DEF IInv, TypeOK
  <1>2. CASE head'[p] = head[p]
    BY <1>1, <1>2
  <1>3. ASSUME NEW q \in Seats, Accept(q)
        PROVE  /\ Len(head[p]) <= Len(head'[p])
               /\ head[p] = SubSeq(head'[p], 1, Len(head[p]))
    <2>1. CASE q # p
      BY <1>2, <1>3, <2>1, NextHead DEF IInv, TypeOK
    <2>2. CASE q = p
      <3> DEFINE m == cursor[p].move
      <3>1. head'[p] = Append(head[p], m) /\ m \in Moves
        BY <1>3, <2>2, NextHead DEF IInv, TypeOK
      <3> HIDE DEF m
      <3>2. SubSeq(Append(head[p], m), 1, Len(head[p])) = head[p]
        BY <1>1, <3>1
      <3>3. Len(Append(head[p], m)) = Len(head[p]) + 1
        BY <1>1, <3>1
      <3> QED
        BY <1>1, <3>1, <3>2, <3>3
    <2> QED
      BY <2>1, <2>2
  <1>4. ASSUME NEW q \in Seats, OpenJournal(q) \/ Failure(q)
        PROVE  head'[p] = head[p]
    <2>1. q # p \/ head' = head
      BY <1>4 DEF OpenJournal, Failure, ProcessCrash, PowerLoss, Wipe, Stop, IInv, TypeOK
    <2> QED
      BY <1>4, <2>1 DEF OpenJournal, Failure, ProcessCrash, PowerLoss, Wipe, Stop,
         IInv, TypeOK
  <1>5. ASSUME NEW q \in Seats,
               \/ \E m \in Moves : Reserve(q, m) \/ ReserveUnsure(q, m)
               \/ Resume(q) \/ Sign(q) \/ Reject(q) \/ AcceptFail(q)
               \/ \E b \in Batches : Deliver(q, b) \/ Forge(q, b)
        PROVE  head'[p] = head[p]
    BY <1>5 DEF Forge, Reserve, ReserveUnsure, Resume, Sign, Reject, AcceptFail, Deliver,
       Buffer, Begin
  <1>6. CASE UNCHANGED vars
    BY <1>2, <1>6 DEF vars
  <1> QED
    BY <1>2, <1>3, <1>4, <1>5, <1>6 DEF Next

(* Every turn before a recorded one is in a record that no power loss takes: *)
(* the record is written at a head, and heads are durable.                 *)
RecordsChain ==
  \A p \in Seats : \A r \in store[p] : r.kind = "a" =>
    \A i \in 1..Turn(r.batch) : Accepted(BatchOf(r.batch.before, i)) \in stable[p]

LEMMA ChainStep == IInv /\ HeadIsDurable /\ RecordsChain /\ [Next]_vars => RecordsChain'
  <1> SUFFICES ASSUME IInv, HeadIsDurable, RecordsChain, [Next]_vars
               PROVE  RecordsChain'
    OBVIOUS
  <1> USE DEF IInv
  <1> DEFINE Keeps(q) ==
        \/ store'[q] = {}
        \/ /\ stable[q] \subseteq stable'[q]
           /\ \A x \in store'[q] : x.kind = "a" =>
                x \in store[q] \/ (open[q] /\ x.batch.before = head[q])
  <1>1. ASSUME \A q \in Seats : Keeps(q)
        PROVE  RecordsChain'
    BY <1>1 DEF RecordsChain, HeadIsDurable, Turn
  <1>2. ASSUME NEW p \in Seats, OpenJournal(p)
        PROVE  \A q \in Seats : Keeps(q)
    BY <1>2 DEF OpenJournal, StableIsStored, TypeOK
  <1>3. ASSUME NEW p \in Seats, NEW m \in Moves, Reserve(p, m) \/ ReserveUnsure(p, m)
        PROVE  \A q \in Seats : Keeps(q)
    <2> DEFINE r == Reserved(Body(p, m))
    <2>1. /\ r.kind = "s" /\ store' = [store EXCEPT ![p] = @ \cup {r}]
          /\ \/ stable' = stable
             \/ stable' = [stable EXCEPT ![p] = store[p] \cup {r}]
      BY <1>3 DEF Reserve, ReserveUnsure, Put, PutUnsure, Reserved
    <2> HIDE DEF r
    <2> QED
      BY <2>1 DEF StableIsStored, TypeOK
  <1>4. ASSUME NEW p \in Seats, Resume(p)
        PROVE  \A q \in Seats : Keeps(q)
    <2>1. PICK r \in store[p] : /\ store' = [store EXCEPT ![p] = @ \cup {r}]
                                /\ stable' = [stable EXCEPT ![p] = store[p] \cup {r}]
      BY <1>4 DEF Resume, Put
    <2> QED
      BY <2>1 DEF StableIsStored, TypeOK
  <1>5. ASSUME NEW p \in Seats, Accept(p) \/ AcceptFail(p)
        PROVE  \A q \in Seats : Keeps(q)
    <2> DEFINE r == Accepted(cursor[p])
    <2>1. /\ open[p] /\ r.batch = cursor[p] /\ cursor[p].before = head[p]
      BY <1>5 DEF Accept, AcceptFail, Verifies, Extends, Accepted, ClosedIsEmpty
    <2>2. /\ store' = store \/ store' = [store EXCEPT ![p] = @ \cup {r}]
          /\ stable' = stable \/ stable' = [stable EXCEPT ![p] = store[p] \cup {r}]
      BY <1>5 DEF Accept, AcceptFail, Put, PutUnsure
    <2> HIDE DEF r
    <2> QED
      BY <2>1, <2>2 DEF StableIsStored, TypeOK
  <1>6. ASSUME NEW p \in Seats, Failure(p)
        PROVE  \A q \in Seats : Keeps(q)
    <2>1. CASE ProcessCrash(p)
      BY <2>1 DEF ProcessCrash
    <2>2. CASE PowerLoss(p)
      BY <2>2 DEF PowerLoss, TypeOK
    <2>3. CASE Wipe(p)
      BY <2>3 DEF Wipe, TypeOK
    <2> QED
      BY <1>6, <2>1, <2>2, <2>3 DEF Failure
  <1>7. ASSUME NEW p \in Seats,
               Sign(p) \/ Reject(p) \/ \E b \in Batches : Deliver(p, b) \/ Forge(p, b)
        PROVE  \A q \in Seats : Keeps(q)
    BY <1>7 DEF Sign, Reject, Deliver, Buffer, Begin, Forge
  <1>8. CASE UNCHANGED vars
    <2>1. \A q \in Seats : Keeps(q)
      BY <1>8 DEF vars
    <2> QED
      BY <1>1, <2>1
  <1> HIDE DEF Keeps
  <1> QED
    BY <1>1, <1>2, <1>3, <1>4, <1>5, <1>6, <1>7, <1>8 DEF Next

(* A stop leaves every turn that was shown on disk. *)
LEMMA StopStep ==
  ASSUME IInv, HeadIsDurable, [Next]_vars, NEW p \in Seats, open[p]
  PROVE  \A i \in 1..Len(head[p]) : Accepted(BatchOf(head[p], i)) \in store'[p]
  <1>1. ASSUME NEW q \in Seats, Failure(q)
        PROVE  stable[p] \subseteq store'[p]
    BY <1>1 DEF Failure, ProcessCrash, PowerLoss, Wipe, IInv, TypeOK, StableIsStored
  <1>2. ASSUME NEW q \in Seats, ~Failure(q),
               \/ OpenJournal(q) \/ \E m \in Moves : Reserve(q, m) \/ ReserveUnsure(q, m)
               \/ Resume(q) \/ Sign(q) \/ Accept(q) \/ Reject(q) \/ AcceptFail(q)
               \/ \E b \in Batches : Deliver(q, b) \/ Forge(q, b)
        PROVE  store[p] \subseteq store'[p]
    <2>1. CASE Resume(q)
      BY <2>1 DEF Resume, Put, IInv, TypeOK
    <2>2. CASE \E m \in Moves : Reserve(q, m) \/ ReserveUnsure(q, m)
      <3>1. PICK r \in {Reserved(Body(q, m)) : m \in Moves} :
              store' = [store EXCEPT ![q] = @ \cup {r}]
        BY <2>2 DEF Reserve, ReserveUnsure, Put, PutUnsure
      <3> QED
        BY <3>1 DEF IInv, TypeOK
    <2>3. CASE Accept(q) \/ AcceptFail(q)
      <3>1. store' = store \/ store' = [store EXCEPT ![q] = @ \cup {Accepted(cursor[q])}]
        BY <2>3 DEF Accept, AcceptFail, Put, PutUnsure
      <3> QED
        BY <3>1 DEF IInv, TypeOK
    <2> QED
      BY <1>2, <2>1, <2>2, <2>3 DEF OpenJournal, Sign, Reject, Deliver, Buffer, Begin, Forge
  <1>3. stable[p] \subseteq store'[p]
    BY <1>1, <1>2 DEF Next, vars, IInv, StableIsStored
  <1> QED
    BY <1>3 DEF HeadIsDurable

(* OpenJournal stops at the first missing turn, and none is missing below a *)
(* recorded one; it stops at the end, and none is recorded beyond it.      *)
LEMMA RestartStep ==
  ASSUME IInv, RecordsChain, [Next]_vars, NEW p \in Seats, ~open[p], open'[p]
  PROVE  \A r \in store[p] : r.kind = "a" => Turn(r.batch) < Len(head'[p])
  <1> USE DEF IInv
  <1>1. OpenJournal(p)
    <2>1. ASSUME NEW q \in Seats, OpenJournal(q) \/ Failure(q)
          PROVE  (q = p /\ OpenJournal(q)) \/ ~open'[p]
      BY <2>1 DEF OpenJournal, Failure, ProcessCrash, PowerLoss, Wipe, Stop, TypeOK
    <2>2. ASSUME NEW q \in Seats,
               \/ \E m \in Moves : Reserve(q, m) \/ ReserveUnsure(q, m)
               \/ Resume(q) \/ Sign(q) \/ Accept(q) \/ Reject(q) \/ AcceptFail(q)
               \/ \E b \in Batches : Deliver(q, b) \/ Forge(q, b)
          PROVE  open' = open
      BY <2>2 DEF Reserve, ReserveUnsure, Resume, Sign, Accept, Reject, AcceptFail,
         Deliver, Buffer, Begin, Forge
    <2> QED
      BY <2>1, <2>2 DEF Next, vars
  <1>2. PICK h \in Histories : Replays(store[p], h) /\ head' = [head EXCEPT ![p] = h]
    BY <1>1 DEF OpenJournal
  <1>3. head'[p] = h
    BY <1>2 DEF TypeOK
  <1>4. ASSUME NEW r \in store[p], r.kind = "a", Turn(r.batch) = Len(h)
        PROVE  FALSE
    <2> DEFINE g == r.batch.before
    <2>1. r \in Records /\ g \in Histories /\ Len(g) = Len(h) /\ g \notin Ended
      BY <1>4 DEF TypeOK, Records, Batches, Turn, StoredIsSigned, Sound
    <2>2. ASSUME NEW i \in 1..Len(h) PROVE g[i] = h[i]
      <3>1. /\ Accepted(BatchOf(g, i)) \in store[p] /\ Accepted(BatchOf(h, i)) \in store[p]
        BY <1>2, <1>4, <2>1 DEF RecordsChain, StableIsStored, Replays, Turn
      <3>2. /\ Turn(BatchOf(g, i)) = i - 1 /\ Turn(BatchOf(h, i)) = i - 1
            /\ BatchOf(g, i).move = g[i] /\ BatchOf(h, i).move = h[i]
        BY <2>1, BatchOfType
      <3>3. Accepted(BatchOf(g, i)) = Accepted(BatchOf(h, i))
        BY <3>1, <3>2 DEF WriteOnce, Accepted
      <3> QED
        BY <3>2, <3>3 DEF Accepted
    <2>3. g = h
      <3>1. g = [i \in 1..Len(g) |-> g[i]] /\ h = [i \in 1..Len(h) |-> h[i]]
        BY <2>1, HistoryIsSeq
      <3> HIDE DEF g
      <3> QED
        BY <2>1, <2>2, <3>1
    <2> QED
      BY <1>2, <1>4, <2>1, <2>3 DEF Replays
  <1>5. ASSUME NEW r \in store[p], r.kind = "a", Turn(r.batch) > Len(h)
        PROVE  FALSE
    <2> DEFINE g == r.batch.before
               d == BatchOf(g, Len(h) + 1)
    <2>1. g \in Histories /\ Len(g) \in Nat /\ Len(h) \in Nat /\ Len(h) + 1 \in 1..Len(g)
      BY <1>5, HistoryIsSeq, ConstantsAssumption DEF TypeOK, Records, Batches, Turn
    <2>2. Accepted(d) \in store[p]
      <3>1. Len(h) + 1 \in 1..Turn(r.batch)
        BY <2>1 DEF Turn
      <3> QED
        BY <1>5, <3>1 DEF RecordsChain, StableIsStored
    <2>3. Turn(d) = Len(h)
      <3>1. Turn(d) = (Len(h) + 1) - 1
        BY <2>1, BatchOfType
      <3> QED
        BY <2>1, <3>1
    <2> HIDE DEF d
    <2> QED
      BY <1>4, <2>2, <2>3 DEF Accepted
  <1>6. \A r \in store[p] : Turn(r.batch) \in Nat /\ Len(h) \in Nat
    BY HistoryIsSeq, ConstantsAssumption DEF TypeOK, Records, Batches, Turn
  <1> QED
    BY <1>3, <1>4, <1>5, <1>6

(* The match a peer shows never goes back: Receive advances only over a     *)
(* turn that extends the head, a stop loses no turn that was shown, and     *)
(* OpenJournal shows every turn that is on disk.                           *)
THEOREM HeadsOnlyGrow == Spec => HeadOnlyGrows
  <1>1. Init => RecordsChain
    BY DEF Init, RecordsChain
  <1>2. Spec => []RecordsChain
    BY <1>1, ChainStep, Invariance, Durability, PTL DEF Spec
  <1> DEFINE Grows(p) ==
        /\ open[p] /\ open'[p] => /\ Len(head[p]) <= Len(head'[p])
                                 /\ head[p] = SubSeq(head'[p], 1, Len(head[p]))
        /\ open[p] /\ ~open'[p] =>
             \A i \in 1..Len(head[p]) : Accepted(BatchOf(head[p], i)) \in store'[p]
        /\ ~open[p] /\ open'[p] =>
             \A r \in store[p] : r.kind = "a" => Turn(r.batch) < Len(head'[p])
  <1>3. IInv /\ HeadIsDurable /\ RecordsChain /\ [Next]_vars => [\A p \in Seats : Grows(p)]_vars
    BY HeadStep, StopStep, RestartStep
  <1> QED
    BY <1>2, <1>3, Invariance, Durability, PTL DEF Spec, HeadOnlyGrows

(* What is buffered for a head is still within bounds at the next one.      *)
LEMMA HeadTurnGrows ==
  ASSUME NEW h \in Histories, h \notin Ended, NEW m \in Moves
  PROVE  /\ HeadTurn(h) = Len(h) /\ HeadTurn(h) \in Nat
         /\ HeadTurn(Append(h, m)) \in Len(h) .. Len(h) + 1
         /\ Append(h, m) \notin Ended => HeadTurn(Append(h, m)) = Len(h) + 1
  BY HistoryIsSeq, ExtendedHistory, ConstantsAssumption DEF HeadTurn

LEMMA PendingStep == IInv /\ PendingBounded /\ [Next]_vars => PendingBounded'
  <1> SUFFICES ASSUME IInv, PendingBounded, [Next]_vars
               PROVE  PendingBounded'
    OBVIOUS
  <1>0. \A b \in Batches : Turn(b) \in Nat
    BY HistoryIsSeq, ConstantsAssumption DEF Turn, Batches
  <1>1. ASSUME NEW p \in Seats, NEW b \in Batches, Buffer(p, b)
        PROVE  PendingBounded'
    <2>1. /\ pending' = [pending EXCEPT ![p] = @ \cup {b}] /\ head' = head
          /\ ~TooFar(p, b) /\ ~Clashes(p, b) /\ ~Past(p, b) /\ Turn(b) > HeadTurn(head[p])
      BY <1>1 DEF Buffer
    <2>2. /\ Turn(b) \in Nat /\ head[p] \notin Ended
          /\ HeadTurn(head[p]) = Len(head[p]) /\ Len(head[p]) \in Nat
          /\ Turn(b) <= HeadTurn(head[p]) + Window
      BY <1>0, <2>1, HistoryIsSeq, ConstantsAssumption
      DEF Past, TooFar, HeadTurn, IInv, TypeOK
    <2>3. Turn(b) >= Len(head[p])
      BY <2>1, <2>2
    <2>4. \A c \in pending[p] : Turn(c) = Turn(b) => c = b
      BY <2>1 DEF Clashes
    <2>5. pending'[p] = pending[p] \cup {b} /\ \A q \in Seats \ {p} : pending'[q] = pending[q]
      BY <2>1 DEF IInv, TypeOK
    <2> QED
      BY <2>1, <2>2, <2>3, <2>4, <2>5 DEF PendingBounded, HeadTurn, Turn
  <1>2. ASSUME NEW p \in Seats, Accept(p)
        PROVE  PendingBounded'
    <2> DEFINE b == cursor[p]
               h == Append(head[p], b.move)
    <2>1. /\ head' = [head EXCEPT ![p] = h] /\ Turn(b) = Len(head[p])
          /\ head[p] \notin Ended /\ b.move \in Moves /\ head[p] \in Histories
          /\ Len(h) = Len(head[p]) + 1 /\ Len(head[p]) \in Nat
      BY <1>2, NextHead, HistoryIsSeq DEF IInv, TypeOK
    <2>2. pending' = [pending EXCEPT ![p] = Without(@, b)]
      BY <1>2 DEF Accept
    <2>3. /\ head'[p] = h /\ pending'[p] = {c \in pending[p] : Turn(c) # Len(head[p])}
          /\ \A q \in Seats \ {p} : pending'[q] = pending[q] /\ head'[q] = head[q]
      BY <2>1, <2>2 DEF Without, IInv, TypeOK
    <2>4. /\ HeadTurn(head[p]) = Len(head[p])
          /\ HeadTurn(h) \in Len(head[p]) .. Len(head[p]) + 1
      BY <2>1, HeadTurnGrows
    <2>5. ASSUME NEW c \in pending'[p]
          PROVE  /\ Turn(c) <= HeadTurn(h) + Window /\ Turn(c) >= Len(h)
                 /\ \A d \in pending'[p] : Turn(d) = Turn(c) => d = c
      <3>1. /\ c \in pending[p] /\ Turn(c) # Len(head[p]) /\ Turn(c) \in Nat
            /\ Turn(c) <= Len(head[p]) + Window /\ Turn(c) >= Len(head[p])
        BY <1>0, <2>1, <2>3, <2>4, <2>5 DEF PendingBounded, IInv, TypeOK
      <3>2. \A d \in pending'[p] : Turn(d) = Turn(c) => d = c
        BY <2>3, <3>1 DEF PendingBounded
      <3> HIDE DEF h
      <3> QED
        BY <2>1, <2>4, <3>1, <3>2, ConstantsAssumption
    <2> HIDE DEF h, b
    <2> QED
      BY <2>3, <2>5 DEF PendingBounded, HeadTurn, Turn
  <1>3. ASSUME NEW p \in Seats, OpenJournal(p) \/ Failure(p)
        PROVE  PendingBounded'
    <2>1. \A q \in Seats \ {p} : pending'[q] = pending[q] /\ head'[q] = head[q]
      BY <1>3 DEF OpenJournal, Failure, ProcessCrash, PowerLoss, Wipe, Stop, IInv, TypeOK
    <2>2. pending'[p] = {}
      BY <1>3 DEF OpenJournal, Failure, ProcessCrash, PowerLoss, Wipe, Stop, IInv, TypeOK,
         ClosedIsEmpty
    <2> QED
      BY <2>1, <2>2 DEF PendingBounded, HeadTurn, Turn
  <1>4. ASSUME NEW p \in Seats, Reject(p)
        PROVE  PendingBounded'
    <2>1. head' = head /\ \A q \in Seats : pending'[q] \subseteq pending[q]
      BY <1>4 DEF Reject, Without, IInv, TypeOK
    <2> QED
      BY <2>1 DEF PendingBounded, HeadTurn, Turn
  <1>5. ASSUME UNCHANGED <<pending, head>>
        PROVE  PendingBounded'
    BY <1>5 DEF PendingBounded, HeadTurn, Turn
  <1>6. ASSUME NEW p \in Seats,
               \/ \E m \in Moves : Reserve(p, m) \/ ReserveUnsure(p, m)
               \/ Resume(p) \/ Sign(p) \/ AcceptFail(p)
               \/ \E b \in Batches : Begin(p, b) \/ Forge(p, b)
        PROVE  UNCHANGED <<pending, head>>
    BY <1>6 DEF Forge, Reserve, ReserveUnsure, Resume, Sign, AcceptFail, Begin
  <1>7. CASE UNCHANGED vars
    BY <1>5, <1>7 DEF vars
  <1> QED
    BY <1>1, <1>2, <1>3, <1>4, <1>5, <1>6, <1>7 DEF Next, Deliver

(* journal.go, Receive: the memory of future turns holds one batch per turn *)
(* between the head and the window, for any window.                        *)
THEOREM MemoryIsBounded == Spec => []PendingBounded
  <1>1. Init => PendingBounded
    BY DEF Init, PendingBounded
  <1> QED
    BY <1>1, PendingStep, Invariance, PTL DEF Spec

-------------------------------------------------------------------------------
(* Refinement: the journals of a match keep one log                        *)

(* The log of a set of batches, and the accepted turns among some records. *)
LogOf(S) == IF S = {} THEN <<>> ELSE After(CHOOSE b \in S : \A c \in S : Turn(c) <= Turn(b))
Turned(R) == {r \in R : r.kind = "a"}

OnePerTurn(S) == \A b, c \in S : Turn(b) = Turn(c) => b = c

LEMMA TurnIsNatural ==
  ASSUME NEW b \in Batches
  PROVE  Turn(b) \in 0..MaxTurns /\ Turn(b) \in Nat
  BY HistoryIsSeq, ConstantsAssumption DEF Batches, Turn

(* The log ends with the batch of the highest turn. *)
LEMMA LogEndsWith ==
  ASSUME NEW S \in SUBSET Batches, OnePerTurn(S), NEW b \in S,
         \A c \in S : Turn(c) <= Turn(b)
  PROVE  LogOf(S) = After(b)
  <1> DEFINE top == CHOOSE x \in S : \A c \in S : Turn(c) <= Turn(x)
  <1>1. top \in S /\ \A c \in S : Turn(c) <= Turn(top)
    OBVIOUS
  <1> HIDE DEF top
  <1>2. Turn(top) = Turn(b)
    BY <1>1, TurnIsNatural
  <1>3. top = b
    BY <1>1, <1>2 DEF OnePerTurn
  <1> QED
    BY <1>3 DEF LogOf, top

(* There is such a batch, as turns are bounded; so no turn is past the log. *)
LEMMA LogIsLongest ==
  ASSUME NEW S \in SUBSET Batches, OnePerTurn(S)
  PROVE  /\ Len(LogOf(S)) \in Nat
         /\ \A c \in S : Turn(c) < Len(LogOf(S))
  <1>1. CASE S = {}
    BY <1>1 DEF LogOf
  <1>2. CASE S # {}
    <2> DEFINE T == {MaxTurns - Turn(c) : c \in S}
    <2>1. T \subseteq Nat /\ T # {}
      BY <1>2, TurnIsNatural, ConstantsAssumption
    <2>2. PICK m \in T : \A k \in T : m <= k
      <3> HIDE DEF T
      <3> QED
        BY <2>1, LeastNatural
    <2>3. PICK b \in S : m = MaxTurns - Turn(b)
      BY <2>2
    <2>4. \A c \in S : Turn(c) <= Turn(b)
      <3> SUFFICES ASSUME NEW c \in S PROVE Turn(c) <= Turn(b)
        OBVIOUS
      <3>1. MaxTurns - Turn(b) <= MaxTurns - Turn(c)
        BY <2>2, <2>3
      <3> QED
        BY <3>1, TurnIsNatural, ConstantsAssumption
    <2>5. LogOf(S) = After(b)
      BY <2>4, LogEndsWith
    <2>6. b.before \in Seq(Moves) /\ b.move \in Moves
      BY HistoryIsSeq DEF Batches
    <2>7. Len(After(b)) = Turn(b) + 1
      BY <2>6 DEF After, Turn
    <2> QED
      BY <2>4, <2>5, <2>7, TurnIsNatural
  <1> QED
    BY <1>1, <1>2

(* A peer cannot have accepted more turns than the log has. *)
LEMMA AcceptedFitLog ==
  ASSUME NEW S \in SUBSET Batches, OnePerTurn(S), NEW A \in SUBSET Records,
         \A r \in A : r.kind = "a" /\ r.batch \in S
  PROVE  IsFiniteSet(A) /\ Cardinality(A) <= Len(LogOf(S)) /\ Cardinality(A) \in Nat
  <1> DEFINE n == Len(LogOf(S))
             f == [r \in A |-> Turn(r.batch)]
  <1>1. n \in Nat /\ \A c \in S : Turn(c) \in 0..n - 1
    BY LogIsLongest, TurnIsNatural
  <1> HIDE DEF n
  <1>2. f \in [A -> 0..n - 1]
    BY <1>1
  <1>3. ASSUME NEW r \in A, NEW q \in A, f[r] = f[q] PROVE r = q
    <2>1. r.batch = q.batch
      BY <1>3 DEF OnePerTurn
    <2> QED
      BY <2>1 DEF Records
  <1>4. f \in Injection(A, 0..n - 1)
    BY <1>2, <1>3 DEF Injection, IsInjective
  <1>5. IsFiniteSet(0..n - 1) /\ Cardinality(0..n - 1) = n
    BY <1>1, FS_Interval
  <1>6. IsFiniteSet(A) /\ Cardinality(A) <= n
    <2> HIDE DEF f
    <2> QED
      BY <1>4, <1>5, FS_Injection
  <1> QED
    BY <1>6, FS_CardinalityType DEF n

(* A record that is linked but may not survive a power loss: one accepted   *)
(* turn at most, and while the journal is open that of the head, which a    *)
(* failed write left there.                                                *)
OneUnsure ==
  \A p \in Seats : \A r \in store[p] \ stable[p] : r.kind = "a" =>
    /\ \A q \in store[p] \ stable[p] : q.kind = "a" => q = r
    /\ open[p] => Turn(r.batch) = Len(head[p])

LEMMA UnsureStep == IInv /\ OneUnsure /\ [Next]_vars => OneUnsure'
  <1> SUFFICES ASSUME IInv, OneUnsure, [Next]_vars
               PROVE  OneUnsure'
    OBVIOUS
  <1> USE DEF IInv
  <1>0. ASSUME NEW p \in Seats, store'[p] \subseteq stable'[p],
               \A q \in Seats \ {p} : /\ store'[q] = store[q] /\ stable'[q] = stable[q]
                                      /\ open'[q] = open[q] /\ head'[q] = head[q]
        PROVE  OneUnsure'
    BY <1>0 DEF OneUnsure, Turn
  <1>1. ASSUME NEW p \in Seats,
               OpenJournal(p) \/ Accept(p) \/ Resume(p) \/ \E m \in Moves : Reserve(p, m)
        PROVE  OneUnsure'
    <2>1. CASE OpenJournal(p)
      BY <1>0, <2>1 DEF OpenJournal, TypeOK
    <2>2. CASE Accept(p)
      BY <1>0, <2>2 DEF Accept, Put, TypeOK
    <2>3. CASE Resume(p) \/ \E m \in Moves : Reserve(p, m)
      <3>1. PICK r \in Records \cup store[p] \cup {Reserved(Body(p, m)) : m \in Moves} :
              /\ store' = [store EXCEPT ![p] = @ \cup {r}]
              /\ stable' = [stable EXCEPT ![p] = store[p] \cup {r}]
              /\ UNCHANGED <<open, head>>
        BY <2>3 DEF Resume, Reserve, Put
      <3> QED
        BY <1>0, <3>1 DEF TypeOK
    <2> QED
      BY <1>1, <2>1, <2>2, <2>3
  <1>2. ASSUME NEW p \in Seats, PowerLoss(p) \/ Wipe(p)
        PROVE  OneUnsure'
    BY <1>0, <1>2 DEF PowerLoss, Wipe, Stop, TypeOK
  <1>3. ASSUME NEW p \in Seats, NEW m \in Moves, ReserveUnsure(p, m)
        PROVE  OneUnsure'
    <2>1. /\ store' = [store EXCEPT ![p] = @ \cup {Reserved(Body(p, m))}]
          /\ UNCHANGED <<stable, open, head>> /\ Reserved(Body(p, m)).kind = "s"
      BY <1>3 DEF ReserveUnsure, PutUnsure, Reserved
    <2> DEFINE b == Reserved(Body(p, m))
    <2> HIDE DEF b
    <2>2. \A q \in Seats : \A r \in store'[q] : r.kind = "a" => r \in store[q]
      BY <2>1 DEF b, TypeOK
    <2> QED
      BY <2>1, <2>2 DEF OneUnsure, Turn
  <1>4. ASSUME NEW p \in Seats, AcceptFail(p)
        PROVE  OneUnsure'
    <2> DEFINE n == Accepted(cursor[p])
    <2>1. UNCHANGED <<stable, open, head>>
      BY <1>4 DEF AcceptFail, PutUnsure
    <2>2. CASE store' = store
      BY <2>1, <2>2 DEF OneUnsure, Turn
    <2>3. CASE PutUnsure(p, n)
      <3>1. n.kind = "a" /\ n.batch = cursor[p] /\ Turn(n.batch) = Len(head[p])
        BY <1>4 DEF AcceptFail, Verifies, Extends, Accepted, Turn
      <3>2. open[p]
        BY <1>4 DEF AcceptFail, ClosedIsEmpty
      <3>3. /\ store'[p] = store[p] \cup {n} /\ ~Refuses(store[p], n)
            /\ \A q \in Seats \ {p} : store'[q] = store[q]
        BY <2>3 DEF PutUnsure, TypeOK
      <3>4. \A r \in store[p] \ stable[p] : r.kind = "a" => r = n
        BY <3>1, <3>2, <3>3 DEF OneUnsure, Refuses
      <3> HIDE DEF n
      <3> QED
        BY <2>1, <3>1, <3>3, <3>4 DEF OneUnsure, Turn
    <2> QED
      BY <1>4, <2>2, <2>3 DEF AcceptFail
  <1>5. ASSUME NEW p \in Seats, ProcessCrash(p)
        PROVE  OneUnsure'
    <2>1. /\ UNCHANGED <<store, stable>> /\ ~open'[p]
          /\ \A q \in Seats \ {p} : open'[q] = open[q] /\ head'[q] = head[q]
      BY <1>5 DEF ProcessCrash, Stop, TypeOK
    <2> QED
      BY <2>1 DEF OneUnsure, Turn
  <1>6. ASSUME UNCHANGED <<store, stable, open, head>>
        PROVE  OneUnsure'
    BY <1>6 DEF OneUnsure, Turn
  <1>7. ASSUME NEW p \in Seats,
               Sign(p) \/ Reject(p) \/ \E b \in Batches : Deliver(p, b) \/ Forge(p, b)
        PROVE  UNCHANGED <<store, stable, open, head>>
    BY <1>7 DEF Forge, Sign, Reject, Deliver, Buffer, Begin
  <1>8. CASE UNCHANGED vars
    BY <1>6, <1>8 DEF vars
  <1> QED
    BY <1>1, <1>2, <1>3, <1>4, <1>5, <1>6, <1>7, <1>8 DEF Next, Failure

(* What survives a power loss grows, by one accepted turn at most.         *)
LEMMA StableStep ==
  ASSUME IInv, OneUnsure, Faulty = {}, NEW p \in Seats,
         \/ OpenJournal(p) \/ Accept(p) \/ Resume(p) \/ \E m \in Moves : Reserve(p, m)
         \/ PowerLoss(p)
  PROVE  /\ \A q \in Seats \ {p} : stable'[q] = stable[q]
         /\ stable[p] \subseteq stable'[p]
         /\ \A r, q \in Turned(stable'[p]) \ stable[p] : r = q
  <1> USE DEF IInv, Turned
  <1>0. stable[p] \subseteq store[p]
    BY DEF StableIsStored
  <1>1. CASE OpenJournal(p)
    BY <1>0, <1>1 DEF OpenJournal, TypeOK, OneUnsure
  <1>2. CASE Accept(p)
    <2> DEFINE n == Accepted(cursor[p])
    <2>1. n.kind = "a" /\ n.batch = cursor[p] /\ Turn(n.batch) = Len(head[p]) /\ open[p]
      BY <1>2 DEF Accept, Verifies, Extends, Accepted, Turn, ClosedIsEmpty
    <2>2. /\ stable'[p] = store[p] \cup {n} /\ ~Refuses(store[p], n)
          /\ \A q \in Seats \ {p} : stable'[q] = stable[q]
      BY <1>2 DEF Accept, Put, TypeOK
    <2>3. \A r \in Turned(store[p]) \ stable[p] : r = n
      BY <2>1, <2>2 DEF OneUnsure, Refuses
    <2> HIDE DEF n
    <2> QED
      BY <1>0, <2>1, <2>2, <2>3
  <1>3. CASE Resume(p)
    <2>1. PICK r \in store[p] : stable' = [stable EXCEPT ![p] = store[p] \cup {r}]
      BY <1>3 DEF Resume, Put
    <2> QED
      BY <1>0, <2>1 DEF TypeOK, OneUnsure
  <1>4. CASE \E m \in Moves : Reserve(p, m)
    <2>1. PICK m \in Moves : Reserve(p, m)
      BY <1>4
    <2> DEFINE b == Reserved(Body(p, m))
    <2>2. stable' = [stable EXCEPT ![p] = store[p] \cup {b}] /\ b.kind = "s"
      BY <2>1 DEF Reserve, Put, Reserved
    <2> HIDE DEF b
    <2>3. /\ stable'[p] = store[p] \cup {b}
          /\ \A q \in Seats \ {p} : stable'[q] = stable[q]
      BY <2>2 DEF TypeOK
    <2> QED
      BY <1>0, <2>2, <2>3 DEF OneUnsure
  <1>5. CASE PowerLoss(p)
    <2>1. PICK S \in SUBSET store[p] :
            stable[p] \subseteq S /\ stable' = [stable EXCEPT ![p] = S]
      BY <1>5 DEF PowerLoss
    <2> QED
      BY <2>1 DEF TypeOK, OneUnsure
  <1> QED
    BY <1>1, <1>2, <1>3, <1>4, <1>5

LogInv == IInv /\ OneBatchPerTurn /\ OneUnsure

(* So the peer makes one more turn of the log durable, or none.            *)
LEMMA ApplyStep ==
  ASSUME LogInv, LogInv', Faulty = {}, signed' = signed, NEW p \in Seats,
         \A q \in Seats \ {p} : stable'[q] = stable[q],
         stable[p] \subseteq stable'[p],
         \A r, q \in Turned(stable'[p]) \ stable[p] : r = q
  PROVE  Match!Apply(p) \/ UNCHANGED Match!vars
  <1> DEFINE A == Turned(stable[p])
             B == Turned(stable'[p])
             n == DurableTurns[p]
  <1>0. /\ signed \in SUBSET Batches /\ OnePerTurn(signed)
        /\ SignedLog = LogOf(signed) /\ SignedLog' = SignedLog
    BY DEF LogInv, IInv, TypeOK, OneBatchPerTurn, OnePerTurn, SignedLog, LogOf, After, Turn
  <1>1. /\ DurableTurns = [q \in Seats |-> Cardinality(Turned(stable[q]))]
        /\ DurableTurns' = [q \in Seats |-> Cardinality(Turned(stable'[q]))]
    BY DEF DurableTurns, Turned
  <1>2. /\ A \in SUBSET Records /\ \A r \in A : r.kind = "a" /\ r.batch \in signed
        /\ B \in SUBSET Records /\ \A r \in B : r.kind = "a" /\ r.batch \in signed
    <2>1. stable[p] \subseteq store[p] /\ stable'[p] \subseteq store'[p]
      BY DEF LogInv, IInv, StableIsStored
    <2> QED
      BY <2>1 DEF LogInv, IInv, TypeOK, StoredIsSigned, Turned
  <1> HIDE DEF A, B
  <1>3. /\ IsFiniteSet(A) /\ Cardinality(A) \in Nat
        /\ Cardinality(B) <= Len(LogOf(signed)) /\ Cardinality(B) \in Nat
        /\ Len(LogOf(signed)) \in Nat
    BY <1>0, <1>2, AcceptedFitLog, LogIsLongest
  <1>4. A \subseteq B /\ \A r, q \in B \ A : r = q
    BY DEF A, B, Turned
  <1>5. CASE A = B
    <2>1. DurableTurns' = DurableTurns
      BY <1>1, <1>5 DEF A, B
    <2> QED
      BY <1>0, <2>1 DEF Match!vars
  <1>6. CASE A # B
    <2>1. PICK r \in B : r \notin A
      BY <1>4, <1>6
    <2>5. B = A \cup {r}
      BY <1>4, <2>1
    <2>2. Cardinality(B) = Cardinality(A) + 1
      BY <1>3, <2>1, <2>5, FS_AddElement
    <2>3. DurableTurns[p] = Cardinality(A)
      BY <1>1 DEF A
    <2>4. DurableTurns' = [DurableTurns EXCEPT ![p] = DurableTurns[p] + 1]
      BY <1>1, <2>2, <2>3 DEF B
    <2> QED
      BY <1>0, <1>3, <2>2, <2>3, <2>4 DEF Match!Apply
  <1> QED
    BY <1>5, <1>6

(* The first signature of a turn is the next move of the log: every other   *)
(* batch is of an earlier turn, and the log so far is what it extends.      *)
LEMMA PlayStep ==
  ASSUME LogInv, LogInv', Faulty = {}, NEW p \in Seats, Sign(p)
  PROVE  (\E m \in Moves : Match!Play(m)) \/ UNCHANGED Match!vars
  <1> DEFINE n == intent[p]
  <1>1. /\ n \in Batches /\ signed' = signed \cup {n} /\ stable' = stable
        /\ Reserved(n) \in store[p]
    BY DEF Sign, LogInv, IInv, TypeOK, IntentIsReserved, StableIsStored
  <1>2. Sound(n)
    BY <1>1 DEF LogInv, IInv, StoredIsSound, Reserved
  <1> HIDE DEF n
  <1>3. /\ signed \in SUBSET Batches /\ OnePerTurn(signed)
        /\ signed' \in SUBSET Batches /\ OnePerTurn(signed')
        /\ SignedLog = LogOf(signed) /\ SignedLog' = LogOf(signed')
    BY DEF LogInv, IInv, TypeOK, OneBatchPerTurn, OnePerTurn, SignedLog, LogOf, After, Turn
  <1>4. DurableTurns' = DurableTurns
    BY <1>1 DEF DurableTurns
  <1>5. CASE n \in signed
    <2>1. signed' = signed
      BY <1>1, <1>5
    <2> QED
      BY <1>3, <1>4, <2>1 DEF Match!vars
  <1>6. CASE n \notin signed
    <2>0. n.before \in Histories /\ n.move \in Moves /\ Turn(n) = Len(n.before) /\ Turn(n) \in Nat
      BY <1>1, TurnIsNatural DEF Batches, Turn
    <2>1. ASSUME NEW c \in signed PROVE Turn(c) < Turn(n)
      <3>1. c \in Batches /\ Turn(c) \in Nat /\ Turn(c) # Turn(n)
        BY <1>1, <1>3, <1>6, TurnIsNatural DEF OnePerTurn
      <3>2. ASSUME Turn(c) > Turn(n) PROVE FALSE
        <4> DEFINE i == Turn(n) + 1
        <4>1. c.before \in Histories /\ i \in 1..Len(c.before)
          BY <2>0, <3>1, <3>2 DEF Batches, Turn
        <4>2. Chained(c.before)
          BY DEF LogInv, IInv, SignedIsSound, Sound
        <4>3. BatchOf(c.before, i) \in signed /\ Turn(BatchOf(c.before, i)) = Turn(n)
          BY <2>0, <4>1, <4>2, BatchOfType DEF Chained
        <4> QED
          BY <1>1, <1>3, <1>6, <4>3 DEF OnePerTurn
      <3> QED
        BY <2>0, <3>1, <3>2
    <2>2. LogOf(signed) = n.before
      <3>1. CASE Len(n.before) = 0
        <4>1. signed = {}
          BY <1>3, <2>0, <2>1, <3>1, TurnIsNatural
        <4>2. n.before = <<>>
          BY <2>0, <3>1, HistoryIsSeq
        <4> QED
          BY <4>1, <4>2 DEF LogOf
      <3>2. CASE Len(n.before) # 0
        <4> DEFINE h == n.before
                   l == Len(h)
                   d == BatchOf(h, l)
        <4>1. h \in Seq(Moves) /\ l \in 1..Len(h) /\ l \in Nat
          BY <2>0, <3>2, HistoryIsSeq
        <4>2. d \in signed /\ Turn(d) = l - 1 /\ d.before = SubSeq(h, 1, l - 1) /\ d.move = h[l]
          BY <1>2, <2>0, <4>1, BatchOfType DEF Chained, Sound
        <4>3. \A c \in signed : Turn(c) <= Turn(d)
          BY <1>3, <2>0, <2>1, <4>1, <4>2, TurnIsNatural
        <4>4. LogOf(signed) = After(d)
          <5> HIDE DEF d
          <5> QED
            BY <1>3, <4>2, <4>3, LogEndsWith
        <4>5. Append(SubSeq(h, 1, l - 1), h[l]) = h
          BY <4>1
        <4> HIDE DEF d, h
        <4> QED
          BY <4>2, <4>4, <4>5 DEF After, h
      <3> QED
        BY <3>1, <3>2
    <2>3. LogOf(signed') = After(n)
      <3>1. n \in signed' /\ \A c \in signed' : Turn(c) <= Turn(n)
        BY <1>1, <1>3, <2>0, <2>1, TurnIsNatural
      <3> QED
        BY <1>3, <3>1, LogEndsWith
    <2>4. SignedLog \notin Ended /\ SignedLog' = Append(SignedLog, n.move)
      BY <1>2, <1>3, <2>2, <2>3 DEF Sound, After
    <2> QED
      BY <1>4, <2>0, <2>4 DEF Match!Play
  <1> QED
    BY <1>5, <1>6

LEMMA RefinementStep ==
  ASSUME Faulty = {}, LogInv, LogInv', [Next]_vars
  PROVE  [Match!Next]_Match!vars
  <1>1. ASSUME UNCHANGED <<signed, stable>>
        PROVE  UNCHANGED Match!vars
    BY <1>1 DEF Match!vars, SignedLog, DurableTurns, After, Turn
  <1>2. ASSUME NEW p \in Seats, Sign(p)
        PROVE  [Match!Next]_Match!vars
    BY <1>2, PlayStep DEF Match!Next
  <1>3. ASSUME NEW p \in Seats,
               \/ OpenJournal(p) \/ Accept(p) \/ Resume(p) \/ \E m \in Moves : Reserve(p, m)
               \/ PowerLoss(p)
        PROVE  [Match!Next]_Match!vars
    <2>1. signed' = signed
      BY <1>3 DEF OpenJournal, Accept, Resume, Reserve, PowerLoss
    <2> QED
      BY <1>3, <2>1, StableStep, ApplyStep DEF Match!Next, LogInv
  <1>4. ASSUME NEW p \in Seats,
               \/ \E m \in Moves : ReserveUnsure(p, m)
               \/ \E b \in Batches : Deliver(p, b) \/ Forge(p, b)
               \/ Reject(p) \/ AcceptFail(p) \/ ProcessCrash(p) \/ Wipe(p)
        PROVE  UNCHANGED <<signed, stable>>
    BY <1>4 DEF Forge, ReserveUnsure, Deliver, Buffer, Begin, Reject, AcceptFail, ProcessCrash,
       Wipe, PutUnsure
  <1>5. CASE UNCHANGED vars
    BY <1>1, <1>5 DEF vars
  <1> QED
    BY <1>1, <1>2, <1>3, <1>4, <1>5 DEF Next, Failure

(* While every directory is sound, the journals of a match implement one    *)
(* log (MatchLog): each first signature is its next move, and each peer's   *)
(* durable turns are a part of it that no failure ever shortens.           *)
THEOREM JournalsKeepOneLog == ASSUME Faulty = {} PROVE Spec => ImplementsMatchLog
  <1>1. Init => Match!Init
    <2> SUFFICES ASSUME Init PROVE Match!Init
      OBVIOUS
    <2>1. \A p \in Seats : {r \in stable[p] : r.kind = "a"} = {}
      BY DEF Init
    <2> QED
      BY <2>1, FS_EmptySet DEF Init, Match!Init, SignedLog, DurableTurns
  <1>2. Init => OneUnsure
    BY DEF Init, OneUnsure
  <1>3. Spec => []LogInv
    BY <1>2, UnsureStep, OneBatch, Invariance, PTL DEF Spec, LogInv
  <1>4. LogInv /\ LogInv' /\ [Next]_vars => [Match!Next]_Match!vars
    BY RefinementStep
  <1> QED
    BY <1>1, <1>3, <1>4, PTL DEF Spec, ImplementsMatchLog, Match!Spec

=================================================================================
