------------------------------ MODULE TurnJournal ------------------------------
(***************************************************************************)
(* internal/turnbatch: the journal every peer of a match keeps of its      *)
(* signed, completed turns (batch.go, journal.go), and the asynchronous    *)
(* network between the peers.                                              *)
(*                                                                         *)
(* The simulation is deterministic, so a game state is the history of      *)
(* moves that led to it, and the hash of a state, being injective for the  *)
(* model, is the state itself.  A move is everything a batch holds besides *)
(* its place: the inputs, their ticks and the end tick.  A batch extends   *)
(* the history before it by one move; its turn number is the length of     *)
(* that history.  A signature is deterministic and unforgeable: the batches *)
(* with a valid signature are the members of signed.  A sound seat signs   *)
(* only what its journal reserved; a faulty one signs whatever it likes.   *)
(*                                                                         *)
(* The network delivers any batch to any peer at any time, any number of   *)
(* times or never; what is not signed Receive refuses at once, and what    *)
(* was signed out of turn, or on another history, it finds out at the head. *)
(*                                                                         *)
(* Each step below ends at a record write or at a return, because the      *)
(* journal's mutex hides everything between two writes from other calls    *)
(* but not from a crash.  A call that changes nothing (a duplicate, a      *)
(* refusal, a write that failed before it linked) is a stuttering step.    *)
(***************************************************************************)
EXTENDS Naturals, Sequences, FiniteSets

CONSTANTS
  Seats,       \* the peers, each named by the seat it plays
  Moves,       \* what a player can do in a turn
  MaxTurns,    \* bound: the longest history (turn numbers are uint32)
  Window,      \* MaxPendingTurns
  ActiveSeat,  \* whose turn it is after a history (sim.State.ActiveSeat)
  Ended,       \* the histories after which the match is over (sim.Ended)
  Faulty,      \* seats whose directory may be deleted and whose key signs anything
  MaxForged,   \* bound: a faulty seat signs by itself until it has so many signatures
  None

Histories == UNION {[1..n -> Moves] : n \in 0..MaxTurns}
Batches   == [seat : Seats, before : Histories, move : Moves]
Records   == [kind : {"s", "a"}, batch : Batches]

ASSUME ConstantsAssumption ==
  /\ MaxTurns \in Nat
  /\ Window \in Nat
  /\ ActiveSeat \in [Histories -> Seats]
  /\ Ended \subseteq Histories
  /\ <<>> \notin Ended
  /\ \A h \in Histories : Len(h) = MaxTurns => h \in Ended
  /\ Faulty \subseteq Seats
  /\ MaxForged \in Nat
  /\ None \notin Batches

VARIABLES
  open,     \* the peer's process is up and its journal open
  head,     \* volatile: the state of the match (Journal.head)
  pending,  \* volatile: verified signatures of future turns (Journal.pending)
  cursor,   \* volatile: the batch Receive's loop is at, while it holds the mutex
  intent,   \* volatile: the body reserved and about to be signed
  store,    \* the records in the journal's directory
  stable,   \* those of them that a power loss cannot take
  signed    \* history: every batch a key has signed

vars == <<open, head, pending, cursor, intent, store, stable, signed>>

TypeOK ==
  /\ open \in [Seats -> BOOLEAN]
  /\ head \in [Seats -> Histories]
  /\ pending \in [Seats -> SUBSET Batches]
  /\ cursor \in [Seats -> Batches \cup {None}]
  /\ intent \in [Seats -> Batches \cup {None}]
  /\ store \in [Seats -> SUBSET Records]
  /\ stable \in [Seats -> SUBSET Records]
  /\ signed \subseteq Batches

Init ==
  /\ open = [p \in Seats |-> FALSE]
  /\ head = [p \in Seats |-> <<>>]
  /\ pending = [p \in Seats |-> {}]
  /\ cursor = [p \in Seats |-> None]
  /\ intent = [p \in Seats |-> None]
  /\ store = [p \in Seats |-> {}]
  /\ stable = [p \in Seats |-> {}]
  /\ signed = {}

-------------------------------------------------------------------------------
(* Turns, batches and records                                              *)

Turn(b)  == Len(b.before)
After(b) == Append(b.before, b.move)

(* sim does not count the turn that ends the match. *)
HeadTurn(h) == IF h \in Ended THEN Len(h) - 1 ELSE Len(h)

(* The batch that made move i of history h. *)
BatchOf(h, i) == LET before == SubSeq(h, 1, i - 1)
                 IN  [seat |-> ActiveSeat[before], before |-> before, move |-> h[i]]

(* Batch.replay: the batch extends this head, in the active seat's name. *)
Extends(b, h) ==
  /\ h \notin Ended
  /\ b.before = h
  /\ b.seat = ActiveSeat[h]

(* Batch.authenticate: the signature is that of the seat the batch names. *)
Authenticates(b) == b \in signed

(* Mutant: the signature of any seat will do. *)
VerifiesAnyone(b, h) == Authenticates(b) /\ h \notin Ended /\ b.before = h

(* Batch.Verify *)
Verifies(b, h) == Authenticates(b) /\ Extends(b, h)

Reserved(b) == [kind |-> "s", batch |-> b]
Accepted(b) == [kind |-> "a", batch |-> b]

(* Store.Put answers ErrConflict when the key already holds another record. *)
Refuses(S, r) ==
  \E q \in S : q.kind = r.kind /\ Turn(q.batch) = Turn(r.batch) /\ q # r

Idle(p) == open[p] /\ cursor[p] = None /\ intent[p] = None

(* Mutants: Put without the directory fsync; Put over another record. *)
PutUnsynced(p, r) ==
  /\ ~Refuses(store[p], r)
  /\ store' = [store EXCEPT ![p] = @ \cup {r}]
  /\ UNCHANGED stable

PutOver(p, r) ==
  /\ store' = [store EXCEPT ![p] = @ \cup {r}]
  /\ stable' = [stable EXCEPT ![p] = store[p] \cup {r}]

(* A successful Put: the record is linked and the directory fsynced. *)
Put(p, r) ==
  /\ ~Refuses(store[p], r)
  /\ store' = [store EXCEPT ![p] = @ \cup {r}]
  /\ stable' = [stable EXCEPT ![p] = store[p] \cup {r}]

(* A Put whose directory fsync failed: linked, and yet an error. *)
PutUnsure(p, r) ==
  /\ ~Refuses(store[p], r)
  /\ store' = [store EXCEPT ![p] = @ \cup {r}]
  /\ UNCHANGED stable

-------------------------------------------------------------------------------
(* OpenJournal: binding the genesis fsyncs the directory, then the accepted *)
(* turns are replayed until one is missing or the match is over.           *)

(* Mutant: a replay may stop before a turn that is there. *)
ReplaysSome(S, h) == \A i \in 1..Len(h) : Accepted(BatchOf(h, i)) \in S

Replays(S, h) ==
  /\ \A i \in 1..Len(h) : Accepted(BatchOf(h, i)) \in S
  /\ h \in Ended \/ \A r \in S : r.kind = "a" => Turn(r.batch) # Len(h)

OpenJournal(p) ==
  /\ ~open[p]
  /\ \E h \in Histories :
       /\ Replays(store[p], h)
       /\ head' = [head EXCEPT ![p] = h]
  /\ open' = [open EXCEPT ![p] = TRUE]
  /\ stable' = [stable EXCEPT ![p] = store[p]]
  /\ UNCHANGED <<pending, cursor, intent, store, signed>>

-------------------------------------------------------------------------------
(* SignedTurn: reserve the exact body, and only then sign it.              *)
Body(p, m) == [seat |-> p, before |-> head[p], move |-> m]

(* Mutant: sign without a reservation. *)
ReserveNothing(p, m) ==
  /\ Idle(p)
  /\ Extends(Body(p, m), head[p])
  /\ intent' = [intent EXCEPT ![p] = Body(p, m)]
  /\ UNCHANGED <<open, head, pending, cursor, store, stable, signed>>

Reserve(p, m) ==
  /\ Idle(p)
  /\ Extends(Body(p, m), head[p])
  /\ Put(p, Reserved(Body(p, m)))
  /\ intent' = [intent EXCEPT ![p] = Body(p, m)]
  /\ UNCHANGED <<open, head, pending, cursor, signed>>

ReserveUnsure(p, m) ==
  /\ Idle(p)
  /\ Extends(Body(p, m), head[p])
  /\ PutUnsure(p, Reserved(Body(p, m)))
  /\ UNCHANGED <<open, head, pending, cursor, intent, signed>>

(* ResumeSignedTurn: after a restart, take the reserved body up again. *)
Resume(p) ==
  /\ Idle(p)
  /\ \E r \in store[p] :
       /\ r.kind = "s"
       /\ Turn(r.batch) = HeadTurn(head[p])
       /\ Extends(r.batch, head[p])
       /\ r.batch.seat = p
       /\ Put(p, r)
       /\ intent' = [intent EXCEPT ![p] = r.batch]
  /\ UNCHANGED <<open, head, pending, cursor, signed>>

Sign(p) ==
  /\ intent[p] # None
  /\ signed' = signed \cup {intent[p]}
  /\ intent' = [intent EXCEPT ![p] = None]
  /\ UNCHANGED <<open, head, pending, cursor, store, stable>>

-------------------------------------------------------------------------------
(* Receive                                                                 *)

(* Mutants: off by one at the head, and at the window. *)
PastOrAtHead(p, b) == Turn(b) <= HeadTurn(head[p]) \/ head[p] \in Ended
TooFarByOne(p, b)  == Turn(b) > HeadTurn(head[p]) + Window + 1

Past(p, b)    == Turn(b) < HeadTurn(head[p]) \/ head[p] \in Ended
TooFar(p, b)  == Turn(b) > HeadTurn(head[p]) + Window
Clashes(p, b) == \E c \in pending[p] : Turn(c) = Turn(b) /\ c # b

(* A future turn is kept in memory, as soon as its signature is known to be *)
(* good: whether it extends anything is not asked yet.                     *)
Buffer(p, b) ==
  /\ Authenticates(b) /\ Idle(p)
  /\ ~Past(p, b) /\ ~TooFar(p, b) /\ ~Clashes(p, b)
  /\ Turn(b) > HeadTurn(head[p])
  /\ pending' = [pending EXCEPT ![p] = @ \cup {b}]
  /\ UNCHANGED <<open, head, cursor, intent, store, stable, signed>>

(* The turn at the head starts the loop. *)
Begin(p, b) ==
  /\ Authenticates(b) /\ Idle(p)
  /\ ~Past(p, b) /\ ~Clashes(p, b)
  /\ Turn(b) = HeadTurn(head[p])
  /\ cursor' = [cursor EXCEPT ![p] = b]
  /\ UNCHANGED <<open, head, pending, intent, store, stable, signed>>

Without(P, b) == {c \in P : Turn(c) # Turn(b)}

(* One round of the loop: verify, persist, and only then advance; then go  *)
(* on with the buffered turn at the new head, if there is one.             *)
Accept(p) ==
  LET b == cursor[p] IN
  /\ b # None
  /\ Verifies(b, head[p])
  /\ Put(p, Accepted(b))
  /\ head' = [head EXCEPT ![p] = After(b)]
  /\ pending' = [pending EXCEPT ![p] = Without(@, b)]
  /\ LET next == {c \in pending'[p] : Turn(c) = HeadTurn(After(b)) /\ After(b) \notin Ended}
     IN  cursor' = [cursor EXCEPT ![p] = IF next = {} THEN None ELSE CHOOSE c \in next : TRUE]
  /\ UNCHANGED <<open, intent, signed>>

(* The batch does not extend the head: it is dropped and Receive fails. *)
Reject(p) ==
  /\ cursor[p] # None
  /\ ~Verifies(cursor[p], head[p])
  /\ pending' = [pending EXCEPT ![p] = Without(@, cursor[p])]
  /\ cursor' = [cursor EXCEPT ![p] = None]
  /\ UNCHANGED <<open, head, intent, store, stable, signed>>

(* The write failed: Receive returns the error and the head stays. *)
AcceptFail(p) ==
  /\ cursor[p] # None
  /\ Verifies(cursor[p], head[p])
  /\ cursor' = [cursor EXCEPT ![p] = None]
  /\ \/ UNCHANGED <<store, stable>>
     \/ PutUnsure(p, Accepted(cursor[p]))
  /\ UNCHANGED <<open, head, pending, intent, signed>>

-------------------------------------------------------------------------------
(* Failures                                                                *)

Stop(p) ==
  /\ open[p]
  /\ open' = [open EXCEPT ![p] = FALSE]
  /\ head' = [head EXCEPT ![p] = <<>>]
  /\ pending' = [pending EXCEPT ![p] = {}]
  /\ cursor' = [cursor EXCEPT ![p] = None]
  /\ intent' = [intent EXCEPT ![p] = None]

ProcessCrash(p) == Stop(p) /\ UNCHANGED <<store, stable, signed>>

PowerLoss(p) ==
  /\ Stop(p)
  /\ \E S \in SUBSET store[p] :
       /\ stable[p] \subseteq S
       /\ store' = [store EXCEPT ![p] = S]
       /\ stable' = [stable EXCEPT ![p] = S]
  /\ UNCHANGED signed

(* A faulty seat signs any move after any history, in its turn or not, and  *)
(* as many for one turn as it likes.                                       *)
Forge(p, b) ==
  /\ p \in Faulty /\ b.seat = p /\ Turn(b) < MaxTurns
  /\ Cardinality({c \in signed : c.seat = p}) < MaxForged
  /\ signed' = signed \cup {b}
  /\ UNCHANGED <<open, head, pending, cursor, intent, store, stable>>

(* The directory is trusted storage; a faulty seat's is deleted. *)
Wipe(p) ==
  /\ p \in Faulty
  /\ ~open[p]
  /\ store' = [store EXCEPT ![p] = {}]
  /\ stable' = [stable EXCEPT ![p] = {}]
  /\ UNCHANGED <<open, head, pending, cursor, intent, signed>>

-------------------------------------------------------------------------------
Deliver(p, b) == Buffer(p, b) \/ Begin(p, b)
Failure(p)    == ProcessCrash(p) \/ PowerLoss(p) \/ Wipe(p)

Next ==
  \E p \in Seats :
    \/ OpenJournal(p)
    \/ \E m \in Moves : Reserve(p, m) \/ ReserveUnsure(p, m)
    \/ Resume(p)
    \/ Sign(p)
    \/ \E b \in Batches : Deliver(p, b) \/ Forge(p, b)
    \/ Accept(p) \/ Reject(p) \/ AcceptFail(p)
    \/ Failure(p)

Spec == Init /\ [][Next]_vars

-------------------------------------------------------------------------------
(* Fairness: a peer that is down is started again, the loop runs on,       *)
(* failures cease, and the carrier delivers the turn at the head again     *)
(* until it is taken (an assumption about the carrier; strong fairness,    *)
(* because the mutex may be held whenever the turn arrives).               *)
Calm == <>[][\A p \in Seats : ~Failure(p) /\ ~AcceptFail(p)]_vars

FairSpec ==
  /\ Spec
  /\ Calm
  /\ \A p \in Seats :
       /\ WF_vars(OpenJournal(p))
       /\ WF_vars(Sign(p))
       /\ WF_vars(Accept(p) \/ Reject(p))
       /\ SF_vars(\E b \in Batches : Begin(p, b))

-------------------------------------------------------------------------------
(* Properties                                                              *)

(* A seat whose directory is sound signs one body per turn, across crashes *)
(* and restarts: a second outcome offered for the same turn is refused.    *)
OneBodyPerTurn ==
  \A b, c \in signed :
    (b.seat = c.seat /\ b.seat \notin Faulty /\ Turn(b) = Turn(c)) => b = c

(* Peers with sound directories never record different batches for a turn; *)
(* a batch carries the state before it, so their whole histories agree.    *)
AcceptedAgree ==
  Faulty = {} =>
    \A p, q \in Seats : \A r \in store[p], s \in store[q] :
      (r.kind = "a" /\ s.kind = "a" /\ Turn(r.batch) = Turn(s.batch)) => r = s

(* Two open journals show the same match: the shorter history is the       *)
(* beginning of the longer one.                                            *)
HeadsAgree ==
  Faulty = {} =>
    \A p, q \in Seats : \A i \in 1..Len(head[p]) :
      i <= Len(head[q]) => head[p][i] = head[q][i]

(* Every turn an open journal has advanced over is in a record that no     *)
(* power loss takes: the head is never ahead of what a restart finds.      *)
HeadIsDurable ==
  \A p \in Seats : open[p] =>
    \A i \in 1..Len(head[p]) : Accepted(BatchOf(head[p], i)) \in stable[p]

(* Whatever a faulty seat signs, a turn that a peer has recorded was signed *)
(* in the name of the seat whose turn it was, and so was every turn before *)
(* it; and a sound seat's is the very body that seat has reserved on disk,  *)
(* which no failure lets it disown.                                        *)
AcceptedIsSigned ==
  \A p \in Seats : \A r \in store[p] : r.kind = "a" =>
    LET b == r.batch IN
    /\ b \in signed /\ b.seat = ActiveSeat[b.before] /\ b.before \notin Ended
    /\ \A i \in 1..Turn(b) : BatchOf(b.before, i) \in signed
    /\ b.seat \notin Faulty => Reserved(b) \in stable[b.seat]

(* While every directory is sound no journal answers a genuine turn with a *)
(* conflict or a verification failure, whatever the order of deliveries    *)
(* and whatever has crashed: ErrConflictingTurn always means a fork.       *)
NoFalseConflict ==
  Faulty = {} =>
    \A p \in Seats :
      /\ cursor[p] # None => /\ Extends(cursor[p], head[p])
                             /\ ~Refuses(store[p], Accepted(cursor[p]))
      /\ open[p] => \A b \in signed :
           /\ ~Clashes(p, b)
           /\ ~Refuses(store[p], Accepted(b))

(* The memory of future turns is bounded: one batch per turn, none behind  *)
(* the head of a running match and none further ahead than the window.     *)
PendingBounded ==
  \A p \in Seats : \A b \in pending[p] :
    /\ Turn(b) <= HeadTurn(head[p]) + Window
    /\ head[p] \notin Ended => Turn(b) >= Len(head[p])
    /\ \A c \in pending[p] : Turn(c) = Turn(b) => c = b

(* The match a peer shows never goes back: an open journal only adds turns, *)
(* a crash or a power loss leaves every turn it has shown on disk, and a    *)
(* restart shows every turn that is on disk.                               *)
HeadOnlyGrows ==
  [][\A p \in Seats :
       /\ open[p] /\ open'[p] => /\ Len(head[p]) <= Len(head'[p])
                                /\ head[p] = SubSeq(head'[p], 1, Len(head[p]))
       /\ open[p] /\ ~open'[p] =>
            \A i \in 1..Len(head[p]) : Accepted(BatchOf(head[p], i)) \in store'[p]
       /\ ~open[p] /\ open'[p] =>
            \A r \in store[p] : r.kind = "a" => Turn(r.batch) < Len(head'[p])]_vars

(* Once failures cease and turns are redelivered, every peer has again and  *)
(* again reached every turn signed so far, however far behind it fell,      *)
(* whatever it lost and whatever it refused as too far ahead.              *)
CatchUp ==
  \A p \in Seats : []<>(\A b \in signed : Turn(b) < Len(head[p]))

(* The journals of a match implement one log: it is the longest signed     *)
(* history, and a peer's part of it is its durable accepted turns.         *)
SignedLog ==
  IF signed = {} THEN <<>>
  ELSE After(CHOOSE b \in signed : \A c \in signed : Turn(c) <= Turn(b))

DurableTurns == [p \in Seats |-> Cardinality({r \in stable[p] : r.kind = "a"})]

Match == INSTANCE MatchLog WITH log <- SignedLog, applied <- DurableTurns
ImplementsMatchLog == Match!Spec
===============================================================================
