----------------------------- MODULE MatchSession -----------------------------
(***************************************************************************)
(* internal/session/controller.go: one match, from the agreed battlefield  *)
(* through the stakes to its last turn, as the Run loop of every seat's    *)
(* process drives it: prepareWorld, refresh, submit and receive.           *)
(*                                                                         *)
(* The two protocols it drives have modules of their own and appear here   *)
(* as their theorems let them.  WorldAgreement: no seat signs two worlds,  *)
(* so an approval is just the name of who approved.  TurnJournal: no two   *)
(* bodies are signed for a turn, and histories are prefixes of each other, *)
(* so a turn is its number and a history its length.                       *)
(*                                                                         *)
(* The bridge keeps what was published, hands each message to a running    *)
(* process once, in any order, and hands all of it to a new process.       *)
(***************************************************************************)
EXTENDS Naturals, FiniteSets

CONSTANTS
  Seats,
  MaxTurns,  \* bound: the turn that ends the match is the last of these
  Window,    \* turnbatch.MaxPendingTurns
  Active,    \* the seat whose turn it is
  Failures   \* which failures happen

Turns == 0..MaxTurns - 1

ASSUME SessionAssumption ==
  /\ MaxTurns \in Nat \ {0} /\ Window \in Nat
  /\ Active \in [Turns -> Seats]
  /\ Failures \subseteq {"stop", "send", "write"}

VARIABLES
  up,         \* the process runs
  approvals,  \* volatile: who approved the world, as far as heard
  opened,     \* volatile: the match is in c.matches
  funded,     \* volatile: liveMatch.funded
  pending,    \* volatile: the journal's buffered turns
  heard,      \* volatile: turns this process has been handed
  told,       \* volatile: approvals this process has been handed
  sent,       \* durable: the own approval was published
  reserved,   \* durable: the own turn at the head is reserved
  head,       \* durable: accepted turns
  worlds,     \* published approvals
  turns,      \* published turns
  staked      \* stakes verified on the chain

memory  == <<up, approvals, opened, funded, pending, heard, told>>
disk    == <<sent, reserved, head>>
outside == <<worlds, turns, staked>>
vars    == <<memory, disk, outside>>

TypeOK ==
  /\ up \in [Seats -> BOOLEAN] /\ approvals \in [Seats -> SUBSET Seats]
  /\ opened \in [Seats -> BOOLEAN] /\ funded \in [Seats -> BOOLEAN]
  /\ pending \in [Seats -> SUBSET Turns] /\ heard \in [Seats -> SUBSET Turns]
  /\ told \in [Seats -> SUBSET Seats]
  /\ sent \in [Seats -> BOOLEAN] /\ reserved \in [Seats -> BOOLEAN]
  /\ head \in [Seats -> 0..MaxTurns]
  /\ worlds \subseteq Seats /\ turns \subseteq Turns /\ staked \subseteq Seats

Init ==
  /\ up = [p \in Seats |-> FALSE] /\ approvals = [p \in Seats |-> {}]
  /\ opened = [p \in Seats |-> FALSE] /\ funded = [p \in Seats |-> FALSE]
  /\ pending = [p \in Seats |-> {}] /\ heard = [p \in Seats |-> {}]
  /\ told = [p \in Seats |-> {}]
  /\ sent = [p \in Seats |-> FALSE] /\ reserved = [p \in Seats |-> FALSE]
  /\ head = [p \in Seats |-> 0]
  /\ worlds = {} /\ turns = {} /\ staked = {}

-------------------------------------------------------------------------------
(* The process                                                             *)

Start(p) ==
  /\ ~up[p]
  /\ up' = [up EXCEPT ![p] = TRUE]
  /\ UNCHANGED <<approvals, opened, funded, pending, heard, told, disk, outside>>

Forget(p) ==
  /\ up' = [up EXCEPT ![p] = FALSE]
  /\ approvals' = [approvals EXCEPT ![p] = {}]
  /\ opened' = [opened EXCEPT ![p] = FALSE]
  /\ funded' = [funded EXCEPT ![p] = FALSE]
  /\ pending' = [pending EXCEPT ![p] = {}]
  /\ heard' = [heard EXCEPT ![p] = {}]
  /\ told' = [told EXCEPT ![p] = {}]

Stop(p) ==
  /\ "stop" \in Failures /\ up[p]
  /\ Forget(p)
  /\ UNCHANGED <<disk, outside>>

-------------------------------------------------------------------------------
(* turnbatch.Journal                                                       *)

(* Where the head gets to when turn head[p] is accepted: over the buffered *)
(* turns that follow it without a gap.                                     *)
Drained(p) ==
  CHOOSE n \in head[p] + 1 .. MaxTurns :
    /\ \A t \in head[p] + 1 .. n - 1 : t \in pending[p]
    /\ n \notin pending[p]

Advance(p) ==
  /\ head' = [head EXCEPT ![p] = Drained(p)]
  /\ pending' = [pending EXCEPT ![p] = {t \in @ : t >= Drained(p)}]
  /\ reserved' = [reserved EXCEPT ![p] = FALSE]

-------------------------------------------------------------------------------
(* The refresh tick                                                        *)

(* Mutant: the approvals of two seats are enough. *)
PrepareWithTwo(p) ==
  /\ up[p] /\ ~opened[p]
  /\ approvals' = [approvals EXCEPT ![p] = @ \cup {p}]
  /\ worlds' = worlds \cup {p}
  /\ sent' = [sent EXCEPT ![p] = TRUE]
  /\ opened' = [opened EXCEPT ![p] = Cardinality(approvals'[p]) >= 2]
  /\ UNCHANGED <<up, funded, heard, told, turns, staked, head, pending, reserved>>

(* prepareWorld: approve and publish once; open the match when everybody    *)
(* has approved.  Opening resumes a turn that was reserved but not yet     *)
(* accepted: it is accepted, and not sent.                                 *)
Prepare(p) ==
  /\ up[p] /\ ~opened[p]
  /\ approvals' = [approvals EXCEPT ![p] = @ \cup {p}]
  /\ worlds' = IF sent[p] THEN worlds ELSE worlds \cup {p}
  /\ sent' = [sent EXCEPT ![p] = TRUE]
  /\ opened' = [opened EXCEPT ![p] = approvals'[p] = Seats]
  /\ IF opened'[p] /\ reserved[p] /\ head[p] < MaxTurns
       THEN Advance(p) ELSE UNCHANGED <<head, pending, reserved>>
  /\ UNCHANGED <<up, funded, heard, told, turns, staked>>

(* Mutant: the own stake is enough. *)
NoteOwnStake(p) ==
  /\ opened[p] /\ ~funded[p]
  /\ p \in staked \/ head[p] = MaxTurns
  /\ funded' = [funded EXCEPT ![p] = TRUE]
  /\ UNCHANGED <<up, approvals, opened, pending, heard, told, disk, outside>>

(* An open match is played once every stake is verified, or already over. *)
NoteFunded(p) ==
  /\ opened[p] /\ ~funded[p]
  /\ staked = Seats \/ head[p] = MaxTurns
  /\ funded' = [funded EXCEPT ![p] = TRUE]
  /\ UNCHANGED <<up, approvals, opened, pending, heard, told, disk, outside>>

(* The player's fund action; the SDK deposits and the chain confirms. *)
Fund(p) ==
  /\ opened[p] /\ p \notin staked /\ head[p] < MaxTurns
  /\ staked' = staked \cup {p}
  /\ UNCHANGED <<memory, disk, worlds, turns>>

-------------------------------------------------------------------------------
(* submit: reserve and sign, accept into the own journal, send.            *)
MayPlay(p) ==
  /\ opened[p] /\ funded[p]
  /\ head[p] < MaxTurns /\ Active[head[p]] = p

Submit(p) ==
  /\ MayPlay(p)
  /\ Advance(p)
  /\ turns' = turns \cup {head[p]}
  /\ UNCHANGED <<up, approvals, opened, funded, heard, told, sent, worlds, staked>>

SubmitUnsent(p) ==
  /\ "send" \in Failures /\ MayPlay(p)
  /\ Advance(p)
  /\ UNCHANGED <<up, approvals, opened, funded, heard, told, sent, outside>>

(* Mutant: the turn is sent all the same. *)
SubmitSentUnaccepted(p) ==
  /\ "write" \in Failures /\ MayPlay(p)
  /\ reserved' = [reserved EXCEPT ![p] = TRUE]
  /\ turns' = turns \cup {head[p]}
  /\ UNCHANGED <<memory, sent, head, worlds, staked>>

(* The reservation was written, the accepted turn was not. *)
SubmitUnaccepted(p) ==
  /\ "write" \in Failures /\ MayPlay(p)
  /\ reserved' = [reserved EXCEPT ![p] = TRUE]
  /\ UNCHANGED <<memory, sent, head, outside>>

(* The process dies after the reservation or after the accepted turn.  It  *)
(* buffers nothing over the own turn that it could lose here.              *)
SubmitCrash(p) ==
  /\ "stop" \in Failures /\ MayPlay(p)
  /\ Forget(p)
  /\ \/ head' = [head EXCEPT ![p] = @ + 1] /\ reserved' = [reserved EXCEPT ![p] = FALSE]
     \/ head' = head /\ reserved' = [reserved EXCEPT ![p] = TRUE]
  /\ UNCHANGED <<sent, outside>>

-------------------------------------------------------------------------------
(* receive                                                                 *)

HearWorld(p, q) ==
  /\ up[p] /\ q # p /\ q \in worlds \ told[p]
  /\ told' = [told EXCEPT ![p] = @ \cup {q}]
  /\ approvals' = [approvals EXCEPT ![p] = @ \cup {q}]
  /\ UNCHANGED <<up, opened, funded, pending, heard, disk, outside>>

Handed(p, t) ==
  /\ up[p] /\ t \in turns \ heard[p] /\ Active[t] # p
  /\ heard' = [heard EXCEPT ![p] = @ \cup {t}]

(* Mutant: a turn that comes before the own check of the stakes is dropped. *)
DropUntilFunded(p, t) ==
  /\ Handed(p, t)
  /\ ~opened[p] \/ ~funded[p] \/ t < head[p] \/ t > head[p] + Window
  /\ UNCHANGED <<up, approvals, opened, funded, pending, told, disk, outside>>

(* "game message before world agreement", a turn it has, one too far ahead. *)
DropTurn(p, t) ==
  /\ Handed(p, t)
  /\ ~opened[p] \/ t < head[p] \/ t > head[p] + Window
  /\ UNCHANGED <<up, approvals, opened, funded, pending, told, disk, outside>>

BufferTurn(p, t) ==
  /\ Handed(p, t)
  /\ opened[p] /\ head[p] < t /\ t <= head[p] + Window
  /\ pending' = [pending EXCEPT ![p] = @ \cup {t}]
  /\ UNCHANGED <<up, approvals, opened, funded, told, disk, outside>>

AcceptTurn(p, t) ==
  /\ Handed(p, t)
  /\ opened[p] /\ t = head[p]
  /\ Advance(p)
  /\ UNCHANGED <<up, approvals, opened, funded, told, sent, outside>>

(* One of the records cannot be written: the turns before it are accepted. *)
AcceptTurnFails(p, t) ==
  /\ "write" \in Failures /\ Handed(p, t)
  /\ opened[p] /\ t = head[p]
  /\ \E n \in head[p] .. Drained(p) - 1 :
       /\ head' = [head EXCEPT ![p] = n]
       /\ pending' = [pending EXCEPT ![p] = {u \in @ : u >= n}]
  /\ UNCHANGED <<up, approvals, opened, funded, told, sent, reserved, outside>>

HearTurn(p, t) == DropTurn(p, t) \/ BufferTurn(p, t) \/ AcceptTurn(p, t)
Failure(p) ==
  \/ Stop(p) \/ SubmitUnsent(p) \/ SubmitUnaccepted(p) \/ SubmitCrash(p)
  \/ \E t \in turns : AcceptTurnFails(p, t)

Next ==
  \E p \in Seats :
    \/ Start(p) \/ Prepare(p) \/ NoteFunded(p) \/ Fund(p)
    \/ Submit(p)
    \/ \E q \in worlds : HearWorld(p, q)
    \/ \E t \in turns : HearTurn(p, t)
    \/ Failure(p)

Spec == Init /\ [][Next]_vars

(* A stopped game is started again and ticks, the players stake and play,   *)
(* the bridge hands over what it keeps, and failures cease.                *)
Fairness ==
  /\ <>[][\A p \in Seats : ~Failure(p)]_vars
  /\ \A p \in Seats :
       /\ WF_vars(Start(p)) /\ WF_vars(Prepare(p)) /\ WF_vars(NoteFunded(p))
       /\ WF_vars(Fund(p)) /\ WF_vars(Submit(p))
       /\ \A q \in Seats : WF_vars(HearWorld(p, q))
       /\ \A t \in Turns : WF_vars(HearTurn(p, t))

FairSpec == Spec /\ Fairness

-------------------------------------------------------------------------------
(* No turn is played, by anybody, before every seat has staked: receive     *)
(* takes turns without asking, so this rests on the signer's own check and *)
(* on the resumption of a reserved turn.                                   *)
NoPlayBeforeStakes ==
  \A p \in Seats : head[p] > 0 \/ reserved[p] => staked = Seats

(* No stake is asked for before every seat's approval is published, and     *)
(* after any restart too.                                                  *)
NoStakeBeforeAgreement == staked # {} => worlds = Seats

(* Nobody is ahead of a turn's author: a turn anybody holds or could still  *)
(* be handed is on its author's own disk.                                  *)
AuthorHasTurn ==
  \A p \in Seats, t \in Turns :
    t < head[p] \/ t \in pending[p] \cup turns => head[Active[t]] > t

(* Without failures the match is played to its end by everybody. *)
Finishes == <>(\A p \in Seats : head[p] = MaxTurns)

(* A turn that its author has made durable is published at last. *)
OwnTurnIsPublished ==
  \A t \in Turns : head[Active[t]] > t ~> t \in turns

(* A published turn reaches every seat's journal at last. *)
PublishedTurnArrives ==
  \A p \in Seats, t \in Turns : t \in turns ~> head[p] > t
===============================================================================
