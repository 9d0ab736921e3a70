# A TLA+ model of Stakewars

Stakewars is a turn-based artillery game for two to a few players who may put a
Decred stake on it. There is no game server. A player simulates the own turn,
signs it when it is over, and publishes it once through Bison Relay (BR); the
other players replay it. This directory holds TLA+ modules of the parts on which
that rests, the TLC runs that check them on small instances, and proofs of what
matters most for every size, checked by TLAPS.

Paths below are relative to `src/`.

## The system

```
 cmd/stakewars  window: local simulation, replay of remote turns
      |  Submit / AcceptedTurn
 internal/session  Controller: Run loop, table records, worlds, stakes, jobs
      |                         |                        |
 internal/turnbatch        internal/durable         SDK runtime, dcrpulse bridge
 signed turns, Journal ->  immutable records        (BR messages, chain, escrow)
      |
 pkg/sim, pkg/replay  deterministic simulation and its hash
```

| Part | State it keeps | Operations | Where it is hard |
|---|---|---|---|
| `internal/durable` | one file per key, never changed | `Open`, `Get`, `Put`, `Create` | goroutines race on a key; the process or the machine stops between two system calls; a failing directory fsync after a successful link |
| `internal/turnbatch` | journal: head state, buffered future turns, records of reserved and accepted turns | `OpenJournal`, `SignedTurn`, `ResumeSignedTurn`, `Receive`, `AcceptedTurn` | messages lost, repeated, reordered; a crash between reserving, signing and accepting; the window of pending turns; a deleted directory |
| `internal/session`, world agreement | reserved world, "sent" record, approvals in memory | `prepareWorld`, `handleWorld`, `refresh`'s copy of the table records | reorganised seating block, conflicting signatures, restarts, an approval before the roster is known |
| `internal/session`, controller | open matches, stakes seen, jobs, receipts | `Run`, `refresh`, `submit`, `receive`, `action`, `settleFinished`, `noteSettled`, `WillCoSign` | three protocols on one loop beside background jobs; every step may be the last one before a restart |
| `cmd/stakewars` turn loop | local simulation, `submitted`, replay position | `network.go` | a full queue, an own turn that comes back, a head that moves during replay, a session that is replaced under the window |
| `cmd/stakewars` frames | open screen, menus, charge of the shot | `main.go`, `charge.go` | each screen decides for itself whether the own turn's clock runs on |
| `cmd/stakewars` connection | attempts of `connectBridge`, each with a goroutine and a context | `settings.go`, `internal/session/profile_wait.go` | cancelled goroutines report late; two windows, one profile |
| `cmd/stakewars` settings | form, clipboard, key bindings, two files | `settings.go`, `controls.go`, `internal/bridgeconn/config.go` | a clipboard that answers late, a stop during a save |
| `pkg/sim` | the world of one match | `Step`, turn order, weapons, objects, rope, terrain | simultaneous deaths, chain explosions, fixed-point limits; all peers must agree bit for bit |
| `pkg/replay` | - | canonical hash of a state | two states with one hash |
| `internal/protocolcheck` | votes of a skip round | `skip.go` | a late answer races the close of the round |
| `internal/funding` | one intent per payment | `intent.go` | crash between intent and payment |
| `internal/payout`, `internal/seating` | - | shares of a pot, seats from a block hash | rounding, ranges |
| `internal/tablelobby` | rows shown for tables | `Stage` | phases read from several clocks |
| `internal/bridgeconn` | configuration file; a lobby without callers | load, save, connect, retry | a stop during a save |
| `research/settlement/takegame`, `research/turntrace` | chain output with a dispute; committed turn | spend, bisect | time locks, certificates, an opponent who may do anything |
| `pkg/render`, `pkg/sound`, `internal/logging`, `internal/appconfig`, tools, offline programs | presentation, files | - | not part of the protocol |

How they interact: the Run loop is the only goroutine that touches the matches;
the window calls it through `Submit`, BR messages reach it through an inbox of 256
entries, and jobs report back on a channel. The journal has a mutex of its own,
because the window reads it directly. All durable state goes through
`durable.Store`. Peers share nothing but published messages and the chain.

What makes each part correct, in a sentence: the store never loses an
acknowledged record, tears one or tells two callers they were first; journals of
one match never fork and never show what a restart would take back; a seat signs
one world and a match opens only in the world everyone is bound to; nobody stakes
before that and nobody plays before every stake; the match reaches its end for
everybody; the simulation is the same function everywhere; a pot is paid once and
in full.

## The modules

| Module | Models |
|---|---|
| `WriteOnce` | abstract: what package `durable` promises, one immutable record per key |
| `DurableStore` | `store.go`, one action per system call, several goroutines, crashes |
| `MatchLog` | abstract: one log of moves per match, of which each peer has a prefix |
| `TurnJournal` | `batch.go`, `journal.go`: the journals of all peers and the network between them |
| `WorldAgreement` | `prepareWorld`, `handleWorld`, the record copies of `refresh` and `Run` |
| `MatchSession` | `Run`, `refresh`, `submit`, `receive` for one match, on top of the two protocols |
| `SimTurn` | `sim.Step`: the phases of a turn, the order of turns, the end of the match |
| `Settlement` | jobs, `settleFinished`, `noteSettled`, `close`, `WillCoSign`: the money of one match |
| `Connection` | `connectBridge`, `pollSettings`, `stopBridge`, the wait for the profile |
| `Window` | `network.go` against the session: the turns the window plays and shows |
| `Frame` | one call of `Update`: screens, the countdown, the charge |
| `TableLobby` | `Stage` and the payment phases: what the room of a table allows |
| `Settings` | the form, its clipboard, the keys, and the two files they leave |
| `Objects` | `moveProjectiles`, `explode`, `moveObjects`: chains of explosions |
| `Ground` | mask, walk and fall, drill, girder, teleport, and the repainted picture |
| `SkipRound` | `protocolcheck/skip.go`: the vote on an absent player |
| `TakeGame` | the scripts of `research/settlement/takegame`, as spends of one output |
| `TurnTrace` | `research/turntrace`: the bisection of a disputed turn |
| `PaidMatch` | composition: `MatchSession` and `Settlement` in a row |
| `MCParts` | composition: the parts that share no state, for one run |
| other `MC*` | instances for TLC |
| `*_proofs`, `NaturalFacts` | theorems, and the arithmetic they share |

### DurableStore

`dir` is what a reader sees, `synced` what the last successful directory fsync
covered. `Begin`, `Write`, `Flush`, `Link`, `Compare`, `SyncDir` are the steps of
`Create` in order, `Fail` its error returns. `ProcessCrash` ends the calls in
flight. `PowerLoss` also takes any set of uncovered directory entries, and tears
the content of a file that was linked unflushed. `Put` is `Create` without its
Boolean; `Get` is the reading of `dir`. The limit on a record's size is left out,
as all callers write small records. The module implements `WriteOnce` with
`record` mapped to the visible entries.

### TurnJournal

A deterministic game lets a state be the history of moves that led to it, and its
hash the state itself. A batch names its seat, the history before it and one
move; `Turn` is the length of that history, and `HeadTurn` accounts for `sim` not
counting the turn that ends the match. `store` and `stable` are the directory
and the part of it a power loss cannot take, written by `Put` and `PutUnsure`
(linked, but the fsync failed). `Reserve`, `Sign` are `SignedTurn`, `Resume` is
`ResumeSignedTurn`; `Buffer`, `Begin`, `Accept`, `Reject`, `AcceptFail` are
`Receive`, whose drain loop is at `cursor`. An action ends where a record is
written or the call returns: the mutex hides the rest from other calls, a crash
can fall in between. Any signed batch can be delivered at any time, again or
never. A seat in `Faulty` may have its directory deleted (`Wipe`), and signs by itself any
move after any history, in its turn or out of it (`Forge`, at most `MaxForged` times).
`Authenticates` is what `Receive` asks of every batch, `Verifies` what it asks of the one
at the head: a forged batch may be buffered, and is found out there.

Abstracted: the byte encoding of a batch, its inputs (one move), and the signature
scheme (a valid signature is membership in `signed`, and names its seat).

### WorldAgreement

A world is a function of terms, roster and seating block, hence here the block.
`Approve` is the common part of every tick of `prepareWorld`: check the node's
block, reserve, sign, remember. It ends as `Prepare` (publish once, open when
unanimous), `PrepareHalts` (a conflict is known, or Send failed) or
`PrepareUnrecorded` (the process stopped, or the write failed, after Send). `Hear` is `handleWorld`,
`Refresh` and `Start` copy the table records. `Mine`, `Commit`, `Draw` stand for
the chain and the SDK, `SignAnother` for another player's program.

### MatchSession

Works with what the theorems of the two protocols leave of them: an approval is
the name of who approved (no sound seat signs two worlds), a turn is its number
and a history its length (histories are prefixes of each other). `Prepare`,
`NoteFunded` are parts of the tick, `Fund` the player's action together with the
chain's confirmation, `Submit` is `submit` with its error returns `SubmitUnsent`,
`SubmitUnaccepted` and its crashes `SubmitCrash`; `HearWorld`, `DropTurn`,
`BufferTurn`, `AcceptTurn`, `AcceptTurnFails` are `receive`. The bridge keeps what was published, hands
each message to a running process once in any order, and all of it again to a
new process. What follows the last turn is `Settlement`; `PaidMatch` puts both in a row.

### SimTurn

`s` is `sim.State` without positions, `Tick` one call of `Step`: the inputs, the
physics, the clock, in that order; `Wait` is a tick of the ready phase without
inputs. `Apply` is `apply` with `Fire`, `Retreat`, `NextTurn` and `Begin` named as
in the code. Five weapons stand for the kinds that differ in what they do to the turn.
The physics is left to chance: any Stakeys may die in any tick, and whether all is
at rest when a turn could end is a choice. Whether ammunition, unlock round,
target and terrain allow an input is a choice too: a refused input is a `Move`. Water is counted in rises; when `Rises` is
reached no place is above it, so everybody drowns. `order` and `uses` are histories
for the properties. With the built-in scheme (`seating/manifest.go`, from
`sim.DefaultConfig`) sudden death begins at turn 40 and the water rises 6 per turn.

### Settlement

`mem` is what a process forgets (the last view, the jobs begun, those running and
those that wait in the channel), `disk` its records, `net` the chain with the SDK's
signing round. `Refresh` is one tick, with its four ways out: no foreground table
(`TickAway`), a blank view after an error (`TickBlank`), a receipt (`TickReceipt`), and
`TickStakes`, which ends in `NoteSettled`, `SettleFinished` or a view. `Fund` and
`Close` are the player's actions, `Job` starts a goroutine, `JobEnds` is its end and
`JobDone` the loop reading the channel. `CoSign` is the bridge asking `WillCoSign`,
at any time. A job whose call went through before the process stopped had its effect
without a report; one that `Stop` takes with it had none. `Refund` is an owner who takes the
own stake back after its lock, as `docs/payment-model.md` describes it: it races the payout
for the same output, needs nobody's signature, and the game only sees that its stake is
gone. `OwnChecks` is what a tick may read of the own stake, `LeftEscrow` what is true of it.
After a refund the table may be given up (`Abort`), and no payout of it is proposed any more.

### Connection

One goroutine per attempt, at a program counter `pc`: wait for the previous one,
acquire the profile, dial, open, announce, serve, end. Each checks its context only
where the code does, so that a cancelled one may still report; the window reads one
update a frame (`Poll`). `OtherWindow` takes and releases the lock.

### Window

`game` is the window's `networkGame` with its simulation, `session` the session it is
connected to, `journal` the journal of the table. A frame is `LocalFrame`, `RemoteFrame` or
`IdleFrame`, each after `pollSession`; `refresh`, `submit` and `receive` are the session's
loop. A turn is a sequence of `TurnTicks` moves. `overtaken` remembers that a table came back while a turn of its own was
queued or reserved; see "Known exceptions".

### Frame

`Frame` is one call of `Update`: `Polled`, then `Screen` by the open screen, each
named as the method (`Settings`, `Lobby`, `Paused`, `Weapons`, `Local`, `Remote`, ...).
`View` is a change of the session's view between frames. `past` is a history: ticks
that the countdown stood still, a fire key held since an earlier shot, a turn that
changed under a charge.

### TableLobby

`Refreshed` derives the row of a table from the view as `pollSession` does, `Stage`,
`SeatStatus`, `Guidance` and `Closable` are the functions of `internal/tablelobby`. The
evidence changes in any direction, one item at a time.

### Settings

`form`, `keys` and `clip` are the screen and the goroutine that reads the clipboard;
`files` what is on disk. `Save` of the credentials writes a temporary file and renames
it, `Bind` writes the keys in place, and a `WindowStops` may come in
between.

### Objects and Ground

Two cuts through `pkg/sim` beside `SimTurn`. `Objects` reduces the field to a row of
columns and keeps the order of the slices: `moveProjectiles` and `MoveObjects` go through
them once, `Chain` makes the bounded passes at the end of a tick, of which each `GoOff` is a
step (`explodeField` and `StepField` are `explode` and that part of `Step`). A loop is a
recursive function of the number of its rounds, which is the form the proofs reason about. Objects have no identity; the history `chain` keeps what the last chain took
away, by places, and the places that went off, in order. `Ground` has points and one body of width one, keeps the sweep of
`moveWorm` in steps, the climb, the landing and its damage, and lets the velocity of
a tick be anything within the clamp. On the rope it is `swing` that moves a Stakey, with the
sweep of `rope.go` (`Tow`: as pulled; or up a small step while it is reeled along the ground;
or each axis by itself) and its apex; where the corners are and how much rope is out only
choose the pull, so a rope is there or not as the tick has it. Where a Stakey
stands, walking included, sets `top`, the history that falls are measured against. `Paint`, `Shade` and `Repainted` are
`pkg/render/scene.go`. The constants of both are scaled down, and named.

### The experiments

`SkipRound` is the round of one observer, who gets any valid or invalid message at any
tick; ticks are words that wrap, of `WordSize` values (2^64 in the code). `TakeGame` is one output and its spends; the sound player keeps what
`research/settlement/takegame/README.md` requires of a watcher. `TurnTrace` keeps the indexed tree
of the code, padding included; the liar commits to anything and opens any leaf. `Halves` is
the way of a node to the top, `Pow2` the doubling in `New`, both recursive functions;
`Narrow` puts one question to both players, and `Continue` is its loop.

### The compositions

`PaidMatch`: a seat's `Settlement` gets its "ended" when its journal in
`MatchSession` holds the last turn, and restarts hit the settlement only. `MCParts`
chooses a part at the start and leaves the variables of the others alone, in one of
their initial states; its states are the disjoint union of the parts' states, not their
product. So each of its behaviours is a behaviour of every part (`PartsAreThemselves`).

## The runs

| Run | Instance | Shows |
|---|---|---|
| `durable_store` | 2 goroutines, 2 keys, 2 contents; 115 thousand states | `AcknowledgedSurvives` and `ImplementsWriteOnce` |
| `journal_lagging` | 3 journals, one only following, 3 turns, window 1, no faulty seat, fair; 98 thousand states | `HeadIsDurable`, `NoFalseConflict`, `PendingBounded`, `CatchUp`, and `ImplementsMatchLog` |
| `journal_faulty` | 2 players, one deletes its directory and forges 2 batches, 2 turns, window 1; 0.55 million states | `OneBodyPerTurn`, `AcceptedIsSigned`, `HeadOnlyGrows` |
| `world_agreement` | 2 sound seats, 1 faulty, 2 blocks; 1.0 million states | `OneWorldPerSeat`, `OpenIsUnanimous` |
| `world_opens` | 2 seats, 2 blocks, table formed before the processes start, fair | `OpensEverywhere` |
| `match_session` | 2 players and a follower, 3 turns, window 1, all failures; 0.9 million states | `NoPlayBeforeStakes`, `NoStakeBeforeAgreement`, `AuthorHasTurn` |
| `match_settles` | 2 players, 3 turns, window 2, then their settlement with restarts and failing jobs and without refunds, fair; 57 thousand states | `SignsOnlyEnded`, `Finishes`, `MatchSettles` |
| `program_parts` | the parts of `MCParts`; 0.7 million states | one or two properties of each part, see below |
| `sim_turn` | 2 squads of 3, turns of 2 ticks, sudden death at turn 3, 2 rises, one injury death per tick, fair; 35 thousand states | `RotationIsFair`, `ChargeEndsWithTurn`, `OneAttackPerTurn`, `MatchEnds` |
| `turn_lost_at_restart` | 2 players, 2 turns, restarts, fair | a violation of `PublishedTurnArrives` |
| `turn_never_sent` | 2 players, 2 turns, failing sends, fair | a violation of `OwnTurnIsPublished` |
| `refund_reads_paid` | 2 seats, owners' refunds, nothing else fails | a violation of `ReceiptIsPayout` |

The properties of `program_parts`:

| Part, instance | Property | In a sentence |
|---|---|---|
| `Settlement`, 1 seat, every failure and refunds, two tables | `OneJobAtATime` | no deposit and no payout is begun while one of its kind runs |
| | `ConfirmedIsPaid` | no "confirmed" without a receipt, no receipt while the stake is in escrow, no table put away without either a receipt or a close |
| `Connection`, 2 configurations, 4 attempts | `SessionIsCurrent` | a late report of a cancelled attempt shows nothing |
| | `BusyIsAnswered` | whoever waits for a connection is answered |
| `Window`, 3 turns of 2 ticks, queue of 1 | `WindowShowsTheMatch` | what was shown is what the journal holds |
| `Frame`, 2 tables, full power after 2 frames | `CountdownRuns` | no menu stops the own turn's clock |
| | `ChargeIsOfThisTurn` | a shot is of one turn and one press |
| `TableLobby`, 2 seats | `EvidenceUnlocks` | no step of the room shown as done without evidence checked by this program |
| `TakeGame`, exits after 2 blocks | `ResumesTheLatest` | a stale exit never beats a newer certificate of the sound player, who is never skipped and gets the exact amount |
| `SkipRound`, rosters of 1 to 4, words of 16 values | `ViewDecides` | the order of messages decides nothing |
| `Objects`, up to 4 objects and one shot | `ChainsEnd` | a tick leaves nothing that should have gone off, and no object twice |
| `Settings`, 2 fields, 3 revisions | `SettingsAreAsChosen` | a late paste lands nowhere else; saved credentials load |
| `TurnTrace`, turns of 1 to 5 ticks | `HonestStepIsFound` | the bisection ends at a step only the honest player can prove |
| `Ground`, 5 by 5 points, 2 Stakeys, 1 change | `NobodyBuried` | no living Stakey inside of the earth, on foot, in the air or on the rope |
| | `PictureShowsGround` | the picture is what painting the whole ground would give |
| | `FallsAreReal` | damage is for the height fallen now |

Type invariants that a theorem proves (journal, world, session, turns, store) are
not checked again by a run, nor are `AcceptedAgree`, `HeadsAgree`, `NoTornRecord`,
`FirstIsUnique` and `TurnsAreBounded`, which are proved for every size. The comment before each property in its module says what it means for the code. Each property of a
passing run has a mutant, an operator kept next to the definition it changes and
named after the mistake (`PutUnsynced`, `ApproveUnreserved`, `NoteOwnStake`, ...),
under which TLC finds the property violated.

Bounds. Two callers and two keys give every collision of `Create`, since a third
caller meets the key as bound as the second does. Three turns are the fewest in
which a turn can be past, at the head, within the window and beyond it at once,
with a third journal because of two alternating players neither can be two turns
ahead of the other: the follower is refused a turn as too far ahead, forgets it, and
`CatchUp` asks that it gets there after all. Two forged batches of one seat are two bodies of
one turn, a turn out of order, or a turn on a history that never was, beside its genuine
ones. Two moves suffice for a fork, and `m2` in the last turn but
one ends a match early. Two blocks are one reorganisation; the two sound seats and
one faulty one are enough for the faulty one to tell them different things.
In `sim_turn`, three Stakeys are the fewest with which a pointer that counts over
the dead goes wrong, two ticks let a charge be placed and left to its fuse, and
five turns let a squad of three come round with one dead; `Scripts` gives
every input alone and the pairs that could undo each other, `MaxPhaseTick` stops
the clock of the last phase, which only the rule on fuses reads, and `MaxDeaths` bounds only
injuries: surrender and water kill whole squads in the same tick.
In `program_parts` each part is as small as its hazard allows. Four generations let three
goroutines of former attempts be alive beside the current one. A queue of one is full after one
turn, a journal of three turns lets the window be one and two turns behind. A roster
of four has an accused and three who may approve, refuse or be silent. Three objects in a row of four
columns chain in both directions, and one list of barrels lies against the order
of its places. Turns of 1 to 5 ticks give trees of 2, 4 and 8 leaves, with and without padding.
A field of 5 by 5 holds a cliff higher than the safe fall, a girder and a drill; the
one change of the ground is followed by every motion, and one more change multiplies
the masks without a case that the first did not have next to standing Stakeys.
`Settlement` has one seat there, as its records meet others only in the payout and in the
signatures; two seats are in `match_settles`, which leaves the refunds out (with them the
product of the two protocols is too large for an exhaustive run under fairness, and
`MatchSettles` says nothing once a stake is taken back; `SignsOnlyEnded` is proved with
them), and in `refund_reads_paid`.
`match_settles` has two players, whose turns are never ahead of each other; turns out
of order, and a follower, are in `match_session`.
`MaxTurns` and `Window` are the only bounds on the other counters; a match has few
turns because of `TurnsAreBounded`. The proofs remove all of
these bounds for what they cover.

`CHECK_DEADLOCK FALSE` appears where the system really stops: a finished match
without failures, a match whose turn was lost, and the parts of `program_parts` that
come to an end (a dispute, a closed window, a trace narrowed to its step).

### Fairness

* `TurnJournal!FairSpec`: a closed journal is opened again, `Receive`'s loop and
  `Sign` go on (they hold the mutex and wait for nothing), failures cease, and the
  turn at the head is delivered again until it is taken. The last is an
  assumption about the carrier, strong because the mutex may be held whenever
  the turn comes. Buffering needs none.
* `WorldAgreement!WorldFairness`: `refresh` runs every second, so a tick that
  stays possible goes through, and the bridge hands over what it keeps.
* `SimTurn!FairSpec`: the window ticks on, with or without inputs, and what is in
  flight comes down: past `ResolutionTicks` every fuse is set to one tick, and a
  body without rope or jet falls until it lands or leaves the world. Nothing is
  assumed of the players.
* `MatchSession!FairSpec`: a stopped game is started again and ticks, players
  stake and play, messages are handed over once per process, failures cease. It
  promises no second delivery to one process: that is the bridge's behaviour as
  `receive` and `controller.go:211-213` describe it.
* `Settlement!SettlementFairness`, in `match_settles` with the former: processes
  restart, the table is at last in the foreground (only that one is settled, and
  the player chooses), ticks go through, jobs end and are read, proposals are relayed, a
  bridge that may co-sign asks, and a payout that all signed is broadcast and mined.
  Failures cease: `Run` forgets a failed settlement (`controller.go:192`) so
  that the next tick begins it again, which is what `MatchSettles` rests on.

### What the violations mean

* `turn_lost_at_restart`. A process restarted in the middle of a match is handed
  the kept turns at once. Approvals live in memory only, so its match opens with
  the first tick after all approvals were handed over. A turn handed over before
  is dropped with "game message before world agreement" (`controller.go:740`) and
  never asked for. The comment at `controller.go:211-213` guards exactly this
  race for the roster, and `journal.go:120-121` speaks of a retransmission that
  nothing in the repository requests. A further restart may bring the turn back.
* `turn_never_sent`. `submit` makes the own turn durable before `Send`
  (`controller.go:725`). When `Send` fails, the error is returned; the turn is
  the author's past and `prepareWorld` resumes only reserved, unaccepted turns.
  So "Returned bytes can be resent unchanged after an uncertain transport result"
  (`journal.go:95`) has no caller that does it.
* `refund_reads_paid`. "Our own stake left escrow, so the payout confirmed. This is the
  only signal there is" (`controller.go:449-450`) is what a receipt rests on. But where a
  payout is refused, its owner may take a stake back after the lock
  (`docs/payment-model.md:29-34`, `docs/br-gaming-wire-v2.md:353-355`,
  `docs/first-playable.md:118-123`): the stake then reads spent as well, and if the payout
  had been proposed, its identifier is recorded as confirmed although it is not in the
  chain. The window then says "Payout broadcast" of it for ever. What holds is
  `ConfirmedIsPaid`: a receipt means that the stake has left the escrow. Both rest on the
  SDK, which is not in the repository, to report a refunded stake as spent; the run takes
  for granted that it goes on listing the table.

One more is recorded as a hazard without a run of its own: `OpensEverywhere`
fails under `FairWorldSpec`, where a table may form while the process runs. An
approval that comes before the tick that copies the committed roster is refused
(`rules.go:119`), and the same process is not handed it again.

### Known exceptions

What the runs showed of the code without a line of documentation that says otherwise,
written into the properties where they bite:

* `WindowShowsTheMatch` excepts a table that comes back (another table was in
  between, or the program was restarted) while a turn of its own is still in the queue or
  reserved. The window starts from the head (`network.go:172`) and lets the player
  take the turn again; the journal keeps the first one, so that player has seen
  something that is not the match. `overtaken` marks exactly this.
* `ChargeIsOfThisTurn` excepts a table the player asked for that comes up while fire is
  held: `pollSession` takes the screen to it and leaves the charge, which may go off in a
  later turn. `crossed` marks a charge that left the arena this way.
* A disconnection drops the turns in the session's queue, but the window keeps
  `submitted` (`settings.go:61`) and waits for a turn nobody has. It is recorded as a hazard.
* The keys are written in place by `os.WriteFile` (`controls.go:104`): a stop in between
  leaves a file with which the next start ends in an error. `SavedSettingsLoad` therefore
  speaks of the credentials, which are renamed into place.

## The proofs

| Module | Theorems |
|---|---|
| `DurableStore_proofs` | `Survival`, `Wholeness`, `FirstOnce`, and `Implements`: every behaviour of `DurableStore` is one of `WriteOnce` |
| `TurnJournal_proofs` | `TypeCorrect`, `OneBody`, `Authentic`, `Agreement`, `HeadAgreement`, `Durability`, `NoFalseAlarm`, `MemoryIsBounded`; the action property `HeadsOnlyGrow`; and `JournalsKeepOneLog`: with no faulty seat, every behaviour of `TurnJournal` is one of `MatchLog` |
| `WorldAgreement_proofs` | `WorldTypeCorrect`, `SingleWorld`, `Unanimity` |
| `MatchSession_proofs` | `SessionTypeCorrect`, `StakesComeFirst`, `AgreementComesFirst`, `AuthorFirst`; and `SignaturesFollowPlay` of `PaidMatch` |
| `Settlement_proofs` | `SettlementTypes`, `OneJob`, `SignaturesFollowTheEnd`, `ReceiptsArePaid` |
| `SimTurn_proofs` | `TypeCorrect`, `ChargeEnds`, `OneAttack`, `TurnsBounded`, `TurnsRotate` |
| `Parts_proofs` | `Connection`: `SessionStaysCurrent`, `WaitingIsAnswered`. `Window`: `WindowIsFaithful`. `Frame`: `CountdownAlwaysRuns`, `ChargesStayInTheirTurn`. `TableLobby`: `EvidenceAlwaysUnlocks`. `TakeGame`: `DisputesResume`. `SkipRound`: `RoundsDecideAlike`. `Settings`: `ChoicesSurvive`. `Ground`: `GroundIsTyped`, `NobodyIsEverBuried`, `PictureAlwaysShowsGround`, `FallsAreAlwaysReal`. `TurnTrace`: `TraceIsTyped`, `OpeningIsBound`, `BisectionIsSound`. `Objects`: `ObjectsAreTyped`, `ChainsAlwaysEnd`. `MCParts`: `PartsAreThemselves`, `PartsAreTyped`, `PartsKeepTheirPromises` |
| `NaturalFacts` | lemmas only: least numbers, counting round a table, induction, recursive functions and loops |

They hold for every set of seats, callers, keys, blocks, moves and tables, every turn
order, window, queue, length of turn and of match, every timing of a vote and roster of
it, every number of connection attempts, of fields of a form and of changes to it, every
field, water level, map and target of `Ground` (the sizes of its body, steps and blasts
are the fixed, scaled ones), every recording, length and rival trace of a disputed turn,
every row of columns and number of objects and shots of `Objects` (with its scaled radii
and fuses), and every set of faulty seats and of failures.
The assumptions are the named ones on the constants (`TornAssumption`,
`ConstantsAssumption`, `WorldAssumption`, `SessionAssumption`, `PayAssumption`,
`SettlementAssumption`, `SimAssumption`, `ConnectionAssumption`, `WindowAssumption`,
`FrameAssumption`, `LobbyAssumption`, `TakeAssumption`, `SkipAssumption`,
`SettingsAssumption`, `GroundAssumption`, `TraceAssumption`, `ObjectsAssumption`), which TLC evaluates on its instances. `JournalsKeepOneLog` has one more, `Faulty = {}`: a seat that
loses its directory may sign two turns, and then there is no one log.

The arguments, each an inductive invariant:

* Store (`StoreInv`): only flushed files are linked, so a power loss takes whole
  entries; it takes none that an fsync covered, and every acknowledged record is
  covered. For uniqueness, `GrantsOnce` says that a caller which linked its entry
  is alone with its key until it returns or fails. `FirstIsUnique` alone is not
  inductive: it does not exclude two callers that both believe they linked.
* Journal (`IInv`): every head, and every history that a recorded turn is on, is chained,
  each move of it coming from a signed batch of the seat in turn, whatever else faulty seats
  have signed; a sound seat's signed body is held by a record no failure takes, and a directory has one record per kind and turn. So two chained
  histories cannot part: by least index at which they differ, both moves were
  signed by the seat in turn after the same history, hence from one record
  (`ChainsAgree`). Agreement of records and heads and the absence of false
  conflicts follow. None of it is inductive without `SignedIsReserved`. For the
  refinement the log is the longest signed history (`SignedLog`): a signature either is of a
  turn that was signed before, in the same body, or comes right after the longest one
  (`PlayStep`); what a peer makes durable is at most one turn more, and lies within the log
  (`ApplyStep`). `HeadOnlyGrows` across a stop and a restart needs that the records of a
  directory are one chain without a gap (`RecordsChain`), whatever a faulty seat has signed;
  then a replay, which stops only where a turn is missing, stops behind the last one.
* World (`WorldInv`): what is published is reserved, what is remembered was
  published; unanimity in memory therefore is unanimity of reservations, and
  reservations never change.
* Session (`SessionInv`): an open match means all approvals are published, a
  funded one that all stakes are there; a reserved turn at the head is the own
  one. `AuthorHasTurn` is carried through the drain loop by the fact that it ends
  at the first turn that is not buffered (`DrainedIsFirstGap`); a peer only
  buffers what was published, and an author publishes after recording.
* Settlement: a job that runs, or whose end waits in the channel, is marked as begun, and
  a mark is only taken back when the end is read; a signature is given by a seat that
  has seen the end; a payout has all signatures; and a receipt is written by a tick that
  saw the stake gone, which the payout or its owner's refund has taken (`SpentIsGone`), of
  which the one that is mined keeps the other out. `SignaturesFollowPlay` joins this with the journal: a seat's
  settlement has seen the end only if its head is there, and heads only grow.
* Turns (`SimInv`): while a turn is played its uses are its shots, so the lock on
  the weapon is a lock on the attack; a charge is in the air only while the turn of
  its weapon is played, with a fuse no longer than the clock; the water has
  risen once per turn of sudden death, so a turn that begins finds it below the
  highest place. `NextSeatIsLiving`, `NextUnitIsAlive`: the two loops of
  `nextTurn` find a living Stakey from wherever the pointers are. For `RotationIsFair`
  (`OrderInv`): whichever earlier turn one looks back to, a squad that lives has played
  since, or still lies ahead of the one in turn, round the table from the seat of that
  earlier turn (`SeatsInv`); the same holds of a squad's Stakeys and its pointer
  (`UnitsInv`). When a seat comes round again nothing lies ahead of it, so all have
  played. Deaths only take away who could be missed.
* Connection: the one goroutine whose context lives is that of the window's last
  generation; behind a report that no longer holds, a later one of the same attempt is
  queued. A report of another generation changes nothing.
* Window (`WindowInv`): unless it was overtaken, the window is `Within` the journal's
  turns (between two, in one that it replays, or in its own at the head) and then
  nothing of its own is queued or reserved; or it is `AheadBy` the one turn it has
  played, and the queue and the reservation hold nothing but that turn. In the second case no
  frame simulates anything: the head the window sees is behind it, and the journal has no turn
  to replay. The property is not inductive without what it says of the queue, the reservation and the
  batch under replay.
* Frame: two frames in a row without a step take two clicks that open a screen, and the
  mouse is not just pressed twice in a row. A match other than a charge's comes to the
  foreground with a table that is new there, and that takes the screen out of the arena.
* Lobby, dispute, vote: the row shown is derived from the last view alone; the output
  carries the latest certificate that the sound player held when it was spent, and is
  funded to the coin; the votes counted are those of the members who may vote, each once.
* Settings (`SettingsInv`): every change of the form and of its focus raises the revision,
  and a closed form has no field in focus. So a clipboard reader whose field and
  revision are still the form's was asked for just what the form shows, and any other
  is thrown away. The keys in use are fit, and the credentials on disk are missing or
  complete, since only a filled form is renamed into place.
* Ground (`GroundInv`): a living body is free of earth, its apex is not above its history
  `top`, and is at the feet while it is grounded; each step of the sweep keeps this
  (`Stands`), so that a landing costs no more than the fall. Each part of a tick reports a
  box around the points it changes; the hull of at most three of them, with a margin
  as wide as `Shade` looks, covers all points whose picture can change.
  The attempt to prove `FallsAreReal` for every field showed that `top` missed
  climbs within a tick: the run's field is too low for it to matter, TLC found a
  counterexample on a higher one, and `Pace` now records where it has stood.

* Induction: the library's theorems on it take an operator, which the provers cannot
  instantiate. `NaturalFacts` states it for a set of numbers instead (`Induction`, from
  `LeastNatural`, from the well-foundedness of the order), and from it that a recursive
  function with a body in a set exists (`RecursionIsDefined`, `LoopIsDefined`) and that what
  holds before a loop and is kept by each round holds at its end (`RoundsKeep`, `LoopKeeps`).
  `TurnTrace` and `Objects` write their loops as such functions.
* Trace (`TraceInv`): `OpeningIsBound` goes down the path of an opening that verifies: its
  top is the tree's, and a node that is the tree's has the tree's nodes below, so at the end the
  leaf is the tree's, with the state committed to. Therefore all that `Narrow` learns of the
  liar is what the liar committed to: the players agree at `lo`, differ at `hi`, and
  `(hi - lo - 1) * Pow2[rounds]` never exceeds what was between them at the start, which
  bounds the rounds.
* Objects (`ObjectsInv`): between ticks all objects are up. Within the chain (`Chained`) the
  places that went off are those of the explosives gone, each once; nothing up is in
  reach of one that went off, a charge in reach is about to; and whatever is down though it was up
  was reached by another. `GoOff` keeps this at every place and in any order. A pass
  that begins with an object hit ends with one more gone, so as many passes as there are
  objects leave none hit; this is why the bound of the loop in `moveObjects` is enough.
* Composition: `PartsSpec` implies the specification of every part, so the theorems of
  the parts are theorems of what `program_parts` explores.

Model-checked only: `CatchUp`, `OpensEverywhere`, `Finishes`, `MatchSettles`, `MatchEnds`, since
liveness under fairness is out of the prover's reach. Every invariant, action property
and refinement that a passing run checks is also a theorem.

## Not modelled

* The geometry of the rope (corners, lengths, tension): integer square roots over a field of
  a thousand points, which mean nothing over a field that TLC can enumerate. `Ground` has the
  sweep, and any pull. Map generation is one pure function of the seed.
* Fixed-point arithmetic and the random numbers: pure functions of 32 and 64 bit words.
  Every module takes their results as inputs, so none of its properties rests on them.
* Replay hashing, and the byte encodings of batches, worlds, checkpoints and scripts:
  taken as injective; signatures as unforgeable.
* `internal/funding`: `Begin` is one call of `Store.Create`, and nothing calls it to pay
  yet. That one attempt only is told to pay is `ImplementsWriteOnce`.
* `internal/payout`, `internal/seating`: tables and derivations without state.
* `bridgeconn.RunLobby`: has no caller outside of its tests.
* The SDK (escrow, table records, chain access) and the bridge are not part of the
  repository; they appear as the environment. The inbox of 256 messages overflowing
  is not modelled, as what follows is the SDK's reaction to a refused message.
* Drawing (but for the picture of the ground), sound, assets, logging, analysis
  tools and offline programs do not change the protocol's state.

## Plan

1. Done: the store, the journal, the world agreement, the session and the turns of the
   simulation, with proofs; the settlement and its composition with the session; the
   window, its frames, connection and settings; the table lobby; objects and ground;
   the three experiments.
2. Done: a theorem for every invariant and action property that a run checks, for both
   refinements, and for the composition of the parts.
3. Open: the rope's corners and the maps, once there is a way to model them on small
   fields; the hazards without a property; refunds beside a match that is still played.
