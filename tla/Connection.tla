------------------------------ MODULE Connection ------------------------------
(***************************************************************************)
(* cmd/stakewars/settings.go: the window's connection to its bridge.       *)
(*                                                                         *)
(* Every connection attempt is a goroutine with a context of its own, and  *)
(* a generation.  Anything that stops the bridge raises the generation and *)
(* cancels the context; the goroutine goes on to its next look at the      *)
(* context and may hold the player's profile until then.  What it reports  *)
(* goes through a channel that the window reads once a frame.              *)
(*                                                                         *)
(* External: the profile's lock files, which another window may hold, and  *)
(* the bridge, which answers or does not.                                  *)
(***************************************************************************)
EXTENDS Integers, Sequences

CONSTANTS
  Configs,         \* the credentials the player may enter
  MaxGenerations   \* bound: the window stops the bridge so many times

ASSUME ConnectionAssumption == MaxGenerations \in Nat

Generations == 1..MaxGenerations
Nobody == 0        \* no generation; the profile's lock is free
Other  == -1       \* another window holds the profile

VARIABLES
  win,       \* the window: generation, live context, session, busy, config
  pc,        \* by generation: where its goroutine is
  task,      \* by generation: the goroutine it waits for, its config
  updates,   \* the channel bridgeUpdates
  lock       \* who holds the profile

connectionVars == <<win, pc, task, updates, lock>>

PCs == {"none", "previous", "profile", "dialing", "opening", "announcing", "running", "ended"}
Updates == [generation : Generations, controller : Generations \cup {Nobody}, busy : BOOLEAN]

ConnectionTypeOK ==
  /\ win \in [generation : 0..MaxGenerations, live : Generations \cup {Nobody},
              session : Generations \cup {Nobody}, busy : BOOLEAN,
              config : Configs, last : Generations \cup {Nobody}]
  /\ pc \in [Generations -> PCs]
  /\ task \in [Generations -> [previous : Generations \cup {Nobody}, config : Configs]]
  /\ updates \in Seq(Updates)
  /\ lock \in Generations \cup {Nobody, Other}

ConnectionInit ==
  /\ \E c \in Configs :
       /\ win = [generation |-> 0, live |-> Nobody, session |-> Nobody, busy |-> FALSE,
                 config |-> c, last |-> Nobody]
       /\ task = [n \in Generations |-> [previous |-> Nobody, config |-> c]]
  /\ pc = [n \in Generations |-> "none"]
  /\ updates = <<>>
  /\ lock \in {Nobody, Other}

Cancelled(n) == n # win.live

-------------------------------------------------------------------------------
(* The window                                                              *)

(* Mutant: the attempt is cancelled but the window still waits for it. *)
StoppedBusy ==
  [win EXCEPT !.generation = @ + 1, !.live = Nobody, !.session = Nobody]

(* stopBridge *)
Stopped ==
  [win EXCEPT !.generation = @ + 1, !.live = Nobody, !.session = Nobody, !.busy = FALSE]

Disconnect ==
  /\ win.generation < MaxGenerations
  /\ win' = Stopped
  /\ UNCHANGED <<pc, task, updates, lock>>

(* editSetting, selectBridgeNetwork: other credentials, so no connection.   *)
Edit ==
  /\ win.generation < MaxGenerations
  /\ \E c \in Configs \ {win.config} : win' = [Stopped EXCEPT !.config = c]
  /\ UNCHANGED <<pc, task, updates, lock>>

(* connectBridge, from the button or the start of the program. *)
Connect ==
  /\ ~win.busy /\ win.generation < MaxGenerations
  /\ LET n == win.generation + 1
     IN  /\ win' = [Stopped EXCEPT !.live = n, !.busy = TRUE, !.last = n]
         /\ pc' = [pc EXCEPT ![n] = "previous"]
         /\ task' = [task EXCEPT ![n] = [previous |-> win.last, config |-> win.config]]
  /\ UNCHANGED <<updates, lock>>

(* Mutant: whatever is reported is believed. *)
PollAnything ==
  /\ updates # <<>>
  /\ win' = [win EXCEPT !.session = Head(updates).controller, !.busy = Head(updates).busy]
  /\ updates' = Tail(updates)
  /\ UNCHANGED <<pc, task, lock>>

(* pollSettings: the report of an older generation is dropped. *)
Poll ==
  /\ updates # <<>>
  /\ win' = IF Head(updates).generation = win.generation
              THEN [win EXCEPT !.session = Head(updates).controller, !.busy = Head(updates).busy]
              ELSE win
  /\ updates' = Tail(updates)
  /\ UNCHANGED <<pc, task, lock>>

-------------------------------------------------------------------------------
(* The goroutine of generation n                                           *)

Goes(n, where) == pc' = [pc EXCEPT ![n] = where]
Reports(n, c, b) ==
  updates' = Append(updates, [generation |-> n, controller |-> c, busy |-> b])

(* A report goes out, or the context is seen cancelled and nothing does. *)
ReportsUnlessCancelled(n, c, b) ==
  \/ Reports(n, c, b)
  \/ Cancelled(n) /\ UNCHANGED updates

(* The attempt before this one has ended; a cancelled attempt does not wait *)
(* and lets the next one pass while an older one may still run.             *)
AfterPrevious(n) ==
  /\ pc[n] = "previous"
  /\ \/ /\ task[n].previous \in {Nobody} \cup {m \in Generations : pc[m] = "ended"}
        /\ Goes(n, "profile")
     \/ Cancelled(n) /\ Goes(n, "ended")
  /\ UNCHANGED <<win, task, updates, lock>>

(* WaitForProfile probes the lock and lets it go again. *)
ProfileFree(n) ==
  /\ pc[n] = "profile" /\ lock = Nobody
  /\ \/ Goes(n, "dialing") /\ (UNCHANGED updates \/ Reports(n, Nobody, TRUE))
     \/ Cancelled(n) /\ Goes(n, "ended") /\ UNCHANGED updates
  /\ UNCHANGED <<win, task, lock>>

ProfileFails(n) ==
  /\ pc[n] = "profile" /\ Goes(n, "ended")
  /\ IF Cancelled(n) THEN UNCHANGED updates ELSE Reports(n, Nobody, FALSE)
  /\ UNCHANGED <<win, task, lock>>

Dialed(n) ==
  /\ pc[n] = "dialing" /\ Goes(n, "opening")
  /\ UNCHANGED <<win, task, updates, lock>>

(* session.Open fails: no bridge, or the profile is in use after all. *)
OpenFails(n) ==
  /\ pc[n] = "dialing" \/ (pc[n] = "opening" /\ lock # Nobody)
  /\ Goes(n, "ended") /\ ReportsUnlessCancelled(n, Nobody, FALSE)
  /\ UNCHANGED <<win, task, lock>>

Opened(n) ==
  /\ pc[n] = "opening" /\ lock = Nobody
  /\ lock' = n /\ Goes(n, "announcing")
  /\ UNCHANGED <<win, task, updates>>

Announce(n) ==
  /\ pc[n] = "announcing"
  /\ Goes(n, "running") /\ ReportsUnlessCancelled(n, n, FALSE)
  /\ UNCHANGED <<win, task, lock>>

(* Run returns when the context is cancelled or the bridge is gone. *)
Returns(n) ==
  /\ pc[n] = "running"
  /\ lock' = Nobody /\ Goes(n, "ended") /\ ReportsUnlessCancelled(n, Nobody, FALSE)
  /\ UNCHANGED <<win, task>>

OtherWindow ==
  /\ lock \in {Nobody, Other} /\ lock' = IF lock = Other THEN Nobody ELSE Other
  /\ UNCHANGED <<win, pc, task, updates>>

ConnectionNext ==
  \/ Disconnect \/ Edit \/ Connect \/ Poll \/ OtherWindow
  \/ \E n \in Generations :
       \/ AfterPrevious(n) \/ ProfileFree(n) \/ ProfileFails(n) \/ Dialed(n)
       \/ OpenFails(n) \/ Opened(n) \/ Announce(n) \/ Returns(n)

ConnectionSpec == ConnectionInit /\ [][ConnectionNext]_connectionVars

-------------------------------------------------------------------------------
Queued(n) == \E i \in DOMAIN updates : updates[i].generation = n

(* The window plays through the controller of its latest attempt, made with *)
(* the credentials on the screen, and that controller runs or its end is    *)
(* already reported: no late report of an older attempt brings back a       *)
(* session that was given up.                                              *)
SessionIsCurrent ==
  win.session # Nobody =>
    /\ win.session = win.live /\ task[win.session].config = win.config
    /\ pc[win.session] = "running" \/ Queued(win.session)

(* A window that waits for an answer, and offers no Connect button          *)
(* meanwhile, has an attempt under way that will give one.                  *)
BusyIsAnswered ==
  win.busy => /\ win.live # Nobody
              /\ pc[win.live] # "ended" \/ Queued(win.live)
===============================================================================
