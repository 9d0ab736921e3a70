----------------------------- MODULE DurableStore -----------------------------
(***************************************************************************)
(* internal/durable/store.go: one directory of immutable records, written  *)
(* by several goroutines at once.  Create publishes a record in five file  *)
(* system steps (write a temporary file, fsync it, link it under its key,  *)
(* compare on collision, fsync the directory), and the process or the      *)
(* machine may stop between any two of them.                               *)
(*                                                                         *)
(* A key is a hash and a value is a byte string in the code; here both are *)
(* members of small sets.  The size limit of a record is left out: every   *)
(* caller writes records of a few hundred bytes.                           *)
(***************************************************************************)
EXTENDS Naturals

CONSTANTS
  Callers,  \* goroutines that call Create on one Store
  Keys,     \* record keys
  Data,     \* record contents
  Torn      \* what a reader finds when the content of a file was not flushed

ASSUME TornAssumption == Torn \notin Data

VARIABLES
  dir,       \* directory entries a reader sees: [key, data, flushed]
  synced,    \* the entries that the last successful directory fsync covered
  anchored,  \* the directory's own entry in its ancestors is durable
  opened,    \* this process has a Store
  stage,     \* per caller: the next step of its call
  request,   \* per caller: the record it asks for
  file,      \* per caller: its temporary file
  created,   \* per caller: its link call succeeded
  promised,  \* history: records for which some call returned without error
  granted    \* history: per key, how many calls returned true

vars == <<dir, synced, anchored, opened, stage, request, file, created,
          promised, granted>>

Records == [key : Keys, data : Data]
Entries == [key : Keys, data : Data \cup {Torn}, flushed : BOOLEAN]
Stages  == {"idle", "write", "flush", "link", "compare", "sync"}
Files   == {"none", "dirty", "flushed"}

TypeOK ==
  /\ dir \subseteq Entries
  /\ synced \subseteq Entries
  /\ anchored \in BOOLEAN
  /\ opened \in BOOLEAN
  /\ stage \in [Callers -> Stages]
  /\ request \in [Callers -> Records]
  /\ file \in [Callers -> Files]
  /\ created \in [Callers -> BOOLEAN]
  /\ promised \subseteq Records
  /\ granted \in [Keys -> Nat]

Init ==
  /\ dir = {}
  /\ synced = {}
  /\ anchored = FALSE
  /\ opened = FALSE
  /\ stage = [c \in Callers |-> "idle"]
  /\ request \in [Callers -> Records]
  /\ file = [c \in Callers |-> "none"]
  /\ created = [c \in Callers |-> FALSE]
  /\ promised = {}
  /\ granted = [k \in Keys |-> 0]

Bound(k) == \E e \in dir : e.key = k

(* The record an entry shows to Get. *)
View(e) == [key |-> e.key, data |-> e.data]

-------------------------------------------------------------------------------
(* Open: create the directory and its ancestors, then fsync every ancestor. *)
Open ==
  /\ ~opened
  /\ opened' = TRUE
  /\ anchored' = TRUE
  /\ UNCHANGED <<dir, synced, stage, request, file, created, promised, granted>>

-------------------------------------------------------------------------------
(* Create, one step per system call.                                       *)

Begin(c, r) ==
  /\ opened
  /\ stage[c] = "idle"
  /\ stage' = [stage EXCEPT ![c] = "write"]
  /\ request' = [request EXCEPT ![c] = r]
  /\ file' = [file EXCEPT ![c] = "none"]
  /\ created' = [created EXCEPT ![c] = FALSE]
  /\ UNCHANGED <<dir, synced, anchored, opened, promised, granted>>

Write(c) ==
  /\ stage[c] = "write"
  /\ stage' = [stage EXCEPT ![c] = "flush"]
  /\ file' = [file EXCEPT ![c] = "dirty"]
  /\ UNCHANGED <<dir, synced, anchored, opened, request, created, promised, granted>>

Flush(c) ==
  /\ stage[c] = "flush"
  /\ stage' = [stage EXCEPT ![c] = "link"]
  /\ file' = [file EXCEPT ![c] = "flushed"]
  /\ UNCHANGED <<dir, synced, anchored, opened, request, created, promised, granted>>

(* Mutant: os.Rename in the place of os.Link. *)
LinkOverwrites(c) ==
  /\ stage[c] = "link"
  /\ stage' = [stage EXCEPT ![c] = "sync"]
  /\ created' = [created EXCEPT ![c] = ~Bound(request[c].key)]
  /\ dir' = {e \in dir : e.key # request[c].key}
            \cup {[key |-> request[c].key, data |-> request[c].data, flushed |-> TRUE]}
  /\ UNCHANGED <<synced, anchored, opened, request, file, promised, granted>>

(* os.Link never overwrites: on a bound key the call goes on to compare. *)
Link(c) ==
  /\ stage[c] = "link"
  /\ IF Bound(request[c].key)
       THEN /\ stage' = [stage EXCEPT ![c] = "compare"]
            /\ UNCHANGED <<dir, created>>
       ELSE /\ stage' = [stage EXCEPT ![c] = "sync"]
            /\ created' = [created EXCEPT ![c] = TRUE]
            /\ dir' = dir \cup {[key |-> request[c].key, data |-> request[c].data,
                                 flushed |-> file[c] = "flushed"]}
  /\ UNCHANGED <<synced, anchored, opened, request, file, promised, granted>>

(* The record already there must be this very record, or ErrConflict. *)
Compare(c) ==
  /\ stage[c] = "compare"
  /\ \E e \in dir :
       /\ e.key = request[c].key
       /\ stage' = [stage EXCEPT ![c] = IF View(e) = request[c] THEN "sync" ELSE "idle"]
  /\ UNCHANGED <<dir, synced, anchored, opened, request, file, created, promised, granted>>

(* Mutant: Create returns without the directory fsync. *)
SyncSkipped(c) ==
  /\ stage[c] = "sync"
  /\ stage' = [stage EXCEPT ![c] = "idle"]
  /\ promised' = promised \cup {request[c]}
  /\ granted' = IF created[c] THEN [granted EXCEPT ![request[c].key] = @ + 1] ELSE granted
  /\ UNCHANGED <<dir, synced, anchored, opened, request, file, created>>

(* The directory fsync makes every entry durable, and the call returns. *)
SyncDir(c) ==
  /\ stage[c] = "sync"
  /\ stage' = [stage EXCEPT ![c] = "idle"]
  /\ synced' = dir
  /\ promised' = promised \cup {request[c]}
  /\ granted' = IF created[c] THEN [granted EXCEPT ![request[c].key] = @ + 1] ELSE granted
  /\ UNCHANGED <<dir, anchored, opened, request, file, created>>

(* Any system call may fail: the call returns (false, error).  After a     *)
(* failed directory fsync the record stays linked: the outcome is unknown. *)
Fail(c) ==
  /\ stage[c] \in {"write", "flush", "link", "sync"}
  /\ stage' = [stage EXCEPT ![c] = "idle"]
  /\ UNCHANGED <<dir, synced, anchored, opened, request, file, created, promised, granted>>

-------------------------------------------------------------------------------
(* The process stops: calls in flight never return; the directory stays. *)
ProcessCrash ==
  /\ opened
  /\ opened' = FALSE
  /\ stage' = [c \in Callers |-> "idle"]
  /\ UNCHANGED <<dir, synced, anchored, request, file, created, promised, granted>>

(* After a power loss an entry whose file was not flushed is torn. *)
AfterLoss(e) == IF e.flushed THEN e ELSE [e EXCEPT !.data = Torn]

(* The machine stops: entries no fsync covered may or may not be there. *)
PowerLoss ==
  /\ opened
  /\ opened' = FALSE
  /\ stage' = [c \in Callers |-> "idle"]
  /\ \E S \in SUBSET dir :
       /\ IF anchored THEN synced \subseteq S ELSE S = {}
       /\ dir' = {AfterLoss(e) : e \in S}
       /\ synced' = dir'
  /\ UNCHANGED <<anchored, request, file, created, promised, granted>>

Step(c) ==
  \/ \E r \in Records : Begin(c, r)
  \/ Write(c) \/ Flush(c) \/ Link(c) \/ Compare(c) \/ SyncDir(c) \/ Fail(c)

Next ==
  \/ Open
  \/ \E c \in Callers : Step(c)
  \/ ProcessCrash
  \/ PowerLoss

Spec == Init /\ [][Next]_vars

-------------------------------------------------------------------------------
(* A record whose Create returned without error is in the directory of     *)
(* every later state, through process crashes and power losses: "a         *)
(* successful Put survives restart".                                       *)
AcknowledgedSurvives ==
  \A r \in promised : \E e \in dir : View(e) = r

(* Nobody ever reads a half-written record, even after a power loss:       *)
(* linking publishes a fully written inode.                                *)
NoTornRecord ==
  \A e \in dir : e.data # Torn

(* At most one call ever returns true for a key, however many goroutines   *)
(* race, whichever of their calls fail half way and however often the      *)
(* machine restarts: true is the permission for an external side effect.   *)
FirstIsUnique ==
  \A k \in Keys : granted[k] <= 1

(* Create as a whole implements the promise of the package: the steps of   *)
(* racing and crashing callers are steps of WriteOnce, whose records are   *)
(* the entries of the directory.                                           *)
Promises == INSTANCE WriteOnce WITH record <- {View(e) : e \in dir}
ImplementsWriteOnce == Promises!Spec
===============================================================================
