-------------------------- MODULE DurableStore_proofs --------------------------
(***************************************************************************)
(* Proofs about Store.Create, for any number of goroutines, keys and       *)
(* contents: what it promises, and that it implements WriteOnce.           *)
(*                                                                         *)
(* The argument: a caller links only a flushed file, so a power loss takes *)
(* whole entries; it takes none that a directory fsync covered, and that   *)
(* is every entry some caller was told of.  A caller that linked its entry *)
(* is alone with its key until it returns or fails.                        *)
(***************************************************************************)
EXTENDS DurableStore, TLAPS

OneEntryPerKey  == \A e, f \in dir : e.key = f.key => e = f
EntriesFlushed  == \A e \in dir : e.flushed /\ e.data \in Data
SyncedIsVisible == synced \subseteq dir
OpenIsAnchored  == opened => anchored
ClosedIsIdle    == ~opened => \A c \in Callers : stage[c] = "idle"
LinksFlushed    == \A c \in Callers : stage[c] = "link" => file[c] = "flushed"
PromisedSynced  == \A r \in promised : \E e \in synced : View(e) = r
AboutToSync     == \A c \in Callers : stage[c] = "sync" => \E e \in dir : View(e) = request[c]
CreatedByLink   == \A c \in Callers : stage[c] \in {"write", "flush", "link", "compare"} => ~created[c]

(* A caller on its way to "you were first" for key k. *)
Candidate(c, k) == stage[c] = "sync" /\ created[c] /\ request[c].key = k

GrantedSynced == \A k \in Keys : granted[k] # 0 => \E e \in synced : e.key = k
GrantsOnce ==
  \A k \in Keys :
    /\ granted[k] \in {0, 1}
    /\ \A c \in Callers : Candidate(c, k) =>
         granted[k] = 0 /\ \A d \in Callers : Candidate(d, k) => d = c

StoreInv ==
  /\ TypeOK
  /\ OneEntryPerKey /\ EntriesFlushed /\ SyncedIsVisible
  /\ OpenIsAnchored /\ ClosedIsIdle
  /\ LinksFlushed /\ AboutToSync /\ CreatedByLink
  /\ PromisedSynced /\ GrantedSynced /\ GrantsOnce

-------------------------------------------------------------------------------
LEMMA StoreStart == Init => StoreInv
<1> SUFFICES ASSUME Init PROVE StoreInv
  OBVIOUS
<1>1. TypeOK
  BY DEF Init, TypeOK, Stages, Files
<1>2. GrantedSynced /\ GrantsOnce
  BY DEF Init, GrantedSynced, GrantsOnce, Candidate
<1> QED
  BY <1>1, <1>2 DEF Init, StoreInv, OneEntryPerKey, EntriesFlushed,
     SyncedIsVisible, OpenIsAnchored, ClosedIsIdle, LinksFlushed, AboutToSync,
     CreatedByLink, PromisedSynced

LEMMA StoreType ==
  ASSUME TypeOK, Next
  PROVE  TypeOK'
<1> USE DEF TypeOK
<1>1. CASE Open
  BY <1>1 DEF Open
<1>2. ASSUME NEW c \in Callers, NEW r \in Records, Begin(c, r) PROVE TypeOK'
  BY <1>2 DEF Begin, Stages, Files
<1>3. ASSUME NEW c \in Callers, Write(c) \/ Flush(c) PROVE TypeOK'
  BY <1>3 DEF Write, Flush, Stages, Files
<1>4. ASSUME NEW c \in Callers, Link(c) PROVE TypeOK'
  <2>1. stage' \in [Callers -> Stages] /\ created' \in [Callers -> BOOLEAN]
    BY <1>4 DEF Link, Stages
  <2>2. request[c].key \in Keys /\ request[c].data \in Data
    BY DEF Records
  <2> DEFINE f == file[c] = "flushed"
             new == [key |-> request[c].key, data |-> request[c].data, flushed |-> f]
  <2>3. dir' = dir \/ dir' = dir \cup {new}
    BY <1>4 DEF Link
  <2>4. f \in BOOLEAN
    OBVIOUS
  <2> HIDE DEF f
  <2>5. new \in Entries
    BY <2>2, <2>4 DEF Entries
  <2> HIDE DEF new
  <2>6. dir' \subseteq Entries
    BY <2>3, <2>5
  <2> QED
    BY <1>4, <2>1, <2>6 DEF Link
<1>5. ASSUME NEW c \in Callers, Compare(c) PROVE TypeOK'
  BY <1>5 DEF Compare, Stages
<1>6. ASSUME NEW c \in Callers, SyncDir(c) PROVE TypeOK'
  BY <1>6 DEF SyncDir, Stages, Records
<1>7. ASSUME NEW c \in Callers, Fail(c) PROVE TypeOK'
  BY <1>7 DEF Fail, Stages
<1>8. CASE ProcessCrash
  BY <1>8 DEF ProcessCrash, Stages
<1>9. CASE PowerLoss
  <2>1. dir' \subseteq Entries
    BY <1>9 DEF PowerLoss, AfterLoss, Entries
  <2> QED
    BY <1>9, <2>1 DEF PowerLoss, Stages
<1> QED
  BY <1>1, <1>2, <1>3, <1>4, <1>5, <1>6, <1>7, <1>8, <1>9 DEF Next, Step

(* A step of one caller that touches neither directory nor promises, and    *)
(* does not end in "sync".                                                 *)
LEMMA CallerKeeps ==
  ASSUME StoreInv, TypeOK', NEW c \in Callers, NEW s \in Stages \ {"sync"},
         opened, stage' = [stage EXCEPT ![c] = s],
         UNCHANGED <<dir, synced, anchored, opened, promised, granted>>,
         \A d \in Callers \ {c} : UNCHANGED <<request[d], file[d], created[d]>>,
         s = "link" => file'[c] = "flushed",
         s \in {"write", "flush", "link", "compare"} => ~created'[c]
  PROVE  StoreInv'
<1> USE DEF StoreInv, TypeOK
<1>1. /\ OneEntryPerKey' /\ EntriesFlushed' /\ SyncedIsVisible' /\ OpenIsAnchored'
      /\ ClosedIsIdle' /\ PromisedSynced' /\ GrantedSynced'
  BY DEF OneEntryPerKey, EntriesFlushed, SyncedIsVisible, OpenIsAnchored,
     ClosedIsIdle, PromisedSynced, GrantedSynced, View
<1>2. stage'[c] = s /\ \A d \in Callers \ {c} : stage'[d] = stage[d]
  OBVIOUS
<1>3. LinksFlushed' /\ CreatedByLink'
  BY <1>2 DEF LinksFlushed, CreatedByLink
<1>4. AboutToSync'
  BY <1>2 DEF AboutToSync, View
<1>5. \A d \in Callers, k \in Keys : Candidate(d, k)' => Candidate(d, k)
  BY <1>2 DEF Candidate
<1>6. GrantsOnce'
  BY <1>5 DEF GrantsOnce
<1> QED
  BY <1>1, <1>3, <1>4, <1>6

LEMMA LinkKeeps ==
  ASSUME StoreInv, TypeOK', NEW c \in Callers, Link(c)
  PROVE  StoreInv'
<1> USE DEF StoreInv, TypeOK
<1>0. opened
  BY DEF ClosedIsIdle, Link
<1>1. CASE Bound(request[c].key)
  BY <1>0, <1>1, CallerKeeps DEF Link, Stages, CreatedByLink
<1>2. CASE ~Bound(request[c].key)
  <2> DEFINE new == [key |-> request[c].key, data |-> request[c].data, flushed |-> TRUE]
  <2>1. /\ stage' = [stage EXCEPT ![c] = "sync"]
        /\ created' = [created EXCEPT ![c] = TRUE]
        /\ dir' = dir \cup {new}
        /\ UNCHANGED <<synced, anchored, opened, request, file, promised, granted>>
    BY <1>2 DEF Link, LinksFlushed
  <2>2. request[c] \in Records /\ View(new) = request[c]
    BY DEF View, Records
  <2> HIDE DEF new
  <2>3. new.key = request[c].key /\ new.flushed /\ new.data \in Data
    BY <2>2 DEF new, Records
  <2>4. \A e \in dir : e.key # new.key
    BY <1>2, <2>3 DEF Bound
  <2>5. OneEntryPerKey' /\ EntriesFlushed' /\ SyncedIsVisible'
    BY <2>1, <2>3, <2>4 DEF OneEntryPerKey, EntriesFlushed, SyncedIsVisible
  <2>6. OpenIsAnchored' /\ ClosedIsIdle' /\ PromisedSynced' /\ GrantedSynced'
    BY <1>0, <2>1 DEF OpenIsAnchored, ClosedIsIdle, PromisedSynced,
       GrantedSynced, View
  <2>7. stage'[c] = "sync" /\ \A d \in Callers \ {c} : stage'[d] = stage[d]
    BY <2>1
  <2>8. created'[c] /\ \A d \in Callers \ {c} : created'[d] = created[d]
    BY <2>1
  <2>9. LinksFlushed' /\ CreatedByLink'
    BY <2>1, <2>7, <2>8 DEF LinksFlushed, CreatedByLink
  <2>10. AboutToSync'
    BY <2>1, <2>2, <2>7 DEF AboutToSync, View
  <2>11. granted[new.key] = 0 /\ new.key \in Keys
    BY <2>2, <2>3, <2>4 DEF GrantedSynced, SyncedIsVisible, Records
  <2>12. \A d \in Callers : ~Candidate(d, new.key)
    BY <2>4 DEF Candidate, AboutToSync, View
  <2>13. \A d \in Callers \ {c}, k \in Keys : Candidate(d, k)' = Candidate(d, k)
    BY <2>1, <2>7, <2>8 DEF Candidate
  <2>14. \A k \in Keys : Candidate(c, k)' <=> k = new.key
    BY <2>1, <2>3, <2>7, <2>8 DEF Candidate
  <2>15. GrantsOnce'
    <3> SUFFICES ASSUME NEW k \in Keys
                 PROVE  /\ granted[k] \in {0, 1}
                        /\ \A d \in Callers : Candidate(d, k)' =>
                             /\ granted[k] = 0
                             /\ \A f \in Callers : Candidate(f, k)' => f = d
      BY <2>1 DEF GrantsOnce
    <3>1. CASE k = new.key
      BY <3>1, <2>11, <2>12, <2>13, <2>14
    <3>2. CASE k # new.key
      BY <3>2, <2>13, <2>14 DEF GrantsOnce
    <3> QED
      BY <3>1, <3>2
  <2> QED
    BY <2>5, <2>6, <2>9, <2>10, <2>15
<1> QED
  BY <1>1, <1>2

(* A colliding caller goes on to "sync", but not as a candidate. *)
LEMMA CompareKeeps ==
  ASSUME StoreInv, TypeOK', NEW c \in Callers, Compare(c)
  PROVE  StoreInv'
<1> USE DEF StoreInv, TypeOK
<1>0. opened /\ ~created[c]
  BY DEF ClosedIsIdle, CreatedByLink, Compare
<1>1. PICK e \in dir :
        stage' = [stage EXCEPT ![c] = IF View(e) = request[c] THEN "sync" ELSE "idle"]
  BY DEF Compare
<1>2. UNCHANGED <<dir, synced, anchored, opened, request, file, created, promised, granted>>
  BY DEF Compare
<1>3. CASE View(e) # request[c]
  BY <1>0, <1>1, <1>2, <1>3, CallerKeeps DEF Stages
<1>4. CASE View(e) = request[c]
  <2>1. stage'[c] = "sync" /\ \A d \in Callers \ {c} : stage'[d] = stage[d]
    BY <1>1, <1>4
  <2>2. /\ OneEntryPerKey' /\ EntriesFlushed' /\ SyncedIsVisible' /\ OpenIsAnchored'
        /\ ClosedIsIdle' /\ PromisedSynced' /\ GrantedSynced'
    BY <1>0, <1>2 DEF OneEntryPerKey, EntriesFlushed, SyncedIsVisible,
       OpenIsAnchored, ClosedIsIdle, PromisedSynced, GrantedSynced, View
  <2>3. LinksFlushed' /\ CreatedByLink'
    BY <1>2, <2>1 DEF LinksFlushed, CreatedByLink
  <2>4. AboutToSync'
    BY <1>2, <1>4, <2>1 DEF AboutToSync, View
  <2>5. \A d \in Callers, k \in Keys : Candidate(d, k)' => Candidate(d, k)
    BY <1>0, <1>2, <2>1 DEF Candidate
  <2>6. GrantsOnce'
    BY <1>2, <2>5 DEF GrantsOnce
  <2> QED
    BY <2>2, <2>3, <2>4, <2>6
<1> QED
  BY <1>3, <1>4

LEMMA SyncKeeps ==
  ASSUME StoreInv, TypeOK', NEW c \in Callers, SyncDir(c)
  PROVE  StoreInv'
<1> USE DEF StoreInv, TypeOK
<1>0. opened
  BY DEF ClosedIsIdle, SyncDir
<1>1. /\ stage[c] = "sync" /\ stage' = [stage EXCEPT ![c] = "idle"]
      /\ synced' = dir /\ promised' = promised \cup {request[c]}
      /\ UNCHANGED <<dir, anchored, opened, request, file, created>>
  BY DEF SyncDir
<1>2. PICK e \in dir : View(e) = request[c]
  BY <1>1 DEF AboutToSync
<1>3. /\ OneEntryPerKey' /\ EntriesFlushed' /\ SyncedIsVisible' /\ OpenIsAnchored'
      /\ ClosedIsIdle'
  BY <1>0, <1>1 DEF OneEntryPerKey, EntriesFlushed, SyncedIsVisible,
     OpenIsAnchored, ClosedIsIdle
<1>4. stage'[c] = "idle" /\ \A d \in Callers \ {c} : stage'[d] = stage[d]
  BY <1>1
<1>5. LinksFlushed' /\ CreatedByLink' /\ AboutToSync'
  BY <1>1, <1>4 DEF LinksFlushed, CreatedByLink, AboutToSync, View
<1>6. PromisedSynced'
  BY <1>1, <1>2 DEF PromisedSynced, SyncedIsVisible, View
<1>7. \A d \in Callers, k \in Keys : Candidate(d, k)' => d # c /\ Candidate(d, k)
  BY <1>1, <1>4 DEF Candidate
<1>8. CASE ~created[c]
  <2>1. granted' = granted
    BY <1>8 DEF SyncDir
  <2>2. GrantedSynced' /\ GrantsOnce'
    BY <1>1, <1>7, <2>1 DEF GrantedSynced, SyncedIsVisible, GrantsOnce
  <2> QED
    BY <1>3, <1>5, <1>6, <2>2
<1>9. CASE created[c]
  <2> DEFINE k0 == request[c].key
  <2>1. k0 \in Keys /\ Candidate(c, k0) /\ e.key = k0
    BY <1>1, <1>2, <1>9 DEF Candidate, Records, View
  <2>2. granted' = [granted EXCEPT ![k0] = @ + 1]
    BY <1>9 DEF SyncDir
  <2>3. granted[k0] = 0
    BY <2>1 DEF GrantsOnce
  <2> HIDE DEF k0
  <2>4. granted'[k0] = 1 /\ \A k \in Keys \ {k0} : granted'[k] = granted[k]
    BY <2>1, <2>2, <2>3
  <2>5. GrantedSynced'
    BY <1>1, <2>1, <2>4 DEF GrantedSynced, SyncedIsVisible
  <2>6. GrantsOnce'
    <3> SUFFICES ASSUME NEW k \in Keys
                 PROVE  /\ granted'[k] \in {0, 1}
                        /\ \A d \in Callers : Candidate(d, k)' =>
                             /\ granted'[k] = 0
                             /\ \A f \in Callers : Candidate(f, k)' => f = d
      BY DEF GrantsOnce
    <3>1. CASE k = k0
      BY <3>1, <1>7, <2>1, <2>4 DEF GrantsOnce
    <3>2. CASE k # k0
      BY <3>2, <1>7, <2>4 DEF GrantsOnce
    <3> QED
      BY <3>1, <3>2
  <2> QED
    BY <1>3, <1>5, <1>6, <2>5, <2>6
<1> QED
  BY <1>8, <1>9

(* What is left of the directory after a stop covers what was synced. *)
LEMMA StopKeeps ==
  ASSUME StoreInv, TypeOK', opened' = FALSE,
         stage' = [c \in Callers |-> "idle"],
         synced \subseteq synced', synced' \subseteq dir', dir' \subseteq dir,
         UNCHANGED <<anchored, request, file, created, promised, granted>>
  PROVE  StoreInv'
<1> USE DEF StoreInv
<1>1. OneEntryPerKey' /\ EntriesFlushed' /\ SyncedIsVisible'
  BY DEF OneEntryPerKey, EntriesFlushed, SyncedIsVisible
<1>2. OpenIsAnchored' /\ ClosedIsIdle' /\ LinksFlushed' /\ AboutToSync' /\ CreatedByLink'
  BY DEF OpenIsAnchored, ClosedIsIdle, LinksFlushed, AboutToSync, CreatedByLink
<1>3. PromisedSynced' /\ GrantedSynced'
  BY DEF PromisedSynced, GrantedSynced, View
<1>4. GrantsOnce'
  BY DEF GrantsOnce, Candidate
<1> QED
  BY <1>1, <1>2, <1>3, <1>4

(* No power loss takes a synced entry or tears one. *)
LEMMA LossIsClean ==
  ASSUME StoreInv, PowerLoss
  PROVE  synced \subseteq dir' /\ dir' \subseteq dir /\ synced' = dir'
<1>1. anchored
  BY DEF StoreInv, OpenIsAnchored, PowerLoss
<1>2. PICK S \in SUBSET dir :
        synced \subseteq S /\ dir' = {AfterLoss(e) : e \in S} /\ synced' = dir'
  BY <1>1 DEF PowerLoss
<1>3. \A e \in S : AfterLoss(e) = e
  BY DEF AfterLoss, StoreInv, EntriesFlushed
<1>4. dir' = S
  BY <1>2, <1>3
<1> QED
  BY <1>2, <1>4

LEMMA StoreStep ==
  ASSUME StoreInv, [Next]_vars
  PROVE  StoreInv'
<1>0. CASE UNCHANGED vars
  BY <1>0 DEF vars, StoreInv, TypeOK, OneEntryPerKey, EntriesFlushed,
     SyncedIsVisible, OpenIsAnchored, ClosedIsIdle, LinksFlushed, AboutToSync,
     CreatedByLink, PromisedSynced, GrantedSynced, GrantsOnce, Candidate, View
<1>1. CASE Next
  <2>0. TypeOK' /\ TypeOK
    BY <1>1, StoreType DEF StoreInv
  <2>1. CASE Open
    <3>1. UNCHANGED <<dir, synced, stage, request, file, created, promised, granted>>
          /\ ~opened /\ opened' /\ anchored'
      BY <2>1 DEF Open
    <3> QED
      BY <2>0, <3>1 DEF StoreInv, OneEntryPerKey, EntriesFlushed, SyncedIsVisible,
         OpenIsAnchored, ClosedIsIdle, LinksFlushed, AboutToSync, CreatedByLink,
         PromisedSynced, GrantedSynced, GrantsOnce, Candidate, View
  <2>2. ASSUME NEW c \in Callers, NEW r \in Records, Begin(c, r) PROVE StoreInv'
    BY <2>0, <2>2, CallerKeeps DEF Begin, Stages, TypeOK
  <2>3. ASSUME NEW c \in Callers, Write(c) PROVE StoreInv'
    <3>1. opened /\ ~created[c]
      BY <2>3 DEF StoreInv, ClosedIsIdle, CreatedByLink, Write
    <3> QED
      BY <2>0, <2>3, <3>1, CallerKeeps DEF Write, Stages, TypeOK
  <2>4. ASSUME NEW c \in Callers, Flush(c) PROVE StoreInv'
    <3>1. opened /\ ~created[c]
      BY <2>4 DEF StoreInv, ClosedIsIdle, CreatedByLink, Flush
    <3> QED
      BY <2>0, <2>4, <3>1, CallerKeeps DEF Flush, Stages, TypeOK
  <2>5. ASSUME NEW c \in Callers, Fail(c) PROVE StoreInv'
    <3>1. opened
      BY <2>5 DEF StoreInv, ClosedIsIdle, Fail
    <3> QED
      BY <2>0, <2>5, <3>1, CallerKeeps DEF Fail, Stages
  <2>6. ASSUME NEW c \in Callers, Link(c) \/ Compare(c) \/ SyncDir(c) PROVE StoreInv'
    BY <2>0, <2>6, LinkKeeps, CompareKeeps, SyncKeeps
  <2>7. CASE ProcessCrash
    BY <2>0, <2>7, StopKeeps DEF ProcessCrash, StoreInv, SyncedIsVisible
  <2>8. CASE PowerLoss
    BY <2>0, <2>8, LossIsClean, StopKeeps DEF PowerLoss
  <2> QED
    BY <1>1, <2>1, <2>2, <2>3, <2>4, <2>5, <2>6, <2>7, <2>8 DEF Next, Step
<1> QED
  BY <1>0, <1>1

(* StoreInv is an invariant of the store. *)
THEOREM StoreInvariance == Spec => []StoreInv
<1>1. StoreInv /\ [Next]_vars => StoreInv'
  BY StoreStep
<1> QED
  BY <1>1, StoreStart, PTL DEF Spec

(* store.go, Create: a record some caller was told of is in the directory   *)
(* of every later state.                                                   *)
THEOREM Survival == Spec => []AcknowledgedSurvives
<1>1. StoreInv => AcknowledgedSurvives
  BY DEF StoreInv, PromisedSynced, SyncedIsVisible, AcknowledgedSurvives
<1> QED
  BY <1>1, StoreInvariance, PTL

(* store.go, Create: nobody reads a half-written record. *)
THEOREM Wholeness == Spec => []NoTornRecord
<1>1. StoreInv => NoTornRecord
  BY TornAssumption DEF StoreInv, EntriesFlushed, NoTornRecord
<1> QED
  BY <1>1, StoreInvariance, PTL

(* store.go, Create: it answers true at most once per key, for ever. *)
THEOREM FirstOnce == Spec => []FirstIsUnique
<1>1. StoreInv => FirstIsUnique
  BY DEF StoreInv, GrantsOnce, FirstIsUnique
<1> QED
  BY <1>1, StoreInvariance, PTL

-------------------------------------------------------------------------------
(* The refinement: every step of Create, and every stop, is a step of       *)
(* WriteOnce or leaves its state alone.                                    *)

Seen == {View(e) : e \in dir}

LEMMA LinkImplements ==
  ASSUME StoreInv, NEW c \in Callers, Link(c)
  PROVE  [Promises!Next]_(Promises!vars)
<1>1. CASE Bound(request[c].key)
  BY <1>1 DEF Link, Promises!vars, View
<1>2. CASE ~Bound(request[c].key)
  <2> DEFINE new == [key |-> request[c].key, data |-> request[c].data,
                     flushed |-> file[c] = "flushed"]
  <2>0. dir' = dir \cup {new}
    BY <1>2 DEF Link
  <2>1. View(new) = request[c]
    BY DEF StoreInv, TypeOK, View, Records
  <2> HIDE DEF new
  <2>2. Seen' = Seen \cup {request[c]}
    BY <2>0, <2>1 DEF Seen, View
  <2>3. \A r \in Seen : r.key # request[c].key
    BY <1>2 DEF Seen, Bound, View
  <2>4. request[c] \in Promises!Records
    BY DEF StoreInv, TypeOK, Promises!Records, Records
  <2>5. Promises!Publish(request[c])
    BY <1>2, <2>2, <2>3 DEF Promises!Publish, Seen, Link
  <2> QED
    BY <2>4, <2>5 DEF Promises!Next
<1> QED
  BY <1>1, <1>2

LEMMA SyncImplements ==
  ASSUME StoreInv, NEW c \in Callers, SyncDir(c)
  PROVE  [Promises!Next]_(Promises!vars)
<1>1. request[c] \in Promises!Records /\ request[c].key \in Keys
  BY DEF StoreInv, TypeOK, Promises!Records, Records
<1>2. request[c] \in Seen /\ Seen' = Seen
  BY DEF StoreInv, AboutToSync, SyncDir, Seen, View
<1>3. CASE created[c]
  <2>1. granted[request[c].key] = 0
    BY <1>1, <1>3 DEF StoreInv, GrantsOnce, Candidate, SyncDir
  <2>2. granted' = [granted EXCEPT ![request[c].key] = 1]
    BY <1>1, <1>3, <2>1 DEF SyncDir, StoreInv, TypeOK
  <2>3. Promises!Grant(request[c])
    BY <1>2, <2>1, <2>2 DEF Promises!Grant, Seen, SyncDir
  <2> QED
    BY <1>1, <2>3 DEF Promises!Next
<1>4. CASE ~created[c]
  <2>1. Promises!Promise(request[c])
    BY <1>2, <1>4 DEF Promises!Promise, Seen, SyncDir
  <2> QED
    BY <1>1, <2>1 DEF Promises!Next
<1> QED
  BY <1>3, <1>4

LEMMA LossImplements ==
  ASSUME StoreInv, PowerLoss
  PROVE  [Promises!Next]_(Promises!vars)
<1>1. synced \subseteq dir' /\ dir' \subseteq dir
  BY LossIsClean
<1>2. Seen' \in SUBSET Seen /\ promised \subseteq Seen'
  BY <1>1 DEF StoreInv, PromisedSynced, Seen, View
<1>3. Promises!Lose(Seen')
  BY <1>2 DEF Promises!Lose, Seen, PowerLoss
<1> QED
  BY <1>2, <1>3 DEF Promises!Next, Seen

(* store.go: Create with its crashes implements the promise of the package. *)
THEOREM Implements == Spec => ImplementsWriteOnce
<1>1. Init => Promises!Init
  BY DEF Init, Promises!Init, View
<1>2. StoreInv /\ [Next]_vars => [Promises!Next]_(Promises!vars)
  <2> SUFFICES ASSUME StoreInv, [Next]_vars
               PROVE  [Promises!Next]_(Promises!vars)
    OBVIOUS
  <2>1. CASE UNCHANGED <<dir, promised, granted>>
    BY <2>1 DEF Promises!vars, View
  <2>2. ASSUME NEW c \in Callers, Link(c) PROVE [Promises!Next]_(Promises!vars)
    BY <2>2, LinkImplements
  <2>3. ASSUME NEW c \in Callers, SyncDir(c) PROVE [Promises!Next]_(Promises!vars)
    BY <2>3, SyncImplements
  <2>4. CASE PowerLoss
    BY <2>4, LossImplements
  <2> QED
    BY <2>1, <2>2, <2>3, <2>4 DEF Next, Step, vars, Open, Begin, Write, Flush,
       Compare, Fail, ProcessCrash
<1> QED
  BY <1>1, <1>2, StoreInvariance, PTL DEF Spec, ImplementsWriteOnce, Promises!Spec
===============================================================================
