------------------------------ MODULE WriteOnce ------------------------------
(***************************************************************************)
(* What package durable promises its callers, whoever they are and however *)
(* the machine fails: an immutable record per key.  Every journal of the   *)
(* program rests on these four steps.                                      *)
(*                                                                         *)
(*   record    the records a reader may see now                            *)
(*   promised  the records some caller was told are durable                *)
(*   granted   per key: how many callers were told "you were first", the   *)
(*             permission to perform an external side effect               *)
(***************************************************************************)
EXTENDS Naturals

CONSTANTS Keys, Data

VARIABLES record, promised, granted

vars == <<record, promised, granted>>

Records == [key : Keys, data : Data]

Init ==
  /\ record = {}
  /\ promised = {}
  /\ granted = [k \in Keys |-> 0]

(* A record appears whole, under a key that had none. *)
Publish(r) ==
  /\ \A s \in record : s.key # r.key
  /\ record' = record \cup {r}
  /\ UNCHANGED <<promised, granted>>

(* A visible record is promised to one more caller, who was not first. *)
Promise(r) ==
  /\ r \in record
  /\ promised' = promised \cup {r}
  /\ UNCHANGED <<record, granted>>

(* One caller, and only one for ever, learns that it was first. *)
Grant(r) ==
  /\ r \in record
  /\ granted[r.key] = 0
  /\ promised' = promised \cup {r}
  /\ granted' = [granted EXCEPT ![r.key] = 1]
  /\ UNCHANGED record

(* A failure may take away records nobody was promised, nothing else. *)
Lose(S) ==
  /\ promised \subseteq S
  /\ record' = S
  /\ UNCHANGED <<promised, granted>>

Next ==
  \/ \E r \in Records : Publish(r) \/ Promise(r) \/ Grant(r)
  \/ \E S \in SUBSET record : Lose(S)

Spec == Init /\ [][Next]_vars
==============================================================================
