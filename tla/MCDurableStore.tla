---- MODULE MCDurableStore ----
(* Two goroutines, two keys and two contents: every collision of Create. *)
EXTENDS DurableStore

CONSTANTS c1, c2, k1, k2, d1, d2

MCCallers == {c1, c2}
MCKeys == {k1, k2}
MCData == {d1, d2}
====
