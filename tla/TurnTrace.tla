------------------------------- MODULE TurnTrace -------------------------------
(***************************************************************************)
(* research/turntrace: two players commit to the states of a turn, tick by *)
(* tick, in an indexed Merkle tree, and a dispute is narrowed to one step  *)
(* of the simulation by openings of either tree.  One of the players tells *)
(* the truth; the other commits to anything and opens whatever it likes.   *)
(*                                                                         *)
(* Hashes are the terms they are taken of.  A state of the simulation is a *)
(* small number, so that traces part and meet again.                       *)
(***************************************************************************)
EXTENDS Integers, Sequences, FiniteSets

CONSTANTS
  Recordings,   \* [ticks, inputs], inputs a sequence of [tick, sequence]
  MaxTicks

VARIABLES
  claim,    \* the two traces
  dispute   \* what Narrow knows

traceVars == <<claim, dispute>>

States  == 0..2
Pending == "pending"

ASSUME TraceAssumption ==
  /\ MaxTicks \in Nat
  /\ \A r \in Recordings : r.ticks \in Nat /\ r.inputs \in Seq([tick : Nat, sequence : Nat])

-------------------------------------------------------------------------------
(* The trace of a recording                                                *)

(* Prefix: the inputs are ordered and within the recording. *)
Ordered(r) ==
  \A i \in DOMAIN r.inputs :
    /\ r.inputs[i].tick < r.ticks
    /\ i > 1 => \/ r.inputs[i - 1].tick < r.inputs[i].tick
                \/ /\ r.inputs[i - 1].tick = r.inputs[i].tick
                   /\ r.inputs[i - 1].sequence < r.inputs[i].sequence

(* sim.Step as far as it matters here: a function of state and inputs. *)
simStep(state, r, tick) ==
  (state + 1 + Cardinality({i \in DOMAIN r.inputs : r.inputs[i].tick = tick})) % 3

Prefix(r, ticks) ==
  LET state[n \in 0..ticks] == IF n = 0 THEN 0 ELSE simStep(state[n - 1], r, n - 1)
  IN  [n \in 1..ticks + 1 |-> state[n - 1]]

(* The recording and the length of the prefix go into the context. *)
ContextOf(r, ticks) == <<r.ticks, ticks, SelectSeq(r.inputs, LAMBDA x : x.tick < ticks)>>

-------------------------------------------------------------------------------
(* The tree                                                                *)

leaf(ctx, i, state)         == <<"leaf", ctx, i, state>>
padding(ctx, i)             == <<"padding", ctx, i>>
parent(a, b)                == <<"node", a, b>>
boundRoot(ctx, count, root) == <<"root", ctx, count, root>>

Pow2[d \in Nat] == IF d = 0 THEN 1 ELSE 2 * Pow2[d - 1]

(* n is doubled from 1 until it has room for all states. *)
Depth(count) == CHOOSE d \in 0..count : Pow2[d] >= count /\ \A e \in 0..d - 1 : Pow2[e] < count

(* Halves(n)[k]: n, halved k times. *)
Halves(n) ==
  LET half[k \in Nat] == IF k = 0 THEN n ELSE half[k - 1] \div 2
  IN  half

(* New: node 1 is the top, node n + i the leaf of state i. *)
Nodes(tr) ==
  LET n == Pow2[Depth(Len(tr.states))]
      node[i \in 1..2 * n - 1] ==
        IF i < n THEN parent(node[2 * i], node[2 * i + 1])
        ELSE IF i - n < Len(tr.states) THEN leaf(tr.context, i - n, tr.states[i - n + 1])
        ELSE padding(tr.context, i - n)
  IN  node

New(ctx, states) ==
  LET tr == [context |-> ctx, states |-> states]
  IN  [context |-> ctx, states |-> states, nodes |-> Nodes(tr),
       root |-> boundRoot(ctx, Len(states), Nodes(tr)[1])]

(* Open *)
Opening(tr, i) ==
  LET d == Depth(Len(tr.states))
      up(k) == Halves(Pow2[d] + i)[k - 1]
  IN  [index |-> i, state |-> tr.states[i + 1],
       siblings |-> [k \in 1..d |-> tr.nodes[IF up(k) % 2 = 0 THEN up(k) + 1 ELSE up(k) - 1]]]

(* Verify, from the leaf to the top. *)
Verify(tr, o) ==
  LET count == Len(tr.states)
      hash[k \in 0..Len(o.siblings)] ==
        IF k = 0 THEN leaf(tr.context, o.index, o.state)
        ELSE IF Halves(o.index)[k - 1] % 2 = 0 THEN parent(hash[k - 1], o.siblings[k])
        ELSE parent(o.siblings[k], hash[k - 1])
  IN  /\ count \in 2..MaxTicks + 1 /\ o.index < count
      /\ Len(o.siblings) = Depth(count)
      /\ boundRoot(tr.context, count, hash[Len(o.siblings)]) = tr.root

-------------------------------------------------------------------------------
(* The dispute                                                             *)

StateCount == Len(claim.a.states)

(* What the liar may open: any of its leaves, under any index, as any state.*)
Lies(i) ==
  LET honest == {Opening(claim.b, k) : k \in 0..StateCount - 1}
  IN  honest \cup {[o EXCEPT !.index = i] : o \in honest}
             \cup {[Opening(claim.b, i) EXCEPT !.state = x] : x \in States}

(* Mutant: any leaf of the tree will do. *)
AnyLeaf(tr, o, i) == Verify(tr, o)

(* pair: the leaf that was asked for, on a path to the committed root. *)
Authentic(tr, o, i) == o.index = i /\ Verify(tr, o)

TraceInit ==
  /\ \E r \in Recordings : Ordered(r) /\ \E ticks \in (1..r.ticks) \cap (1..MaxTicks) :
       \E other \in [1..ticks + 1 -> States] :
         claim = [recording |-> r, a |-> New(ContextOf(r, ticks), Prefix(r, ticks)),
                  b |-> New(ContextOf(r, ticks), other)]
  /\ dispute = [verdict |-> Pending, asked |-> "first", lo |-> 0, hi |-> StateCount - 1,
                low |-> 0, left |-> 0, right |-> 0, rounds |-> 0]

Continue(d) == IF d.hi - d.lo > 1 THEN [d EXCEPT !.asked = "middle"] ELSE [d EXCEPT !.verdict = "found"]

(* The index that Narrow asks both players to open. *)
Asked(d) ==
  CASE d.asked = "first"  -> d.lo
    [] d.asked = "last"   -> d.hi
    [] d.asked = "middle" -> d.lo + (d.hi - d.lo) \div 2

Answered(d, x, y) ==
  CASE d.asked = "first" ->
         IF x # y THEN [d EXCEPT !.verdict = "initial states disagree"]
         ELSE [d EXCEPT !.asked = "last", !.low = x]
    [] d.asked = "last" ->
         IF x = y THEN [d EXCEPT !.verdict = "final results agree"]
         ELSE Continue([d EXCEPT !.left = x, !.right = y])
    [] d.asked = "middle" ->
         Continue(IF x = y THEN [d EXCEPT !.rounds = @ + 1, !.lo = Asked(d), !.low = x]
              ELSE [d EXCEPT !.rounds = @ + 1, !.hi = Asked(d), !.left = x, !.right = y])

Narrow ==
  /\ dispute.verdict = Pending
  /\ LET i == Asked(dispute)
         x == Opening(claim.a, i)
     IN  \E y \in Lies(i) :
           dispute' = IF Authentic(claim.a, x, i) /\ Authentic(claim.b, y, i)
                        THEN Answered(dispute, x.state, y.state)
                        ELSE [dispute EXCEPT !.verdict = "invalid opening"]
  /\ UNCHANGED claim

TraceSpec == TraceInit /\ [][Narrow]_traceVars

TraceTypeOK ==
  /\ dispute.lo \in 0..StateCount - 1 /\ dispute.hi \in 0..StateCount - 1
  /\ dispute.low \in States /\ dispute.left \in States /\ dispute.right \in States

(* Whatever the liar commits to and opens, the step that is found is one    *)
(* that the honest player computed from a state both committed to, the     *)
(* liar is bound to another result of it, and no more rounds were needed    *)
(* than the length of the turn has binary digits.                          *)
HonestStepIsFound ==
  dispute.verdict = "found" =>
    /\ dispute.hi = dispute.lo + 1
    /\ dispute.low = claim.a.states[dispute.lo + 1]
    /\ dispute.low = claim.b.states[dispute.lo + 1]
    /\ dispute.left = simStep(dispute.low, claim.recording, dispute.lo)
    /\ dispute.right = claim.b.states[dispute.hi + 1] /\ dispute.right # dispute.left
    /\ dispute.rounds > 0 => Pow2[dispute.rounds - 1] < StateCount - 1
===============================================================================
