----------------------------- MODULE PhaseLadder -----------------------------
(***************************************************************************)
(* What the phases of a HotStuff view promise, whatever carries the votes.  *)
(* A block (with its view) climbs a ladder of phases: 2f + 1 ballots of one *)
(* phase certify it there, only a certified block gets ballots in the next  *)
(* phase, and only a block certified in the last phase is decided.          *)
(***************************************************************************)
EXTENDS Naturals, FiniteSets

CONSTANTS Node, Threshold, Phases

VARIABLES
  ballots,   \* ballots[p]: the ballots cast in phase p, by node and block
  decided    \* decided[n]: the blocks node n has reported

vars == <<ballots, decided>>

Init ==
  /\ ballots = [p \in 1 .. Phases |-> {}]
  /\ decided = [n \in Node |-> {}]

Certified(p, b) ==
  Cardinality({n \in Node : [node |-> n, block |-> b] \in ballots[p]}) >= Threshold

Vote(n, p, b) ==
  /\ p > 1 => Certified(p - 1, b)
  /\ ballots' = [ballots EXCEPT ![p] = @ \cup {[node |-> n, block |-> b]}]
  /\ UNCHANGED decided

Decide(n, b) ==
  /\ Certified(Phases, b)
  /\ decided' = [decided EXCEPT ![n] = @ \cup {b}]
  /\ UNCHANGED ballots

\* The block is whatever block the step adds: no set of blocks is fixed.
Next ==
  \/ \E p \in 1 .. Phases : \E cast \in ballots'[p] \ ballots[p] :
       cast.node \in Node /\ Vote(cast.node, p, cast.block)
  \/ \E n \in Node : \E b \in decided'[n] \ decided[n] : Decide(n, b)

Spec == Init /\ [][Next]_vars
=============================================================================
