--------------------------- MODULE MCBasicHotStuff ---------------------------
(* An instance of BasicHotStuff for TLC: four nodes, f = 1.                 *)
EXTENDS BasicHotStuff

CONSTANT HandOutViews   \* bound: the views in which the controller's requests may arrive

\* The requests reach the starter; those for the others stay on their way, so that
\* a leader proposes the request it generates.
HandOutBound == handedOut' # handedOut => handedOut' = {Starter} /\ view[Starter] \in HandOutViews

BoundedSpec == Init /\ [][Next /\ HandOutBound]_vars

Proposed == {m.block : m \in {x \in sent : x.type = "Prepare"}}

\* A block and the blocks it extends.
Ancestors ==
  LET chain[b \in Proposed] == IF b.parent = NoBlock THEN {b} ELSE {b} \cup chain[b.parent]
  IN chain

Decided == UNION {endData[n] : n \in Node}

\* A view's leader extends the newest certificate of 2f + 1 NewViews, so as long
\* as all proposals are those of their views' leaders one block at most is
\* completed in a view, and those of different views lie on one chain.  The starter also proposes
\* when the controller's requests arrive, in any view and from a high_qc of any
\* age: only then may the chain fork.
ForkNeedsStarter ==
  (\A m \in sent : m.type = "Prepare" => m.from # Starter) =>
    \A d, e \in Decided :
      d.view <= e.view => /\ d.block \in Ancestors[e.block]
                          /\ d.block = e.block <=> d.view = e.view
=============================================================================
