--------------------------- MODULE MCDataWarehouse ---------------------------
(***************************************************************************)
(* The data warehouse on a small instance.  Bounds: the end data received of  *)
(* a request, the times of a start, the items tested, the computations of an  *)
(* item, the crash nodes recorded.                                           *)
(***************************************************************************)
EXTENDS DataWarehouse, TLC

CONSTANTS MaxEnds, MaxSession, MaxRound

Bounded ==
  /\ MapThenSumSet(LAMBDA k : received'[k], Peer \X Request) <= MaxEnds
  /\ session' <= MaxSession /\ internalRound' <= MaxRound
  /\ \A c \in DOMAIN crashNodes' : Len(crashNodes'[c]) <= 2

Symmetry == Permutations(Peer) \cup Permutations(Request)

=============================================================================
