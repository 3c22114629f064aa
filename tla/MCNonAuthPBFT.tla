--------------------------- MODULE MCNonAuthPBFT ---------------------------
(***************************************************************************)
(* Two requests and one replica, Slow, of arbitrary speed and order:          *)
(* it may lag behind by whole requests.  The other nodes take their messages   *)
(* in the order of the phases, the replicas before anybody else acts and the   *)
(* leader before it proposes again.  One node, at any time, gets the flag that  *)
(* makes it panic.                                                           *)
(***************************************************************************)
EXTENDS NonAuthPBFT, TLC

CONSTANT Slow

Rank == "PrePrepare" :> 1 @@ "Prepare" :> 2 @@ "Commit" :> 3

Pending(n) == {m \in sent \ seen[n] : m.from # n}

FirstPending(n) ==
  CHOOSE m \in Pending(n) : \A x \in Pending(n) : Rank[m.type] <= Rank[x.type]

Busy == {n \in alive \ {Slow} : Pending(n) # {}}

FastStep ==
  \/ ExtraInitialStart
  \/ /\ Busy # {}
     /\ LET n == CHOOSE x \in Busy : TRUE IN Deliver(n, FirstPending(n))
  \/ /\ replies # {} /\ Busy \subseteq {Leader}
     /\ HandleReply(Leader, CHOOSE m \in replies : TRUE)
  \/ Busy = {} /\ \E r \in Request : HandleRequest(r)
  \/ started /\ malicious = {} /\ \E n \in Node : MaliciousNotify(n)

\* Messages of one type for one request are interchangeable.
SlowStep ==
  Busy \subseteq {Leader} /\ \E m \in Pending(Slow) :
    /\ m = CHOOSE x \in Pending(Slow) : x.type = m.type /\ x.req = m.req
    /\ Deliver(Slow, m)

SlowSpec == Init /\ [][FastStep \/ SlowStep]_vars

=============================================================================
