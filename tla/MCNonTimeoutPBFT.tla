-------------------------- MODULE MCNonTimeoutPBFT --------------------------
(***************************************************************************)
(* Two test rounds of four nodes with one proposal each, on a schedule in      *)
(* which a round that is not reset always closes its request: keys come        *)
(* before the proposal, and every node takes its messages in the order of the   *)
(* phases.  What is left open is when the first round is reset.              *)
(***************************************************************************)
EXTENDS NonTimeoutPBFT, TLC

Rank == "DistributePK" :> 1 @@ "PublicKey" :> 2 @@ "PrePrepare" :> 3
          @@ "Prepare" :> 4 @@ "Commit" :> 5

Pending(n) == {m \in sent \ seen[n] : m.from # n}

FirstPending(n) ==
  CHOOSE m \in Pending(n) : \A x \in Pending(n) : Rank[m.type] <= Rank[x.type]

Busy == {n \in Node : Pending(n) # {}}

\* The node with the least advanced message goes first.
First ==
  CHOOSE n \in Busy : \A x \in Busy : Rank[FirstPending(n).type] <= Rank[FirstPending(x).type]

OrderedStep ==
  \/ ExtraInitialStart
  \/ Busy # {} /\ Deliver(First, FirstPending(First))
  \/ /\ Busy = {} /\ replies # {}
     /\ HandleReply(Leader, CHOOSE m \in replies : TRUE)
  \/ /\ Busy = {} /\ replies = {} /\ ~keyDistribute
     /\ \/ StateCheckNotify
        \/ StateCheckClear
        \/ ~clearPending /\ startData = {} /\ StartConsensus
  \/ /\ (\E n \in Node : ~running[n]) \/ startData # {}
     /\ \E n \in Node : Stop(n)
  \/ ProtocolStart

OrderedSpec == Init /\ [][OrderedStep]_vars /\ WF_vars(OrderedStep)

=============================================================================
