------------------------------- MODULE MCPBFT -------------------------------
(* Instances of PBFT for TLC: one leader and three replicas, f = 1.         *)
EXTENDS PBFT, TLC

Replicas == Node \ {Leader}

Perms == Permutations(Replicas)

\* The leader has just proposed r: it holds r in its log and the PrePrepare is
\* on its way to the replicas.  The state-check task that woke the leader may
\* not have cleared the flag yet.
JustProposed(r) ==
  LET keys == {Msg("PublicKey", n, NoRequest) : n \in Node}
      ask == Msg("DistributePK", Leader, NoRequest)
  IN
  /\ sent = keys \cup {ask, Msg("PrePrepare", Leader, r)}
  /\ seen = [n \in Node |-> {m \in keys \cup {ask} : m.from # n}]
  /\ replies = {}
  /\ pk = [n \in Node |-> Node \ {n}]
  /\ primary = [n \in Node |-> IF n = Leader THEN Leader ELSE NoNode]
  /\ requests = [n \in Node |-> IF n = Leader THEN r ELSE NoRequest]
  /\ messages = [n \in Node |-> {}]
  /\ prepared = [n \in Node |-> {}]
  /\ replyMessages = [n \in Node |-> {}]
  /\ taken = [n \in Node |-> IF n = Leader THEN {r} ELSE {}]
  /\ requestBuffer = Request
  /\ handedOut = TRUE
  /\ keyDistribute = FALSE
  /\ consensusState \in BOOLEAN
  /\ clearPending = consensusState
  /\ consensusNotify = FALSE
  /\ startData = {r}
  /\ endData = [n \in Node |-> <<>>]
  /\ over = {}

-----------------------------------------------------------------------------
(* Two requests and one replica, Slow, of arbitrary speed: it may act, or     *)
(* lag behind, at any point.  The other nodes take their messages at once and *)
(* in the order of the phases, which keeps the instance small.               *)

CONSTANT Slow

Rank == "DistributePK" :> 1 @@ "PublicKey" :> 2 @@ "PrePrepare" :> 3
          @@ "Prepare" :> 4 @@ "Commit" :> 5

Pending(n) == {m \in sent \ seen[n] : m.from # n}

FirstPending(n) ==
  CHOOSE m \in Pending(n) : \A x \in Pending(n) : Rank[m.type] <= Rank[x.type]

Busy == {n \in Node \ {Slow} : Pending(n) # {}}

FastStep ==
  \/ \E n \in Busy :
       /\ n = CHOOSE x \in Busy : TRUE
       /\ Deliver(n, FirstPending(n))
  \/ /\ replies # {}
     /\ HandleReply(Leader, CHOOSE m \in replies : TRUE)
  \/ /\ Busy = {}
     /\ replies = {}
     /\ StateCheckNotify \/ StateCheckClear \/ MakeConsensusRequests \/ StartConsensus

\* Slow takes its messages in any order, up to the senders of messages of one type
\* for one request whose keys it holds, or of which it holds none: these are
\* interchangeable.
SlowStep ==
  \E m \in Pending(Slow) :
    /\ m = CHOOSE x \in Pending(Slow) : /\ x.type = m.type /\ x.req = m.req
                                       /\ (x.from \in pk[Slow]) = (m.from \in pk[Slow])
    /\ Deliver(Slow, m)

\* All that Next can do before the first proposal, in any order.
KeyExchangeStep ==
  \/ ExtraInitialStart
  \/ StateCheckNotify
  \/ StateCheckClear
  \/ MakeConsensusRequests
  \/ \E n \in Node : \E m \in sent : HandleDistributePK(n, m) \/ StoragePublicKey(n, m)

\* All keys have arrived, except that the leader's may still be on its way to Slow.
KeysInPlace ==
  /\ \A n \in Node : Msg("PublicKey", n, NoRequest) \in sent
  /\ \A n \in Node : Node \ {n, IF n = Slow THEN Leader ELSE n} \subseteq pk[n]
  /\ \A n \in Node : \A m \in Pending(n) : m.type # "DistributePK"

\* A session from the start: every interleaving of the key exchange, then the
\* requests, with the leader's key arriving at Slow before or after the leader's
\* proposals.
SlowReplicaStep ==
  \/ ~KeysInPlace /\ KeyExchangeStep
  \/ KeysInPlace /\ (FastStep \/ SlowStep)

\* As much of Fairness as the key exchange needs: the leader asks for the keys, and
\* a message of the exchange is taken in the end.
KeyMessages(n) == {m \in Pending(n) : m.type \in {"DistributePK", "PublicKey"}}

KeyStep ==
  \/ ExtraInitialStart
  \/ \E n \in Node : \E m \in KeyMessages(n) : HandleDistributePK(n, m) \/ StoragePublicKey(n, m)

SlowReplicaSpec == Init /\ [][SlowReplicaStep]_vars /\ WF_vars(KeyStep)

\* From JustProposed on, fairly, with Slow behind the other nodes: the
\* interleavings left are those of the state-check task and the event loop.
SlowTaskSpec ==
  /\ \E r \in Request : JustProposed(r)
  /\ [][FastStep \/ (Busy = {} /\ replies = {} /\ SlowStep)]_vars
  /\ Fairness

=============================================================================
