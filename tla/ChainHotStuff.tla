----------------------------- MODULE ChainHotStuff ----------------------------
(***************************************************************************)
(* One run of protocols/src/chain_hotstuff/ between two ProtocolStarts,     *)
(* inside the event loop of components/src/protocol_actuator.rs.  Every     *)
(* action is one arm of that loop together with the whole handler it calls. *)
(*                                                                         *)
(*  - A hash is as good as the value it hashes, and a proposer takes the    *)
(*    parent_hash and the justify of a block from one high_qc: a block is   *)
(*    its request and its justify, and its parent the block certified there.*)
(*  - Any message may stay undelivered for ever, which also stands for a    *)
(*    node that panicked on it.                                             *)
(*  - All request buffers hold the same requests: the controller hands them *)
(*    to every node, and the ones a node generates are named alike on all.  *)
(*  - consensus_state and the permit of consensus_notify are one pending    *)
(*    start.  The view timers are module ViewTimer.                         *)
(***************************************************************************)
EXTENDS Naturals, FiniteSets

CONSTANTS
  N,                 \* number of consensus nodes
  FaultTolerance,    \* State::fault_tolerance_count (the code's value is 1)
  Starter,           \* the node started with is_leader = true: it makes the keys
  Request,           \* what the request buffers hold
  NoQC,              \* None
  MaxView            \* bound of the model: no proposal from this view on

\* A node is the number its key share has in pk_consensus_nodes.
Node == 0 .. N - 1

ASSUME NodeAssumption == N \in Nat \ {0} /\ Starter \in Node
ASSUME FaultAssumption == FaultTolerance \in Nat

VARIABLES
  sent,           \* gossip messages published on the "Consensus" topic
  seen,           \* seen[n]: gossip messages handed to n (each once)
  mail,           \* unicasts in flight
  keyDistribute,  \* permit of key_distribute_notify (Starter)
  keypair,        \* keypair[n]: n holds its share of the threshold key
  view,           \* State::view; current_leader and next_leader follow it
  highQc,         \* State::high_qc
  genericQc,      \* State::generic_qc
  lockedQc,       \* State::locked_qc
  newviews,       \* newviews[n]: log.generics
  votes,          \* votes[n]: log.message_signatures
  taken,          \* taken[n]: taken_requests
  handedOut,      \* the controller's requests have reached the starter
  start,          \* start[n]: a consensus start is pending
  endData         \* endData[n]: certificates of the blocks n reported as completed

netVars == <<sent, seen, mail>>
keyVars == <<keyDistribute, keypair>>
qcVars == <<highQc, genericQc, lockedQc>>
vars == <<netVars, keyVars, view, qcVars, newviews, votes, taken, handedOut, start, endData>>

-----------------------------------------------------------------------------
Block(cmd, justify) == [cmd |-> cmd, justify |-> justify]

QC(v, b) == [view |-> v, block |-> b]

\* A proposal: a Generic with a block.
Generic(n, v, b) == [type |-> "Generic", from |-> n, view |-> v, block |-> b]

\* A Generic without a block reports the sender's generic_qc and the view it left.
NewviewGeneric(n, v, qc) == [type |-> "Newview", from |-> n, view |-> v, justify |-> qc]

Vote(n, v, b) == [type |-> "Vote", from |-> n, view |-> v, block |-> b]

Unicast(n, to, m) == IF to = n THEN {} ELSE {[to |-> to, msg |-> m]}

\* Mutant: 2f votes certify.
ThresholdTooSmall == 2 * FaultTolerance

Threshold == 2 * FaultTolerance + 1

\* change_leader.
Leader(v) == v % N

CanReceive(n, m, t) == m \in sent \ seen[n] /\ m.from # n /\ m.type = t

Saw(n, m) == seen' = [seen EXCEPT ![n] = @ \cup {m}]

CanOpen(n, u, t) == u \in mail /\ u.to = n /\ u.msg.type = t

Init ==
  /\ sent = {}
  /\ seen = [n \in Node |-> {}]
  /\ mail = {}
  /\ keyDistribute = TRUE
  /\ keypair = [n \in Node |-> FALSE]
  /\ view = [n \in Node |-> 0]
  /\ highQc = [n \in Node |-> NoQC]
  /\ genericQc = [n \in Node |-> NoQC]
  /\ lockedQc = [n \in Node |-> NoQC]
  /\ newviews = [n \in Node |-> {}]
  /\ votes = [n \in Node |-> {}]
  /\ taken = [n \in Node |-> {}]
  /\ handedOut = FALSE
  /\ start = [n \in Node |-> FALSE]
  /\ endData = [n \in Node |-> {}]

-----------------------------------------------------------------------------
(* Keys and the first view.                                                *)

\* storage_consensus_node_pk: the messages of next_view are dropped, and the
\* leader of view 1 starts.  Public keys are known from view 1 on.
EnterFirstView(n) ==
  /\ view' = [view EXCEPT ![n] = @ + 1]
  /\ start' = [start EXCEPT ![n] = @ \/ Leader(view[n] + 1) = n]

\* distribute_keys: the starter deals the shares and takes its own.
DistributeKeys ==
  /\ keypair' = [keypair EXCEPT ![Starter] = TRUE]
  /\ sent' = sent \cup {[type |-> "ConsensusNodePKsInfo", from |-> Starter]}
  /\ mail' = mail \cup UNION {Unicast(Starter, n, [type |-> "TBLSKey"]) : n \in Node}
  /\ EnterFirstView(Starter)

\* The key-distribution arm.
ExtraInitialStart ==
  /\ keyDistribute
  /\ keyDistribute' = FALSE
  /\ DistributeKeys
  /\ UNCHANGED <<seen, qcVars, newviews, votes, taken, handedOut, endData>>

StorageTblsKey(n, u) ==
  /\ CanOpen(n, u, "TBLSKey")
  /\ mail' = mail \ {u}
  /\ keypair' = [keypair EXCEPT ![n] = TRUE]
  /\ UNCHANGED <<sent, seen, keyDistribute, view, qcVars, newviews, votes, taken,
                 handedOut, start, endData>>

StorageConsensusNodePk(n, m) ==
  /\ CanReceive(n, m, "ConsensusNodePKsInfo")
  /\ Saw(n, m)
  /\ EnterFirstView(n)
  /\ UNCHANGED <<sent, mail, keyVars, qcVars, newviews, votes, taken, handedOut, endData>>

\* MakeConsensusRequests at the starter, whoever leads the current view.
MakeConsensusRequests ==
  /\ ~handedOut
  /\ handedOut' = TRUE
  /\ start' = [start EXCEPT ![Starter] = TRUE]
  /\ UNCHANGED <<netVars, keyVars, view, qcVars, newviews, votes, taken, endData>>

-----------------------------------------------------------------------------
(* Proposals.                                                              *)

QcView(qc) == IF qc = NoQC THEN 0 ELSE qc.view

\* A proposal without a justify is always safe.
SafeNode(n, b) ==
  IF b.justify = NoQC \/ lockedQc[n] = NoQC
    THEN b.justify = NoQC \/ QcView(b.justify) > 0
    ELSE b.justify.view > lockedQc[n].view \/ b.justify.block = lockedQc[n].block

\* The certificates along the parents of a block.
Justify(qc) == IF qc = NoQC THEN NoQC ELSE qc.block.justify

\* Mutant: a two-chain completes a block.
AdoptTwoChain(n, b) ==
  LET qc1 == b.justify
      qc2 == Justify(qc1)
  IN
  /\ genericQc' = [genericQc EXCEPT ![n] = IF qc1 = NoQC THEN @ ELSE qc1]
  /\ lockedQc' = [lockedQc EXCEPT ![n] = IF qc2 = NoQC THEN @ ELSE qc2]
  /\ endData' = [endData EXCEPT ![n] = @ \cup ({qc2} \ {NoQC})]

\* The chain rules: b's parent is certified, its grandparent locked and the block
\* before that completed.
AdoptChain(n, b) ==
  LET qc1 == b.justify
      qc2 == Justify(qc1)
      qc3 == Justify(qc2)
  IN
  /\ genericQc' = [genericQc EXCEPT ![n] = IF qc1 = NoQC THEN @ ELSE qc1]
  /\ lockedQc' = [lockedQc EXCEPT ![n] = IF qc2 = NoQC THEN @ ELSE qc2]
  /\ endData' = [endData EXCEPT ![n] = @ \cup ({qc3} \ {NoQC})]

\* Mutant: every node stays like the next leader.
AcceptAndStay(n, b) ==
  /\ keypair[n] => view[n] > 0
  /\ votes' = [votes EXCEPT ![n] = IF keypair[n] THEN @ \cup {Vote(n, view[n], b)} ELSE @]
  /\ UNCHANGED <<mail, view>>
  /\ AdoptChain(n, b)

\* replica_handle_generic: the next leader keeps its vote and stays in the view;
\* anyone else sends it and moves on, reporting to the same node.  Without a key
\* share there is no vote and the view stays; with the share but without the public
\* keys, in view 0, the node panics.
AcceptGeneric(n, b) ==
  /\ keypair[n] => view[n] > 0
  /\ \/ /\ keypair[n] /\ Leader(view[n] + 1) = n
        /\ votes' = [votes EXCEPT ![n] = @ \cup {Vote(n, view[n], b)}]
        /\ UNCHANGED <<mail, view>>
     \/ /\ keypair[n] /\ Leader(view[n] + 1) # n
        /\ mail' = mail \cup Unicast(n, Leader(view[n] + 1), Vote(n, view[n], b))
                        \cup Unicast(n, Leader(view[n] + 1),
                                     NewviewGeneric(n, view[n], genericQc[n]))
        /\ view' = [view EXCEPT ![n] = @ + 1]
        /\ UNCHANGED votes
     \/ /\ ~keypair[n]
        /\ UNCHANGED <<mail, view, votes>>
  /\ AdoptChain(n, b)

\* handle_generic of a proposal.
ReplicaHandleGeneric(n, v, b) ==
  /\ taken' = [taken EXCEPT ![n] = @ \cup {b.cmd}]
  /\ \/ v = view[n] /\ SafeNode(n, b) /\ AcceptGeneric(n, b)
     \/ /\ ~(v = view[n] /\ SafeNode(n, b))
        /\ UNCHANGED <<mail, view, votes, genericQc, lockedQc, endData>>

\* What next_request may pick.
Untaken(n) == Request \ (taken[n] \cup {qc.block.cmd : qc \in endData[n]})

\* The consensus_notify arm with handle_request: the proposer handles its own
\* proposal at once, and nothing asks whether it leads its view.
StartConsensus(n) ==
  /\ start[n]
  /\ view[n] < MaxView
  /\ start' = [start EXCEPT ![n] = FALSE]
  /\ \E cmd \in Untaken(n) :
       LET b == Block(cmd, highQc[n]) IN
       /\ sent' = sent \cup {Generic(n, view[n], b)}
       /\ ReplicaHandleGeneric(n, view[n], b)
  /\ UNCHANGED <<seen, keyVars, highQc, newviews, handedOut>>

HandleGeneric(n, m) ==
  /\ CanReceive(n, m, "Generic")
  /\ Saw(n, m)
  /\ ReplicaHandleGeneric(n, m.view, m.block)
  /\ UNCHANGED <<sent, keyVars, highQc, newviews, handedOut, start>>

-----------------------------------------------------------------------------
(* Votes and reports at the next leader.                                   *)

\* record_messgae_partial_signature.
RecordVote(n, vote) == votes' = [votes EXCEPT ![n] = @ \cup {vote}]

\* handle_vote: the certificate is made by the vote that makes them 2f + 1.  A
\* node's own vote is in the log but never checked against the threshold.
HandleVote(n, u) ==
  /\ CanOpen(n, u, "Vote")
  /\ view[n] > 0
  /\ mail' = mail \ {u}
  /\ RecordVote(n, u.msg)
  /\ LET for == {m \in votes'[n] : m.view = u.msg.view /\ m.block = u.msg.block} IN
     \/ /\ Cardinality(for) = Threshold /\ keypair[n]
        /\ genericQc' = [genericQc EXCEPT ![n] = QC(u.msg.view, u.msg.block)]
     \/ /\ Cardinality(for) # Threshold
        /\ UNCHANGED genericQc
  /\ UNCHANGED <<sent, seen, keyVars, view, highQc, lockedQc, newviews, taken,
                 handedOut, start, endData>>

\* get_high_qc_by_view: the newest certificate among n's generic_qc and the
\* reports; two certificates of one view make it the first one met.
HighQcs(n, nvs) ==
  LET qcs == ({m.justify : m \in nvs} \cup {genericQc[n]}) \ {NoQC} IN
  IF qcs = {} THEN {NoQC}
  ELSE {qc \in qcs : \A other \in qcs : other.view <= qc.view}

\* handle_newview_generic: 2f + 1 reports of one view take n one view further,
\* whatever its own view is.  What next_view would send is dropped.
HandleNewviewGeneric(n, u) ==
  /\ CanOpen(n, u, "Newview")
  /\ view[n] > 0
  /\ mail' = mail \ {u}
  /\ newviews' = [newviews EXCEPT ![n] = @ \cup {u.msg}]
  /\ LET nvs == {m \in newviews'[n] : m.view = u.msg.view} IN
     \/ /\ Cardinality(nvs) = Threshold
        /\ \E qc \in HighQcs(n, nvs) :
             /\ highQc' = [highQc EXCEPT ![n] = qc]
             /\ genericQc' = [genericQc EXCEPT ![n] = qc]
        /\ view' = [view EXCEPT ![n] = @ + 1]
        /\ start' = [start EXCEPT ![n] = @ \/ Leader(view[n] + 1) = n]
     \/ /\ Cardinality(nvs) # Threshold
        /\ UNCHANGED <<highQc, genericQc, view, start>>
  /\ UNCHANGED <<sent, seen, keyVars, lockedQc, votes, taken, handedOut, endData>>

Deliver(n, m) == StorageConsensusNodePk(n, m) \/ HandleGeneric(n, m)

Open(n, u) == StorageTblsKey(n, u) \/ HandleVote(n, u) \/ HandleNewviewGeneric(n, u)

Next ==
  \/ ExtraInitialStart
  \/ MakeConsensusRequests
  \/ \E n \in Node : StartConsensus(n)
  \/ \E n \in Node, m \in sent : Deliver(n, m)
  \/ \E n \in Node, u \in mail : Open(n, u)

Spec == Init /\ [][Next]_vars

-----------------------------------------------------------------------------
(* Properties.                                                             *)

Ballots == {m \in {u.msg : u \in mail} \cup UNION {votes[n] : n \in Node} : m.type = "Vote"}

\* A vote takes its node to the next view, so nobody votes for two blocks of one
\* view, except the next leader, who stays and votes for every proposal it gets.
VotesOnce ==
  \A a, b \in Ballots :
    a.from = b.from /\ a.view = b.view /\ a.block # b.block => a.from = Leader(a.view + 1)

\* The certificates the nodes hold or have reported blocks by.
Certificates ==
  (UNION {{highQc[n], genericQc[n], lockedQc[n]} \cup endData[n] : n \in Node}) \ {NoQC}

\* No two blocks of one view are ever certified, although a view may have several
\* proposals, whose proposers need not lead it, and the next leader, who counts the
\* votes, votes for them all.
OneCertificate == \A a, b \in Certificates : a.view = b.view => a = b

\* replica_handle_generic locks a block's grandparent when it votes for the block:
\* what the three-chain rule reports, 2f + 1 nodes have been locked on, though
\* proposals may skip views, rest on old certificates or compete in one view.  They
\* need not stay so: a proposal that rests on the locked block takes its voter's
\* lock back to what that block rests on.
DecisionLocked ==
  \A d \in UNION {endData[n] : n \in Node} :
    Cardinality({m.from : m \in {x \in Ballots : Justify(x.block.justify) = d}}) >= Threshold
=============================================================================
