---------------------------- MODULE BasicHotStuff ----------------------------
(***************************************************************************)
(* One run of protocols/src/basic_hotstuff/ between two ProtocolStarts,     *)
(* inside the event loop of components/src/protocol_actuator.rs.  Every     *)
(* action is one arm of that loop together with the whole handler it calls. *)
(*                                                                         *)
(*  - A hash is as good as the value it hashes: a block's parent_hash is    *)
(*    the parent block itself, and a vote or certificate verifies exactly   *)
(*    when it was made for that phase, view and block.                      *)
(*  - Neither a broadcast nor a unicast comes back to its sender, so a      *)
(*    proposer never votes for its own block.                               *)
(*  - Any message may stay undelivered for ever.  That also stands for one  *)
(*    a handler rejects (safe_node, another view): a rejected message       *)
(*    changes nothing.                                                      *)
(*  - consensus_state and the permit of consensus_notify are one pending    *)
(*    start; PBFT models the task between the two.                          *)
(*  - The view timers are module ViewTimer: they wake nobody in a node the  *)
(*    actuator runs, so here a view ends with a decision only.              *)
(*  - A handler that unwraps a key it has not been sent yet panics (Panics): *)
(*    the node is gone, with whatever it was about to do.                   *)
(***************************************************************************)
EXTENDS Naturals, FiniteSets

CONSTANTS
  N,                 \* number of consensus nodes
  FaultTolerance,    \* State::fault_tolerance_count (the code's value is 1)
  Starter,           \* the node started with is_leader = true: it makes the keys
  ClientRequest,     \* requests the controller hands out (sendConsensusRequests)
  GeneratedRequest,  \* requests a node invents when its buffer is empty
  NoBlock,           \* an empty parent_hash
  NoNode,            \* State::primary before it is set (an empty vector)
  MaxView            \* bound of the model: no proposal from this view on

\* A node is the number its key share has in pk_consensus_nodes.
Node == 0 .. N - 1

Request == ClientRequest \cup GeneratedRequest

ASSUME NodeAssumption == N \in Nat \ {0} /\ Starter \in Node /\ NoNode \notin Node
ASSUME FaultAssumption == FaultTolerance \in Nat

VARIABLES
  sent,           \* gossip messages published on the "Consensus" topic
  seen,           \* seen[n]: gossip messages handed to n (each once)
  mail,           \* unicasts in flight
  keyDistribute,  \* permit of key_distribute_notify (Starter)
  keypair,        \* keypair[n]: n holds its share of the threshold key
  pks,            \* pks[n]: n knows the numbers and public keys of all nodes
  view,           \* State::view
  primary,        \* State::primary
  highQc,         \* State::high_qc
  prepareQc,      \* State::prepare_qc
  lockedQc,       \* State::locked_qc
  newviews,       \* newviews[n]: log.newviews
  votes,          \* votes[n]: log.message_signatures
  requestBuffer,  \* the actuator's request_buffer
  handedOut,      \* nodes the controller's requests have reached
  start,          \* start[n]: a consensus start is pending
  endData,        \* endData[n]: certificates of the blocks n reported as completed
  panicked        \* the nodes whose event loop has panicked

netVars == <<sent, seen, mail>>
keyVars == <<keyDistribute, keypair, pks>>
qcVars == <<highQc, prepareQc, lockedQc>>
logVars == <<newviews, votes>>
actuatorVars == <<requestBuffer, handedOut, start, endData>>
nodeVars == <<netVars, keyVars, view, primary, qcVars, logVars, actuatorVars>>
vars == <<nodeVars, panicked>>

-----------------------------------------------------------------------------
Block(cmd, parent) == [cmd |-> cmd, parent |-> parent]

QC(v, b) == [view |-> v, block |-> b]

\* None where a certificate may be: a record without a view.
NoQC == [none |-> TRUE]

\* PreCommit, Commit and Decide carry the certificate of the phase before, made
\* for view v and block b; a vote names the view and block it is for.
Msg(t, n, v, b) == [type |-> t, from |-> n, view |-> v, block |-> b]

\* A unicast to oneself is dropped: a node is not connected to itself.
Unicast(n, to, m) == IF to = n THEN {} ELSE {[to |-> to, msg |-> m]}

\* Mutant: 2f votes are enough.
ThresholdTooSmall == 2 * FaultTolerance

Threshold == 2 * FaultTolerance + 1

\* change_leader.
Leader(v) == v % N

CanReceive(n, m, t) == m \in sent \ seen[n] /\ m.from # n /\ m.type = t

Saw(n, m) == seen' = [seen EXCEPT ![n] = @ \cup {m}]

CanOpen(n, u, t) == u \in mail /\ u.to = n /\ u.msg.type = t

Init ==
  /\ sent = {}
  /\ seen = [n \in Node |-> {}]
  /\ mail = {}
  /\ keyDistribute = TRUE
  /\ keypair = [n \in Node |-> FALSE]
  /\ pks = [n \in Node |-> FALSE]
  /\ view = [n \in Node |-> 0]
  /\ primary = [n \in Node |-> NoNode]
  /\ highQc = [n \in Node |-> NoQC]
  /\ prepareQc = [n \in Node |-> NoQC]
  /\ lockedQc = [n \in Node |-> NoQC]
  /\ newviews = [n \in Node |-> {}]
  /\ votes = [n \in Node |-> {}]
  /\ requestBuffer = [n \in Node |-> {}]
  /\ handedOut = {}
  /\ start = [n \in Node |-> FALSE]
  /\ endData = [n \in Node |-> {}]
  /\ panicked = {}

-----------------------------------------------------------------------------
(* Keys, views and requests.                                               *)

\* newview: the NewView goes to the leader of the next view and names the view
\* being left.
NewViewMail(n) ==
  Unicast(n, Leader(view[n] + 1),
          [type |-> "NewView", from |-> n, view |-> view[n], justify |-> prepareQc[n]])

NewView(n) ==
  /\ view' = [view EXCEPT ![n] = @ + 1]
  /\ primary' = [primary EXCEPT ![n] = Leader(view[n] + 1)]

\* distribute_keys: the starter deals the shares, takes its own and leaves view 0.
DistributeKeys ==
  /\ keypair' = [keypair EXCEPT ![Starter] = TRUE]
  /\ pks' = [pks EXCEPT ![Starter] = TRUE]
  /\ sent' = sent \cup {[type |-> "ConsensusNodePKsInfo", from |-> Starter]}
  /\ mail' = mail \cup NewViewMail(Starter)
                  \cup UNION {Unicast(Starter, n, [type |-> "TBLSKey"]) : n \in Node}
  /\ NewView(Starter)

\* The key-distribution arm.
ExtraInitialStart ==
  /\ keyDistribute
  /\ keyDistribute' = FALSE
  /\ DistributeKeys
  /\ UNCHANGED <<seen, qcVars, logVars, actuatorVars>>

StorageTblsKey(n, u) ==
  /\ CanOpen(n, u, "TBLSKey")
  /\ mail' = mail \ {u}
  /\ keypair' = [keypair EXCEPT ![n] = TRUE]
  /\ UNCHANGED <<sent, seen, keyDistribute, pks, view, primary, qcVars, logVars,
                 actuatorVars>>

StorageConsensusNodePk(n, m) ==
  /\ CanReceive(n, m, "ConsensusNodePKsInfo")
  /\ Saw(n, m)
  /\ pks' = [pks EXCEPT ![n] = TRUE]
  /\ mail' = mail \cup NewViewMail(n)
  /\ NewView(n)
  /\ UNCHANGED <<sent, keyDistribute, keypair, qcVars, logVars, actuatorVars>>

\* Mutant: a NewView without a certificate is not skipped.
HighQcsNotSkipped(n, nvs) ==
  LET qcs == {m.justify : m \in nvs} \cup {prepareQc[n]} IN
  IF NoQC \in qcs THEN {NoQC}
  ELSE {qc \in qcs : \A other \in qcs : other.view <= qc.view}

\* get_high_qc_by_view: the newest certificate among n's prepare_qc and the
\* NewViews; two certificates of one view make it the first one met.
HighQcs(n, nvs) ==
  LET qcs == ({m.justify : m \in nvs} \cup {prepareQc[n]}) \ {NoQC} IN
  IF qcs = {} THEN {NoQC}
  ELSE {qc \in qcs : \A other \in qcs : other.view <= qc.view}

\* handle_newview: the quorum counts once, whatever n's own view is, and starts
\* a proposal only when n is the primary already.
HandleNewview(n, u) ==
  /\ CanOpen(n, u, "NewView")
  /\ mail' = mail \ {u}
  /\ newviews' = [newviews EXCEPT ![n] = @ \cup {u.msg}]
  /\ LET nvs == {m \in newviews'[n] : m.view = u.msg.view} IN
     \/ /\ Cardinality(nvs) = Threshold
        /\ \E qc \in HighQcs(n, nvs) : highQc' = [highQc EXCEPT ![n] = qc]
        /\ start' = [start EXCEPT ![n] = @ \/ primary[n] = n]
     \/ /\ Cardinality(nvs) # Threshold
        /\ UNCHANGED <<highQc, start>>
  /\ UNCHANGED <<sent, seen, keyVars, view, primary, prepareQc, lockedQc, votes,
                 requestBuffer, handedOut, endData>>

\* MakeConsensusRequests goes to every node; at the starter it also starts a
\* proposal, whoever leads the current view.
MakeConsensusRequests(n) ==
  /\ n \notin handedOut
  /\ handedOut' = handedOut \cup {n}
  /\ requestBuffer' = [requestBuffer EXCEPT ![n] = @ \cup ClientRequest]
  /\ start' = [start EXCEPT ![n] = @ \/ (n = Starter /\ requestBuffer'[n] # {})]
  /\ UNCHANGED <<netVars, keyVars, view, primary, qcVars, logVars, endData>>

RefilledBuffer(n) ==
  IF requestBuffer[n] = {} THEN GeneratedRequest ELSE requestBuffer[n]

\* The consensus_notify arm with handle_request: no request counts as taken, and
\* nothing asks whether n leads its view.
StartConsensus(n) ==
  /\ start[n]
  /\ view[n] < MaxView
  /\ start' = [start EXCEPT ![n] = FALSE]
  /\ requestBuffer' = [requestBuffer EXCEPT ![n] = RefilledBuffer(n)]
  /\ \E cmd \in RefilledBuffer(n) :
       LET parent == IF highQc[n] = NoQC THEN NoBlock ELSE highQc[n].block IN
       sent' = sent \cup {[type |-> "Prepare", from |-> n, view |-> view[n],
                           block |-> Block(cmd, parent), justify |-> highQc[n]]}
  /\ UNCHANGED <<seen, mail, keyVars, view, primary, qcVars, logVars, handedOut,
                 endData>>

-----------------------------------------------------------------------------
(* The phases.                                                             *)

SafeNode(n, m) ==
  IF lockedQc[n] = NoQC
    THEN m.justify.view > 0 \/ m.block.parent = NoBlock
    ELSE m.justify.view > lockedQc[n].view \/ m.block.parent = lockedQc[n].block

\* A proposal without a certificate is not held against the lock.
AcceptsPrepare(n, m) ==
  IF m.justify = NoQC
    THEN m.block.parent = NoBlock
    ELSE m.justify.block = m.block.parent /\ SafeNode(n, m)

Vote(n, t, m, to) == Unicast(n, to, Msg(t, n, m.view, m.block))

\* handle_prepare: the view of the proposal is not compared with n's.
HandlePrepare(n, m) ==
  /\ CanReceive(n, m, "Prepare")
  /\ AcceptsPrepare(n, m)
  /\ Saw(n, m)
  /\ primary' = [primary EXCEPT ![n] = m.from]
  /\ mail' = IF keypair[n] THEN mail \cup Vote(n, "PrepareVote", m, m.from) ELSE mail
  /\ UNCHANGED <<sent, keyVars, view, qcVars, logVars, actuatorVars>>

\* The message that carries the certificate made of votes of type t.
Announced(t) ==
  CASE t = "PrepareVote" -> "PreCommit"
    [] t = "PreCommitVote" -> "Commit"
    [] t = "CommitVote" -> "Decide"

RecordVote(n, u) ==
  /\ u \in mail /\ u.to = n
  /\ votes' = [votes EXCEPT ![n] = @ \cup {u.msg}]

\* With u the votes of one phase for one view and block become a certificate.
Certified(n, u) ==
  Cardinality({m \in votes[n] \cup {u.msg} : /\ m.type = u.msg.type
                                             /\ m.view = u.msg.view
                                             /\ m.block = u.msg.block}) = Threshold

\* handle_prepare_vote and handle_precommit_vote.  The vote is verified with the
\* public keys, and the certificate combined with n's own key share: Panics has
\* what happens without them.
CollectVote(n, u, t) ==
  /\ CanOpen(n, u, t)
  /\ pks[n]
  /\ RecordVote(n, u)
  /\ mail' = mail \ {u}
  /\ \/ /\ Certified(n, u) /\ keypair[n]
        /\ sent' = sent \cup {Msg(Announced(t), n, u.msg.view, u.msg.block)}
     \/ /\ ~Certified(n, u)
        /\ UNCHANGED sent
  /\ UNCHANGED <<seen, keyVars, view, primary, qcVars, newviews, actuatorVars>>

HandlePrepareVote(n, u) == CollectVote(n, u, "PrepareVote")

HandlePrecommitVote(n, u) == CollectVote(n, u, "PreCommitVote")

\* The certificate must be for n's view, and is verified with n's key share.
InView(n, m, t) == CanReceive(n, m, t) /\ m.view = view[n] /\ keypair[n]

\* A vote for it needs a primary to go to.
VotesInView(n, m, t) == InView(n, m, t) /\ primary[n] # NoNode

\* Mutant: the vote is the one of handle_commit.
HandlePrecommitVotesCommit(n, m) ==
  /\ VotesInView(n, m, "PreCommit")
  /\ Saw(n, m)
  /\ prepareQc' = [prepareQc EXCEPT ![n] = QC(m.view, m.block)]
  /\ mail' = mail \cup Vote(n, "CommitVote", m, primary[n])
  /\ UNCHANGED <<sent, keyVars, view, primary, highQc, lockedQc, logVars, actuatorVars>>

HandlePrecommit(n, m) ==
  /\ VotesInView(n, m, "PreCommit")
  /\ Saw(n, m)
  /\ prepareQc' = [prepareQc EXCEPT ![n] = QC(m.view, m.block)]
  /\ mail' = mail \cup Vote(n, "PreCommitVote", m, primary[n])
  /\ UNCHANGED <<sent, keyVars, view, primary, highQc, lockedQc, logVars, actuatorVars>>

\* Mutant: the lock is not taken.
HandleCommitNoLock(n, m) ==
  /\ VotesInView(n, m, "Commit")
  /\ Saw(n, m)
  /\ mail' = mail \cup Vote(n, "CommitVote", m, primary[n])
  /\ UNCHANGED <<sent, keyVars, view, primary, qcVars, logVars, actuatorVars>>

HandleCommit(n, m) ==
  /\ VotesInView(n, m, "Commit")
  /\ Saw(n, m)
  /\ lockedQc' = [lockedQc EXCEPT ![n] = QC(m.view, m.block)]
  /\ mail' = mail \cup Vote(n, "CommitVote", m, primary[n])
  /\ UNCHANGED <<sent, keyVars, view, primary, highQc, prepareQc, logVars, actuatorVars>>

\* PhaseState::Complete: the next view, the report to the analyzer, and the
\* request leaves the buffer.
Complete(n, v, b) ==
  /\ NewView(n)
  /\ endData' = [endData EXCEPT ![n] = @ \cup {QC(v, b)}]
  /\ requestBuffer' = [requestBuffer EXCEPT ![n] = @ \ {b.cmd}]

\* handle_commit_vote: the view certified need not be the view n is in.
HandleCommitVote(n, u) ==
  /\ CanOpen(n, u, "CommitVote")
  /\ pks[n]
  /\ RecordVote(n, u)
  /\ \/ /\ Certified(n, u) /\ keypair[n]
        /\ sent' = sent \cup {Msg("Decide", n, u.msg.view, u.msg.block)}
        /\ mail' = (mail \ {u}) \cup NewViewMail(n)
        /\ Complete(n, u.msg.view, u.msg.block)
     \/ /\ ~Certified(n, u)
        /\ mail' = mail \ {u}
        /\ UNCHANGED <<sent, view, primary, endData, requestBuffer>>
  /\ UNCHANGED <<seen, keyVars, qcVars, newviews, handedOut, start>>

\* Mutant: prepare_qc goes with the view.
HandleDecideForgets(n, m) ==
  /\ InView(n, m, "Decide") /\ pks[n]
  /\ Saw(n, m)
  /\ mail' = mail \cup NewViewMail(n)
  /\ Complete(n, m.view, m.block)
  /\ prepareQc' = [prepareQc EXCEPT ![n] = NoQC]
  /\ UNCHANGED <<sent, keyVars, highQc, lockedQc, logVars, handedOut, start>>

\* change_leader divides by the number of public keys.
HandleDecide(n, m) ==
  /\ InView(n, m, "Decide") /\ pks[n]
  /\ Saw(n, m)
  /\ mail' = mail \cup NewViewMail(n)
  /\ Complete(n, m.view, m.block)
  /\ UNCHANGED <<sent, keyVars, qcVars, logVars, handedOut, start>>

Deliver(n, m) ==
  \/ StorageConsensusNodePk(n, m)
  \/ HandlePrepare(n, m)
  \/ HandlePrecommit(n, m)
  \/ HandleCommit(n, m)
  \/ HandleDecide(n, m)

Open(n, u) ==
  \/ StorageTblsKey(n, u)
  \/ HandleNewview(n, u)
  \/ HandlePrepareVote(n, u)
  \/ HandlePrecommitVote(n, u)
  \/ HandleCommitVote(n, u)

VoteKind == {"PrepareVote", "PreCommitVote", "CommitVote"}

\* The certificate messages an arm of n is about to verify.
Verifies(n, T) == {m \in sent \ seen[n] : m.from # n /\ m.type \in T /\ m.view = view[n]}

\* A handler of n is about to unwrap its key share, which has not come: to verify a
\* certificate, or to combine the votes that make one.
LacksShare(n) ==
  /\ ~keypair[n]
  /\ \/ Verifies(n, {"PreCommit", "Commit", "Decide"}) # {}
     \/ \E u \in mail : u.to = n /\ u.msg.type \in VoteKind /\ Certified(n, u)

\* A handler of n is about to vote without a primary (PeerId::from_bytes of an empty
\* vector), to verify a vote or to change the leader without the public keys.
LacksKeys(n) ==
  \/ primary[n] = NoNode /\ Verifies(n, {"PreCommit", "Commit"}) # {}
  \/ /\ ~pks[n]
     /\ \/ Verifies(n, {"Decide"}) # {}
        \/ \E u \in mail : u.to = n /\ u.msg.type \in VoteKind

Panics(n) ==
  /\ LacksShare(n) \/ LacksKeys(n)
  /\ panicked' = panicked \cup {n}
  /\ UNCHANGED nodeVars

Work(n) ==
  \/ n = Starter /\ ExtraInitialStart
  \/ MakeConsensusRequests(n) \/ StartConsensus(n)
  \/ \E m \in sent : Deliver(n, m)
  \/ \E u \in mail : Open(n, u)

Next == \E n \in Node \ panicked : (Work(n) /\ UNCHANGED panicked) \/ Panics(n)

Spec == Init /\ [][Next]_vars

-----------------------------------------------------------------------------
(* Properties.                                                             *)

QcView(qc) == IF qc = NoQC THEN 0 ELSE qc.view

\* A proposal made before the keys are dealt, or in view 1 beside its leader: the
\* starter's, when the controller's requests reach it that early.
EarlyProposal ==
  \E m \in sent : m.type = "Prepare" /\ (m.view = 0 \/ (m.view = 1 /\ m.from # Leader(1)))

\* A quorum of the first phase has been announced.
Certificate == \E m \in sent : m.type \in {"PreCommit", "Commit", "Decide"}

\* The key share is a unicast and the public keys a broadcast, and nothing orders
\* them before the messages of view 1, whose handlers unwrap both.  With four nodes a
\* certificate takes the votes of all replicas, so whoever verifies one has its
\* share.  The one who may not is the leader of view 1, when it combines the first
\* votes: it panics, and no block is ever certified.  As long as the starter does not
\* propose too early nobody misses the public keys or a primary, and nobody else
\* panics.
KeysInTime ==
  /\ \A n \in Node : LacksShare(n) => n = Leader(1) /\ ~Certificate
  /\ ~EarlyProposal =>
       /\ \A n \in Node : ~LacksKeys(n)
       /\ panicked # {} => panicked = {Leader(1)} /\ ~Certificate

\* handle_commit locks before it votes: when a node reports a block of view v as
\* completed, 2f + 1 nodes are locked on a certificate of view v or later, for
\* ever after.
DecisionLocked ==
  \A n \in Node : \A d \in endData[n] :
    Cardinality({q \in Node : QcView(lockedQc[q]) >= d.view}) >= Threshold

\* Whatever order certificates arrive in, no step of a node takes it back to an
\* earlier view, or replaces its lock or prepare_qc by an older one.
NeverBack ==
  [][\A n \in Node : /\ view'[n] >= view[n]
                     /\ QcView(lockedQc'[n]) >= QcView(lockedQc[n])
                     /\ QcView(prepareQc'[n]) >= QcView(prepareQc[n])]_vars

MailMsgs == {u.msg : u \in mail}

LogMsgs == UNION {votes[n] : n \in Node}

\* The ballots ever cast: a vote is in flight or in the log of its receiver.
Cast == {m \in MailMsgs \cup LogMsgs : m.type \in VoteKind}

VoteType(p) == CASE p = 1 -> "PrepareVote" [] p = 2 -> "PreCommitVote" [] p = 3 -> "CommitVote"

\* A phase's ballots, by voter and by block with its view.
Ballots ==
  [p \in 1 .. 3 |-> {[node |-> m.from, block |-> QC(m.view, m.block)] :
                       m \in {x \in Cast : x.type = VoteType(p)}}]

Ladder == INSTANCE PhaseLadder WITH Phases <- 3, ballots <- Ballots, decided <- endData

\* The three phases implement PhaseLadder: a node votes in a phase only for a block
\* certified in the one before, and reports only blocks with a commit certificate.
ImplementsLadder == Ladder!Spec
=============================================================================
