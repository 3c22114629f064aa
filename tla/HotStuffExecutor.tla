-------------------------- MODULE HotStuffExecutor --------------------------
(***************************************************************************)
(* The stand-alone Basic HotStuff of the crate consensus                    *)
(* (consensus/src/basic_hotstuff): the event loop of every consensus node    *)
(* with its Executor, the two tasks it shares State::mode with               *)
(* (proposal_state_check, view_timeout_start), and the controller node.      *)
(* Unlike in the protocols crate, the view timers work, every node buffers    *)
(* the requests, and a handler's messages pass through a channel: a vote or   *)
(* a NewView goes to whoever is the primary when it leaves the channel.      *)
(*                                                                         *)
(*  - A block's parent_hash is the parent itself; a vote or certificate      *)
(*    verifies when it was made for that phase, view and block.              *)
(*  - Nobody receives his own messages.  Any message may stay undelivered     *)
(*    for ever; that also stands for one a handler rejects.                   *)
(*  - A task or handler that changes mode locks it twice, once to read and    *)
(*    once to write, and others may write in between.                        *)
(*  - timeout lengths (current_view_timeout) are left out: a timer may run     *)
(*    out at any time.                                                       *)
(***************************************************************************)
EXTENDS Naturals, Sequences, FiniteSets

CONSTANTS
  N,                 \* number of consensus nodes
  FaultTolerance,    \* State::fault_tolerance_count (the code's value is 1)
  Controller,        \* the controller node
  Request,           \* the requests it creates
  ChannelCapacity,   \* mpsc::channel(10)
  NoBlock,           \* an empty parent_hash
  NoNode,            \* State::primary before it is set
  MaxView            \* bound of the model: no timeout and no proposal from this view on

\* A node is the number its key share has in consensus_nodes.
Node == 0 .. N - 1

ASSUME StandAloneAssumption ==
  N \in Nat \ {0} /\ FaultTolerance \in Nat /\ Controller \notin Node /\ NoNode \notin Node

VARIABLES
  sent, seen,        \* gossip published, and handed to each node (once)
  mail,              \* unicasts in flight
  keypair,           \* keypair[n]: n holds its share of the threshold key
  pks,               \* pks[n]: n has everybody's number and public key
  view, primary, highQc, prepareQc, lockedQc,      \* State
  newviews, votes,   \* Log
  outbox,            \* the channel msg_rx
  buffer,            \* request_buffer
  bufferMap,         \* the keys of request_buffer_map
  mode,              \* State::mode
  writes,            \* writes[n]: what tasks that have read mode are going to write to it
  consensusNotify, viewTimeoutNotify, stopNotify,  \* stored permits
  timers,            \* number of timer tasks waiting
  alive,             \* FALSE once the event loop has panicked
  ended              \* ended[n]: certificates of the blocks n has sent an End for

netVars == <<sent, seen, mail>>
keyVars == <<keypair, pks>>
qcVars == <<highQc, prepareQc, lockedQc>>
logVars == <<newviews, votes>>
bufferVars == <<buffer, bufferMap>>
timerVars == <<stopNotify, timers>>
modeVars == <<mode, writes, viewTimeoutNotify>>
vars == <<netVars, keyVars, view, primary, qcVars, logVars, outbox, bufferVars, modeVars,
          consensusNotify, timerVars, alive, ended>>

-----------------------------------------------------------------------------
Block(cmd, parent) == [cmd |-> cmd, parent |-> parent]

QC(v, b) == [view |-> v, block |-> b]

\* None where a certificate may be: a record without a view.
NoQC == [none |-> TRUE]

\* PreCommit, Commit and Decide carry the certificate of the phase before, made
\* for view v and block b; a vote names the view and block it is for.
Msg(t, n, v, b) == [type |-> t, from |-> n, view |-> v, block |-> b]

Mode(kind, n) == [kind |-> kind, n |-> n]

InitMode == Mode("Init", 0)

Threshold == 2 * FaultTolerance + 1

\* change_leader.
Leader(v) == v % N

ModeKind == {"Init", "Do", "Done", "NotIsLeader"}

VoteKind == {"PrepareVote", "PreCommitVote", "CommitVote"}

Init ==
  /\ sent = {} /\ seen = [n \in Node |-> {}] /\ mail = {}
  /\ keypair = [n \in Node |-> FALSE] /\ pks = [n \in Node |-> FALSE]
  /\ view = [n \in Node |-> 0] /\ primary = [n \in Node |-> NoNode]
  /\ highQc = [n \in Node |-> NoQC]
  /\ prepareQc = [n \in Node |-> NoQC]
  /\ lockedQc = [n \in Node |-> NoQC]
  /\ newviews = [n \in Node |-> {}] /\ votes = [n \in Node |-> {}]
  /\ outbox = [n \in Node |-> <<>>]
  /\ buffer = [n \in Node |-> <<>>] /\ bufferMap = [n \in Node |-> {}]
  /\ mode = [n \in Node |-> InitMode] /\ writes = [n \in Node |-> {}]
  /\ consensusNotify = [n \in Node |-> FALSE]
  /\ viewTimeoutNotify = [n \in Node |-> FALSE]
  /\ stopNotify = [n \in Node |-> FALSE] /\ timers = [n \in Node |-> 0]
  /\ alive = [n \in Node |-> TRUE]
  /\ ended = [n \in Node |-> {}]

\* What the event loop of n may take next.
CanReceive(n, m, t) == alive[n] /\ m \in sent \ seen[n] /\ m.from # n /\ m.type = t

Saw(n, m) == seen' = [seen EXCEPT ![n] = @ \cup {m}]

CanOpen(n, u, t) == alive[n] /\ u \in mail /\ u.to = n /\ u.msg.from # n /\ u.msg.type = t

\* send_message.
Queue(n, msgs) == outbox' = [outbox EXCEPT ![n] = @ \o msgs]

-----------------------------------------------------------------------------
(* The controller node: the commands DistributeKey and <count>.             *)

DistributeKey ==
  LET info == [type |-> "ConsensusNodePKsInfo", from |-> Controller]
  IN /\ info \notin sent
     /\ sent' = sent \cup {info}
     /\ mail' = mail \cup {[to |-> n, msg |-> [type |-> "TBLSKey", from |-> Controller]] : n \in Node}
     /\ UNCHANGED <<seen, keyVars, view, primary, qcVars, logVars, outbox, bufferVars, modeVars,
                    consensusNotify, timerVars, alive, ended>>

CreateRequest(r) ==
  LET msg == [type |-> "Request", from |-> Controller, cmd |-> r]
  IN /\ msg \notin sent
     /\ sent' = sent \cup {msg}
     /\ UNCHANGED <<seen, mail, keyVars, view, primary, qcVars, logVars, outbox, bufferVars,
                    modeVars, consensusNotify, timerVars, alive, ended>>

-----------------------------------------------------------------------------
(* State::mode and the tasks that share it with the event loop.             *)

\* The event loop has read mode and writes value: what tasks write in between (W)
\* is lost, but a timer task still notifies.
UpdateMode(n, value) ==
  \E W \in SUBSET writes[n] :
    /\ mode' = [mode EXCEPT ![n] = value]
    /\ writes' = [writes EXCEPT ![n] = @ \ W]
    /\ viewTimeoutNotify' = [viewTimeoutNotify EXCEPT ![n] = @ \/ \E w \in W : w.task = "timer"]

\* One turn of proposal_state_check, up to its second lock.
ProposalStateCheck(n) ==
  /\ alive[n]
  /\ mode[n].kind = "Do" /\ mode[n].n > 0
  /\ \A w \in writes[n] : w.task # "check"
  /\ consensusNotify' = [consensusNotify EXCEPT ![n] = TRUE]
  /\ writes' = [writes EXCEPT ![n] = @ \cup {[task |-> "check", mode |-> Mode("Done", mode[n].n - 1)]}]
  /\ UNCHANGED <<netVars, keyVars, view, primary, qcVars, logVars, outbox, bufferVars, mode,
                 viewTimeoutNotify, timerVars, alive, ended>>

\* What a timer task makes of a proposal that was under way.
GivenUp(md) == IF md.n = 0 THEN InitMode ELSE Mode("NotIsLeader", md.n)

\* Mutant: a proposal under way is no timeout.
TimerExpiresUnlessProposing(n) ==
  /\ alive[n] /\ timers[n] > 0 /\ view[n] < MaxView
  /\ timers' = [timers EXCEPT ![n] = @ - 1]
  /\ viewTimeoutNotify' = [viewTimeoutNotify EXCEPT ![n] = @ \/ mode[n].kind \in {"Init", "NotIsLeader"}]
  /\ UNCHANGED <<netVars, keyVars, view, primary, qcVars, logVars, outbox, bufferVars, mode,
                 writes, consensusNotify, stopNotify, alive, ended>>

\* A task of view_timeout_start runs into its timeout.
TimerExpires(n) ==
  /\ alive[n] /\ timers[n] > 0 /\ view[n] < MaxView
  /\ timers' = [timers EXCEPT ![n] = @ - 1]
  /\ \/ /\ mode[n].kind \in {"Do", "Done"}
        /\ writes' = [writes EXCEPT ![n] = @ \cup {[task |-> "timer", mode |-> GivenUp(mode[n])]}]
        /\ UNCHANGED viewTimeoutNotify
     \/ /\ mode[n].kind \in {"Init", "NotIsLeader"}
        /\ viewTimeoutNotify' = [viewTimeoutNotify EXCEPT ![n] = TRUE]
        /\ UNCHANGED writes
  /\ UNCHANGED <<netVars, keyVars, view, primary, qcVars, logVars, outbox, bufferVars, mode,
                 consensusNotify, stopNotify, alive, ended>>

\* A task writes what it has decided on; the timer task then notifies.
TaskWrites(n, w) ==
  /\ alive[n] /\ w \in writes[n]
  /\ mode' = [mode EXCEPT ![n] = w.mode]
  /\ writes' = [writes EXCEPT ![n] = @ \ {w}]
  /\ viewTimeoutNotify' = [viewTimeoutNotify EXCEPT ![n] = @ \/ w.task = "timer"]
  /\ UNCHANGED <<netVars, keyVars, view, primary, qcVars, logVars, outbox, bufferVars,
                 consensusNotify, timerVars, alive, ended>>

-----------------------------------------------------------------------------
(* Views.                                                                   *)

\* newview's message: to the next leader, unless that is n.
NewViewMsg(n) ==
  IF Leader(view[n] + 1) = n THEN <<>>
  ELSE <<[type |-> "NewView", from |-> n, view |-> view[n], justify |-> prepareQc[n]]>>

\* change_leader, the next view and view_timeout_start, with t tasks waiting: a stored
\* stop permit ends the new task at once.
EnterNextView(n, t, stop) ==
  /\ primary' = [primary EXCEPT ![n] = Leader(view[n] + 1)]
  /\ view' = [view EXCEPT ![n] = @ + 1]
  /\ timers' = [timers EXCEPT ![n] = IF stop THEN t ELSE t + 1]
  /\ stopNotify' = [stopNotify EXCEPT ![n] = FALSE]

\* The same after view_timeout_stop: notify_one ends a waiting task or, when there is
\* none, leaves a permit.
StopAndEnterNextView(n) ==
  IF timers[n] > 0 THEN EnterNextView(n, timers[n] - 1, stopNotify[n])
  ELSE EnterNextView(n, timers[n], TRUE)

StorageTblsKey(n, u) ==
  /\ CanOpen(n, u, "TBLSKey")
  /\ mail' = mail \ {u}
  /\ keypair' = [keypair EXCEPT ![n] = TRUE]
  /\ UNCHANGED <<sent, seen, pks, view, primary, qcVars, logVars, outbox, bufferVars, modeVars,
                 consensusNotify, timerVars, alive, ended>>

StorageConsensusNodePk(n, m) ==
  /\ CanReceive(n, m, "ConsensusNodePKsInfo")
  /\ Saw(n, m)
  /\ pks' = [pks EXCEPT ![n] = TRUE]
  /\ Queue(n, NewViewMsg(n))
  /\ EnterNextView(n, timers[n], stopNotify[n])
  /\ UNCHANGED <<sent, mail, keypair, qcVars, logVars, bufferVars, modeVars, consensusNotify,
                 alive, ended>>

\* The view_timeout_notify arm.
ViewTimeout(n) ==
  /\ alive[n] /\ viewTimeoutNotify[n]
  /\ viewTimeoutNotify' = [viewTimeoutNotify EXCEPT ![n] = FALSE]
  /\ Queue(n, NewViewMsg(n))
  /\ EnterNextView(n, timers[n], stopNotify[n])
  /\ UNCHANGED <<netVars, keyVars, qcVars, logVars, bufferVars, mode, writes, consensusNotify,
                 alive, ended>>

\* get_high_qc_by_view; two certificates of one view make it the first one met.
HighQcs(n, nvs) ==
  LET qcs == ({m.justify : m \in nvs} \cup {prepareQc[n]}) \ {NoQC}
  IN IF qcs = {} THEN {NoQC} ELSE {qc \in qcs : \A other \in qcs : other.view <= qc.view}

\* handle_newview: whatever view n is in, a quorum makes it a proposer.
HandleNewview(n, u) ==
  /\ CanOpen(n, u, "NewView")
  /\ mail' = mail \ {u}
  /\ newviews' = [newviews EXCEPT ![n] = @ \cup {u.msg}]
  /\ LET nvs == {m \in newviews'[n] : m.view = u.msg.view} IN
     \/ /\ Cardinality(nvs) = Threshold
        /\ \E qc \in HighQcs(n, nvs) : highQc' = [highQc EXCEPT ![n] = qc]
        /\ UpdateMode(n, Mode("Do", mode[n].n))
     \/ /\ Cardinality(nvs) # Threshold
        /\ UNCHANGED <<highQc, modeVars>>
  /\ UNCHANGED <<sent, seen, keyVars, view, primary, prepareQc, lockedQc, votes, outbox,
                 bufferVars, consensusNotify, timerVars, alive, ended>>

-----------------------------------------------------------------------------
(* Requests.                                                                *)

\* The Request arm of the gossip events.
ReceiveRequest(n, m) ==
  /\ CanReceive(n, m, "Request")
  /\ Saw(n, m)
  /\ buffer' = [buffer EXCEPT ![n] = Append(@, m.cmd)]
  /\ bufferMap' = [bufferMap EXCEPT ![n] = @ \cup {m.cmd}]
  /\ UpdateMode(n, IF mode[n].kind = "Init" THEN Mode("NotIsLeader", 1)
                   ELSE Mode(mode[n].kind, mode[n].n + 1))
  /\ UNCHANGED <<sent, mail, keyVars, view, primary, qcVars, logVars, outbox, consensusNotify,
                 timerVars, alive, ended>>

\* The consensus_notify arm with handle_request: the first request of the buffer, in
\* the view n is in by now and with the high_qc it has by now.
StartConsensus(n) ==
  /\ alive[n] /\ consensusNotify[n] /\ view[n] < MaxView
  /\ consensusNotify' = [consensusNotify EXCEPT ![n] = FALSE]
  /\ \/ /\ buffer[n] = <<>>
        /\ UNCHANGED outbox
     \/ /\ buffer[n] # <<>> /\ Head(buffer[n]) \in bufferMap[n]
        /\ LET parent == IF highQc[n] = NoQC THEN NoBlock ELSE highQc[n].block IN
           Queue(n, <<[type |-> "Prepare", from |-> n, view |-> view[n],
                       block |-> Block(Head(buffer[n]), parent), justify |-> highQc[n]]>>)
  /\ UNCHANGED <<netVars, keyVars, view, primary, qcVars, logVars, bufferVars, modeVars, timerVars,
                 alive, ended>>

\* Mutant: the list is shortened without a look at the map.
TakenOutUnasked(n, r) ==
  /\ buffer' = [buffer EXCEPT ![n] = IF @ = <<>> THEN @ ELSE Tail(@)]
  /\ bufferMap' = [bufferMap EXCEPT ![n] = @ \ {r}]

\* The End arm drops the first request of the list and the decided one of the map.
TakenOut(n, r) ==
  IF r \in bufferMap[n]
    THEN /\ buffer' = [buffer EXCEPT ![n] = Tail(@)]
         /\ bufferMap' = [bufferMap EXCEPT ![n] = @ \ {r}]
    ELSE UNCHANGED bufferVars

\* The msg_rx arm: the channel's first message leaves the node.
Transmit(n) ==
  LET msg == Head(outbox[n])
      left == Len(buffer'[n])
  IN
  /\ alive[n] /\ outbox[n] # <<>>
  /\ outbox' = [outbox EXCEPT ![n] = Tail(@)]
  /\ \/ /\ msg.type \in VoteKind \cup {"NewView"}
        /\ mail' = mail \cup {[to |-> primary[n], msg |-> msg]}
        /\ UNCHANGED <<sent, bufferVars, mode>>
     \/ /\ msg.type = "End"
        /\ TakenOut(n, msg.cmd)
        /\ mode' = [mode EXCEPT ![n] = IF left = 0 THEN InitMode ELSE Mode("NotIsLeader", left)]
        /\ UNCHANGED <<sent, mail>>
     \/ /\ msg.type \in {"Prepare", "PreCommit", "Commit", "Decide"}
        /\ sent' = sent \cup {msg}
        /\ UNCHANGED <<mail, bufferVars, mode>>
  /\ UNCHANGED <<seen, keyVars, view, primary, qcVars, logVars, writes, viewTimeoutNotify,
                 consensusNotify, timerVars, alive, ended>>

-----------------------------------------------------------------------------
(* The phases.                                                              *)

SafeNode(n, m) ==
  IF lockedQc[n] = NoQC
    THEN m.justify.view > 0 \/ m.block.parent = NoBlock
    ELSE m.justify.view > lockedQc[n].view \/ m.block.parent = lockedQc[n].block

\* A proposal without a certificate is not held against the lock.
AcceptsPrepare(n, m) ==
  IF m.justify = NoQC
    THEN m.block.parent = NoBlock
    ELSE m.justify.block = m.block.parent /\ SafeNode(n, m)

\* handle_prepare: the view of the proposal is not compared with n's.
HandlePrepare(n, m) ==
  /\ CanReceive(n, m, "Prepare")
  /\ AcceptsPrepare(n, m)
  /\ Saw(n, m)
  /\ primary' = [primary EXCEPT ![n] = m.from]
  /\ Queue(n, IF keypair[n] THEN <<Msg("PrepareVote", n, m.view, m.block)>> ELSE <<>>)
  /\ UNCHANGED <<sent, mail, keyVars, view, qcVars, logVars, bufferVars, modeVars,
                 consensusNotify, timerVars, alive, ended>>

\* The votes like u's, u's among them.
Ballot(n, u) ==
  {m \in votes[n] \cup {u.msg} : m.type = u.msg.type /\ m.view = u.msg.view /\ m.block = u.msg.block}

\* u makes the votes of one phase for one view and block a certificate.
Certifies(n, u) == Cardinality(Ballot(n, u)) = Threshold

RecordVote(n, u) ==
  /\ mail' = mail \ {u}
  /\ votes' = [votes EXCEPT ![n] = @ \cup {u.msg}]

\* handle_prepare_vote and handle_precommit_vote; next carries the certificate.
CollectVote(n, u, t, next) ==
  /\ CanOpen(n, u, t) /\ pks[n]
  /\ RecordVote(n, u)
  /\ \/ /\ Certifies(n, u) /\ keypair[n]
        /\ Queue(n, <<Msg(next, n, u.msg.view, u.msg.block)>>)
     \/ ~Certifies(n, u) /\ UNCHANGED outbox
  /\ UNCHANGED <<sent, seen, keyVars, view, primary, qcVars, newviews, bufferVars, modeVars,
                 consensusNotify, timerVars, alive, ended>>

HandlePrepareVote(n, u) == CollectVote(n, u, "PrepareVote", "PreCommit")

HandlePrecommitVote(n, u) == CollectVote(n, u, "PreCommitVote", "Commit")

\* Mutant: a certificate of any view is taken.
InAnyView(n, m, t) == CanReceive(n, m, t) /\ keypair[n]

\* The certificate must be for n's view.
InView(n, m, t) == CanReceive(n, m, t) /\ m.view = view[n] /\ keypair[n]

\* Mutant: prepare_qc is not kept.
HandlePrecommitForgets(n, m) ==
  /\ InView(n, m, "PreCommit")
  /\ Saw(n, m)
  /\ Queue(n, <<Msg("PreCommitVote", n, m.view, m.block)>>)
  /\ UNCHANGED <<sent, mail, keyVars, view, primary, qcVars, logVars, bufferVars,
                 modeVars, consensusNotify, timerVars, alive, ended>>

\* Mutant: the vote is the one of handle_commit.
HandlePrecommitVotesCommit(n, m) ==
  /\ InView(n, m, "PreCommit")
  /\ Saw(n, m)
  /\ prepareQc' = [prepareQc EXCEPT ![n] = QC(m.view, m.block)]
  /\ Queue(n, <<Msg("CommitVote", n, m.view, m.block)>>)
  /\ UNCHANGED <<sent, mail, keyVars, view, primary, highQc, lockedQc, logVars, bufferVars,
                 modeVars, consensusNotify, timerVars, alive, ended>>

HandlePrecommit(n, m) ==
  /\ InView(n, m, "PreCommit")
  /\ Saw(n, m)
  /\ prepareQc' = [prepareQc EXCEPT ![n] = QC(m.view, m.block)]
  /\ Queue(n, <<Msg("PreCommitVote", n, m.view, m.block)>>)
  /\ UNCHANGED <<sent, mail, keyVars, view, primary, highQc, lockedQc, logVars, bufferVars,
                 modeVars, consensusNotify, timerVars, alive, ended>>

\* Mutant: the lock is not taken.
HandleCommitNoLock(n, m) ==
  /\ InView(n, m, "Commit")
  /\ Saw(n, m)
  /\ Queue(n, <<Msg("CommitVote", n, m.view, m.block)>>)
  /\ UNCHANGED <<sent, mail, keyVars, view, primary, qcVars, logVars, bufferVars,
                 modeVars, consensusNotify, timerVars, alive, ended>>

HandleCommit(n, m) ==
  /\ InView(n, m, "Commit")
  /\ Saw(n, m)
  /\ lockedQc' = [lockedQc EXCEPT ![n] = QC(m.view, m.block)]
  /\ Queue(n, <<Msg("CommitVote", n, m.view, m.block)>>)
  /\ UNCHANGED <<sent, mail, keyVars, view, primary, highQc, prepareQc, logVars, bufferVars,
                 modeVars, consensusNotify, timerVars, alive, ended>>

\* What handle_commit_vote and handle_decide have in common: the timer is stopped, an
\* End is queued, and n goes to the next view.
Decided(n, v, b, first) ==
  /\ ended' = [ended EXCEPT ![n] = @ \cup {QC(v, b)}]
  /\ Queue(n, first \o <<[type |-> "End", cmd |-> b.cmd]>> \o NewViewMsg(n))
  /\ StopAndEnterNextView(n)

\* handle_commit_vote: the view certified need not be the view n is in.
HandleCommitVote(n, u) ==
  /\ CanOpen(n, u, "CommitVote") /\ pks[n]
  /\ RecordVote(n, u)
  /\ \/ /\ Certifies(n, u) /\ keypair[n]
        /\ Decided(n, u.msg.view, u.msg.block, <<Msg("Decide", n, u.msg.view, u.msg.block)>>)
     \/ ~Certifies(n, u) /\ UNCHANGED <<view, primary, outbox, timerVars, ended>>
  /\ UNCHANGED <<sent, seen, keyVars, qcVars, newviews, bufferVars, modeVars, consensusNotify,
                 alive>>

HandleDecide(n, m) ==
  /\ InView(n, m, "Decide") /\ pks[n]
  /\ Saw(n, m)
  /\ Decided(n, m.view, m.block, <<>>)
  /\ UNCHANGED <<sent, mail, keyVars, qcVars, logVars, bufferVars, modeVars, consensusNotify,
                 alive>>

\* Where the handlers unwrap what is not there: the first request of the list is not
\* in the map; a certificate or a vote comes before the keys that verify it, or a
\* decision before the nodes among which change_leader picks the next leader.
Unwraps(n) ==
  \/ consensusNotify[n] /\ view[n] < MaxView
       /\ buffer[n] # <<>> /\ Head(buffer[n]) \notin bufferMap[n]
  \/ \E m \in sent : /\ \E t \in {"PreCommit", "Commit", "Decide"} : CanReceive(n, m, t)
                     /\ m.view = view[n]
                     /\ ~keypair[n] \/ (m.type = "Decide" /\ ~pks[n])
  \/ \E u \in mail : /\ \E t \in VoteKind : CanOpen(n, u, t)
                     /\ ~pks[n] \/ (Certifies(n, u) /\ ~keypair[n])

Panics(n) ==
  /\ alive[n] /\ Unwraps(n)
  /\ alive' = [alive EXCEPT ![n] = FALSE]
  /\ UNCHANGED <<netVars, keyVars, view, primary, qcVars, logVars, outbox, bufferVars, modeVars,
                 consensusNotify, timerVars, ended>>

Deliver(n, m) ==
  \/ StorageConsensusNodePk(n, m) \/ ReceiveRequest(n, m) \/ HandlePrepare(n, m)
  \/ HandlePrecommit(n, m) \/ HandleCommit(n, m) \/ HandleDecide(n, m)

Open(n, u) ==
  \/ StorageTblsKey(n, u) \/ HandleNewview(n, u) \/ HandlePrepareVote(n, u)
  \/ HandlePrecommitVote(n, u) \/ HandleCommitVote(n, u)

Next ==
  \/ DistributeKey
  \/ \E r \in Request : CreateRequest(r)
  \/ \E n \in Node :
       \/ ProposalStateCheck(n) \/ TimerExpires(n) \/ ViewTimeout(n)
       \/ StartConsensus(n) \/ Transmit(n) \/ Panics(n)
       \/ \E w \in writes[n] : TaskWrites(n, w)
       \/ \E m \in sent : Deliver(n, m)
       \/ \E u \in mail : Open(n, u)

Spec == Init /\ [][Next]_vars

-----------------------------------------------------------------------------
(* Properties.                                                              *)

QcView(qc) == IF qc = NoQC THEN 0 ELSE qc.view

\* Every variable has its type; no node holds a certificate of a view it has not
\* entered, and the channel a handler writes inside the loop that reads it (new) does
\* not fill up.
TypeOK ==
  /\ \A n \in Node : seen[n] \subseteq sent
  /\ \A u \in mail : u.to \in Node
  /\ view \in [Node -> Nat]
  /\ primary \in [Node -> Node \cup {NoNode}]
  /\ \A n \in Node : QcView(prepareQc[n]) <= view[n] /\ QcView(lockedQc[n]) <= view[n]
  /\ \A n \in Node : Len(outbox[n]) <= ChannelCapacity
  /\ mode \in [Node -> [kind : ModeKind, n : Nat]]
  /\ timers \in [Node -> Nat]
  /\ alive \in [Node -> BOOLEAN]

\* handle_commit locks before it votes: when a node ends a block of view v, 2f + 1
\* nodes are locked on a certificate of view v or later, for ever after, although
\* views also end by timeout and the votes were counted in any view.
DecisionLocked ==
  \A n \in Node : \A d \in ended[n] :
    Cardinality({q \in Node : QcView(lockedQc[q]) >= d.view}) >= Threshold

\* The list and the map of buffered requests are changed together but by different
\* rules (the first element, the decided element): they may come to hold different
\* requests, but always the same number, so that remove(0) never meets an empty list.
BuffersInStep == \A n \in Node : Len(buffer[n]) = Cardinality(bufferMap[n])

\* A running node that has entered a view has exactly one timer, waiting, run out, or
\* run out and noticed: timers do not pile up over the views, and a stop that comes too
\* late costs none, so that a view can always be left.  The one timer need not be the
\* current view's: a stop that finds it run out is stored and ends the timer that newview
\* starts, and the old notification then ends the new view early.
OneTimer ==
  \A n \in Node : alive[n] =>
    timers[n] + Cardinality({w \in writes[n] : w.task = "timer"})
      + (IF viewTimeoutNotify[n] THEN 1 ELSE 0) = (IF view[n] = 0 THEN 0 ELSE 1)

MailMsgs == {u.msg : u \in mail}

LogMsgs == UNION {votes[n] : n \in Node}

Queued(n) == {outbox[n][i] : i \in 1 .. Len(outbox[n])}

QueuedMsgs == UNION {Queued(n) : n \in Node}

Votes(M) == {m \in M : m.type \in VoteKind}

\* The ballots ever cast: in a channel, in flight, or in the log of the receiver.
Cast == Votes(MailMsgs) \cup Votes(LogMsgs) \cup Votes(QueuedMsgs)

VoteType(p) == CASE p = 1 -> "PrepareVote" [] p = 2 -> "PreCommitVote" [] p = 3 -> "CommitVote"

\* A phase's ballots, by voter and by block with its view.
Ballots ==
  [p \in 1 .. 3 |-> {[node |-> m.from, block |-> QC(m.view, m.block)] :
                       m \in {x \in Cast : x.type = VoteType(p)}}]

Ladder == INSTANCE PhaseLadder WITH Phases <- 3, ballots <- Ballots, decided <- ended

\* The three phases implement PhaseLadder although a vote may be sent to whoever is the
\* primary later, or to the voter itself: a node votes in a phase only for a block certified
\* in the one before, and ends only blocks with a commit certificate.
ImplementsLadder == Ladder!Spec
=============================================================================
