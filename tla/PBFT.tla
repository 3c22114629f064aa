-------------------------------- MODULE PBFT --------------------------------
(***************************************************************************)
(* One protocol run of the PBFT consensus node that main.rs ships:         *)
(* protocols/src/pbft/{protocol,log,state,common}.rs driven by the event    *)
(* loop of components/src/protocol_actuator.rs (message_handler_start and   *)
(* check_protocol_phase_state).  Every action is one arm of that loop       *)
(* together with the whole handler it calls.                               *)
(*                                                                         *)
(* Data the properties do not tell apart is left out:                      *)
(*  - view is 0 throughout: no code path starts a view change, because      *)
(*    view_timeout_start has no caller and broadcast_viewchange is only     *)
(*    reached from handle_viewchange;                                      *)
(*  - the sequence number is current_sequence_number + 1 and               *)
(*    current_sequence_number is never assigned, so every request is       *)
(*    proposed under number 1 and log.requests has at most that one entry;  *)
(*  - no CheckPoint message is ever built, so the stable checkpoint is 0    *)
(*    and number 1 always lies in the water marks (0, 100].                 *)
(***************************************************************************)
EXTENDS Naturals, Sequences, FiniteSets

CONSTANTS
  Node,              \* the consensus nodes subscribed to the "Consensus" topic
  Leader,            \* the node started with is_leader = true
  ClientRequest,     \* requests the controller hands out (sendConsensusRequests)
  GeneratedRequest,  \* requests the leader invents when its buffer runs dry
  FaultTolerance,    \* State::fault_tolerance_count (the code's value is 1)
  NoRequest,         \* absent entry of log.requests
  NoNode             \* State::primary before it is set (an empty vector)

Request == ClientRequest \cup GeneratedRequest

ASSUME LeaderAssumption == Leader \in Node
ASSUME NodeAssumption == IsFiniteSet(Node) /\ NoNode \notin Node
ASSUME RequestAssumption == NoRequest \notin Request
ASSUME FaultAssumption == FaultTolerance \in Nat \ {0}

VARIABLES
  sent,            \* every gossip message published on the "Consensus" topic
  seen,            \* seen[n]: messages the gossip layer has handed to n (each once)
  replies,         \* Reply unicasts in flight
  pk,              \* pk[n]: nodes whose public key n stores (consensus_node_pk)
  primary,         \* primary[n]: State::primary
  requests,        \* requests[n]: log.requests under the one sequence number
  messages,        \* messages[n]: PrePrepare, Prepare and Commit recorded in log.messages
  prepared,        \* prepared[n]: requests whose request_phase_state is Prepared
  replyMessages,   \* replyMessages[n]: log.reply_messages
  taken,           \* taken[n]: taken_requests
  requestBuffer,   \* the leader's request_buffer
  handedOut,       \* has the controller sent its requests?
  keyDistribute,   \* permit of key_distribute_notify (leader)
  consensusState,  \* the flag consensus_state (leader)
  clearPending,    \* the state-check task has notified and not yet cleared the flag
  consensusNotify, \* permit of consensus_notify (leader)
  startData,       \* requests reported to the analyzer by ConsensusStartData
  endData,         \* endData[n]: the requests n reported by ConsensusEndData, in order
  over             \* requests the leader closed with PhaseState::Over

netVars == <<sent, seen, replies>>
logVars == <<requests, messages, prepared, replyMessages>>
actuatorVars == <<requestBuffer, handedOut, keyDistribute, consensusState,
                  clearPending, consensusNotify, startData, endData, over>>
vars == <<netVars, pk, primary, logVars, taken, actuatorVars>>

-----------------------------------------------------------------------------
(* Messages.  A signature covers the message key, so it verifies exactly    *)
(* when the receiver stores the sender's public key.                       *)

MessageType == {"DistributePK", "PublicKey", "PrePrepare", "Prepare", "Commit"}

Message == [type : MessageType, from : Node, req : Request \cup {NoRequest}]

Reply == [from : Node, to : Node, req : Request]

Msg(t, n, r) == [type |-> t, from |-> n, req |-> r]

\* Gossip hands a published message to every other node at most once: the
\* message id is a hash of source and data.
CanReceive(n, m, t) == m \in sent \ seen[n] /\ m.from # n /\ m.type = t

\* get_local_messages_count_by_hash for the key (type, view 0, number 1, hash of r).
Count(msgs, t, r) == Cardinality({m \in msgs : m.type = t /\ m.req = r})

ReplyCount(reps, r) == Cardinality({m \in reps : m.req = r})

\* SendType::Broadcast.
Broadcast(ms) == sent' = sent \cup ms

\* record_preprepare, record_prepare, record_commit: under the key of the message.
Record(n, m) == messages' = [messages EXCEPT ![n] = @ \cup {m}]

\* record_reply.
WithReply(n, m) == replyMessages[n] \cup {m}

\* Mutant: f instead of 2f.
ThresholdTooSmall == FaultTolerance

Threshold == 2 * FaultTolerance

\* Mutant: off by one.
ReplyThresholdTooSmall == Cardinality(Node) - FaultTolerance - 2

ReplyThreshold == Cardinality(Node) - FaultTolerance - 1

-----------------------------------------------------------------------------
Init ==
  /\ sent = {}
  /\ seen = [n \in Node |-> {}]
  /\ replies = {}
  /\ pk = [n \in Node |-> {}]
  /\ primary = [n \in Node |-> NoNode]
  /\ requests = [n \in Node |-> NoRequest]
  /\ messages = [n \in Node |-> {}]
  /\ prepared = [n \in Node |-> {}]
  /\ replyMessages = [n \in Node |-> {}]
  /\ taken = [n \in Node |-> {}]
  /\ requestBuffer = {}
  /\ handedOut = FALSE
  /\ keyDistribute = TRUE
  /\ consensusState = FALSE
  /\ clearPending = FALSE
  /\ consensusNotify = FALSE
  /\ startData = {}
  /\ endData = [n \in Node |-> <<>>]
  /\ over = {}

\* PhaseState::OverMessage at the leader: the messages go out and consensus_state
\* is raised.
OverMessage(ms) == Broadcast(ms) /\ consensusState' = TRUE

\* The key-distribution arm: the leader asks for all public keys and publishes its
\* own.
ExtraInitialStart ==
  /\ keyDistribute
  /\ keyDistribute' = FALSE
  /\ primary' = [primary EXCEPT ![Leader] = Leader]
  /\ OverMessage({Msg("DistributePK", Leader, NoRequest),
                  Msg("PublicKey", Leader, NoRequest)})
  /\ UNCHANGED <<seen, replies, pk, logVars, taken, requestBuffer, handedOut,
                 clearPending, consensusNotify, startData, endData, over>>

\* The background task of state_check_start turns the flag into a permit of
\* consensus_notify.  It releases the lock between notify_one and the
\* assignment that clears the flag, so the event loop may run in between.
StateCheckNotify ==
  /\ consensusState /\ ~clearPending
  /\ consensusNotify' = TRUE
  /\ clearPending' = TRUE
  /\ UNCHANGED <<netVars, pk, primary, logVars, taken, requestBuffer, handedOut,
                 keyDistribute, consensusState, startData, endData, over>>

StateCheckClear ==
  /\ clearPending
  /\ clearPending' = FALSE
  /\ consensusState' = FALSE
  /\ UNCHANGED <<netVars, pk, primary, logVars, taken, requestBuffer, handedOut,
                 keyDistribute, consensusNotify, startData, endData, over>>

\* MakeConsensusRequests reaches the leader while the protocol runs.
MakeConsensusRequests ==
  /\ ~handedOut
  /\ handedOut' = TRUE
  /\ requestBuffer' = requestBuffer \cup ClientRequest
  /\ consensusState' = (consensusState \/ requestBuffer' # {})
  /\ UNCHANGED <<netVars, pk, primary, logVars, taken, keyDistribute,
                 clearPending, consensusNotify, startData, endData, over>>

\* Mutant: a later PrePrepare overwrites the slot.
RecordRequestOverwrite(n, r) == requests' = [requests EXCEPT ![n] = r]

\* record_request: an occupied slot keeps its request.
RecordRequest(n, r) ==
  requests' = [requests EXCEPT ![n] = IF @ = NoRequest THEN r ELSE @]

\* handle_request at the leader.
HandleRequest(r) ==
  /\ taken' = [taken EXCEPT ![Leader] = @ \cup {r}]
  /\ primary' = [primary EXCEPT ![Leader] = Leader]
  /\ RecordRequest(Leader, r)
  /\ Broadcast({Msg("PrePrepare", Leader, r)})

\* The buffer after the leader's consensus arm looked for an untaken request:
\* when there is none it is refilled with requests the leader makes up.
RefilledBuffer ==
  IF requestBuffer \subseteq taken[Leader]
    THEN requestBuffer \cup GeneratedRequest
    ELSE requestBuffer

\* The consensus_notify arm: report ConsensusStartData and propose.  A request
\* may be proposed while an earlier one is still in progress.
StartConsensus ==
  /\ consensusNotify
  /\ consensusNotify' = FALSE
  /\ requestBuffer' = RefilledBuffer
  /\ \E r \in RefilledBuffer \ taken[Leader] :
       /\ HandleRequest(r)
       /\ startData' = startData \cup {r}
  /\ UNCHANGED <<seen, replies, pk, messages, prepared, replyMessages,
                 handedOut, keyDistribute, consensusState, clearPending, endData, over>>

\* Mutant: the request for keys goes unanswered.
HandleDistributePKSilent(n, m) ==
  /\ CanReceive(n, m, "DistributePK")
  /\ seen' = [seen EXCEPT ![n] = @ \cup {m}]
  /\ UNCHANGED <<sent, replies, pk, primary, logVars, taken, actuatorVars>>

HandleDistributePK(n, m) ==
  /\ CanReceive(n, m, "DistributePK")
  /\ seen' = [seen EXCEPT ![n] = @ \cup {m}]
  /\ Broadcast({Msg("PublicKey", n, NoRequest)})
  /\ UNCHANGED <<replies, pk, primary, logVars, taken, actuatorVars>>

StoragePublicKey(n, m) ==
  /\ CanReceive(n, m, "PublicKey")
  /\ seen' = [seen EXCEPT ![n] = @ \cup {m}]
  /\ pk' = [pk EXCEPT ![n] = @ \cup {m.from}]
  /\ UNCHANGED <<sent, replies, primary, logVars, taken, actuatorVars>>

\* Mutant: the sender is not adopted as primary.
TakeProposalOnly(n, m) ==
  /\ taken' = [taken EXCEPT ![n] = @ \cup {m.req}]
  /\ UNCHANGED primary

\* The head of handle_preprepare marks the request taken and adopts the sender
\* as primary, before the signature is checked.
TakeProposal(n, m) ==
  /\ taken' = [taken EXCEPT ![n] = @ \cup {m.req}]
  /\ primary' = [primary EXCEPT ![n] = m.from]

\* An occupied slot keeps its request, but the Prepare is published all the same.
HandlePreprepare(n, m) ==
  /\ CanReceive(n, m, "PrePrepare")
  /\ seen' = [seen EXCEPT ![n] = @ \cup {m}]
  /\ TakeProposal(n, m)
  /\ \/ /\ m.from \in pk[n]
        /\ RecordRequest(n, m.req)
        /\ Record(n, m)
        /\ Broadcast({Msg("Prepare", n, m.req)})
     \/ /\ m.from \notin pk[n]
        /\ UNCHANGED <<requests, messages, sent>>
  /\ UNCHANGED <<replies, pk, prepared, replyMessages, actuatorVars>>

AcceptsPrepare(n, m) ==
  /\ m.from \in pk[n]
  /\ m.req \notin prepared[n]
  /\ requests[n] = m.req

HandlePrepare(n, m) ==
  /\ CanReceive(n, m, "Prepare")
  /\ seen' = [seen EXCEPT ![n] = @ \cup {m}]
  /\ \/ /\ AcceptsPrepare(n, m)
        /\ Record(n, m)
        /\ \/ /\ Count(messages'[n], "Prepare", m.req) = Threshold
              /\ prepared' = [prepared EXCEPT ![n] = @ \cup {m.req}]
              /\ Broadcast({Msg("Commit", n, m.req)})
           \/ /\ Count(messages'[n], "Prepare", m.req) # Threshold
              /\ UNCHANGED <<prepared, sent>>
     \/ /\ ~AcceptsPrepare(n, m)
        /\ UNCHANGED <<messages, prepared, sent>>
  /\ UNCHANGED <<replies, pk, primary, requests, replyMessages, taken,
                 actuatorVars>>

\* handle_commit does not ask whether n itself is prepared.
AcceptsCommit(n, m) ==
  /\ Count(messages[n], "Commit", m.req) < Threshold
  /\ m.from \in pk[n]
  /\ requests[n] = m.req

\* Mutant: the log is not reset after a request is executed.
LogResetForgotten(n) == UNCHANGED <<requests, messages, prepared>>

\* ConsensusLog::reset; reply_messages survives it.
LogReset(n) ==
  /\ requests' = [requests EXCEPT ![n] = NoRequest]
  /\ messages' = [messages EXCEPT ![n] = {}]
  /\ prepared' = [prepared EXCEPT ![n] = {}]

\* SendType::Unicast to the primary; to oneself it is dropped, a node is not connected
\* to itself.
SendReply(n, r) ==
  replies' = IF primary[n] = n THEN replies
             ELSE replies \cup {[from |-> n, to |-> primary[n], req |-> r]}

\* PhaseState::Complete: answer the primary, forget the log, tell the analyzer and
\* drop the request from the buffer.
Complete(n, r) ==
  /\ LogReset(n)
  /\ SendReply(n, r)
  /\ endData' = [endData EXCEPT ![n] = Append(@, r)]
  /\ requestBuffer' = IF n = Leader THEN requestBuffer \ {r} ELSE requestBuffer

HandleCommit(n, m) ==
  /\ CanReceive(n, m, "Commit")
  /\ seen' = [seen EXCEPT ![n] = @ \cup {m}]
  /\ \/ /\ AcceptsCommit(n, m)
        /\ Count(messages[n] \cup {m}, "Commit", m.req) = Threshold
        /\ Complete(n, m.req)
     \/ /\ AcceptsCommit(n, m)
        /\ Count(messages[n] \cup {m}, "Commit", m.req) # Threshold
        /\ Record(n, m)
        /\ UNCHANGED <<replies, requests, prepared, endData, requestBuffer>>
     \/ /\ ~AcceptsCommit(n, m)
        /\ UNCHANGED <<replies, requests, messages, prepared, endData, requestBuffer>>
  /\ UNCHANGED <<sent, pk, primary, replyMessages, taken, handedOut,
                 keyDistribute, consensusState, clearPending, consensusNotify,
                 startData, over>>

\* handle_reply: with enough replies the leader clears its log, whether or not
\* it completed the request itself, and Over raises consensus_state again.
HandleReply(n, m) ==
  /\ m \in replies
  /\ m.to = n
  /\ replies' = replies \ {m}
  /\ LET recorded == WithReply(n, m) IN
     \/ /\ m.from \in pk[n]
        /\ ReplyCount(recorded, m.req) = ReplyThreshold
        /\ LogReset(n)
        /\ replyMessages' = [replyMessages EXCEPT ![n] = {}]
        /\ over' = over \cup {m.req}
        /\ consensusState' = (consensusState \/ primary[n] = n)
     \/ /\ m.from \in pk[n]
        /\ ReplyCount(recorded, m.req) # ReplyThreshold
        /\ replyMessages' = [replyMessages EXCEPT ![n] = recorded]
        /\ UNCHANGED <<requests, messages, prepared, over, consensusState>>
     \/ /\ m.from \notin pk[n]
        /\ UNCHANGED <<logVars, over, consensusState>>
  /\ UNCHANGED <<sent, seen, pk, primary, taken, requestBuffer, handedOut,
                 keyDistribute, clearPending, consensusNotify, startData, endData>>

\* consensus_protocol_message_handler: one message taken from the swarm.
Deliver(n, m) ==
  \/ HandleDistributePK(n, m)
  \/ StoragePublicKey(n, m)
  \/ HandlePreprepare(n, m)
  \/ HandlePrepare(n, m)
  \/ HandleCommit(n, m)

Receive(n) ==
  \/ \E m \in sent : Deliver(n, m)
  \/ \E m \in replies : HandleReply(n, m)

Next ==
  \/ ExtraInitialStart
  \/ StateCheckNotify
  \/ StateCheckClear
  \/ MakeConsensusRequests
  \/ StartConsensus
  \/ \E n \in Node : Receive(n)

Spec == Init /\ [][Next]_vars

\* The event loops and the state-check task keep running and no message is lost.
\* A Receive step uses up one message, so WF of Receive(n) delivers them all.
Fairness ==
  /\ WF_vars(ExtraInitialStart)
  /\ WF_vars(StateCheckNotify)
  /\ WF_vars(StateCheckClear)
  /\ WF_vars(StartConsensus)
  /\ \A n \in Node : WF_vars(Receive(n))

FairSpec == Spec /\ Fairness

-----------------------------------------------------------------------------
(* Properties *)

\* The types of the variables; in particular a Reply always has a node to go to,
\* because a request is never executed before primary is set (handle_commit).
TypeOK ==
  /\ sent \subseteq Message
  /\ seen \in [Node -> SUBSET Message]
  /\ replies \subseteq Reply
  /\ pk \in [Node -> SUBSET Node]
  /\ primary \in [Node -> Node \cup {NoNode}]
  /\ requests \in [Node -> Request \cup {NoRequest}]
  /\ messages \in [Node -> SUBSET Message]
  /\ prepared \in [Node -> SUBSET Request]
  /\ replyMessages \in [Node -> SUBSET Reply]
  /\ taken \in [Node -> SUBSET Request]
  /\ requestBuffer \subseteq Request
  /\ handedOut \in BOOLEAN
  /\ keyDistribute \in BOOLEAN
  /\ consensusState \in BOOLEAN
  /\ clearPending \in BOOLEAN
  /\ consensusNotify \in BOOLEAN
  /\ startData \subseteq Request
  /\ endData \in [Node -> Seq(Request)]
  /\ over \subseteq Request

\* The nodes other than n that published a message of type t for r.
Others(n, t, r) == {x \in Node \ {n} : Msg(t, x, r) \in sent}

Occurs(s, r) == \E i \in 1..Len(s) : s[i] = r

HasExecuted(n, r) == Occurs(endData[n], r)

\* A node's Commit for r rests on 2f Prepares of other nodes.
PrepareCertified(n, r) == Cardinality(Others(n, "Prepare", r)) >= 2 * FaultTolerance

\* A node that reports r to the analyzer as agreed has 2f other nodes' Commits
\* behind it, each Commit has 2f Prepares of other nodes behind it, and the
\* leader really proposed r and reported its start (handle_prepare,
\* handle_commit, and the log that is wiped and reused for every request).
CommitCertificate ==
  \A n \in Node : \A r \in Request :
    HasExecuted(n, r) =>
      /\ Cardinality(Others(n, "Commit", r)) >= 2 * FaultTolerance
      /\ \A x \in Others(n, "Commit", r) : PrepareCertified(x, r)
      /\ Msg("PrePrepare", Leader, r) \in sent
      /\ r \in startData

\* No node executes a request twice, although log.reset() forgets that the
\* request was committed (handle_commit) and late Commits keep arriving.
ExecuteOnce ==
  \A n \in Node : \A i, j \in 1..Len(endData[n]) :
    endData[n][i] = endData[n][j] => i = j

\* When the leader closes a request (PhaseState::Over), n - f - 1 replicas have
\* executed it: replies of different requests are never added up, and a reply
\* left over from an earlier request is not counted (handle_reply).
OverCertified ==
  \A r \in over :
    Cardinality({n \in Node \ {Leader} : HasExecuted(n, r)})
      >= Cardinality(Node) - FaultTolerance - 1

\* A replica gives up the request in its log slot only by executing it: another
\* PrePrepare under the same sequence number never evicts it (record_request).
EvictedOnlyByExecution ==
  [][\A n \in Node \ {Leader} :
       requests[n] # NoRequest /\ requests'[n] # requests[n]
         => requests'[n] = NoRequest
            /\ endData'[n] = Append(endData[n], requests[n])]_vars

\* Once the leader has asked for keys, every node comes to hold the public key
\* of every other node, whatever the order of delivery (extra_initial_start,
\* distribute_public_key, storage_public_key_by_peer_id).
KeysExchanged == <>[](\A n \in Node : pk[n] = Node \ {n})

\* After the leader has closed a request it proposes the next one.
NextProposal == \A r \in Request : r \in over ~> startData = Request

-----------------------------------------------------------------------------
(* The inductive invariant behind CommitCertificate, ExecuteOnce and          *)
(* OverCertified.                                                           *)

\* What a published message vouches for.
Vouched(m) ==
  /\ m.type = "PrePrepare" =>
       m.from = Leader /\ m.req \in startData /\ m.req \in taken[Leader]
  /\ m.type = "Prepare" => Msg("PrePrepare", Leader, m.req) \in sent
  /\ m.type = "Commit" => PrepareCertified(m.from, m.req)
  /\ m.type \in {"PrePrepare", "Prepare", "Commit"} => m.req \in Request

SentInv == \A m \in sent : Vouched(m)

\* A log holds published messages of other nodes.
LogInv == \A n \in Node : \A m \in messages[n] : m \in sent /\ m.from # n

\* What n has logged or executed was proposed to it, and it never holds in its
\* slot a request it has executed.
Proposed(n, r) ==
  IF n = Leader THEN r \in taken[Leader] ELSE Msg("PrePrepare", Leader, r) \in seen[n]

SlotInv ==
  \A n \in Node :
    /\ primary[n] \in {Leader, NoNode}
    /\ requests[n] # NoRequest =>
         /\ primary[n] = Leader
         /\ Proposed(n, requests[n])
         /\ ~HasExecuted(n, requests[n])
    /\ \A r \in Request : HasExecuted(n, r) => Proposed(n, r)

ExecutedInv ==
  \A n \in Node : \A r \in Request :
    HasExecuted(n, r) => Cardinality(Others(n, "Commit", r)) >= 2 * FaultTolerance

\* Every reply, in flight or counted, comes from a replica that executed.
ReplyInv ==
  /\ \A m \in replies : m.to = Leader /\ m.from # Leader /\ HasExecuted(m.from, m.req)
  /\ \A n \in Node : \A m \in replyMessages[n] :
       m.to = Leader /\ m.from # Leader /\ HasExecuted(m.from, m.req)

IInv ==
  /\ TypeOK
  /\ SentInv
  /\ LogInv
  /\ SlotInv
  /\ ExecutedInv
  /\ ExecuteOnce
  /\ ReplyInv
  /\ OverCertified

=============================================================================
