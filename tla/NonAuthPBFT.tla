---------------------------- MODULE NonAuthPBFT ----------------------------
(***************************************************************************)
(* PBFT without signatures (protocols/src/non_authenticated_pbft), one run    *)
(* of it.  It differs from PBFT in what its handlers check: a Prepare or a     *)
(* Commit needs some request in the slot of its number, not its own request,  *)
(* and what a node reports as completed is what the slot holds.              *)
(*                                                                         *)
(* As in PBFT the view is 0 and every request has number 1.  The leader may    *)
(* propose at any time after the start: every request of the controller         *)
(* raises consensus_state, and PBFT models the task that turns it into a       *)
(* wake-up.                                                                 *)
(*                                                                         *)
(* A node in a dishonest mode does not get to misbehave: malicious_trigger     *)
(* first asks for the protocol's current_request, which is todo!(), so the      *)
(* node panics at the first message it would send after the malicious timer.  *)
(***************************************************************************)
EXTENDS Naturals, Sequences, FiniteSets

CONSTANTS
  Node, Leader,
  Request,
  FaultTolerance,    \* State::fault_tolerance_count
  NoRequest,         \* absent entry of log.requests
  NoNode             \* State::primary before it is set

ASSUME NonAuthAssumption ==
  /\ IsFiniteSet(Node) /\ Leader \in Node /\ NoNode \notin Node
  /\ NoRequest \notin Request /\ FaultTolerance \in Nat \ {0}

VARIABLES
  started,         \* has the leader run extra_initial_start?
  sent, seen,      \* gossip published, and taken by each node
  replies,         \* Reply unicasts in flight
  primary,         \* State::primary
  requests,        \* log.requests under number 1
  messages,        \* log.messages: keyed by type and hash, so sets of messages
  prepared,        \* the hashes whose request_phase_state is Prepared
  replyMessages,   \* log.reply_messages
  taken,           \* taken_requests: encoded requests
  startData,       \* requests reported by ConsensusStartData
  malicious,       \* nodes whose malicious_flag is set
  alive,           \* nodes that have not panicked
  endData,         \* the requests each node reported by ConsensusEndData, in order
  over             \* requests the leader closed (PhaseState::Over)

netVars == <<sent, seen, replies>>
logVars == <<requests, messages, prepared, replyMessages>>
modeVars == <<malicious, alive>>
vars == <<started, netVars, primary, logVars, taken, modeVars, startData, endData, over>>

Message == [type : {"PrePrepare", "Prepare", "Commit"}, from : Node, req : Request]
Reply == [from : Node, to : Node, req : Request]

Msg(t, n, r) == [type |-> t, from |-> n, req |-> r]

\* Gossip hands a message to every other node once.
CanReceive(n, m, t) == n \in alive /\ m \in sent \ seen[n] /\ m.from # n /\ m.type = t

See(n, m) == seen' = [seen EXCEPT ![n] = @ \cup {m}]

\* get_local_messages_count_by_hash for the key of type t and the hash of r.
Count(msgs, t, r) == Cardinality({m \in msgs : m.type = t /\ m.req = r})

\* SendType::Broadcast.
Broadcast(ms) == sent' = sent \cup ms

\* record_preprepare, record_prepare, record_commit: under the key of the message.
Record(n, m) == messages' = [messages EXCEPT ![n] = @ \cup {m}]

\* record_reply.
WithReply(n, m) == replyMessages[n] \cup {m}

\* get_local_reply_messages_count_by_hash.
ReplyCount(reps, r) == Cardinality({x \in reps : x.req = r})

\* Mutant: f of 2f.
ThresholdTooSmall == FaultTolerance

Threshold == 2 * FaultTolerance

\* Mutant: off by one.
ReplyThresholdTooSmall == Cardinality(Node) - FaultTolerance - 2

ReplyThreshold == Cardinality(Node) - FaultTolerance - 1

Init ==
  /\ started = FALSE
  /\ sent = {} /\ seen = [n \in Node |-> {}] /\ replies = {}
  /\ primary = [n \in Node |-> NoNode]
  /\ requests = [n \in Node |-> NoRequest]
  /\ messages = [n \in Node |-> {}]
  /\ prepared = [n \in Node |-> {}]
  /\ replyMessages = [n \in Node |-> {}]
  /\ taken = [n \in Node |-> {}]
  /\ malicious = {} /\ alive = Node
  /\ startData = {} /\ endData = [n \in Node |-> <<>>] /\ over = {}

\* extra_initial_start: there are no keys to exchange.
ExtraInitialStart ==
  /\ ~started
  /\ started' = TRUE
  /\ primary' = [primary EXCEPT ![Leader] = Leader]
  /\ UNCHANGED <<netVars, logVars, taken, modeVars, startData, endData, over>>

\* The malicious_notify arm, after the malicious timer of a dishonest mode.
MaliciousNotify(n) ==
  /\ n \in alive \ malicious
  /\ malicious' = malicious \cup {n}
  /\ UNCHANGED <<started, netVars, primary, logVars, taken, alive, startData, endData, over>>

\* malicious_trigger panics in current_request.
MaliciousTrigger(n) == alive' = alive \ {n}

\* PhaseState::ContinueExecute with one broadcast.
ContinueExecute(n, m) ==
  \/ /\ n \notin malicious
     /\ Broadcast({m})
     /\ UNCHANGED alive
  \/ /\ n \in malicious
     /\ MaliciousTrigger(n)
     /\ UNCHANGED sent

\* check_taken_request asks for the bincode form.
CheckTaken(n, r) == [req |-> r, form |-> "bincode"] \in taken[n]

Mark(n, r, form) == taken' = [taken EXCEPT ![n] = @ \cup {[req |-> r, form |-> form]}]

\* record_request: an occupied slot keeps its request.
RecordRequest(n, r) ==
  requests' = [requests EXCEPT ![n] = IF @ = NoRequest THEN r ELSE @]

\* The consensus_notify arm and handle_request: the PrePrepare carries r whatever
\* the slot holds.
HandleRequest(r) ==
  /\ started /\ Leader \in alive /\ ~CheckTaken(Leader, r)
  /\ Mark(Leader, r, "bincode")
  /\ primary' = [primary EXCEPT ![Leader] = Leader]
  /\ RecordRequest(Leader, r)
  /\ ContinueExecute(Leader, Msg("PrePrepare", Leader, r))
  /\ startData' = startData \cup {r}
  /\ UNCHANGED <<started, seen, replies, messages, prepared, replyMessages, malicious, endData, over>>

\* Mutant: the sender is not adopted as primary.
TakeProposalOnly(n, m) == Mark(n, m.req, "json") /\ UNCHANGED primary

\* The request is marked in its JSON form, which nobody asks for.
TakeProposal(n, m) ==
  /\ Mark(n, m.req, "json")
  /\ primary' = [primary EXCEPT ![n] = m.from]

HandlePreprepare(n, m) ==
  /\ CanReceive(n, m, "PrePrepare")
  /\ See(n, m)
  /\ TakeProposal(n, m)
  /\ RecordRequest(n, m.req)
  /\ Record(n, m)
  /\ ContinueExecute(n, Msg("Prepare", n, m.req))
  /\ UNCHANGED <<started, replies, prepared, replyMessages, malicious, startData, endData, over>>

\* The "check m hash" of handle_prepare: there is a request, whichever it is.
AcceptsPrepare(n, m) == m.req \notin prepared[n] /\ requests[n] # NoRequest

HandlePrepare(n, m) ==
  /\ CanReceive(n, m, "Prepare")
  /\ See(n, m)
  /\ \/ /\ AcceptsPrepare(n, m)
        /\ Record(n, m)
        /\ \/ /\ Count(messages'[n], "Prepare", m.req) = Threshold
              /\ prepared' = [prepared EXCEPT ![n] = @ \cup {m.req}]
              /\ ContinueExecute(n, Msg("Commit", n, m.req))
           \/ /\ Count(messages'[n], "Prepare", m.req) # Threshold
              /\ UNCHANGED <<prepared, sent, alive>>
     \/ /\ ~AcceptsPrepare(n, m)
        /\ UNCHANGED <<messages, prepared, sent, alive>>
  /\ UNCHANGED <<started, replies, primary, requests, replyMessages, taken, malicious,
                 startData, endData, over>>

AcceptsCommit(n, m) ==
  Count(messages[n], "Commit", m.req) < Threshold /\ requests[n] # NoRequest

\* Mutant: the slot is not emptied.
LogResetKeepsRequest(n) ==
  /\ messages' = [messages EXCEPT ![n] = {}]
  /\ prepared' = [prepared EXCEPT ![n] = {}]
  /\ UNCHANGED requests

\* ConsensusLog::reset.
LogReset(n) ==
  /\ requests' = [requests EXCEPT ![n] = NoRequest]
  /\ messages' = [messages EXCEPT ![n] = {}]
  /\ prepared' = [prepared EXCEPT ![n] = {}]

\* SendType::Unicast to the primary; to oneself it is dropped.
SendReply(n, r) ==
  replies' = IF primary[n] = n THEN replies
             ELSE replies \cup {[from |-> n, to |-> primary[n], req |-> r]}

\* The end of handle_commit, and PhaseState::Complete: the reply and the end data
\* name the request in the slot.  The flag counts for a unicast only at the leader.
Complete(n) ==
  /\ LogReset(n)
  /\ \/ /\ n \notin malicious \cap {Leader}
        /\ SendReply(n, requests[n])
        /\ endData' = [endData EXCEPT ![n] = Append(@, requests[n])]
        /\ UNCHANGED alive
     \/ /\ n \in malicious \cap {Leader}
        /\ MaliciousTrigger(n)
        /\ UNCHANGED <<replies, endData>>

HandleCommit(n, m) ==
  /\ CanReceive(n, m, "Commit")
  /\ See(n, m)
  /\ \/ /\ AcceptsCommit(n, m)
        /\ Count(messages[n] \cup {m}, "Commit", m.req) = Threshold
        /\ Complete(n)
     \/ /\ AcceptsCommit(n, m)
        /\ Count(messages[n] \cup {m}, "Commit", m.req) # Threshold
        /\ Record(n, m)
        /\ UNCHANGED <<replies, requests, prepared, alive, endData>>
     \/ /\ ~AcceptsCommit(n, m)
        /\ UNCHANGED <<replies, requests, messages, prepared, alive, endData>>
  /\ UNCHANGED <<started, sent, primary, replyMessages, taken, malicious, startData, over>>

\* handle_reply: with enough replies for one command the leader's log is reset,
\* whether or not the leader has completed it.
HandleReply(n, m) ==
  /\ n \in alive /\ m \in replies /\ m.to = n
  /\ replies' = replies \ {m}
  /\ LET recorded == WithReply(n, m)
         count == ReplyCount(recorded, m.req)
     IN \/ /\ count = ReplyThreshold
           /\ LogReset(n)
           /\ replyMessages' = [replyMessages EXCEPT ![n] = {}]
           /\ over' = over \cup {m.req}
        \/ /\ count # ReplyThreshold
           /\ replyMessages' = [replyMessages EXCEPT ![n] = recorded]
           /\ UNCHANGED <<requests, messages, prepared, over>>
  /\ UNCHANGED <<started, sent, seen, primary, taken, modeVars, startData, endData>>

\* consensus_protocol_message_handler.
Deliver(n, m) ==
  \/ HandlePreprepare(n, m)
  \/ HandlePrepare(n, m)
  \/ HandleCommit(n, m)

Next ==
  \/ ExtraInitialStart
  \/ \E r \in Request : HandleRequest(r)
  \/ \E n \in Node : MaliciousNotify(n)
  \/ \E n \in Node : \E m \in sent : Deliver(n, m)
  \/ \E n \in Node : \E m \in replies : HandleReply(n, m)

Spec == Init /\ [][Next]_vars

-----------------------------------------------------------------------------
(* Properties *)

\* The types of the variables; a Reply always has a node to go to.
TypeOK ==
  /\ started \in BOOLEAN
  /\ sent \subseteq Message /\ seen \in [Node -> SUBSET Message] /\ replies \subseteq Reply
  /\ primary \in [Node -> Node \cup {NoNode}]
  /\ requests \in [Node -> Request \cup {NoRequest}]
  /\ messages \in [Node -> SUBSET Message]
  /\ prepared \in [Node -> SUBSET Request]
  /\ replyMessages \in [Node -> SUBSET Reply]
  /\ taken \in [Node -> SUBSET [req : Request, form : {"bincode", "json"}]]
  /\ malicious \subseteq Node /\ alive \subseteq Node
  /\ startData \subseteq Request
  /\ endData \in [Node -> Seq(Request)]
  /\ over \subseteq Request

\* The requests that 2f nodes other than n have committed.
Committed(n) ==
  {r \in Request :
     Cardinality({x \in Node \ {n} : Msg("Commit", x, r) \in sent}) >= 2 * FaultTolerance}

\* A node may report a request by the wrong name, because handle_commit takes it
\* from the slot; but it never reports more requests than were committed by 2f
\* other nodes, although every report wipes the counts while Commits of the same
\* request are still on their way.
CompletionsCertified == \A n \in Node : Len(endData[n]) <= Cardinality(Committed(n))

\* No request is reported twice by a node, by its own name or in place of
\* another: the slot is emptied with the report and filled once per proposal.
ReportedOnce ==
  \A n \in Node : \A i, j \in 1..Len(endData[n]) : endData[n][i] = endData[n][j] => i = j

\* The leader goes on to the next request only when n - f - 1 replicas have reported
\* the one it closes.
OverCertified ==
  \A r \in over :
    Cardinality({n \in Node \ {Leader} : \E i \in 1..Len(endData[n]) : endData[n][i] = r})
      >= Cardinality(Node) - FaultTolerance - 1

=============================================================================
