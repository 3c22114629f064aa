------------------------------ MODULE Executor ------------------------------
(***************************************************************************)
(* The stand-alone PBFT of the crate consensus: the Executor of every         *)
(* consensus node with its event loop and timeout task, and the               *)
(* ControllerExecutor of the client (consensus/src/pbft).                     *)
(*                                                                         *)
(* Nothing advances current_sequence_number or sets is_primary, so every      *)
(* request has number 1 and no NewView is ever sent: the view is 0, and a      *)
(* ViewChange always asks for view 1.  A CheckPoint needs 50 commits of one     *)
(* node, and OneCommit shows that there is at most one.  Subscribing to the      *)
(* gossip topics is left to the program that embeds the crate; here every         *)
(* node and the client receive all gossip, in any order, or not at all.           *)
(***************************************************************************)
EXTENDS Naturals, Sequences, FiniteSets

CONSTANTS
  Node,              \* consensus nodes (State::node_count of them)
  Client,            \* the controller node
  Request,           \* requests; two of the same second are one request
  FaultTolerance,    \* State::fault_tolerance_count
  NoRequest          \* absent entry of log.requests

ASSUME ExecutorAssumption ==
  /\ IsFiniteSet(Node) /\ Client \notin Node
  /\ NoRequest \notin Request
  /\ FaultTolerance \in Nat \ {0}
  /\ Cardinality(Node) <= 3 * FaultTolerance + 1

VARIABLES
  sent, seen,      \* gossip published, and taken by each node and the client
  inbox,           \* Request unicasts in flight: <<request, node>>
  replies,         \* Reply unicasts sent to the client
  pks,             \* db: whose public key a node or the client holds
  requests,        \* log.requests under number 1
  messages,        \* log.messages: keyed by type and hash, so sets of messages
  phase,           \* log.request_phase_state
  queue,           \* log.current_requests, without the instants
  viewchanges,     \* log.viewchanges under view 1: the senders
  mode,            \* State::mode
  permit,          \* the permit stored in viewchange_notify
  alive,           \* FALSE once the event loop has panicked
  commits,         \* State::current_commited_request_count
  replyTaken,      \* replies that have reached the client
  replyLog,        \* ControllerLog::messages
  answer           \* what the client was told; NoRequest until ClientState::Replied

netVars == <<sent, seen, inbox, replies>>
logVars == <<requests, messages, phase, queue, commits>>
modeVars == <<viewchanges, mode, permit, alive>>
clientVars == <<replyTaken, replyLog, answer>>
vars == <<netVars, pks, logVars, modeVars, clientVars>>

Peer == Node \cup {Client}

Message ==
  [type : {"DistributePK", "PublicKey", "PrePrepare", "Prepare", "Commit", "ViewChange"},
   from : Peer, req : Request \cup {NoRequest}]
Reply == [from : Node, req : Request]

Msg(t, n, r) == [type |-> t, from |-> n, req |-> r]

\* Mutant: a node gets its own gossip too.
ArrivesEverywhere(n, m) == m \in sent /\ m \notin seen[n]

\* Gossip drops a message a node has had; a node does not get its own.
Arrives(n, m) == m \in sent /\ m \notin seen[n] /\ m.from # n

CanReceive(n, m, t) == Arrives(n, m) /\ m.type = t

See(n, m) == seen' = [seen EXCEPT ![n] = @ \cup {m}]

\* The event loop gossips what a handler puts into the channel msg_tx.
Publish(m) == sent' = sent \cup {m}

\* get_local_messages_by_hash for the key of type t and the hash of r.
Logged(msgs, t, r) == {m \in msgs : m.type = t /\ m.req = r}

\* record_message_handler: the message goes under its key.
Record(n, m) == messages' = [messages EXCEPT ![n] = @ \cup {m}]

\* get_local_messages_count_by_hash.
Count(msgs, t, r) == Cardinality(Logged(msgs, t, r))

Threshold == 2 * FaultTolerance

\* Mutant: f of f + 1.
ReplyThresholdTooSmall == FaultTolerance

ReplyThreshold == FaultTolerance + 1

Init ==
  /\ sent = {} /\ seen = [p \in Peer |-> {}] /\ inbox = {} /\ replies = {}
  /\ pks = [p \in Peer |-> {}]
  /\ requests = [n \in Node |-> NoRequest]
  /\ messages = [n \in Node |-> {}]
  /\ phase = [n \in Node |-> [r \in Request |-> "None"]]
  /\ queue = [n \in Node |-> <<>>]
  /\ viewchanges = [n \in Node |-> {}]
  /\ mode = [n \in Node |-> "Normal"]
  /\ permit = [n \in Node |-> FALSE]
  /\ alive = [n \in Node |-> TRUE]
  /\ commits = [n \in Node |-> 0]
  /\ replyTaken = {} /\ replyLog = {}
  /\ answer = NoRequest

-----------------------------------------------------------------------------
(* The client *)

\* The command DistributePK.  Gossip drops a second copy.
CommandDistributePK ==
  /\ Publish(Msg("DistributePK", Client, NoRequest))
  /\ UNCHANGED <<seen, inbox, replies, pks, logVars, modeVars, clientVars>>

\* Any other command names the node that gets a request.
CommandRequest(r, n) ==
  /\ inbox' = inbox \cup {<<r, n>>}
  /\ UNCHANGED <<sent, seen, replies, pks, logVars, modeVars, clientVars>>

\* ControllerExecutor::message_handler and storage_public_key_by_peer_id.
ClientStoragePublicKey(m) ==
  /\ CanReceive(Client, m, "PublicKey")
  /\ See(Client, m)
  /\ pks' = [pks EXCEPT ![Client] = @ \cup {m.from}]
  /\ UNCHANGED <<sent, inbox, replies, logVars, modeVars, clientVars>>

RecordReply(m) == replyLog' = replyLog \cup {m}

\* ControllerExecutor::handle_reply: a reply whose key is missing is lost, and so is
\* every reply after the first answer, as nothing resets ClientState::Replied.
HandleReply(m) ==
  /\ m \in replies \ replyTaken
  /\ replyTaken' = replyTaken \cup {m}
  /\ LET accepted == answer = NoRequest /\ m.from \in pks[Client] IN
     \/ /\ accepted
        /\ RecordReply(m)
        /\ answer' = IF Cardinality({x \in replyLog' : x.req = m.req}) = ReplyThreshold
                     THEN m.req ELSE NoRequest
     \/ ~accepted /\ UNCHANGED <<replyLog, answer>>
  /\ UNCHANGED <<netVars, pks, logVars, modeVars>>

-----------------------------------------------------------------------------
(* A consensus node *)

\* message_handler in Mode::Normal.
Working(n) == alive[n] /\ mode[n] = "Normal"

\* distribute_public_key.
HandleDistributePK(n, m) ==
  /\ Working(n) /\ CanReceive(n, m, "DistributePK")
  /\ See(n, m)
  /\ Publish(Msg("PublicKey", n, NoRequest))
  /\ UNCHANGED <<inbox, replies, pks, logVars, modeVars, clientVars>>

\* storage_public_key_by_peer_id.
StoragePublicKey(n, m) ==
  /\ Working(n) /\ CanReceive(n, m, "PublicKey")
  /\ See(n, m)
  /\ pks' = [pks EXCEPT ![n] = @ \cup {m.from}]
  /\ UNCHANGED <<sent, inbox, replies, logVars, modeVars, clientVars>>

\* record_request: an occupied number keeps its request.
RecordRequest(n, r) ==
  requests' = [requests EXCEPT ![n] = IF @ = NoRequest THEN r ELSE @]

\* Whichever node is asked proposes; it neither queues the request nor logs its
\* own PrePrepare.  In Mode::Abnormal the request is dropped.
HandleRequest(n, r) ==
  /\ <<r, n>> \in inbox /\ alive[n]
  /\ inbox' = inbox \ {<<r, n>>}
  /\ \/ /\ Working(n)
        /\ RecordRequest(n, r)
        /\ Publish(Msg("PrePrepare", n, r))
     \/ ~Working(n) /\ UNCHANGED <<requests, sent>>
  /\ UNCHANGED <<seen, replies, pks, messages, phase, queue, commits, modeVars, clientVars>>

\* The Instant that goes with it is what TimeoutCheck looks at.
RecordCurrentRequest(n, r) == queue' = [queue EXCEPT ![n] = Append(@, r)]

\* The Prepare names the proposed request even if the number is taken by another.
HandlePreprepare(n, m) ==
  /\ Working(n) /\ CanReceive(n, m, "PrePrepare")
  /\ See(n, m)
  /\ \/ /\ m.from \in pks[n]
        /\ RecordRequest(n, m.req)
        /\ Record(n, m)
        /\ Publish(Msg("Prepare", n, m.req))
        /\ RecordCurrentRequest(n, m.req)
     \/ /\ m.from \notin pks[n]
        /\ UNCHANGED <<requests, messages, sent, queue>>
  /\ UNCHANGED <<inbox, replies, pks, phase, commits, modeVars, clientVars>>

\* Mutant: the request of the message is not compared with the one in the slot.
PrepareOfAnyRequest(n, m) ==
  m.from \in pks[n] /\ phase[n][m.req] # "Prepared" /\ requests[n] # NoRequest

\* The checks of handle_prepare.
AcceptsPrepare(n, m) ==
  m.from \in pks[n] /\ phase[n][m.req] # "Prepared" /\ requests[n] = m.req

HandlePrepare(n, m) ==
  /\ Working(n) /\ CanReceive(n, m, "Prepare")
  /\ See(n, m)
  /\ \/ /\ AcceptsPrepare(n, m)
        /\ Record(n, m)
        /\ \/ /\ Count(messages'[n], "Prepare", m.req) = Threshold
              /\ phase' = [phase EXCEPT ![n][m.req] = "Prepared"]
              /\ Publish(Msg("Commit", n, m.req))
           \/ /\ Count(messages'[n], "Prepare", m.req) # Threshold
              /\ UNCHANGED <<phase, sent>>
     \/ /\ ~AcceptsPrepare(n, m)
        /\ UNCHANGED <<messages, phase, sent>>
  /\ UNCHANGED <<inbox, replies, pks, requests, queue, commits, modeVars, clientVars>>

\* The checks of handle_commit.
AcceptsCommit(n, m) ==
  m.from \in pks[n] /\ phase[n][m.req] # "Commited" /\ requests[n] = m.req

\* Mutant: at least 2f instead of exactly.
EnoughCommits(n, r) == Count(messages'[n], "Commit", r) >= Threshold

\* The count of Commits, the one just recorded included, has come to 2f.
CommitsComplete(n, r) == Count(messages'[n], "Commit", r) = Threshold

\* remove_commited_request pops the head of the queue, whichever request it is.
RemoveCommitedRequest(n) == queue' = [queue EXCEPT ![n] = IF @ = <<>> THEN @ ELSE Tail(@)]

\* The 2f-th Commit takes the request out of the queue, counts it and answers the client.
HandleCommit(n, m) ==
  /\ Working(n) /\ CanReceive(n, m, "Commit")
  /\ See(n, m)
  /\ \/ /\ AcceptsCommit(n, m)
        /\ Record(n, m)
        /\ \/ /\ CommitsComplete(n, m.req)
              /\ RemoveCommitedRequest(n)
              /\ commits' = [commits EXCEPT ![n] = @ + 1]
              /\ phase' = [phase EXCEPT ![n][m.req] = "Commited"]
              /\ replies' = replies \cup {[from |-> n, req |-> m.req]}
           \/ /\ ~CommitsComplete(n, m.req)
              /\ UNCHANGED <<queue, commits, phase, replies>>
     \/ /\ ~AcceptsCommit(n, m)
        /\ UNCHANGED <<messages, queue, commits, phase, replies>>
  /\ UNCHANGED <<sent, inbox, pks, requests, modeVars, clientVars>>

\* timeout_check_start: the head of the queue has waited longer than
\* commited_timeout.
TimeoutCheck(n) ==
  /\ Working(n) /\ queue[n] # <<>>
  /\ permit' = [permit EXCEPT ![n] = TRUE]
  /\ UNCHANGED <<netVars, pks, logVars, viewchanges, mode, alive, clientVars>>

\* get_proof_messages expects every queued request in request_map, which nothing ever
\* fills.
ProofPanics(n) == queue[n] # <<>>

\* broadcast_viewchange in Mode::Normal.
BroadcastViewchange(n) ==
  /\ mode' = [mode EXCEPT ![n] = "Abnormal"]
  /\ \/ /\ ProofPanics(n)
        /\ alive' = [alive EXCEPT ![n] = FALSE]
        /\ UNCHANGED sent
     \/ /\ ~ProofPanics(n)
        /\ Publish(Msg("ViewChange", n, NoRequest))
        /\ UNCHANGED alive

\* The viewchange_notify arm of the event loop.  A timeout task that saw Mode::Normal
\* may store one more permit while the mode changes.
ViewchangeNotified(n) ==
  /\ alive[n] /\ permit[n]
  /\ \/ /\ mode[n] = "Normal"
        /\ BroadcastViewchange(n)
        /\ \E again \in BOOLEAN : permit' = [permit EXCEPT ![n] = again /\ alive'[n]]
     \/ /\ mode[n] = "Abnormal"
        /\ permit' = [permit EXCEPT ![n] = FALSE]
        /\ UNCHANGED <<sent, mode, alive>>
  /\ UNCHANGED <<seen, inbox, replies, pks, logVars, viewchanges, clientVars>>

RecordViewchange(n, m) == viewchanges' = [viewchanges EXCEPT ![n] = @ \cup {m.from}]

\* handle_viewchange, in both modes.
HandleViewchange(n, m) ==
  /\ alive[n] /\ CanReceive(n, m, "ViewChange")
  /\ See(n, m)
  /\ RecordViewchange(n, m)
  /\ LET join == Cardinality(viewchanges'[n]) > FaultTolerance /\ mode[n] = "Normal" IN
     \/ join /\ BroadcastViewchange(n)
     \/ ~join /\ UNCHANGED <<sent, mode, alive>>
  /\ UNCHANGED <<inbox, replies, pks, logVars, permit, clientVars>>

\* message_handler in Mode::Abnormal drops every message of the normal case.
DropWhileAbnormal(n, m) ==
  /\ alive[n] /\ mode[n] = "Abnormal"
  /\ Arrives(n, m) /\ m.type # "ViewChange"
  /\ See(n, m)
  /\ UNCHANGED <<sent, inbox, replies, pks, logVars, modeVars, clientVars>>

Deliver(n, m) ==
  \/ HandleDistributePK(n, m)
  \/ StoragePublicKey(n, m)
  \/ HandlePreprepare(n, m)
  \/ HandlePrepare(n, m)
  \/ HandleCommit(n, m)
  \/ HandleViewchange(n, m)
  \/ DropWhileAbnormal(n, m)

Next ==
  \/ CommandDistributePK
  \/ \E r \in Request : \E n \in Node : CommandRequest(r, n) \/ HandleRequest(n, r)
  \/ \E m \in sent : ClientStoragePublicKey(m)
  \/ \E m \in replies : HandleReply(m)
  \/ \E n \in Node : \E m \in sent : Deliver(n, m)
  \/ \E n \in Node : TimeoutCheck(n) \/ ViewchangeNotified(n)

Spec == Init /\ [][Next]_vars

-----------------------------------------------------------------------------
(* Properties *)

\* The types of the variables; a node never counts its own messages, as it holds no
\* key of its own.
TypeOK ==
  /\ sent \subseteq Message /\ seen \in [Peer -> SUBSET Message]
  /\ inbox \subseteq Request \X Node /\ replies \subseteq Reply
  /\ pks \in [Peer -> SUBSET Node] /\ \A n \in Node : n \notin pks[n]
  /\ requests \in [Node -> Request \cup {NoRequest}]
  /\ messages \in [Node -> SUBSET Message]
  /\ phase \in [Node -> [Request -> {"None", "Prepared", "Commited"}]]
  /\ queue \in [Node -> Seq(Request)]
  /\ viewchanges \in [Node -> SUBSET Node]
  /\ mode \in [Node -> {"Normal", "Abnormal"}]
  /\ permit \in [Node -> BOOLEAN]
  /\ alive \in [Node -> BOOLEAN]
  /\ commits \in [Node -> Nat]
  /\ replyLog \subseteq replyTaken /\ replyTaken \subseteq replies
  /\ answer \in Request \cup {NoRequest}

\* Any node proposes whatever a client sends it, under the same number, and every
\* node answers each proposal with a Prepare, also for a request that is not the
\* one it has recorded.  Still no two nodes commit different requests.
Agreement == \A a, b \in replies : a.req = b.req

\* handle_prepare may take a committed request back to Prepared, and handle_commit
\* then counts its Commits again; still a node commits once, one request, and
\* so never comes to a checkpoint.
OneCommit ==
  \A n \in Node : commits[n] = Cardinality({m \in replies : m.from = n}) /\ commits[n] <= 1

\* The nodes other than n that have published a message of type t for r.
Others(n, t, r) == {x \in Node \ {n} : Msg(t, x, r) \in sent}

\* The nodes that have committed r on the word of 2f others.
Committed(r) ==
  {n \in Node : /\ [from |-> n, req |-> r] \in replies
                /\ Cardinality(Others(n, "Commit", r)) >= 2 * FaultTolerance}

\* The answer the client settles for was committed by f + 1 nodes, each of which
\* was told of it by 2f others.
AnswerCertified == answer # NoRequest => Cardinality(Committed(answer)) > FaultTolerance

\* A node that enters view change mode has broadcast its ViewChange, with the
\* PrePrepares and Prepares of its pending requests (the comments on
\* broadcast_viewchange and on get_preprepare_and_prepare_by_request_hash).
ViewchangeBroadcast ==
  \A n \in Node : mode[n] = "Abnormal" => Msg("ViewChange", n, NoRequest) \in sent

-----------------------------------------------------------------------------
(* The inductive invariant behind them. *)

\* What a published message says of its sender.
SentInv ==
  \A m \in sent :
    /\ m.type # "DistributePK" => m.from \in Node
    /\ m.type \in {"PrePrepare", "Prepare", "Commit"} => m.req \in Request
    /\ m.type = "Commit" => requests[m.from] = m.req

\* A log holds messages that other nodes published and that have arrived.
LogInv ==
  \A n \in Node : \A m \in messages[n] :
    m \in sent /\ m \in seen[n] /\ m.from \in Node \ {n}

\* A node commits what its slot holds, once the log has 2f Commits for it.
CommitInv ==
  \A a \in replies :
    /\ requests[a.from] = a.req
    /\ Count(messages[a.from], "Commit", a.req) >= Threshold

\* The commit counter counts the replies.
CounterInv ==
  \A n \in Node : commits[n] = IF \E a \in replies : a.from = n THEN 1 ELSE 0

\* The client answers on f + 1 logged replies.
AnswerInv ==
  answer # NoRequest => Cardinality({x \in replyLog : x.req = answer}) = ReplyThreshold

IInv == TypeOK /\ SentInv /\ LogInv /\ CommitInv /\ CounterInv /\ AnswerInv

=============================================================================
