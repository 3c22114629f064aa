--------------------------- MODULE ExecutorProofs ---------------------------
(* Proofs, for every set of requests, every f and up to 3f + 1 nodes, of the   *)
(* safety properties of the stand-alone PBFT.                                *)
EXTENDS Executor, FiniteSetTheorems, TLAPS

USE DEF Publish, Record, RecordReply, RecordViewchange, RecordCurrentRequest,
        RemoveCommitedRequest, ProofPanics

-----------------------------------------------------------------------------
(* Counting *)

\* The nodes behind a certificate are among finitely many nodes.
LEMMA OthersFinite ==
  ASSUME NEW n, NEW t, NEW r
  PROVE  /\ IsFiniteSet(Others(n, t, r))
         /\ Cardinality(Others(n, t, r)) \in Nat
<1>1. Others(n, t, r) \subseteq Node BY DEF Others
<1> QED BY <1>1, ExecutorAssumption, FS_Subset, FS_CardinalityType

\* A log is finite for each kind of message: a node has one of each.
LEMMA CountFinite ==
  ASSUME NEW t, NEW r, NEW S \in SUBSET Message, \A m \in S : m.from \in Node
  PROVE  IsFiniteSet(Logged(S, t, r)) /\ Count(S, t, r) \in Nat
<1> DEFINE K == Logged(S, t, r)
           g == [m \in K |-> m.from]
<1>1. \A m \in K : m = Msg(t, m.from, r) /\ m.from \in Node
  BY DEF Message, Msg, Logged
<1>2. g \in Injection(K, Node)
  BY <1>1 DEF Injection, IsInjective
<1> HIDE DEF K, g
<1>3. IsFiniteSet(K)
  BY <1>2, ExecutorAssumption, FS_Injection
<1> QED BY <1>3, FS_CardinalityType DEF Count, K

\* It counts no more messages of a kind than other nodes published.
LEMMA CountBound ==
  ASSUME NEW n \in Node, NEW t, NEW r, NEW S \in SUBSET Message,
         \A m \in S : m \in sent /\ m.from \in Node \ {n}
  PROVE  Count(S, t, r) <= Cardinality(Others(n, t, r))
<1> DEFINE K == Logged(S, t, r)
           O == Others(n, t, r)
           g == [m \in K |-> m.from]
<1>1. \A m \in K : m = Msg(t, m.from, r) /\ m.from \in O
  BY DEF Message, Msg, Others, Logged
<1>2. g \in Injection(K, O)
  BY <1>1 DEF Injection, IsInjective
<1>3. IsFiniteSet(O)
  BY OthersFinite
<1> HIDE DEF K, O, g
<1>4. Cardinality(K) <= Cardinality(O)
  BY <1>2, <1>3, FS_Injection
<1> QED BY <1>4 DEF Count, K, O

\* What a log counts only grows with the log.
LEMMA CountGrow ==
  ASSUME NEW t, NEW r, NEW S, NEW T \in SUBSET Message, S \subseteq T,
         \A m \in T : m.from \in Node
  PROVE  /\ Count(S, t, r) \in Nat /\ Count(T, t, r) \in Nat
         /\ Count(S, t, r) <= Count(T, t, r)
<1> DEFINE A == Logged(S, t, r)
           B == Logged(T, t, r)
<1>1. IsFiniteSet(B) BY CountFinite
<1>2. A \subseteq B BY DEF Logged
<1>3. Cardinality(A) \in Nat /\ Cardinality(B) \in Nat /\ Cardinality(A) <= Cardinality(B)
  BY <1>1, <1>2, FS_Subset, FS_CardinalityType
<1> QED BY <1>3 DEF Count

\* A message that is new to the log adds one to its count.
LEMMA CountAdd ==
  ASSUME NEW S \in SUBSET Message, NEW m \in Message, m \notin S,
         \A x \in S : x.from \in Node
  PROVE  Count(S \cup {m}, m.type, m.req) = Count(S, m.type, m.req) + 1
<1> DEFINE A == Logged(S, m.type, m.req)
           B == Logged(S \cup {m}, m.type, m.req)
<1>1. IsFiniteSet(A) BY CountFinite
<1>2. B = A \cup {m} /\ m \notin A BY DEF Logged
<1>3. Cardinality(A \cup {m}) = Cardinality(A) + 1
  BY <1>1, <1>2, FS_AddElement
<1> QED BY <1>2, <1>3 DEF Count

\* Two sets of 2f + 1 of at most 3f + 1 nodes have a node in common.
LEMMA QuorumsMeet ==
  ASSUME NEW a \in Node, NEW b \in Node,
         NEW A \in SUBSET (Node \ {a}), NEW B \in SUBSET (Node \ {b}),
         Cardinality(A) >= 2 * FaultTolerance, Cardinality(B) >= 2 * FaultTolerance
  PROVE  (A \cup {a}) \cap (B \cup {b}) # {}
<1> DEFINE Q == A \cup {a}
           R == B \cup {b}
<1>1. IsFiniteSet(A) /\ IsFiniteSet(B)
  BY ExecutorAssumption, FS_Subset
<1>2. Cardinality(Q) = Cardinality(A) + 1 /\ Cardinality(R) = Cardinality(B) + 1
  BY <1>1, FS_AddElement
<1>3. /\ Cardinality(A) \in Nat /\ Cardinality(B) \in Nat
      /\ IsFiniteSet(Q) /\ IsFiniteSet(R)
  BY <1>1, FS_CardinalityType, FS_AddElement
<1>4. Q \cup R \subseteq Node OBVIOUS
<1>5. IsFiniteSet(Node) /\ Cardinality(Node) \in Nat
  BY ExecutorAssumption, FS_CardinalityType
<1>6. Cardinality(Q \cup R) <= Cardinality(Node)
  BY <1>4, <1>5, FS_Subset
<1>7. Cardinality(Q \cup R) = Cardinality(Q) + Cardinality(R) - Cardinality(Q \cap R)
  BY <1>3, FS_Union
<1>8. Q \cap R = {} => Cardinality(Q \cap R) = 0
  BY FS_EmptySet
<1>9. SUFFICES ASSUME Q \cap R = {} PROVE FALSE
  OBVIOUS
<1> HIDE DEF Q, R
<1>10. Cardinality(Node) >= 4 * FaultTolerance + 2
  BY <1>2, <1>3, <1>5, <1>6, <1>7, <1>8, <1>9, ExecutorAssumption
<1> QED BY <1>5, <1>10, ExecutorAssumption

-----------------------------------------------------------------------------
(* Types *)

\* Messages built by a handler are messages.
LEMMA MsgType ==
  ASSUME NEW t \in {"DistributePK", "PublicKey", "PrePrepare", "Prepare", "Commit", "ViewChange"},
         NEW n \in Peer, NEW r \in Request \cup {NoRequest}
  PROVE  Msg(t, n, r) \in Message
BY DEF Msg, Message

\* A message that a handler takes, and its sender.
LEMMA Received ==
  ASSUME IInv, NEW n \in Peer, NEW m \in sent, Arrives(n, m)
  PROVE  /\ m \in Message /\ m \notin seen[n]
         /\ m.type # "DistributePK" => m.from \in Node \ {n}
         /\ m.type \in {"PrePrepare", "Prepare", "Commit"} => m.req \in Request
BY DEF IInv, TypeOK, SentInv, Arrives

\* Every step keeps the types.
LEMMA TypeStep ==
  ASSUME IInv, Next
  PROVE  TypeOK'
<1> USE ExecutorAssumption DEF IInv, Peer, netVars, logVars, modeVars, clientVars
<1>1. CASE CommandDistributePK
  <2>1. sent' \subseteq Message
    BY <1>1, MsgType DEF CommandDistributePK, TypeOK
  <2> QED BY <1>1, <2>1 DEF CommandDistributePK, TypeOK
<1>2. ASSUME NEW r \in Request, NEW n \in Node, CommandRequest(r, n) PROVE TypeOK'
  BY <1>2 DEF CommandRequest, TypeOK
<1>3. ASSUME NEW r \in Request, NEW n \in Node, HandleRequest(n, r) PROVE TypeOK'
  <2>1. sent' \subseteq Message
    BY <1>3, MsgType DEF HandleRequest, TypeOK
  <2>2. requests' \in [Node -> Request \cup {NoRequest}]
    BY <1>3 DEF HandleRequest, RecordRequest, TypeOK
  <2> QED BY <1>3, <2>1, <2>2 DEF HandleRequest, TypeOK
<1>4a. ASSUME NEW n \in Node, NEW m \in sent, StoragePublicKey(n, m) PROVE TypeOK'
  <2>1. m \in Message /\ m.from \in Node \ {n}
    BY <1>4a, Received DEF StoragePublicKey, CanReceive
  <2>2. /\ pks' \in [Peer -> SUBSET Node] /\ \A x \in Node : x \notin pks'[x]
        /\ seen' \in [Peer -> SUBSET Message]
    BY <1>4a, <2>1 DEF StoragePublicKey, See, TypeOK
  <2> QED BY <1>4a, <2>2 DEF StoragePublicKey, TypeOK
<1>4b. ASSUME NEW m \in sent, ClientStoragePublicKey(m) PROVE TypeOK'
  <2>1. m \in Message /\ m.from \in Node \ {Client}
    BY <1>4b, Received DEF ClientStoragePublicKey, CanReceive
  <2>2. /\ pks' \in [Peer -> SUBSET Node] /\ \A x \in Node : x \notin pks'[x]
        /\ seen' \in [Peer -> SUBSET Message]
    BY <1>4b, <2>1 DEF ClientStoragePublicKey, See, TypeOK
  <2> QED BY <1>4b, <2>2 DEF ClientStoragePublicKey, TypeOK
<1>5. ASSUME NEW m \in replies, HandleReply(m) PROVE TypeOK'
  BY <1>5 DEF HandleReply, TypeOK, Reply
<1>6. ASSUME NEW n \in Node, NEW m \in sent, HandleDistributePK(n, m) PROVE TypeOK'
  <2>1. sent' \subseteq Message
    BY <1>6, MsgType DEF HandleDistributePK, TypeOK
  <2> QED BY <1>6, <2>1 DEF HandleDistributePK, See, TypeOK
<1>7. ASSUME NEW n \in Node, NEW m \in sent, HandlePreprepare(n, m) PROVE TypeOK'
  <2>1. m \in Message /\ m.req \in Request
    BY <1>7, Received DEF HandlePreprepare, CanReceive
  <2>2. sent' \subseteq Message
    BY <1>7, <2>1, MsgType DEF HandlePreprepare, TypeOK
  <2>3. seen' \in [Peer -> SUBSET Message] /\ messages' \in [Node -> SUBSET Message]
    <3>1. /\ seen' = [seen EXCEPT ![n] = @ \cup {m}]
          /\ messages' = [messages EXCEPT ![n] = @ \cup {m}] \/ messages' = messages
      BY <1>7 DEF HandlePreprepare, See
    <3>2. seen \in [Peer -> SUBSET Message] /\ messages \in [Node -> SUBSET Message]
      BY DEF TypeOK
    <3> QED BY <2>1, <3>1, <3>2
  <2>4. requests' \in [Node -> Request \cup {NoRequest}]
    <3>1. \/ requests' = requests
          \/ requests' = [requests EXCEPT ![n] = IF @ = NoRequest THEN m.req ELSE @]
      BY <1>7 DEF HandlePreprepare, RecordRequest
    <3>2. requests \in [Node -> Request \cup {NoRequest}]
      BY DEF TypeOK
    <3> QED BY <2>1, <3>1, <3>2
  <2>5. queue' \in [Node -> Seq(Request)]
    <3>1. Append(queue[n], m.req) \in Seq(Request) BY <2>1 DEF TypeOK
    <3> QED BY <1>7, <3>1 DEF HandlePreprepare, TypeOK
  <2> QED BY <1>7, <2>2, <2>3, <2>4, <2>5 DEF HandlePreprepare, TypeOK
<1>8. ASSUME NEW n \in Node, NEW m \in sent, HandlePrepare(n, m) PROVE TypeOK'
  <2>1. m \in Message /\ m.req \in Request
    BY <1>8, Received DEF HandlePrepare, CanReceive
  <2>2. sent' \subseteq Message
    BY <1>8, <2>1, MsgType DEF HandlePrepare, TypeOK
  <2>3. seen' \in [Peer -> SUBSET Message] /\ messages' \in [Node -> SUBSET Message]
    <3>1. /\ seen' = [seen EXCEPT ![n] = @ \cup {m}]
          /\ messages' = [messages EXCEPT ![n] = @ \cup {m}] \/ messages' = messages
      BY <1>8 DEF HandlePrepare, See
    <3>2. seen \in [Peer -> SUBSET Message] /\ messages \in [Node -> SUBSET Message]
      BY DEF TypeOK
    <3> QED BY <2>1, <3>1, <3>2
  <2>4. phase' \in [Node -> [Request -> {"None", "Prepared", "Commited"}]]
    <3>1. phase' = [phase EXCEPT ![n][m.req] = "Prepared"] \/ phase' = phase
      BY <1>8 DEF HandlePrepare
    <3>2. phase \in [Node -> [Request -> {"None", "Prepared", "Commited"}]]
      BY DEF TypeOK
    <3> QED BY <2>1, <3>1, <3>2
  <2> QED BY <1>8, <2>2, <2>3, <2>4 DEF HandlePrepare, TypeOK
<1>9. ASSUME NEW n \in Node, NEW m \in sent, HandleCommit(n, m) PROVE TypeOK'
  <2>1. m \in Message /\ m.req \in Request
    BY <1>9, Received DEF HandleCommit, CanReceive
  <2>2. seen' \in [Peer -> SUBSET Message] /\ messages' \in [Node -> SUBSET Message]
    <3>1. /\ seen' = [seen EXCEPT ![n] = @ \cup {m}]
          /\ messages' = [messages EXCEPT ![n] = @ \cup {m}] \/ messages' = messages
      BY <1>9 DEF HandleCommit, See
    <3>2. seen \in [Peer -> SUBSET Message] /\ messages \in [Node -> SUBSET Message]
      BY DEF TypeOK
    <3> QED BY <2>1, <3>1, <3>2
  <2>3. phase' \in [Node -> [Request -> {"None", "Prepared", "Commited"}]]
    <3>1. phase' = [phase EXCEPT ![n][m.req] = "Commited"] \/ phase' = phase
      BY <1>9 DEF HandleCommit
    <3>2. phase \in [Node -> [Request -> {"None", "Prepared", "Commited"}]]
      BY DEF TypeOK
    <3> QED BY <2>1, <3>1, <3>2
  <2>4. queue' \in [Node -> Seq(Request)]
    <3>1. queue[n] # <<>> => Tail(queue[n]) \in Seq(Request) BY DEF TypeOK
    <3> QED BY <1>9, <3>1 DEF HandleCommit, TypeOK
  <2>5. commits' \in [Node -> Nat]
    BY <1>9 DEF HandleCommit, TypeOK
  <2>6. replies \subseteq replies' /\ replies' \subseteq Reply
    BY <1>9, <2>1 DEF HandleCommit, TypeOK, Reply
  <2> QED BY <1>9, <2>2, <2>3, <2>4, <2>5, <2>6 DEF HandleCommit, TypeOK
<1>10. ASSUME NEW n \in Node, NEW m \in sent, HandleViewchange(n, m) PROVE TypeOK'
  <2>1. m \in Message /\ m.from \in Node
    BY <1>10, Received DEF HandleViewchange, CanReceive
  <2>2. sent' \subseteq Message
    BY <1>10, MsgType DEF HandleViewchange, BroadcastViewchange, TypeOK
  <2>3. mode' \in [Node -> {"Normal", "Abnormal"}] /\ alive' \in [Node -> BOOLEAN]
    BY <1>10 DEF HandleViewchange, BroadcastViewchange, TypeOK
  <2>4. seen' \in [Peer -> SUBSET Message] /\ viewchanges' \in [Node -> SUBSET Node]
    BY <1>10, <2>1 DEF HandleViewchange, See, TypeOK
  <2> QED BY <1>10, <2>2, <2>3, <2>4 DEF HandleViewchange, TypeOK
<1>11. ASSUME NEW n \in Node, NEW m \in sent, DropWhileAbnormal(n, m) PROVE TypeOK'
  BY <1>11 DEF DropWhileAbnormal, See, TypeOK
<1>12. ASSUME NEW n \in Node, TimeoutCheck(n) PROVE TypeOK'
  BY <1>12 DEF TimeoutCheck, TypeOK
<1>13. ASSUME NEW n \in Node, ViewchangeNotified(n) PROVE TypeOK'
  <2>1. sent' \subseteq Message
    BY <1>13, MsgType DEF ViewchangeNotified, BroadcastViewchange, TypeOK
  <2>2. mode' \in [Node -> {"Normal", "Abnormal"}] /\ alive' \in [Node -> BOOLEAN]
    BY <1>13 DEF ViewchangeNotified, BroadcastViewchange, TypeOK
  <2>3. permit' \in [Node -> BOOLEAN]
    <3>1. \E b \in BOOLEAN : permit' = [permit EXCEPT ![n] = b]
      BY <1>13, <2>2 DEF ViewchangeNotified, TypeOK
    <3> QED BY <3>1 DEF TypeOK
  <2> QED BY <1>13, <2>1, <2>2, <2>3 DEF ViewchangeNotified, TypeOK
<1> QED
  BY <1>1, <1>2, <1>3, <1>4a, <1>4b, <1>5, <1>6, <1>7, <1>8, <1>9, <1>10, <1>11, <1>12, <1>13
  DEF Next, Deliver

-----------------------------------------------------------------------------
(* The invariants *)

\* What no step takes back: gossip, logs, replies and an occupied slot.
LEMMA Growth ==
  ASSUME IInv, Next
  PROVE  /\ sent \subseteq sent' /\ replies \subseteq replies'
         /\ \A n \in Node : seen[n] \subseteq seen'[n] /\ messages[n] \subseteq messages'[n]
         /\ \A n \in Node : requests[n] # NoRequest => requests'[n] = requests[n]
<1> DEFINE G == /\ sent \subseteq sent' /\ replies \subseteq replies'
                /\ \A n \in Node : seen[n] \subseteq seen'[n] /\ messages[n] \subseteq messages'[n]
                /\ \A n \in Node : requests[n] # NoRequest => requests'[n] = requests[n]
<1> USE DEF IInv, TypeOK, Peer, netVars, logVars, modeVars
<1>1. CASE CommandDistributePK BY <1>1 DEF CommandDistributePK
<1>2. ASSUME NEW r \in Request, NEW n \in Node, CommandRequest(r, n) PROVE G
  BY <1>2 DEF CommandRequest
<1>3. ASSUME NEW r \in Request, NEW n \in Node, HandleRequest(n, r) PROVE G
  BY <1>3 DEF HandleRequest, RecordRequest
<1>4a. ASSUME NEW n \in Node, NEW m \in sent, StoragePublicKey(n, m) PROVE G
  BY <1>4a DEF StoragePublicKey, See
<1>4b. ASSUME NEW m \in sent, ClientStoragePublicKey(m) PROVE G
  BY <1>4b, ExecutorAssumption DEF ClientStoragePublicKey, See
<1>5. ASSUME NEW m \in replies, HandleReply(m) PROVE G
  BY <1>5 DEF HandleReply
<1>6. ASSUME NEW n \in Node, NEW m \in sent, HandleDistributePK(n, m) PROVE G
  BY <1>6 DEF HandleDistributePK, See
<1>7. ASSUME NEW n \in Node, NEW m \in sent, HandlePreprepare(n, m) PROVE G
  BY <1>7 DEF HandlePreprepare, RecordRequest, See, Working
<1>8. ASSUME NEW n \in Node, NEW m \in sent, HandlePrepare(n, m) PROVE G
  BY <1>8 DEF HandlePrepare, See
<1>9. ASSUME NEW n \in Node, NEW m \in sent, HandleCommit(n, m) PROVE G
  BY <1>9 DEF HandleCommit, See, Working
<1>10. ASSUME NEW n \in Node, NEW m \in sent, HandleViewchange(n, m) PROVE G
  BY <1>10 DEF HandleViewchange, BroadcastViewchange, See
<1>11. ASSUME NEW n \in Node, NEW m \in sent, DropWhileAbnormal(n, m) PROVE G
  BY <1>11 DEF DropWhileAbnormal, See
<1>12. ASSUME NEW n \in Node, TimeoutCheck(n) PROVE G
  BY <1>12 DEF TimeoutCheck
<1>13. ASSUME NEW n \in Node, ViewchangeNotified(n) PROVE G
  BY <1>13 DEF ViewchangeNotified, BroadcastViewchange
<1> QED
  BY <1>1, <1>2, <1>3, <1>4a, <1>4b, <1>5, <1>6, <1>7, <1>8, <1>9, <1>10, <1>11, <1>12, <1>13
  DEF Next, Deliver

\* A Commit speaks for the sender's slot.
LEMMA SentStep ==
  ASSUME IInv, Next
  PROVE  SentInv'
<1> DEFINE Says(m) ==
      /\ m.type # "DistributePK" => m.from \in Node
      /\ m.type \in {"PrePrepare", "Prepare", "Commit"} => m.req \in Request
      /\ m.type = "Commit" => requests'[m.from] = m.req
<1>0. \A m \in sent : Says(m)
  BY Growth, ExecutorAssumption DEF IInv, SentInv
<1> SUFFICES \A m \in sent' \ sent : Says(m)
  BY <1>0 DEF SentInv
<1> USE DEF IInv, TypeOK, netVars, logVars, modeVars, Msg
<1>1. CASE CommandDistributePK BY <1>1 DEF CommandDistributePK
<1>2. ASSUME NEW r \in Request, NEW n \in Node, HandleRequest(n, r)
      PROVE  \A m \in sent' \ sent : Says(m)
  BY <1>2 DEF HandleRequest
<1>3. ASSUME NEW n \in Node, NEW x \in sent, HandleDistributePK(n, x)
      PROVE  \A m \in sent' \ sent : Says(m)
  BY <1>3 DEF HandleDistributePK
<1>4. ASSUME NEW n \in Node, NEW x \in sent, HandlePreprepare(n, x)
      PROVE  \A m \in sent' \ sent : Says(m)
  <2>1. x.req \in Request BY <1>4 DEF HandlePreprepare, CanReceive, SentInv
  <2>2. sent' = sent \/ sent' = sent \cup {Msg("Prepare", n, x.req)}
    BY <1>4 DEF HandlePreprepare
  <2> QED BY <2>1, <2>2
<1>5. ASSUME NEW n \in Node, NEW x \in sent, HandlePrepare(n, x)
      PROVE  \A m \in sent' \ sent : Says(m)
  <2>1. x.req \in Request BY <1>5 DEF HandlePrepare, CanReceive, SentInv
  <2>2. \/ sent' = sent
        \/ sent' = sent \cup {Msg("Commit", n, x.req)} /\ requests[n] = x.req
    BY <1>5 DEF HandlePrepare, AcceptsPrepare
  <2>3. requests' = requests BY <1>5 DEF HandlePrepare
  <2> QED BY <2>1, <2>2, <2>3
<1>6. ASSUME NEW n \in Node, BroadcastViewchange(n), UNCHANGED queue
      PROVE  \A m \in sent' \ sent : Says(m)
  BY <1>6 DEF BroadcastViewchange
<1>7. CASE sent' = sent
  BY <1>7
<1> QED
  BY <1>1, <1>2, <1>3, <1>4, <1>5, <1>6, <1>7
  DEF Next, Deliver, CommandRequest, StoragePublicKey, ClientStoragePublicKey, HandleReply,
      HandleCommit, HandleViewchange, DropWhileAbnormal, TimeoutCheck, ViewchangeNotified

\* A handler logs the message it takes.
LEMMA LogStep ==
  ASSUME IInv, Next
  PROVE  LogInv'
<1>1. CASE messages' = messages
  BY <1>1, Growth DEF IInv, LogInv
<1>2. ASSUME NEW n \in Node, NEW m \in sent, CanReceive(n, m, m.type), m.type # "DistributePK",
             See(n, m), messages' = [messages EXCEPT ![n] = @ \cup {m}]
      PROVE  LogInv'
  <2>1. m \in seen'[n] /\ m.from \in Node \ {n}
    BY <1>2, Received DEF CanReceive, See, IInv, TypeOK, Peer
  <2>2. \A x \in Node : messages'[x] = IF x = n THEN messages[n] \cup {m} ELSE messages[x]
    BY <1>2 DEF IInv, TypeOK
  <2> QED BY <2>1, <2>2, Growth DEF IInv, LogInv
<1>3. ASSUME NEW n \in Node, NEW m \in sent, HandlePreprepare(n, m) PROVE LogInv'
  BY <1>1, <1>2, <1>3 DEF HandlePreprepare, CanReceive
<1>4. ASSUME NEW n \in Node, NEW m \in sent, HandlePrepare(n, m) PROVE LogInv'
  BY <1>1, <1>2, <1>4 DEF HandlePrepare, CanReceive
<1>5. ASSUME NEW n \in Node, NEW m \in sent, HandleCommit(n, m) PROVE LogInv'
  BY <1>1, <1>2, <1>5 DEF HandleCommit, CanReceive
<1>6. ASSUME NEW n \in Node, NEW m \in sent,
             \/ HandleDistributePK(n, m) \/ StoragePublicKey(n, m)
             \/ HandleViewchange(n, m) \/ DropWhileAbnormal(n, m)
      PROVE  messages' = messages
  BY <1>6 DEF HandleDistributePK, StoragePublicKey, HandleViewchange, DropWhileAbnormal, logVars
<1>7. CASE \/ CommandDistributePK
           \/ \E r \in Request : \E n \in Node : CommandRequest(r, n) \/ HandleRequest(n, r)
           \/ \E m \in sent : ClientStoragePublicKey(m)
           \/ \E m \in replies : HandleReply(m)
           \/ \E n \in Node : TimeoutCheck(n) \/ ViewchangeNotified(n)
  <2>1. messages' = messages
    BY <1>7 DEF CommandDistributePK, CommandRequest, HandleRequest, ClientStoragePublicKey,
                HandleReply, TimeoutCheck, ViewchangeNotified, logVars
  <2> QED BY <1>1, <2>1
<1> QED
  BY <1>1, <1>3, <1>4, <1>5, <1>6, <1>7 DEF Next, Deliver

\* The only step that commits: the slot's request, with its 2f-th Commit just logged.
LEMMA CommitStep ==
  ASSUME IInv, Next, TypeOK', LogInv'
  PROVE  CommitInv' /\ CounterInv'
<1>1. \A a \in replies : /\ requests'[a.from] = a.req
                         /\ Count(messages'[a.from], "Commit", a.req) >= Threshold
  <2> SUFFICES ASSUME NEW a \in replies
               PROVE  /\ requests'[a.from] = a.req
                      /\ Count(messages'[a.from], "Commit", a.req) >= Threshold
    OBVIOUS
  <2>1. a.from \in Node /\ a.req \in Request
    BY DEF IInv, TypeOK, Reply
  <2>2. requests[a.from] = a.req /\ Count(messages[a.from], "Commit", a.req) >= Threshold
    BY DEF IInv, CommitInv
  <2>3. requests'[a.from] = a.req
    BY <2>1, <2>2, Growth, ExecutorAssumption
  <2>4. messages'[a.from] \in SUBSET Message /\ \A m \in messages'[a.from] : m.from \in Node
    BY <2>1 DEF TypeOK, LogInv
  <2>5. messages[a.from] \subseteq messages'[a.from]
    BY <2>1, Growth
  <2>6. /\ Count(messages[a.from], "Commit", a.req) \in Nat
        /\ Count(messages'[a.from], "Commit", a.req) \in Nat
        /\ Count(messages[a.from], "Commit", a.req) <= Count(messages'[a.from], "Commit", a.req)
    BY <2>4, <2>5, CountGrow
  <2> QED BY <2>2, <2>3, <2>6, ExecutorAssumption DEF Threshold
<1>2. CASE replies' = replies /\ commits' = commits
  BY <1>1, <1>2 DEF CommitInv, CounterInv, IInv, Count, Threshold
<1>3. ASSUME NEW n \in Node, NEW m \in sent, HandleCommit(n, m), AcceptsCommit(n, m),
             CommitsComplete(n, m.req)
      PROVE  CommitInv' /\ CounterInv'
  <2>1. /\ messages' = [messages EXCEPT ![n] = @ \cup {m}]
        /\ commits' = [commits EXCEPT ![n] = @ + 1]
        /\ replies' = replies \cup {[from |-> n, req |-> m.req]}
        /\ requests' = requests /\ requests[n] = m.req
        /\ m.type = "Commit" /\ Arrives(n, m)
    BY <1>3 DEF HandleCommit, AcceptsCommit, CanReceive
  <2>2. m \in Message /\ m \notin messages[n]
    BY <2>1, Received DEF IInv, LogInv, Peer
  <2>3. messages[n] \in SUBSET Message /\ \A x \in messages[n] : x.from \in Node
    BY DEF IInv, TypeOK, LogInv
  <2>4. messages'[n] = messages[n] \cup {m}
    BY <2>1 DEF IInv, TypeOK
  <2>5. /\ Count(messages'[n], "Commit", m.req) = Threshold
        /\ Count(messages[n], "Commit", m.req) \in Nat
        /\ Count(messages'[n], "Commit", m.req) = Count(messages[n], "Commit", m.req) + 1
    BY <1>3, <2>1, <2>2, <2>3, <2>4, CountAdd, CountFinite DEF CommitsComplete
  <2>6. ~(Count(messages[n], "Commit", m.req) >= Threshold)
    BY <2>5, ExecutorAssumption DEF Threshold
  <2>7. \A a \in replies : a.from # n
    BY <2>1, <2>6 DEF IInv, CommitInv
  <2>8. CommitInv'
    <3>1. Threshold \in Nat BY ExecutorAssumption DEF Threshold
    <3>2. requests'[n] = m.req /\ Count(messages'[n], "Commit", m.req) >= Threshold
      BY <2>1, <2>5, <3>1
    <3>3. \A a \in replies' : /\ requests'[a.from] = a.req
                              /\ Count(messages'[a.from], "Commit", a.req) >= Threshold
      BY <1>1, <2>1, <3>2
    <3> QED BY <3>3 DEF CommitInv, Count, Logged, Threshold
  <2>9. CounterInv'
    <3>1. commits[n] = 0 BY <2>7 DEF IInv, CounterInv
    <3>2. \A x \in Node : commits'[x] = IF x = n THEN 1 ELSE commits[x]
      BY <2>1, <3>1 DEF IInv, TypeOK
    <3>3. \A x \in Node : (\E a \in replies' : a.from = x) <=>
                            x = n \/ \E a \in replies : a.from = x
      <4>1. PICK w : w = [from |-> n, req |-> m.req] OBVIOUS
      <4>2. w.from = n BY <4>1
      <4>3. replies' = replies \cup {w} BY <2>1, <4>1
      <4> QED BY <4>2, <4>3
    <3> QED BY <3>2, <3>3 DEF IInv, CounterInv
  <2> QED BY <2>8, <2>9
<1>4. ASSUME NEW n \in Node, NEW m \in sent, HandleCommit(n, m)
      PROVE  CommitInv' /\ CounterInv'
  BY <1>2, <1>3, <1>4 DEF HandleCommit
<1>5. ASSUME NEW n \in Node, NEW m \in sent,
             \/ HandleDistributePK(n, m) \/ StoragePublicKey(n, m) \/ HandlePreprepare(n, m)
             \/ HandlePrepare(n, m) \/ HandleViewchange(n, m) \/ DropWhileAbnormal(n, m)
      PROVE  replies' = replies /\ commits' = commits
  BY <1>5 DEF HandleDistributePK, StoragePublicKey, HandlePreprepare, HandlePrepare,
              HandleViewchange, DropWhileAbnormal, logVars
<1>6. CASE \/ CommandDistributePK
           \/ \E r \in Request : \E n \in Node : CommandRequest(r, n) \/ HandleRequest(n, r)
           \/ \E m \in sent : ClientStoragePublicKey(m)
           \/ \E m \in replies : HandleReply(m)
           \/ \E n \in Node : TimeoutCheck(n) \/ ViewchangeNotified(n)
  <2>1. replies' = replies /\ commits' = commits
    BY <1>6 DEF CommandDistributePK, CommandRequest, HandleRequest, ClientStoragePublicKey,
                HandleReply, TimeoutCheck, ViewchangeNotified, logVars, netVars
  <2> QED BY <1>2, <2>1
<1> QED
  BY <1>2, <1>4, <1>5, <1>6 DEF Next, Deliver

\* The client's answer is settled by the reply that completes it, and kept.
LEMMA AnswerStep ==
  ASSUME IInv, Next
  PROVE  AnswerInv'
<1>1. CASE UNCHANGED <<replyLog, answer>>
  BY <1>1 DEF IInv, AnswerInv, ReplyThreshold
<1>2. ASSUME NEW m \in replies, HandleReply(m)
      PROVE  AnswerInv'
  BY <1>2 DEF HandleReply, IInv, AnswerInv, ReplyThreshold
<1>3. ASSUME NEW n \in Node, NEW m \in sent, Deliver(n, m)
      PROVE  UNCHANGED <<replyLog, answer>>
  BY <1>3 DEF Deliver, HandleDistributePK, StoragePublicKey, HandlePreprepare, HandlePrepare,
              HandleCommit, HandleViewchange, DropWhileAbnormal, clientVars
<1>4. CASE \/ CommandDistributePK
           \/ \E r \in Request : \E n \in Node : CommandRequest(r, n) \/ HandleRequest(n, r)
           \/ \E m \in sent : ClientStoragePublicKey(m)
           \/ \E n \in Node : TimeoutCheck(n) \/ ViewchangeNotified(n)
  <2>1. UNCHANGED <<replyLog, answer>>
    BY <1>4 DEF CommandDistributePK, CommandRequest, HandleRequest, ClientStoragePublicKey,
                TimeoutCheck, ViewchangeNotified, clientVars
  <2> QED BY <1>1, <2>1
<1> QED
  BY <1>1, <1>2, <1>3, <1>4 DEF Next

-----------------------------------------------------------------------------
(* The theorems *)

\* At the start nothing is published, logged or answered.
LEMMA InitInv == Init => IInv
<1> SUFFICES ASSUME Init PROVE IInv OBVIOUS
<1>1. queue \in [Node -> Seq(Request)]
  <2>1. <<>> \in Seq(Request) OBVIOUS
  <2> QED BY <2>1 DEF Init
<1>2. TypeOK BY <1>1 DEF Init, TypeOK, Peer
<1> QED
  BY <1>2 DEF IInv, Init, SentInv, LogInv, CommitInv, CounterInv, AnswerInv

\* The inductive invariant of the handlers, the timeout tasks and the client.
THEOREM ExecutorInvariance == Spec => []IInv
<1>1. IInv /\ [Next]_vars => IInv'
  <2> SUFFICES ASSUME IInv, [Next]_vars PROVE IInv' OBVIOUS
  <2>1. CASE Next
    <3>1. TypeOK' BY <2>1, TypeStep
    <3>2. SentInv' BY <2>1, SentStep
    <3>3. LogInv' BY <2>1, LogStep
    <3>4. CommitInv' /\ CounterInv' BY <2>1, <3>1, <3>3, CommitStep
    <3>5. AnswerInv' BY <2>1, AnswerStep
    <3> QED BY <3>1, <3>2, <3>3, <3>4, <3>5 DEF IInv
  <2>2. CASE UNCHANGED vars
    BY <2>2 DEF vars, netVars, logVars, modeVars, clientVars, IInv, TypeOK, SentInv, LogInv,
                CommitInv, CounterInv, AnswerInv, Count, Logged, Threshold, ReplyThreshold
  <2> QED BY <2>1, <2>2
<1> QED BY <1>1, InitInv, PTL DEF Spec

\* Every variable keeps its type, and no node ever counts its own messages.
THEOREM ExecutorTypes == Spec => []TypeOK
BY ExecutorInvariance, PTL DEF IInv

\* A node that has committed r was told so by 2f others, and they all hold r.
LEMMA CommitBacked ==
  ASSUME IInv, NEW a \in replies
  PROVE  /\ a.from \in Node
         /\ Others(a.from, "Commit", a.req) \in SUBSET (Node \ {a.from})
         /\ Cardinality(Others(a.from, "Commit", a.req)) >= 2 * FaultTolerance
         /\ \A x \in Others(a.from, "Commit", a.req) \cup {a.from} : requests[x] = a.req
<1>1. a.from \in Node BY DEF IInv, TypeOK, Reply
<1>2. messages[a.from] \in SUBSET Message /\
      \A m \in messages[a.from] : m \in sent /\ m.from \in Node \ {a.from}
  BY <1>1 DEF IInv, TypeOK, LogInv
<1>3. Count(messages[a.from], "Commit", a.req)
        <= Cardinality(Others(a.from, "Commit", a.req))
  BY <1>1, <1>2, CountBound
<1>4. Count(messages[a.from], "Commit", a.req) \in Nat
  BY <1>2, CountFinite
<1>5. Count(messages[a.from], "Commit", a.req) >= 2 * FaultTolerance /\ requests[a.from] = a.req
  BY DEF IInv, CommitInv, Threshold
<1>6. \A x \in Others(a.from, "Commit", a.req) : requests[x] = a.req
  BY DEF IInv, SentInv, Others, Msg
<1>7. Cardinality(Others(a.from, "Commit", a.req)) \in Nat
  BY OthersFinite
<1>8. Cardinality(Others(a.from, "Commit", a.req)) >= 2 * FaultTolerance
  BY <1>3, <1>4, <1>5, <1>7, ExecutorAssumption
<1> QED BY <1>1, <1>5, <1>6, <1>8 DEF Others

\* No two nodes commit different requests, however many nodes propose: two
\* certificates of 2f + 1 slots share a node, and a slot holds one request.
THEOREM ExecutorAgreement == Spec => []Agreement
<1>1. IInv => Agreement
  <2> SUFFICES ASSUME IInv, NEW a \in replies, NEW b \in replies PROVE a.req = b.req
    BY DEF Agreement
  <2>1. (Others(a.from, "Commit", a.req) \cup {a.from}) \cap
        (Others(b.from, "Commit", b.req) \cup {b.from}) # {}
    BY CommitBacked, QuorumsMeet
  <2> QED BY <2>1, CommitBacked
<1> QED BY <1>1, ExecutorInvariance, PTL

\* A node commits at most once, so no checkpoint is ever due.
THEOREM ExecutorCommitsOnce == Spec => []OneCommit
<1>1. IInv => OneCommit
  <2> SUFFICES ASSUME IInv, NEW n \in Node
               PROVE  commits[n] = Cardinality({m \in replies : m.from = n}) /\ commits[n] <= 1
    BY DEF OneCommit
  <2> DEFINE R == {m \in replies : m.from = n}
  <2>1. \A m \in R : m = [from |-> n, req |-> requests[n]]
    BY DEF IInv, TypeOK, Reply, CommitInv
  <2>2. CASE R = {}
    <3>1. commits[n] = 0 BY <2>2 DEF IInv, CounterInv
    <3> QED BY <2>2, <3>1, FS_EmptySet
  <2>3. CASE R # {}
    <3>1. R = {[from |-> n, req |-> requests[n]]} BY <2>1, <2>3
    <3>2. Cardinality(R) = 1 BY <3>1, FS_Singleton
    <3>3. commits[n] = 1 BY <2>3 DEF IInv, CounterInv
    <3> QED BY <3>2, <3>3
  <2> QED BY <2>2, <2>3
<1> QED BY <1>1, ExecutorInvariance, PTL

\* What the client is told was committed by f + 1 nodes.
THEOREM ExecutorAnswers == Spec => []AnswerCertified
<1>1. IInv => AnswerCertified
  <2> SUFFICES ASSUME IInv, answer # NoRequest
               PROVE  Cardinality(Committed(answer)) > FaultTolerance
    BY DEF AnswerCertified
  <2> DEFINE K == {x \in replyLog : x.req = answer}
             O == Committed(answer)
             g == [x \in K |-> x.from]
  <2>1. Cardinality(K) = FaultTolerance + 1 BY DEF IInv, AnswerInv, ReplyThreshold
  <2>2. \A x \in K : x = [from |-> x.from, req |-> answer] /\ x \in replies
    BY DEF IInv, TypeOK, Reply
  <2>3. \A x \in K : x.from \in O
    BY <2>2, CommitBacked DEF Committed
  <2>4. g \in Injection(K, O)
    BY <2>2, <2>3 DEF Injection, IsInjective
  <2>5. IsFiniteSet(O)
    BY ExecutorAssumption, FS_Subset DEF Committed
  <2> HIDE DEF K, O, g
  <2>6. Cardinality(K) <= Cardinality(O) /\ Cardinality(O) \in Nat
    BY <2>4, <2>5, FS_Injection, FS_CardinalityType
  <2>7. Cardinality(O) > FaultTolerance
    BY <2>1, <2>6, ExecutorAssumption
  <2> QED BY <2>7 DEF O
<1> QED BY <1>1, ExecutorInvariance, PTL

=============================================================================
