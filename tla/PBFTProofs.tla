----------------------------- MODULE PBFTProofs -----------------------------
(* Proofs, for every number of nodes, every fault tolerance and every set of  *)
(* requests, of the safety properties of PBFT.                               *)
EXTENDS PBFT, FiniteSetTheorems, TLAPS

USE DEF OverMessage, Broadcast, Record, WithReply, SendReply

-----------------------------------------------------------------------------
(* Lemmas about the operators of the model. *)

\* A request occurs in a report extended by r iff it occurred before or is r.
LEMMA AppendOccurs ==
  ASSUME NEW S, NEW s \in Seq(S), NEW r \in S, NEW q
  PROVE  Occurs(Append(s, r), q) <=> Occurs(s, q) \/ q = r
<1>1. /\ Len(Append(s, r)) = Len(s) + 1
      /\ Len(s) \in Nat
      /\ \A i \in 1..Len(s) : Append(s, r)[i] = s[i]
      /\ Append(s, r)[Len(s) + 1] = r
  OBVIOUS
<1>2. \A i \in 1..(Len(s) + 1) : i \in 1..Len(s) \/ i = Len(s) + 1
  BY <1>1
<1>3. Len(s) + 1 \in 1..(Len(s) + 1) /\ \A i \in 1..Len(s) : i \in 1..(Len(s) + 1)
  BY <1>1
<1> QED BY <1>1, <1>2, <1>3 DEF Occurs

\* Appending a request that does not occur keeps all entries distinct.
LEMMA AppendDistinct ==
  ASSUME NEW S, NEW s \in Seq(S), NEW r \in S, ~Occurs(s, r),
         \A i, j \in 1..Len(s) : s[i] = s[j] => i = j
  PROVE  \A i, j \in 1..Len(Append(s, r)) :
           Append(s, r)[i] = Append(s, r)[j] => i = j
<1>1. /\ Len(Append(s, r)) = Len(s) + 1
      /\ Len(s) \in Nat
      /\ \A i \in 1..Len(s) : Append(s, r)[i] = s[i]
      /\ Append(s, r)[Len(s) + 1] = r
  OBVIOUS
<1>2. \A i \in 1..(Len(s) + 1) : i \in 1..Len(s) \/ i = Len(s) + 1
  BY <1>1
<1> QED BY <1>1, <1>2 DEF Occurs

\* The nodes behind a certificate are among finitely many nodes.
LEMMA OthersFinite ==
  ASSUME NEW n, NEW t, NEW r
  PROVE  /\ IsFiniteSet(Others(n, t, r))
         /\ Cardinality(Others(n, t, r)) \in Nat
<1>1. Others(n, t, r) \subseteq Node BY DEF Others
<1> QED BY <1>1, NodeAssumption, FS_Subset, FS_CardinalityType

\* Certificates only grow while messages are only added.
LEMMA OthersGrow ==
  ASSUME sent \subseteq sent', NEW n, NEW t, NEW r
  PROVE  /\ Cardinality(Others(n, t, r)) \in Nat
         /\ Cardinality(Others(n, t, r)') \in Nat
         /\ Cardinality(Others(n, t, r)) <= Cardinality(Others(n, t, r)')
<1>1. Others(n, t, r) \subseteq Others(n, t, r)' BY DEF Others
<1>2. Others(n, t, r)' \subseteq Node BY DEF Others
<1>3. IsFiniteSet(Others(n, t, r)') BY <1>2, NodeAssumption, FS_Subset
<1> QED BY <1>1, <1>3, FS_Subset, FS_CardinalityType

\* The log cannot count more messages of one kind than other nodes published.
LEMMA CountBound ==
  ASSUME NEW n \in Node, NEW t, NEW r, NEW S \in SUBSET Message,
         \A m \in S : m \in sent /\ m.from # n
  PROVE  /\ Count(S, t, r) \in Nat
         /\ Count(S, t, r) <= Cardinality(Others(n, t, r))
<1> DEFINE K == {m \in S : m.type = t /\ m.req = r}
           O == Others(n, t, r)
           f == [m \in K |-> m.from]
<1>1. \A m \in K : m = Msg(t, m.from, r) /\ m.from \in O
  BY DEF Message, Msg, Others
<1>2. f \in [K -> O]
  BY <1>1
<1>3. \A m, x \in K : f[m] = f[x] => m = x
  BY <1>1
<1>4. f \in Injection(K, O)
  BY <1>2, <1>3 DEF Injection, IsInjective
<1>5. IsFiniteSet(O) /\ Cardinality(O) \in Nat
  BY OthersFinite
<1> HIDE DEF K, O, f
<1>6. IsFiniteSet(K) /\ Cardinality(K) <= Cardinality(O)
  BY <1>4, <1>5, FS_Injection
<1>7. Cardinality(K) \in Nat
  BY <1>6, FS_CardinalityType
<1> QED BY <1>6, <1>7 DEF Count, K, O

\* The leader cannot count more replies for r than replicas executed r.
LEMMA ReplyBound ==
  ASSUME NEW r, NEW S \in SUBSET Reply,
         \A m \in S : m.to = Leader /\ m.from # Leader /\ HasExecuted(m.from, m.req)
  PROVE  ReplyCount(S, r) <= Cardinality({n \in Node \ {Leader} : HasExecuted(n, r)})
<1> DEFINE K == {m \in S : m.req = r}
           O == {n \in Node \ {Leader} : HasExecuted(n, r)}
           f == [m \in K |-> m.from]
<1>1. \A m \in K : m = [from |-> m.from, to |-> Leader, req |-> r] /\ m.from \in O
  BY DEF Reply
<1>2. f \in [K -> O]
  BY <1>1
<1>3. \A m, x \in K : f[m] = f[x] => m = x
  BY <1>1
<1>4. f \in Injection(K, O)
  BY <1>2, <1>3 DEF Injection, IsInjective
<1>5. IsFiniteSet(O)
  BY NodeAssumption, FS_Subset
<1> HIDE DEF K, O, f
<1>6. Cardinality(K) <= Cardinality(O)
  BY <1>4, <1>5, FS_Injection
<1> QED BY <1>6 DEF ReplyCount, K, O

\* A message stays vouched for while the state it rests on only grows.
LEMMA VouchedGrow ==
  ASSUME sent \subseteq sent', startData \subseteq startData',
         taken[Leader] \subseteq taken'[Leader], NEW m, Vouched(m)
  PROVE  Vouched(m)'
<1>1. PrepareCertified(m.from, m.req) => PrepareCertified(m.from, m.req)'
  BY OthersGrow, FaultAssumption DEF PrepareCertified
<1>2. Msg("PrePrepare", Leader, m.req)' = Msg("PrePrepare", Leader, m.req)
  BY DEF Msg
<1> QED BY <1>1, <1>2 DEF Vouched

\* Commit certificates survive while messages are added and nobody executes.
LEMMA ExecutedGrow ==
  ASSUME sent \subseteq sent', endData' = endData, ExecutedInv
  PROVE  ExecutedInv'
<1> SUFFICES ASSUME NEW n \in Node, NEW r \in Request, HasExecuted(n, r)'
             PROVE  Cardinality(Others(n, "Commit", r)') >= 2 * FaultTolerance
  BY DEF ExecutedInv
<1>1. HasExecuted(n, r) BY DEF HasExecuted
<1>2. Cardinality(Others(n, "Commit", r)) >= 2 * FaultTolerance
  BY <1>1 DEF ExecutedInv
<1> QED BY <1>2, OthersGrow, FaultAssumption

-----------------------------------------------------------------------------
(* The inductive invariant. *)

\* The initial state has no messages, logs or reports.
LEMMA InitInv == Init => IInv
<1> SUFFICES ASSUME Init PROVE IInv OBVIOUS
<1> USE LeaderAssumption, NodeAssumption, RequestAssumption
<1>0. endData \in [Node -> Seq(Request)]
  <2>1. << >> \in Seq(Request) OBVIOUS
  <2> QED BY <2>1 DEF Init
<1>1. TypeOK BY <1>0 DEF Init, TypeOK
<1>2. \A n \in Node : \A r : ~HasExecuted(n, r) BY DEF Init, HasExecuted, Occurs
<1>3. SentInv BY DEF Init, SentInv
<1>4. LogInv BY DEF Init, LogInv
<1>5. SlotInv BY <1>2 DEF Init, SlotInv
<1>6. ExecutedInv BY <1>2 DEF ExecutedInv
<1>7. ExecuteOnce BY DEF Init, ExecuteOnce
<1>8. ReplyInv BY DEF Init, ReplyInv
<1>9. OverCertified BY DEF Init, OverCertified
<1> QED BY <1>1, <1>3, <1>4, <1>5, <1>6, <1>7, <1>8, <1>9 DEF IInv

\* The steps that touch no message, log or report.
LEMMA QuietStep ==
  ASSUME IInv, TypeOK',
         UNCHANGED <<sent, seen, replies, primary, requests, messages,
                     replyMessages, taken, startData, endData, over>>
  PROVE  IInv'
<1> USE DEF IInv
<1>1. SentInv'
  BY VouchedGrow DEF SentInv
<1>2. LogInv' BY DEF LogInv
<1>3. SlotInv' BY DEF SlotInv, HasExecuted, Proposed, Msg
<1>4. ExecutedInv' BY ExecutedGrow
<1>5. ExecuteOnce' BY DEF ExecuteOnce
<1>6. ReplyInv' BY DEF ReplyInv, HasExecuted
<1>7. OverCertified' BY DEF OverCertified, HasExecuted
<1> QED BY <1>1, <1>2, <1>3, <1>4, <1>5, <1>6, <1>7

\* Steps that publish only messages that are vouched for, and report nothing.
LEMMA PublishStep ==
  ASSUME IInv, TypeOK', sent \subseteq sent',
         startData \subseteq startData',
         taken[Leader] \subseteq taken'[Leader],
         \A m \in sent' \ sent : Vouched(m)',
         UNCHANGED <<replies, replyMessages, endData, over>>,
         LogInv', SlotInv'
  PROVE  IInv'
<1> USE DEF IInv
<1>1. SentInv'
  BY VouchedGrow DEF SentInv
<1>2. ExecutedInv' BY ExecutedGrow
<1>3. ExecuteOnce' BY DEF ExecuteOnce
<1>4. ReplyInv' BY DEF ReplyInv, HasExecuted
<1>5. OverCertified' BY DEF OverCertified, HasExecuted
<1> QED BY <1>1, <1>2, <1>3, <1>4, <1>5

\* Messages built by a handler are messages.
LEMMA MsgType ==
  ASSUME NEW t \in MessageType, NEW n \in Node, NEW r \in Request \cup {NoRequest}
  PROVE  Msg(t, n, r) \in Message
BY DEF Msg, Message

\* Every step keeps the types; in particular a node that executes knows its
\* primary, so the reply has an addressee.
LEMMA TypeStep ==
  ASSUME IInv, Next
  PROVE  TypeOK'
<1> USE LeaderAssumption DEF IInv
<1>1. CASE ExtraInitialStart
  <2>1. sent' \subseteq Message
    BY <1>1, MsgType DEF ExtraInitialStart, TypeOK, MessageType
  <2> QED BY <1>1, <2>1 DEF ExtraInitialStart, TypeOK, logVars
<1>2. CASE StateCheckNotify
  BY <1>2 DEF StateCheckNotify, TypeOK, netVars, logVars
<1>3. CASE StateCheckClear
  BY <1>3 DEF StateCheckClear, TypeOK, netVars, logVars
<1>4. CASE MakeConsensusRequests
  <2>1. requestBuffer' \subseteq Request /\ consensusState' \in BOOLEAN
    BY <1>4 DEF MakeConsensusRequests, TypeOK, Request
  <2> QED BY <1>4, <2>1 DEF MakeConsensusRequests, TypeOK, netVars, logVars
<1>5. CASE StartConsensus
  <2>1. PICK r \in RefilledBuffer \ taken[Leader] :
          HandleRequest(r) /\ startData' = startData \cup {r}
    BY <1>5 DEF StartConsensus
  <2>2. RefilledBuffer \subseteq Request
    BY DEF RefilledBuffer, TypeOK, Request
  <2>3. r \in Request BY <2>1, <2>2
  <2>4. sent' \subseteq Message
    BY <2>1, <2>3, MsgType DEF HandleRequest, RecordRequest, TypeOK, MessageType
  <2>5. requests' \in [Node -> Request \cup {NoRequest}]
    BY <2>1, <2>3 DEF HandleRequest, RecordRequest, TypeOK
  <2>6. taken' \in [Node -> SUBSET Request] /\ primary' \in [Node -> Node \cup {NoNode}]
    BY <2>1, <2>3 DEF HandleRequest, RecordRequest, TypeOK
  <2>7. requestBuffer' \subseteq Request /\ startData' \subseteq Request
    BY <1>5, <2>1, <2>2, <2>3 DEF StartConsensus, TypeOK
  <2> QED BY <1>5, <2>4, <2>5, <2>6, <2>7 DEF StartConsensus, TypeOK
<1>6. ASSUME NEW n \in Node, NEW m \in sent, HandleDistributePK(n, m) PROVE TypeOK'
  <2>1. sent' \subseteq Message
    BY <1>6, MsgType DEF HandleDistributePK, TypeOK, MessageType
  <2> QED BY <1>6, <2>1 DEF HandleDistributePK, TypeOK, logVars, actuatorVars
<1>7. ASSUME NEW n \in Node, NEW m \in sent, StoragePublicKey(n, m) PROVE TypeOK'
  <2>1. m.from \in Node BY DEF TypeOK, Message
  <2> QED BY <1>7, <2>1 DEF StoragePublicKey, TypeOK, logVars, actuatorVars
<1>8. ASSUME NEW n \in Node, NEW m \in sent, HandlePreprepare(n, m) PROVE TypeOK'
  <2>1. m \in Message /\ m.from \in Node /\ m.req \in Request
    BY <1>8 DEF HandlePreprepare, TakeProposal, RecordRequest, CanReceive, TypeOK, Message, SentInv, Vouched
  <2>2. sent' \subseteq Message
    BY <1>8, <2>1, MsgType DEF HandlePreprepare, TakeProposal, RecordRequest, TypeOK, MessageType
  <2>3. requests' \in [Node -> Request \cup {NoRequest}]
    BY <1>8, <2>1 DEF HandlePreprepare, TakeProposal, RecordRequest, TypeOK
  <2>4. messages' \in [Node -> SUBSET Message]
    <3>1. \/ messages' = [messages EXCEPT ![n] = @ \cup {m}]
          \/ messages' = messages
      BY <1>8 DEF HandlePreprepare, TakeProposal, RecordRequest
    <3>2. messages \in [Node -> SUBSET Message] BY DEF TypeOK
    <3> QED BY <2>1, <3>1, <3>2
  <2> QED BY <1>8, <2>1, <2>2, <2>3, <2>4 DEF HandlePreprepare, TakeProposal, RecordRequest, TypeOK, actuatorVars
<1>9. ASSUME NEW n \in Node, NEW m \in sent, HandlePrepare(n, m) PROVE TypeOK'
  <2>1. m \in Message /\ m.from \in Node /\ m.req \in Request
    BY <1>9 DEF HandlePrepare, CanReceive, TypeOK, Message, SentInv, Vouched
  <2>2. sent' \subseteq Message
    BY <1>9, <2>1, MsgType DEF HandlePrepare, TypeOK, MessageType
  <2>3. messages' \in [Node -> SUBSET Message] /\ prepared' \in [Node -> SUBSET Request]
    <3>1. /\ messages' = [messages EXCEPT ![n] = @ \cup {m}] \/ messages' = messages
          /\ prepared' = [prepared EXCEPT ![n] = @ \cup {m.req}] \/ prepared' = prepared
      BY <1>9 DEF HandlePrepare
    <3>2. messages \in [Node -> SUBSET Message] /\ prepared \in [Node -> SUBSET Request]
      BY DEF TypeOK
    <3> QED BY <2>1, <3>1, <3>2
  <2> QED BY <1>9, <2>1, <2>2, <2>3 DEF HandlePrepare, TypeOK, actuatorVars
<1>10. ASSUME NEW n \in Node, NEW m \in sent, HandleCommit(n, m) PROVE TypeOK'
  <2>1. m \in Message /\ m.from \in Node /\ m.req \in Request
    BY <1>10 DEF HandleCommit, CanReceive, TypeOK, Message, SentInv, Vouched
  <2>2. CASE AcceptsCommit(n, m) /\ Complete(n, m.req)
    <3>1. primary[n] = Leader
      BY <2>1, <2>2, RequestAssumption DEF AcceptsCommit, SlotInv
    <3>2. replies' \subseteq Reply
      BY <2>1, <2>2, <3>1 DEF Complete, TypeOK, Reply
    <3>3. endData' \in [Node -> Seq(Request)]
      <4>1. Append(endData[n], m.req) \in Seq(Request) BY <2>1 DEF TypeOK
      <4> QED BY <2>2, <4>1 DEF Complete, TypeOK
    <3>4. /\ requests' \in [Node -> Request \cup {NoRequest}]
          /\ messages' \in [Node -> SUBSET Message]
          /\ prepared' \in [Node -> SUBSET Request]
          /\ requestBuffer' \subseteq Request
      BY <2>1, <2>2 DEF Complete, LogReset, TypeOK
    <3> QED BY <1>10, <2>1, <3>2, <3>3, <3>4 DEF HandleCommit, TypeOK
  <2>3. CASE ~(AcceptsCommit(n, m) /\ Complete(n, m.req))
    <3>1. /\ messages' = [messages EXCEPT ![n] = @ \cup {m}] \/ messages' = messages
          /\ UNCHANGED <<replies, requests, prepared, endData, requestBuffer>>
      BY <1>10, <2>3 DEF HandleCommit
    <3>2. messages \in [Node -> SUBSET Message]
      BY DEF TypeOK
    <3>3. messages' \in [Node -> SUBSET Message]
      BY <2>1, <3>1, <3>2
    <3> QED BY <1>10, <2>1, <3>1, <3>3 DEF HandleCommit, TypeOK
  <2> QED BY <2>2, <2>3
<1>11. ASSUME NEW n \in Node, NEW m \in replies, HandleReply(n, m) PROVE TypeOK'
  <2>1. m \in Reply /\ m.req \in Request BY DEF TypeOK, Reply
  <2>2. /\ requests' \in [Node -> Request \cup {NoRequest}]
        /\ messages' \in [Node -> SUBSET Message]
        /\ prepared' \in [Node -> SUBSET Request]
        /\ replyMessages' \in [Node -> SUBSET Reply]
    <3>1. CASE LogReset(n) /\ replyMessages' = [replyMessages EXCEPT ![n] = {}]
      BY <3>1 DEF LogReset, TypeOK
    <3>2. CASE /\ UNCHANGED <<requests, messages, prepared>>
               /\ \/ replyMessages' = [replyMessages EXCEPT ![n] = replyMessages[n] \cup {m}]
                  \/ replyMessages' = replyMessages
      <4>1. replyMessages \in [Node -> SUBSET Reply] BY DEF TypeOK
      <4>2. replyMessages' \in [Node -> SUBSET Reply] BY <2>1, <3>2, <4>1
      <4> QED BY <3>2, <4>2 DEF TypeOK
    <3> QED BY <1>11, <3>1, <3>2 DEF HandleReply, logVars
  <2>3. over' \subseteq Request /\ consensusState' \in BOOLEAN
    BY <1>11, <2>1 DEF HandleReply, TypeOK
  <2> QED BY <1>11, <2>2, <2>3 DEF HandleReply, TypeOK
<1> QED
  BY <1>1, <1>2, <1>3, <1>4, <1>5, <1>6, <1>7, <1>8, <1>9, <1>10, <1>11
  DEF Next, Receive, Deliver

-----------------------------------------------------------------------------
(* Preservation, one lemma for each action that touches a message or a log. *)

\* Key distribution publishes no consensus message.
LEMMA ExtraInitialStartInv ==
  ASSUME IInv, ExtraInitialStart, TypeOK'
  PROVE  IInv'
<1> USE DEF IInv
<1>1. \A m \in sent' \ sent : Vouched(m)'
  BY DEF ExtraInitialStart, Vouched, Msg
<1>2. LogInv' BY DEF LogInv, ExtraInitialStart, logVars
<1>3. SlotInv'
  BY LeaderAssumption DEF SlotInv, ExtraInitialStart, logVars, TypeOK, HasExecuted, Proposed, Msg
<1> QED BY <1>1, <1>2, <1>3, PublishStep DEF ExtraInitialStart, logVars

\* The leader proposes only a request it has not taken, hence not executed.
LEMMA StartConsensusInv ==
  ASSUME IInv, StartConsensus, TypeOK'
  PROVE  IInv'
<1> USE LeaderAssumption DEF IInv
<1>1. PICK r \in RefilledBuffer \ taken[Leader] :
        HandleRequest(r) /\ startData' = startData \cup {r}
  BY DEF StartConsensus
<1>2. r \in Request
  BY <1>1 DEF RefilledBuffer, TypeOK, Request
<1>3. taken'[Leader] = taken[Leader] \cup {r} /\ sent' = sent \cup {Msg("PrePrepare", Leader, r)}
  BY <1>1 DEF HandleRequest, RecordRequest, TypeOK
<1>4. \A m \in sent' \ sent : Vouched(m)'
  BY <1>1, <1>2, <1>3 DEF Vouched, Msg
<1>5. LogInv' BY <1>3 DEF LogInv, StartConsensus
<1>6. ~HasExecuted(Leader, r)
  BY <1>1, <1>2 DEF SlotInv, Proposed
<1>7. SlotInv'
  <2> SUFFICES ASSUME NEW n \in Node
               PROVE  /\ primary'[n] \in {Leader, NoNode}
                      /\ requests'[n] # NoRequest =>
                           /\ primary'[n] = Leader
                           /\ Proposed(n, requests[n])'
                           /\ ~HasExecuted(n, requests[n])'
                      /\ \A q \in Request : HasExecuted(n, q)' => Proposed(n, q)'
    BY DEF SlotInv
  <2>1. \A q : HasExecuted(n, q)' <=> HasExecuted(n, q)
    BY DEF StartConsensus, HasExecuted
  <2>2. \A q : Proposed(n, q) => Proposed(n, q)'
    BY <1>3 DEF Proposed, StartConsensus, Msg
  <2>3. CASE n # Leader
    <3>1. primary'[n] = primary[n] /\ requests'[n] = requests[n]
      BY <1>1, <2>3 DEF HandleRequest, RecordRequest, TypeOK
    <3>2. HasExecuted(n, requests[n])' <=> HasExecuted(n, requests[n])
      BY <3>1 DEF StartConsensus, HasExecuted
    <3>3. Proposed(n, requests[n]) => Proposed(n, requests[n])'
      BY <1>3, <3>1 DEF Proposed, StartConsensus, Msg
    <3> QED BY <2>1, <2>2, <3>1, <3>2, <3>3 DEF SlotInv
  <2>4. CASE n = Leader
    <3>1. /\ primary'[n] = Leader
          /\ requests'[n] = IF requests[n] = NoRequest THEN r ELSE requests[n]
      BY <1>1, <2>4 DEF HandleRequest, RecordRequest, TypeOK
    <3>2. HasExecuted(n, requests[n])' <=> HasExecuted(n, requests'[n])
      BY DEF StartConsensus, HasExecuted
    <3>3. Proposed(n, requests[n])' <=> requests'[n] \in taken'[Leader]
      BY <2>4 DEF Proposed
    <3> QED BY <1>3, <1>6, <2>1, <2>2, <2>4, <3>1, <3>2, <3>3 DEF SlotInv, Proposed
  <2> QED BY <2>3, <2>4
<1> QED BY <1>1, <1>3, <1>4, <1>5, <1>7, PublishStep DEF StartConsensus

\* Answering with a public key.
LEMMA HandleDistributePKInv ==
  ASSUME IInv, NEW n \in Node, NEW m \in sent, HandleDistributePK(n, m), TypeOK'
  PROVE  IInv'
<1> USE DEF IInv
<1>1. \A x \in sent' \ sent : Vouched(x)'
  BY DEF HandleDistributePK, Vouched, Msg
<1>2. LogInv' BY DEF LogInv, HandleDistributePK, logVars
<1>3. SlotInv'
  BY DEF SlotInv, HandleDistributePK, logVars, actuatorVars, TypeOK, HasExecuted, Proposed, Msg
<1> QED BY <1>1, <1>2, <1>3, PublishStep DEF HandleDistributePK, logVars, actuatorVars

\* Storing a public key.
LEMMA StoragePublicKeyInv ==
  ASSUME IInv, NEW n \in Node, NEW m \in sent, StoragePublicKey(n, m), TypeOK'
  PROVE  IInv'
<1> USE DEF IInv
<1>1. LogInv' BY DEF LogInv, StoragePublicKey, logVars
<1>2. SlotInv'
  BY DEF SlotInv, StoragePublicKey, logVars, actuatorVars, TypeOK, HasExecuted, Proposed, Msg
<1> QED BY <1>1, <1>2, PublishStep DEF StoragePublicKey, logVars, actuatorVars

\* A PrePrepare reaches a replica once, so what it logs it has not executed.
LEMMA HandlePreprepareInv ==
  ASSUME IInv, NEW n \in Node, NEW m \in sent, HandlePreprepare(n, m), TypeOK'
  PROVE  IInv'
<1> USE LeaderAssumption, RequestAssumption DEF IInv
<1>1. /\ m \in Message /\ m.type = "PrePrepare" /\ m \notin seen[n] /\ m.from # n
      /\ m.from = Leader /\ m.req \in Request
  BY DEF HandlePreprepare, TakeProposal, RecordRequest, CanReceive, TypeOK, SentInv, Vouched
<1>2. n # Leader /\ m = Msg("PrePrepare", Leader, m.req)
  BY <1>1 DEF Message, Msg
<1>3. /\ UNCHANGED <<replies, replyMessages, startData, endData, over>>
      /\ sent' = sent \/ sent' = sent \cup {Msg("Prepare", n, m.req)}
      /\ taken'[Leader] = taken[Leader]
  BY <1>2 DEF HandlePreprepare, TakeProposal, RecordRequest, actuatorVars, TypeOK
<1>4. \A x \in sent' \ sent : Vouched(x)'
  BY <1>1, <1>2, <1>3 DEF Vouched, Msg
<1>5. LogInv'
  <2>1. \A x \in Node : messages'[x] \subseteq messages[x] \cup (IF x = n THEN {m} ELSE {})
    BY DEF HandlePreprepare, TakeProposal, RecordRequest, TypeOK
  <2> QED BY <1>1, <1>3, <2>1 DEF LogInv
<1>6. ~HasExecuted(n, m.req)
  BY <1>1, <1>2 DEF SlotInv, Proposed
<1>7. \A x \in Node : \A q : HasExecuted(x, q)' <=> HasExecuted(x, q)
  BY <1>3 DEF HasExecuted
<1>8. /\ seen'[n] = seen[n] \cup {m}
      /\ primary'[n] = Leader
      /\ \A x \in Node \ {n} : /\ seen'[x] = seen[x]
                               /\ primary'[x] = primary[x]
                               /\ requests'[x] = requests[x]
      /\ \/ requests'[n] = requests[n]
         \/ requests'[n] = m.req
  BY <1>1 DEF HandlePreprepare, TakeProposal, RecordRequest, TypeOK
<1>9. \A x \in Node : \A q : Proposed(x, q) => Proposed(x, q)'
  BY <1>2, <1>3, <1>8 DEF Proposed, Msg
<1>10. Proposed(n, m.req)'
  BY <1>1, <1>2, <1>8 DEF Proposed, Msg
<1>11. SlotInv'
  <2> SUFFICES ASSUME NEW x \in Node
               PROVE  /\ primary'[x] \in {Leader, NoNode}
                      /\ requests'[x] # NoRequest =>
                           /\ primary'[x] = Leader
                           /\ Proposed(x, requests[x])'
                           /\ ~HasExecuted(x, requests[x])'
                      /\ \A q \in Request : HasExecuted(x, q)' => Proposed(x, q)'
    BY DEF SlotInv
  <2>1. HasExecuted(x, requests[x])' <=> HasExecuted(x, requests'[x])
    BY <1>3 DEF HasExecuted
  <2>2. Proposed(x, requests'[x]) => Proposed(x, requests[x])'
    BY <1>2, <1>3, <1>8 DEF Proposed, Msg
  <2>3. requests'[x] = m.req /\ x = n => Proposed(x, requests[x])'
    BY <1>1, <1>2, <1>8 DEF Proposed, Msg
  <2> QED BY <1>6, <1>7, <1>8, <1>9, <2>1, <2>2, <2>3 DEF SlotInv
<1> QED BY <1>3, <1>4, <1>5, <1>11, PublishStep

\* A Commit is published when 2f Prepares of others are in the log.
LEMMA HandlePrepareInv ==
  ASSUME IInv, NEW n \in Node, NEW m \in sent, HandlePrepare(n, m), TypeOK'
  PROVE  IInv'
<1> USE DEF IInv
<1>1. m \in Message /\ m.type = "Prepare" /\ m.from # n /\ m.req \in Request
  BY DEF HandlePrepare, CanReceive, TypeOK, SentInv, Vouched
<1>2. /\ UNCHANGED <<replies, replyMessages, startData, endData, over, primary, requests, taken>>
      /\ sent \subseteq sent'
      /\ messages' = [messages EXCEPT ![n] = @ \cup {m}] \/ messages' = messages
      /\ seen' = [seen EXCEPT ![n] = @ \cup {m}]
  BY DEF HandlePrepare, actuatorVars
<1>3. LogInv'
  <2>1. \A x \in Node : messages'[x] \subseteq messages[x] \cup (IF x = n THEN {m} ELSE {})
    BY <1>2 DEF TypeOK
  <2> QED BY <1>1, <1>2, <2>1 DEF LogInv
<1>4. \A x \in sent' \ sent : Vouched(x)'
  <2>1. CASE sent' = sent BY <2>1
  <2>2. CASE sent' # sent
    <3>1. /\ messages' = [messages EXCEPT ![n] = @ \cup {m}]
          /\ Count(messages'[n], "Prepare", m.req) = Threshold
          /\ sent' = sent \cup {Msg("Commit", n, m.req)}
      BY <2>2 DEF HandlePrepare
    <3>2. /\ messages'[n] \in SUBSET Message
          /\ \A x \in messages'[n] : x \in sent /\ x.from # n
      BY <1>1, <3>1 DEF TypeOK, LogInv
    <3>3. Cardinality(Others(n, "Prepare", m.req)) >= 2 * FaultTolerance
      BY <3>1, <3>2, CountBound DEF Threshold
    <3>4. Cardinality(Others(n, "Prepare", m.req)') >= 2 * FaultTolerance
      BY <1>2, <3>3, OthersGrow, FaultAssumption
    <3>5. PrepareCertified(n, m.req)'
      BY <3>4 DEF PrepareCertified
    <3>6. Vouched(Msg("Commit", n, m.req))'
      BY <1>1, <3>5 DEF Vouched, Msg
    <3> QED BY <3>1, <3>6
  <2> QED BY <2>1, <2>2
<1>5. SlotInv'
  BY <1>2 DEF SlotInv, TypeOK, HasExecuted, Proposed, Msg
<1> QED BY <1>2, <1>3, <1>4, <1>5, PublishStep

\* A node reports r with 2f Commits of others behind it, once.
LEMMA CompleteInv ==
  ASSUME IInv, NEW n \in Node, NEW m \in sent, HandleCommit(n, m), TypeOK',
         AcceptsCommit(n, m), Complete(n, m.req),
         Count(messages[n] \cup {m}, "Commit", m.req) = Threshold
  PROVE  IInv'
<1> USE LeaderAssumption, RequestAssumption DEF IInv
<1> DEFINE r == m.req
<1>1. m \in Message /\ m.type = "Commit" /\ m.from # n /\ r \in Request
  BY DEF HandleCommit, CanReceive, TypeOK, SentInv, Vouched
<1>2. /\ UNCHANGED <<sent, primary, replyMessages, taken, startData, over>>
      /\ seen' = [seen EXCEPT ![n] = @ \cup {m}]
  BY DEF HandleCommit
<1>3. /\ requests[n] = r
      /\ primary[n] = Leader
      /\ Proposed(n, r)
      /\ ~HasExecuted(n, r)
  BY <1>1 DEF AcceptsCommit, SlotInv
<1>4. /\ requests' = [requests EXCEPT ![n] = NoRequest]
      /\ messages' = [messages EXCEPT ![n] = {}]
      /\ endData' = [endData EXCEPT ![n] = Append(@, r)]
      /\ replies' = IF n = Leader THEN replies
                    ELSE replies \cup {[from |-> n, to |-> Leader, req |-> r]}
  BY <1>3 DEF Complete, LogReset
<1>5. \A x \in Node : \A q : HasExecuted(x, q)' <=> HasExecuted(x, q) \/ (x = n /\ q = r)
  <2> SUFFICES ASSUME NEW x \in Node, NEW q
               PROVE  HasExecuted(x, q)' <=> HasExecuted(x, q) \/ (x = n /\ q = r)
    OBVIOUS
  <2>1. CASE x # n
    <3>1. endData'[x] = endData[x] BY <1>4, <2>1 DEF TypeOK
    <3> QED BY <2>1, <3>1 DEF HasExecuted
  <2>2. CASE x = n
    <3>1. endData'[x] = Append(endData[x], r) /\ endData[x] \in Seq(Request)
      BY <1>4, <2>2 DEF TypeOK
    <3>2. Occurs(endData'[x], q) <=> Occurs(endData[x], q) \/ q = r
      BY <1>1, <3>1, AppendOccurs
    <3> QED BY <2>2, <3>2 DEF HasExecuted
  <2> QED BY <2>1, <2>2
<1> HIDE DEF r
<1>6. SentInv'
  BY <1>2, VouchedGrow DEF SentInv
<1>7. LogInv'
  BY <1>2, <1>4 DEF LogInv, TypeOK
<1>8. SlotInv'
  <2> SUFFICES ASSUME NEW x \in Node
               PROVE  /\ primary'[x] \in {Leader, NoNode}
                      /\ requests'[x] # NoRequest =>
                           /\ primary'[x] = Leader
                           /\ Proposed(x, requests[x])'
                           /\ ~HasExecuted(x, requests[x])'
                      /\ \A q \in Request : HasExecuted(x, q)' => Proposed(x, q)'
    BY DEF SlotInv
  <2>1. \A q : Proposed(x, q) => Proposed(x, q)'
    BY <1>2 DEF Proposed, Msg, TypeOK
  <2>2. \A q \in Request : HasExecuted(x, q)' => Proposed(x, q)'
    BY <1>3, <1>5, <2>1 DEF SlotInv
  <2>3. primary'[x] \in {Leader, NoNode}
    BY <1>2 DEF SlotInv
  <2>4. ASSUME requests'[x] # NoRequest
        PROVE  /\ primary'[x] = Leader
               /\ Proposed(x, requests[x])'
               /\ ~HasExecuted(x, requests[x])'
    <3>1. x # n /\ requests'[x] = requests[x] /\ endData'[x] = endData[x]
      BY <1>4, <2>4 DEF TypeOK
    <3>2. ~HasExecuted(x, requests[x])'
      BY <2>4, <3>1 DEF SlotInv, HasExecuted
    <3>3. Proposed(x, requests[x])'
      BY <1>2, <2>4, <3>1 DEF SlotInv, Proposed, Msg, TypeOK
    <3> QED BY <1>2, <2>4, <3>1, <3>2, <3>3 DEF SlotInv
  <2> QED BY <2>2, <2>3, <2>4
<1>9. ExecutedInv'
  <2>1. /\ messages[n] \cup {m} \in SUBSET Message
        /\ \A x \in messages[n] \cup {m} : x \in sent /\ x.from # n
    BY <1>1 DEF TypeOK, LogInv
  <2>2. Cardinality(Others(n, "Commit", r)) >= 2 * FaultTolerance
    BY <2>1, CountBound DEF Threshold, r
  <2>3. \A x \in Node, q \in Request : Others(x, "Commit", q)' = Others(x, "Commit", q)
    BY <1>2 DEF Others, Msg
  <2> QED BY <1>5, <2>2, <2>3 DEF ExecutedInv
<1>10. ExecuteOnce'
  <2> SUFFICES ASSUME NEW x \in Node
               PROVE  \A i, j \in 1..Len(endData'[x]) : endData'[x][i] = endData'[x][j] => i = j
    BY DEF ExecuteOnce
  <2>1. CASE x # n
    BY <1>4, <2>1 DEF TypeOK, ExecuteOnce
  <2>2. CASE x = n
    <3>1. endData'[x] = Append(endData[x], r) /\ endData[x] \in Seq(Request)
      BY <1>4, <2>2 DEF TypeOK
    <3>2. ~Occurs(endData[x], r) BY <1>3, <2>2 DEF HasExecuted
    <3>3. \A i, j \in 1..Len(endData[x]) : endData[x][i] = endData[x][j] => i = j
      BY DEF ExecuteOnce
    <3> QED BY <1>1, <3>1, <3>2, <3>3, AppendDistinct DEF r
  <2> QED BY <2>1, <2>2
<1>11. ReplyInv'
  <2>1. \A x \in replies' : x.to = Leader /\ x.from # Leader /\ HasExecuted(x.from, x.req)'
    <3> SUFFICES ASSUME NEW x \in replies'
                 PROVE  x.to = Leader /\ x.from # Leader /\ HasExecuted(x.from, x.req)'
      OBVIOUS
    <3>1. CASE x \in replies
      <4>1. x.from \in Node BY <3>1 DEF TypeOK, Reply
      <4>2. x.to = Leader /\ x.from # Leader /\ HasExecuted(x.from, x.req)
        BY <3>1 DEF ReplyInv
      <4> QED BY <1>5, <4>1, <4>2
    <3>2. CASE x \notin replies
      <4>1. x = [from |-> n, to |-> Leader, req |-> r] /\ n # Leader
        BY <1>4, <3>2
      <4> QED BY <1>5, <4>1
    <3> QED BY <3>1, <3>2
  <2>2. \A x \in Node : \A y \in replyMessages'[x] :
          y.to = Leader /\ y.from # Leader /\ HasExecuted(y.from, y.req)'
    <3> SUFFICES ASSUME NEW x \in Node, NEW y \in replyMessages[x]
                 PROVE  y.to = Leader /\ y.from # Leader /\ HasExecuted(y.from, y.req)'
      BY <1>2
    <3>1. y.from \in Node BY DEF TypeOK, Reply
    <3>2. y.to = Leader /\ y.from # Leader /\ HasExecuted(y.from, y.req)
      BY DEF ReplyInv
    <3> QED BY <1>5, <3>1, <3>2
  <2> QED BY <2>1, <2>2 DEF ReplyInv
<1>12. OverCertified'
  <2> SUFFICES ASSUME NEW q \in over'
               PROVE  Cardinality({x \in Node \ {Leader} : HasExecuted(x, q)'})
                        >= Cardinality(Node) - FaultTolerance - 1
    BY DEF OverCertified
  <2> DEFINE A == {x \in Node \ {Leader} : HasExecuted(x, q)}
             B == {x \in Node \ {Leader} : HasExecuted(x, q)'}
  <2>1. A \subseteq B BY <1>5
  <2>2. IsFiniteSet(B) BY NodeAssumption, FS_Subset
  <2>3. Cardinality(A) <= Cardinality(B) /\ Cardinality(A) \in Nat /\ Cardinality(B) \in Nat
    BY <2>1, <2>2, FS_Subset, FS_CardinalityType
  <2>4. Cardinality(A) >= Cardinality(Node) - FaultTolerance - 1
    BY <1>2 DEF OverCertified
  <2>5. Cardinality(Node) \in Nat BY NodeAssumption, FS_CardinalityType
  <2> QED BY <2>3, <2>4, <2>5, FaultAssumption
<1> QED BY <1>6, <1>7, <1>8, <1>9, <1>10, <1>11, <1>12

\* A Commit that completes nothing only enters the log, if anything.
LEMMA HandleCommitInv ==
  ASSUME IInv, NEW n \in Node, NEW m \in sent, HandleCommit(n, m), TypeOK'
  PROVE  IInv'
<1>1. CASE /\ AcceptsCommit(n, m)
           /\ Count(messages[n] \cup {m}, "Commit", m.req) = Threshold
           /\ Complete(n, m.req)
  BY <1>1, CompleteInv
<1>2. CASE ~(/\ AcceptsCommit(n, m)
             /\ Count(messages[n] \cup {m}, "Commit", m.req) = Threshold
             /\ Complete(n, m.req))
  <2> USE DEF IInv
  <2>1. m \in Message /\ m.from # n
    BY DEF HandleCommit, CanReceive, TypeOK
  <2>2. /\ UNCHANGED <<sent, replies, replyMessages, startData, endData, over,
                       primary, requests, taken>>
        /\ messages' = [messages EXCEPT ![n] = @ \cup {m}] \/ messages' = messages
        /\ seen' = [seen EXCEPT ![n] = @ \cup {m}]
    BY <1>2 DEF HandleCommit
  <2>3. LogInv'
    <3>1. \A x \in Node : messages'[x] \subseteq messages[x] \cup (IF x = n THEN {m} ELSE {})
      BY <2>2 DEF TypeOK
    <3> QED BY <2>1, <2>2, <3>1 DEF LogInv
  <2>4. SlotInv'
    BY <2>2 DEF SlotInv, TypeOK, HasExecuted, Proposed, Msg
  <2> QED BY <2>2, <2>3, <2>4, PublishStep
<1> QED BY <1>1, <1>2

\* The leader closes a request on replies of that many replicas that executed it.
LEMMA HandleReplyInv ==
  ASSUME IInv, NEW n \in Node, NEW m \in replies, HandleReply(n, m), TypeOK'
  PROVE  IInv'
<1> USE LeaderAssumption DEF IInv
<1> DEFINE recorded == replyMessages[n] \cup {m}
<1>1. /\ m \in Reply /\ recorded \in SUBSET Reply
      /\ \A x \in recorded : x.to = Leader /\ x.from # Leader /\ HasExecuted(x.from, x.req)
  BY DEF TypeOK, ReplyInv
<1>2. /\ UNCHANGED <<sent, seen, primary, taken, startData, endData>>
      /\ replies' \subseteq replies
  BY DEF HandleReply
<1>3. \A x \in Node : /\ requests'[x] \in {requests[x], NoRequest}
                      /\ messages'[x] \subseteq messages[x]
                      /\ replyMessages'[x] \subseteq
                           (replyMessages[x] \cup (IF x = n THEN {m} ELSE {}))
  BY DEF HandleReply, LogReset, logVars, TypeOK
<1>4. \A x, q : HasExecuted(x, q)' <=> HasExecuted(x, q)
  BY <1>2 DEF HasExecuted
<1>5. SentInv' BY <1>2, VouchedGrow DEF SentInv
<1>6. LogInv' BY <1>2, <1>3 DEF LogInv
<1>7. SlotInv'
  <2> SUFFICES ASSUME NEW x \in Node
               PROVE  /\ primary'[x] \in {Leader, NoNode}
                      /\ requests'[x] # NoRequest =>
                           /\ primary'[x] = Leader
                           /\ Proposed(x, requests[x])'
                           /\ ~HasExecuted(x, requests[x])'
                      /\ \A q \in Request : HasExecuted(x, q)' => Proposed(x, q)'
    BY DEF SlotInv
  <2>1. \A q : Proposed(x, q)' <=> Proposed(x, q)
    BY <1>2 DEF Proposed, Msg
  <2>2. requests'[x] # NoRequest => requests'[x] = requests[x]
    BY <1>3
  <2>3. requests'[x] # NoRequest =>
          (HasExecuted(x, requests[x])' <=> HasExecuted(x, requests[x]))
    BY <1>2, <2>2 DEF HasExecuted
  <2>4. requests'[x] # NoRequest =>
          (Proposed(x, requests[x])' <=> Proposed(x, requests[x]))
    BY <1>2, <2>2 DEF Proposed, Msg
  <2> QED BY <1>2, <1>4, <2>1, <2>2, <2>3, <2>4 DEF SlotInv
<1>8. ExecutedInv' BY <1>2, ExecutedGrow
<1>9. ExecuteOnce' BY <1>2 DEF ExecuteOnce
<1>10. ReplyInv'
  <2>1. \A x \in replies' : x.to = Leader /\ x.from # Leader /\ HasExecuted(x.from, x.req)'
    BY <1>2, <1>4 DEF ReplyInv
  <2>2. \A x \in Node : \A y \in replyMessages'[x] :
          y.to = Leader /\ y.from # Leader /\ HasExecuted(y.from, y.req)'
    BY <1>1, <1>3, <1>4 DEF ReplyInv
  <2> QED BY <2>1, <2>2 DEF ReplyInv
<1>11. OverCertified'
  <2> SUFFICES ASSUME NEW q \in over'
               PROVE  Cardinality({x \in Node \ {Leader} : HasExecuted(x, q)'})
                        >= Cardinality(Node) - FaultTolerance - 1
    BY DEF OverCertified
  <2>1. {x \in Node \ {Leader} : HasExecuted(x, q)'} = {x \in Node \ {Leader} : HasExecuted(x, q)}
    BY <1>4
  <2>2. CASE q \in over
    BY <2>1, <2>2 DEF OverCertified
  <2>3. CASE q \notin over
    <3>1. q = m.req /\ ReplyCount(recorded, m.req) = ReplyThreshold
      BY <2>3 DEF HandleReply
    <3>2. ReplyThreshold <= Cardinality({x \in Node \ {Leader} : HasExecuted(x, q)})
      BY <1>1, <3>1, ReplyBound
    <3>3. /\ Cardinality(Node) \in Nat
          /\ Cardinality({x \in Node \ {Leader} : HasExecuted(x, q)}) \in Nat
      BY NodeAssumption, FS_Subset, FS_CardinalityType
    <3> QED BY <2>1, <3>2, <3>3, FaultAssumption DEF ReplyThreshold
  <2> QED BY <2>2, <2>3
<1> QED BY <1>5, <1>6, <1>7, <1>8, <1>9, <1>10, <1>11

\* The invariant is inductive.
LEMMA NextInv == IInv /\ [Next]_vars => IInv'
<1> SUFFICES ASSUME IInv, [Next]_vars PROVE IInv' OBVIOUS
<1>1. CASE Next
  <2>1. TypeOK' BY <1>1, TypeStep
  <2>2. CASE ExtraInitialStart BY <2>1, <2>2, ExtraInitialStartInv
  <2>3. CASE StateCheckNotify
    BY <2>1, <2>3, QuietStep DEF StateCheckNotify, netVars, logVars
  <2>4. CASE StateCheckClear
    BY <2>1, <2>4, QuietStep DEF StateCheckClear, netVars, logVars
  <2>5. CASE MakeConsensusRequests
    BY <2>1, <2>5, QuietStep DEF MakeConsensusRequests, netVars, logVars
  <2>6. CASE StartConsensus BY <2>1, <2>6, StartConsensusInv
  <2>7. ASSUME NEW n \in Node, Receive(n) PROVE IInv'
    <3>1. ASSUME NEW m \in sent, Deliver(n, m) PROVE IInv'
      BY <2>1, <3>1, HandleDistributePKInv, StoragePublicKeyInv, HandlePreprepareInv,
         HandlePrepareInv, HandleCommitInv DEF Deliver
    <3>2. ASSUME NEW m \in replies, HandleReply(n, m) PROVE IInv'
      BY <2>1, <3>2, HandleReplyInv
    <3> QED BY <2>7, <3>1, <3>2 DEF Receive
  <2> QED BY <1>1, <2>2, <2>3, <2>4, <2>5, <2>6, <2>7 DEF Next
<1>2. CASE UNCHANGED vars
  <2>1. TypeOK'
    BY <1>2 DEF IInv, TypeOK, vars, netVars, logVars, actuatorVars
  <2> QED BY <1>2, <2>1, QuietStep DEF vars, netVars, logVars, actuatorVars
<1> QED BY <1>1, <1>2

\* A certificate of Commits implies the certificates below it.
LEMMA CertificateChain == IInv => CommitCertificate
<1> SUFFICES ASSUME IInv, NEW n \in Node, NEW r \in Request, HasExecuted(n, r)
             PROVE  /\ Cardinality(Others(n, "Commit", r)) >= 2 * FaultTolerance
                    /\ \A x \in Others(n, "Commit", r) : PrepareCertified(x, r)
                    /\ Msg("PrePrepare", Leader, r) \in sent
                    /\ r \in startData
  BY DEF CommitCertificate
<1> USE DEF IInv
<1>1. Cardinality(Others(n, "Commit", r)) >= 2 * FaultTolerance
  BY DEF ExecutedInv
<1>2. \A x \in Others(n, "Commit", r) : PrepareCertified(x, r)
  BY DEF Others, SentInv, Vouched, Msg
<1>3. \A x, t : Cardinality(Others(x, t, r)) >= 2 * FaultTolerance => Others(x, t, r) # {}
  BY FaultAssumption, FS_EmptySet
<1>4. PICK x \in Others(n, "Commit", r) : TRUE BY <1>1, <1>3
<1>5. PICK y \in Others(x, "Prepare", r) : TRUE
  BY <1>2, <1>3, <1>4 DEF PrepareCertified
<1>6. Msg("PrePrepare", Leader, r) \in sent
  BY <1>5 DEF Others, SentInv, Vouched, Msg
<1>7. r \in startData
  BY <1>6 DEF SentInv, Vouched, Msg
<1> QED BY <1>1, <1>2, <1>6, <1>7

\* A step that empties or changes a replica's slot executes what was in it.
LEMMA EvictionStep ==
  ASSUME IInv, [Next]_vars, NEW n \in Node \ {Leader},
         requests[n] # NoRequest, requests'[n] # requests[n]
  PROVE  requests'[n] = NoRequest /\ endData'[n] = Append(endData[n], requests[n])
<1> USE LeaderAssumption DEF IInv
<1>1. requests' # requests /\ Next
  BY DEF vars, logVars
<1>2. ASSUME StartConsensus PROVE requests'[n] = requests[n]
  BY <1>2 DEF StartConsensus, HandleRequest, RecordRequest, TypeOK
<1>3. ASSUME NEW x \in Node, NEW m \in sent, HandlePreprepare(x, m)
      PROVE  requests'[n] = requests[n]
  BY <1>3 DEF HandlePreprepare, TakeProposal, RecordRequest, TypeOK
<1>4. ASSUME NEW x \in Node, NEW m \in sent, HandleCommit(x, m)
      PROVE  requests'[n] = NoRequest /\ endData'[n] = Append(endData[n], requests[n])
  <2>1. AcceptsCommit(x, m) /\ Complete(x, m.req)
    BY <1>1, <1>4 DEF HandleCommit
  <2>2. x = n
    BY <2>1 DEF Complete, LogReset, TypeOK
  <2> QED BY <2>1, <2>2 DEF AcceptsCommit, Complete, LogReset, TypeOK
<1>5. ASSUME NEW x \in Node, NEW m \in replies, HandleReply(x, m)
      PROVE  requests'[n] = requests[n]
  <2>1. x = Leader BY <1>5 DEF HandleReply, ReplyInv
  <2> QED BY <1>5, <2>1 DEF HandleReply, LogReset, logVars, TypeOK
<1>6. \E x \in Node : Receive(x)
  BY <1>1, <1>2 DEF Next, ExtraInitialStart, StateCheckNotify, StateCheckClear,
                    MakeConsensusRequests, logVars
<1>7. PICK x \in Node :
        \/ \E m \in sent : HandlePreprepare(x, m) \/ HandleCommit(x, m)
        \/ \E m \in replies : HandleReply(x, m)
  BY <1>1, <1>6 DEF Receive, Deliver, HandleDistributePK, StoragePublicKey,
                    HandlePrepare, logVars
<1> QED BY <1>3, <1>4, <1>5, <1>7

-----------------------------------------------------------------------------
(* The theorems. *)

\* IInv holds in every reachable state, whatever the interleaving.
THEOREM Invariance == Spec => []IInv
<1> QED BY InitInv, NextInv, PTL DEF Spec

\* Type correctness; in particular every Reply of handle_commit has an addressee.
THEOREM TypeCorrect == Spec => []TypeOK
<1>1. IInv => TypeOK BY DEF IInv
<1> QED BY <1>1, Invariance, PTL

\* Whatever a node reports to the analyzer as agreed was proposed by the leader
\* and carries the full chain of Commit and Prepare certificates.
THEOREM CommitsCertified == Spec => []CommitCertificate
<1> QED BY CertificateChain, Invariance, PTL

\* No node executes a request twice although the log forgets what it committed.
THEOREM ExecutesOnce == Spec => []ExecuteOnce
<1>1. IInv => ExecuteOnce BY DEF IInv
<1> QED BY <1>1, Invariance, PTL

\* A request the leader closed was executed by n - f - 1 replicas.
THEOREM ClosedIsExecuted == Spec => []OverCertified
<1>1. IInv => OverCertified BY DEF IInv
<1> QED BY <1>1, Invariance, PTL

\* A replica's slot is emptied only by executing the request it holds.
THEOREM EvictionExecutes == Spec => EvictedOnlyByExecution
<1>1. IInv /\ [Next]_vars =>
        [\A n \in Node \ {Leader} :
           requests[n] # NoRequest /\ requests'[n] # requests[n]
             => requests'[n] = NoRequest
                /\ endData'[n] = Append(endData[n], requests[n])]_vars
  <2> SUFFICES ASSUME IInv, [Next]_vars, NEW n \in Node \ {Leader},
                      requests[n] # NoRequest, requests'[n] # requests[n]
               PROVE  requests'[n] = NoRequest
                      /\ endData'[n] = Append(endData[n], requests[n])
    OBVIOUS
  <2> QED BY EvictionStep
<1> QED BY <1>1, Invariance, PTL DEF Spec, EvictedOnlyByExecution

=============================================================================
