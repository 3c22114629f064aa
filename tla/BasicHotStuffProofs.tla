------------------------- MODULE BasicHotStuffProofs -------------------------
(* Proofs, for every number of nodes, every set of requests and every f, of    *)
(* what the phases of Basic HotStuff are for: no node goes back, they implement *)
(* PhaseLadder, what is completed is locked by a quorum, and who may panic for  *)
(* want of a key.                                                               *)
EXTENDS BasicHotStuff, FiniteSetTheorems, TLAPS

USE DEF netVars, keyVars, qcVars, logVars, actuatorVars

-----------------------------------------------------------------------------
(* Views and locks.                                                         *)

\* The functions that actions update are defined on the nodes.
Domains ==
  /\ DOMAIN seen = Node /\ DOMAIN votes = Node /\ DOMAIN endData = Node
  /\ DOMAIN prepareQc = Node /\ DOMAIN lockedQc = Node /\ DOMAIN primary = Node
  /\ keypair \in [Node -> BOOLEAN] /\ pks \in [Node -> BOOLEAN]
  /\ view \in [Node -> Nat]

\* What a step changes besides panicked, whoever takes it.
Step ==
  \/ ExtraInitialStart
  \/ \E n \in Node : MakeConsensusRequests(n) \/ StartConsensus(n)
  \/ \E n \in Node, m \in sent : Deliver(n, m)
  \/ \E n \in Node, u \in mail : Open(n, u)

LEMMA StepTaken == ASSUME [Next]_vars PROVE [Step]_nodeVars
<1>1. CASE UNCHANGED vars BY <1>1 DEF vars
<1>2. ASSUME NEW n \in Node, Work(n) PROVE Step BY <1>2 DEF Work, Step
<1>3. ASSUME NEW n \in Node, Panics(n) PROVE UNCHANGED nodeVars BY <1>3 DEF Panics
<1> QED BY <1>1, <1>2, <1>3 DEF Next

LEMMA DomainsInit == ASSUME Init PROVE Domains
BY DEF Init, Domains

\* The next view is entered with its leader as the primary.
LEMMA Entered ==
  ASSUME Domains, NEW n \in Node, NewView(n)
  PROVE  /\ view' \in [Node -> Nat] /\ DOMAIN primary' = Node
         /\ view'[n] = view[n] + 1 /\ primary'[n] = Leader(view[n] + 1)
         /\ \A q \in Node \ {n} : view'[q] = view[q] /\ primary'[q] = primary[q]
BY DEF Domains, NewView

LEMMA DomainsStep == ASSUME Domains, [Next]_vars PROVE Domains'
<1>e. ASSUME NEW n \in Node, NewView(n) PROVE view' \in [Node -> Nat] /\ DOMAIN primary' = Node
  BY <1>e, Entered
<1> USE DEF Domains
<1>1. CASE ExtraInitialStart
  <2>1. NewView(Starter) BY <1>1 DEF ExtraInitialStart, DistributeKeys
  <2>2. view' \in [Node -> Nat] /\ DOMAIN primary' = Node BY <1>e, <2>1, NodeAssumption
  <2>3. keypair' \in [Node -> BOOLEAN] /\ pks' \in [Node -> BOOLEAN]
    BY <1>1 DEF ExtraInitialStart, DistributeKeys
  <2> QED BY <1>1, <2>2, <2>3 DEF ExtraInitialStart, DistributeKeys
<1>2. ASSUME NEW n \in Node, MakeConsensusRequests(n) \/ StartConsensus(n) PROVE Domains'
  BY <1>2 DEF MakeConsensusRequests, StartConsensus
<1>3. ASSUME NEW n \in Node, NEW m \in sent, Deliver(n, m) PROVE Domains'
  <2>1. CASE StorageConsensusNodePk(n, m)
    <3>1. view' \in [Node -> Nat] /\ DOMAIN primary' = Node
      BY <1>e, <2>1 DEF StorageConsensusNodePk
    <3> QED BY <2>1, <3>1 DEF StorageConsensusNodePk, Saw
  <2>2. CASE HandlePrepare(n, m) BY <2>2 DEF HandlePrepare, Saw
  <2>3. CASE HandlePrecommit(n, m) BY <2>3 DEF HandlePrecommit, Saw
  <2>4. CASE HandleCommit(n, m) BY <2>4 DEF HandleCommit, Saw
  <2>5. CASE HandleDecide(n, m)
    <3>1. view' \in [Node -> Nat] /\ DOMAIN primary' = Node
      BY <1>e, <2>5 DEF HandleDecide, Complete
    <3> QED BY <2>5, <3>1 DEF HandleDecide, Complete, Saw
  <2> QED BY <1>3, <2>1, <2>2, <2>3, <2>4, <2>5 DEF Deliver
<1>4. ASSUME NEW n \in Node, NEW u \in mail, Open(n, u) PROVE Domains'
  <2>1. CASE StorageTblsKey(n, u) BY <2>1 DEF StorageTblsKey
  <2>2. CASE HandleNewview(n, u) BY <2>2 DEF HandleNewview
  <2>3. CASE HandlePrepareVote(n, u) \/ HandlePrecommitVote(n, u)
    BY <2>3 DEF HandlePrepareVote, HandlePrecommitVote, CollectVote, RecordVote
  <2>4. CASE HandleCommitVote(n, u)
    <3>1. CASE Complete(n, u.msg.view, u.msg.block)
      <4>1. view' \in [Node -> Nat] /\ DOMAIN primary' = Node BY <1>e, <3>1 DEF Complete
      <4> QED BY <2>4, <3>1, <4>1 DEF HandleCommitVote, RecordVote, Complete
    <3>2. CASE UNCHANGED <<view, primary, endData>>
      BY <2>4, <3>2 DEF HandleCommitVote, RecordVote
    <3> QED BY <2>4, <3>1, <3>2 DEF HandleCommitVote
  <2> QED BY <1>4, <2>1, <2>2, <2>3, <2>4 DEF Open
<1>5. CASE UNCHANGED nodeVars BY <1>5 DEF nodeVars
<1> QED BY <1>1, <1>2, <1>3, <1>4, <1>5, StepTaken DEF Step

\* What locks, prepare_qcs and views are after a step.
LEMMA QcsAndViews ==
  ASSUME Domains, [Next]_vars
  PROVE  /\ prepareQc' = prepareQc \/ \E n \in Node, m \in sent : HandlePrecommit(n, m)
         /\ lockedQc' = lockedQc \/ \E n \in Node, m \in sent : HandleCommit(n, m)
         /\ view' = view \/ \E n \in Node : NewView(n)
<1>1. CASE ExtraInitialStart BY <1>1, NodeAssumption DEF ExtraInitialStart, DistributeKeys
<1>2. ASSUME NEW n \in Node, MakeConsensusRequests(n) \/ StartConsensus(n)
      PROVE  UNCHANGED <<prepareQc, lockedQc, view>>
  BY <1>2 DEF MakeConsensusRequests, StartConsensus
<1>3. ASSUME NEW n \in Node, NEW m \in sent, Deliver(n, m)
      PROVE  /\ prepareQc' = prepareQc \/ HandlePrecommit(n, m)
             /\ lockedQc' = lockedQc \/ HandleCommit(n, m)
             /\ view' = view \/ NewView(n)
  <2>1. CASE StorageConsensusNodePk(n, m) BY <2>1 DEF StorageConsensusNodePk
  <2>2. CASE HandlePrepare(n, m) BY <2>2 DEF HandlePrepare
  <2>3. CASE HandlePrecommit(n, m) BY <2>3 DEF HandlePrecommit
  <2>4. CASE HandleCommit(n, m) BY <2>4 DEF HandleCommit
  <2>5. CASE HandleDecide(n, m) BY <2>5 DEF HandleDecide, Complete
  <2> QED BY <1>3, <2>1, <2>2, <2>3, <2>4, <2>5 DEF Deliver
<1>4. ASSUME NEW n \in Node, NEW u \in mail, Open(n, u)
      PROVE  UNCHANGED <<prepareQc, lockedQc>> /\ (view' = view \/ NewView(n))
  <2>1. CASE HandleCommitVote(n, u) BY <2>1 DEF HandleCommitVote, Complete
  <2>2. CASE StorageTblsKey(n, u) \/ HandleNewview(n, u)
    BY <2>2 DEF StorageTblsKey, HandleNewview
  <2>3. CASE HandlePrepareVote(n, u) \/ HandlePrecommitVote(n, u)
    BY <2>3 DEF HandlePrepareVote, HandlePrecommitVote, CollectVote
  <2> QED BY <1>4, <2>1, <2>2, <2>3 DEF Open
<1>5. CASE UNCHANGED nodeVars BY <1>5 DEF nodeVars
<1> QED BY <1>1, <1>2, <1>3, <1>4, <1>5, StepTaken DEF Step

\* A lock and a prepare_qc are of views that their owner has entered.
QcsOK ==
  \A n \in Node : /\ QcView(lockedQc[n]) \in Nat /\ QcView(lockedQc[n]) <= view[n]
                  /\ QcView(prepareQc[n]) \in Nat /\ QcView(prepareQc[n]) <= view[n]

\* What NeverBack says of a step.
Forward ==
  \A n \in Node : /\ view'[n] >= view[n]
                  /\ QcView(lockedQc'[n]) >= QcView(lockedQc[n])
                  /\ QcView(prepareQc'[n]) >= QcView(prepareQc[n])

LEMMA QcOfView == \A v, b : QcView(QC(v, b)) = v
<1> SUFFICES ASSUME NEW v, NEW b PROVE QcView(QC(v, b)) = v OBVIOUS
<1>1. QC(v, b) # NoQC BY DEF QC, NoQC
<1> QED BY <1>1 DEF QcView, QC

LEMMA QcsStep ==
  ASSUME Domains, Domains', QcsOK, [Next]_vars
  PROVE  QcsOK' /\ Forward
<1> SUFFICES ASSUME NEW q \in Node
             PROVE  /\ QcView(lockedQc'[q]) \in Nat /\ QcView(lockedQc'[q]) <= view'[q]
                    /\ QcView(prepareQc'[q]) \in Nat /\ QcView(prepareQc'[q]) <= view'[q]
                    /\ view'[q] >= view[q]
                    /\ QcView(lockedQc'[q]) >= QcView(lockedQc[q])
                    /\ QcView(prepareQc'[q]) >= QcView(prepareQc[q])
  BY DEF QcsOK, Forward
<1>1. view[q] \in Nat /\ view'[q] \in Nat BY DEF Domains
<1>2. view'[q] >= view[q] BY <1>1, QcsAndViews, Entered
<1>3. /\ QcView(lockedQc[q]) \in Nat /\ QcView(lockedQc[q]) <= view[q]
      /\ QcView(prepareQc[q]) \in Nat /\ QcView(prepareQc[q]) <= view[q]
  BY DEF QcsOK
<1>4. lockedQc'[q] = lockedQc[q] \/ QcView(lockedQc'[q]) = view[q]
  <2>1. ASSUME NEW n \in Node, NEW m \in sent, HandleCommit(n, m)
        PROVE  lockedQc'[q] = lockedQc[q] \/ lockedQc'[q] = QC(view[q], m.block)
    BY <2>1 DEF HandleCommit, VotesInView, InView, Domains
  <2> QED BY <2>1, QcsAndViews, QcOfView
<1>5. prepareQc'[q] = prepareQc[q] \/ QcView(prepareQc'[q]) = view[q]
  <2>1. ASSUME NEW n \in Node, NEW m \in sent, HandlePrecommit(n, m)
        PROVE  prepareQc'[q] = prepareQc[q] \/ prepareQc'[q] = QC(view[q], m.block)
    BY <2>1 DEF HandlePrecommit, VotesInView, InView, Domains
  <2> QED BY <2>1, QcsAndViews, QcOfView
<1> QED BY <1>1, <1>2, <1>3, <1>4, <1>5

LEMMA QcsInit == ASSUME Init PROVE QcsOK
BY DEF Init, QcsOK, QcView

\* handle_precommit and handle_commit take a certificate of the view their node is in only,
\* and a view is never left for an earlier one: whatever order messages arrive in, and
\* however many nodes there are, no view, lock or prepare_qc is replaced by an older one.
THEOREM NeverBackAlways == Spec => NeverBack
<1>1. Init => Domains /\ QcsOK BY DomainsInit, QcsInit
<1>2. Domains /\ QcsOK /\ [Next]_vars => Domains' /\ QcsOK' BY DomainsStep, QcsStep
<1>3. Domains /\ QcsOK /\ [Next]_vars =>
        [\A n \in Node : /\ view'[n] >= view[n]
                         /\ QcView(lockedQc'[n]) >= QcView(lockedQc[n])
                         /\ QcView(prepareQc'[n]) >= QcView(prepareQc[n])]_vars
  BY DomainsStep, QcsStep DEF Forward
<1> QED BY <1>1, <1>2, <1>3, PTL DEF Spec, NeverBack

-----------------------------------------------------------------------------
(* Votes.  A vote goes from the mail to a log and is not lost.                *)

VotesOf(X) == {m \in {u.msg : u \in X} : m.type \in VoteKind}

\* What is sent on adds its votes to those cast.
LEMMA MailedVotes ==
  ASSUME NEW X, mail' = mail \cup X, votes' = votes
  PROVE  Cast' = Cast \cup VotesOf(X)
<1>1. MailMsgs' = MailMsgs \cup {u.msg : u \in X} BY DEF MailMsgs
<1>2. LogMsgs' = LogMsgs BY DEF LogMsgs
<1> QED BY <1>1, <1>2 DEF Cast, VotesOf

LEMMA UnicastVotes ==
  ASSUME NEW n, NEW to, NEW m
  PROVE  /\ m.type \notin VoteKind => VotesOf(Unicast(n, to, m)) = {}
         /\ m.type \in VoteKind => VotesOf(Unicast(n, to, m)) = IF to = n THEN {} ELSE {m}
<1>1. CASE to = n BY <1>1 DEF VotesOf, Unicast
<1>2. CASE to # n
  <2> DEFINE e == [to |-> to, msg |-> m]
  <2>1. e.msg = m /\ Unicast(n, to, m) = {e} BY <1>2 DEF Unicast
  <2> HIDE DEF e
  <2>2. {u.msg : u \in {e}} = {m} BY <2>1
  <2>3. {u.msg : u \in Unicast(n, to, m)} = {m} BY <2>1, <2>2
  <2> QED BY <1>2, <2>3 DEF VotesOf
<1> QED BY <1>1, <1>2

\* A NewView is not a vote, nor is a key.
LEMMA NewViewNoVote ==
  ASSUME NEW n
  PROVE  /\ \A u \in NewViewMail(n) : u.msg.type = "NewView"
         /\ VotesOf(NewViewMail(n)) = {}
<1>1. \A u \in NewViewMail(n) : u.msg.type = "NewView" BY DEF NewViewMail, Unicast
<1> QED BY <1>1 DEF VotesOf, VoteKind

\* What DistributeKeys mails besides the NewView.
KeyMail == UNION {Unicast(Starter, n, [type |-> "TBLSKey"]) : n \in Node}

LEMMA KeyNoVote == (\A u \in KeyMail : u.msg.type = "TBLSKey") /\ VotesOf(KeyMail) = {}
<1>1. ASSUME NEW u \in KeyMail PROVE u.msg.type = "TBLSKey"
  <2>1. PICK n \in Node : u \in Unicast(Starter, n, [type |-> "TBLSKey"]) BY DEF KeyMail
  <2> QED BY <2>1 DEF Unicast
<1> QED BY <1>1 DEF VotesOf, VoteKind

LEMMA OpenedMail ==
  ASSUME NEW u \in mail, mail' = mail \ {u}, votes' = votes, u.msg.type \notin VoteKind
  PROVE  Cast' = Cast
<1>1. MailMsgs = MailMsgs' \cup {u.msg} BY DEF MailMsgs
<1>2. LogMsgs' = LogMsgs BY DEF LogMsgs
<1> QED BY <1>1, <1>2 DEF Cast

LEMMA RecordedVotes ==
  ASSUME Domains, NEW n \in Node, NEW u \in mail, RecordVote(n, u), NEW X, VotesOf(X) = {},
         mail' = (mail \ {u}) \cup X
  PROVE  Cast' = Cast
<1>1. \A x : x \in LogMsgs <=> \E q \in Node : x \in votes[q] BY DEF LogMsgs
<1>2. \A x : x \in LogMsgs' <=> \E q \in Node : x \in votes'[q] BY DEF LogMsgs
<1>3. votes'[n] = votes[n] \cup {u.msg} /\ \A q \in Node \ {n} : votes'[q] = votes[q]
  BY DEF RecordVote, Domains
<1>4. LogMsgs' = LogMsgs \cup {u.msg} BY <1>1, <1>2, <1>3
<1>5. MailMsgs' \cup {u.msg} = MailMsgs \cup {x.msg : x \in X} BY DEF MailMsgs
<1> QED BY <1>4, <1>5 DEF Cast, VotesOf

\* Three handlers cast a vote; no action takes one back.
LEMMA CastStep ==
  ASSUME Domains, [Next]_vars
  PROVE  \/ Cast' = Cast
         \/ \E n \in Node, m \in sent :
              \/ HandlePrepare(n, m) /\ Cast' = Cast \cup {Msg("PrepareVote", n, m.view, m.block)}
              \/ HandlePrecommit(n, m)
                   /\ Cast' = Cast \cup {Msg("PreCommitVote", n, m.view, m.block)}
              \/ HandleCommit(n, m) /\ Cast' = Cast \cup {Msg("CommitVote", n, m.view, m.block)}
<1>1. ASSUME UNCHANGED <<mail, votes>> PROVE Cast' = Cast
  BY <1>1 DEF Cast, MailMsgs, LogMsgs
<1>2. ASSUME NEW n, mail' = mail \cup NewViewMail(n), votes' = votes PROVE Cast' = Cast
  <2>1. Cast' = Cast \cup VotesOf(NewViewMail(n)) BY <1>2, MailedVotes
  <2> QED BY <2>1, NewViewNoVote
<1>3. ASSUME NEW n \in Node, NEW t \in VoteKind, NEW m, NEW to,
             mail' = mail \cup Vote(n, t, m, to), votes' = votes
      PROVE  Cast' = Cast \/ Cast' = Cast \cup {Msg(t, n, m.view, m.block)}
  <2> DEFINE vote == Msg(t, n, m.view, m.block)
  <2>1. vote.type = t BY DEF Msg
  <2>2. Vote(n, t, m, to) = Unicast(n, to, vote) BY DEF Vote
  <2> HIDE DEF vote
  <2>3. Cast' = Cast \cup VotesOf(Unicast(n, to, vote)) BY <1>3, <2>2, MailedVotes
  <2>4. VotesOf(Unicast(n, to, vote)) \in {{}, {vote}} BY <2>1, UnicastVotes
  <2>5. Cast' = Cast \/ Cast' = Cast \cup {vote} BY <2>3, <2>4
  <2> QED BY <2>5 DEF vote
<1>4. CASE ExtraInitialStart
  <2>1. mail' = mail \cup (NewViewMail(Starter) \cup KeyMail) /\ votes' = votes
    BY <1>4 DEF ExtraInitialStart, DistributeKeys, KeyMail
  <2>2. VotesOf(NewViewMail(Starter) \cup KeyMail) = {}
    BY NewViewNoVote, KeyNoVote DEF VotesOf, VoteKind
  <2>3. Cast' = Cast \cup VotesOf(NewViewMail(Starter) \cup KeyMail) BY <2>1, MailedVotes
  <2> QED BY <2>2, <2>3
<1>5. ASSUME NEW n \in Node, MakeConsensusRequests(n) \/ StartConsensus(n) PROVE Cast' = Cast
  BY <1>1, <1>5 DEF MakeConsensusRequests, StartConsensus
<1>6. ASSUME NEW n \in Node, NEW m \in sent, StorageConsensusNodePk(n, m) \/ HandleDecide(n, m)
      PROVE  Cast' = Cast
  BY <1>2, <1>6 DEF StorageConsensusNodePk, HandleDecide
<1>7. ASSUME NEW n \in Node, NEW m \in sent, HandlePrepare(n, m)
      PROVE  Cast' = Cast \/ Cast' = Cast \cup {Msg("PrepareVote", n, m.view, m.block)}
  <2>1. votes' = votes /\ (mail' = mail \/ mail' = mail \cup Vote(n, "PrepareVote", m, m.from))
    BY <1>7 DEF HandlePrepare
  <2> QED BY <1>1, <1>3, <2>1 DEF VoteKind
<1>8. ASSUME NEW n \in Node, NEW m \in sent, HandlePrecommit(n, m)
      PROVE  Cast' = Cast \/ Cast' = Cast \cup {Msg("PreCommitVote", n, m.view, m.block)}
  BY <1>3, <1>8 DEF VoteKind, HandlePrecommit
<1>9. ASSUME NEW n \in Node, NEW m \in sent, HandleCommit(n, m)
      PROVE  Cast' = Cast \/ Cast' = Cast \cup {Msg("CommitVote", n, m.view, m.block)}
  BY <1>3, <1>9 DEF VoteKind, HandleCommit
<1>10. ASSUME NEW n \in Node, NEW u \in mail, Open(n, u) PROVE Cast' = Cast
  <2>1. CASE StorageTblsKey(n, u) \/ HandleNewview(n, u)
    BY <2>1, OpenedMail DEF StorageTblsKey, HandleNewview, CanOpen, VoteKind
  <2>2. ASSUME RecordVote(n, u), mail' = mail \ {u} PROVE Cast' = Cast
    <3>1. mail' = (mail \ {u}) \cup {} /\ VotesOf({}) = {} BY <2>2 DEF VotesOf
    <3> QED BY <2>2, <3>1, RecordedVotes
  <2>3. CASE HandlePrepareVote(n, u) \/ HandlePrecommitVote(n, u)
    BY <2>2, <2>3 DEF HandlePrepareVote, HandlePrecommitVote, CollectVote
  <2>4. CASE HandleCommitVote(n, u)
    BY <2>2, <2>4, RecordedVotes, NewViewNoVote DEF HandleCommitVote
  <2> QED BY <1>10, <2>1, <2>3, <2>4 DEF Open
<1>11. CASE UNCHANGED nodeVars BY <1>1, <1>11 DEF nodeVars
<1>12. ASSUME NEW n \in Node, NEW m \in sent, Deliver(n, m)
       PROVE  \/ Cast' = Cast
              \/ HandlePrepare(n, m) /\ Cast' = Cast \cup {Msg("PrepareVote", n, m.view, m.block)}
              \/ HandlePrecommit(n, m)
                   /\ Cast' = Cast \cup {Msg("PreCommitVote", n, m.view, m.block)}
              \/ HandleCommit(n, m) /\ Cast' = Cast \cup {Msg("CommitVote", n, m.view, m.block)}
  BY <1>6, <1>7, <1>8, <1>9, <1>12 DEF Deliver
<1> QED BY <1>4, <1>5, <1>10, <1>11, <1>12, StepTaken DEF Step

-----------------------------------------------------------------------------
(* Certificates.                                                            *)

Voters(t, v, b) == {n \in Node : Msg(t, n, v, b) \in Cast}

VoteQuorum(t, v, b) == Cardinality(Voters(t, v, b)) >= Threshold

\* A vote is determined by its voter; a commit vote is cast by a node that has locked; a
\* certificate is carried only where a quorum has voted.
MsgOK(m) ==
  /\ m.type \in VoteKind => m.from \in Node /\ m = Msg(m.type, m.from, m.view, m.block)
  /\ m.type = "CommitVote" => m.view \in Nat /\ QcView(lockedQc[m.from]) >= m.view
  /\ m.type = "PreCommit" => VoteQuorum("PrepareVote", m.view, m.block)
  /\ m.type = "Commit" => VoteQuorum("PreCommitVote", m.view, m.block)
  /\ m.type = "Decide" => VoteQuorum("CommitVote", m.view, m.block)

SentOK == \A m \in sent : MsgOK(m)

MailOK == \A u \in mail : MsgOK(u.msg)

VotesOK == \A n \in Node : \A m \in votes[n] : MsgOK(m) /\ m.type \in VoteKind

EndedOK ==
  /\ endData = [n \in Node |-> endData[n]]
  /\ \A n \in Node : \A d \in endData[n] : VoteQuorum("CommitVote", d.view, d.block)

AllOK == SentOK /\ MailOK /\ VotesOK /\ EndedOK

LadderInv == Domains /\ QcsOK /\ AllOK

\* What every step does: locks and votes are never taken back.
Grow == QcsOK /\ QcsOK' /\ Forward /\ Cast \subseteq Cast'

LEMMA CastOK == ASSUME LadderInv PROVE \A m \in Cast : MsgOK(m) /\ m.type \in VoteKind
<1>1. ASSUME NEW m \in MailMsgs PROVE MsgOK(m)
  BY <1>1 DEF MailMsgs, LadderInv, AllOK, MailOK
<1>2. ASSUME NEW m \in LogMsgs PROVE MsgOK(m)
  BY <1>2 DEF LogMsgs, LadderInv, AllOK, VotesOK
<1> QED BY <1>1, <1>2 DEF Cast

LEMMA SubsetsOfNodes == \A S \in SUBSET Node : IsFiniteSet(S) /\ Cardinality(S) \in Nat
<1>1. IsFiniteSet(Node)
  <2>1. 0 \in Int /\ N - 1 \in Int BY NodeAssumption
  <2> QED BY <2>1, FS_Interval DEF Node
<1>2. ASSUME NEW S \in SUBSET Node PROVE IsFiniteSet(S) BY <1>1, FS_Subset
<1> QED BY <1>2, FS_CardinalityType

\* A set of nodes that includes a quorum is one.
LEMMA LargerQuorum ==
  ASSUME NEW R \in SUBSET Node, NEW S \in SUBSET Node, R \subseteq S, Cardinality(R) >= Threshold
  PROVE  Cardinality(S) >= Threshold
<1>1. IsFiniteSet(S) /\ Cardinality(R) \in Nat /\ Cardinality(S) \in Nat BY SubsetsOfNodes
<1>2. Cardinality(R) <= Cardinality(S) BY <1>1, FS_Subset
<1>3. Threshold \in Nat BY FaultAssumption DEF Threshold
<1> QED BY <1>1, <1>2, <1>3

\* What holds of a certificate or a message keeps holding.
LEMMA QuorumKept ==
  ASSUME Grow, NEW t, NEW v, NEW b, VoteQuorum(t, v, b)
  PROVE  VoteQuorum(t, v, b)'
<1>1. Voters(t, v, b) \subseteq Voters(t, v, b)' BY DEF Grow, Voters
<1>2. Voters(t, v, b) \in SUBSET Node /\ Voters(t, v, b)' \in SUBSET Node BY DEF Voters
<1> QED BY <1>1, <1>2, LargerQuorum DEF VoteQuorum

LEMMA MsgKept == ASSUME Grow, NEW m, MsgOK(m) PROVE MsgOK(m)'
<1>1. ASSUME m.type = "PreCommit" PROVE VoteQuorum("PrepareVote", m.view, m.block)'
  BY <1>1, QuorumKept DEF MsgOK
<1>2. ASSUME m.type = "Commit" PROVE VoteQuorum("PreCommitVote", m.view, m.block)'
  BY <1>2, QuorumKept DEF MsgOK
<1>3. ASSUME m.type = "Decide" PROVE VoteQuorum("CommitVote", m.view, m.block)'
  BY <1>3, QuorumKept DEF MsgOK
<1>4. ASSUME m.type = "CommitVote"
      PROVE  m.view \in Nat /\ QcView(lockedQc'[m.from]) >= m.view
  <2>1. m.from \in Node /\ m.view \in Nat /\ QcView(lockedQc[m.from]) >= m.view
    BY <1>4 DEF MsgOK, VoteKind
  <2> QED BY <2>1 DEF Grow, QcsOK, Forward
<1>5. m.type \in VoteKind => m.from \in Node /\ m = Msg(m.type, m.from, m.view, m.block)
  BY DEF MsgOK
<1> QED BY <1>1, <1>2, <1>3, <1>4, <1>5 DEF MsgOK

\* The votes a node counts for one view and block are those of as many senders.
LEMMA SendersOfVotes ==
  ASSUME NEW B, NEW t, NEW v, NEW b,
         \A m \in B : m.from \in Node /\ m = Msg(t, m.from, v, b),
         Cardinality(B) = Threshold
  PROVE  Cardinality({m.from : m \in B}) >= Threshold
<1> DEFINE R == {m.from : m \in B}
           f == [m \in B |-> m.from]
<1>1. f \in [B -> R] OBVIOUS
<1>2. ASSUME NEW a \in B, NEW c \in B, f[a] = f[c] PROVE a = c BY <1>2
<1>3. f \in Injection(B, R) BY <1>1, <1>2 DEF Injection, IsInjective
<1>4. R \in SUBSET Node OBVIOUS
<1>5. IsFiniteSet(R) /\ Cardinality(R) \in Nat BY <1>4, SubsetsOfNodes
<1>6. Cardinality(B) <= Cardinality(R)
  <2> HIDE DEF f, R
  <2> QED BY <1>3, <1>5, FS_Injection
<1>7. Threshold \in Nat BY FaultAssumption DEF Threshold
<1> HIDE DEF R
<1> QED BY <1>5, <1>6, <1>7 DEF R

Ballot(n, u) ==
  {m \in votes[n] \cup {u.msg} : /\ m.type = u.msg.type
                                 /\ m.view = u.msg.view
                                 /\ m.block = u.msg.block}

LEMMA BallotOK ==
  ASSUME LadderInv, NEW n \in Node, NEW u \in mail, u.msg.type \in VoteKind, RecordVote(n, u)
  PROVE  /\ Certified(n, u) <=> Cardinality(Ballot(n, u)) = Threshold
         /\ \A m \in Ballot(n, u) : /\ m.from \in Node /\ m \in Cast
                                    /\ m = Msg(u.msg.type, m.from, u.msg.view, u.msg.block)
<1>1. votes'[n] = votes[n] \cup {u.msg} BY DEF RecordVote, LadderInv, Domains
<1>2. Certified(n, u) <=> Cardinality(Ballot(n, u)) = Threshold BY <1>1 DEF Certified, Ballot
<1>3. \A m \in Ballot(n, u) : m \in Cast BY DEF Ballot, Cast, MailMsgs, LogMsgs
<1>4. \A m \in Ballot(n, u) : m.type = u.msg.type /\ m.view = u.msg.view /\ m.block = u.msg.block
  BY DEF Ballot
<1> QED BY <1>2, <1>3, <1>4, CastOK DEF MsgOK

\* What a node counts as a certificate is one of as many voters.
LEMMA BallotCertified ==
  ASSUME LadderInv, NEW n \in Node, NEW u \in mail, u.msg.type \in VoteKind, RecordVote(n, u),
         Certified(n, u)
  PROVE  VoteQuorum(u.msg.type, u.msg.view, u.msg.block)
<1> DEFINE t == u.msg.type
           v == u.msg.view
           b == u.msg.block
           R == {m.from : m \in Ballot(n, u)}
<1>1. \A m \in Ballot(n, u) : m.from \in Node /\ m \in Cast /\ m = Msg(t, m.from, v, b)
  BY BallotOK
<1>2. Cardinality(Ballot(n, u)) = Threshold BY BallotOK
<1> HIDE DEF t, v, b
<1>3. Cardinality(R) >= Threshold BY <1>1, <1>2, SendersOfVotes
<1>4. R \subseteq Voters(t, v, b) BY <1>1 DEF Voters
<1>5. R \in SUBSET Node /\ Voters(t, v, b) \in SUBSET Node BY <1>1 DEF Voters
<1> HIDE DEF R
<1>6. Cardinality(Voters(t, v, b)) >= Threshold BY <1>3, <1>4, <1>5, LargerQuorum
<1> QED BY <1>6 DEF VoteQuorum, t, v, b

LEMMA LadderInvStep == ASSUME LadderInv, [Next]_vars PROVE LadderInv'
<1>1. Domains /\ Domains' /\ QcsOK' /\ Grow
  <2>1. Domains /\ Domains' /\ QcsOK /\ QcsOK' /\ Forward
    BY DomainsStep, QcsStep DEF LadderInv
  <2>2. Cast \subseteq Cast' BY <2>1, CastStep
  <2> QED BY <2>1, <2>2 DEF Grow
<1>2. SentOK /\ MailOK /\ VotesOK /\ EndedOK BY DEF LadderInv, AllOK
<1>3. ASSUME NEW m, MsgOK(m) PROVE MsgOK(m)' BY <1>1, <1>3, MsgKept
<1>4. ASSUME NEW v, NEW b, VoteQuorum("CommitVote", v, b) PROVE VoteQuorum("CommitVote", v, b)'
  BY <1>1, <1>4, QuorumKept
<1>5. ASSUME NEW m, m.type \notin VoteKind \cup {"PreCommit", "Commit", "Decide"} PROVE MsgOK(m)'
  BY <1>5 DEF MsgOK, VoteKind
<1>vote. ASSUME NEW t \in VoteKind, NEW n \in Node, NEW m, NEW to,
                t = "CommitVote" => m.view \in Nat /\ QcView(lockedQc'[n]) >= m.view,
                NEW u \in Vote(n, t, m, to)
         PROVE  MsgOK(u.msg)'
  <2> DEFINE x == Msg(t, n, m.view, m.block)
  <2>1. x.type = t /\ x.from = n /\ x.view = m.view /\ x.block = m.block BY DEF Msg
  <2>2. x = Msg(x.type, x.from, x.view, x.block) BY <2>1
  <2>3. u.msg = x BY DEF Vote, Unicast
  <2> HIDE DEF x
  <2>4. MsgOK(x)' BY <1>vote, <2>1, <2>2 DEF MsgOK, VoteKind
  <2> QED BY <2>3, <2>4
<1>cert. ASSUME NEW t, NEW n, NEW v, NEW b,
                \/ t = "PreCommit" /\ VoteQuorum("PrepareVote", v, b)
                \/ t = "Commit" /\ VoteQuorum("PreCommitVote", v, b)
                \/ t = "Decide" /\ VoteQuorum("CommitVote", v, b)
         PROVE  MsgOK(Msg(t, n, v, b))'
  <2> DEFINE x == Msg(t, n, v, b)
  <2>1. x.type = t /\ x.view = v /\ x.block = b BY DEF Msg
  <2> HIDE DEF x
  <2>2. MsgOK(x) BY <1>cert, <2>1 DEF MsgOK, VoteKind
  <2>3. MsgOK(x)' BY <1>3, <2>2
  <2> QED BY <2>3 DEF x
<1>s. ASSUME NEW x, sent' = sent \cup {x}, MsgOK(x)' PROVE SentOK'
  BY <1>2, <1>3, <1>s DEF SentOK
<1>m. ASSUME NEW X, mail' \subseteq mail \cup X, \A u \in X : MsgOK(u.msg)' PROVE MailOK'
  BY <1>2, <1>3, <1>m DEF MailOK
<1>n. ASSUME NEW n, NEW u \in NewViewMail(n) PROVE MsgOK(u.msg)'
  BY <1>5, <1>n, NewViewNoVote DEF VoteKind
<1>ks. ASSUME sent' = sent PROVE SentOK' BY <1>2, <1>3, <1>ks DEF SentOK
<1>km. ASSUME mail' \subseteq mail PROVE MailOK' BY <1>2, <1>3, <1>km DEF MailOK
<1>kv. ASSUME votes' = votes PROVE VotesOK' BY <1>2, <1>3, <1>kv DEF VotesOK
<1>kd. ASSUME endData' = endData PROVE EndedOK' BY <1>2, <1>4, <1>kd DEF EndedOK
<1>d. ASSUME NEW n \in Node, NEW v, NEW b, Complete(n, v, b), VoteQuorum("CommitVote", v, b)
      PROVE  EndedOK'
  <2>1. \A q \in Node : \A d \in endData'[q] : d \in endData[q] \/ d = QC(v, b)
    BY <1>1, <1>d DEF Complete, Domains
  <2>2. /\ QC(v, b).view = v /\ QC(v, b).block = b
        /\ VoteQuorum("CommitVote", v, b)'
    BY <1>4, <1>d DEF QC
  <2>3. \A q \in Node : \A d \in endData[q] : VoteQuorum("CommitVote", d.view, d.block)'
    BY <1>2, <1>4 DEF EndedOK
  <2>4. endData' = [q \in Node |-> endData'[q]]
    <3>1. endData' = [endData EXCEPT ![n] = @ \cup {QC(v, b)}] BY <1>d DEF Complete
    <3> QED BY <1>1, <3>1 DEF Domains
  <2> QED BY <2>1, <2>2, <2>3, <2>4 DEF EndedOK
<1> SUFFICES AllOK' BY <1>1 DEF LadderInv
<1> USE DEF AllOK
<1>6. CASE ExtraInitialStart
  <2> DEFINE info == [type |-> "ConsensusNodePKsInfo", from |-> Starter]
  <2>1. MsgOK(info)' BY <1>5 DEF VoteKind
  <2>2. sent' = sent \cup {info} /\ mail' = mail \cup (NewViewMail(Starter) \cup KeyMail)
    BY <1>6 DEF ExtraInitialStart, DistributeKeys, KeyMail
  <2> HIDE DEF info
  <2>3. SentOK' BY <1>s, <2>1, <2>2
  <2>4. \A u \in KeyMail : MsgOK(u.msg)' BY <1>5, KeyNoVote DEF VoteKind
  <2>5. MailOK' BY <1>2, <1>3, <1>n, <2>2, <2>4 DEF MailOK
  <2> QED BY <1>6, <1>kv, <1>kd, <2>3, <2>5 DEF ExtraInitialStart
<1>7. ASSUME NEW n \in Node, MakeConsensusRequests(n) PROVE AllOK'
  BY <1>7, <1>ks, <1>km, <1>kv, <1>kd DEF MakeConsensusRequests
<1>8. ASSUME NEW n \in Node, StartConsensus(n) PROVE AllOK'
  <2>1. UNCHANGED <<mail, votes, endData>> BY <1>8 DEF StartConsensus
  <2>2. \E m : m.type = "Prepare" /\ sent' = sent \cup {m} BY <1>8 DEF StartConsensus
  <2>3. SentOK' BY <1>5, <1>s, <2>2 DEF VoteKind
  <2> QED BY <1>km, <1>kv, <1>kd, <2>1, <2>3
<1>9. ASSUME NEW n \in Node, NEW m \in sent, Deliver(n, m) PROVE AllOK'
  <2>1. CASE StorageConsensusNodePk(n, m)
    BY <1>ks, <1>m, <1>n, <1>kv, <1>kd, <2>1 DEF StorageConsensusNodePk
  <2>2. CASE HandlePrepare(n, m)
    <3>1. UNCHANGED <<sent, votes, endData>> BY <2>2 DEF HandlePrepare
    <3>2. mail' \subseteq mail \cup Vote(n, "PrepareVote", m, m.from) BY <2>2 DEF HandlePrepare
    <3>3. MailOK' BY <1>m, <1>vote, <3>2 DEF VoteKind
    <3> QED BY <1>ks, <1>kv, <1>kd, <3>1, <3>3
  <2>3. CASE HandlePrecommit(n, m)
    <3>1. UNCHANGED <<sent, votes, endData>> BY <2>3 DEF HandlePrecommit
    <3>2. mail' \subseteq mail \cup Vote(n, "PreCommitVote", m, primary[n])
      BY <2>3 DEF HandlePrecommit
    <3>3. MailOK' BY <1>m, <1>vote, <3>2 DEF VoteKind
    <3> QED BY <1>ks, <1>kv, <1>kd, <3>1, <3>3
  <2>4. CASE HandleCommit(n, m)
    <3>1. UNCHANGED <<sent, votes, endData>> BY <2>4 DEF HandleCommit
    <3>2. mail' \subseteq mail \cup Vote(n, "CommitVote", m, primary[n])
      BY <2>4 DEF HandleCommit
    <3>3. m.view \in Nat
      BY <1>1, <2>4 DEF HandleCommit, VotesInView, InView, Domains
    <3>4. lockedQc'[n] = QC(m.view, m.block) BY <1>1, <2>4 DEF HandleCommit, Domains
    <3>5. QcView(lockedQc'[n]) >= m.view BY <3>3, <3>4, QcOfView
    <3>6. MailOK' BY <1>m, <1>vote, <3>2, <3>3, <3>5 DEF VoteKind
    <3> QED BY <1>ks, <1>kv, <1>kd, <3>1, <3>6
  <2>5. CASE HandleDecide(n, m)
    <3>1. VoteQuorum("CommitVote", m.view, m.block)
      BY <1>2, <2>5 DEF HandleDecide, InView, CanReceive, SentOK, MsgOK
    <3>2. EndedOK' BY <1>d, <2>5, <3>1 DEF HandleDecide
    <3>3. MailOK' BY <1>m, <1>n, <2>5 DEF HandleDecide
    <3> QED BY <1>ks, <1>kv, <2>5, <3>2, <3>3 DEF HandleDecide
  <2> QED BY <1>9, <2>1, <2>2, <2>3, <2>4, <2>5 DEF Deliver
<1>10. ASSUME NEW n \in Node, NEW u \in mail, Open(n, u) PROVE AllOK'
  <2>r. ASSUME RecordVote(n, u), u.msg.type \in VoteKind PROVE VotesOK'
    <3>1. MsgOK(u.msg)' BY <1>2, <1>3 DEF MailOK
    <3>2. \A q \in Node : \A x \in votes'[q] : x \in votes[q] \/ x = u.msg
      BY <1>1, <2>r DEF RecordVote, Domains
    <3>3. \A q \in Node : \A x \in votes[q] : MsgOK(x)' /\ x.type \in VoteKind
      BY <1>2, <1>3 DEF VotesOK
    <3> QED BY <2>r, <3>1, <3>2, <3>3 DEF VotesOK
  <2>1. CASE StorageTblsKey(n, u)
    BY <1>ks, <1>km, <1>kv, <1>kd, <2>1 DEF StorageTblsKey
  <2>2. CASE HandleNewview(n, u)
    <3>1. UNCHANGED <<sent, votes, endData>> /\ mail' \subseteq mail BY <2>2 DEF HandleNewview
    <3> QED BY <1>ks, <1>km, <1>kv, <1>kd, <3>1
  <2>3. ASSUME NEW t \in {"PrepareVote", "PreCommitVote"}, CollectVote(n, u, t) PROVE AllOK'
    <3>1. UNCHANGED endData /\ mail' \subseteq mail /\ RecordVote(n, u) /\ u.msg.type = t
      BY <2>3 DEF CollectVote, CanOpen
    <3>2. VotesOK' /\ MailOK' /\ EndedOK' BY <1>km, <1>kd, <2>r, <3>1 DEF VoteKind
    <3>3. CASE sent' = sent BY <1>ks, <3>2, <3>3
    <3>4. CASE Certified(n, u) /\ sent' = sent \cup {Msg(Announced(t), n, u.msg.view, u.msg.block)}
      <4>1. VoteQuorum(t, u.msg.view, u.msg.block) BY <3>1, <3>4, BallotCertified DEF VoteKind
      <4>2. MsgOK(Msg(Announced(t), n, u.msg.view, u.msg.block))'
        BY <1>cert, <4>1 DEF Announced
      <4>3. SentOK' BY <1>s, <3>4, <4>2
      <4> QED BY <3>2, <4>3
    <3> QED BY <2>3, <3>3, <3>4 DEF CollectVote
  <2>4. CASE HandleCommitVote(n, u)
    <3>1. RecordVote(n, u) /\ u.msg.type = "CommitVote" BY <2>4 DEF HandleCommitVote, CanOpen
    <3>2. VotesOK' BY <2>r, <3>1 DEF VoteKind
    <3>3. MailOK' BY <1>m, <1>n, <1>km, <2>4 DEF HandleCommitVote
    <3>4. CASE UNCHANGED <<sent, endData>> BY <1>ks, <1>kd, <3>2, <3>3, <3>4
    <3>5. CASE /\ Certified(n, u)
               /\ sent' = sent \cup {Msg("Decide", n, u.msg.view, u.msg.block)}
               /\ Complete(n, u.msg.view, u.msg.block)
      <4>1. VoteQuorum("CommitVote", u.msg.view, u.msg.block)
        BY <3>1, <3>5, BallotCertified DEF VoteKind
      <4>2. MsgOK(Msg("Decide", n, u.msg.view, u.msg.block))' BY <1>cert, <4>1
      <4>3. SentOK' BY <1>s, <3>5, <4>2
      <4>4. EndedOK' BY <1>d, <3>5, <4>1
      <4> QED BY <3>2, <3>3, <4>3, <4>4
    <3> QED BY <2>4, <3>4, <3>5 DEF HandleCommitVote
  <2> QED BY <1>10, <2>1, <2>2, <2>3, <2>4 DEF Open, HandlePrepareVote, HandlePrecommitVote
<1>11. CASE UNCHANGED nodeVars BY <1>ks, <1>km, <1>kv, <1>kd, <1>11 DEF nodeVars
<1> QED BY <1>6, <1>7, <1>8, <1>9, <1>10, <1>11, StepTaken DEF Step

LEMMA LadderInvInit == ASSUME Init PROVE LadderInv
<1>1. Domains /\ QcsOK BY DomainsInit, QcsInit
<1>2. AllOK BY DEF Init, AllOK, SentOK, MailOK, VotesOK, EndedOK
<1> QED BY <1>1, <1>2 DEF LadderInv

LEMMA CommittedLocked == ASSUME LadderInv PROVE DecisionLocked
<1> SUFFICES ASSUME NEW n \in Node, NEW d \in endData[n]
             PROVE  Cardinality({q \in Node : QcView(lockedQc[q]) >= d.view}) >= Threshold
  BY DEF DecisionLocked
<1> DEFINE R == Voters("CommitVote", d.view, d.block)
           S == {q \in Node : QcView(lockedQc[q]) >= d.view}
<1>1. ASSUME NEW q \in R PROVE q \in S
  <2> DEFINE m == Msg("CommitVote", q, d.view, d.block)
  <2>1. q \in Node /\ m \in Cast BY <1>1 DEF Voters
  <2>2. MsgOK(m) BY <2>1, CastOK
  <2>3. m.type = "CommitVote" /\ m.from = q /\ m.view = d.view BY DEF Msg
  <2> HIDE DEF m
  <2> QED BY <2>1, <2>2, <2>3 DEF MsgOK
<1>2. Cardinality(R) >= Threshold BY DEF LadderInv, AllOK, EndedOK, VoteQuorum
<1>3. R \in SUBSET Node /\ S \in SUBSET Node BY DEF Voters
<1> HIDE DEF R, S
<1>4. Cardinality(S) >= Threshold BY <1>1, <1>2, <1>3, LargerQuorum
<1> QED BY <1>4 DEF S

\* handle_commit stores the certificate before it votes: for any number of nodes and any f,
\* a block that a node reports as completed in view v, by its own count of votes or by the
\* word of a proposer, is one that 2f + 1 nodes are locked on or past, and they stay so
\* although any node may propose, in any view, whenever requests reach it.
THEOREM DecisionLockedAlways == Spec => []DecisionLocked
<1>1. Init => LadderInv BY LadderInvInit
<1>2. LadderInv /\ [Next]_vars => LadderInv' BY LadderInvStep
<1>3. LadderInv => DecisionLocked BY CommittedLocked
<1> QED BY <1>1, <1>2, <1>3, PTL DEF Spec

-----------------------------------------------------------------------------
(* Refinement.                                                              *)

\* The ballots of PhaseLadder are the votes, and its certificates theirs.
LEMMA BallotsAreVotes ==
  ASSUME LadderInv, NEW p \in 1 .. 3, NEW n \in Node, NEW v, NEW b
  PROVE  [node |-> n, block |-> QC(v, b)] \in Ballots[p] <=> Msg(VoteType(p), n, v, b) \in Cast
<1> DEFINE t == VoteType(p)
           c == [node |-> n, block |-> QC(v, b)]
           x == Msg(t, n, v, b)
<1>1. Ballots[p] = {[node |-> m.from, block |-> QC(m.view, m.block)] : m \in {y \in Cast : y.type = t}}
  BY DEF Ballots
<1>2. x.type = t /\ x.from = n /\ x.view = v /\ x.block = b BY DEF Msg
<1>3. ASSUME x \in Cast PROVE c \in Ballots[p]
  <2> HIDE DEF x, t
  <2> QED BY <1>1, <1>2, <1>3
<1>4. ASSUME c \in Ballots[p] PROVE x \in Cast
  <2>1. PICK m \in Cast : m.type = t /\ c = [node |-> m.from, block |-> QC(m.view, m.block)]
    BY <1>1, <1>4
  <2>2. m = Msg(t, m.from, m.view, m.block) BY <2>1, CastOK DEF MsgOK
  <2>3. m.from = n /\ QC(m.view, m.block) = QC(v, b)
    <3>1. c.node = n /\ c.block = QC(v, b) OBVIOUS
    <3> HIDE DEF c
    <3> QED BY <2>1, <3>1
  <2>4. m.view = v /\ m.block = b
    <3>1. QC(m.view, m.block).view = m.view /\ QC(m.view, m.block).block = m.block BY DEF QC
    <3>2. QC(v, b).view = v /\ QC(v, b).block = b BY DEF QC
    <3> QED BY <2>3, <3>1, <3>2
  <2> QED BY <2>2, <2>3, <2>4
<1> QED BY <1>3, <1>4

LEMMA CertifiedIsQuorum ==
  ASSUME LadderInv, NEW p \in 1 .. 3, NEW v, NEW b, VoteQuorum(VoteType(p), v, b)
  PROVE  Ladder!Certified(p, QC(v, b))
<1>1. {n \in Node : [node |-> n, block |-> QC(v, b)] \in Ballots[p]} = Voters(VoteType(p), v, b)
  BY BallotsAreVotes DEF Voters
<1> QED BY <1>1 DEF Ladder!Certified, Ladder!Cardinality, Cardinality, VoteQuorum

\* A vote cast is a ballot cast.
LEMMA CastBallot ==
  ASSUME NEW p \in 1 .. 3, NEW n, NEW v, NEW b,
         Cast' = Cast \cup {Msg(VoteType(p), n, v, b)}
  PROVE  Ballots' = [Ballots EXCEPT ![p] = @ \cup {[node |-> n, block |-> QC(v, b)]}]
<1> DEFINE Of(C, q) == {[node |-> m.from, block |-> QC(m.view, m.block)] :
                          m \in {y \in C : y.type = VoteType(q)}}
           x == Msg(VoteType(p), n, v, b)
           c == [node |-> n, block |-> QC(v, b)]
<1>1. x.type = VoteType(p) /\ c = [node |-> x.from, block |-> QC(x.view, x.block)] BY DEF Msg
<1>2. \A q \in 1 .. 3 : q # p => VoteType(q) # VoteType(p)
  BY DEF VoteType
<1> HIDE DEF x, c
<1>3. \A q \in 1 .. 3 : Of(Cast \cup {x}, q) = IF q = p THEN Of(Cast, q) \cup {c} ELSE Of(Cast, q)
  BY <1>1, <1>2
<1>4. /\ Ballots = [q \in 1 .. 3 |-> Of(Cast, q)]
      /\ Ballots' = [q \in 1 .. 3 |-> Of(Cast \cup {x}, q)]
  BY DEF Ballots, x
<1> HIDE DEF Of
<1>5. Ballots' = [Ballots EXCEPT ![p] = @ \cup {c}] BY <1>3, <1>4
<1> QED BY <1>5 DEF c

\* A ballot of phase p follows a certificate of phase p - 1.
LEMMA VoteStep ==
  ASSUME LadderInv, NEW p \in 1 .. 3, NEW n \in Node, NEW v, NEW b,
         Cast' = Cast \cup {Msg(VoteType(p), n, v, b)}, endData' = endData,
         p > 1 => VoteQuorum(VoteType(p - 1), v, b)
  PROVE  [Ladder!Next]_(Ladder!vars)
<1> DEFINE c == [node |-> n, block |-> QC(v, b)]
<1>1. Ballots' = [Ballots EXCEPT ![p] = @ \cup {c}] BY CastBallot
<1>2. c.node = n /\ c.block = QC(v, b) OBVIOUS
<1>3. p > 1 => Ladder!Certified(p - 1, QC(v, b))
  <2>1. p > 1 => p - 1 \in 1 .. 3 OBVIOUS
  <2> QED BY <2>1, CertifiedIsQuorum
<1>4. Ladder!Vote(n, p, QC(v, b)) BY <1>1, <1>3 DEF Ladder!Vote
<1>5. DOMAIN Ballots = 1 .. 3 BY DEF Ballots
<1>6. CASE c \in Ballots[p]
  <2>1. Ballots' = Ballots
    <3>1. Ballots[p] \cup {c} = Ballots[p] BY <1>6
    <3>2. Ballots = [q \in 1 .. 3 |-> Ballots[q]] BY DEF Ballots
    <3> QED BY <1>1, <3>1, <3>2
  <2> QED BY <2>1 DEF Ladder!vars
<1>7. CASE c \notin Ballots[p]
  <2>1. c \in Ballots'[p] \ Ballots[p] BY <1>1, <1>5, <1>7
  <2> HIDE DEF c
  <2>2. \E cast \in Ballots'[p] \ Ballots[p] :
          cast.node \in Node /\ Ladder!Vote(cast.node, p, cast.block)
    BY <1>2, <1>4, <2>1
  <2> QED BY <2>2 DEF Ladder!Next
<1> QED BY <1>6, <1>7

\* A decision follows a commit certificate.
LEMMA DecideStep ==
  ASSUME LadderInv, NEW n \in Node, NEW v, NEW b, Cast' = Cast,
         endData' = [endData EXCEPT ![n] = @ \cup {QC(v, b)}], VoteQuorum("CommitVote", v, b)
  PROVE  [Ladder!Next]_(Ladder!vars)
<1> DEFINE d == QC(v, b)
<1>1. Ballots' = Ballots BY DEF Ballots
<1>2. Ladder!Certified(3, d)
  <2>1. VoteType(3) = "CommitVote" BY DEF VoteType
  <2> QED BY <2>1, CertifiedIsQuorum
<1>3. Ladder!Decide(n, d) BY <1>1, <1>2 DEF Ladder!Decide
<1>4. DOMAIN endData = Node BY DEF LadderInv, Domains
<1> HIDE DEF d
<1>5. endData' = [endData EXCEPT ![n] = @ \cup {d}] BY DEF d
<1>6. CASE endData' = endData BY <1>1, <1>6 DEF Ladder!vars
<1>7. CASE d \in endData'[n] \ endData[n] BY <1>3, <1>7 DEF Ladder!Next
<1>8. CASE d \in endData[n]
  <2>1. endData[n] \cup {d} = endData[n] BY <1>8
  <2>2. endData = [q \in Node |-> endData[q]] BY DEF LadderInv, AllOK, EndedOK
  <2>3. endData' = endData BY <1>5, <2>1, <2>2
  <2> QED BY <1>6, <2>3
<1> QED BY <1>4, <1>5, <1>7, <1>8

\* Only two handlers report a block, one for a certificate it is sent, one for its own.
LEMMA EndedStep ==
  ASSUME LadderInv, [Next]_vars
  PROVE  \/ endData' = endData
         \/ \E n \in Node : \E v, b : /\ endData' = [endData EXCEPT ![n] = @ \cup {QC(v, b)}]
                                      /\ VoteQuorum("CommitVote", v, b)
<1>1. CASE ExtraInitialStart BY <1>1 DEF ExtraInitialStart
<1>2. ASSUME NEW n \in Node, MakeConsensusRequests(n) \/ StartConsensus(n) PROVE endData' = endData
  BY <1>2 DEF MakeConsensusRequests, StartConsensus
<1>3. ASSUME NEW n \in Node, NEW m \in sent, HandleDecide(n, m)
      PROVE  /\ endData' = [endData EXCEPT ![n] = @ \cup {QC(m.view, m.block)}]
             /\ VoteQuorum("CommitVote", m.view, m.block)
  <2>1. MsgOK(m) /\ m.type = "Decide"
    BY <1>3 DEF LadderInv, AllOK, SentOK, HandleDecide, InView, CanReceive
  <2>2. endData' = [endData EXCEPT ![n] = @ \cup {QC(m.view, m.block)}]
    BY <1>3 DEF HandleDecide, Complete
  <2> QED BY <2>1, <2>2 DEF MsgOK
<1>4. ASSUME NEW n \in Node, NEW m \in sent, Deliver(n, m), ~HandleDecide(n, m)
      PROVE  endData' = endData
  BY <1>4 DEF Deliver, StorageConsensusNodePk, HandlePrepare, HandlePrecommit, HandleCommit
<1>5. ASSUME NEW n \in Node, NEW u \in mail, HandleCommitVote(n, u)
      PROVE  \/ endData' = endData
             \/ /\ endData' = [endData EXCEPT ![n] = @ \cup {QC(u.msg.view, u.msg.block)}]
                /\ VoteQuorum("CommitVote", u.msg.view, u.msg.block)
  <2>1. u.msg.type = "CommitVote" /\ RecordVote(n, u) BY <1>5 DEF HandleCommitVote, CanOpen
  <2>2. Certified(n, u) => VoteQuorum("CommitVote", u.msg.view, u.msg.block)
    BY <2>1, BallotCertified DEF VoteKind
  <2> QED BY <1>5, <2>2 DEF HandleCommitVote, Complete
<1>6. ASSUME NEW n \in Node, NEW u \in mail, Open(n, u), ~HandleCommitVote(n, u)
      PROVE  endData' = endData
  BY <1>6 DEF Open, StorageTblsKey, HandleNewview, HandlePrepareVote, HandlePrecommitVote,
              CollectVote
<1>7. CASE UNCHANGED nodeVars BY <1>7 DEF nodeVars
<1> QED BY <1>1, <1>2, <1>3, <1>4, <1>5, <1>6, <1>7, StepTaken DEF Step

LEMMA LadderStep == ASSUME LadderInv, [Next]_vars PROVE [Ladder!Next]_(Ladder!vars)
<1>1. Domains /\ SentOK BY DEF LadderInv, AllOK
<1>2. VoteType(1) = "PrepareVote" /\ VoteType(2) = "PreCommitVote" /\ VoteType(3) = "CommitVote"
  BY DEF VoteType
<1>3. ASSUME NEW n \in Node, NEW m \in sent, HandlePrepare(n, m),
             Cast' = Cast \cup {Msg("PrepareVote", n, m.view, m.block)}
      PROVE  endData' = endData /\ [Ladder!Next]_(Ladder!vars)
  <2>1. endData' = endData BY <1>3 DEF HandlePrepare
  <2> QED BY <1>2, <1>3, <2>1, VoteStep
<1>4. ASSUME NEW n \in Node, NEW m \in sent, HandlePrecommit(n, m),
             Cast' = Cast \cup {Msg("PreCommitVote", n, m.view, m.block)}
      PROVE  endData' = endData /\ [Ladder!Next]_(Ladder!vars)
  <2>1. endData' = endData BY <1>4 DEF HandlePrecommit
  <2>2. VoteQuorum(VoteType(2 - 1), m.view, m.block)
    BY <1>1, <1>2, <1>4 DEF HandlePrecommit, VotesInView, InView, CanReceive, SentOK, MsgOK
  <2> QED BY <1>2, <1>4, <2>1, <2>2, VoteStep
<1>5. ASSUME NEW n \in Node, NEW m \in sent, HandleCommit(n, m),
             Cast' = Cast \cup {Msg("CommitVote", n, m.view, m.block)}
      PROVE  endData' = endData /\ [Ladder!Next]_(Ladder!vars)
  <2>1. endData' = endData BY <1>5 DEF HandleCommit
  <2>2. VoteQuorum(VoteType(3 - 1), m.view, m.block)
    BY <1>1, <1>2, <1>5 DEF HandleCommit, VotesInView, InView, CanReceive, SentOK, MsgOK
  <2> QED BY <1>2, <1>5, <2>1, <2>2, VoteStep
<1>6. CASE Cast' = Cast
  <2>1. CASE endData' = endData
    <3>1. Ballots' = Ballots BY <1>6 DEF Ballots
    <3> QED BY <2>1, <3>1 DEF Ladder!vars
  <2>2. CASE endData' # endData BY <1>6, <2>2, EndedStep, DecideStep
  <2> QED BY <2>1, <2>2
<1> QED BY <1>1, <1>3, <1>4, <1>5, <1>6, CastStep

LEMMA LadderInit == ASSUME Init PROVE Ladder!Init
<1>1. Cast = {}
  <2>1. MailMsgs = {} BY DEF Init, MailMsgs
  <2>2. LogMsgs = {} BY DEF Init, LogMsgs
  <2> QED BY <2>1, <2>2 DEF Cast
<1>2. Ballots = [p \in 1 .. 3 |-> {}] BY <1>1 DEF Ballots
<1>3. endData = [n \in Node |-> {}] BY DEF Init
<1> QED BY <1>2, <1>3 DEF Ladder!Init

\* The phases of Basic HotStuff implement PhaseLadder for any number of nodes and any f:
\* handle_precommit and handle_commit vote only for a block whose certificate a quorum of the
\* phase before stands behind, and handle_commit_vote and handle_decide report only blocks with
\* a commit certificate, although votes go to whoever proposed last and are counted late.
THEOREM LadderImplemented == Spec => ImplementsLadder
<1>1. Init => LadderInv BY LadderInvInit
<1>2. LadderInv /\ [Next]_vars => LadderInv' BY LadderInvStep
<1>3. Init => Ladder!Init BY LadderInit
<1>4. LadderInv /\ [Next]_vars => [Ladder!Next]_(Ladder!vars) BY LadderStep
<1> QED BY <1>1, <1>2, <1>3, <1>4, PTL DEF Spec, ImplementsLadder, Ladder!Spec
-----------------------------------------------------------------------------
(* Keys.  With N <= 2f + 2 a certificate takes the votes of every other node, and    *)
(* a voter has its key share; PreCommit and Commit votes also come from nodes that   *)
(* have entered the view.                                                            *)

PksInfo == [type |-> "ConsensusNodePKsInfo", from |-> Starter]

\* The public keys come with the first view, and only once.
KeysDealt ==
  /\ keyDistribute => view[Starter] = 0 /\ \A m \in sent : m.type # "ConsensusNodePKsInfo"
  /\ \A m \in sent : m.type = "ConsensusNodePKsInfo" => m = PksInfo
  /\ \A n \in Node : pks[n] <=> view[n] > 0
  /\ \A n \in Node : n # Starter /\ pks[n] => PksInfo \in seen[n]

\* A node in a view has a primary.
PrimaryOK ==
  \A n \in Node : primary[n] \in Node \cup {NoNode} /\ (view[n] > 0 => primary[n] \in Node)

AllKeys == \A n \in Node : keypair[n]

AllPks == \A n \in Node : pks[n]

Proposed(n, v) == \E m \in sent : m.type = "Prepare" /\ m.from = n /\ m.view = v

\* Who has proposed is in its view, and who has certified had the votes of all.
SentKeys(m) ==
  /\ m.type = "Prepare" => m.from \in Node /\ m.view \in Nat /\ (m.view > 0 => pks[m.from])
  /\ m.type \in {"PreCommit", "Commit", "Decide"} => m.from \in Node /\ m.view \in Nat /\ AllKeys
  /\ m.type = "PreCommit" => Proposed(m.from, m.view)

\* A voter has its share; a vote of the later phases is of a view the voter has entered.
VoteKeys(m, to) ==
  m.type \in VoteKind =>
    /\ m.from # to /\ m.view \in Nat /\ keypair[m.from]
    /\ IF m.type = "PrepareVote" THEN to \in Node /\ Proposed(to, m.view)
                                 ELSE m.view <= view[m.from]

\* Without early proposals nobody is in view 2, and nothing is certified for good, before all
\* nodes have the public keys.
Punctual ==
  /\ \A m \in sent : m.type \in {"PreCommit", "Commit", "Decide"} => m.view > 0
  /\ (\E m \in sent : m.type \in {"Commit", "Decide"}) => AllPks
  /\ (\E n \in Node : view[n] > 1) => AllPks
  /\ \A u \in mail : u.msg.type \in VoteKind => u.msg.view > 0 /\ u.to \in Node /\ pks[u.to]
  /\ \A n \in Node : \A m \in votes[n] : m.view > 0
  /\ \A n \in Node : primary[n] \in Node => pks[primary[n]] \/ primary[n] = Leader(view[n])

KeyInv ==
  /\ LadderInv /\ KeysDealt /\ PrimaryOK
  /\ \A m \in sent : SentKeys(m)
  /\ \A u \in mail : VoteKeys(u.msg, u.to)
  /\ \A n \in Node : \A m \in votes[n] : VoteKeys(m, n)
  /\ ~EarlyProposal => Punctual

LEMMA KeyInvInit == ASSUME Init PROVE KeyInv
<1>1. LadderInv BY LadderInvInit
<1>2. KeysDealt /\ PrimaryOK BY NodeAssumption DEF Init, KeysDealt, PrimaryOK
<1>3. Punctual BY NodeAssumption DEF Init, Punctual
<1> QED BY <1>1, <1>2, <1>3 DEF Init, KeyInv

LEMMA LeaderIsNode == \A v \in Nat : Leader(v) \in Node
BY NodeAssumption DEF Leader, Node

\* No key share, view or message is taken back.
LEMMA Kept ==
  ASSUME Domains, [Next]_vars
  PROVE  /\ sent \subseteq sent'
         /\ \A n \in Node : keypair[n] => keypair'[n]
         /\ \A n \in Node : pks[n] => pks'[n]
         /\ \A n \in Node : seen[n] \subseteq seen'[n]
<1> USE DEF Domains
<1>1. CASE ExtraInitialStart BY <1>1 DEF ExtraInitialStart, DistributeKeys
<1>2. ASSUME NEW n \in Node, MakeConsensusRequests(n) \/ StartConsensus(n)
      PROVE  sent \subseteq sent' /\ UNCHANGED <<keypair, pks, seen>>
  BY <1>2 DEF MakeConsensusRequests, StartConsensus
<1>3. ASSUME NEW n \in Node, NEW m \in sent, Deliver(n, m)
      PROVE  /\ sent' = sent /\ keypair' = keypair
             /\ \A q \in Node : (pks[q] => pks'[q]) /\ seen[q] \subseteq seen'[q]
  BY <1>3 DEF Deliver, StorageConsensusNodePk, HandlePrepare, HandlePrecommit, HandleCommit,
              HandleDecide, Saw
<1>4. ASSUME NEW n \in Node, NEW u \in mail, Open(n, u)
      PROVE  /\ sent \subseteq sent' /\ UNCHANGED <<pks, seen>>
             /\ \A q \in Node : keypair[q] => keypair'[q]
  BY <1>4 DEF Open, StorageTblsKey, HandleNewview, HandlePrepareVote, HandlePrecommitVote,
              CollectVote, HandleCommitVote
<1>5. CASE UNCHANGED nodeVars BY <1>5 DEF nodeVars
<1> QED BY <1>1, <1>2, <1>3, <1>4, <1>5, StepTaken DEF Step

\* With N <= 2f + 2 the votes of a certificate are those of all the other nodes.
LEMMA AllVoted ==
  ASSUME N <= 2 * FaultTolerance + 2, LadderInv, NEW n \in Node, NEW u \in mail,
         u.msg.type \in VoteKind, u.to = n, RecordVote(n, u), Certified(n, u),
         VoteKeys(u.msg, n), \A m \in votes[n] : VoteKeys(m, n),
         NEW q \in Node, q # n
  PROVE  \E m \in Ballot(n, u) : m.from = q /\ m.type = u.msg.type /\ VoteKeys(m, n)
<1> DEFINE t == u.msg.type
           v == u.msg.view
           b == u.msg.block
           R == {m.from : m \in Ballot(n, u)}
           S == Node \ {n}
<1>1. \A m \in Ballot(n, u) : m.from \in Node /\ m = Msg(t, m.from, v, b)
  BY BallotOK
<1>2. Cardinality(Ballot(n, u)) = Threshold BY BallotOK
<1>3. \A m \in Ballot(n, u) : VoteKeys(m, n) /\ m.type = t BY DEF Ballot
<1>4. \A m \in Ballot(n, u) : m.from \in S BY <1>1, <1>3 DEF VoteKeys
<1> HIDE DEF t, v, b, S
<1>5. Cardinality(R) >= Threshold BY ONLY <1>1, <1>2, SendersOfVotes
<1>6. R \subseteq S BY <1>4
<1>7. IsFiniteSet(Node) /\ Cardinality(Node) = N
  <2>1. 0 \in Int /\ N - 1 \in Int /\ 0 <= N - 1 BY NodeAssumption
  <2>2. IsFiniteSet(0 .. N - 1) /\ Cardinality(0 .. N - 1) = (N - 1) - 0 + 1
    BY <2>1, FS_Interval
  <2> QED BY <2>2, NodeAssumption DEF Node
<1>8. IsFiniteSet(S) /\ Cardinality(S) = N - 1 BY <1>7, FS_RemoveElement DEF S
<1> HIDE DEF R
<1>9. IsFiniteSet(R) /\ Cardinality(R) <= Cardinality(S) /\ (Cardinality(S) = Cardinality(R) => S = R)
  BY <1>6, <1>8, FS_Subset
<1>10. Cardinality(R) \in Nat BY <1>9, FS_CardinalityType
<1>11. Cardinality(S) = Cardinality(R)
  BY <1>5, <1>8, <1>9, <1>10, NodeAssumption, FaultAssumption DEF Threshold
<1>12. q \in R BY <1>9, <1>11 DEF S
<1> QED BY <1>3, <1>12 DEF R, t

\* The broadcast keys reach a node in view 0 only.
LEMMA KeysComeFirst ==
  ASSUME KeysDealt, Domains, NEW n \in Node, NEW m \in sent, StorageConsensusNodePk(n, m)
  PROVE  m = PksInfo /\ n # Starter /\ view[n] = 0 /\ ~pks[n] /\ ~keyDistribute
<1>1. m \in sent \ seen[n] /\ m.from # n /\ m.type = "ConsensusNodePKsInfo"
  BY DEF StorageConsensusNodePk, CanReceive
<1>2. m = PksInfo /\ ~keyDistribute BY <1>1 DEF KeysDealt
<1>3. n # Starter BY <1>1, <1>2 DEF PksInfo
<1>4. ~pks[n] BY <1>1, <1>2, <1>3 DEF KeysDealt
<1>5. view[n] \in Nat BY DEF Domains
<1> QED BY <1>2, <1>3, <1>4, <1>5 DEF KeysDealt

\* What the steps publish.
LEMMA Published ==
  ASSUME [Next]_vars
  PROVE  \/ ExtraInitialStart /\ sent' = sent \cup {PksInfo}
         \/ \A m \in sent' \ sent :
              \/ \E n \in Node : /\ StartConsensus(n)
                                 /\ m.type = "Prepare" /\ m.from = n /\ m.view = view[n]
              \/ \E n \in Node, u \in mail :
                   /\ u.to = n /\ RecordVote(n, u) /\ Certified(n, u)
                   /\ keypair[n] /\ pks[n]
                   /\ u.msg.type \in VoteKind
                   /\ m = Msg(Announced(u.msg.type), n, u.msg.view, u.msg.block)
<1>1. CASE ExtraInitialStart BY <1>1 DEF ExtraInitialStart, DistributeKeys, PksInfo
<1>2. ASSUME NEW n \in Node, MakeConsensusRequests(n) PROVE sent' = sent
  BY <1>2 DEF MakeConsensusRequests
<1>3. ASSUME NEW n \in Node, StartConsensus(n), NEW m \in sent' \ sent
      PROVE  m.type = "Prepare" /\ m.from = n /\ m.view = view[n]
  <2>1. PICK x : x.type = "Prepare" /\ x.from = n /\ x.view = view[n] /\ sent' = sent \cup {x}
    BY <1>3 DEF StartConsensus
  <2> QED BY <1>3, <2>1
<1>4. ASSUME NEW n \in Node, NEW m \in sent, Deliver(n, m) PROVE sent' = sent
  BY <1>4 DEF Deliver, StorageConsensusNodePk, HandlePrepare, HandlePrecommit, HandleCommit,
              HandleDecide
<1>5. ASSUME NEW n \in Node, NEW u \in mail, Open(n, u), NEW m \in sent' \ sent
      PROVE  /\ u.to = n /\ RecordVote(n, u) /\ Certified(n, u)
             /\ keypair[n] /\ pks[n]
             /\ u.msg.type \in VoteKind
             /\ m = Msg(Announced(u.msg.type), n, u.msg.view, u.msg.block)
  <2>1. CASE StorageTblsKey(n, u) \/ HandleNewview(n, u)
    BY <1>5, <2>1 DEF StorageTblsKey, HandleNewview
  <2>2. ASSUME NEW t \in {"PrepareVote", "PreCommitVote"}, CollectVote(n, u, t)
        PROVE  /\ u.to = n /\ RecordVote(n, u) /\ Certified(n, u)
               /\ keypair[n] /\ pks[n] /\ u.msg.type = t
               /\ m = Msg(Announced(t), n, u.msg.view, u.msg.block)
    BY <1>5, <2>2 DEF CollectVote, CanOpen
  <2>3. CASE HandleCommitVote(n, u)
    <3>1. Announced("CommitVote") = "Decide" BY DEF Announced
    <3>2. u.msg.type = "CommitVote" /\ u.to = n BY <2>3 DEF HandleCommitVote, CanOpen
    <3> QED BY <1>5, <2>3, <3>1, <3>2 DEF HandleCommitVote, VoteKind
  <2> QED BY <1>5, <2>1, <2>2, <2>3 DEF Open, HandlePrepareVote, HandlePrecommitVote, VoteKind
<1>6. CASE UNCHANGED nodeVars BY <1>6 DEF nodeVars
<1> QED BY <1>1, <1>2, <1>3, <1>4, <1>5, <1>6, StepTaken DEF Step

\* A view is left with the public keys at hand, or for them.
LEMMA ViewLeft ==
  ASSUME [Next]_vars
  PROVE  \/ ExtraInitialStart
         \/ \E n \in Node, m \in sent : StorageConsensusNodePk(n, m)
         \/ /\ UNCHANGED <<pks, keyDistribute>>
            /\ \/ view' = view
               \/ \E n \in Node : /\ pks[n] /\ NewView(n)
                                  /\ \/ \E m \in sent : m.type = "Decide"
                                     \/ \E u \in mail : HandleCommitVote(n, u) /\ Certified(n, u)
<1>1. ASSUME NEW n \in Node, MakeConsensusRequests(n) \/ StartConsensus(n)
      PROVE  UNCHANGED <<pks, keyDistribute, view>>
  BY <1>1 DEF MakeConsensusRequests, StartConsensus
<1>2. ASSUME NEW n \in Node, NEW m \in sent, HandleDecide(n, m)
      PROVE  UNCHANGED <<pks, keyDistribute>> /\ pks[n] /\ NewView(n) /\ m.type = "Decide"
  BY <1>2 DEF HandleDecide, InView, CanReceive, Complete
<1>3. ASSUME NEW n \in Node, NEW m \in sent,
             HandlePrepare(n, m) \/ HandlePrecommit(n, m) \/ HandleCommit(n, m)
      PROVE  UNCHANGED <<pks, keyDistribute, view>>
  BY <1>3 DEF HandlePrepare, HandlePrecommit, HandleCommit
<1>4. ASSUME NEW n \in Node, NEW u \in mail, HandleCommitVote(n, u)
      PROVE  /\ UNCHANGED <<pks, keyDistribute>> /\ pks[n]
             /\ view' = view \/ (NewView(n) /\ Certified(n, u))
  BY <1>4 DEF HandleCommitVote, Complete
<1>5. ASSUME NEW n \in Node, NEW u \in mail, Open(n, u), ~HandleCommitVote(n, u)
      PROVE  UNCHANGED <<pks, keyDistribute, view>>
  BY <1>5 DEF Open, StorageTblsKey, HandleNewview, HandlePrepareVote, HandlePrecommitVote, CollectVote
<1>6. CASE UNCHANGED nodeVars BY <1>6 DEF nodeVars
<1> QED BY <1>1, <1>2, <1>3, <1>4, <1>5, <1>6, StepTaken DEF Step, Deliver

LEMMA KeysDealtStep ==
  ASSUME KeyInv, [Next]_vars
  PROVE  KeysDealt'
<1>1. Domains /\ Domains' /\ KeysDealt BY DomainsStep DEF KeyInv, LadderInv
<1>2. ASSUME NEW m \in sent' \ sent, ~ExtraInitialStart PROVE m.type # "ConsensusNodePKsInfo"
  <2>1. \A t \in VoteKind : Announced(t) # "ConsensusNodePKsInfo" BY DEF VoteKind, Announced
  <2>2. \A t, n, v, b : Msg(t, n, v, b).type = t BY DEF Msg
  <2> QED BY <1>2, <2>1, <2>2, Published
<1>3. PksInfo.type = "ConsensusNodePKsInfo" BY DEF PksInfo
<1>4. CASE ExtraInitialStart
  <2>1. sent' = sent \cup {PksInfo} /\ ~keyDistribute' /\ NewView(Starter)
    BY <1>4 DEF ExtraInitialStart, DistributeKeys, PksInfo
  <2>2. /\ view'[Starter] = 1 /\ pks'[Starter]
        /\ \A q \in Node \ {Starter} : view'[q] = view[q] /\ pks'[q] = pks[q]
    BY <1>1, <1>4, <2>1, Entered, NodeAssumption DEF ExtraInitialStart, DistributeKeys, Domains, KeysDealt
  <2>3. seen' = seen BY <1>4 DEF ExtraInitialStart
  <2> QED BY <1>1, <2>1, <2>2, <2>3 DEF KeysDealt
<1>5. ASSUME NEW n \in Node, NEW m \in sent, StorageConsensusNodePk(n, m) PROVE KeysDealt'
  <2>1. m = PksInfo /\ n # Starter /\ view[n] = 0 /\ ~keyDistribute BY <1>1, <1>5, KeysComeFirst
  <2>2. /\ sent' = sent /\ keyDistribute' = keyDistribute /\ NewView(n)
        /\ pks' = [pks EXCEPT ![n] = TRUE] /\ Saw(n, m)
    BY <1>5 DEF StorageConsensusNodePk
  <2>3. /\ view'[n] = 1 /\ pks'[n] /\ PksInfo \in seen'[n]
        /\ \A q \in Node \ {n} : view'[q] = view[q] /\ pks'[q] = pks[q] /\ seen'[q] = seen[q]
    BY <1>1, <2>1, <2>2, Entered DEF Domains, Saw
  <2> QED BY <1>1, <2>1, <2>2, <2>3 DEF KeysDealt
<1>6. ASSUME UNCHANGED <<pks, keyDistribute>>, ~ExtraInitialStart,
             view' = view \/ \E n \in Node : pks[n] /\ NewView(n)
      PROVE  KeysDealt'
  <2>1. \A q \in Node : seen[q] \subseteq seen'[q] BY <1>1, Kept
  <2>2. \A q \in Node : view[q] \in Nat BY <1>1 DEF Domains
  <2>3. \A q \in Node : (view'[q] > 0 <=> view[q] > 0) /\ (view[q] = 0 => view'[q] = 0)
    <3>1. CASE view' = view BY <3>1
    <3>2. ASSUME NEW n \in Node, pks[n], NewView(n), NEW q \in Node
          PROVE  (view'[q] > 0 <=> view[q] > 0) /\ (view[q] = 0 => view'[q] = 0)
      BY <1>1, <2>2, <3>2, Entered DEF KeysDealt
    <3> QED BY <1>6, <3>1, <3>2
  <2>4. keyDistribute' => view'[Starter] = 0 /\ \A m \in sent' : m.type # "ConsensusNodePKsInfo"
    BY <1>1, <1>2, <1>6, <2>3, NodeAssumption DEF KeysDealt
  <2>5. \A m \in sent' : m.type = "ConsensusNodePKsInfo" => m = PksInfo
    BY <1>1, <1>2, <1>6 DEF KeysDealt
  <2>6. \A n \in Node : pks'[n] <=> view'[n] > 0 BY <1>1, <1>6, <2>3 DEF KeysDealt
  <2>7. \A n \in Node : n # Starter /\ pks'[n] => PksInfo \in seen'[n]
    BY <1>1, <1>6, <2>1 DEF KeysDealt
  <2> QED BY <2>4, <2>5, <2>6, <2>7 DEF KeysDealt
<1> QED BY <1>4, <1>5, <1>6, ViewLeft

\* A primary is the leader of the view just entered, or whoever proposed last.
LEMMA PrimarySet ==
  ASSUME Domains, [Next]_vars, NEW q \in Node
  PROVE  \/ primary'[q] = primary[q] /\ view'[q] = view[q]
         \/ primary'[q] = Leader(view[q] + 1) /\ view'[q] = view[q] + 1
         \/ /\ view'[q] = view[q]
            /\ \E m \in sent : m.type = "Prepare" /\ primary'[q] = m.from /\ m.from # q
<1> DEFINE Goal == \/ primary'[q] = primary[q] /\ view'[q] = view[q]
                   \/ primary'[q] = Leader(view[q] + 1) /\ view'[q] = view[q] + 1
                   \/ /\ view'[q] = view[q]
                      /\ \E m \in sent : m.type = "Prepare" /\ primary'[q] = m.from /\ m.from # q
<1>1. ASSUME NEW n \in Node, NewView(n) PROVE Goal BY <1>1, Entered
<1>2. ASSUME UNCHANGED <<view, primary>> PROVE Goal BY <1>2
<1>3. ASSUME ExtraInitialStart PROVE Goal
  BY <1>1, <1>3, NodeAssumption DEF ExtraInitialStart, DistributeKeys
<1>4. ASSUME NEW n \in Node, NEW m \in sent, HandlePrepare(n, m) PROVE Goal
  BY <1>4 DEF HandlePrepare, CanReceive, Domains
<1> HIDE DEF Goal
<1>5. ASSUME NEW n \in Node, MakeConsensusRequests(n) \/ StartConsensus(n) PROVE Goal
  BY <1>2, <1>5 DEF MakeConsensusRequests, StartConsensus
<1>6. ASSUME NEW n \in Node, NEW m \in sent, Deliver(n, m) PROVE Goal
  <2>1. CASE StorageConsensusNodePk(n, m) BY <1>1, <2>1 DEF StorageConsensusNodePk
  <2>2. CASE HandlePrecommit(n, m) \/ HandleCommit(n, m)
    BY <1>2, <2>2 DEF HandlePrecommit, HandleCommit
  <2>3. CASE HandleDecide(n, m) BY <1>1, <2>3 DEF HandleDecide, Complete
  <2> QED BY <1>4, <1>6, <2>1, <2>2, <2>3 DEF Deliver
<1>7. ASSUME NEW n \in Node, NEW u \in mail, Open(n, u) PROVE Goal
  <2>1. CASE HandleCommitVote(n, u) BY <1>1, <1>2, <2>1 DEF HandleCommitVote, Complete
  <2>2. CASE ~HandleCommitVote(n, u)
    BY <1>2, <1>7, <2>2 DEF Open, StorageTblsKey, HandleNewview, HandlePrepareVote,
                            HandlePrecommitVote, CollectVote
  <2> QED BY <2>1, <2>2
<1>8. ASSUME UNCHANGED nodeVars PROVE Goal BY <1>2, <1>8 DEF nodeVars
<1>9. Goal BY <1>3, <1>5, <1>6, <1>7, <1>8, StepTaken DEF Step
<1> QED BY <1>9 DEF Goal

LEMMA PrimaryStep ==
  ASSUME KeyInv, [Next]_vars
  PROVE  PrimaryOK'
<1> SUFFICES ASSUME NEW n \in Node
             PROVE  primary'[n] \in Node \cup {NoNode} /\ (view'[n] > 0 => primary'[n] \in Node)
  BY DEF PrimaryOK
<1>1. Domains /\ PrimaryOK BY DEF KeyInv, LadderInv
<1>2. Leader(view[n] + 1) \in Node BY <1>1, LeaderIsNode DEF Domains
<1>3. \A m \in sent : m.type = "Prepare" => m.from \in Node BY DEF KeyInv, SentKeys
<1> QED BY <1>1, <1>2, <1>3, PrimarySet DEF PrimaryOK

\* The votes the steps mail.
LEMMA Mailed ==
  ASSUME [Next]_vars, NEW u \in mail' \ mail, u.msg.type \in VoteKind
  PROVE  \E n \in Node, m \in sent :
           \/ /\ HandlePrepare(n, m) /\ keypair[n]
              /\ u.to = m.from /\ u.msg = Msg("PrepareVote", n, m.view, m.block)
           \/ /\ HandlePrecommit(n, m) /\ n # primary[n]
              /\ u.to = primary[n] /\ u.msg = Msg("PreCommitVote", n, m.view, m.block)
           \/ /\ HandleCommit(n, m) /\ n # primary[n]
              /\ u.to = primary[n] /\ u.msg = Msg("CommitVote", n, m.view, m.block)
<1>1. ASSUME NEW n, NEW t, NEW m, NEW to, u \in Vote(n, t, m, to)
      PROVE  u.to = to /\ to # n /\ u.msg = Msg(t, n, m.view, m.block)
  BY <1>1 DEF Vote, Unicast
<1>2. ASSUME NEW n, u \in NewViewMail(n) PROVE FALSE BY <1>2, NewViewNoVote DEF VoteKind
<1>3. CASE ExtraInitialStart
  <2>1. u \in KeyMail BY <1>2, <1>3 DEF ExtraInitialStart, DistributeKeys, KeyMail
  <2> QED BY <2>1, KeyNoVote DEF VoteKind
<1>4. ASSUME NEW n \in Node, MakeConsensusRequests(n) \/ StartConsensus(n) PROVE FALSE
  BY <1>4 DEF MakeConsensusRequests, StartConsensus
<1>5. ASSUME NEW n \in Node, NEW m \in sent, Deliver(n, m)
      PROVE  \/ /\ HandlePrepare(n, m) /\ keypair[n]
                /\ u.to = m.from /\ u.msg = Msg("PrepareVote", n, m.view, m.block)
             \/ /\ HandlePrecommit(n, m) /\ n # primary[n]
                /\ u.to = primary[n] /\ u.msg = Msg("PreCommitVote", n, m.view, m.block)
             \/ /\ HandleCommit(n, m) /\ n # primary[n]
                /\ u.to = primary[n] /\ u.msg = Msg("CommitVote", n, m.view, m.block)
  <2>1. CASE StorageConsensusNodePk(n, m) BY <1>2, <2>1 DEF StorageConsensusNodePk
  <2>2. CASE HandleDecide(n, m) BY <1>2, <2>2 DEF HandleDecide
  <2>3. CASE HandlePrepare(n, m) BY <1>1, <2>3 DEF HandlePrepare
  <2>4. CASE HandlePrecommit(n, m) BY <1>1, <2>4 DEF HandlePrecommit
  <2>5. CASE HandleCommit(n, m) BY <1>1, <2>5 DEF HandleCommit
  <2> QED BY <1>5, <2>1, <2>2, <2>3, <2>4, <2>5 DEF Deliver
<1>6. ASSUME NEW n \in Node, NEW x \in mail, Open(n, x) PROVE FALSE
  BY <1>2, <1>6 DEF Open, StorageTblsKey, HandleNewview, HandlePrepareVote, HandlePrecommitVote,
                    CollectVote, HandleCommitVote
<1>7. CASE UNCHANGED nodeVars BY <1>7 DEF nodeVars
<1> QED BY <1>3, <1>4, <1>5, <1>6, <1>7, StepTaken DEF Step

\* What a log gains was in the mail.
LEMMA Logged ==
  ASSUME Domains, [Next]_vars, NEW n \in Node, NEW m \in votes'[n]
  PROVE  m \in votes[n] \/ \E u \in mail : u.to = n /\ u.msg = m /\ u.msg.type \in VoteKind
<1>1. CASE votes' = votes BY <1>1
<1>2. ASSUME NEW q \in Node, NEW u \in mail, RecordVote(q, u), u.msg.type \in VoteKind
      PROVE  m \in votes[n] \/ (u.to = n /\ u.msg = m)
  BY <1>2 DEF RecordVote, Domains
<1>3. CASE ExtraInitialStart BY <1>1, <1>3 DEF ExtraInitialStart
<1>4. ASSUME NEW q \in Node, MakeConsensusRequests(q) \/ StartConsensus(q) PROVE votes' = votes
  BY <1>4 DEF MakeConsensusRequests, StartConsensus
<1>5. ASSUME NEW q \in Node, NEW x \in sent, Deliver(q, x) PROVE votes' = votes
  BY <1>5 DEF Deliver, StorageConsensusNodePk, HandlePrepare, HandlePrecommit, HandleCommit,
              HandleDecide
<1>6. ASSUME NEW q \in Node, NEW u \in mail, Open(q, u)
      PROVE  votes' = votes \/ (RecordVote(q, u) /\ u.msg.type \in VoteKind)
  BY <1>6 DEF Open, StorageTblsKey, HandleNewview, HandlePrepareVote, HandlePrecommitVote,
              CollectVote, HandleCommitVote, CanOpen, VoteKind
<1>7. CASE UNCHANGED nodeVars BY <1>1, <1>7 DEF nodeVars
<1> QED BY <1>1, <1>2, <1>3, <1>4, <1>5, <1>6, <1>7, StepTaken DEF Step

\* What is true of keys stays true.
LEMMA KeysKept ==
  ASSUME Domains, Domains', Forward, [Next]_vars
  PROVE  /\ AllKeys => AllKeys'
         /\ AllPks => AllPks'
         /\ \A n, v : Proposed(n, v) => Proposed(n, v)'
         /\ \A m : SentKeys(m) => SentKeys(m)'
         /\ \A m, to : m.from \in Node /\ VoteKeys(m, to) => VoteKeys(m, to)'
<1>1. AllKeys => AllKeys' BY Kept DEF AllKeys
<1>2. AllPks => AllPks' BY Kept DEF AllPks
<1>3. ASSUME NEW n, NEW v, Proposed(n, v) PROVE Proposed(n, v)' BY <1>3, Kept DEF Proposed
<1>4. ASSUME NEW m, SentKeys(m) PROVE SentKeys(m)' BY <1>1, <1>3, <1>4, Kept DEF SentKeys
<1>5. ASSUME NEW m, NEW to, m.from \in Node, VoteKeys(m, to) PROVE VoteKeys(m, to)'
  <2>1. view[m.from] \in Nat /\ view'[m.from] \in Nat /\ view'[m.from] >= view[m.from]
    BY <1>5 DEF Domains, Forward
  <2> QED BY <1>3, <1>5, <2>1, Kept DEF VoteKeys
<1> QED BY <1>1, <1>2, <1>3, <1>4, <1>5

LEMMA SentKeysStep ==
  ASSUME N <= 2 * FaultTolerance + 2, KeyInv, [Next]_vars, NEW m \in sent'
  PROVE  SentKeys(m)'
<1>1. Domains /\ Domains' /\ LadderInv /\ Forward BY DomainsStep, QcsStep DEF KeyInv, LadderInv
<1>2. CASE m \in sent BY <1>1, <1>2, KeysKept DEF KeyInv
<1>3. CASE ExtraInitialStart /\ m = PksInfo BY <1>3 DEF PksInfo, SentKeys
<1>4. ASSUME NEW n \in Node, StartConsensus(n), m.type = "Prepare", m.from = n, m.view = view[n]
      PROVE  SentKeys(m)'
  <2>1. view[n] \in Nat /\ (view[n] > 0 => pks[n]) BY <1>1 DEF KeyInv, KeysDealt, Domains
  <2>2. pks' = pks BY <1>4 DEF StartConsensus
  <2> QED BY <1>4, <2>1, <2>2 DEF SentKeys
<1>5. ASSUME NEW n \in Node, NEW u \in mail, u.to = n, RecordVote(n, u), Certified(n, u),
             keypair[n], u.msg.type \in VoteKind,
             m = Msg(Announced(u.msg.type), n, u.msg.view, u.msg.block)
      PROVE  SentKeys(m)'
  <2>1. VoteKeys(u.msg, n) /\ \A x \in votes[n] : VoteKeys(x, n) BY <1>5 DEF KeyInv
  <2>2. AllKeys
    <3>1. ASSUME NEW q \in Node, q # n PROVE keypair[q]
      <4>1. PICK x \in Ballot(n, u) : x.from = q /\ x.type = u.msg.type /\ VoteKeys(x, n)
        BY <1>1, <1>5, <2>1, <3>1, AllVoted
      <4> QED BY <1>5, <4>1 DEF VoteKeys
    <3> QED BY <1>5, <3>1 DEF AllKeys
  <2>3. m.type = Announced(u.msg.type) /\ m.from = n /\ m.view = u.msg.view BY <1>5 DEF Msg
  <2>4. m.type \in {"PreCommit", "Commit", "Decide"} /\ (m.type = "PreCommit" => u.msg.type = "PrepareVote")
    BY <1>5, <2>3 DEF Announced, VoteKind
  <2>5. SentKeys(m) BY <1>5, <2>1, <2>2, <2>3, <2>4 DEF SentKeys, VoteKeys
  <2> QED BY <1>1, <2>5, KeysKept
<1> QED BY <1>2, <1>3, <1>4, <1>5, Published

LEMMA VoteKeysStep ==
  ASSUME KeyInv, [Next]_vars
  PROVE  /\ \A u \in mail' : VoteKeys(u.msg, u.to)'
         /\ \A n \in Node : \A m \in votes'[n] : VoteKeys(m, n)'
<1>1. Domains /\ Domains' /\ LadderInv /\ LadderInv' /\ Forward
  BY DomainsStep, QcsStep, LadderInvStep DEF KeyInv, LadderInv
<1>2. ASSUME NEW u \in mail PROVE VoteKeys(u.msg, u.to)'
  <2>1. CASE u.msg.type \notin VoteKind BY <2>1 DEF VoteKeys
  <2>2. CASE u.msg.type \in VoteKind
    <3>1. u.msg.from \in Node BY <1>1, <2>2 DEF LadderInv, AllOK, MailOK, MsgOK
    <3> QED BY <1>1, <3>1, KeysKept DEF KeyInv
  <2> QED BY <2>1, <2>2
<1>3. ASSUME NEW u \in mail' \ mail PROVE VoteKeys(u.msg, u.to)'
  <2> SUFFICES ASSUME u.msg.type \in VoteKind PROVE VoteKeys(u.msg, u.to)' BY DEF VoteKeys
  <2>1. \A t, n, v, b : LET x == Msg(t, n, v, b)
                        IN  x.type = t /\ x.from = n /\ x.view = v
    BY DEF Msg
  <2>2. ASSUME NEW n \in Node, NEW m \in sent, HandlePrepare(n, m), keypair[n],
               u.to = m.from, u.msg = Msg("PrepareVote", n, m.view, m.block)
        PROVE  VoteKeys(u.msg, u.to)
    <3>1. m.type = "Prepare" /\ m.from # n BY <2>2 DEF HandlePrepare, CanReceive
    <3>2. m.from \in Node /\ m.view \in Nat BY <3>1 DEF KeyInv, SentKeys
    <3>3. u.msg.type = "PrepareVote" /\ u.msg.from = n /\ u.msg.view = m.view BY <2>1, <2>2
    <3>4. Proposed(m.from, m.view) BY <3>1 DEF Proposed
    <3> QED BY <2>2, <3>1, <3>2, <3>3, <3>4 DEF VoteKeys
  <2>3. ASSUME NEW n \in Node, NEW m \in sent, NEW t \in {"PreCommitVote", "CommitVote"},
               m.view = view[n], keypair[n], n # primary[n],
               u.to = primary[n], u.msg = Msg(t, n, m.view, m.block)
        PROVE  VoteKeys(u.msg, u.to)
    <3>1. view[n] \in Nat BY <1>1 DEF Domains
    <3>2. u.msg.type = t /\ u.msg.from = n /\ u.msg.view = view[n] BY <2>1, <2>3
    <3> QED BY <2>3, <3>1, <3>2 DEF VoteKeys
  <2>4. ASSUME NEW n \in Node, NEW m \in sent, HandlePrecommit(n, m) \/ HandleCommit(n, m)
        PROVE  m.view = view[n] /\ keypair[n]
    BY <2>4 DEF HandlePrecommit, HandleCommit, VotesInView, InView
  <2>5. VoteKeys(u.msg, u.to) BY <2>2, <2>3, <2>4, Mailed
  <2>6. u.msg.from \in Node BY <1>1 DEF LadderInv, AllOK, MailOK, MsgOK
  <2> QED BY <1>1, <2>5, <2>6, KeysKept
<1>4. ASSUME NEW n \in Node, NEW m \in votes'[n] PROVE VoteKeys(m, n)'
  <2>1. CASE m \in votes[n]
    <3>1. m.from \in Node BY <1>1, <2>1 DEF LadderInv, AllOK, VotesOK, MsgOK
    <3> QED BY <1>1, <2>1, <3>1, KeysKept DEF KeyInv
  <2>2. ASSUME NEW u \in mail, u.to = n, u.msg = m PROVE VoteKeys(m, n)' BY <1>2, <2>2
  <2> QED BY <1>1, <1>4, <2>1, <2>2, Logged
<1> QED BY <1>2, <1>3, <1>4

\* A certificate of one of the later phases takes nodes that have entered a view.
LEMMA AllEntered ==
  ASSUME N <= 2 * FaultTolerance + 2, KeyInv, Punctual, NEW n \in Node, NEW u \in mail,
         u.msg.type \in VoteKind \ {"PrepareVote"}, u.to = n, pks[n], RecordVote(n, u),
         Certified(n, u)
  PROVE  AllPks
<1>1. VoteKeys(u.msg, n) /\ \A x \in votes[n] : VoteKeys(x, n) BY DEF KeyInv
<1>2. Domains /\ LadderInv /\ KeysDealt BY DEF KeyInv, LadderInv
<1>3. \A x \in Ballot(n, u) : x.view > 0 BY DEF Ballot, Punctual
<1>4. ASSUME NEW q \in Node, q # n PROVE pks[q]
  <2>1. PICK x \in Ballot(n, u) : x.from = q /\ x.type = u.msg.type /\ VoteKeys(x, n)
    BY <1>1, <1>2, <1>4, AllVoted
  <2>2. x.view \in Nat /\ x.view <= view[q] /\ view[q] \in Nat
    BY <1>2, <2>1 DEF VoteKeys, Domains
  <2>3. view[q] > 0 BY <1>3, <2>2
  <2> QED BY <1>2, <2>3 DEF KeysDealt
<1> QED BY <1>4 DEF AllPks

LEMMA PunctualStep ==
  ASSUME N <= 2 * FaultTolerance + 2, KeyInv, [Next]_vars, ~EarlyProposal'
  PROVE  Punctual'
<1>1. Domains /\ Domains' /\ LadderInv /\ LadderInv' /\ Forward /\ KeysDealt /\ PrimaryOK
  BY DomainsStep, QcsStep, LadderInvStep DEF KeyInv, LadderInv
<1>2. ~EarlyProposal /\ Punctual BY <1>1, Kept DEF EarlyProposal, KeyInv
<1>3. ASSUME NEW n, NEW v, Proposed(n, v)
      PROVE  n \in Node /\ v \in Nat /\ v > 0 /\ pks[n] /\ (v = 1 => n = Leader(1))
  BY <1>2, <1>3 DEF Proposed, EarlyProposal, KeyInv, SentKeys
<1>4. /\ AllPks => AllPks'
      /\ \A n \in Node : pks[n] => pks'[n]
      /\ \A n \in Node : view[n] \in Nat /\ view'[n] \in Nat
  BY <1>1, Kept, KeysKept DEF Domains
<1>5. ASSUME NEW m \in sent' \ sent, m.type \in {"PreCommit", "Commit", "Decide"}
      PROVE  m.view > 0 /\ (m.type # "PreCommit" => AllPks)
  <2>1. PICK n \in Node, u \in mail :
          /\ u.to = n /\ RecordVote(n, u) /\ Certified(n, u) /\ keypair[n] /\ pks[n]
          /\ u.msg.type \in VoteKind /\ m = Msg(Announced(u.msg.type), n, u.msg.view, u.msg.block)
    <3>1. PksInfo.type = "ConsensusNodePKsInfo" BY DEF PksInfo
    <3> QED BY <1>5, <3>1, Published
  <2>2. m.type = Announced(u.msg.type) /\ m.view = u.msg.view BY <2>1 DEF Msg
  <2>3. m.type # "PreCommit" => u.msg.type # "PrepareVote" BY <2>2 DEF Announced
  <2>4. m.type # "PreCommit" => AllPks BY <1>2, <2>1, <2>3, AllEntered
  <2> QED BY <1>2, <2>1, <2>2, <2>4 DEF Punctual
<1>6. \A m \in sent' : m.type \in {"PreCommit", "Commit", "Decide"} => m.view > 0
  BY <1>2, <1>5 DEF Punctual
<1>7. (\E m \in sent' : m.type \in {"Commit", "Decide"}) => AllPks'
  BY <1>2, <1>4, <1>5 DEF Punctual
<1>8. ASSUME NEW n \in Node, view'[n] > 1 PROVE AllPks'
  <2>1. CASE view[n] > 1 BY <1>2, <1>4, <2>1 DEF Punctual
  <2>2. CASE ~(view[n] > 1)
    <3>1. ~ExtraInitialStart
      <4>1. ExtraInitialStart => keyDistribute /\ NewView(Starter)
        BY DEF ExtraInitialStart, DistributeKeys
      <4> QED BY <1>1, <1>4, <1>8, <2>2, <4>1, Entered, NodeAssumption DEF KeysDealt
    <3>2. ASSUME NEW q \in Node, NEW m \in sent, StorageConsensusNodePk(q, m) PROVE FALSE
      <4>1. NewView(q) /\ view[q] = 0 BY <1>1, <3>2, KeysComeFirst DEF StorageConsensusNodePk
      <4> QED BY <1>1, <1>4, <1>8, <2>2, <4>1, Entered
    <3>3. ASSUME NEW m \in sent, m.type = "Decide" PROVE AllPks BY <1>2, <3>3 DEF Punctual
    <3>4. ASSUME NEW q \in Node, NEW u \in mail, HandleCommitVote(q, u), Certified(q, u), pks[q]
          PROVE  AllPks
      <4>1. RecordVote(q, u) /\ u.to = q /\ u.msg.type = "CommitVote"
        BY <3>4 DEF HandleCommitVote, CanOpen
      <4> QED BY <1>2, <3>4, <4>1, AllEntered DEF VoteKind
    <3>5. view' # view BY <1>8, <2>2
    <3> QED BY <1>4, <3>1, <3>2, <3>3, <3>4, <3>5, ViewLeft
  <2> QED BY <2>1, <2>2
<1>9. ASSUME NEW u \in mail', u.msg.type \in VoteKind
      PROVE  u.msg.view > 0 /\ u.to \in Node /\ pks'[u.to]
  <2>1. CASE u \in mail BY <1>2, <1>4, <1>9, <2>1 DEF Punctual
  <2>m. \A t, n, v, b : Msg(t, n, v, b).view = v BY DEF Msg
  <2>2. ASSUME NEW n \in Node, NEW m \in sent, HandlePrepare(n, m), u.to = m.from,
               u.msg.view = m.view
        PROVE  u.msg.view > 0 /\ u.to \in Node /\ pks'[u.to]
    <3>1. m.type = "Prepare" BY <2>2 DEF HandlePrepare, CanReceive
    <3>2. Proposed(m.from, m.view) BY <3>1 DEF Proposed
    <3> QED BY <1>3, <1>4, <2>2, <3>2
  <2>3. ASSUME NEW n \in Node, NEW m \in sent, HandlePrecommit(n, m), u.to = primary[n],
               u.msg.view = m.view
        PROVE  u.msg.view > 0 /\ u.to \in Node /\ pks'[u.to]
    <3>1. m.type = "PreCommit" /\ m.view = view[n]
      BY <2>3 DEF HandlePrecommit, VotesInView, InView, CanReceive
    <3>2. view[n] > 0 BY <1>2, <3>1 DEF Punctual
    <3>3. primary[n] \in Node BY <1>1, <3>2 DEF PrimaryOK
    <3>4. Proposed(m.from, view[n]) BY <3>1 DEF KeyInv, SentKeys
    <3>5. pks[primary[n]]
      <4>1. CASE view[n] > 1 BY <1>2, <3>3, <4>1 DEF Punctual, AllPks
      <4>2. CASE view[n] = 1
        <5>1. pks[Leader(1)] BY <1>3, <3>4, <4>2
        <5> QED BY <1>2, <3>3, <4>2, <5>1 DEF Punctual
      <4> QED BY <1>4, <3>2, <4>1, <4>2
    <3> QED BY <1>4, <2>3, <3>1, <3>2, <3>3, <3>5
  <2>4. ASSUME NEW n \in Node, NEW m \in sent, HandleCommit(n, m), u.to = primary[n],
               u.msg.view = m.view
        PROVE  u.msg.view > 0 /\ u.to \in Node /\ pks'[u.to]
    <3>1. m.type = "Commit" /\ m.view = view[n]
      BY <2>4 DEF HandleCommit, VotesInView, InView, CanReceive
    <3>2. view[n] > 0 /\ AllPks BY <1>2, <3>1 DEF Punctual
    <3>3. primary[n] \in Node BY <1>1, <3>2 DEF PrimaryOK
    <3> QED BY <1>4, <2>4, <3>1, <3>2, <3>3 DEF AllPks
  <2>5. CASE u \in mail' \ mail BY <1>9, <2>m, <2>2, <2>3, <2>4, <2>5, Mailed
  <2> QED BY <1>9, <2>1, <2>5
<1>10. ASSUME NEW n \in Node, NEW m \in votes'[n] PROVE m.view > 0
  BY <1>1, <1>2, <1>10, Logged DEF Punctual
<1>11. ASSUME NEW n \in Node, primary'[n] \in Node
       PROVE  pks'[primary'[n]] \/ primary'[n] = Leader(view'[n])
  <2>1. \A m \in sent : m.type = "Prepare" => pks[m.from]
    BY <1>3 DEF Proposed
  <2> QED BY <1>1, <1>2, <1>4, <1>11, <2>1, PrimarySet DEF Punctual
<1> QED BY <1>6, <1>7, <1>8, <1>9, <1>10, <1>11 DEF Punctual

LEMMA KeyInvStep ==
  ASSUME N <= 2 * FaultTolerance + 2, KeyInv, [Next]_vars
  PROVE  KeyInv'
<1>1. LadderInv' BY LadderInvStep DEF KeyInv
<1>2. KeysDealt' /\ PrimaryOK' BY KeysDealtStep, PrimaryStep
<1>3. \A m \in sent' : SentKeys(m)' BY SentKeysStep
<1>4. ~EarlyProposal' => Punctual' BY PunctualStep
<1> QED BY <1>1, <1>2, <1>3, <1>4, VoteKeysStep DEF KeyInv

(* Key shares and panics.                                                    *)

\* Who may propose: the starter, the first leader, or a node that has its share.
MayPropose(n) == n = Starter \/ n = Leader(1) \/ keypair[n]

\* Shares are dealt by the starter, who has its own by then; view 2 is reached with a
\* share; a vote of the later phases comes after the first certificate.
ShareInv ==
  /\ start \in [Node -> BOOLEAN]
  /\ \A n \in Node : view[n] > 1 => keypair[n]
  /\ \A n \in Node : keypair[n] => keypair[Starter]
  /\ \A u \in mail : u.msg.type = "TBLSKey" => keypair[Starter]
  /\ \A u \in mail : u.msg.type \in VoteKind \ {"PrepareVote"} => AllKeys
  /\ \A n \in Node : primary[n] = n => n = Leader(view[n]) /\ view[n] > 0
  /\ \A n \in Node : start[n] => MayPropose(n)
  /\ \A m \in sent : m.type = "Prepare" => MayPropose(m.from)

\* A start becomes pending at the starter, or at a node that is its own primary.
LEMMA Started ==
  ASSUME start \in [Node -> BOOLEAN], [Next]_vars
  PROVE  /\ start' \in [Node -> BOOLEAN]
         /\ \A n \in Node : start'[n] => start[n] \/ n = Starter \/ primary[n] = n
<1> DEFINE Goal == /\ start' \in [Node -> BOOLEAN]
                   /\ \A n \in Node : start'[n] => start[n] \/ n = Starter \/ primary[n] = n
<1>1. ASSUME UNCHANGED start PROVE Goal BY <1>1
<1>2. ASSUME NEW q \in Node, NEW x \in BOOLEAN, start' = [start EXCEPT ![q] = x],
             x => start[q] \/ q = Starter \/ primary[q] = q
      PROVE  Goal
  BY <1>2
<1> HIDE DEF Goal
<1>3. ASSUME ExtraInitialStart PROVE UNCHANGED start BY <1>3 DEF ExtraInitialStart
<1>4. ASSUME NEW q \in Node, MakeConsensusRequests(q) PROVE Goal
  <2>1. PICK x : x = (start[q] \/ (q = Starter /\ requestBuffer'[q] # {})) OBVIOUS
  <2>2. x \in BOOLEAN /\ (x => start[q] \/ q = Starter) BY <2>1
  <2>3. start' = [start EXCEPT ![q] = x] BY <1>4, <2>1 DEF MakeConsensusRequests
  <2> QED BY <1>2, <2>2, <2>3
<1>5. ASSUME NEW q \in Node, StartConsensus(q) PROVE Goal
  BY <1>2, <1>5 DEF StartConsensus
<1>6. ASSUME NEW q \in Node, NEW m \in sent, Deliver(q, m) PROVE UNCHANGED start
  BY <1>6 DEF Deliver, StorageConsensusNodePk, HandlePrepare, HandlePrecommit, HandleCommit,
              HandleDecide
<1>7. ASSUME NEW q \in Node, NEW u \in mail, Open(q, u) PROVE Goal
  <2>1. CASE HandleNewview(q, u)
    <3>1. PICK x : x = (start[q] \/ primary[q] = q) OBVIOUS
    <3>2. x \in BOOLEAN /\ (x => start[q] \/ primary[q] = q) BY <3>1
    <3>3. UNCHANGED start \/ start' = [start EXCEPT ![q] = x] BY <2>1, <3>1 DEF HandleNewview
    <3> QED BY <1>1, <1>2, <3>2, <3>3
  <2>2. CASE ~HandleNewview(q, u)
    BY <1>1, <1>7, <2>2 DEF Open, StorageTblsKey, HandlePrepareVote, HandlePrecommitVote,
                            CollectVote, HandleCommitVote
  <2> QED BY <2>1, <2>2
<1>8. UNCHANGED nodeVars => UNCHANGED start BY DEF nodeVars
<1>9. Goal BY <1>1, <1>3, <1>4, <1>5, <1>6, <1>7, <1>8, StepTaken DEF Step
<1> QED BY <1>9 DEF Goal

\* Only the first leader panics, for want of a share it then never gets.
PanicInv == ~EarlyProposal => \A n \in panicked : n = Leader(1) /\ ~keypair[n]

LEMMA ShareInvInit == ASSUME Init PROVE ShareInv /\ PanicInv
BY NodeAssumption DEF Init, ShareInv, PanicInv

\* Nobody misses the public keys or a primary.
LEMMA KeysAreThere == ASSUME KeyInv, ~EarlyProposal, NEW n \in Node PROVE ~LacksKeys(n)
<1>1. Punctual /\ PrimaryOK BY DEF KeyInv
<1>2. ASSUME NEW m \in Verifies(n, {"PreCommit", "Commit"}) PROVE primary[n] # NoNode
  <2>1. m \in sent /\ m.type \in {"PreCommit", "Commit"} /\ m.view = view[n] BY DEF Verifies
  <2> QED BY <1>1, <2>1, NodeAssumption DEF Punctual, PrimaryOK
<1>3. Verifies(n, {"Decide"}) # {} => pks[n] BY <1>1 DEF Verifies, Punctual, AllPks
<1>4. ASSUME NEW u \in mail, u.to = n, u.msg.type \in VoteKind PROVE pks[n]
  BY <1>1, <1>4 DEF Punctual
<1> QED BY <1>2, <1>3, <1>4 DEF LacksKeys

\* A node without its share: nothing has been certified, and if votes wait for it, it is the
\* leader of view 1.
LEMMA WithoutShare ==
  ASSUME KeyInv, ShareInv, NEW n \in Node, ~keypair[n]
  PROVE  /\ ~Certificate
         /\ \A u \in mail : u.to = n /\ u.msg.type \in VoteKind => n = Leader(1)
<1>1. ~AllKeys BY DEF AllKeys
<1>2. ~Certificate BY <1>1 DEF Certificate, KeyInv, SentKeys
<1>3. ASSUME NEW u \in mail, u.to = n, u.msg.type \in VoteKind PROVE n = Leader(1)
  <2>1. u.msg.type = "PrepareVote" BY <1>1, <1>3 DEF ShareInv
  <2>2. VoteKeys(u.msg, n) BY <1>3 DEF KeyInv
  <2>3. keypair[u.msg.from] /\ Proposed(n, u.msg.view) BY <1>3, <2>1, <2>2 DEF VoteKeys
  <2>4. u.msg.from \in Node BY <1>3 DEF KeyInv, LadderInv, AllOK, MailOK, MsgOK
  <2>5. keypair[Starter] BY <2>3, <2>4 DEF ShareInv
  <2>6. MayPropose(n) BY <2>3 DEF Proposed, ShareInv
  <2> QED BY <2>5, <2>6 DEF MayPropose
<1> QED BY <1>2, <1>3

LEMMA OnlyFirstLeader ==
  ASSUME KeyInv, ShareInv, NEW n \in Node, LacksShare(n)
  PROVE  n = Leader(1) /\ ~Certificate /\ ~keypair[n]
<1>1. ~keypair[n] BY DEF LacksShare
<1>2. ~Certificate BY <1>1, WithoutShare
<1>3. Verifies(n, {"PreCommit", "Commit", "Decide"}) = {} BY <1>2 DEF Certificate, Verifies
<1>4. PICK u \in mail : u.to = n /\ u.msg.type \in VoteKind BY <1>3 DEF LacksShare
<1> QED BY <1>1, <1>2, <1>4, WithoutShare

LEMMA ShareInvStep ==
  ASSUME KeyInv, ShareInv, [Next]_vars
  PROVE  ShareInv'
<1>1. Domains /\ Domains' /\ KeysDealt /\ PrimaryOK BY DomainsStep DEF KeyInv, LadderInv
<1>2. /\ \A n \in Node : keypair[n] => keypair'[n]
      /\ AllKeys => AllKeys'
      /\ \A n \in Node : MayPropose(n) => MayPropose(n)'
  BY <1>1, Kept DEF AllKeys, MayPropose
<1>3. \A n \in Node : view[n] \in Nat /\ view'[n] \in Nat BY <1>1 DEF Domains
<1>4. ASSUME NEW n \in Node, view'[n] > 1 PROVE keypair'[n]
  <2>1. CASE view[n] > 1 BY <1>2, <2>1 DEF ShareInv
  <2>2. CASE ~(view[n] > 1)
    <3>1. ~ExtraInitialStart
      <4>1. ExtraInitialStart => keyDistribute /\ NewView(Starter)
        BY DEF ExtraInitialStart, DistributeKeys
      <4> QED BY <1>1, <1>3, <1>4, <2>2, <4>1, Entered, NodeAssumption DEF KeysDealt
    <3>2. ASSUME NEW q \in Node, NEW m \in sent, StorageConsensusNodePk(q, m) PROVE FALSE
      <4>1. NewView(q) /\ view[q] = 0 BY <1>1, <3>2, KeysComeFirst DEF StorageConsensusNodePk
      <4> QED BY <1>1, <1>3, <1>4, <2>2, <4>1, Entered
    <3>3. ASSUME NEW m \in sent, m.type = "Decide" PROVE AllKeys BY <3>3 DEF KeyInv, SentKeys
    <3>4. ASSUME NEW q \in Node, NEW u \in mail, HandleCommitVote(q, u) PROVE AllKeys
      BY <3>4 DEF HandleCommitVote, CanOpen, ShareInv, VoteKind
    <3>5. view' # view BY <1>4, <2>2
    <3>6. AllKeys BY <3>1, <3>2, <3>3, <3>4, <3>5, ViewLeft
    <3> QED BY <1>2, <3>6 DEF AllKeys
  <2> QED BY <2>1, <2>2
<1>5. /\ \A n \in Node : keypair'[n] => keypair'[Starter]
      /\ \A u \in mail' : u.msg.type = "TBLSKey" => keypair'[Starter]
  <2> DEFINE New(u) == u \in mail \/ u.msg.type # "TBLSKey"
  <2>1. CASE ExtraInitialStart
    BY <1>1, <2>1, NodeAssumption DEF ExtraInitialStart, DistributeKeys, Domains
  <2>2. CASE keypair' = keypair /\ \A u \in mail' : New(u) BY <2>2 DEF ShareInv
  <2>3. ASSUME NEW n \in Node, NEW u \in mail, StorageTblsKey(n, u)
        PROVE  keypair'[Starter] /\ mail' \subseteq mail
    <3>1. keypair[Starter] BY <2>3 DEF StorageTblsKey, CanOpen, ShareInv
    <3> QED BY <1>2, <2>3, <3>1, NodeAssumption DEF StorageTblsKey
  <2>4. ASSUME NEW n PROVE \A u \in NewViewMail(n) : New(u) BY NewViewNoVote
  <2>5. ASSUME NEW n, NEW t \in VoteKind, NEW m, NEW to PROVE \A u \in Vote(n, t, m, to) : New(u)
    BY <2>5 DEF Vote, Unicast, Msg, VoteKind
  <2>6. ASSUME NEW n \in Node, MakeConsensusRequests(n) \/ StartConsensus(n)
        PROVE  UNCHANGED <<keypair, mail>>
    BY <2>6 DEF MakeConsensusRequests, StartConsensus
  <2>7. ASSUME NEW n \in Node, NEW m \in sent, Deliver(n, m)
        PROVE  keypair' = keypair /\ \A u \in mail' : New(u)
    <3>1. "PrepareVote" \in VoteKind /\ "PreCommitVote" \in VoteKind /\ "CommitVote" \in VoteKind
      BY DEF VoteKind
    <3> HIDE DEF New
    <3>2. \A u \in mail : New(u) BY DEF New
    <3>3. CASE StorageConsensusNodePk(n, m) BY <2>4, <3>2, <3>3 DEF StorageConsensusNodePk
    <3>4. CASE HandlePrepare(n, m) BY <2>5, <3>1, <3>2, <3>4 DEF HandlePrepare
    <3>5. CASE HandlePrecommit(n, m) BY <2>5, <3>1, <3>2, <3>5 DEF HandlePrecommit
    <3>6. CASE HandleCommit(n, m) BY <2>5, <3>1, <3>2, <3>6 DEF HandleCommit
    <3>7. CASE HandleDecide(n, m) BY <2>4, <3>2, <3>7 DEF HandleDecide
    <3> QED BY <2>7, <3>3, <3>4, <3>5, <3>6, <3>7 DEF Deliver
  <2>8. ASSUME NEW n \in Node, NEW u \in mail, Open(n, u), ~StorageTblsKey(n, u)
        PROVE  keypair' = keypair /\ \A x \in mail' : New(x)
    <3>1. \A x \in mail : New(x) OBVIOUS
    <3> HIDE DEF New
    <3>2. CASE HandleNewview(n, u) BY <3>1, <3>2 DEF HandleNewview
    <3>3. CASE HandlePrepareVote(n, u) \/ HandlePrecommitVote(n, u)
      BY <3>1, <3>3 DEF HandlePrepareVote, HandlePrecommitVote, CollectVote
    <3>4. CASE HandleCommitVote(n, u) BY <2>4, <3>1, <3>4 DEF HandleCommitVote
    <3> QED BY <2>8, <3>2, <3>3, <3>4 DEF Open
  <2>9. CASE UNCHANGED nodeVars BY <2>2, <2>9 DEF nodeVars
  <2> HIDE DEF New
  <2>10. ASSUME NEW n \in Node, NEW u \in mail, StorageTblsKey(n, u)
         PROVE  /\ \A q \in Node : keypair'[q] => keypair'[Starter]
                /\ \A x \in mail' : x.msg.type = "TBLSKey" => keypair'[Starter]
    BY <2>3, <2>10
  <2>11. UNCHANGED <<keypair, mail>> => keypair' = keypair /\ \A u \in mail' : New(u) BY DEF New
  <2> QED BY <2>1, <2>2, <2>6, <2>7, <2>8, <2>9, <2>10, <2>11, StepTaken DEF Step
<1>6. ASSUME NEW u \in mail', u.msg.type \in VoteKind \ {"PrepareVote"} PROVE AllKeys'
  <2>1. CASE u \in mail BY <1>2, <1>6, <2>1 DEF ShareInv
  <2>2. ASSUME NEW n \in Node, NEW m \in sent, HandlePrecommit(n, m) \/ HandleCommit(n, m)
        PROVE  AllKeys
    <3>1. m.type \in {"PreCommit", "Commit"}
      BY <2>2 DEF HandlePrecommit, HandleCommit, VotesInView, InView, CanReceive
    <3> QED BY <3>1 DEF KeyInv, SentKeys
  <2>3. \A n, v, b : Msg("PrepareVote", n, v, b).type = "PrepareVote" BY DEF Msg
  <2>4. CASE u \in mail' \ mail BY <1>2, <1>6, <2>2, <2>3, <2>4, Mailed
  <2> QED BY <2>1, <2>4
<1>7. ASSUME NEW n \in Node, primary'[n] = n PROVE n = Leader(view'[n]) /\ view'[n] > 0
  BY <1>1, <1>3, <1>7, PrimarySet DEF ShareInv
<1>8. ASSUME NEW n \in Node, start'[n] PROVE MayPropose(n)'
  <2>1. CASE start[n] BY <1>2, <2>1 DEF ShareInv
  <2>2. CASE n = Starter BY <2>2 DEF MayPropose
  <2>3. CASE primary[n] = n
    <3>1. n = Leader(view[n]) /\ view[n] > 0 BY <2>3 DEF ShareInv
    <3>2. CASE view[n] = 1 BY <3>1, <3>2 DEF MayPropose
    <3>3. CASE view[n] > 1
      <4>1. keypair[n] BY <3>3 DEF ShareInv
      <4> QED BY <1>2, <4>1 DEF MayPropose
    <3> QED BY <1>3, <3>1, <3>2, <3>3
  <2> QED BY <1>8, <2>1, <2>2, <2>3, Started DEF ShareInv
<1>9. ASSUME NEW m \in sent', m.type = "Prepare" PROVE MayPropose(m.from)'
  <2>1. CASE m \in sent
    <3>1. m.from \in Node BY <1>9, <2>1 DEF KeyInv, SentKeys
    <3> QED BY <1>2, <1>9, <2>1, <3>1 DEF ShareInv
  <2>2. CASE m \in sent' \ sent
    <3>1. PksInfo.type # "Prepare" BY DEF PksInfo
    <3>2. \A t \in VoteKind : \A n, v, b : Msg(Announced(t), n, v, b).type # "Prepare"
      BY DEF VoteKind, Announced, Msg
    <3>3. PICK n \in Node : StartConsensus(n) /\ m.from = n
      BY <1>9, <2>2, <3>1, <3>2, Published
    <3> QED BY <1>2, <3>3 DEF StartConsensus, ShareInv
  <2> QED BY <1>9, <2>1, <2>2
<1>10. start' \in [Node -> BOOLEAN] BY Started DEF ShareInv
<1> QED BY <1>4, <1>5, <1>6, <1>7, <1>8, <1>9, <1>10 DEF ShareInv

LEMMA PanicInvStep ==
  ASSUME KeyInv, ShareInv, PanicInv, [Next]_vars
  PROVE  PanicInv'
<1> SUFFICES ASSUME ~EarlyProposal', NEW n \in panicked' PROVE n = Leader(1) /\ ~keypair'[n]
  BY DEF PanicInv
<1>1. Domains BY DEF KeyInv, LadderInv
<1>2. ~EarlyProposal BY <1>1, Kept DEF EarlyProposal
<1>3. CASE UNCHANGED vars BY <1>2, <1>3 DEF vars, nodeVars, PanicInv
<1>4. ASSUME NEW q \in Node \ panicked, Work(q), UNCHANGED panicked
      PROVE  n = Leader(1) /\ ~keypair'[n]
  <2>1. n \in panicked /\ n # q BY <1>4
  <2>2. n = Leader(1) /\ ~keypair[n] BY <1>2, <2>1 DEF PanicInv
  <2>3. keypair' = keypair \/ keypair' = [keypair EXCEPT ![q] = TRUE]
    <3>1. ASSUME q = Starter, ExtraInitialStart PROVE keypair' = [keypair EXCEPT ![q] = TRUE]
      BY <3>1 DEF ExtraInitialStart, DistributeKeys
    <3>2. ASSUME MakeConsensusRequests(q) \/ StartConsensus(q) PROVE keypair' = keypair
      BY <3>2 DEF MakeConsensusRequests, StartConsensus
    <3>3. ASSUME NEW m \in sent, Deliver(q, m) PROVE keypair' = keypair
      BY <3>3 DEF Deliver, StorageConsensusNodePk, HandlePrepare, HandlePrecommit, HandleCommit,
                  HandleDecide
    <3>4. ASSUME NEW u \in mail, Open(q, u)
          PROVE  keypair' = keypair \/ keypair' = [keypair EXCEPT ![q] = TRUE]
      BY <3>4 DEF Open, StorageTblsKey, HandleNewview, HandlePrepareVote, HandlePrecommitVote,
                  CollectVote, HandleCommitVote
    <3> QED BY <1>4, <3>1, <3>2, <3>3, <3>4 DEF Work
  <2>4. n \in Node BY <2>2, LeaderIsNode
  <2> QED BY <1>1, <2>1, <2>2, <2>3, <2>4 DEF Domains
<1>5. ASSUME NEW q \in Node \ panicked, Panics(q) PROVE n = Leader(1) /\ ~keypair'[n]
  <2>1. keypair' = keypair /\ panicked' = panicked \cup {q} BY <1>5 DEF Panics, nodeVars
  <2>2. ~LacksKeys(q) BY <1>2, KeysAreThere
  <2>3. q = Leader(1) /\ ~keypair[q] BY <1>5, <2>2, OnlyFirstLeader DEF Panics
  <2> QED BY <1>2, <2>1, <2>3 DEF PanicInv
<1> QED BY <1>3, <1>4, <1>5 DEF Next

LEMMA KeysAreInTime == ASSUME KeyInv, ShareInv, PanicInv PROVE KeysInTime
<1>1. \A n \in Node : LacksShare(n) => n = Leader(1) /\ ~Certificate BY OnlyFirstLeader
<1>2. ASSUME ~EarlyProposal, panicked # {} PROVE panicked = {Leader(1)} /\ ~Certificate
  <2>1. panicked = {Leader(1)} /\ ~keypair[Leader(1)] BY <1>2 DEF PanicInv
  <2>2. Leader(1) \in Node BY LeaderIsNode
  <2> QED BY <2>1, <2>2, WithoutShare
<1> QED BY <1>1, <1>2, KeysAreThere DEF KeysInTime

\* The key share is a unicast and the public keys a broadcast, and nothing orders them before
\* the messages of view 1.  In every deployment with N <= 2f + 2 nodes (the code's f is 1, so
\* up to four) the only handler that ever unwraps a share that is not there is the one with
\* which the leader of view 1 combines the first votes, before any block is certified: a
\* certificate takes the votes of all other nodes and the share of its maker, and a vote takes
\* a share.  The public keys and a primary are there whenever a handler needs them, and that
\* leader is the only node that panics, after which no block is ever certified, unless the
\* controller's requests make the starter propose before it leads.
THEOREM KeysInTimeAlways ==
  ASSUME N <= 2 * FaultTolerance + 2
  PROVE  Spec => []KeysInTime
<1>1. Init => KeyInv /\ ShareInv /\ PanicInv BY KeyInvInit, ShareInvInit
<1>2. KeyInv /\ ShareInv /\ PanicInv /\ [Next]_vars => KeyInv' /\ ShareInv' /\ PanicInv'
  BY KeyInvStep, ShareInvStep, PanicInvStep
<1>3. KeyInv /\ ShareInv /\ PanicInv => KeysInTime BY KeysAreInTime
<1> QED BY <1>1, <1>2, <1>3, PTL DEF Spec
=============================================================================
