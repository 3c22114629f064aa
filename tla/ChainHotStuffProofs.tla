------------------------- MODULE ChainHotStuffProofs -------------------------
(* Proofs, for any number of nodes and whatever is delivered, late or never, of *)
(* what the votes of Chained HotStuff stand for.                               *)
EXTENDS ChainHotStuff, FiniteSetTheorems, TLAPS

USE DEF netVars, keyVars, qcVars

-----------------------------------------------------------------------------
(* Votes.                                                                   *)

Shape ==
  /\ view \in [Node -> Nat]
  /\ DOMAIN votes = Node /\ DOMAIN highQc = Node /\ DOMAIN genericQc = Node /\ DOMAIN lockedQc = Node
  /\ DOMAIN endData = Node /\ DOMAIN newviews = Node
  /\ \A n \in Node : \A m \in votes[n] : m.type = "Vote"

\* A vote lies behind its node, unless the node is the next leader and stayed.
BallotOK(m) ==
  /\ m.from \in Node /\ m.view \in Nat /\ m = Vote(m.from, m.view, m.block)
  /\ m.view <= view[m.from]
  /\ m.view = view[m.from] => m.from = Leader(m.view + 1)

VoteInv == (\A m \in Ballots : BallotOK(m)) /\ VotesOnce

\* A block that n may vote for: one it was sent or one it has just proposed.
Votable(n, b) == b.justify = highQc[n] \/ \E m \in sent : m.type = "Generic" /\ m.block = b

\* What handling a proposal does to votes and views.
LEMMA VoteEffect ==
  ASSUME NEW n \in Node, NEW v, NEW b, ReplicaHandleGeneric(n, v, b)
  PROVE  \/ UNCHANGED <<mail, view, votes>>
         \/ /\ n = Leader(view[n] + 1) /\ UNCHANGED <<mail, view>>
            /\ votes' = [votes EXCEPT ![n] = @ \cup {Vote(n, view[n], b)}]
         \/ /\ n # Leader(view[n] + 1) /\ UNCHANGED votes
            /\ view' = [view EXCEPT ![n] = @ + 1]
            /\ mail' = mail \cup {[to |-> Leader(view[n] + 1), msg |-> Vote(n, view[n], b)]}
                            \cup {[to |-> Leader(view[n] + 1),
                                   msg |-> NewviewGeneric(n, view[n], genericQc[n])]}
BY DEF ReplicaHandleGeneric, AcceptGeneric, Unicast

LEMMA VoteForm ==
  ASSUME NEW n, NEW v, NEW b, NEW qc
  PROVE  /\ Vote(n, v, b).type = "Vote" /\ Vote(n, v, b).from = n /\ Vote(n, v, b).view = v
         /\ Vote(n, v, b).block = b
         /\ NewviewGeneric(n, v, qc).type = "Newview" /\ NewviewGeneric(n, v, qc).justify = qc
BY DEF Vote, NewviewGeneric

\* Where ballots are.
LEMMA BallotPlaces ==
  /\ \A m : m \in Ballots <=> /\ m.type = "Vote"
                              /\ (\E u \in mail : u.msg = m) \/ (\E n \in Node : m \in votes[n])
  /\ \A m : m \in Ballots' <=> /\ m.type = "Vote"
                               /\ (\E u \in mail' : u.msg = m) \/ (\E n \in Node : m \in votes'[n])
BY DEF Ballots

\* A handled proposal adds at most the vote for it, and a node that has voted without being the
\* next leader is in the next view.
HandledVote(n, b) ==
  \/ Ballots' = Ballots
  \/ /\ Ballots' = Ballots \cup {Vote(n, view[n], b)}
     /\ view'[n] = view[n] + 1 \/ n = Leader(view[n] + 1)

LEMMA HandledEffect ==
  ASSUME Shape, NEW n \in Node, NEW v, NEW b, ReplicaHandleGeneric(n, v, b)
  PROVE  /\ HandledVote(n, b)
         /\ view' \in [Node -> Nat] /\ \A q \in Node : view'[q] >= view[q]
         /\ DOMAIN votes' = Node /\ \A q \in Node : \A m \in votes'[q] : m.type = "Vote"
<1> DEFINE x == Vote(n, view[n], b)
           w == NewviewGeneric(n, view[n], genericQc[n])
           l == Leader(view[n] + 1)
<1>x. x.type = "Vote" /\ w.type = "Newview" BY VoteForm
<1>1. \/ UNCHANGED <<mail, view, votes>>
      \/ /\ n = l /\ UNCHANGED <<mail, view>>
         /\ votes' = [votes EXCEPT ![n] = @ \cup {x}]
      \/ /\ n # l /\ UNCHANGED votes
         /\ view' = [view EXCEPT ![n] = @ + 1]
         /\ mail' = mail \cup {[to |-> l, msg |-> x]} \cup {[to |-> l, msg |-> w]}
  BY VoteEffect
<1>h. HandledVote(n, b) <=> \/ Ballots' = Ballots
                            \/ /\ Ballots' = Ballots \cup {x}
                               /\ view'[n] = view[n] + 1 \/ n = l
  BY DEF HandledVote
<1> HIDE DEF x, w, l
<1>2. CASE UNCHANGED <<mail, view, votes>>
  <2>1. Ballots' = Ballots BY <1>2 DEF Ballots
  <2> QED BY <1>2, <1>h, <2>1 DEF Shape
<1>3. CASE n = l /\ UNCHANGED <<mail, view>> /\ votes' = [votes EXCEPT ![n] = @ \cup {x}]
  <2>1. \A q \in Node : votes'[q] = IF q = n THEN votes[q] \cup {x} ELSE votes[q]
    BY <1>3 DEF Shape
  <2>a. \A m : (\E q \in Node : m \in votes'[q]) <=> (\E q \in Node : m \in votes[q]) \/ m = x
    BY <2>1
  <2>2. \A m : m \in Ballots' <=> m \in Ballots \cup {x}
    BY <1>3, <1>x, <2>a, BallotPlaces
  <2>3. Ballots' = Ballots \cup {x} BY <2>2
  <2> QED BY <1>3, <1>h, <1>x, <2>1, <2>3 DEF Shape
<1>4. CASE /\ n # l /\ UNCHANGED votes
           /\ view' = [view EXCEPT ![n] = @ + 1]
           /\ mail' = mail \cup {[to |-> l, msg |-> x]} \cup {[to |-> l, msg |-> w]}
  <2> DEFINE ux == [to |-> l, msg |-> x]
             uw == [to |-> l, msg |-> w]
  <2>a. ux.msg = x /\ uw.msg = w /\ mail' = mail \cup {ux} \cup {uw} BY <1>4
  <2> HIDE DEF ux, uw
  <2>1. \A m : (\E u \in mail' : u.msg = m) <=> (\E u \in mail : u.msg = m) \/ m = x \/ m = w
    BY <2>a
  <2>2. \A m : m \in Ballots' <=> m \in Ballots \cup {x}
    BY <1>4, <1>x, <2>1, BallotPlaces
  <2>3. Ballots' = Ballots \cup {x} BY <2>2
  <2>4. view' \in [Node -> Nat] /\ view'[n] = view[n] + 1 /\ \A q \in Node : view'[q] >= view[q]
    BY <1>4 DEF Shape
  <2> QED BY <1>4, <1>h, <2>3, <2>4 DEF Shape
<1> QED BY <1>1, <1>2, <1>3, <1>4

LEMMA AdoptShape ==
  ASSUME Shape, NEW n \in Node, NEW v, NEW b, ReplicaHandleGeneric(n, v, b)
  PROVE  /\ DOMAIN genericQc' = Node /\ DOMAIN lockedQc' = Node /\ DOMAIN endData' = Node
BY DEF ReplicaHandleGeneric, AcceptGeneric, AdoptChain, Shape

\* Every step keeps the votes that were cast and adds at most one.
VoteStep ==
  /\ \A q \in Node : view'[q] >= view[q]
  /\ Ballots' = Ballots \/ \E n \in Node : \E b : Votable(n, b) /\ HandledVote(n, b)

LEMMA BallotStep == ASSUME Shape, [Next]_vars PROVE Shape' /\ VoteStep
<1>s. Starter \in Node BY NodeAssumption
<1>1. CASE ExtraInitialStart
  <2>1. /\ UNCHANGED <<votes, qcVars, newviews, endData>> /\ EnterFirstView(Starter)
        /\ mail' = mail \cup UNION {Unicast(Starter, n, [type |-> "TBLSKey"]) : n \in Node}
    BY <1>1 DEF ExtraInitialStart, DistributeKeys
  <2>2. \A u \in mail' : u \in mail \/ u.msg.type = "TBLSKey" BY <2>1 DEF Unicast
  <2>3. mail \subseteq mail' BY <2>1
  <2>4. \A m : m \in Ballots' <=> m \in Ballots BY <2>1, <2>2, <2>3, BallotPlaces
  <2>5. Ballots' = Ballots BY <2>4
  <2>6. view' \in [Node -> Nat] /\ \A q \in Node : view'[q] >= view[q]
    BY <1>s, <2>1 DEF EnterFirstView, Shape
  <2> QED BY <2>1, <2>5, <2>6 DEF Shape, VoteStep
<1>2. ASSUME NEW n \in Node, StartConsensus(n) PROVE Shape' /\ VoteStep
  <2>1. PICK cmd \in Untaken(n) : ReplicaHandleGeneric(n, view[n], Block(cmd, highQc[n]))
    BY <1>2 DEF StartConsensus
  <2> DEFINE b == Block(cmd, highQc[n])
  <2>2. Votable(n, b) BY DEF Votable, Block
  <2> HIDE DEF b
  <2>3. ReplicaHandleGeneric(n, view[n], b) BY <2>1 DEF b
  <2>4. UNCHANGED <<highQc, newviews>> BY <1>2 DEF StartConsensus
  <2>5. /\ HandledVote(n, b) /\ view' \in [Node -> Nat] /\ \A q \in Node : view'[q] >= view[q]
        /\ DOMAIN votes' = Node /\ \A q \in Node : \A m \in votes'[q] : m.type = "Vote"
    BY <2>3, HandledEffect
  <2>6. DOMAIN genericQc' = Node /\ DOMAIN lockedQc' = Node /\ DOMAIN endData' = Node
    BY <2>3, AdoptShape
  <2> QED BY <2>2, <2>4, <2>5, <2>6 DEF Shape, VoteStep
<1>3. ASSUME NEW n \in Node, NEW m \in sent, HandleGeneric(n, m) PROVE Shape' /\ VoteStep
  <2>1. ReplicaHandleGeneric(n, m.view, m.block) /\ m.type = "Generic" /\ UNCHANGED <<highQc, newviews>>
    BY <1>3 DEF HandleGeneric, CanReceive
  <2>2. Votable(n, m.block) BY <2>1 DEF Votable
  <2>5. /\ HandledVote(n, m.block) /\ view' \in [Node -> Nat] /\ \A q \in Node : view'[q] >= view[q]
        /\ DOMAIN votes' = Node /\ \A q \in Node : \A x \in votes'[q] : x.type = "Vote"
    BY <2>1, HandledEffect
  <2>6. DOMAIN genericQc' = Node /\ DOMAIN lockedQc' = Node /\ DOMAIN endData' = Node
    BY <2>1, AdoptShape
  <2> QED BY <2>1, <2>2, <2>5, <2>6 DEF Shape, VoteStep
<1>4. ASSUME NEW n \in Node, NEW m \in sent, StorageConsensusNodePk(n, m) PROVE Shape' /\ VoteStep
  <2>1. UNCHANGED <<mail, votes, qcVars, newviews, endData>> /\ EnterFirstView(n)
    BY <1>4 DEF StorageConsensusNodePk
  <2>2. Ballots' = Ballots BY <2>1 DEF Ballots
  <2>3. view' \in [Node -> Nat] /\ \A q \in Node : view'[q] >= view[q]
    BY <2>1 DEF EnterFirstView, Shape
  <2> QED BY <2>1, <2>2, <2>3 DEF Shape, VoteStep
<1>5. ASSUME NEW n \in Node, NEW u \in mail, StorageTblsKey(n, u) PROVE Shape' /\ VoteStep
  <2>1. /\ mail' = mail \ {u} /\ u.msg.type = "TBLSKey"
        /\ UNCHANGED <<view, votes, qcVars, newviews, endData>>
    BY <1>5 DEF StorageTblsKey, CanOpen
  <2>2. \A m : m \in Ballots' <=> m \in Ballots BY <2>1, BallotPlaces
  <2>3. Ballots' = Ballots BY <2>2
  <2> QED BY <2>1, <2>3 DEF Shape, VoteStep
<1>6. ASSUME NEW n \in Node, NEW u \in mail, HandleVote(n, u) PROVE Shape' /\ VoteStep
  <2>1. /\ mail' = mail \ {u} /\ u.msg.type = "Vote" /\ RecordVote(n, u.msg)
        /\ UNCHANGED <<view, highQc, lockedQc, newviews, endData>>
    BY <1>6 DEF HandleVote, CanOpen
  <2>2. \A q \in Node : votes'[q] = IF q = n THEN votes[q] \cup {u.msg} ELSE votes[q]
    BY <2>1 DEF RecordVote, Shape
  <2>3. \A m : (\E q \in Node : m \in votes'[q]) <=> (\E q \in Node : m \in votes[q]) \/ m = u.msg
    BY <2>2
  <2>4. \A m : m \in Ballots' <=> m \in Ballots BY <2>1, <2>3, BallotPlaces
  <2>5. Ballots' = Ballots BY <2>4
  <2>6. DOMAIN genericQc' = Node BY <1>6 DEF HandleVote, Shape
  <2>7. DOMAIN votes' = Node BY <2>1 DEF RecordVote, Shape
  <2> QED BY <2>1, <2>2, <2>5, <2>6, <2>7 DEF Shape, VoteStep
<1>7. ASSUME NEW n \in Node, NEW u \in mail, HandleNewviewGeneric(n, u) PROVE Shape' /\ VoteStep
  <2>1. /\ mail' = mail \ {u} /\ u.msg.type = "Newview"
        /\ UNCHANGED <<votes, lockedQc, endData>>
    BY <1>7 DEF HandleNewviewGeneric, CanOpen
  <2>2. \A m : m \in Ballots' <=> m \in Ballots BY <2>1, BallotPlaces
  <2>3. Ballots' = Ballots BY <2>2
  <2>4. view' = view \/ view' = [view EXCEPT ![n] = @ + 1] BY <1>7 DEF HandleNewviewGeneric
  <2>5. view' \in [Node -> Nat] /\ \A q \in Node : view'[q] >= view[q] BY <2>4 DEF Shape
  <2>6. DOMAIN highQc' = Node /\ DOMAIN genericQc' = Node /\ DOMAIN newviews' = Node
    BY <1>7 DEF HandleNewviewGeneric, Shape
  <2> QED BY <2>1, <2>3, <2>5, <2>6 DEF Shape, VoteStep
<1>8. CASE MakeConsensusRequests \/ UNCHANGED vars
  <2>1. UNCHANGED <<mail, view, votes, qcVars, newviews, endData>>
    BY <1>8 DEF MakeConsensusRequests, vars
  <2>2. Ballots' = Ballots BY <2>1 DEF Ballots
  <2> QED BY <2>1, <2>2 DEF Shape, VoteStep
<1> QED BY <1>1, <1>2, <1>3, <1>4, <1>5, <1>6, <1>7, <1>8 DEF Next, Deliver, Open

LEMMA ShapeInit == ASSUME Init PROVE Shape /\ Ballots = {}
BY DEF Init, Shape, Ballots

LEMMA VoteInvStep == ASSUME Shape, Shape', VoteInv, VoteStep PROVE VoteInv'
<1>v. \A q \in Node : view[q] \in Nat /\ view'[q] \in Nat /\ view'[q] >= view[q] BY DEF Shape, VoteStep
<1>k. \A m : BallotOK(m) => BallotOK(m)'
  BY <1>v DEF BallotOK, Leader
<1>1. CASE Ballots' = Ballots
  BY <1>1, <1>k DEF VoteInv, VotesOnce
<1>2. ASSUME NEW n \in Node, NEW b, Ballots' # Ballots, HandledVote(n, b) PROVE VoteInv'
  <2>x. PICK x : x = Vote(n, view[n], b) OBVIOUS
  <2>1. Ballots' = Ballots \cup {x} /\ (view'[n] = view[n] + 1 \/ n = Leader(view[n] + 1))
    BY <1>2, <2>x DEF HandledVote
  <2>2. x.from = n /\ x.view = view[n] /\ x.block = b /\ x = Vote(x.from, x.view, x.block)
    BY <2>x, VoteForm
  <2>3. BallotOK(x)' BY <1>v, <2>1, <2>2 DEF BallotOK
  <2>4. \A m \in Ballots : BallotOK(m) BY DEF VoteInv
  <2>5. \A a \in Ballots : a.from = n /\ a.view = view[n] => a.from = Leader(a.view + 1)
    BY <2>4 DEF BallotOK
  <2>6. VotesOnce'
    <3> SUFFICES ASSUME NEW a \in Ballots', NEW c \in Ballots', a.from = c.from, a.view = c.view,
                        a.block # c.block
                 PROVE  a.from = Leader(a.view + 1)
      BY DEF VotesOnce, Leader
    <3>1. CASE a \in Ballots /\ c \in Ballots BY <3>1 DEF VoteInv, VotesOnce
    <3>2. CASE a = x /\ c \in Ballots BY <2>2, <2>5, <3>2
    <3>3. CASE c = x /\ a \in Ballots BY <2>2, <2>5, <3>3
    <3> QED BY <2>1, <3>1, <3>2, <3>3
  <2> QED BY <1>k, <2>1, <2>3, <2>4, <2>6 DEF VoteInv
<1> QED BY <1>1, <1>2 DEF VoteStep

\* The rule against voting twice in a view is nowhere in the code: it follows from next_view after
\* each vote.  Whatever arrives when, only the next leader, who stays, votes for two blocks of a view.
THEOREM VotesOnceAlways == Spec => []VotesOnce
<1>1. Init => Shape /\ VoteInv BY ShapeInit DEF VoteInv, VotesOnce
<1>2. Shape /\ VoteInv /\ [Next]_vars => (Shape /\ VoteInv)' BY BallotStep, VoteInvStep
<1>3. VoteInv => VotesOnce BY DEF VoteInv
<1> QED BY <1>1, <1>2, <1>3, PTL DEF Spec

-----------------------------------------------------------------------------
(* Certificates.                                                            *)

Voters(v, b) == {q \in Node : Vote(q, v, b) \in Ballots}

\* 2f + 1 nodes have voted for what a certificate certifies.
QcOK(qc) == qc # NoQC => /\ qc = QC(qc.view, qc.block)
                         /\ Cardinality(Voters(qc.view, qc.block)) >= Threshold

\* The certificates a node keeps.
Held == \A n \in Node : /\ QcOK(highQc[n]) /\ QcOK(genericQc[n]) /\ QcOK(lockedQc[n])
                        /\ \A d \in endData[n] : QcOK(d)

\* The certificates that proposals and reports carry, and those under the blocks voted for.
Carried ==
  /\ \A m \in sent : m.type = "Generic" => QcOK(m.block.justify)
  /\ \A u \in mail : u.msg.type = "Newview" => QcOK(u.msg.justify)
  /\ \A n \in Node : \A m \in newviews[n] : QcOK(m.justify)
  /\ \A m \in Ballots : QcOK(m.block.justify)

CertInv == Held /\ Carried

LEMMA NodesFinite ==
  ASSUME NEW S \in SUBSET Node
  PROVE  IsFiniteSet(S) /\ Cardinality(S) \in Nat /\ Cardinality(S) <= N
<1>1. N \in Nat /\ 0 \in Int /\ N - 1 \in Int BY NodeAssumption
<1>2. IsFiniteSet(0 .. N - 1) /\ Cardinality(0 .. N - 1) = N BY <1>1, FS_Interval
<1> QED BY <1>2, FS_Subset, FS_CardinalityType DEF Node

LEMMA ThresholdType == Threshold \in Nat /\ Threshold > 0
BY FaultAssumption DEF Threshold

\* Votes are never withdrawn, so a certificate stays one.
LEMMA QcKept ==
  ASSUME Ballots \subseteq Ballots'
  PROVE  \A qc : QcOK(qc) => QcOK(qc)'
<1> SUFFICES ASSUME NEW qc, QcOK(qc), qc # NoQC PROVE QcOK(qc)' BY DEF QcOK
<1> DEFINE V == Voters(qc.view, qc.block)
           W == Voters(qc.view, qc.block)'
<1>1. V \subseteq W BY DEF Voters
<1>2. V \in SUBSET Node /\ W \in SUBSET Node BY DEF Voters
<1>3. qc = QC(qc.view, qc.block) /\ Cardinality(V) >= Threshold BY DEF QcOK
<1>q. QcOK(qc)' <=> qc = QC(qc.view, qc.block) /\ Cardinality(W) >= Threshold
  BY DEF QcOK, QC, Threshold
<1> HIDE DEF V, W
<1>4. IsFiniteSet(W) /\ Cardinality(V) \in Nat /\ Cardinality(W) \in Nat BY <1>2, NodesFinite
<1>5. Cardinality(V) <= Cardinality(W) BY <1>1, <1>4, FS_Subset
<1> QED BY <1>3, <1>4, <1>5, <1>q, ThresholdType

\* What is certified was voted for, so that what it rests on is certified too.
LEMMA JustifyOK ==
  ASSUME \A m \in Ballots : QcOK(m.block.justify), NEW qc, QcOK(qc)
  PROVE  QcOK(Justify(qc))
<1>1. CASE qc = NoQC BY <1>1 DEF Justify, QcOK
<1>2. CASE qc # NoQC
  <2> DEFINE V == Voters(qc.view, qc.block)
  <2>1. Cardinality(V) >= Threshold BY <1>2 DEF QcOK
  <2>2. V # {}
    <3>1. Cardinality({}) = 0 BY FS_EmptySet
    <3> QED BY <2>1, <3>1, ThresholdType
  <2>3. PICK q \in Node : Vote(q, qc.view, qc.block) \in Ballots BY <2>2 DEF Voters
  <2>4. QcOK(qc.block.justify) BY <2>3, VoteForm
  <2> QED BY <1>2, <2>4 DEF Justify
<1> QED BY <1>1, <1>2

\* What the chain rules keep of an accepted block.
LEMMA Adopted ==
  ASSUME Shape, NEW n \in Node, NEW v, NEW b, ReplicaHandleGeneric(n, v, b)
  PROVE  /\ \A q \in Node \ {n} : genericQc'[q] = genericQc[q] /\ lockedQc'[q] = lockedQc[q]
                                  /\ endData'[q] = endData[q]
         /\ genericQc'[n] \in {genericQc[n], b.justify}
         /\ lockedQc'[n] \in {lockedQc[n], Justify(b.justify)}
         /\ endData'[n] \subseteq endData[n] \cup ({Justify(Justify(b.justify))} \ {NoQC})
BY DEF ReplicaHandleGeneric, AcceptGeneric, AdoptChain, Shape

LEMMA HeldAfterProposal ==
  ASSUME Shape, CertInv, NEW n \in Node, NEW v, NEW b, ReplicaHandleGeneric(n, v, b),
         QcOK(b.justify), UNCHANGED highQc, \A qc : QcOK(qc) => QcOK(qc)'
  PROVE  Held'
<1>1. QcOK(Justify(b.justify)) BY JustifyOK DEF CertInv, Carried
<1>2. QcOK(Justify(Justify(b.justify))) BY <1>1, JustifyOK DEF CertInv, Carried
<1>3. \A q \in Node : /\ QcOK(highQc[q]) /\ QcOK(genericQc'[q]) /\ QcOK(lockedQc'[q])
                      /\ \A d \in endData'[q] : QcOK(d)
  BY <1>1, <1>2, Adopted DEF CertInv, Held
<1> QED BY <1>3 DEF Held

\* Reports carry the generic_qc of their sender.
LEMMA ReportsAfterProposal ==
  ASSUME CertInv, NEW n \in Node, NEW v, NEW b, ReplicaHandleGeneric(n, v, b)
  PROVE  \A u \in mail' : u.msg.type = "Newview" => QcOK(u.msg.justify)
<1> DEFINE x == Vote(n, view[n], b)
           w == NewviewGeneric(n, view[n], genericQc[n])
           l == Leader(view[n] + 1)
           ux == [to |-> l, msg |-> x]
           uw == [to |-> l, msg |-> w]
<1>1. mail' = mail \/ mail' = mail \cup {ux} \cup {uw} BY VoteEffect
<1>2. x.type = "Vote" /\ w.justify = genericQc[n] BY VoteForm
<1>3. ux.msg = x /\ uw.msg = w OBVIOUS
<1> HIDE DEF ux, uw, x, w, l
<1>4. QcOK(w.justify) BY <1>2 DEF CertInv, Held
<1>5. \A u \in mail : u.msg.type = "Newview" => QcOK(u.msg.justify) BY DEF CertInv, Carried
<1> QED BY <1>1, <1>2, <1>3, <1>4, <1>5

LEMMA CertInvStep == ASSUME Shape, Shape', VoteInv, VoteInv', VoteStep, CertInv, [Next]_vars PROVE CertInv'
<1>b. Ballots \subseteq Ballots' BY DEF VoteStep, HandledVote
<1>k. \A qc : QcOK(qc) => QcOK(qc)' BY <1>b, QcKept
<1>h. Held /\ Carried BY DEF CertInv
<1>v. \A n \in Node : \A b : Votable(n, b) => QcOK(b.justify) BY <1>h DEF Votable, Held, Carried
<1>m. \A m \in Ballots' : QcOK(m.block.justify)'
  <2>1. \A m \in Ballots' : QcOK(m.block.justify)
    <3>1. CASE Ballots' = Ballots BY <1>h, <3>1 DEF Carried
    <3>2. ASSUME NEW n \in Node, NEW b, Votable(n, b), HandledVote(n, b)
          PROVE  \A m \in Ballots' : QcOK(m.block.justify)
      <4>1. QcOK(b.justify) BY <1>v, <3>2
      <4>2. Vote(n, view[n], b).block = b BY VoteForm
      <4> QED BY <1>h, <3>2, <4>1, <4>2 DEF Carried, HandledVote
    <3> QED BY <3>1, <3>2 DEF VoteStep
  <2> QED BY <1>k, <2>1
\* It is enough that what there is afterwards was certified before.
<1>s. \A m \in sent : m.type = "Generic" => QcOK(m.block.justify)' BY <1>h, <1>k DEF Carried
<1>n. \A n \in Node : \A m \in newviews[n] : QcOK(m.justify)' BY <1>h, <1>k DEF Carried
<1>u. \A u \in mail : u.msg.type = "Newview" => QcOK(u.msg.justify)' BY <1>h, <1>k DEF Carried
<1>q. \A n \in Node : \A qc :
        qc = highQc[n] \/ qc = genericQc[n] \/ qc = lockedQc[n] \/ qc \in endData[n] => QcOK(qc)'
  BY <1>h, <1>k DEF Held
<1>1. ASSUME NEW n \in Node, StartConsensus(n) PROVE CertInv'
  <2>1. PICK cmd \in Untaken(n) :
          /\ sent' = sent \cup {Generic(n, view[n], Block(cmd, highQc[n]))}
          /\ ReplicaHandleGeneric(n, view[n], Block(cmd, highQc[n]))
    BY <1>1 DEF StartConsensus
  <2>b. PICK b : b = Block(cmd, highQc[n]) OBVIOUS
  <2>g. PICK g : g = Generic(n, view[n], b) OBVIOUS
  <2>2. b.justify = highQc[n] /\ g.block = b BY <2>b, <2>g DEF Block, Generic
  <2>3. ReplicaHandleGeneric(n, view[n], b) /\ sent' = sent \cup {g} BY <2>1, <2>b, <2>g
  <2>4. UNCHANGED <<highQc, newviews>> BY <1>1 DEF StartConsensus
  <2>5. QcOK(b.justify) BY <1>h, <2>2 DEF Held
  <2>6. Held' BY <1>k, <2>3, <2>4, <2>5, HeldAfterProposal
  <2>7. \A u \in mail' : u.msg.type = "Newview" => QcOK(u.msg.justify)'
    BY <1>k, <2>3, ReportsAfterProposal
  <2>8. \A m \in sent' : m.type = "Generic" => QcOK(m.block.justify)'
    BY <1>k, <1>s, <2>2, <2>3, <2>5
  <2> QED BY <1>m, <1>n, <2>4, <2>6, <2>7, <2>8 DEF CertInv, Carried
<1>2. ASSUME NEW n \in Node, NEW m \in sent, HandleGeneric(n, m) PROVE CertInv'
  <2>1. /\ ReplicaHandleGeneric(n, m.view, m.block) /\ m.type = "Generic"
        /\ UNCHANGED <<sent, highQc, newviews>>
    BY <1>2 DEF HandleGeneric, CanReceive
  <2>2. QcOK(m.block.justify) BY <1>h, <2>1 DEF Carried
  <2>3. Held' BY <1>k, <2>1, <2>2, HeldAfterProposal
  <2>4. \A u \in mail' : u.msg.type = "Newview" => QcOK(u.msg.justify)'
    BY <1>k, <2>1, ReportsAfterProposal
  <2> QED BY <1>m, <1>n, <1>s, <2>1, <2>3, <2>4 DEF CertInv, Carried
<1>3. ASSUME NEW n \in Node, NEW u \in mail, HandleVote(n, u) PROVE CertInv'
  <2>1. /\ mail' = mail \ {u} /\ u.msg.type = "Vote"
        /\ UNCHANGED <<sent, highQc, lockedQc, newviews, endData>>
    BY <1>3 DEF HandleVote, CanOpen
  <2> DEFINE c == u.msg.view
             b == u.msg.block
             B == {m \in votes'[n] : m.view = c /\ m.block = b}
  <2>2. \A m \in B : m \in Ballots' /\ BallotOK(m)' /\ m.view = c /\ m.block = b
    <3>1. \A m \in B : m.type = "Vote" BY DEF Shape
    <3>2. \A m \in B : m \in Ballots' BY <3>1, BallotPlaces
    <3> QED BY <3>2 DEF VoteInv
  <2>3. genericQc' = genericQc \/ (Cardinality(B) = Threshold /\ genericQc' = [genericQc EXCEPT ![n] = QC(c, b)])
    BY <1>3 DEF HandleVote
  <2>4. ASSUME Cardinality(B) = Threshold PROVE QcOK(QC(c, b))'
    <3>1. PICK c0, b0 : c0 = c /\ b0 = b OBVIOUS
    <3> HIDE DEF c, b
    <3>2. PICK C : C = B OBVIOUS
    <3> HIDE DEF B
    <3>3. \A m \in C : m \in Ballots' /\ BallotOK(m)' /\ m.view = c0 /\ m.block = b0 BY <2>2, <3>1, <3>2
    <3>4. Cardinality(C) = Threshold BY <2>4, <3>2
    <3>5. Cardinality(Voters(c0, b0)') >= Threshold
      <4> DEFINE V == Voters(c0, b0)'
                 f == [m \in C |-> m.from]
      <4>1. \A m \in C : m = Vote(m.from, c0, b0) /\ m.from \in Node BY <3>3 DEF BallotOK, Vote
      <4>2. \A m \in C : m.from \in V BY <3>3, <4>1 DEF Voters, Vote
      <4>3. V \in SUBSET Node BY DEF Voters
      <4> HIDE DEF V
      <4>4. f \in [C -> V] BY <4>2
      <4>5. ASSUME NEW a \in C, NEW d \in C, f[a] = f[d] PROVE a = d BY <4>1, <4>5
      <4>6. f \in Injection(C, V) BY <4>4, <4>5 DEF Injection, IsInjective
      <4> HIDE DEF f
      <4>7. IsFiniteSet(V) /\ Cardinality(V) \in Nat BY <4>3, NodesFinite
      <4>8. Cardinality(C) <= Cardinality(V) BY <4>6, <4>7, FS_Injection
      <4>9. Cardinality(V) >= Threshold BY <3>4, <4>7, <4>8, ThresholdType
      <4> QED BY <4>9 DEF V
    <3>6. QC(c0, b0).view = c0 /\ QC(c0, b0).block = b0 BY DEF QC
    <3>7. QcOK(QC(c0, b0))' BY <3>5, <3>6 DEF QcOK, QC, Threshold
    <3> QED BY <3>1, <3>7
  <2>5. Held'
    <3>1. \A q \in Node : \A qc : qc = genericQc'[q] => QcOK(qc)'
      <4>1. CASE genericQc' = genericQc BY <1>q, <4>1
      <4>2. CASE Cardinality(B) = Threshold /\ genericQc' = [genericQc EXCEPT ![n] = QC(c, b)]
        <5>1. \A q \in Node : genericQc'[q] = IF q = n THEN QC(c, b) ELSE genericQc[q]
          BY <4>2 DEF Shape
        <5> QED BY <1>q, <2>4, <4>2, <5>1
      <4> QED BY <2>3, <4>1, <4>2
    <3> QED BY <1>q, <2>1, <3>1 DEF Held
  <2> QED BY <1>m, <1>n, <1>s, <1>u, <2>1, <2>5 DEF CertInv, Carried
<1>4. ASSUME NEW n \in Node, NEW u \in mail, HandleNewviewGeneric(n, u) PROVE CertInv'
  <2>1. /\ mail' = mail \ {u} /\ u.msg.type = "Newview"
        /\ newviews' = [newviews EXCEPT ![n] = @ \cup {u.msg}]
        /\ UNCHANGED <<sent, lockedQc, endData>>
    BY <1>4 DEF HandleNewviewGeneric, CanOpen
  <2>2. \A q \in Node : \A m \in newviews'[q] : QcOK(m.justify)
    <3>1. \A q \in Node : newviews'[q] = IF q = n THEN newviews[q] \cup {u.msg} ELSE newviews[q]
      BY <2>1 DEF Shape
    <3>2. QcOK(u.msg.justify) BY <1>h, <2>1 DEF Carried
    <3> QED BY <1>h, <3>1, <3>2 DEF Carried
  <2>3. \A nvs : nvs \subseteq newviews'[n] => \A qc \in HighQcs(n, nvs) : QcOK(qc)
    <3> SUFFICES ASSUME NEW nvs, nvs \subseteq newviews'[n], NEW qc \in HighQcs(n, nvs), qc # NoQC
                 PROVE  QcOK(qc)
      BY DEF QcOK
    <3>1. qc = genericQc[n] \/ \E m \in nvs : qc = m.justify BY DEF HighQcs
    <3> QED BY <1>h, <2>2, <3>1 DEF Held
  <2>4. \/ UNCHANGED <<highQc, genericQc>>
        \/ \E qc : /\ QcOK(qc)
                   /\ highQc' = [highQc EXCEPT ![n] = qc]
                   /\ genericQc' = [genericQc EXCEPT ![n] = qc]
    BY <1>4, <2>3 DEF HandleNewviewGeneric
  <2>5. \A q \in Node : QcOK(highQc'[q]) /\ QcOK(genericQc'[q])
    BY <1>h, <2>4 DEF Held, Shape
  <2>6. Held' BY <1>k, <1>q, <2>1, <2>5 DEF Held
  <2>7. \A q \in Node : \A m \in newviews'[q] : QcOK(m.justify)' BY <1>k, <2>2
  <2> QED BY <1>m, <1>s, <1>u, <2>1, <2>6, <2>7 DEF CertInv, Carried
<1>5. ASSUME UNCHANGED <<qcVars, newviews, endData>>,
             \A m \in sent' : m \in sent \/ m.type # "Generic",
             \A u \in mail' : u \in mail \/ u.msg.type # "Newview"
      PROVE  CertInv'
  <2>1. Held' BY <1>5, <1>q DEF Held
  <2> QED BY <1>5, <1>m, <1>n, <1>s, <1>u, <2>1 DEF CertInv, Carried
<1>6. CASE ExtraInitialStart
  <2> DEFINE pks == [type |-> "ConsensusNodePKsInfo", from |-> Starter]
  <2>1. /\ UNCHANGED <<qcVars, newviews, endData>> /\ sent' = sent \cup {pks}
        /\ mail' = mail \cup UNION {Unicast(Starter, n, [type |-> "TBLSKey"]) : n \in Node}
    BY <1>6 DEF ExtraInitialStart, DistributeKeys
  <2>2. pks.type # "Generic" OBVIOUS
  <2> HIDE DEF pks
  <2>3. \A u \in mail' : u \in mail \/ u.msg.type = "TBLSKey" BY <2>1 DEF Unicast
  <2> QED BY <1>5, <2>1, <2>2, <2>3
<1>7. CASE \/ MakeConsensusRequests \/ UNCHANGED vars
           \/ \E n \in Node, m \in sent : StorageConsensusNodePk(n, m)
           \/ \E n \in Node, u \in mail : StorageTblsKey(n, u)
  <2>1. UNCHANGED <<sent, qcVars, newviews, endData>> /\ mail' \subseteq mail
    BY <1>7 DEF MakeConsensusRequests, vars, StorageConsensusNodePk, StorageTblsKey
  <2> QED BY <1>5, <2>1
<1> QED BY <1>1, <1>2, <1>3, <1>4, <1>6, <1>7 DEF Next, Deliver, Open

LEMMA CertInvInit == ASSUME Init PROVE Shape /\ VoteInv /\ CertInv
<1>1. Shape /\ Ballots = {} BY ShapeInit
<1>2. VoteInv BY <1>1 DEF VoteInv, VotesOnce
<1>3. Held BY DEF Init, Held, QcOK
<1>4. Carried BY <1>1 DEF Init, Carried
<1> QED BY <1>1, <1>2, <1>3, <1>4 DEF CertInv

\* Two quorums have a node in common that does not lead the next view.
LEMMA QuorumsMeet ==
  ASSUME N <= 4 * FaultTolerance, NEW A \in SUBSET Node, NEW B \in SUBSET Node, NEW l,
         Cardinality(A) >= Threshold, Cardinality(B) >= Threshold
  PROVE  \E q \in A \cap B : q # l
<1> SUFFICES ASSUME A \cap B \subseteq {l} PROVE FALSE OBVIOUS
<1>1. /\ IsFiniteSet(A) /\ Cardinality(A) \in Nat /\ IsFiniteSet(B) /\ Cardinality(B) \in Nat
  BY NodesFinite
<1>2. Cardinality(A \cup B) \in Nat /\ Cardinality(A \cup B) <= N
  <2>1. A \cup B \in SUBSET Node OBVIOUS
  <2> QED BY <2>1, NodesFinite
<1>3. IsFiniteSet({l}) /\ Cardinality({l}) = 1 BY FS_Singleton
<1>4. Cardinality(A \cap B) <= 1 /\ Cardinality(A \cap B) \in Nat
  BY <1>3, FS_Subset, FS_CardinalityType
<1>5. Cardinality(A \cup B) = Cardinality(A) + Cardinality(B) - Cardinality(A \cap B)
  BY <1>1, FS_Union
<1> QED BY <1>1, <1>2, <1>4, <1>5, NodeAssumption, FaultAssumption DEF Threshold

\* A view has one certificate at most, up to 4f nodes (the code has 4 and f = 1): of the two nodes or
\* more that voted for both of two certified blocks, one is not the next leader, and VotesOnce forbids
\* it.  Nothing is asked of who proposes, or of what proposals rest on.
THEOREM OneCertificateAlways ==
  ASSUME N <= 4 * FaultTolerance
  PROVE  Spec => []OneCertificate
<1>1. Init => Shape /\ VoteInv /\ CertInv BY CertInvInit
<1>2. Shape /\ VoteInv /\ CertInv /\ [Next]_vars => (Shape /\ VoteInv /\ CertInv)'
  BY BallotStep, VoteInvStep, CertInvStep
<1>3. VoteInv /\ CertInv => OneCertificate
  <2> SUFFICES ASSUME VoteInv, CertInv, NEW a \in Certificates, NEW b \in Certificates, a.view = b.view
               PROVE  a = b
    BY DEF OneCertificate
  <2>c. ASSUME NEW c \in Certificates PROVE QcOK(c) /\ c # NoQC
    <3>1. PICK n \in Node : c \in {highQc[n], genericQc[n], lockedQc[n]} \cup endData[n]
      BY DEF Certificates
    <3>2. c # NoQC BY DEF Certificates
    <3> QED BY <3>1, <3>2 DEF CertInv, Held
  <2>1. QcOK(a) /\ QcOK(b) /\ a # NoQC /\ b # NoQC BY <2>c
  <2>2. a = QC(a.view, a.block) /\ b = QC(b.view, b.block) BY <2>1 DEF QcOK
  <2>3. a.block = b.block
    <3> SUFFICES ASSUME a.block # b.block PROVE FALSE OBVIOUS
    <3> DEFINE A == Voters(a.view, a.block)
               B == Voters(b.view, b.block)
               l == Leader(a.view + 1)
    <3>1. A \in SUBSET Node /\ B \in SUBSET Node BY DEF Voters
    <3>2. Cardinality(A) >= Threshold /\ Cardinality(B) >= Threshold BY <2>1 DEF QcOK
    <3>3. PICK q \in A \cap B : q # l
      <4> HIDE DEF A, B, l
      <4> QED BY <3>1, <3>2, QuorumsMeet
    <3>4. PICK x \in Ballots : x = Vote(q, a.view, a.block) BY <3>3 DEF Voters
    <3>5. PICK y \in Ballots : y = Vote(q, b.view, b.block) BY <3>3 DEF Voters
    <3>6. x.from = q /\ x.view = a.view /\ x.block = a.block /\ y.from = q /\ y.view = a.view /\ y.block = b.block
      BY <3>4, <3>5, VoteForm
    <3> QED BY <3>3, <3>6 DEF VoteInv, VotesOnce
  <2> QED BY <2>2, <2>3
<1> QED BY <1>1, <1>2, <1>3, PTL DEF Spec

-----------------------------------------------------------------------------
(* Decisions.                                                               *)

\* The nodes that were locked on d when they voted.
Lockers(d) == {m.from : m \in {x \in Ballots : Justify(x.block.justify) = d}}

Decided(d) == Cardinality(Lockers(d)) >= Threshold

LEMMA LockersFinite ==
  ASSUME VoteInv, VoteInv', Ballots \subseteq Ballots', NEW d, NEW S, S \subseteq Lockers(d), Cardinality(S) >= Threshold
  PROVE  Decided(d)'
<1> DEFINE W == Lockers(d)'
<1>1. S \subseteq W BY DEF Lockers
<1>2. W \in SUBSET Node BY DEF Lockers, VoteInv, BallotOK
<1> HIDE DEF W
<1>3. IsFiniteSet(W) /\ Cardinality(W) \in Nat BY <1>2, NodesFinite
<1>4. Cardinality(S) <= Cardinality(W) /\ Cardinality(S) \in Nat BY <1>1, <1>3, FS_Subset, FS_CardinalityType
<1>5. Cardinality(W) >= Threshold BY <1>3, <1>4, ThresholdType
<1> QED BY <1>5 DEF W, Decided, Threshold

LEMMA DecisionStep ==
  ASSUME Shape, VoteInv, VoteInv', VoteStep, CertInv, DecisionLocked, [Next]_vars
  PROVE  DecisionLocked'
<1>b. Ballots \subseteq Ballots' BY DEF VoteStep, HandledVote
<1>1. ASSUME NEW n \in Node, NEW d \in endData[n] PROVE Decided(d)'
  <2>1. Cardinality(Lockers(d)) >= Threshold BY DEF DecisionLocked, Lockers
  <2> QED BY <1>b, <2>1, LockersFinite
<1>2. ASSUME NEW qc, QcOK(qc), Justify(Justify(qc)) # NoQC PROVE Decided(Justify(Justify(qc)))'
  <2>d. PICK d : d = Justify(Justify(qc)) OBVIOUS
  <2>1. qc # NoQC BY <1>2 DEF Justify
  <2> DEFINE S == Voters(qc.view, qc.block)
  <2>2. Cardinality(S) >= Threshold BY <1>2, <2>1 DEF QcOK
  <2>3. Justify(qc.block.justify) = d BY <2>1, <2>d DEF Justify
  <2>4. S \subseteq Lockers(d)
    <3> SUFFICES ASSUME NEW q \in S PROVE q \in Lockers(d) OBVIOUS
    <3>1. PICK x \in Ballots : x = Vote(q, qc.view, qc.block) BY DEF Voters
    <3>2. x.from = q /\ x.block = qc.block BY <3>1, VoteForm
    <3> QED BY <2>3, <3>1, <3>2 DEF Lockers
  <2> HIDE DEF S
  <2>5. Decided(d)' BY <1>b, <2>2, <2>4, LockersFinite
  <2> QED BY <2>5, <2>d
<1>3. ASSUME NEW n \in Node, NEW v, NEW b, Votable(n, b), ReplicaHandleGeneric(n, v, b)
      PROVE  \A q \in Node : \A d \in endData'[q] : Decided(d)'
  <2>1. QcOK(b.justify) BY <1>3 DEF Votable, CertInv, Held, Carried
  <2>2. \A q \in Node : \A d \in endData'[q] :
          d \in endData[q] \/ (d = Justify(Justify(b.justify)) /\ d # NoQC)
    BY <1>3, Adopted
  <2>3. \A d : d = Justify(Justify(b.justify)) /\ d # NoQC => Decided(d)' BY <1>2, <2>1
  <2> QED BY <1>1, <2>2, <2>3
<1>4. \/ UNCHANGED endData
      \/ \E n \in Node : \E v, b : Votable(n, b) /\ ReplicaHandleGeneric(n, v, b)
  <2>1. ASSUME NEW n \in Node, StartConsensus(n) PROVE \E v, b : Votable(n, b) /\ ReplicaHandleGeneric(n, v, b)
    <3>1. PICK cmd \in Untaken(n) : ReplicaHandleGeneric(n, view[n], Block(cmd, highQc[n]))
      BY <2>1 DEF StartConsensus
    <3>2. Votable(n, Block(cmd, highQc[n])) BY DEF Votable, Block
    <3> QED BY <3>1, <3>2
  <2>2. ASSUME NEW n \in Node, NEW m \in sent, HandleGeneric(n, m)
        PROVE  \E v, b : Votable(n, b) /\ ReplicaHandleGeneric(n, v, b)
    BY <2>2 DEF HandleGeneric, CanReceive, Votable
  <2> QED BY <2>1, <2>2 DEF Next, Deliver, Open, vars, ExtraInitialStart, MakeConsensusRequests,
        StorageConsensusNodePk, StorageTblsKey, HandleVote, HandleNewviewGeneric
<1>5. \A q \in Node : \A d \in endData'[q] : Decided(d)'
  <2>1. CASE UNCHANGED endData BY <1>1, <2>1
  <2> QED BY <1>3, <1>4, <2>1
<1> QED BY <1>5 DEF DecisionLocked, Decided, Lockers

\* What the three-chain rule reports as completed, 2f + 1 nodes were locked on when they voted for a
\* block: for any number of nodes, although blocks of a chain need not be of successive views and
\* their proposers need not lead them.
THEOREM DecisionLockedAlways == Spec => []DecisionLocked
<1>1. Init => Shape /\ VoteInv /\ CertInv /\ DecisionLocked
  <2>1. Init => DecisionLocked BY DEF Init, DecisionLocked
  <2> QED BY <2>1, CertInvInit
<1>2. /\ Shape /\ VoteInv /\ CertInv /\ DecisionLocked /\ [Next]_vars
      => (Shape /\ VoteInv /\ CertInv /\ DecisionLocked)'
  BY BallotStep, VoteInvStep, CertInvStep, DecisionStep
<1> QED BY <1>1, <1>2, PTL DEF Spec

=============================================================================
