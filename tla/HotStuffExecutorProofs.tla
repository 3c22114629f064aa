----------------------- MODULE HotStuffExecutorProofs -----------------------
(* Proofs, for every number of nodes, every set of requests and every f, of    *)
(* what the stand-alone Basic HotStuff keeps in every interleaving: one timer   *)
(* per node, two request buffers of one length, and certificates that implement *)
(* PhaseLadder, so that what is ended is locked by a quorum.                    *)
EXTENDS HotStuffExecutor, FiniteSetTheorems, SequenceTheorems, TLAPS

USE DEF netVars, keyVars, qcVars, logVars, bufferVars, timerVars, modeVars

\* No stop is ever stored between two steps: whoever stops a timer starts the next one
\* in the same step.
Views ==
  /\ view \in [Node -> Nat] /\ timers \in [Node -> Nat]
  /\ stopNotify \in [Node -> {FALSE}]

\* The functions that actions update are defined on the nodes.
Domains ==
  /\ DOMAIN seen = Node /\ DOMAIN outbox = Node /\ DOMAIN votes = Node
  /\ DOMAIN ended = Node /\ DOMAIN lockedQc = Node
  /\ DOMAIN buffer = Node /\ DOMAIN bufferMap = Node /\ DOMAIN writes = Node
  /\ pks \in [Node -> BOOLEAN] /\ viewTimeoutNotify \in [Node -> BOOLEAN]
  /\ Views

\* The next view is entered with more timers than before.
Enters(n, more) ==
  /\ view' = [view EXCEPT ![n] = @ + 1]
  /\ timers' = [timers EXCEPT ![n] = @ + more]
  /\ stopNotify' = stopNotify

LEMMA EnterTyped ==
  ASSUME Views, NEW n \in Node, NEW more \in {0, 1}, Enters(n, more)
  PROVE  Views'
<1>1. view' \in [Node -> Nat] BY DEF Views, Enters
<1>2. timers' \in [Node -> Nat] BY DEF Views, Enters
<1>3. stopNotify' \in [Node -> {FALSE}] BY DEF Views, Enters
<1> QED BY <1>1, <1>2, <1>3 DEF Views

\* A view is entered with one timer more, or, when the old one was to be stopped, with
\* as many as before.
LEMMA EnterWithTimer ==
  ASSUME Domains, NEW n \in Node
  PROVE  /\ EnterNextView(n, timers[n], stopNotify[n]) => Enters(n, 1)
         /\ StopAndEnterNextView(n) => Enters(n, 0)
<1>1. timers[n] \in Nat /\ ~stopNotify[n] BY DEF Domains, Views
<1>2. [stopNotify EXCEPT ![n] = FALSE] = stopNotify BY DEF Domains, Views
<1>3. ASSUME EnterNextView(n, timers[n], stopNotify[n]) PROVE Enters(n, 1)
  BY <1>1, <1>2, <1>3 DEF EnterNextView, Enters
<1>4. ASSUME StopAndEnterNextView(n) PROVE Enters(n, 0)
  <2>1. CASE timers[n] > 0
    <3>1. timers[n] - 1 + 1 = timers[n] + 0 BY <1>1
    <3> QED BY <1>1, <1>2, <1>4, <2>1, <3>1 DEF StopAndEnterNextView, EnterNextView, Enters
  <2>2. CASE ~(timers[n] > 0)
    <3>1. timers[n] = timers[n] + 0 BY <1>1
    <3> QED BY <1>1, <1>2, <1>4, <2>2, <3>1 DEF StopAndEnterNextView, EnterNextView, Enters
  <2> QED BY <2>1, <2>2
<1> QED BY <1>3, <1>4

\* The actions that enter a view.
LEMMA Entering ==
  ASSUME Domains, NEW n \in Node
  PROVE  /\ ViewTimeout(n) => Enters(n, 1)
         /\ \A m : StorageConsensusNodePk(n, m) => Enters(n, 1)
         /\ \A m : HandleDecide(n, m) => Enters(n, 0)
         /\ \A u : HandleCommitVote(n, u) =>
              IF Certifies(n, u) THEN Enters(n, 0) ELSE UNCHANGED <<view, timers, stopNotify>>
<1>1. ViewTimeout(n) => EnterNextView(n, timers[n], stopNotify[n]) BY DEF ViewTimeout
<1>2. ASSUME NEW m
      PROVE  StorageConsensusNodePk(n, m) => EnterNextView(n, timers[n], stopNotify[n])
  BY DEF StorageConsensusNodePk
<1>3. ASSUME NEW m PROVE HandleDecide(n, m) => StopAndEnterNextView(n) BY DEF HandleDecide, Decided
<1>4. ASSUME NEW u
      PROVE  HandleCommitVote(n, u) =>
               IF Certifies(n, u) THEN StopAndEnterNextView(n) ELSE UNCHANGED <<view, timers, stopNotify>>
  BY DEF HandleCommitVote, Decided
<1> QED BY <1>1, <1>2, <1>3, <1>4, EnterWithTimer

LEMMA DomainsInit == ASSUME Init PROVE Domains
BY DEF Init, Domains, Views

LEMMA DomainsStep == ASSUME Domains, [Next]_vars PROVE Domains'
<1>e. \A n \in Node : /\ ViewTimeout(n) => Enters(n, 1)
                      /\ \A m : StorageConsensusNodePk(n, m) => Enters(n, 1)
                      /\ \A m : HandleDecide(n, m) => Enters(n, 0)
                      /\ \A u : HandleCommitVote(n, u) =>
                           IF Certifies(n, u) THEN Enters(n, 0)
                           ELSE UNCHANGED <<view, timers, stopNotify>>
  BY Entering
<1>v. ASSUME NEW n \in Node, NEW more \in {0, 1}, Enters(n, more) PROVE Views'
  BY <1>v, EnterTyped DEF Domains
<1> USE DEF Domains
<1>1. CASE DistributeKey BY <1>1 DEF DistributeKey, Views
<1>2. ASSUME NEW r \in Request, CreateRequest(r) PROVE Domains' BY <1>2 DEF CreateRequest, Views
<1>3. ASSUME NEW n \in Node, ProposalStateCheck(n) PROVE Domains' BY <1>3 DEF ProposalStateCheck, Views
<1>4. ASSUME NEW n \in Node, TimerExpires(n) PROVE Domains'
  <2>1. timers' \in [Node -> Nat] BY <1>4 DEF TimerExpires, Views
  <2>2. CASE mode[n].kind \in {"Do", "Done"} BY <1>4, <2>1, <2>2 DEF TimerExpires, Views
  <2>3. CASE mode[n].kind \notin {"Do", "Done"} BY <1>4, <2>1, <2>3 DEF TimerExpires, Views
  <2> QED BY <2>2, <2>3
<1>5. ASSUME NEW n \in Node, ViewTimeout(n) PROVE Domains'
  <2>1. Enters(n, 1) BY <1>5, <1>e
  <2>2. Views' BY <2>1, <1>v
  <2> QED BY <1>5, <2>2 DEF ViewTimeout, Queue
<1>6. ASSUME NEW n \in Node, StartConsensus(n) PROVE Domains' BY <1>6 DEF StartConsensus, Queue, Views
<1>7. ASSUME NEW n \in Node, Transmit(n) PROVE Domains' BY <1>7 DEF Transmit, TakenOut, Views
<1>8. ASSUME NEW n \in Node, Panics(n) PROVE Domains' BY <1>8 DEF Panics, Views
<1>9. ASSUME NEW n \in Node, NEW w \in writes[n], TaskWrites(n, w) PROVE Domains'
  BY <1>9 DEF TaskWrites, Views
<1>10. ASSUME NEW n \in Node, NEW m \in sent, Deliver(n, m) PROVE Domains'
  <2>1. CASE StorageConsensusNodePk(n, m)
    <3>1. Enters(n, 1) BY <2>1, <1>e
    <3>2. Views' BY <3>1, <1>v
    <3> QED BY <2>1, <3>2 DEF StorageConsensusNodePk, Saw, Queue
  <2>2. CASE ReceiveRequest(n, m) BY <2>2 DEF ReceiveRequest, Saw, UpdateMode, Views
  <2>3. CASE HandlePrepare(n, m) BY <2>3 DEF HandlePrepare, Saw, Queue, Views
  <2>4. CASE HandlePrecommit(n, m) BY <2>4 DEF HandlePrecommit, Saw, Queue, Views
  <2>5. CASE HandleCommit(n, m) BY <2>5 DEF HandleCommit, Saw, Queue, Views
  <2>6. CASE HandleDecide(n, m)
    <3>1. Enters(n, 0) BY <2>6, <1>e
    <3>2. Views' BY <3>1, <1>v
    <3> QED BY <2>6, <3>2 DEF HandleDecide, Saw, Queue, Decided
  <2> QED BY <1>10, <2>1, <2>2, <2>3, <2>4, <2>5, <2>6 DEF Deliver
<1>11. ASSUME NEW n \in Node, NEW u \in mail, Open(n, u) PROVE Domains'
  <2>1. CASE StorageTblsKey(n, u) BY <2>1 DEF StorageTblsKey, Views
  <2>2. CASE HandleNewview(n, u) BY <2>2 DEF HandleNewview, UpdateMode, Views
  <2>3. CASE HandlePrepareVote(n, u) \/ HandlePrecommitVote(n, u)
    BY <2>3 DEF HandlePrepareVote, HandlePrecommitVote, CollectVote, RecordVote, Queue, Views
  <2>4. CASE HandleCommitVote(n, u)
    <3>1. CASE Certifies(n, u)
      <4>1. Enters(n, 0) BY <2>4, <3>1, <1>e
      <4>2. Views' BY <4>1, <1>v
      <4> QED BY <2>4, <3>1, <4>2 DEF HandleCommitVote, RecordVote, Queue, Decided
    <3>2. CASE ~Certifies(n, u) BY <2>4, <3>2 DEF HandleCommitVote, RecordVote, Views
    <3> QED BY <3>1, <3>2
  <2> QED BY <1>11, <2>1, <2>2, <2>3, <2>4 DEF Open
<1>12. CASE UNCHANGED vars BY <1>12 DEF vars, Views
<1> QED
  BY <1>1, <1>2, <1>3, <1>4, <1>5, <1>6, <1>7, <1>8, <1>9, <1>10, <1>11, <1>12 DEF Next

-----------------------------------------------------------------------------
(* One timer per node.                                                      *)

PksInfo == [type |-> "ConsensusNodePKsInfo", from |-> Controller]

RequestMsg(r) == [type |-> "Request", from |-> Controller, cmd |-> r]

\* What the controller publishes, it publishes once, and nobody else publishes the like.
SentInv ==
  \A m \in sent : /\ m.type = "ConsensusNodePKsInfo" => m = PksInfo
                  /\ m.type = "Request" => m.cmd \in Request /\ m = RequestMsg(m.cmd)

LEMMA SentStep == ASSUME SentInv, [Next]_vars PROVE SentInv'
<1> USE DEF SentInv
<1>1. CASE DistributeKey BY <1>1 DEF DistributeKey, PksInfo, RequestMsg
<1>2. ASSUME NEW r \in Request, CreateRequest(r) PROVE SentInv'
  BY <1>2 DEF CreateRequest, RequestMsg, PksInfo
<1>3. ASSUME NEW n \in Node, Transmit(n) PROVE SentInv' BY <1>3 DEF Transmit, VoteKind
<1>4. CASE sent' = sent BY <1>4
<1>5. ASSUME NEW n \in Node, NEW m \in sent, Deliver(n, m) PROVE sent' = sent
  BY <1>5 DEF Deliver, StorageConsensusNodePk, ReceiveRequest, HandlePrepare, HandlePrecommit,
              HandleCommit, HandleDecide
<1>6. ASSUME NEW n \in Node, NEW u \in mail, Open(n, u) PROVE sent' = sent
  BY <1>6 DEF Open, StorageTblsKey, HandleNewview, HandlePrepareVote, HandlePrecommitVote,
              CollectVote, HandleCommitVote
<1>7. ASSUME NEW n \in Node, \/ ProposalStateCheck(n) \/ TimerExpires(n) \/ ViewTimeout(n)
                              \/ StartConsensus(n) \/ Panics(n)
                              \/ \E w \in writes[n] : TaskWrites(n, w)
      PROVE  sent' = sent
  BY <1>7 DEF ProposalStateCheck, TimerExpires, ViewTimeout, StartConsensus, Panics, TaskWrites
<1>8. CASE UNCHANGED vars BY <1>8 DEF vars
<1> QED BY <1>1, <1>2, <1>3, <1>4, <1>5, <1>6, <1>7, <1>8 DEF Next

\* The writes of mode that will notify of a timeout.
Held(n) == {w \in writes[n] : w.task = "timer"}

\* Where the one timer of n is: nowhere yet, waiting, about to write mode, or noticed.
TimerState(n) ==
  \/ view[n] = 0 /\ timers[n] = 0 /\ Held(n) = {} /\ ~viewTimeoutNotify[n]
  \/ view[n] # 0 /\ timers[n] = 1 /\ Held(n) = {} /\ ~viewTimeoutNotify[n]
  \/ view[n] # 0 /\ timers[n] = 0 /\ (\E w : Held(n) = {w}) /\ ~viewTimeoutNotify[n]
  \/ view[n] # 0 /\ timers[n] = 0 /\ Held(n) = {} /\ viewTimeoutNotify[n]

\* The first view is entered with the keys, of which there is one message.
KeysOnce(n) == (pks[n] <=> PksInfo \in seen[n]) /\ (view[n] = 0 <=> ~pks[n])

TimerInv == Domains /\ SentInv /\ \A n \in Node : KeysOnce(n) /\ TimerState(n)

\* A step that leaves a node's view, timer and notice of the keys alone.
TimerKept(q) ==
  /\ pks'[q] = pks[q] /\ view'[q] = view[q] /\ timers'[q] = timers[q]
  /\ Held(q)' = Held(q) /\ viewTimeoutNotify'[q] = viewTimeoutNotify[q]
  /\ PksInfo \in seen'[q] <=> PksInfo \in seen[q]

LEMMA TimerFrame ==
  ASSUME NEW q \in Node, KeysOnce(q), TimerState(q), TimerKept(q)
  PROVE  KeysOnce(q)' /\ TimerState(q)'
BY DEF KeysOnce, TimerState, TimerKept

\* Between the two locks of UpdateMode a timer may come to notify, and no more.
LEMMA TimerUpdate ==
  ASSUME Domains, NEW q \in Node, NEW n \in Node, TimerState(q), NEW value,
         UpdateMode(n, value), view' = view, timers' = timers
  PROVE  TimerState(q)'
<1>1. PICK W \in SUBSET writes[n] :
        /\ writes' = [writes EXCEPT ![n] = @ \ W]
        /\ viewTimeoutNotify' =
             [viewTimeoutNotify EXCEPT ![n] = @ \/ \E w \in W : w.task = "timer"]
  BY DEF UpdateMode
<1>2. CASE q # n
  <2>1. writes'[q] = writes[q] /\ viewTimeoutNotify'[q] = viewTimeoutNotify[q]
    BY <1>1, <1>2 DEF Domains
  <2> QED BY <2>1 DEF TimerState, Held
<1>3. CASE q = n
  <2>1. Held(q)' = Held(q) \ W BY <1>1, <1>3 DEF Held, Domains
  <2>2. viewTimeoutNotify'[q] <=> viewTimeoutNotify[q] \/ \E w \in W : w.task = "timer"
    BY <1>1, <1>3 DEF Domains
  <2>3. CASE \E w \in W : w.task = "timer"
    <3>1. PICK w \in W : w.task = "timer" BY <2>3
    <3>2. w \in Held(q) BY <1>1, <1>3, <3>1 DEF Held
    <3>3. Held(q) = {w} BY <3>2 DEF TimerState
    <3>4. Held(q)' = {} BY <2>1, <3>1, <3>3
    <3>5. view[q] # 0 /\ timers[q] = 0 BY <3>2 DEF TimerState
    <3> QED BY <2>2, <2>3, <3>4, <3>5 DEF TimerState
  <2>4. CASE ~ \E w \in W : w.task = "timer"
    <3>1. Held(q)' = Held(q) BY <2>1, <2>4 DEF Held
    <3> QED BY <2>2, <2>4, <3>1 DEF TimerState
  <2> QED BY <2>3, <2>4
<1> QED BY <1>2, <1>3

\* The end of a block replaces the timer of the view, wherever that is.
LEMMA TimerStopped ==
  ASSUME Domains, NEW q \in Node, NEW n \in Node, KeysOnce(q), TimerState(q), pks[n],
         Enters(n, 0), UNCHANGED <<pks, writes, viewTimeoutNotify>>,
         PksInfo \in seen'[q] <=> PksInfo \in seen[q]
  PROVE  KeysOnce(q)' /\ TimerState(q)'
<1>1. timers'[q] = timers[q] BY DEF Enters, Domains, Views
<1>2. Held(q)' = Held(q) BY DEF Held
<1>3. CASE q # n
  <2>1. view'[q] = view[q] BY <1>3 DEF Enters, Domains, Views
  <2> QED BY <1>1, <1>2, <2>1, TimerFrame DEF TimerKept
<1>4. CASE q = n
  <2>1. view[q] # 0 BY <1>4 DEF KeysOnce
  <2>2. view'[q] # 0 BY <1>4 DEF Enters, Domains, Views
  <2> QED BY <1>1, <1>2, <1>4, <2>1, <2>2 DEF TimerState, KeysOnce
<1> QED BY <1>3, <1>4

LEMMA TimerStep == ASSUME TimerInv, [Next]_vars PROVE TimerInv'
<1>1. Domains /\ Domains' /\ SentInv /\ SentInv' BY DomainsStep, SentStep DEF TimerInv
<1> SUFFICES ASSUME NEW q \in Node PROVE KeysOnce(q)' /\ TimerState(q)'
  BY <1>1 DEF TimerInv
<1>2. KeysOnce(q) /\ TimerState(q) BY DEF TimerInv
<1>3. ASSUME TimerKept(q) PROVE KeysOnce(q)' /\ TimerState(q)' BY <1>2, <1>3, TimerFrame
<1>4. CASE DistributeKey BY <1>3, <1>4 DEF DistributeKey, TimerKept, Held
<1>5. ASSUME NEW r \in Request, CreateRequest(r) PROVE KeysOnce(q)' /\ TimerState(q)'
  BY <1>3, <1>5 DEF CreateRequest, TimerKept, Held
<1>6. ASSUME NEW n \in Node, ProposalStateCheck(n) PROVE KeysOnce(q)' /\ TimerState(q)'
  <2>1. Held(q)' = Held(q) BY <1>1, <1>6 DEF ProposalStateCheck, Held, Domains
  <2> QED BY <1>3, <1>6, <2>1 DEF ProposalStateCheck, TimerKept
<1>7. ASSUME NEW n \in Node, TimerExpires(n) PROVE KeysOnce(q)' /\ TimerState(q)'
  <2>1. CASE q # n
    <3>1. Held(q)' = Held(q) BY <1>1, <1>7, <2>1 DEF TimerExpires, Held, Domains
    <3> QED BY <1>1, <1>3, <1>7, <2>1, <3>1 DEF TimerExpires, TimerKept, Domains, Views
  <2>2. CASE q = n
    <3>1. view[q] # 0 /\ timers[q] = 1 /\ Held(q) = {} /\ ~viewTimeoutNotify[q]
      BY <1>2, <1>7, <2>2 DEF TimerExpires, TimerState
    <3>2. timers'[q] = 0 /\ view'[q] = view[q]
      BY <1>1, <1>7, <2>2, <3>1 DEF TimerExpires, Domains, Views
    <3>3. KeysOnce(q)' BY <1>2, <1>7 DEF TimerExpires, KeysOnce
    <3>4. CASE mode[n].kind \in {"Do", "Done"}
      <4>1. Held(q)' = {[task |-> "timer", mode |-> GivenUp(mode[n])]}
        BY <1>1, <1>7, <2>2, <3>1, <3>4 DEF TimerExpires, Held, Domains
      <4>2. ~viewTimeoutNotify'[q] BY <1>7, <3>1, <3>4 DEF TimerExpires
      <4> QED BY <3>1, <3>2, <3>3, <4>1, <4>2 DEF TimerState
    <3>5. CASE mode[n].kind \notin {"Do", "Done"}
      <4>1. Held(q)' = {} BY <1>7, <3>1, <3>5 DEF TimerExpires, Held
      <4>2. viewTimeoutNotify'[q] BY <1>1, <1>7, <2>2, <3>5 DEF TimerExpires, Domains
      <4> QED BY <3>1, <3>2, <3>3, <4>1, <4>2 DEF TimerState
    <3> QED BY <3>4, <3>5
  <2> QED BY <2>1, <2>2
<1>8. ASSUME NEW n \in Node, ViewTimeout(n) PROVE KeysOnce(q)' /\ TimerState(q)'
  <2>1. Enters(n, 1) BY <1>1, <1>8, Entering
  <2>2. writes' = writes /\ seen' = seen /\ pks' = pks BY <1>8 DEF ViewTimeout
  <2>3. Held(q)' = Held(q) BY <2>2 DEF Held
  <2>4. CASE q # n
    <3>1. view'[q] = view[q] /\ timers'[q] = timers[q]
      BY <1>1, <2>1, <2>4 DEF Enters, Domains, Views
    <3>2. viewTimeoutNotify'[q] = viewTimeoutNotify[q] BY <1>1, <1>8, <2>4 DEF ViewTimeout, Domains
    <3> QED BY <1>3, <2>2, <2>3, <3>1, <3>2 DEF TimerKept
  <2>5. CASE q = n
    <3>1. view[q] # 0 /\ timers[q] = 0 /\ Held(q) = {}
      BY <1>2, <1>8, <2>5 DEF ViewTimeout, TimerState
    <3>2. view'[q] = view[q] + 1 /\ timers'[q] = timers[q] + 1
      BY <1>1, <2>1, <2>5 DEF Enters, Domains, Views
    <3>3. view'[q] # 0 /\ timers'[q] = 1 BY <1>1, <3>1, <3>2 DEF Domains, Views
    <3>4. ~viewTimeoutNotify'[q] BY <1>1, <1>8, <2>5 DEF ViewTimeout, Domains
    <3> QED BY <1>2, <2>2, <2>3, <3>1, <3>3, <3>4 DEF TimerState, KeysOnce
  <2> QED BY <2>4, <2>5
<1>9. ASSUME NEW n \in Node, StartConsensus(n) \/ Transmit(n) \/ Panics(n)
      PROVE  KeysOnce(q)' /\ TimerState(q)'
  BY <1>3, <1>9 DEF StartConsensus, Transmit, Panics, TimerKept, Held
<1>10. ASSUME NEW n \in Node, NEW w \in writes[n], TaskWrites(n, w)
       PROVE  KeysOnce(q)' /\ TimerState(q)'
  <2>1. CASE q # n \/ w.task # "timer"
    <3>1. Held(q)' = Held(q) BY <1>1, <1>10, <2>1 DEF TaskWrites, Held, Domains
    <3>2. viewTimeoutNotify'[q] = viewTimeoutNotify[q] BY <1>1, <1>10, <2>1 DEF TaskWrites, Domains
    <3> QED BY <1>3, <1>10, <3>1, <3>2 DEF TaskWrites, TimerKept
  <2>2. CASE q = n /\ w.task = "timer"
    <3>1. w \in Held(q) BY <2>2 DEF Held
    <3>2. view[q] # 0 /\ timers[q] = 0 /\ Held(q) = {w} BY <1>2, <3>1 DEF TimerState
    <3>3. Held(q)' = {} BY <1>1, <1>10, <2>2, <3>2 DEF TaskWrites, Held, Domains
    <3>4. viewTimeoutNotify'[q] BY <1>1, <1>10, <2>2 DEF TaskWrites, Domains
    <3> QED BY <1>2, <1>10, <3>2, <3>3, <3>4 DEF TaskWrites, TimerState, KeysOnce
  <2> QED BY <2>1, <2>2
<1>11. ASSUME NEW n \in Node, NEW m \in sent, Deliver(n, m) PROVE KeysOnce(q)' /\ TimerState(q)'
  <2>1. CASE StorageConsensusNodePk(n, m)
    <3>1. m = PksInfo /\ m \notin seen[n]
      BY <1>1, <2>1 DEF StorageConsensusNodePk, CanReceive, SentInv
    <3>2. Enters(n, 1) BY <1>1, <2>1, Entering
    <3>3. Held(q)' = Held(q) /\ viewTimeoutNotify'[q] = viewTimeoutNotify[q]
      BY <2>1 DEF StorageConsensusNodePk, Held
    <3>4. CASE q # n
      <4>1. view'[q] = view[q] /\ timers'[q] = timers[q]
        BY <1>1, <3>2, <3>4 DEF Enters, Domains, Views
      <4>2. pks'[q] = pks[q] /\ seen'[q] = seen[q]
        BY <1>1, <2>1, <3>4 DEF StorageConsensusNodePk, Saw, Domains
      <4> QED BY <1>3, <3>3, <4>1, <4>2 DEF TimerKept
    <3>5. CASE q = n
      <4>1. ~pks[q] /\ view[q] = 0 BY <1>2, <3>1, <3>5 DEF KeysOnce
      <4>2. timers[q] = 0 /\ Held(q) = {} /\ ~viewTimeoutNotify[q] BY <1>2, <4>1 DEF TimerState
      <4>3. view'[q] = 1 /\ timers'[q] = 1
        BY <1>1, <3>2, <3>5, <4>1, <4>2 DEF Enters, Domains, Views
      <4>4. pks'[q] BY <1>1, <2>1, <3>5 DEF StorageConsensusNodePk, Domains
      <4>5. PksInfo \in seen'[q]
        BY <1>1, <2>1, <3>1, <3>5 DEF StorageConsensusNodePk, Saw, Domains
      <4> QED BY <3>3, <4>2, <4>3, <4>4, <4>5 DEF TimerState, KeysOnce
    <3> QED BY <3>4, <3>5
  <2>s. ASSUME m.type # "ConsensusNodePKsInfo", Saw(n, m)
        PROVE  PksInfo \in seen'[q] <=> PksInfo \in seen[q]
    BY <1>1, <2>s DEF Saw, PksInfo, Domains
  <2>2. CASE ReceiveRequest(n, m)
    <3>1. TimerState(q)' BY <1>1, <1>2, <2>2, TimerUpdate DEF ReceiveRequest
    <3> QED BY <1>2, <2>2, <2>s, <3>1 DEF ReceiveRequest, CanReceive, KeysOnce
  <2>3. CASE HandlePrepare(n, m)
    BY <1>3, <2>3, <2>s DEF HandlePrepare, CanReceive, TimerKept, Held
  <2>4. CASE HandlePrecommit(n, m)
    BY <1>3, <2>4, <2>s DEF HandlePrecommit, InView, CanReceive, TimerKept, Held
  <2>5. CASE HandleCommit(n, m)
    BY <1>3, <2>5, <2>s DEF HandleCommit, InView, CanReceive, TimerKept, Held
  <2>6. CASE HandleDecide(n, m)
    <3>1. Enters(n, 0) BY <1>1, <2>6, Entering
    <3>2. PksInfo \in seen'[q] <=> PksInfo \in seen[q]
      BY <2>6, <2>s DEF HandleDecide, InView, CanReceive
    <3>3. pks[n] /\ UNCHANGED <<pks, writes, viewTimeoutNotify>> BY <2>6 DEF HandleDecide
    <3> QED BY <1>1, <1>2, <3>1, <3>2, <3>3, TimerStopped
  <2> QED BY <1>11, <2>1, <2>2, <2>3, <2>4, <2>5, <2>6 DEF Deliver
<1>12. ASSUME NEW n \in Node, NEW u \in mail, Open(n, u) PROVE KeysOnce(q)' /\ TimerState(q)'
  <2>1. CASE StorageTblsKey(n, u) BY <1>3, <2>1 DEF StorageTblsKey, TimerKept, Held
  <2>2. CASE HandleNewview(n, u)
    <3>1. KeysOnce(q)' BY <1>2, <2>2 DEF HandleNewview, KeysOnce
    <3>2. CASE UpdateMode(n, Mode("Do", mode[n].n))
      BY <1>1, <1>2, <2>2, <3>1, <3>2, TimerUpdate DEF HandleNewview
    <3>3. CASE UNCHANGED modeVars BY <1>3, <2>2, <3>3 DEF HandleNewview, TimerKept, Held
    <3> QED BY <2>2, <3>2, <3>3 DEF HandleNewview
  <2>3. CASE HandlePrepareVote(n, u) \/ HandlePrecommitVote(n, u)
    BY <1>3, <2>3 DEF HandlePrepareVote, HandlePrecommitVote, CollectVote, TimerKept, Held
  <2>4. CASE HandleCommitVote(n, u)
    <3>1. pks[n] /\ UNCHANGED <<seen, pks, writes, viewTimeoutNotify>>
      BY <2>4 DEF HandleCommitVote
    <3>2. CASE Certifies(n, u)
      <4>1. Enters(n, 0) BY <1>1, <2>4, <3>2, Entering
      <4> QED BY <1>1, <1>2, <3>1, <4>1, TimerStopped
    <3>3. CASE ~Certifies(n, u)
      <4>1. UNCHANGED <<view, timers>> BY <2>4, <3>3 DEF HandleCommitVote
      <4> QED BY <1>3, <3>1, <4>1 DEF TimerKept, Held
    <3> QED BY <3>2, <3>3
  <2> QED BY <1>12, <2>1, <2>2, <2>3, <2>4 DEF Open
<1>13. CASE UNCHANGED vars BY <1>3, <1>13 DEF vars, TimerKept, Held
<1> QED
  BY <1>4, <1>5, <1>6, <1>7, <1>8, <1>9, <1>10, <1>11, <1>12, <1>13 DEF Next

LEMMA TimerInit == ASSUME Init PROVE TimerInv
<1>1. Domains /\ SentInv BY DomainsInit DEF Init, SentInv
<1>2. ASSUME NEW n \in Node PROVE KeysOnce(n) /\ TimerState(n)
  BY DEF Init, KeysOnce, TimerState, Held
<1> QED BY <1>1, <1>2 DEF TimerInv

LEMMA TimerCounted == ASSUME TimerInv PROVE OneTimer
<1> SUFFICES ASSUME NEW n \in Node
             PROVE  timers[n] + Cardinality(Held(n)) + (IF viewTimeoutNotify[n] THEN 1 ELSE 0)
                      = (IF view[n] = 0 THEN 0 ELSE 1)
  BY DEF OneTimer, Held
<1>1. TimerState(n) BY DEF TimerInv
<1>2. Cardinality({}) = 0 BY FS_EmptySet
<1>3. ASSUME NEW w PROVE Cardinality({w}) = 1 BY FS_Singleton
<1>4. CASE \E w : Held(n) = {w}
  <2>1. Cardinality(Held(n)) = 1 BY <1>3, <1>4
  <2>2. Held(n) # {} BY <1>4
  <2> QED BY <1>1, <2>1, <2>2 DEF TimerState
<1>5. CASE Held(n) = {}
  <2>1. Cardinality(Held(n)) = 0 BY <1>2, <1>5
  <2>2. ~ \E w : Held(n) = {w} BY <1>5
  <2>3. \/ view[n] = 0 /\ timers[n] = 0 /\ ~viewTimeoutNotify[n]
        \/ view[n] # 0 /\ timers[n] = 1 /\ ~viewTimeoutNotify[n]
        \/ view[n] # 0 /\ timers[n] = 0 /\ viewTimeoutNotify[n]
    BY <1>1, <2>2 DEF TimerState
  <2> QED BY <2>1, <2>3
<1> QED BY <1>1, <1>4, <1>5 DEF TimerState

\* newview starts a timer in every view a node enters and the end of a block stops one,
\* each with a permit that a timer of another view may take instead: in every interleaving
\* of the event loop with the timer tasks and the two locks of mode, a running node has
\* exactly one timer waiting, writing or noticed, be it the current view's or one that ran
\* out in the view before.
THEOREM OneTimerAlways == Spec => []OneTimer
<1>1. Init => TimerInv BY TimerInit
<1>2. TimerInv /\ [Next]_vars => TimerInv' BY TimerStep
<1>3. TimerInv => OneTimer BY TimerCounted
<1> QED BY <1>1, <1>2, <1>3, PTL DEF Spec

-----------------------------------------------------------------------------
(* The two request buffers.                                                 *)

\* The map holds requests that have been received, and so will not be received again.
BufferState(n) ==
  /\ buffer[n] \in Seq(Request) /\ bufferMap[n] \subseteq Request
  /\ IsFiniteSet(bufferMap[n]) /\ Len(buffer[n]) = Cardinality(bufferMap[n])
  /\ \A r \in bufferMap[n] : RequestMsg(r) \in seen[n]

BufferInv == Domains /\ SentInv /\ \A n \in Node : BufferState(n)

LEMMA BufferFrame ==
  ASSUME NEW q \in Node, BufferState(q), buffer'[q] = buffer[q], bufferMap'[q] = bufferMap[q],
         seen[q] \subseteq seen'[q]
  PROVE  BufferState(q)'
BY DEF BufferState

\* Deliveries only add to seen.
LEMMA SeenGrows ==
  ASSUME Domains, NEW n \in Node, NEW m, Saw(n, m), NEW q \in Node
  PROVE  seen[q] \subseteq seen'[q]
BY DEF Saw, Domains

LEMMA BufferStep == ASSUME BufferInv, [Next]_vars PROVE BufferInv'
<1>1. Domains /\ Domains' /\ SentInv /\ SentInv' BY DomainsStep, SentStep DEF BufferInv
<1> SUFFICES ASSUME NEW q \in Node PROVE BufferState(q)'
  BY <1>1 DEF BufferInv
<1>2. BufferState(q) BY DEF BufferInv
<1>3. ASSUME UNCHANGED bufferVars, seen[q] \subseteq seen'[q] PROVE BufferState(q)'
  BY <1>2, <1>3, BufferFrame
<1>4. ASSUME UNCHANGED bufferVars, NEW n \in Node, NEW m, Saw(n, m) PROVE BufferState(q)'
  BY <1>1, <1>3, <1>4, SeenGrows
<1>5. CASE DistributeKey BY <1>3, <1>5 DEF DistributeKey
<1>6. ASSUME NEW r \in Request, CreateRequest(r) PROVE BufferState(q)'
  BY <1>3, <1>6 DEF CreateRequest
<1>7. ASSUME NEW n \in Node, \/ ProposalStateCheck(n) \/ TimerExpires(n) \/ ViewTimeout(n)
                              \/ StartConsensus(n) \/ Panics(n)
                              \/ \E w \in writes[n] : TaskWrites(n, w)
      PROVE  BufferState(q)'
  <2>1. UNCHANGED <<buffer, bufferMap, seen>>
    BY <1>7 DEF ProposalStateCheck, TimerExpires, ViewTimeout, StartConsensus, Panics, TaskWrites
  <2> QED BY <1>3, <2>1
<1>8. ASSUME NEW n \in Node, Transmit(n) PROVE BufferState(q)'
  <2>1. seen' = seen BY <1>8 DEF Transmit
  <2>2. CASE UNCHANGED bufferVars BY <1>3, <2>1, <2>2
  <2>3. ASSUME NEW r, r \in bufferMap[n],
               buffer' = [buffer EXCEPT ![n] = Tail(@)],
               bufferMap' = [bufferMap EXCEPT ![n] = @ \ {r}]
        PROVE  BufferState(q)'
    <3>1. CASE q # n
      <4>1. buffer'[q] = buffer[q] /\ bufferMap'[q] = bufferMap[q] BY <1>1, <2>3, <3>1 DEF Domains
      <4> QED BY <1>2, <2>1, <4>1, BufferFrame
    <3>2. CASE q = n
      <4>1. buffer'[q] = Tail(buffer[q]) /\ bufferMap'[q] = bufferMap[q] \ {r}
        BY <1>1, <2>3, <3>2 DEF Domains
      <4>2. /\ IsFiniteSet(bufferMap[q] \ {r})
            /\ Cardinality(bufferMap[q] \ {r}) = Cardinality(bufferMap[q]) - 1
        BY <1>2, <2>3, <3>2, FS_RemoveElement DEF BufferState
      <4>3. Cardinality(bufferMap[q] \ {r}) \in Nat BY <4>2, FS_CardinalityType
      <4>4. buffer[q] # <<>> BY <1>2, <4>2, <4>3 DEF BufferState
      <4>5. Tail(buffer[q]) \in Seq(Request) /\ Len(Tail(buffer[q])) = Len(buffer[q]) - 1
        BY <1>2, <4>4 DEF BufferState
      <4> QED BY <1>2, <2>1, <4>1, <4>2, <4>5 DEF BufferState
    <3> QED BY <3>1, <3>2
  <2>4. \/ UNCHANGED bufferVars
        \/ \E r : TakenOut(n, r)
    BY <1>8 DEF Transmit
  <2> QED BY <2>2, <2>3, <2>4 DEF TakenOut
<1>9. ASSUME NEW n \in Node, NEW m \in sent, Deliver(n, m) PROVE BufferState(q)'
  <2>1. CASE ReceiveRequest(n, m)
    <3>1. /\ m = RequestMsg(m.cmd) /\ m.cmd \in Request /\ m \notin seen[n]
      BY <1>1, <2>1 DEF ReceiveRequest, CanReceive, SentInv
    <3>2. CASE q # n
      <4>1. buffer'[q] = buffer[q] /\ bufferMap'[q] = bufferMap[q]
        BY <1>1, <2>1, <3>2 DEF Domains, ReceiveRequest
      <4>2. seen[q] \subseteq seen'[q] BY <1>1, <2>1, SeenGrows DEF ReceiveRequest
      <4> QED BY <1>2, <4>1, <4>2, BufferFrame
    <3>3. CASE q = n
      <4>1. /\ buffer'[q] = Append(buffer[q], m.cmd)
            /\ bufferMap'[q] = bufferMap[q] \cup {m.cmd}
        BY <1>1, <2>1, <3>3 DEF Domains, ReceiveRequest
      <4>2. m.cmd \notin bufferMap[q] BY <1>2, <3>1, <3>3 DEF BufferState
      <4>3. /\ IsFiniteSet(bufferMap[q] \cup {m.cmd})
            /\ Cardinality(bufferMap[q] \cup {m.cmd}) = Cardinality(bufferMap[q]) + 1
        BY <1>2, <4>2, FS_AddElement DEF BufferState
      <4>4. /\ Append(buffer[q], m.cmd) \in Seq(Request)
            /\ Len(Append(buffer[q], m.cmd)) = Len(buffer[q]) + 1
        BY <1>2, <3>1 DEF BufferState
      <4>5. seen'[q] = seen[q] \cup {m} BY <1>1, <2>1, <3>3 DEF ReceiveRequest, Saw, Domains
      <4>6. \A r \in bufferMap[q] \cup {m.cmd} : RequestMsg(r) \in seen[q] \cup {m}
        BY <1>2, <3>1 DEF BufferState
      <4> QED BY <1>2, <3>1, <4>1, <4>3, <4>4, <4>5, <4>6 DEF BufferState
    <3> QED BY <3>2, <3>3
  <2>2. CASE StorageConsensusNodePk(n, m) BY <1>4, <2>2 DEF StorageConsensusNodePk
  <2>3. CASE HandlePrepare(n, m) BY <1>4, <2>3 DEF HandlePrepare
  <2>4. CASE HandlePrecommit(n, m) BY <1>4, <2>4 DEF HandlePrecommit
  <2>5. CASE HandleCommit(n, m) BY <1>4, <2>5 DEF HandleCommit
  <2>6. CASE HandleDecide(n, m) BY <1>4, <2>6 DEF HandleDecide
  <2> QED BY <1>9, <2>1, <2>2, <2>3, <2>4, <2>5, <2>6 DEF Deliver
<1>10. ASSUME NEW n \in Node, NEW u \in mail, Open(n, u) PROVE BufferState(q)'
  <2>1. UNCHANGED <<buffer, bufferMap, seen>>
    BY <1>10 DEF Open, StorageTblsKey, HandleNewview, HandlePrepareVote, HandlePrecommitVote,
                 CollectVote, HandleCommitVote
  <2> QED BY <1>3, <2>1
<1>11. CASE UNCHANGED vars BY <1>3, <1>11 DEF vars
<1> QED BY <1>5, <1>6, <1>7, <1>8, <1>9, <1>10, <1>11 DEF Next

LEMMA BufferInit == ASSUME Init PROVE BufferInv
<1>1. Domains /\ SentInv BY DomainsInit DEF Init, SentInv
<1>2. IsFiniteSet({}) /\ Cardinality({}) = 0 BY FS_EmptySet
<1>3. ASSUME NEW n \in Node PROVE BufferState(n) BY <1>2 DEF Init, BufferState
<1> QED BY <1>1, <1>3 DEF BufferInv

\* The End arm removes the first request of the list when the decided one is in the map:
\* whatever the order in which requests and decisions reach a node, and however often the
\* two are different requests, list and map have the same number of elements, so that
\* remove(0) finds an element.
THEOREM BuffersInStepAlways == Spec => []BuffersInStep
<1>1. Init => BufferInv BY BufferInit
<1>2. BufferInv /\ [Next]_vars => BufferInv' BY BufferStep
<1>3. BufferInv => BuffersInStep BY DEF BufferInv, BufferState, BuffersInStep
<1> QED BY <1>1, <1>2, <1>3, PTL DEF Spec

-----------------------------------------------------------------------------
(* Locks.                                                                   *)

\* A lock is of a view that its owner has entered.
LocksOK == \A n \in Node : QcView(lockedQc[n]) \in Nat /\ QcView(lockedQc[n]) <= view[n]

\* Locks and views are changed by few actions.
LEMMA LocksAndViews ==
  ASSUME Domains, [Next]_vars
  PROVE  /\ lockedQc' = lockedQc \/ \E n \in Node, m \in sent : HandleCommit(n, m)
         /\ view' = view \/ \E n \in Node : Enters(n, 0) \/ Enters(n, 1)
<1>1. CASE DistributeKey BY <1>1 DEF DistributeKey
<1>2. CASE \E r \in Request : CreateRequest(r) BY <1>2 DEF CreateRequest
<1>3. ASSUME NEW n \in Node, ViewTimeout(n)
      PROVE  lockedQc' = lockedQc /\ Enters(n, 1)
  BY <1>3, Entering DEF ViewTimeout
<1>4. ASSUME NEW n \in Node, \/ ProposalStateCheck(n) \/ TimerExpires(n) \/ Transmit(n)
                              \/ StartConsensus(n) \/ Panics(n)
                              \/ \E w \in writes[n] : TaskWrites(n, w)
      PROVE  lockedQc' = lockedQc /\ view' = view
  BY <1>4 DEF ProposalStateCheck, TimerExpires, Transmit, StartConsensus, Panics, TaskWrites
<1>5. ASSUME NEW n \in Node, NEW m \in sent, Deliver(n, m)
      PROVE  /\ lockedQc' = lockedQc \/ HandleCommit(n, m)
             /\ view' = view \/ Enters(n, 0) \/ Enters(n, 1)
  <2>1. CASE StorageConsensusNodePk(n, m) BY <2>1, Entering DEF StorageConsensusNodePk
  <2>2. CASE HandleDecide(n, m) BY <2>2, Entering DEF HandleDecide
  <2>3. CASE ReceiveRequest(n, m) \/ HandlePrepare(n, m) \/ HandlePrecommit(n, m)
    BY <2>3 DEF ReceiveRequest, HandlePrepare, HandlePrecommit
  <2>4. CASE HandleCommit(n, m) BY <2>4 DEF HandleCommit
  <2> QED BY <1>5, <2>1, <2>2, <2>3, <2>4 DEF Deliver
<1>6. ASSUME NEW n \in Node, NEW u \in mail, Open(n, u)
      PROVE  lockedQc' = lockedQc /\ (view' = view \/ Enters(n, 0))
  <2>1. CASE HandleCommitVote(n, u)
    <3>1. lockedQc' = lockedQc BY <2>1 DEF HandleCommitVote
    <3>2. view' = view \/ Enters(n, 0) BY <2>1, Entering
    <3> QED BY <3>1, <3>2
  <2>2. CASE ~HandleCommitVote(n, u)
    BY <1>6, <2>2 DEF Open, StorageTblsKey, HandleNewview, HandlePrepareVote,
                      HandlePrecommitVote, CollectVote
  <2> QED BY <2>1, <2>2
<1>7. CASE UNCHANGED vars BY <1>7 DEF vars
<1> QED BY <1>1, <1>2, <1>3, <1>4, <1>5, <1>6, <1>7 DEF Next

\* handle_commit takes a certificate of the view its node is in, so that no lock is ever
\* replaced by an older one.
LocksGrow == \A q \in Node : QcView(lockedQc[q]) <= QcView(lockedQc'[q])

LEMMA LockStep ==
  ASSUME Domains, Domains', LocksOK, [Next]_vars
  PROVE  LocksOK' /\ LocksGrow
<1> SUFFICES ASSUME NEW q \in Node
             PROVE  /\ QcView(lockedQc'[q]) \in Nat /\ QcView(lockedQc'[q]) <= view'[q]
                    /\ QcView(lockedQc[q]) <= QcView(lockedQc'[q])
  BY DEF LocksOK, LocksGrow
<1>1. view[q] \in Nat /\ view'[q] \in Nat BY DEF Domains, Views
<1>2. view[q] <= view'[q]
  <2>1. CASE view' = view BY <1>1, <2>1
  <2>2. ASSUME NEW n \in Node, view' = [view EXCEPT ![n] = @ + 1] PROVE view[q] <= view'[q]
    BY <1>1, <2>2 DEF Domains, Views
  <2> QED BY <2>1, <2>2, LocksAndViews DEF Enters
<1>3. QcView(lockedQc[q]) \in Nat /\ QcView(lockedQc[q]) <= view[q] BY DEF LocksOK
<1>4. CASE lockedQc'[q] = lockedQc[q] BY <1>1, <1>2, <1>3, <1>4
<1>5. ASSUME NEW n \in Node, NEW m \in sent, HandleCommit(n, m), q = n
      PROVE  QcView(lockedQc'[q]) = view[q]
  <2>1. lockedQc'[q] = QC(view[q], m.block)
    BY <1>5 DEF HandleCommit, InView, Domains
  <2>2. QC(view[q], m.block) # NoQC BY DEF QC, NoQC
  <2> QED BY <2>1, <2>2 DEF QcView, QC
<1>6. ASSUME NEW n \in Node, NEW m \in sent, HandleCommit(n, m), q # n
      PROVE  lockedQc'[q] = lockedQc[q]
  BY <1>6 DEF HandleCommit, Domains
<1>7. lockedQc'[q] = lockedQc[q] \/ QcView(lockedQc'[q]) = view[q]
  BY <1>5, <1>6, LocksAndViews
<1> QED BY <1>1, <1>2, <1>3, <1>4, <1>7

-----------------------------------------------------------------------------
(* Votes.  A vote moves from the channel to the mail to a log and is not lost.  *)

\* Channels are sequences.
Channels == \A n \in Node : \E S : outbox[n] \in Seq(S)

Elements(s) == {s[i] : i \in 1 .. Len(s)}

LEMMA ElementsOfConcat ==
  ASSUME NEW S, NEW s \in Seq(S), NEW T, NEW t \in Seq(T)
  PROVE  Elements(s \o t) = Elements(s) \cup Elements(t)
<1>1. s \in Seq(S \cup T) /\ t \in Seq(S \cup T) OBVIOUS
<1>2. s \o t \in Seq(S \cup T) BY <1>1
<1>3. Range(s \o t) = Range(s) \cup Range(t) BY <1>1, RangeConcatenation
<1>4. Range(s) = Elements(s) /\ Range(t) = Elements(t) /\ Range(s \o t) = Elements(s \o t)
  BY <1>1, <1>2, RangeEquality DEF Elements
<1> QED BY <1>3, <1>4

LEMMA ElementsOfTail ==
  ASSUME NEW S, NEW s \in Seq(S), s # <<>>
  PROVE  Elements(s) = {Head(s)} \cup Elements(Tail(s))
<1>1. Len(s) \in Nat /\ Len(s) >= 1 /\ Head(s) = s[1] OBVIOUS
<1>2. Len(Tail(s)) = Len(s) - 1 /\ \A i \in 1 .. Len(s) - 1 : Tail(s)[i] = s[i + 1] OBVIOUS
<1>3. ASSUME NEW i \in 1 .. Len(s) PROVE s[i] = s[1] \/ s[i] \in Elements(Tail(s))
  <2>1. CASE i = 1 BY <2>1
  <2>2. CASE i # 1
    <3>1. i - 1 \in 1 .. Len(s) - 1 BY <1>1, <2>2
    <3>2. Tail(s)[i - 1] = s[i] BY <1>2, <3>1
    <3> QED BY <1>2, <3>1, <3>2 DEF Elements
  <2> QED BY <2>1, <2>2
<1>4. ASSUME NEW i \in 1 .. Len(Tail(s)) PROVE Tail(s)[i] \in Elements(s)
  <2>1. i + 1 \in 1 .. Len(s) BY <1>1, <1>2
  <2> QED BY <1>2, <2>1 DEF Elements
<1>5. s[1] \in Elements(s) BY <1>1 DEF Elements
<1> QED BY <1>1, <1>3, <1>4, <1>5 DEF Elements

\* What a handler's messages add to the votes that are queued.
LEMMA QueuedVotes ==
  ASSUME Domains, Channels, NEW n \in Node, NEW T, NEW msgs \in Seq(T), Queue(n, msgs)
  PROVE  Votes(QueuedMsgs') = Votes(QueuedMsgs) \cup Votes(Elements(msgs))
<1>1. PICK S : outbox[n] \in Seq(S) BY DEF Channels
<1>2. outbox'[n] = outbox[n] \o msgs BY DEF Queue, Domains
<1>3. Queued(n)' = Queued(n) \cup Elements(msgs)
  <2>1. Elements(outbox[n] \o msgs) = Elements(outbox[n]) \cup Elements(msgs)
    BY <1>1, ElementsOfConcat
  <2>2. Queued(n)' = Elements(outbox[n] \o msgs) /\ Queued(n) = Elements(outbox[n])
    BY <1>2 DEF Queued, Elements
  <2> QED BY <2>1, <2>2
<1>4. ASSUME NEW q \in Node, q # n PROVE Queued(q)' = Queued(q)
  <2>1. outbox'[q] = outbox[q] BY <1>4 DEF Queue, Domains
  <2> QED BY <2>1 DEF Queued
<1>5. QueuedMsgs' = QueuedMsgs \cup Elements(msgs)
  <2>1. \A x : x \in QueuedMsgs <=> \E q \in Node : x \in Queued(q) BY DEF QueuedMsgs
  <2>2. \A x : x \in QueuedMsgs' <=> \E q \in Node : x \in Queued(q)' BY DEF QueuedMsgs
  <2> QED BY <1>3, <1>4, <2>1, <2>2
<1> QED BY <1>5 DEF Votes

LEMMA OpenedMail ==
  ASSUME NEW u \in mail, mail' = mail \ {u}
  PROVE  MailMsgs = MailMsgs' \cup {u.msg}
BY DEF MailMsgs

LEMMA RecordedVotes ==
  ASSUME Domains, NEW n \in Node, NEW u \in mail, RecordVote(n, u)
  PROVE  Votes(MailMsgs') \cup Votes(LogMsgs') = Votes(MailMsgs) \cup Votes(LogMsgs)
<1>1. MailMsgs = MailMsgs' \cup {u.msg} BY OpenedMail DEF RecordVote
<1>2. \A x : x \in LogMsgs <=> \E q \in Node : x \in votes[q] BY DEF LogMsgs
<1>3. \A x : x \in LogMsgs' <=> \E q \in Node : x \in votes'[q] BY DEF LogMsgs
<1>4. /\ votes'[n] = votes[n] \cup {u.msg}
      /\ \A q \in Node \ {n} : votes'[q] = votes[q]
  BY DEF RecordVote, Domains
<1>5. LogMsgs' = LogMsgs \cup {u.msg} BY <1>2, <1>3, <1>4
<1> QED BY <1>1, <1>5 DEF Votes

\* A vote that leaves the channel is in flight; whatever else leaves it is no vote.
LEMMA TransmittedVotes ==
  ASSUME Domains, Channels, NEW n \in Node, Transmit(n)
  PROVE  Cast' = Cast
<1> DEFINE h == Head(outbox[n])
<1>1. PICK S : outbox[n] \in Seq(S) BY DEF Channels
<1>2. outbox[n] # <<>> /\ outbox'[n] = Tail(outbox[n]) BY DEF Transmit, Domains
<1>3. Queued(n) = {h} \cup Queued(n)'
  <2>1. Elements(outbox[n]) = {h} \cup Elements(Tail(outbox[n])) BY <1>1, <1>2, ElementsOfTail
  <2>2. Queued(n) = Elements(outbox[n]) /\ Queued(n)' = Elements(Tail(outbox[n]))
    BY <1>2 DEF Queued, Elements
  <2> QED BY <2>1, <2>2
<1>4. ASSUME NEW q \in Node, q # n PROVE Queued(q)' = Queued(q)
  <2>1. outbox'[q] = outbox[q] BY <1>4 DEF Transmit, Domains
  <2> QED BY <2>1 DEF Queued
<1>5. /\ LogMsgs' = LogMsgs
      /\ mail' = mail \/ mail' = mail \cup {[to |-> primary[n], msg |-> h]}
      /\ h.type \in VoteKind => mail' = mail \cup {[to |-> primary[n], msg |-> h]}
  BY DEF Transmit, LogMsgs, VoteKind
<1> HIDE DEF h
<1>6. QueuedMsgs = {h} \cup QueuedMsgs'
  <2>1. \A x : x \in QueuedMsgs <=> \E q \in Node : x \in Queued(q) BY DEF QueuedMsgs
  <2>2. \A x : x \in QueuedMsgs' <=> \E q \in Node : x \in Queued(q)' BY DEF QueuedMsgs
  <2> QED BY <1>3, <1>4, <2>1, <2>2
<1>7. /\ MailMsgs' = MailMsgs \/ MailMsgs' = MailMsgs \cup {h}
      /\ h.type \in VoteKind => h \in MailMsgs'
  <2>1. CASE mail' = mail BY <1>5, <2>1 DEF MailMsgs
  <2>2. CASE mail' = mail \cup {[to |-> primary[n], msg |-> h]}
    <3>1. [to |-> primary[n], msg |-> h].msg = h OBVIOUS
    <3>2. MailMsgs' = MailMsgs \cup {h} BY <2>2, <3>1 DEF MailMsgs
    <3> QED BY <3>2
  <2> QED BY <1>5, <2>1, <2>2
<1> QED BY <1>5, <1>6, <1>7 DEF Cast, Votes

LEMMA ShortElements ==
  /\ Elements(<<>>) = {}
  /\ \A m : Elements(<<m>>) = {m}
<1>1. Elements(<<>>) = {} BY DEF Elements
<1>2. ASSUME NEW m PROVE Elements(<<m>>) = {m}
  <2>1. Len(<<m>>) = 1 /\ <<m>>[1] = m OBVIOUS
  <2>2. 1 .. 1 = {1} OBVIOUS
  <2> QED BY <2>1, <2>2 DEF Elements
<1> QED BY <1>1, <1>2

\* NewViews and Ends are no votes.
LEMMA NewViewNoVote ==
  ASSUME NEW n \in Node
  PROVE  (\E T : NewViewMsg(n) \in Seq(T)) /\ Votes(Elements(NewViewMsg(n))) = {}
<1>1. PICK nv : nv.type = "NewView" /\ (NewViewMsg(n) = <<>> \/ NewViewMsg(n) = <<nv>>)
  BY DEF NewViewMsg
<1>2. <<>> \in Seq({nv}) /\ <<nv>> \in Seq({nv}) OBVIOUS
<1>3. NewViewMsg(n) \in Seq({nv}) BY <1>1, <1>2
<1>4. Elements(NewViewMsg(n)) \subseteq {nv} BY <1>1, ShortElements
<1>5. Votes(Elements(NewViewMsg(n))) = {} BY <1>1, <1>4 DEF Votes, VoteKind
<1> QED BY <1>3, <1>5

LEMMA DecidedNoVote ==
  ASSUME Domains, Channels, NEW n \in Node, NEW v, NEW b, NEW first,
         first = <<>> \/ \E d : d.type = "Decide" /\ first = <<d>>,
         Decided(n, v, b, first)
  PROVE  Votes(QueuedMsgs') = Votes(QueuedMsgs)
<1> DEFINE e == [type |-> "End", cmd |-> b.cmd]
<1>1. Queue(n, first \o <<e>> \o NewViewMsg(n)) BY DEF Decided
<1>2. e.type = "End" OBVIOUS
<1> HIDE DEF e
<1>3. PICK d : d.type = "Decide" /\ (first = <<>> \/ first = <<d>>)
  <2>1. [type |-> "Decide"].type = "Decide" OBVIOUS
  <2> QED BY <2>1
<1>4. <<>> \in Seq({d}) /\ <<d>> \in Seq({d}) /\ <<e>> \in Seq({e}) OBVIOUS
<1>5. first \in Seq({d}) BY <1>3, <1>4
<1>6. PICK T : NewViewMsg(n) \in Seq(T) BY NewViewNoVote
<1>7. first \o <<e>> \in Seq({d, e})
  <2>1. first \in Seq({d, e}) /\ <<e>> \in Seq({d, e}) BY <1>5
  <2> QED BY <2>1
<1>8. first \o <<e>> \o NewViewMsg(n) \in Seq({d, e} \cup T)
  <2>1. first \o <<e>> \in Seq({d, e} \cup T) /\ NewViewMsg(n) \in Seq({d, e} \cup T)
    BY <1>6, <1>7
  <2> QED BY <2>1
<1>9. Elements(first \o <<e>> \o NewViewMsg(n)) =
        Elements(first) \cup Elements(<<e>>) \cup Elements(NewViewMsg(n))
  <2>1. Elements(first \o <<e>>) = Elements(first) \cup Elements(<<e>>)
    BY <1>4, <1>5, ElementsOfConcat
  <2>2. Elements(first \o <<e>> \o NewViewMsg(n)) =
          Elements(first \o <<e>>) \cup Elements(NewViewMsg(n))
    BY <1>6, <1>7, ElementsOfConcat
  <2> QED BY <2>1, <2>2
<1>10. Elements(first) \subseteq {d} /\ Elements(<<e>>) = {e} BY <1>3, ShortElements
<1>11. Votes(Elements(first \o <<e>> \o NewViewMsg(n))) = {}
  <2>1. Votes(Elements(NewViewMsg(n))) = {} BY NewViewNoVote
  <2> QED BY <1>2, <1>3, <1>9, <1>10, <2>1 DEF Votes, VoteKind
<1>12. Votes(QueuedMsgs') = Votes(QueuedMsgs) \cup Votes(Elements(first \o <<e>> \o NewViewMsg(n)))
  BY <1>1, <1>8, QueuedVotes
<1> QED BY <1>11, <1>12

\* Three handlers cast a vote; no action takes one back.
LEMMA CastStep ==
  ASSUME Domains, Channels, [Next]_vars
  PROVE  \/ Cast' = Cast
         \/ \E n \in Node, m \in sent :
              \/ HandlePrepare(n, m) /\ Cast' = Cast \cup {Msg("PrepareVote", n, m.view, m.block)}
              \/ HandlePrecommit(n, m)
                   /\ Cast' = Cast \cup {Msg("PreCommitVote", n, m.view, m.block)}
              \/ HandleCommit(n, m) /\ Cast' = Cast \cup {Msg("CommitVote", n, m.view, m.block)}
<1>1. ASSUME MailMsgs' = MailMsgs, LogMsgs' = LogMsgs, Votes(QueuedMsgs') = Votes(QueuedMsgs)
      PROVE  Cast' = Cast
  BY <1>1 DEF Cast, Votes
<1>2. ASSUME UNCHANGED <<mail, votes, outbox>> PROVE Cast' = Cast
  BY <1>2 DEF Cast, Votes, MailMsgs, LogMsgs, QueuedMsgs, Queued
<1>3. ASSUME NEW n \in Node, NEW m, UNCHANGED <<mail, votes>>, Queue(n, <<m>>)
      PROVE  Cast' = Cast \cup Votes({m})
  <2>1. <<m>> \in Seq({m}) OBVIOUS
  <2>2. Votes(QueuedMsgs') = Votes(QueuedMsgs) \cup Votes(Elements(<<m>>))
    BY <1>3, <2>1, QueuedVotes
  <2>3. MailMsgs' = MailMsgs /\ LogMsgs' = LogMsgs BY <1>3 DEF MailMsgs, LogMsgs
  <2> QED BY <2>2, <2>3, ShortElements DEF Cast, Votes
<1>4. ASSUME NEW n \in Node, UNCHANGED <<mail, votes>>, Queue(n, NewViewMsg(n))
      PROVE  Cast' = Cast
  <2>1. Votes(QueuedMsgs') = Votes(QueuedMsgs) \cup Votes(Elements(NewViewMsg(n)))
    BY <1>4, NewViewNoVote, QueuedVotes
  <2>2. MailMsgs' = MailMsgs /\ LogMsgs' = LogMsgs BY <1>4 DEF MailMsgs, LogMsgs
  <2> QED BY <1>1, <2>1, <2>2, NewViewNoVote
<1>5. ASSUME NEW u \in mail, mail' = mail \ {u}, UNCHANGED <<votes, outbox>>,
             u.msg.type \notin VoteKind
      PROVE  Cast' = Cast
  <2>1. MailMsgs = MailMsgs' \cup {u.msg} BY <1>5, OpenedMail
  <2>2. LogMsgs' = LogMsgs /\ QueuedMsgs' = QueuedMsgs BY <1>5 DEF LogMsgs, QueuedMsgs, Queued
  <2> QED BY <1>5, <2>1, <2>2 DEF Cast, Votes
<1>6. ASSUME NEW n \in Node, NEW u \in mail, RecordVote(n, u),
             Votes(QueuedMsgs') = Votes(QueuedMsgs)
      PROVE  Cast' = Cast
  <2>1. Votes(MailMsgs') \cup Votes(LogMsgs') = Votes(MailMsgs) \cup Votes(LogMsgs)
    BY <1>6, RecordedVotes
  <2>2. /\ Cast' = (Votes(MailMsgs') \cup Votes(LogMsgs')) \cup Votes(QueuedMsgs')
        /\ Cast = (Votes(MailMsgs) \cup Votes(LogMsgs)) \cup Votes(QueuedMsgs)
    BY DEF Cast, Votes
  <2> QED BY <1>6, <2>1, <2>2
<1>7. CASE DistributeKey
  <2> DEFINE key == [type |-> "TBLSKey", from |-> Controller]
  <2>1. LogMsgs' = LogMsgs /\ QueuedMsgs' = QueuedMsgs
    BY <1>7 DEF DistributeKey, LogMsgs, QueuedMsgs, Queued
  <2>2. MailMsgs \subseteq MailMsgs' /\ MailMsgs' \subseteq MailMsgs \cup {key}
    BY <1>7 DEF DistributeKey, MailMsgs
  <2>3. key.type \notin VoteKind BY DEF VoteKind
  <2> HIDE DEF key
  <2> QED BY <2>1, <2>2, <2>3 DEF Cast, Votes
<1>8. CASE \E r \in Request : CreateRequest(r) BY <1>2, <1>8 DEF CreateRequest
<1>9. ASSUME NEW n \in Node, \/ ProposalStateCheck(n) \/ TimerExpires(n) \/ Panics(n)
                              \/ \E w \in writes[n] : TaskWrites(n, w)
      PROVE  Cast' = Cast
  <2>1. UNCHANGED <<mail, votes, outbox>>
    BY <1>9 DEF ProposalStateCheck, TimerExpires, Panics, TaskWrites
  <2> QED BY <1>2, <2>1
<1>10. ASSUME NEW n \in Node, ViewTimeout(n) PROVE Cast' = Cast BY <1>4, <1>10 DEF ViewTimeout
<1>11. ASSUME NEW n \in Node, Transmit(n) PROVE Cast' = Cast BY <1>11, TransmittedVotes
<1>12. ASSUME NEW n \in Node, StartConsensus(n) PROVE Cast' = Cast
  <2>1. CASE UNCHANGED outbox BY <1>2, <1>12, <2>1 DEF StartConsensus
  <2>2. ASSUME NEW m, m.type = "Prepare", Queue(n, <<m>>) PROVE Cast' = Cast
    <3>1. Cast' = Cast \cup Votes({m}) BY <1>3, <1>12, <2>2 DEF StartConsensus
    <3> QED BY <2>2, <3>1 DEF Votes, VoteKind
  <2> QED BY <1>12, <2>1, <2>2 DEF StartConsensus
<1>13. ASSUME NEW n \in Node, NEW m \in sent, HandlePrepare(n, m)
       PROVE  Cast' = Cast \/ Cast' = Cast \cup {Msg("PrepareVote", n, m.view, m.block)}
  <2> DEFINE vote == Msg("PrepareVote", n, m.view, m.block)
  <2>1. UNCHANGED <<mail, votes>> /\ (Queue(n, <<vote>>) \/ Queue(n, <<>>))
    BY <1>13 DEF HandlePrepare
  <2>2. Votes({vote}) = {vote} BY DEF Votes, VoteKind, Msg
  <2> HIDE DEF vote
  <2>3. CASE Queue(n, <<vote>>)
    <3>1. Cast' = Cast \cup {vote} BY <1>3, <2>1, <2>2, <2>3
    <3> QED BY <3>1 DEF vote
  <2>4. CASE Queue(n, <<>>)
    <3>1. <<>> \in Seq({}) OBVIOUS
    <3>2. Votes(QueuedMsgs') = Votes(QueuedMsgs) \cup Votes(Elements(<<>>))
      BY <2>4, <3>1, QueuedVotes
    <3>3. Votes(QueuedMsgs') = Votes(QueuedMsgs) BY <3>2, ShortElements DEF Votes
    <3>4. MailMsgs' = MailMsgs /\ LogMsgs' = LogMsgs BY <2>1 DEF MailMsgs, LogMsgs
    <3> QED BY <1>1, <3>3, <3>4
  <2> QED BY <2>1, <2>3, <2>4 DEF vote
<1>14. ASSUME NEW n \in Node, NEW m \in sent, HandlePrecommit(n, m)
       PROVE  Cast' = Cast \cup {Msg("PreCommitVote", n, m.view, m.block)}
  <2> DEFINE vote == Msg("PreCommitVote", n, m.view, m.block)
  <2>1. UNCHANGED <<mail, votes>> /\ Queue(n, <<vote>>) BY <1>14 DEF HandlePrecommit
  <2>2. Votes({vote}) = {vote} BY DEF Votes, VoteKind, Msg
  <2> HIDE DEF vote
  <2>3. Cast' = Cast \cup {vote} BY <1>3, <2>1, <2>2
  <2> QED BY <2>3 DEF vote
<1>15. ASSUME NEW n \in Node, NEW m \in sent, HandleCommit(n, m)
       PROVE  Cast' = Cast \cup {Msg("CommitVote", n, m.view, m.block)}
  <2> DEFINE vote == Msg("CommitVote", n, m.view, m.block)
  <2>1. UNCHANGED <<mail, votes>> /\ Queue(n, <<vote>>) BY <1>15 DEF HandleCommit
  <2>2. Votes({vote}) = {vote} BY DEF Votes, VoteKind, Msg
  <2> HIDE DEF vote
  <2>3. Cast' = Cast \cup {vote} BY <1>3, <2>1, <2>2
  <2> QED BY <2>3 DEF vote
<1>16. ASSUME NEW n \in Node, NEW m \in sent, HandleDecide(n, m) PROVE Cast' = Cast
  <2>1. Decided(n, m.view, m.block, <<>>) /\ UNCHANGED <<mail, votes>> BY <1>16 DEF HandleDecide
  <2>2. Votes(QueuedMsgs') = Votes(QueuedMsgs) BY <2>1, DecidedNoVote
  <2>3. MailMsgs' = MailMsgs /\ LogMsgs' = LogMsgs BY <2>1 DEF MailMsgs, LogMsgs
  <2> QED BY <1>1, <2>2, <2>3
<1>17. ASSUME NEW n \in Node, NEW m \in sent, StorageConsensusNodePk(n, m) \/ ReceiveRequest(n, m)
       PROVE  Cast' = Cast
  <2>1. CASE StorageConsensusNodePk(n, m) BY <1>4, <2>1 DEF StorageConsensusNodePk
  <2>2. CASE ReceiveRequest(n, m) BY <1>2, <2>2 DEF ReceiveRequest
  <2> QED BY <1>17, <2>1, <2>2
<1>18. ASSUME NEW n \in Node, NEW u \in mail, Open(n, u) PROVE Cast' = Cast
  <2>1. CASE StorageTblsKey(n, u) BY <1>5, <2>1 DEF StorageTblsKey, CanOpen, VoteKind
  <2>2. CASE HandleNewview(n, u)
    <3>1. /\ mail' = mail \ {u} /\ UNCHANGED <<votes, outbox>>
          /\ u.msg.type \notin VoteKind
      BY <2>2 DEF HandleNewview, CanOpen, VoteKind
    <3> QED BY <1>5, <3>1
  <2>3. ASSUME NEW t, NEW next \in {"PreCommit", "Commit"}, CollectVote(n, u, t, next)
        PROVE  Cast' = Cast
    <3> DEFINE msg == Msg(next, n, u.msg.view, u.msg.block)
    <3>1. RecordVote(n, u) /\ (outbox' = outbox \/ Queue(n, <<msg>>)) BY <2>3 DEF CollectVote
    <3>2. Votes({msg}) = {} BY DEF Votes, VoteKind, Msg
    <3> HIDE DEF msg
    <3>3. CASE outbox' = outbox
      <4>1. Votes(QueuedMsgs') = Votes(QueuedMsgs) BY <3>3 DEF QueuedMsgs, Queued, Votes
      <4> QED BY <1>6, <3>1, <4>1
    <3>4. CASE Queue(n, <<msg>>)
      <4>1. <<msg>> \in Seq({msg}) OBVIOUS
      <4>2. Votes(QueuedMsgs') = Votes(QueuedMsgs) \cup Votes(Elements(<<msg>>))
        BY <3>4, <4>1, QueuedVotes
      <4>3. Votes(QueuedMsgs') = Votes(QueuedMsgs) BY <3>2, <4>2, ShortElements
      <4> QED BY <1>6, <3>1, <4>3
    <3> QED BY <3>1, <3>3, <3>4
  <2>4. CASE HandleCommitVote(n, u)
    <3>1. RecordVote(n, u) BY <2>4 DEF HandleCommitVote
    <3>2. CASE Certifies(n, u)
      <4> DEFINE d == Msg("Decide", n, u.msg.view, u.msg.block)
      <4>1. Decided(n, u.msg.view, u.msg.block, <<d>>) BY <2>4, <3>2 DEF HandleCommitVote
      <4>2. d.type = "Decide" BY DEF Msg
      <4> HIDE DEF d
      <4>3. Votes(QueuedMsgs') = Votes(QueuedMsgs) BY <4>1, <4>2, DecidedNoVote
      <4> QED BY <1>6, <3>1, <4>3
    <3>3. CASE ~Certifies(n, u)
      <4>1. outbox' = outbox BY <2>4, <3>3 DEF HandleCommitVote
      <4>2. Votes(QueuedMsgs') = Votes(QueuedMsgs) BY <4>1 DEF QueuedMsgs, Queued, Votes
      <4> QED BY <1>6, <3>1, <4>2
    <3> QED BY <3>2, <3>3
  <2> QED
    BY <1>18, <2>1, <2>2, <2>3, <2>4 DEF Open, HandlePrepareVote, HandlePrecommitVote
<1>19. CASE UNCHANGED vars BY <1>2, <1>19 DEF vars
<1>20. ASSUME NEW n \in Node, NEW m \in sent, Deliver(n, m)
       PROVE  \/ Cast' = Cast
              \/ HandlePrepare(n, m) /\ Cast' = Cast \cup {Msg("PrepareVote", n, m.view, m.block)}
              \/ HandlePrecommit(n, m)
                   /\ Cast' = Cast \cup {Msg("PreCommitVote", n, m.view, m.block)}
              \/ HandleCommit(n, m) /\ Cast' = Cast \cup {Msg("CommitVote", n, m.view, m.block)}
  BY <1>13, <1>14, <1>15, <1>16, <1>17, <1>20 DEF Deliver
<1> QED
  BY <1>7, <1>8, <1>9, <1>10, <1>11, <1>12, <1>18, <1>19, <1>20 DEF Next

-----------------------------------------------------------------------------
(* Certificates.                                                            *)

Voters(t, v, b) == {n \in Node : Msg(t, n, v, b) \in Cast}

VoteQuorum(t, v, b) == Cardinality(Voters(t, v, b)) >= Threshold

\* A vote is determined by its voter; a commit vote is cast by a node that has locked; a
\* certificate is carried only where a quorum has voted.
MsgOK(m) ==
  /\ m.type \in VoteKind => m.from \in Node /\ m = Msg(m.type, m.from, m.view, m.block)
  /\ m.type = "CommitVote" => m.view \in Nat /\ QcView(lockedQc[m.from]) >= m.view
  /\ m.type = "PreCommit" => VoteQuorum("PrepareVote", m.view, m.block)
  /\ m.type = "Commit" => VoteQuorum("PreCommitVote", m.view, m.block)
  /\ m.type = "Decide" => VoteQuorum("CommitVote", m.view, m.block)

SentOK == \A m \in sent : MsgOK(m)

MailOK == \A u \in mail : MsgOK(u.msg)

VotesOK == \A n \in Node : \A m \in votes[n] : MsgOK(m)

OutboxOK(n) == \E S : outbox[n] \in Seq(S) /\ \A m \in S : MsgOK(m)

ChannelsOK == \A n \in Node : OutboxOK(n)

EndedOK ==
  /\ ended = [n \in Node |-> ended[n]]
  /\ \A n \in Node : \A d \in ended[n] : VoteQuorum("CommitVote", d.view, d.block)

AllOK == SentOK /\ MailOK /\ VotesOK /\ ChannelsOK /\ EndedOK

LadderInv == Domains /\ LocksOK /\ AllOK

\* What every step does: locks and votes are never taken back.
Grow == LocksOK /\ LocksOK' /\ LocksGrow /\ Cast \subseteq Cast'

LEMMA CastOK == ASSUME LadderInv PROVE Channels /\ \A m \in Cast : MsgOK(m) /\ m.type \in VoteKind
<1>1. Channels BY DEF LadderInv, AllOK, ChannelsOK, OutboxOK, Channels
<1>2. ASSUME NEW m \in Votes(MailMsgs) PROVE MsgOK(m)
  BY <1>2 DEF Votes, MailMsgs, LadderInv, AllOK, MailOK
<1>3. ASSUME NEW m \in Votes(LogMsgs) PROVE MsgOK(m)
  BY <1>3 DEF Votes, LogMsgs, LadderInv, AllOK, VotesOK
<1>4. ASSUME NEW m \in Votes(QueuedMsgs) PROVE MsgOK(m)
  <2>1. PICK n \in Node : m \in Queued(n) BY <1>4 DEF Votes, QueuedMsgs
  <2>2. PICK S : outbox[n] \in Seq(S) /\ \A x \in S : MsgOK(x)
    BY DEF LadderInv, AllOK, ChannelsOK, OutboxOK
  <2>3. PICK i \in 1 .. Len(outbox[n]) : m = outbox[n][i] BY <2>1 DEF Queued
  <2>4. outbox[n][i] \in S BY <2>2
  <2> QED BY <2>2, <2>3, <2>4
<1> QED BY <1>1, <1>2, <1>3, <1>4 DEF Cast, Votes

LEMMA SubsetsOfNodes == \A S \in SUBSET Node : IsFiniteSet(S) /\ Cardinality(S) \in Nat
<1>1. IsFiniteSet(Node)
  <2>1. 0 \in Int /\ N - 1 \in Int BY StandAloneAssumption
  <2> QED BY <2>1, FS_Interval DEF Node
<1>2. ASSUME NEW S \in SUBSET Node PROVE IsFiniteSet(S) BY <1>1, FS_Subset
<1> QED BY <1>2, FS_CardinalityType

\* A set of nodes that includes a quorum is one.
LEMMA LargerQuorum ==
  ASSUME NEW R \in SUBSET Node, NEW S \in SUBSET Node, R \subseteq S, Cardinality(R) >= Threshold
  PROVE  Cardinality(S) >= Threshold
<1>1. IsFiniteSet(S) /\ Cardinality(R) \in Nat /\ Cardinality(S) \in Nat BY SubsetsOfNodes
<1>2. Cardinality(R) <= Cardinality(S) BY <1>1, FS_Subset
<1>3. Threshold \in Nat BY StandAloneAssumption DEF Threshold
<1> QED BY <1>1, <1>2, <1>3

\* What holds of a certificate or a message keeps holding.
LEMMA QuorumKept ==
  ASSUME Grow, NEW t, NEW v, NEW b, VoteQuorum(t, v, b)
  PROVE  VoteQuorum(t, v, b)'
<1>1. Voters(t, v, b) \subseteq Voters(t, v, b)' BY DEF Grow, Voters
<1>2. Voters(t, v, b) \in SUBSET Node /\ Voters(t, v, b)' \in SUBSET Node BY DEF Voters
<1> QED BY <1>1, <1>2, LargerQuorum DEF VoteQuorum

LEMMA MsgKept == ASSUME Grow, NEW m, MsgOK(m) PROVE MsgOK(m)'
<1>1. ASSUME m.type = "PreCommit" PROVE VoteQuorum("PrepareVote", m.view, m.block)'
  BY <1>1, QuorumKept DEF MsgOK
<1>2. ASSUME m.type = "Commit" PROVE VoteQuorum("PreCommitVote", m.view, m.block)'
  BY <1>2, QuorumKept DEF MsgOK
<1>3. ASSUME m.type = "Decide" PROVE VoteQuorum("CommitVote", m.view, m.block)'
  BY <1>3, QuorumKept DEF MsgOK
<1>4. ASSUME m.type = "CommitVote"
      PROVE  m.view \in Nat /\ QcView(lockedQc'[m.from]) >= m.view
  <2>1. m.from \in Node /\ m.view \in Nat /\ QcView(lockedQc[m.from]) >= m.view
    BY <1>4 DEF MsgOK, VoteKind
  <2> QED BY <2>1 DEF Grow, LocksOK, LocksGrow
<1>5. m.type \in VoteKind => m.from \in Node /\ m = Msg(m.type, m.from, m.view, m.block)
  BY DEF MsgOK
<1> QED BY <1>1, <1>2, <1>3, <1>4, <1>5 DEF MsgOK

\* The channel after a step that leaves it alone, takes its first message, or adds some.
LEMMA OutboxKept ==
  ASSUME Grow, NEW n \in Node, OutboxOK(n), outbox'[n] = outbox[n]
  PROVE  OutboxOK(n)'
<1>1. PICK S : outbox[n] \in Seq(S) /\ \A m \in S : MsgOK(m) BY DEF OutboxOK
<1>2. \A m \in S : MsgOK(m)' BY <1>1, MsgKept
<1> QED BY <1>1, <1>2 DEF OutboxOK

LEMMA OutboxTaken ==
  ASSUME Grow, NEW n \in Node, OutboxOK(n), outbox[n] # <<>>
  PROVE  /\ MsgOK(Head(outbox[n]))
         /\ outbox'[n] = Tail(outbox[n]) => OutboxOK(n)'
<1>1. PICK S : outbox[n] \in Seq(S) /\ \A m \in S : MsgOK(m) BY DEF OutboxOK
<1>2. \A m \in S : MsgOK(m)' BY <1>1, MsgKept
<1>3. Head(outbox[n]) \in S /\ Tail(outbox[n]) \in Seq(S) BY <1>1
<1> QED BY <1>1, <1>2, <1>3 DEF OutboxOK

LEMMA OutboxQueued ==
  ASSUME Grow, NEW n \in Node, OutboxOK(n),
         NEW T, NEW msgs \in Seq(T), \A m \in T : MsgOK(m)',
         outbox'[n] = outbox[n] \o msgs
  PROVE  OutboxOK(n)'
<1>1. PICK S : outbox[n] \in Seq(S) /\ \A m \in S : MsgOK(m) BY DEF OutboxOK
<1>2. \A m \in S \cup T : MsgOK(m)' BY <1>1, MsgKept
<1>3. outbox[n] \in Seq(S \cup T) /\ msgs \in Seq(S \cup T) BY <1>1
<1>4. outbox[n] \o msgs \in Seq(S \cup T) BY <1>3
<1> QED BY <1>2, <1>4 DEF OutboxOK

\* What a node counts as a certificate is one of as many voters.
LEMMA BallotCertified ==
  ASSUME LadderInv, NEW n \in Node, NEW u \in mail, u.msg.type \in VoteKind, Certifies(n, u)
  PROVE  VoteQuorum(u.msg.type, u.msg.view, u.msg.block)
<1> DEFINE t == u.msg.type
           v == u.msg.view
           b == u.msg.block
<1>1. \A m \in Ballot(n, u) : m \in Cast /\ m.type = t /\ m.view = v /\ m.block = b
  BY DEF Ballot, Cast, Votes, MailMsgs, LogMsgs
<1>2. \A m \in Ballot(n, u) : m.from \in Node /\ m = Msg(t, m.from, v, b)
  BY <1>1, CastOK DEF MsgOK
<1> HIDE DEF t, v, b
<1>3. \A m \in Ballot(n, u) : m.from \in Voters(t, v, b) BY <1>1, <1>2 DEF Voters
<1> DEFINE f == [m \in Ballot(n, u) |-> m.from]
<1>4. f \in [Ballot(n, u) -> Voters(t, v, b)] BY <1>3
<1>5. ASSUME NEW a \in Ballot(n, u), NEW c \in Ballot(n, u), f[a] = f[c] PROVE a = c
  BY <1>2, <1>5
<1>6. f \in Injection(Ballot(n, u), Voters(t, v, b))
  BY <1>4, <1>5 DEF Injection, IsInjective
<1>7. IsFiniteSet(Voters(t, v, b)) /\ Cardinality(Voters(t, v, b)) \in Nat
  BY SubsetsOfNodes DEF Voters
<1>8. Cardinality(Ballot(n, u)) <= Cardinality(Voters(t, v, b))
  <2> HIDE DEF f
  <2> QED BY <1>6, <1>7, FS_Injection
<1>9. Threshold \in Nat BY StandAloneAssumption DEF Threshold
<1> QED BY <1>7, <1>8, <1>9 DEF VoteQuorum, Certifies, t, v, b

LEMMA LadderInvStep == ASSUME LadderInv, [Next]_vars PROVE LadderInv'
<1>1. Domains /\ Domains' /\ LocksOK' /\ Grow
  <2>1. Domains /\ Domains' /\ LocksOK /\ LocksOK' /\ LocksGrow
    BY DomainsStep, LockStep DEF LadderInv
  <2>2. Cast \subseteq Cast' BY <2>1, CastOK, CastStep
  <2> QED BY <2>1, <2>2 DEF Grow
<1>2. SentOK /\ MailOK /\ VotesOK /\ ChannelsOK /\ EndedOK BY DEF LadderInv, AllOK
<1>3. ASSUME NEW m, MsgOK(m) PROVE MsgOK(m)' BY <1>1, <1>3, MsgKept
<1>4. ASSUME NEW v, NEW b, VoteQuorum("CommitVote", v, b) PROVE VoteQuorum("CommitVote", v, b)'
  BY <1>1, <1>4, QuorumKept
<1>5. ASSUME NEW m, m.type \notin VoteKind \cup {"PreCommit", "Commit", "Decide"}
      PROVE  MsgOK(m) /\ MsgOK(m)'
  BY <1>5 DEF MsgOK, VoteKind
<1>vote. ASSUME NEW t \in VoteKind, NEW n \in Node, NEW v, NEW b,
                t = "CommitVote" => v \in Nat /\ QcView(lockedQc'[n]) >= v
         PROVE  MsgOK(Msg(t, n, v, b))'
  <2> DEFINE m == Msg(t, n, v, b)
  <2>1. m.type = t /\ m.from = n /\ m.view = v /\ m.block = b BY DEF Msg
  <2>2. m = Msg(m.type, m.from, m.view, m.block) BY <2>1
  <2> HIDE DEF m
  <2>3. MsgOK(m)' BY <1>vote, <2>1, <2>2 DEF MsgOK, VoteKind
  <2> QED BY <2>3 DEF m
<1>s. ASSUME sent' = sent PROVE SentOK' BY <1>2, <1>3, <1>s DEF SentOK
<1>m. ASSUME mail' \subseteq mail PROVE MailOK' BY <1>2, <1>3, <1>m DEF MailOK
<1>v. ASSUME votes' = votes PROVE VotesOK' BY <1>2, <1>3, <1>v DEF VotesOK
<1>o. ASSUME outbox' = outbox PROVE ChannelsOK' BY <1>1, <1>2, <1>o, OutboxKept DEF ChannelsOK
<1>d. ASSUME ended' = ended PROVE EndedOK' BY <1>2, <1>4, <1>d DEF EndedOK
<1>q. ASSUME NEW n \in Node, NEW msgs, Queue(n, msgs),
             \E T : msgs \in Seq(T) /\ \A m \in T : MsgOK(m)'
      PROVE  ChannelsOK'
  <2> SUFFICES ASSUME NEW q \in Node PROVE OutboxOK(q)' BY DEF ChannelsOK
  <2>1. CASE q # n
    <3>1. outbox'[q] = outbox[q] BY <1>1, <1>q, <2>1 DEF Queue, Domains
    <3> QED BY <1>1, <1>2, <3>1, OutboxKept DEF ChannelsOK
  <2>2. CASE q = n
    <3>1. outbox'[q] = outbox[q] \o msgs BY <1>1, <1>q, <2>2 DEF Queue, Domains
    <3> QED BY <1>1, <1>2, <1>q, <3>1, OutboxQueued DEF ChannelsOK
  <2> QED BY <2>1, <2>2
<1>one. ASSUME NEW msg, MsgOK(msg)'
        PROVE  \E T : <<msg>> \in Seq(T) /\ \A m \in T : MsgOK(m)'
  <2>s. SUFFICES ASSUME NEW s, s = <<msg>> PROVE \E T : s \in Seq(T) /\ \A m \in T : MsgOK(m)'
    OBVIOUS
  <2>1. s \in Seq({msg}) BY <2>s
  <2>2. \A m \in {msg} : MsgOK(m)' BY <1>one
  <2> QED BY <2>1, <2>2
<1>n. ASSUME NEW n \in Node
      PROVE  \E T : NewViewMsg(n) \in Seq(T) /\ \A m \in T : MsgOK(m)'
  <2>1. PICK nv : nv.type = "NewView" /\ (NewViewMsg(n) = <<>> \/ NewViewMsg(n) = <<nv>>)
    BY DEF NewViewMsg
  <2>2. MsgOK(nv)' BY <1>5, <2>1 DEF VoteKind
  <2>3. <<>> \in Seq({nv}) /\ <<nv>> \in Seq({nv}) OBVIOUS
  <2>4. NewViewMsg(n) \in Seq({nv}) BY <2>1, <2>3
  <2> QED BY <2>2, <2>4
<1>end. ASSUME NEW n \in Node, NEW v, NEW b, NEW first, Decided(n, v, b, first),
               VoteQuorum("CommitVote", v, b),
               \/ first = <<>>
               \/ \E T : first \in Seq(T) /\ \A m \in T : MsgOK(m)'
        PROVE  ChannelsOK' /\ EndedOK'
  <2> DEFINE e == [type |-> "End", cmd |-> b.cmd]
  <2>1. MsgOK(e)' BY <1>5 DEF VoteKind
  <2>2. Queue(n, first \o <<e>> \o NewViewMsg(n)) BY <1>end DEF Decided
  <2> HIDE DEF e
  <2>3. PICK T : first \in Seq(T) /\ \A m \in T : MsgOK(m)'
    <3>1. CASE first = <<>>
      <4>1. <<>> \in Seq({}) OBVIOUS
      <4> WITNESS {}
      <4> QED BY <3>1, <4>1
    <3> QED BY <1>end, <3>1
  <2>4. PICK U : NewViewMsg(n) \in Seq(U) /\ \A m \in U : MsgOK(m)' BY <1>n
  <2> DEFINE W == T \cup {e} \cup U
  <2>5. \A m \in W : MsgOK(m)' BY <2>1, <2>3, <2>4
  <2>6. first \in Seq(W) /\ <<e>> \in Seq(W) /\ NewViewMsg(n) \in Seq(W) BY <2>3, <2>4
  <2> HIDE DEF W
  <2>7. first \o <<e>> \o NewViewMsg(n) \in Seq(W) BY <2>6
  <2>8. ChannelsOK' BY <1>q, <2>2, <2>5, <2>7
  <2>9. \A q \in Node : \A d \in ended'[q] : d \in ended[q] \/ d = QC(v, b)
    BY <1>1, <1>end DEF Decided, Domains
  <2>10. /\ QC(v, b).view = v /\ QC(v, b).block = b
         /\ VoteQuorum("CommitVote", v, b)'
    BY <1>4, <1>end DEF QC
  <2>11. \A q \in Node : \A d \in ended[q] : VoteQuorum("CommitVote", d.view, d.block)'
    BY <1>2, <1>4 DEF EndedOK
  <2>12. ended' = [q \in Node |-> ended'[q]]
    <3>1. ended' = [ended EXCEPT ![n] = @ \cup {QC(v, b)}] BY <1>end DEF Decided
    <3> QED BY <1>1, <3>1 DEF Domains
  <2>13. EndedOK' BY <2>9, <2>10, <2>11, <2>12 DEF EndedOK
  <2> QED BY <2>8, <2>13
<1> SUFFICES AllOK' BY <1>1 DEF LadderInv
<1> USE DEF AllOK
<1>6. CASE DistributeKey
  <2>1. SentOK'
    BY <1>2, <1>3, <1>5, <1>6 DEF DistributeKey, SentOK, VoteKind
  <2>2. MailOK'
    BY <1>2, <1>3, <1>5, <1>6 DEF DistributeKey, MailOK, VoteKind
  <2> QED BY <1>6, <1>v, <1>o, <1>d, <2>1, <2>2 DEF DistributeKey
<1>7. ASSUME NEW r \in Request, CreateRequest(r) PROVE AllOK'
  <2>1. SentOK' BY <1>2, <1>3, <1>5, <1>7 DEF CreateRequest, SentOK, VoteKind
  <2> QED BY <1>7, <1>m, <1>v, <1>o, <1>d, <2>1 DEF CreateRequest
<1>8. ASSUME NEW n \in Node, \/ ProposalStateCheck(n) \/ TimerExpires(n) \/ Panics(n)
                              \/ \E w \in writes[n] : TaskWrites(n, w)
      PROVE  AllOK'
  <2>1. UNCHANGED <<sent, mail, votes, outbox, ended>>
    BY <1>8 DEF ProposalStateCheck, TimerExpires, Panics, TaskWrites
  <2> QED BY <1>s, <1>m, <1>v, <1>o, <1>d, <2>1
<1>9. ASSUME NEW n \in Node, ViewTimeout(n) PROVE AllOK'
  <2>1. UNCHANGED <<sent, mail, votes, ended>> /\ Queue(n, NewViewMsg(n)) BY <1>9 DEF ViewTimeout
  <2> QED BY <1>s, <1>m, <1>v, <1>d, <1>n, <1>q, <2>1
<1>10. ASSUME NEW n \in Node, StartConsensus(n) PROVE AllOK'
  <2>1. UNCHANGED <<sent, mail, votes, ended>> BY <1>10 DEF StartConsensus
  <2>2. ASSUME NEW msg, msg.type = "Prepare", Queue(n, <<msg>>) PROVE ChannelsOK'
    <3>1. MsgOK(msg)' BY <1>5, <2>2 DEF VoteKind
    <3>2. \E T : <<msg>> \in Seq(T) /\ \A m \in T : MsgOK(m)' BY <1>one, <3>1
    <3> QED BY <1>q, <2>2, <3>2
  <2>3. ChannelsOK' BY <1>10, <1>o, <2>2 DEF StartConsensus
  <2> QED BY <1>s, <1>m, <1>v, <1>d, <2>1, <2>3
<1>11. ASSUME NEW n \in Node, Transmit(n) PROVE AllOK'
  <2>1. UNCHANGED <<votes, ended>> /\ outbox[n] # <<>> BY <1>11 DEF Transmit
  <2> DEFINE h == Head(outbox[n])
  <2>h. MsgOK(h) BY <1>1, <1>2, <2>1, OutboxTaken DEF ChannelsOK
  <2>2. \A m \in {h} : MsgOK(m)' BY <1>3, <2>h
  <2>3. sent' = sent \/ sent' = sent \cup {h} BY <1>11 DEF Transmit
  <2>4. mail' = mail \/ mail' = mail \cup {[to |-> primary[n], msg |-> h]} BY <1>11 DEF Transmit
  <2>5. SentOK' BY <1>2, <1>3, <2>2, <2>3 DEF SentOK
  <2>6. MailOK' BY <1>2, <1>3, <2>2, <2>4 DEF MailOK
  <2>7. ASSUME NEW q \in Node PROVE OutboxOK(q)'
    <3>1. CASE q # n
      <4>1. outbox'[q] = outbox[q] BY <1>1, <1>11, <3>1 DEF Transmit, Domains
      <4> QED BY <1>1, <1>2, <4>1, OutboxKept DEF ChannelsOK
    <3>2. CASE q = n
      <4>1. outbox'[q] = Tail(outbox[q]) BY <1>1, <1>11, <3>2 DEF Transmit, Domains
      <4> QED BY <1>1, <1>2, <2>1, <3>2, <4>1, OutboxTaken DEF ChannelsOK
    <3> QED BY <3>1, <3>2
  <2> QED BY <1>v, <1>d, <2>1, <2>5, <2>6, <2>7 DEF ChannelsOK
<1>12. ASSUME NEW n \in Node, NEW m \in sent, Deliver(n, m) PROVE AllOK'
  <2>1. CASE StorageConsensusNodePk(n, m)
    <3>1. UNCHANGED <<sent, mail, votes, ended>> /\ Queue(n, NewViewMsg(n))
      BY <2>1 DEF StorageConsensusNodePk
    <3> QED BY <1>s, <1>m, <1>v, <1>d, <1>n, <1>q, <3>1
  <2>2. CASE ReceiveRequest(n, m)
    BY <1>s, <1>m, <1>v, <1>o, <1>d, <2>2 DEF ReceiveRequest
  <2>3. CASE HandlePrepare(n, m)
    <3> DEFINE vote == Msg("PrepareVote", n, m.view, m.block)
    <3>1. UNCHANGED <<sent, mail, votes, ended>> BY <2>3 DEF HandlePrepare
    <3>2. MsgOK(vote)' BY <1>vote DEF VoteKind
    <3>3. \E T : <<vote>> \in Seq(T) /\ \A x \in T : MsgOK(x)' BY <1>one, <3>2
    <3>4. \E T : <<>> \in Seq(T) /\ \A x \in T : MsgOK(x)'
      <4>s. SUFFICES ASSUME NEW s, s = <<>> PROVE \E T : s \in Seq(T) /\ \A x \in T : MsgOK(x)'
        OBVIOUS
      <4>1. s \in Seq({}) BY <4>s
      <4> QED BY <4>1
    <3>5. Queue(n, <<vote>>) \/ Queue(n, <<>>) BY <2>3 DEF HandlePrepare
    <3> HIDE DEF vote
    <3>6. ChannelsOK' BY <1>q, <3>3, <3>4, <3>5
    <3> QED BY <1>s, <1>m, <1>v, <1>d, <3>1, <3>6
  <2>4. CASE HandlePrecommit(n, m)
    <3> DEFINE vote == Msg("PreCommitVote", n, m.view, m.block)
    <3>1. UNCHANGED <<sent, mail, votes, ended>> /\ Queue(n, <<vote>>) BY <2>4 DEF HandlePrecommit
    <3>2. MsgOK(vote)' BY <1>vote DEF VoteKind
    <3> HIDE DEF vote
    <3>3. \E T : <<vote>> \in Seq(T) /\ \A x \in T : MsgOK(x)' BY <1>one, <3>2
    <3> QED BY <1>s, <1>m, <1>v, <1>d, <1>q, <3>1, <3>3
  <2>5. CASE HandleCommit(n, m)
    <3> DEFINE vote == Msg("CommitVote", n, m.view, m.block)
    <3>1. UNCHANGED <<sent, mail, votes, ended>> /\ Queue(n, <<vote>>) BY <2>5 DEF HandleCommit
    <3>2. m.view = view[n] /\ m.view \in Nat
      BY <1>1, <2>5 DEF HandleCommit, InView, Domains, Views
    <3>3. lockedQc'[n] = QC(m.view, m.block) BY <1>1, <2>5 DEF HandleCommit, Domains
    <3>4. QC(m.view, m.block) # NoQC BY DEF QC, NoQC
    <3>5. QcView(lockedQc'[n]) = m.view BY <3>3, <3>4 DEF QcView, QC
    <3>6. QcView(lockedQc'[n]) >= m.view BY <3>2, <3>5
    <3>7. MsgOK(vote)' BY <1>vote, <3>2, <3>6 DEF VoteKind
    <3> HIDE DEF vote
    <3>8. \E T : <<vote>> \in Seq(T) /\ \A x \in T : MsgOK(x)' BY <1>one, <3>7
    <3> QED BY <1>s, <1>m, <1>v, <1>d, <1>q, <3>1, <3>8
  <2>6. CASE HandleDecide(n, m)
    <3>1. UNCHANGED <<sent, mail, votes>> BY <2>6 DEF HandleDecide
    <3>2. VoteQuorum("CommitVote", m.view, m.block)
      BY <1>2, <2>6 DEF HandleDecide, InView, CanReceive, SentOK, MsgOK
    <3>3. Decided(n, m.view, m.block, <<>>) BY <2>6 DEF HandleDecide
    <3> QED BY <1>s, <1>m, <1>v, <1>end, <3>1, <3>2, <3>3
  <2> QED BY <1>12, <2>1, <2>2, <2>3, <2>4, <2>5, <2>6 DEF Deliver
<1>13. ASSUME NEW n \in Node, NEW u \in mail, Open(n, u) PROVE AllOK'
  <2>r. ASSUME RecordVote(n, u) PROVE MailOK' /\ VotesOK'
    <3>1. mail' \subseteq mail BY <2>r DEF RecordVote
    <3>2. MsgOK(u.msg)' BY <1>2, <1>3 DEF MailOK
    <3>3. \A q \in Node : \A x \in votes'[q] : x \in votes[q] \/ x = u.msg
      BY <1>1, <2>r DEF RecordVote, Domains
    <3>4. \A q \in Node : \A x \in votes[q] : MsgOK(x)' BY <1>2, <1>3 DEF VotesOK
    <3>5. VotesOK' BY <3>2, <3>3, <3>4 DEF VotesOK
    <3> QED BY <1>m, <3>1, <3>5
  <2>1. CASE StorageTblsKey(n, u)
    BY <1>s, <1>m, <1>v, <1>o, <1>d, <2>1 DEF StorageTblsKey
  <2>2. CASE HandleNewview(n, u)
    <3>1. UNCHANGED <<sent, votes, outbox, ended>> /\ mail' \subseteq mail
      BY <2>2 DEF HandleNewview
    <3> QED BY <1>s, <1>m, <1>v, <1>o, <1>d, <3>1
  <2>3. ASSUME NEW t \in VoteKind, NEW next, CollectVote(n, u, t, next),
               \/ t = "PrepareVote" /\ next = "PreCommit"
               \/ t = "PreCommitVote" /\ next = "Commit"
        PROVE  AllOK'
    <3> DEFINE msg == Msg(next, n, u.msg.view, u.msg.block)
    <3>1. UNCHANGED <<sent, ended>> /\ RecordVote(n, u) BY <2>3 DEF CollectVote
    <3>2. ASSUME Certifies(n, u) PROVE MsgOK(msg)
      <4>1. u.msg.type = t BY <2>3 DEF CollectVote, CanOpen
      <4>2. VoteQuorum(t, u.msg.view, u.msg.block) BY <2>3, <3>2, <4>1, BallotCertified
      <4>3. msg.type = next /\ msg.view = u.msg.view /\ msg.block = u.msg.block BY DEF Msg
      <4> HIDE DEF msg
      <4> QED BY <2>3, <4>2, <4>3 DEF MsgOK, VoteKind
    <3>3. outbox' = outbox \/ (Certifies(n, u) /\ Queue(n, <<msg>>)) BY <2>3 DEF CollectVote
    <3> HIDE DEF msg
    <3>4. Certifies(n, u) => \E T : <<msg>> \in Seq(T) /\ \A x \in T : MsgOK(x)'
      BY <1>3, <1>one, <3>2
    <3>5. ChannelsOK' BY <1>o, <1>q, <3>3, <3>4
    <3> QED BY <1>s, <1>d, <2>r, <3>1, <3>5
  <2>4. CASE HandleCommitVote(n, u)
    <3>1. sent' = sent /\ RecordVote(n, u) /\ u.msg.type = "CommitVote"
      BY <2>4 DEF HandleCommitVote, CanOpen
    <3>2. CASE Certifies(n, u)
      <4> DEFINE msg == Msg("Decide", n, u.msg.view, u.msg.block)
      <4>1. VoteQuorum("CommitVote", u.msg.view, u.msg.block)
        BY <3>1, <3>2, BallotCertified DEF VoteKind
      <4>2. msg.type = "Decide" /\ msg.view = u.msg.view /\ msg.block = u.msg.block BY DEF Msg
      <4>3. MsgOK(msg)
        <5> HIDE DEF msg
        <5> QED BY <4>1, <4>2 DEF MsgOK, VoteKind
      <4>4. Decided(n, u.msg.view, u.msg.block, <<msg>>) BY <2>4, <3>2 DEF HandleCommitVote
      <4> HIDE DEF msg
      <4>5. \E T : <<msg>> \in Seq(T) /\ \A x \in T : MsgOK(x)' BY <1>3, <1>one, <4>3
      <4> QED BY <1>s, <1>end, <2>r, <3>1, <4>1, <4>4, <4>5
    <3>3. CASE ~Certifies(n, u)
      <4>1. UNCHANGED <<outbox, ended>> BY <2>4, <3>3 DEF HandleCommitVote
      <4> QED BY <1>s, <1>o, <1>d, <2>r, <3>1, <4>1
    <3> QED BY <3>2, <3>3
  <2> QED
    BY <1>13, <2>1, <2>2, <2>3, <2>4 DEF Open, HandlePrepareVote, HandlePrecommitVote, VoteKind
<1>14. CASE UNCHANGED vars
  <2>1. UNCHANGED <<sent, mail, votes, outbox, ended>> BY <1>14 DEF vars
  <2> QED BY <1>s, <1>m, <1>v, <1>o, <1>d, <2>1
<1> QED BY <1>6, <1>7, <1>8, <1>9, <1>10, <1>11, <1>12, <1>13, <1>14 DEF Next

LEMMA LadderInvInit == ASSUME Init PROVE LadderInv
<1>1. Domains BY DomainsInit
<1>2. LocksOK BY DEF Init, LocksOK, QcView
<1>3. ASSUME NEW n \in Node PROVE OutboxOK(n)
  <2>1. outbox[n] \in Seq({}) BY DEF Init
  <2> QED BY <2>1 DEF OutboxOK
<1>4. AllOK BY <1>3 DEF Init, AllOK, SentOK, MailOK, VotesOK, ChannelsOK, EndedOK
<1> QED BY <1>1, <1>2, <1>4 DEF LadderInv

LEMMA CommittedLocked == ASSUME LadderInv PROVE DecisionLocked
<1> SUFFICES ASSUME NEW n \in Node, NEW d \in ended[n]
             PROVE  Cardinality({q \in Node : QcView(lockedQc[q]) >= d.view}) >= Threshold
  BY DEF DecisionLocked
<1> DEFINE R == Voters("CommitVote", d.view, d.block)
           S == {q \in Node : QcView(lockedQc[q]) >= d.view}
<1>1. ASSUME NEW q \in R PROVE q \in S
  <2> DEFINE m == Msg("CommitVote", q, d.view, d.block)
  <2>1. q \in Node /\ m \in Cast BY <1>1 DEF Voters
  <2>2. MsgOK(m) BY <2>1, CastOK
  <2>3. m.type = "CommitVote" /\ m.from = q /\ m.view = d.view BY DEF Msg
  <2> HIDE DEF m
  <2> QED BY <2>1, <2>2, <2>3 DEF MsgOK
<1>2. Cardinality(R) >= Threshold BY DEF LadderInv, AllOK, EndedOK, VoteQuorum
<1>3. R \in SUBSET Node /\ S \in SUBSET Node BY DEF Voters
<1> HIDE DEF R, S
<1>4. Cardinality(S) >= Threshold BY <1>1, <1>2, <1>3, LargerQuorum
<1> QED BY <1>4 DEF S

\* handle_commit stores the certificate before it votes and takes none of another view: for
\* any number of nodes and any f, a block that a node ends in view v, by its own count of
\* votes or by the word of the leader, is one 2f + 1 nodes are locked on or past, and stay so
\* whatever timeouts, late votes and repeated proposals follow.
THEOREM DecisionLockedAlways == Spec => []DecisionLocked
<1>1. Init => LadderInv BY LadderInvInit
<1>2. LadderInv /\ [Next]_vars => LadderInv' BY LadderInvStep
<1>3. LadderInv => DecisionLocked BY CommittedLocked
<1> QED BY <1>1, <1>2, <1>3, PTL DEF Spec

-----------------------------------------------------------------------------
(* Refinement.                                                              *)

\* The ballots of PhaseLadder are the votes, and its certificates theirs.
LEMMA BallotsAreVotes ==
  ASSUME LadderInv, NEW p \in 1 .. 3, NEW n \in Node, NEW v, NEW b
  PROVE  [node |-> n, block |-> QC(v, b)] \in Ballots[p] <=> Msg(VoteType(p), n, v, b) \in Cast
<1> DEFINE t == VoteType(p)
           c == [node |-> n, block |-> QC(v, b)]
           x == Msg(t, n, v, b)
<1>1. Ballots[p] = {[node |-> m.from, block |-> QC(m.view, m.block)] : m \in {y \in Cast : y.type = t}}
  BY DEF Ballots
<1>2. x.type = t /\ x.from = n /\ x.view = v /\ x.block = b BY DEF Msg
<1>3. ASSUME x \in Cast PROVE c \in Ballots[p]
  <2> HIDE DEF x, t
  <2> QED BY <1>1, <1>2, <1>3
<1>4. ASSUME c \in Ballots[p] PROVE x \in Cast
  <2>1. PICK m \in Cast : m.type = t /\ c = [node |-> m.from, block |-> QC(m.view, m.block)]
    BY <1>1, <1>4
  <2>2. m = Msg(t, m.from, m.view, m.block) BY <2>1, CastOK DEF MsgOK
  <2>3. m.from = n /\ QC(m.view, m.block) = QC(v, b)
    <3>1. c.node = n /\ c.block = QC(v, b) OBVIOUS
    <3> HIDE DEF c
    <3> QED BY <2>1, <3>1
  <2>4. m.view = v /\ m.block = b
    <3>1. QC(m.view, m.block).view = m.view /\ QC(m.view, m.block).block = m.block BY DEF QC
    <3>2. QC(v, b).view = v /\ QC(v, b).block = b BY DEF QC
    <3> QED BY <2>3, <3>1, <3>2
  <2> QED BY <2>2, <2>3, <2>4
<1> QED BY <1>3, <1>4

LEMMA CertifiedIsQuorum ==
  ASSUME LadderInv, NEW p \in 1 .. 3, NEW v, NEW b, VoteQuorum(VoteType(p), v, b)
  PROVE  Ladder!Certified(p, QC(v, b))
<1>1. {n \in Node : [node |-> n, block |-> QC(v, b)] \in Ballots[p]} = Voters(VoteType(p), v, b)
  BY BallotsAreVotes DEF Voters
<1> QED BY <1>1 DEF Ladder!Certified, Ladder!Cardinality, Cardinality, VoteQuorum

\* A vote cast is a ballot cast.
LEMMA CastBallot ==
  ASSUME NEW p \in 1 .. 3, NEW n, NEW v, NEW b,
         Cast' = Cast \cup {Msg(VoteType(p), n, v, b)}
  PROVE  Ballots' = [Ballots EXCEPT ![p] = @ \cup {[node |-> n, block |-> QC(v, b)]}]
<1> DEFINE Of(C, q) == {[node |-> m.from, block |-> QC(m.view, m.block)] :
                          m \in {y \in C : y.type = VoteType(q)}}
           x == Msg(VoteType(p), n, v, b)
           c == [node |-> n, block |-> QC(v, b)]
<1>1. x.type = VoteType(p) /\ c = [node |-> x.from, block |-> QC(x.view, x.block)] BY DEF Msg
<1>2. \A q \in 1 .. 3 : q # p => VoteType(q) # VoteType(p)
  BY DEF VoteType
<1> HIDE DEF x, c
<1>3. \A q \in 1 .. 3 : Of(Cast \cup {x}, q) = IF q = p THEN Of(Cast, q) \cup {c} ELSE Of(Cast, q)
  BY <1>1, <1>2
<1>4. /\ Ballots = [q \in 1 .. 3 |-> Of(Cast, q)]
      /\ Ballots' = [q \in 1 .. 3 |-> Of(Cast \cup {x}, q)]
  BY DEF Ballots, x
<1> HIDE DEF Of
<1>5. Ballots' = [Ballots EXCEPT ![p] = @ \cup {c}] BY <1>3, <1>4
<1> QED BY <1>5 DEF c

\* A ballot of phase p follows a certificate of phase p - 1.
LEMMA VoteStep ==
  ASSUME LadderInv, NEW p \in 1 .. 3, NEW n \in Node, NEW v, NEW b,
         Cast' = Cast \cup {Msg(VoteType(p), n, v, b)}, ended' = ended,
         p > 1 => VoteQuorum(VoteType(p - 1), v, b)
  PROVE  [Ladder!Next]_(Ladder!vars)
<1> DEFINE c == [node |-> n, block |-> QC(v, b)]
<1>1. Ballots' = [Ballots EXCEPT ![p] = @ \cup {c}] BY CastBallot
<1>2. c.node = n /\ c.block = QC(v, b) OBVIOUS
<1>3. p > 1 => Ladder!Certified(p - 1, QC(v, b))
  <2>1. p > 1 => p - 1 \in 1 .. 3 OBVIOUS
  <2> QED BY <2>1, CertifiedIsQuorum
<1>4. Ladder!Vote(n, p, QC(v, b)) BY <1>1, <1>3 DEF Ladder!Vote
<1>5. DOMAIN Ballots = 1 .. 3 BY DEF Ballots
<1>6. CASE c \in Ballots[p]
  <2>1. Ballots' = Ballots
    <3>1. Ballots[p] \cup {c} = Ballots[p] BY <1>6
    <3>2. Ballots = [q \in 1 .. 3 |-> Ballots[q]] BY DEF Ballots
    <3> QED BY <1>1, <3>1, <3>2
  <2> QED BY <2>1 DEF Ladder!vars
<1>7. CASE c \notin Ballots[p]
  <2>1. c \in Ballots'[p] \ Ballots[p] BY <1>1, <1>5, <1>7
  <2> HIDE DEF c
  <2>2. \E cast \in Ballots'[p] \ Ballots[p] :
          cast.node \in Node /\ Ladder!Vote(cast.node, p, cast.block)
    BY <1>2, <1>4, <2>1
  <2> QED BY <2>2 DEF Ladder!Next
<1> QED BY <1>6, <1>7

\* A decision follows a commit certificate.
LEMMA DecideStep ==
  ASSUME LadderInv, NEW n \in Node, NEW v, NEW b, Cast' = Cast,
         ended' = [ended EXCEPT ![n] = @ \cup {QC(v, b)}], VoteQuorum("CommitVote", v, b)
  PROVE  [Ladder!Next]_(Ladder!vars)
<1> DEFINE d == QC(v, b)
<1>1. Ballots' = Ballots BY DEF Ballots
<1>2. Ladder!Certified(3, d)
  <2>1. VoteType(3) = "CommitVote" BY DEF VoteType
  <2> QED BY <2>1, CertifiedIsQuorum
<1>3. Ladder!Decide(n, d) BY <1>1, <1>2 DEF Ladder!Decide
<1>4. DOMAIN ended = Node BY DEF LadderInv, Domains
<1> HIDE DEF d
<1>5. ended' = [ended EXCEPT ![n] = @ \cup {d}] BY DEF d
<1>6. CASE ended' = ended BY <1>1, <1>6 DEF Ladder!vars
<1>7. CASE d \in ended'[n] \ ended[n] BY <1>3, <1>7 DEF Ladder!Next
<1>8. CASE d \in ended[n]
  <2>1. ended[n] \cup {d} = ended[n] BY <1>8
  <2>2. ended = [q \in Node |-> ended[q]] BY DEF LadderInv, AllOK, EndedOK
  <2>3. ended' = ended BY <1>5, <2>1, <2>2
  <2> QED BY <1>6, <2>3
<1> QED BY <1>4, <1>5, <1>7, <1>8

\* Only two handlers end a block, one for a certificate it is sent, one for its own.
LEMMA EndedStep ==
  ASSUME LadderInv, [Next]_vars
  PROVE  \/ ended' = ended
         \/ \E n \in Node : \E v, b : /\ ended' = [ended EXCEPT ![n] = @ \cup {QC(v, b)}]
                                      /\ VoteQuorum("CommitVote", v, b)
<1>1. CASE DistributeKey BY <1>1 DEF DistributeKey
<1>2. CASE \E r \in Request : CreateRequest(r) BY <1>2 DEF CreateRequest
<1>3. ASSUME NEW n \in Node, \/ ProposalStateCheck(n) \/ TimerExpires(n) \/ ViewTimeout(n)
                              \/ Transmit(n) \/ StartConsensus(n) \/ Panics(n)
                              \/ \E w \in writes[n] : TaskWrites(n, w)
      PROVE  ended' = ended
  BY <1>3 DEF ProposalStateCheck, TimerExpires, ViewTimeout, Transmit, StartConsensus, Panics,
              TaskWrites
<1>4. ASSUME NEW n \in Node, NEW m \in sent, HandleDecide(n, m)
      PROVE  /\ ended' = [ended EXCEPT ![n] = @ \cup {QC(m.view, m.block)}]
             /\ VoteQuorum("CommitVote", m.view, m.block)
  <2>1. MsgOK(m) /\ m.type = "Decide"
    BY <1>4 DEF LadderInv, AllOK, SentOK, HandleDecide, InView, CanReceive
  <2>2. ended' = [ended EXCEPT ![n] = @ \cup {QC(m.view, m.block)}]
    BY <1>4 DEF HandleDecide, Decided
  <2> QED BY <2>1, <2>2 DEF MsgOK
<1>5. ASSUME NEW n \in Node, NEW m \in sent, Deliver(n, m), ~HandleDecide(n, m)
      PROVE  ended' = ended
  BY <1>5 DEF Deliver, StorageConsensusNodePk, ReceiveRequest, HandlePrepare, HandlePrecommit,
              HandleCommit
<1>6. ASSUME NEW n \in Node, NEW u \in mail, HandleCommitVote(n, u), Certifies(n, u)
      PROVE  /\ ended' = [ended EXCEPT ![n] = @ \cup {QC(u.msg.view, u.msg.block)}]
             /\ VoteQuorum("CommitVote", u.msg.view, u.msg.block)
  <2>1. u.msg.type = "CommitVote" BY <1>6 DEF HandleCommitVote, CanOpen
  <2>2. VoteQuorum("CommitVote", u.msg.view, u.msg.block)
    BY <1>6, <2>1, BallotCertified DEF VoteKind
  <2>3. ended' = [ended EXCEPT ![n] = @ \cup {QC(u.msg.view, u.msg.block)}]
    BY <1>6 DEF HandleCommitVote, Decided
  <2> QED BY <2>2, <2>3
<1>7. ASSUME NEW n \in Node, NEW u \in mail, HandleCommitVote(n, u), ~Certifies(n, u)
      PROVE  ended' = ended
  BY <1>7 DEF HandleCommitVote
<1>8. ASSUME NEW n \in Node, NEW u \in mail, Open(n, u), ~HandleCommitVote(n, u)
      PROVE  ended' = ended
  BY <1>8 DEF Open, StorageTblsKey, HandleNewview, HandlePrepareVote, HandlePrecommitVote,
              CollectVote
<1>9. CASE UNCHANGED vars BY <1>9 DEF vars
<1> QED BY <1>1, <1>2, <1>3, <1>4, <1>5, <1>6, <1>7, <1>8, <1>9 DEF Next

LEMMA LadderStep == ASSUME LadderInv, [Next]_vars PROVE [Ladder!Next]_(Ladder!vars)
<1>1. Domains /\ Channels /\ SentOK BY CastOK DEF LadderInv, AllOK
<1>2. VoteType(1) = "PrepareVote" /\ VoteType(2) = "PreCommitVote" /\ VoteType(3) = "CommitVote"
  BY DEF VoteType
<1>3. ASSUME NEW n \in Node, NEW m \in sent, HandlePrepare(n, m),
             Cast' = Cast \cup {Msg("PrepareVote", n, m.view, m.block)}
      PROVE  ended' = ended /\ [Ladder!Next]_(Ladder!vars)
  <2>1. ended' = ended BY <1>3 DEF HandlePrepare
  <2> QED BY <1>2, <1>3, <2>1, VoteStep
<1>4. ASSUME NEW n \in Node, NEW m \in sent, HandlePrecommit(n, m),
             Cast' = Cast \cup {Msg("PreCommitVote", n, m.view, m.block)}
      PROVE  ended' = ended /\ [Ladder!Next]_(Ladder!vars)
  <2>1. ended' = ended BY <1>4 DEF HandlePrecommit
  <2>2. VoteQuorum(VoteType(2 - 1), m.view, m.block)
    BY <1>1, <1>2, <1>4 DEF HandlePrecommit, InView, CanReceive, SentOK, MsgOK
  <2> QED BY <1>2, <1>4, <2>1, <2>2, VoteStep
<1>5. ASSUME NEW n \in Node, NEW m \in sent, HandleCommit(n, m),
             Cast' = Cast \cup {Msg("CommitVote", n, m.view, m.block)}
      PROVE  ended' = ended /\ [Ladder!Next]_(Ladder!vars)
  <2>1. ended' = ended BY <1>5 DEF HandleCommit
  <2>2. VoteQuorum(VoteType(3 - 1), m.view, m.block)
    BY <1>1, <1>2, <1>5 DEF HandleCommit, InView, CanReceive, SentOK, MsgOK
  <2> QED BY <1>2, <1>5, <2>1, <2>2, VoteStep
<1>6. CASE Cast' = Cast
  <2>1. CASE ended' = ended
    <3>1. Ballots' = Ballots BY <1>6 DEF Ballots
    <3> QED BY <2>1, <3>1 DEF Ladder!vars
  <2>2. CASE ended' # ended BY <1>6, <2>2, EndedStep, DecideStep
  <2> QED BY <2>1, <2>2
<1> QED BY <1>1, <1>3, <1>4, <1>5, <1>6, CastStep

LEMMA LadderInit == ASSUME Init PROVE Ladder!Init
<1>1. Cast = {}
  <2>1. MailMsgs = {} BY DEF Init, MailMsgs
  <2>2. LogMsgs = {} BY DEF Init, LogMsgs
  <2>3. ASSUME NEW n \in Node PROVE Queued(n) = {} BY DEF Init, Queued
  <2>4. QueuedMsgs = {} BY <2>3 DEF QueuedMsgs
  <2> QED BY <2>1, <2>2, <2>4 DEF Cast, Votes
<1>2. Ballots = [p \in 1 .. 3 |-> {}] BY <1>1 DEF Ballots
<1>3. ended = [n \in Node |-> {}] BY DEF Init
<1> QED BY <1>2, <1>3 DEF Ladder!Init

\* The phases of the stand-alone Basic HotStuff implement PhaseLadder for any number of nodes
\* and any f: handle_precommit and handle_commit vote only for a block whose certificate a
\* quorum of the phase before stands behind, and handle_commit_vote and handle_decide end only
\* blocks with a commit certificate, although votes are queued, misdirected and counted late.
THEOREM LadderImplemented == Spec => ImplementsLadder
<1>1. Init => LadderInv BY LadderInvInit
<1>2. LadderInv /\ [Next]_vars => LadderInv' BY LadderInvStep
<1>3. Init => Ladder!Init BY LadderInit
<1>4. LadderInv /\ [Next]_vars => [Ladder!Next]_(Ladder!vars) BY LadderStep
<1> QED BY <1>1, <1>2, <1>3, <1>4, PTL DEF Spec, ImplementsLadder, Ladder!Spec
=============================================================================
