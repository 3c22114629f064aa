-------------------------- MODULE NonAuthPBFTProofs --------------------------
(* Proofs, for any set of nodes and of requests and any f, of what PBFT without  *)
(* signatures keeps although its handlers check so little: what a node reports,  *)
(* and how often, and what the leader may close.                                 *)
EXTENDS NonAuthPBFT, FiniteSetTheorems, TLAPS

USE DEF netVars, logVars, modeVars

-----------------------------------------------------------------------------
(* Types.                                                                   *)

\* A slot is filled together with the primary, so that a report has somewhere to go.
PrimaryKnown ==
  \A n \in Node : /\ primary[n] \in {Leader, NoNode}
                  /\ requests[n] # NoRequest => primary[n] = Leader

\* Only the leader proposes; what a log holds was received, from others.
FromOthers ==
  /\ \A m \in sent : m.type = "PrePrepare" => m.from = Leader
  /\ \A n \in Node : /\ messages[n] \subseteq seen[n] /\ seen[n] \subseteq sent
                     /\ \A m \in seen[n] : m.from # n

TypeInv == TypeOK /\ PrimaryKnown /\ FromOthers

LEMMA MsgTyped ==
  ASSUME NEW t \in {"PrePrepare", "Prepare", "Commit"}, NEW n \in Node, NEW r \in Request
  PROVE  Msg(t, n, r) \in Message /\ Msg(t, n, r).type = t /\ Msg(t, n, r).from = n
BY DEF Msg, Message

LEMMA TypeInvInit == ASSUME Init PROVE TypeInv
<1>1. <<>> \in Seq(Request) OBVIOUS
<1>2. endData \in [Node -> Seq(Request)] BY <1>1 DEF Init
<1>3. TypeOK BY <1>2 DEF Init, TypeOK
<1>4. PrimaryKnown /\ FromOthers BY DEF Init, PrimaryKnown, FromOthers
<1> QED BY <1>3, <1>4 DEF TypeInv

\* What ContinueExecute does with a message.
LEMMA Continued ==
  ASSUME TypeOK, NEW n \in Node, NEW m \in Message, ContinueExecute(n, m)
  PROVE  /\ sent' = sent \/ sent' = sent \cup {m}
         /\ sent' \subseteq Message /\ alive' \subseteq Node
BY DEF ContinueExecute, Broadcast, MaliciousTrigger, TypeOK

\* A log may be reset at any time as far as types go.
LEMMA ResetTyped ==
  ASSUME TypeOK, NEW n \in Node, LogReset(n)
  PROVE  /\ requests' \in [Node -> Request \cup {NoRequest}]
         /\ messages' \in [Node -> SUBSET Message]
         /\ prepared' \in [Node -> SUBSET Request]
         /\ requests'[n] = NoRequest /\ messages'[n] = {}
         /\ \A q \in Node \ {n} : requests'[q] = requests[q] /\ messages'[q] = messages[q]
BY DEF LogReset, TypeOK

LEMMA RecordTyped ==
  ASSUME TypeOK, NEW n \in Node, NEW m \in Message, Record(n, m)
  PROVE  /\ messages' \in [Node -> SUBSET Message] /\ messages'[n] = messages[n] \cup {m}
         /\ \A q \in Node \ {n} : messages'[q] = messages[q]
BY DEF Record, TypeOK

LEMMA SeeTyped ==
  ASSUME TypeOK, NEW n \in Node, NEW m \in Message, See(n, m)
  PROVE  /\ seen' \in [Node -> SUBSET Message] /\ seen'[n] = seen[n] \cup {m}
         /\ \A q \in Node \ {n} : seen'[q] = seen[q]
BY DEF See, TypeOK

\* record_request fills an empty slot.
LEMMA SlotTyped ==
  ASSUME TypeOK, NEW n \in Node, NEW r \in Request, RecordRequest(n, r)
  PROVE  /\ requests' \in [Node -> Request \cup {NoRequest}]
         /\ requests'[n] = IF requests[n] = NoRequest THEN r ELSE requests[n]
         /\ \A q \in Node \ {n} : requests'[q] = requests[q]
BY DEF RecordRequest, TypeOK

LEMMA MarkTyped ==
  ASSUME TypeOK, NEW n \in Node, NEW r \in Request, NEW form \in {"bincode", "json"}, Mark(n, r, form)
  PROVE  /\ taken' \in [Node -> SUBSET [req : Request, form : {"bincode", "json"}]]
         /\ taken'[n] = taken[n] \cup {[req |-> r, form |-> form]}
         /\ \A q \in Node \ {n} : taken'[q] = taken[q]
BY DEF Mark, TypeOK

\* What a node reports goes at the end of its reports, and to the leader.
LEMMA CompleteTyped ==
  ASSUME TypeInv, NEW n \in Node, Complete(n), requests[n] # NoRequest
  PROVE  /\ alive' \subseteq Node /\ LogReset(n) /\ requests[n] \in Request
         /\ \/ UNCHANGED <<replies, endData>>
            \/ /\ endData' = [endData EXCEPT ![n] = Append(@, requests[n])]
               /\ \/ replies' = replies
                  \/ /\ n # Leader
                     /\ replies' = replies \cup {[from |-> n, to |-> Leader, req |-> requests[n]]}
<1>1. primary[n] = Leader BY DEF TypeInv, PrimaryKnown
<1>2. requests[n] \in Request BY DEF TypeInv, TypeOK
<1>3. alive' \subseteq Node BY DEF Complete, MaliciousTrigger, TypeInv, TypeOK
<1> QED BY <1>1, <1>2, <1>3 DEF Complete, SendReply

LEMMA TypeInvStep == ASSUME TypeInv, [Next]_vars PROVE TypeInv'
<1>t. TypeOK /\ PrimaryKnown /\ FromOthers BY DEF TypeInv
<1>l. Leader \in Node /\ NoNode \notin Node BY NonAuthAssumption
<1>1. CASE ExtraInitialStart
  <2>1. primary' \in [Node -> Node \cup {NoNode}] /\ PrimaryKnown'
    BY <1>1, <1>t, <1>l DEF ExtraInitialStart, TypeOK, PrimaryKnown
  <2>2. FromOthers' BY <1>1, <1>t DEF ExtraInitialStart, FromOthers
  <2>3. TypeOK' BY <1>1, <1>t, <2>1 DEF ExtraInitialStart, TypeOK
  <2> QED BY <2>1, <2>2, <2>3 DEF TypeInv
<1>2. ASSUME NEW r \in Request, HandleRequest(r) PROVE TypeInv'
  <2> DEFINE m == Msg("PrePrepare", Leader, r)
  <2>1. m \in Message /\ m.type = "PrePrepare" /\ m.from = Leader BY <1>l, MsgTyped
  <2> HIDE DEF m
  <2>2. ContinueExecute(Leader, m) BY <1>2 DEF HandleRequest, m
  <2>3. (sent' = sent \/ sent' = sent \cup {m}) /\ sent' \subseteq Message /\ alive' \subseteq Node
    BY <1>t, <1>l, <2>1, <2>2, Continued
  <2>4. requests' \in [Node -> Request \cup {NoRequest}] /\ \A q \in Node \ {Leader} : requests'[q] = requests[q]
    BY <1>2, <1>t, <1>l, SlotTyped DEF HandleRequest
  <2>5. taken' \in [Node -> SUBSET [req : Request, form : {"bincode", "json"}]]
    BY <1>2, <1>t, <1>l, MarkTyped DEF HandleRequest
  <2>6. primary' \in [Node -> Node \cup {NoNode}] /\ PrimaryKnown'
    BY <1>2, <1>t, <1>l, <2>4 DEF HandleRequest, TypeOK, PrimaryKnown
  <2>7. FromOthers' BY <1>2, <1>t, <2>1, <2>3 DEF HandleRequest, FromOthers
  <2>8. TypeOK' BY <1>2, <1>t, <2>3, <2>4, <2>5, <2>6 DEF HandleRequest, TypeOK
  <2> QED BY <2>6, <2>7, <2>8 DEF TypeInv
<1>3. ASSUME NEW n \in Node, MaliciousNotify(n) PROVE TypeInv'
  BY <1>3, <1>t DEF MaliciousNotify, TypeInv, TypeOK, PrimaryKnown, FromOthers
<1>4. ASSUME NEW n \in Node, NEW m \in sent, HandlePreprepare(n, m) PROVE TypeInv'
  <2>1. m \in Message /\ m.req \in Request /\ m.from = Leader /\ m.from # n
    BY <1>4, <1>t DEF HandlePreprepare, CanReceive, TypeOK, Message, FromOthers
  <2> DEFINE p == Msg("Prepare", n, m.req)
  <2>2. p \in Message /\ p.type = "Prepare" BY <2>1, MsgTyped
  <2> HIDE DEF p
  <2>3. (sent' = sent \/ sent' = sent \cup {p}) /\ sent' \subseteq Message /\ alive' \subseteq Node
    <3>1. ContinueExecute(n, p) BY <1>4 DEF HandlePreprepare, p
    <3> QED BY <1>t, <2>2, <3>1, Continued
  <2>4. requests' \in [Node -> Request \cup {NoRequest}] /\ \A q \in Node \ {n} : requests'[q] = requests[q]
    BY <1>4, <1>t, <2>1, SlotTyped DEF HandlePreprepare
  <2>5. taken' \in [Node -> SUBSET [req : Request, form : {"bincode", "json"}]]
    BY <1>4, <1>t, <2>1, MarkTyped DEF HandlePreprepare, TakeProposal
  <2>6. primary' \in [Node -> Node \cup {NoNode}] /\ PrimaryKnown'
    BY <1>4, <1>t, <1>l, <2>1, <2>4 DEF HandlePreprepare, TakeProposal, TypeOK, PrimaryKnown
  <2>7. /\ seen' \in [Node -> SUBSET Message] /\ seen'[n] = seen[n] \cup {m}
        /\ \A q \in Node \ {n} : seen'[q] = seen[q]
    BY <1>4, <1>t, <2>1, SeeTyped DEF HandlePreprepare
  <2>8. /\ messages' \in [Node -> SUBSET Message] /\ messages'[n] = messages[n] \cup {m}
        /\ \A q \in Node \ {n} : messages'[q] = messages[q]
    BY <1>4, <1>t, <2>1, RecordTyped DEF HandlePreprepare
  <2>9. FromOthers' BY <1>t, <2>1, <2>2, <2>3, <2>7, <2>8 DEF FromOthers
  <2>10. TypeOK' BY <1>4, <1>t, <2>3, <2>4, <2>5, <2>6, <2>7, <2>8 DEF HandlePreprepare, TypeOK
  <2> QED BY <2>6, <2>9, <2>10 DEF TypeInv
<1>5. ASSUME NEW n \in Node, NEW m \in sent, HandlePrepare(n, m) PROVE TypeInv'
  <2>1. m \in Message /\ m.req \in Request /\ m.from # n
    BY <1>5, <1>t DEF HandlePrepare, CanReceive, TypeOK, Message
  <2> DEFINE p == Msg("Commit", n, m.req)
  <2>2. p \in Message /\ p.type = "Commit" BY <2>1, MsgTyped
  <2> HIDE DEF p
  <2>3. (sent' = sent \/ sent' = sent \cup {p}) /\ sent' \subseteq Message /\ alive' \subseteq Node
    <3>1. ContinueExecute(n, p) \/ UNCHANGED <<sent, alive>> BY <1>5 DEF HandlePrepare, p
    <3> QED BY <1>t, <2>2, <3>1, Continued DEF TypeOK
  <2>4. /\ seen' \in [Node -> SUBSET Message] /\ seen'[n] = seen[n] \cup {m}
        /\ \A q \in Node \ {n} : seen'[q] = seen[q]
    BY <1>5, <1>t, <2>1, SeeTyped DEF HandlePrepare
  <2>5. /\ messages' \in [Node -> SUBSET Message] /\ messages'[n] \subseteq messages[n] \cup {m}
        /\ \A q \in Node \ {n} : messages'[q] = messages[q]
    <3>1. CASE Record(n, m) BY <1>t, <2>1, <3>1, RecordTyped
    <3>2. CASE UNCHANGED messages BY <1>t, <3>2 DEF TypeOK
    <3> QED BY <1>5, <3>1, <3>2 DEF HandlePrepare
  <2>6. prepared' \in [Node -> SUBSET Request] BY <1>5, <1>t, <2>1 DEF HandlePrepare, TypeOK
  <2>7. FromOthers' BY <1>t, <2>1, <2>2, <2>3, <2>4, <2>5 DEF FromOthers
  <2>8. TypeOK' BY <1>5, <1>t, <2>3, <2>4, <2>5, <2>6 DEF HandlePrepare, TypeOK
  <2>9. PrimaryKnown' BY <1>5, <1>t DEF HandlePrepare, PrimaryKnown
  <2> QED BY <2>7, <2>8, <2>9 DEF TypeInv
<1>6. ASSUME NEW n \in Node, NEW m \in sent, HandleCommit(n, m) PROVE TypeInv'
  <2>1. m \in Message /\ m.from # n
    BY <1>6, <1>t DEF HandleCommit, CanReceive, TypeOK
  <2>2. /\ seen' \in [Node -> SUBSET Message] /\ seen'[n] = seen[n] \cup {m}
        /\ \A q \in Node \ {n} : seen'[q] = seen[q]
    BY <1>6, <1>t, <2>1, SeeTyped DEF HandleCommit
  <2>3. UNCHANGED <<started, sent, primary, replyMessages, taken, malicious, startData, over>>
    BY <1>6 DEF HandleCommit
  <2>4. CASE AcceptsCommit(n, m) /\ Complete(n)
    <3>1. requests[n] # NoRequest BY <2>4 DEF AcceptsCommit
    <3>2. /\ alive' \subseteq Node /\ LogReset(n) /\ requests[n] \in Request
          /\ \/ UNCHANGED <<replies, endData>>
             \/ /\ endData' = [endData EXCEPT ![n] = Append(@, requests[n])]
                /\ \/ replies' = replies
                   \/ replies' = replies \cup {[from |-> n, to |-> Leader, req |-> requests[n]]}
      BY <2>4, <3>1, CompleteTyped
    <3>3. endData' \in [Node -> Seq(Request)]
      <4>1. endData \in [Node -> Seq(Request)] BY <1>t DEF TypeOK
      <4>2. Append(endData[n], requests[n]) \in Seq(Request) BY <3>2, <4>1
      <4> QED BY <3>2, <4>1, <4>2
    <3>4. replies' \subseteq Reply BY <1>t, <1>l, <3>2 DEF TypeOK, Reply
    <3>5. /\ requests' \in [Node -> Request \cup {NoRequest}]
          /\ messages' \in [Node -> SUBSET Message]
          /\ prepared' \in [Node -> SUBSET Request]
          /\ requests'[n] = NoRequest /\ messages'[n] = {}
          /\ \A q \in Node \ {n} : requests'[q] = requests[q] /\ messages'[q] = messages[q]
      BY <1>t, <3>2, ResetTyped
    <3>6. FromOthers' BY <1>t, <2>1, <2>2, <2>3, <3>5 DEF FromOthers
    <3>7. PrimaryKnown' BY <1>t, <2>3, <3>5 DEF PrimaryKnown
    <3>8. TypeOK' BY <1>t, <2>2, <2>3, <3>2, <3>3, <3>4, <3>5 DEF TypeOK
    <3> QED BY <3>6, <3>7, <3>8 DEF TypeInv
  <2>5. CASE /\ UNCHANGED <<replies, requests, prepared, alive, endData>>
             /\ Record(n, m) \/ UNCHANGED messages
    <3>1. /\ messages' \in [Node -> SUBSET Message] /\ messages'[n] \subseteq messages[n] \cup {m}
          /\ \A q \in Node \ {n} : messages'[q] = messages[q]
      BY <1>t, <2>1, <2>5, RecordTyped DEF TypeOK
    <3>2. FromOthers' BY <1>t, <2>1, <2>2, <2>3, <3>1 DEF FromOthers
    <3>3. PrimaryKnown' BY <1>t, <2>3, <2>5 DEF PrimaryKnown
    <3>4. TypeOK' BY <1>t, <2>2, <2>3, <2>5, <3>1 DEF TypeOK
    <3> QED BY <3>2, <3>3, <3>4 DEF TypeInv
  <2> QED BY <1>6, <2>4, <2>5 DEF HandleCommit
<1>7. ASSUME NEW n \in Node, NEW m \in replies, HandleReply(n, m) PROVE TypeInv'
  <2>1. m \in Reply /\ m.req \in Request BY <1>t DEF TypeOK, Reply
  <2>2. /\ UNCHANGED <<started, sent, seen, primary, taken, modeVars, startData, endData>>
        /\ replies' = replies \ {m}
    BY <1>7 DEF HandleReply
  <2>3. replyMessages' \in [Node -> SUBSET Reply] /\ over' \subseteq Request
    <3>1. replyMessages \in [Node -> SUBSET Reply] /\ over \subseteq Request BY <1>t DEF TypeOK
    <3>2. WithReply(n, m) \in SUBSET Reply BY <2>1, <3>1 DEF WithReply
    <3>3. /\ \/ replyMessages' = [replyMessages EXCEPT ![n] = {}]
             \/ replyMessages' = [replyMessages EXCEPT ![n] = WithReply(n, m)]
          /\ over' = over \/ over' = over \cup {m.req}
      BY <1>7 DEF HandleReply
    <3> QED BY <2>1, <3>1, <3>2, <3>3
  <2>4. CASE LogReset(n)
    <3>1. /\ requests' \in [Node -> Request \cup {NoRequest}]
          /\ messages' \in [Node -> SUBSET Message]
          /\ prepared' \in [Node -> SUBSET Request]
          /\ requests'[n] = NoRequest /\ messages'[n] = {}
          /\ \A q \in Node \ {n} : requests'[q] = requests[q] /\ messages'[q] = messages[q]
      BY <1>t, <2>4, ResetTyped
    <3>2. FromOthers' BY <1>t, <2>2, <3>1 DEF FromOthers
    <3>3. PrimaryKnown' BY <1>t, <2>2, <3>1 DEF PrimaryKnown
    <3>4. TypeOK' BY <1>t, <2>2, <2>3, <3>1 DEF TypeOK
    <3> QED BY <3>2, <3>3, <3>4 DEF TypeInv
  <2>5. CASE UNCHANGED <<requests, messages, prepared>>
    <3>1. FromOthers' BY <1>t, <2>2, <2>5 DEF FromOthers
    <3>2. PrimaryKnown' BY <1>t, <2>2, <2>5 DEF PrimaryKnown
    <3>3. TypeOK' BY <1>t, <2>2, <2>3, <2>5 DEF TypeOK
    <3> QED BY <3>1, <3>2, <3>3 DEF TypeInv
  <2> QED BY <1>7, <2>4, <2>5 DEF HandleReply
<1>8. CASE UNCHANGED vars
  BY <1>8, <1>t DEF vars, TypeInv, TypeOK, PrimaryKnown, FromOthers
<1> QED BY <1>1, <1>2, <1>3, <1>4, <1>5, <1>6, <1>7, <1>8 DEF Next, Deliver

\* handle_commit replies to State::primary and reports the request in the slot without asking
\* whether either is there: with any number of nodes and whatever order messages come in, a
\* slot is filled only together with the primary, so that both are.
THEOREM NonAuthTypes == Spec => []TypeOK
<1>1. Init => TypeInv BY TypeInvInit
<1>2. TypeInv /\ [Next]_vars => TypeInv' BY TypeInvStep
<1>3. TypeInv => TypeOK BY DEF TypeInv
<1> QED BY <1>1, <1>2, <1>3, PTL DEF Spec

-----------------------------------------------------------------------------
(* What a node reports.                                                     *)

\* The requests a sequence of reports names.
Named(s) == {s[i] : i \in 1..Len(s)}

Distinct(s) == \A i, j \in 1..Len(s) : s[i] = s[j] => i = j

\* The requests a node was asked to agree on: the leader by the controller, the others by the leader.
Proposed(n) ==
  IF n = Leader THEN {r \in Request : CheckTaken(n, r)}
  ELSE {r \in Request : Msg("PrePrepare", Leader, r) \in seen[n]}

\* A request in the slot was proposed and has not been reported.
ReportOK(n) ==
  /\ requests[n] # NoRequest => requests[n] \in Proposed(n) \ Named(endData[n])
  /\ Named(endData[n]) \subseteq Proposed(n)
  /\ Distinct(endData[n])

ReportInv == \A n \in Node : ReportOK(n)

LEMMA NamedAppend ==
  ASSUME NEW s \in Seq(Request), NEW r \in Request
  PROVE  /\ Named(Append(s, r)) = Named(s) \cup {r}
         /\ r \notin Named(s) /\ Distinct(s) => Distinct(Append(s, r))
<1> DEFINE t == Append(s, r)
<1>1. Len(s) \in Nat /\ Len(t) = Len(s) + 1 /\ t[Len(s) + 1] = r OBVIOUS
<1>2. \A i \in 1..Len(s) : t[i] = s[i] OBVIOUS
<1>3. \A i \in 1..Len(t) : i \in 1..Len(s) \/ i = Len(s) + 1 BY <1>1
<1>4. 1..Len(s) \subseteq 1..Len(t) /\ Len(s) + 1 \in 1..Len(t) BY <1>1
<1> HIDE DEF t
<1>5. Named(t) = Named(s) \cup {r} BY <1>1, <1>2, <1>3, <1>4 DEF Named
<1>6. ASSUME r \notin Named(s), Distinct(s) PROVE Distinct(t)
  BY <1>1, <1>2, <1>3, <1>6 DEF Named, Distinct
<1> QED BY <1>5, <1>6 DEF t

LEMMA NamedEmpty == Named(<<>>) = {} /\ Distinct(<<>>)
BY DEF Named, Distinct

\* A node keeps its reports.
LEMMA ReportsKept ==
  ASSUME TypeInv, [Next]_vars
  PROVE  \A n \in Node :
           \/ endData'[n] = endData[n]
           \/ /\ requests[n] \in Request /\ requests'[n] = NoRequest
              /\ endData'[n] = Append(endData[n], requests[n])
<1>t. TypeOK BY DEF TypeInv
<1>1. ASSUME NEW n \in Node, NEW m \in sent, HandleCommit(n, m), ~UNCHANGED endData
      PROVE  /\ requests[n] \in Request /\ requests'[n] = NoRequest
             /\ endData' = [endData EXCEPT ![n] = Append(@, requests[n])]
  <2>1. AcceptsCommit(n, m) /\ Complete(n) BY <1>1 DEF HandleCommit
  <2>2. requests[n] # NoRequest BY <2>1 DEF AcceptsCommit
  <2>3. requests'[n] = NoRequest BY <1>t, <2>1, ResetTyped DEF Complete
  <2>4. endData' = [endData EXCEPT ![n] = Append(@, requests[n])] BY <1>1, <2>1 DEF Complete
  <2> QED BY <1>t, <2>2, <2>3, <2>4 DEF TypeOK
<1>2. \/ UNCHANGED endData
      \/ \E n \in Node : \E m \in sent : HandleCommit(n, m)
  BY DEF Next, Deliver, vars, ExtraInitialStart, HandleRequest, MaliciousNotify, HandlePreprepare,
         HandlePrepare, HandleReply
<1> QED BY <1>1, <1>2, <1>t DEF TypeOK

\* Nothing that was proposed is forgotten.
LEMMA ProposedKept ==
  ASSUME TypeInv, [Next]_vars, NEW n \in Node
  PROVE  Proposed(n) \subseteq Proposed(n)'
<1>t. TypeOK BY DEF TypeInv
<1>1. seen[n] \subseteq seen'[n]
  BY <1>t DEF Next, Deliver, vars, ExtraInitialStart, HandleRequest, MaliciousNotify, HandlePreprepare,
         HandlePrepare, HandleCommit, HandleReply, See, TypeOK
<1>2. taken[n] \subseteq taken'[n]
  <2>1. \A q \in Node : \A r, form : Mark(q, r, form) => taken[n] \subseteq taken'[n]
    BY <1>t DEF Mark, TypeOK
  <2>2. UNCHANGED taken \/ \E q \in Node : \E r, form : Mark(q, r, form)
    BY NonAuthAssumption DEF Next, Deliver, vars, ExtraInitialStart, HandleRequest, MaliciousNotify,
         HandlePreprepare, HandlePrepare, HandleCommit, HandleReply, TakeProposal
  <2> QED BY <2>1, <2>2
<1> QED BY <1>1, <1>2 DEF Proposed, CheckTaken

\* A slot is filled by a proposal the node had not had before.
LEMMA SlotFilled ==
  ASSUME TypeInv, [Next]_vars, NEW n \in Node, requests'[n] # requests[n], requests'[n] # NoRequest
  PROVE  requests'[n] \in Proposed(n)' \ Proposed(n)
<1>t. TypeOK /\ FromOthers BY DEF TypeInv
<1>l. Leader \in Node BY NonAuthAssumption
<1>1. ASSUME NEW r \in Request, HandleRequest(r) PROVE requests'[n] \in Proposed(n)' \ Proposed(n)
  <2>1. n = Leader /\ requests'[n] = r
    BY <1>1, <1>t, <1>l, SlotTyped DEF HandleRequest
  <2>2. CheckTaken(n, r)' /\ ~CheckTaken(n, r)
    BY <1>1, <1>t, <1>l, <2>1, MarkTyped DEF HandleRequest, CheckTaken
  <2> QED BY <2>1, <2>2 DEF Proposed
<1>2. ASSUME NEW q \in Node, NEW m \in sent, HandlePreprepare(q, m)
      PROVE  requests'[n] \in Proposed(n)' \ Proposed(n)
  <2>1. m \in Message /\ m.req \in Request /\ m.from = Leader /\ m.from # q /\ m \notin seen[q]
        /\ m.type = "PrePrepare"
    BY <1>2, <1>t DEF HandlePreprepare, CanReceive, TypeOK, Message, FromOthers
  <2>2. q = n /\ requests'[n] = m.req
    BY <1>2, <1>t, <2>1, SlotTyped DEF HandlePreprepare
  <2>3. m = Msg("PrePrepare", Leader, m.req) BY <2>1 DEF Message, Msg
  <2>4. m \in seen'[n] BY <1>2, <1>t, <2>1, <2>2, SeeTyped DEF HandlePreprepare
  <2> QED BY <2>1, <2>2, <2>3, <2>4 DEF Proposed
<1>3. \/ \E r \in Request : HandleRequest(r)
      \/ \E q \in Node : \E m \in sent : HandlePreprepare(q, m)
  <2>1. \A q \in Node : LogReset(q) => requests'[n] \in {requests[n], NoRequest}
    BY <1>t, ResetTyped
  <2>2. \A q \in Node : \A m \in sent : HandleCommit(q, m) => UNCHANGED requests \/ LogReset(q)
    BY DEF HandleCommit, Complete
  <2>3. \A q \in Node : \A m \in replies : HandleReply(q, m) => UNCHANGED requests \/ LogReset(q)
    BY DEF HandleReply
  <2>4. ~UNCHANGED requests OBVIOUS
  <2> QED BY <2>1, <2>2, <2>3, <2>4
        DEF Next, Deliver, vars, ExtraInitialStart, MaliciousNotify, HandlePrepare
<1> QED BY <1>1, <1>2, <1>3

LEMMA ReportInvStep == ASSUME TypeInv, TypeInv', ReportInv, [Next]_vars PROVE ReportInv'
<1> SUFFICES ASSUME NEW n \in Node PROVE ReportOK(n)'
  BY DEF ReportInv
<1>1. ReportOK(n) BY DEF ReportInv
<1>2. Proposed(n) \subseteq Proposed(n)' BY ProposedKept
<1>3. endData[n] \in Seq(Request) BY DEF TypeInv, TypeOK
<1>4. CASE endData'[n] = endData[n]
  <2>1. requests'[n] # NoRequest => requests'[n] \in Proposed(n)' \ Named(endData[n])
    BY <1>1, <1>2, SlotFilled DEF ReportOK
  <2> QED BY <1>1, <1>2, <1>4, <2>1 DEF ReportOK
<1>5. CASE /\ requests[n] \in Request /\ requests'[n] = NoRequest
           /\ endData'[n] = Append(endData[n], requests[n])
  <2>1. requests[n] \in Proposed(n) \ Named(endData[n]) BY <1>1, <1>5, NonAuthAssumption DEF ReportOK
  <2>2. Named(endData'[n]) = Named(endData[n]) \cup {requests[n]} /\ Distinct(endData'[n])
    BY <1>1, <1>3, <1>5, <2>1, NamedAppend DEF ReportOK
  <2> QED BY <1>1, <1>2, <1>5, <2>1, <2>2 DEF ReportOK
<1> QED BY <1>4, <1>5, ReportsKept

\* handle_commit reports what the slot holds whatever request was committed, and log.reset()
\* forgets everything; still no node, the leader included, ever reports a request twice: the slot
\* is only filled by a proposal that is new to the node, and is emptied with the report.
THEOREM ReportedOnceAlways == Spec => []ReportedOnce
<1>1. Init => TypeInv /\ ReportInv
  <2> SUFFICES ASSUME Init PROVE ReportInv BY TypeInvInit
  <2> QED BY NamedEmpty DEF Init, ReportInv, ReportOK
<1>2. TypeInv /\ ReportInv /\ [Next]_vars => (TypeInv /\ ReportInv)' BY TypeInvStep, ReportInvStep
<1>3. ReportInv => ReportedOnce BY DEF ReportInv, ReportOK, ReportedOnce, Distinct
<1> QED BY <1>1, <1>2, <1>3, PTL DEF Spec

-----------------------------------------------------------------------------
(* What the leader closes.                                                  *)

\* A reply that is under way or counted comes from a replica that has reported its request.
ReplyOK(x) == x.to = Leader /\ x.from # Leader /\ x.req \in Named(endData[x.from])

ReplyInv ==
  /\ \A x \in replies : ReplyOK(x)
  /\ \A n \in Node : \A x \in replyMessages[n] : ReplyOK(x)
  /\ OverCertified

\* The replicas that have reported r.
Reporters(r) == {n \in Node \ {Leader} : r \in Named(endData[n])}

\* Messages that differ in their senders only are no more than the senders.
LEMMA CountedSenders ==
  ASSUME NEW B, NEW R, IsFiniteSet(R), \A x \in B : x.from \in R,
         \A x, y \in B : x.from = y.from => x = y
  PROVE  /\ IsFiniteSet(B) /\ Cardinality(B) \in Nat /\ Cardinality(R) \in Nat
         /\ Cardinality(B) <= Cardinality(R)
<1> DEFINE f == [x \in B |-> x.from]
<1>1. f \in [B -> R] OBVIOUS
<1>2. ASSUME NEW x \in B, NEW y \in B, f[x] = f[y] PROVE x = y BY <1>2
<1>3. f \in Injection(B, R) BY <1>1, <1>2 DEF Injection, IsInjective
<1> HIDE DEF f
<1> QED BY <1>3, FS_Injection, FS_CardinalityType

LEMMA NodesFinite ==
  ASSUME NEW S \in SUBSET Node
  PROVE  IsFiniteSet(S) /\ Cardinality(S) \in Nat /\ Cardinality(S) <= Cardinality(Node)
         /\ Cardinality(Node) \in Nat
BY NonAuthAssumption, FS_Subset, FS_CardinalityType

LEMMA OverByReporters ==
  /\ OverCertified <=> \A r \in over : Cardinality(Reporters(r)) >= ReplyThreshold
  /\ OverCertified' <=> \A r \in over' : Cardinality(Reporters(r)') >= ReplyThreshold
<1>1. ASSUME NEW r
      PROVE  /\ Reporters(r) = {n \in Node \ {Leader} : \E i \in 1..Len(endData[n]) : endData[n][i] = r}
             /\ Reporters(r)' = {n \in Node \ {Leader} : \E i \in 1..Len(endData'[n]) : endData'[n][i] = r}
  BY DEF Reporters, Named
<1> QED BY <1>1 DEF OverCertified, ReplyThreshold

LEMMA ReportersGrow ==
  ASSUME TypeInv, [Next]_vars
  PROVE  /\ \A n \in Node : Named(endData[n]) \subseteq Named(endData'[n])
         /\ \A r : Cardinality(Reporters(r)) <= Cardinality(Reporters(r)')
<1>1. ASSUME NEW n \in Node PROVE Named(endData[n]) \subseteq Named(endData'[n])
  <2>1. endData[n] \in Seq(Request) BY DEF TypeInv, TypeOK
  <2>2. \A r \in Request : Named(Append(endData[n], r)) = Named(endData[n]) \cup {r}
    BY <2>1, NamedAppend
  <2> QED BY <2>2, ReportsKept
<1>2. ASSUME NEW r PROVE Cardinality(Reporters(r)) <= Cardinality(Reporters(r)')
  <2>1. Reporters(r) \subseteq Reporters(r)' BY <1>1 DEF Reporters
  <2>2. Reporters(r)' \subseteq Node BY DEF Reporters
  <2>3. IsFiniteSet(Reporters(r)') BY <2>2, NodesFinite
  <2> QED BY <2>1, <2>3, FS_Subset
<1> QED BY <1>1, <1>2

LEMMA ReplyInvStep == ASSUME TypeInv, TypeInv', ReplyInv, [Next]_vars PROVE ReplyInv'
<1>t. TypeOK /\ TypeOK' /\ FromOthers BY DEF TypeInv
<1>l. Leader \in Node BY NonAuthAssumption
<1>g. \A n \in Node : Named(endData[n]) \subseteq Named(endData'[n]) BY ReportersGrow
<1>k. ASSUME NEW x \in Reply, ReplyOK(x) PROVE ReplyOK(x)'
  BY <1>k, <1>g DEF ReplyOK, Reply
<1>1. ASSUME NEW n \in Node, NEW m \in sent, HandleCommit(n, m), Complete(n), AcceptsCommit(n, m)
      PROVE  \A x \in replies' : ReplyOK(x)'
  <2>1. requests[n] # NoRequest BY <1>1 DEF AcceptsCommit
  <2>2. /\ requests[n] \in Request
        /\ \/ replies' = replies
           \/ /\ endData' = [endData EXCEPT ![n] = Append(@, requests[n])]
              /\ n # Leader
              /\ replies' = replies \cup {[from |-> n, to |-> Leader, req |-> requests[n]]}
    BY <1>1, <2>1, CompleteTyped
  <2>3. \A x \in replies : ReplyOK(x)' BY <1>t, <1>k DEF ReplyInv, TypeOK
  <2>4. ASSUME n # Leader, endData' = [endData EXCEPT ![n] = Append(@, requests[n])],
               NEW x, x = [from |-> n, to |-> Leader, req |-> requests[n]]
        PROVE  ReplyOK(x)'
    <3>1. endData[n] \in Seq(Request) /\ endData'[n] = Append(endData[n], requests[n])
      BY <1>t, <2>4 DEF TypeOK
    <3>2. requests[n] \in Named(endData'[n]) BY <2>2, <3>1, NamedAppend
    <3> QED BY <2>4, <3>2 DEF ReplyOK
  <2> QED BY <2>2, <2>3, <2>4
<1>2. \A x \in replies' : ReplyOK(x)'
  <2>1. \/ replies' \subseteq replies
        \/ \E n \in Node : \E m \in sent : HandleCommit(n, m) /\ Complete(n) /\ AcceptsCommit(n, m)
    BY DEF Next, Deliver, vars, ExtraInitialStart, HandleRequest, MaliciousNotify, HandlePreprepare,
         HandlePrepare, HandleCommit, HandleReply
  <2>2. CASE replies' \subseteq replies BY <2>2, <1>t, <1>k DEF ReplyInv, TypeOK
  <2> QED BY <1>1, <2>1, <2>2
<1>3. CASE UNCHANGED <<replyMessages, over>>
  <2>1. \A n \in Node : \A x \in replyMessages[n] : ReplyOK(x)' BY <1>t, <1>k DEF ReplyInv, TypeOK
  <2>2. OverCertified'
    <3>1. \A r \in over : Cardinality(Reporters(r)) >= ReplyThreshold BY OverByReporters DEF ReplyInv
    <3>2. \A r \in over' : Cardinality(Reporters(r)') >= ReplyThreshold
      <4> SUFFICES ASSUME NEW r \in over PROVE Cardinality(Reporters(r)') >= ReplyThreshold BY <1>3
      <4>1. Cardinality(Reporters(r)) <= Cardinality(Reporters(r)') BY ReportersGrow
      <4>2. Reporters(r) \in SUBSET Node /\ Reporters(r)' \in SUBSET Node BY DEF Reporters
      <4>3. Cardinality(Reporters(r)) \in Nat /\ Cardinality(Reporters(r)') \in Nat BY <4>2, NodesFinite
      <4>4. Cardinality(Node) \in Nat BY <4>2, NodesFinite
      <4> QED BY <3>1, <4>1, <4>3, <4>4, NonAuthAssumption DEF ReplyThreshold
    <3> QED BY <3>2, OverByReporters
  <2> QED BY <1>2, <1>3, <2>1, <2>2 DEF ReplyInv
<1>4. ASSUME NEW n \in Node, NEW m \in replies, HandleReply(n, m) PROVE ReplyInv'
  <2>1. m \in Reply /\ ReplyOK(m) BY <1>t DEF TypeOK, ReplyInv
  <2>2. UNCHANGED endData BY <1>4 DEF HandleReply
  <2> DEFINE C == {x \in WithReply(n, m) : x.req = m.req}
  <2>3. \A x \in WithReply(n, m) : x \in Reply /\ ReplyOK(x)
    BY <1>t, <2>1 DEF WithReply, ReplyInv, TypeOK
  <2>4. \A q \in Node : \A x \in replyMessages'[q] : ReplyOK(x)'
    <3>1. \/ replyMessages' = [replyMessages EXCEPT ![n] = {}]
          \/ replyMessages' = [replyMessages EXCEPT ![n] = WithReply(n, m)]
      BY <1>4 DEF HandleReply
    <3>2. \A q \in Node : replyMessages'[q] \subseteq replyMessages[q] \/ replyMessages'[q] = WithReply(n, m)
      BY <1>t, <3>1 DEF TypeOK
    <3>3. \A q \in Node : \A x \in replyMessages'[q] : x \in Reply /\ ReplyOK(x)
      BY <1>t, <2>3, <3>2 DEF ReplyInv, TypeOK
    <3> QED BY <1>k, <3>3
  <2>5. \A x \in C : x.from \in Reporters(m.req)
    BY <2>3 DEF Reporters, ReplyOK, Reply
  <2>6. \A x, y \in C : x.from = y.from => x = y
    <3>1. \A x \in C : x = [from |-> x.from, to |-> Leader, req |-> m.req] BY <2>3 DEF ReplyOK, Reply
    <3> QED BY <3>1
  <2>7. ReplyCount(WithReply(n, m), m.req) = Cardinality(C) BY DEF ReplyCount
  <2> HIDE DEF C
  <2>8. IsFiniteSet(Reporters(m.req)) BY NodesFinite DEF Reporters
  <2>9. Cardinality(C) <= Cardinality(Reporters(m.req)) BY <2>5, <2>6, <2>8, CountedSenders
  <2>10. \A r \in over : Cardinality(Reporters(r)) >= ReplyThreshold BY OverByReporters DEF ReplyInv
  <2>11. \A r \in over' : Cardinality(Reporters(r)) >= ReplyThreshold
    <3>1. over' = over \/ (over' = over \cup {m.req} /\ Cardinality(C) = ReplyThreshold)
      BY <1>4, <2>7 DEF HandleReply
    <3>2. CASE over' = over BY <2>10, <3>2
    <3>3. CASE over' = over \cup {m.req} /\ Cardinality(C) = ReplyThreshold
      BY <2>9, <2>10, <3>3 DEF ReplyThreshold
    <3> QED BY <3>1, <3>2, <3>3
  <2>12. OverCertified'
    <3>1. \A r : Reporters(r)' = Reporters(r) BY <2>2 DEF Reporters
    <3> QED BY <2>11, <3>1, OverByReporters
  <2> QED BY <1>2, <2>4, <2>12 DEF ReplyInv
<1>5. \/ UNCHANGED <<replyMessages, over>>
      \/ \E n \in Node : \E m \in replies : HandleReply(n, m)
  BY DEF Next, Deliver, vars, ExtraInitialStart, HandleRequest, MaliciousNotify, HandlePreprepare,
         HandlePrepare, HandleCommit
<1> QED BY <1>3, <1>4, <1>5

\* handle_reply counts replies for a command and then empties the leader's log, although the leader
\* itself may not have completed: with any number of nodes, n - f - 1 different replicas have
\* reported the very request it closes.
THEOREM OverCertifiedAlways == Spec => []OverCertified
<1>1. Init => TypeInv /\ ReplyInv
  BY TypeInvInit DEF Init, ReplyInv, OverCertified
<1>2. TypeInv /\ ReplyInv /\ [Next]_vars => (TypeInv /\ ReplyInv)' BY TypeInvStep, ReplyInvStep
<1>3. ReplyInv => OverCertified BY DEF ReplyInv
<1> QED BY <1>1, <1>2, <1>3, PTL DEF Spec

-----------------------------------------------------------------------------
(* How much a node reports.                                                 *)

\* The Commits of r among some messages.
CommitsOf(msgs, r) == {m \in msgs : m.type = "Commit" /\ m.req = r}

\* The Commits of r that count for nothing any more: a reset or an early return dropped them.
Spent(n, r) == CommitsOf(seen[n] \ messages[n], r)

\* The requests with as many spent Commits as a completion takes.
Certified(n) == {r \in Request : Cardinality(Spent(n, r)) >= Threshold}

\* Every message is about a request the leader has started.
StartInv == IsFiniteSet(startData) /\ \A m \in sent : m.req \in startData

\* Each report of a node is paid for by a request of its own.
CertInv == \A n \in Node : Len(endData[n]) <= Cardinality(Certified(n))

CertFinite ==
  \A n \in Node :
    /\ IsFiniteSet(Certified(n)) /\ Cardinality(Certified(n)) \in Nat
    /\ Cardinality(Certified(n)) <= Cardinality(Committed(n)) /\ Cardinality(Committed(n)) \in Nat

\* Commits of one request that n has received are at most one for each other node.
LEMMA CommitSenders ==
  ASSUME NEW n \in Node, NEW r, NEW B, NEW R \in SUBSET Node,
         \A m \in B : m \in Message /\ m.type = "Commit" /\ m.req = r /\ m.from \in R
  PROVE  /\ IsFiniteSet(B) /\ Cardinality(B) \in Nat /\ Cardinality(R) \in Nat
         /\ Cardinality(B) <= Cardinality(R)
<1>1. \A x \in B : x = Msg("Commit", x.from, r) BY DEF Message, Msg
<1>2. \A x, y \in B : x.from = y.from => x = y BY <1>1
<1>3. IsFiniteSet(R) BY NodesFinite
<1> QED BY <1>2, <1>3, CountedSenders

LEMMA ThresholdType == Threshold \in Nat /\ Threshold > 0
BY NonAuthAssumption DEF Threshold

\* What was received from others: Commits come from nodes that sent them.
LEMMA SpentFinite ==
  ASSUME TypeInv, NEW n \in Node, NEW r, NEW B, B \subseteq CommitsOf(seen[n], r)
  PROVE  /\ IsFiniteSet(B) /\ Cardinality(B) \in Nat
         /\ Cardinality(B) <= Cardinality({x \in Node \ {n} : Msg("Commit", x, r) \in sent})
         /\ Cardinality({x \in Node \ {n} : Msg("Commit", x, r) \in sent}) \in Nat
<1> DEFINE R == {x \in Node \ {n} : Msg("Commit", x, r) \in sent}
<1>1. R \in SUBSET Node OBVIOUS
<1>2. ASSUME NEW m \in B PROVE m \in Message /\ m.type = "Commit" /\ m.req = r /\ m.from \in R
  <2>1. m \in sent /\ m \in Message /\ m.from # n /\ m.type = "Commit" /\ m.req = r
    BY DEF CommitsOf, TypeInv, TypeOK, FromOthers
  <2>2. m = Msg("Commit", m.from, r) /\ m.from \in Node BY <2>1 DEF Message, Msg
  <2> QED BY <2>1, <2>2
<1> HIDE DEF R
<1>3. /\ IsFiniteSet(B) /\ Cardinality(B) \in Nat /\ Cardinality(R) \in Nat
      /\ Cardinality(B) <= Cardinality(R)
  BY <1>1, <1>2, CommitSenders
<1> QED BY <1>3 DEF R

\* A request with enough spent Commits is one that 2f other nodes have committed, and one the
\* leader has started.
LEMMA CertifiedCommitted == TypeInv /\ StartInv => CertFinite
<1> SUFFICES ASSUME TypeInv, StartInv, NEW n \in Node
             PROVE  /\ IsFiniteSet(Certified(n)) /\ Cardinality(Certified(n)) \in Nat
                    /\ Cardinality(Certified(n)) <= Cardinality(Committed(n))
                    /\ Cardinality(Committed(n)) \in Nat
  BY DEF CertFinite
<1>1. Certified(n) \subseteq Committed(n)
  <2> SUFFICES ASSUME NEW r \in Certified(n) PROVE r \in Committed(n) OBVIOUS
  <2> DEFINE R == {x \in Node \ {n} : Msg("Commit", x, r) \in sent}
  <2>1. Spent(n, r) \subseteq CommitsOf(seen[n], r) BY DEF Spent, CommitsOf
  <2>2. Cardinality(Spent(n, r)) \in Nat /\ Cardinality(R) \in Nat /\ Cardinality(Spent(n, r)) <= Cardinality(R)
    BY <2>1, SpentFinite
  <2>3. r \in Request /\ Cardinality(Spent(n, r)) >= Threshold BY DEF Certified
  <2> HIDE DEF R
  <2>4. Cardinality(R) >= 2 * FaultTolerance BY <2>2, <2>3, ThresholdType DEF Threshold
  <2> QED BY <2>3, <2>4 DEF Committed, R
<1>2. Committed(n) \subseteq startData
  <2> SUFFICES ASSUME NEW r \in Committed(n) PROVE r \in startData OBVIOUS
  <2> DEFINE R == {x \in Node \ {n} : Msg("Commit", x, r) \in sent}
  <2>1. Cardinality(R) >= 2 * FaultTolerance BY DEF Committed
  <2>2. R # {}
    <3>1. Cardinality({}) = 0 BY FS_EmptySet
    <3> QED BY <2>1, <3>1, NonAuthAssumption
  <2>3. PICK x \in Node : Msg("Commit", x, r) \in sent BY <2>2
  <2> QED BY <2>3 DEF StartInv, Msg
<1>3. IsFiniteSet(Committed(n)) BY <1>2, FS_Subset DEF StartInv
<1> QED BY <1>1, <1>3, FS_Subset, FS_CardinalityType

\* A step that drops nothing from what is spent keeps what is certified.
LEMMA CertifiedKept ==
  ASSUME TypeInv, TypeInv', NEW n \in Node, seen[n] \ messages[n] \subseteq seen'[n] \ messages'[n]
  PROVE  Certified(n) \subseteq Certified(n)'
<1> SUFFICES ASSUME NEW r \in Certified(n) PROVE r \in Certified(n)' OBVIOUS
<1>1. r \in Request /\ Cardinality(Spent(n, r)) >= Threshold BY DEF Certified
<1>2. Spent(n, r) \subseteq Spent(n, r)' /\ Spent(n, r)' \subseteq CommitsOf(seen'[n], r)
  BY DEF Spent, CommitsOf
<1>3. IsFiniteSet(Spent(n, r)') /\ Cardinality(Spent(n, r)') \in Nat
  <2> DEFINE B == Spent(n, r)'
  <2>1. \A m \in B : m \in Message /\ m.type = "Commit" /\ m.req = r /\ m.from \in Node
    BY <1>2 DEF CommitsOf, TypeInv, TypeOK, Message
  <2> HIDE DEF B
  <2>2. IsFiniteSet(B) /\ Cardinality(B) \in Nat BY <2>1, CommitSenders
  <2> QED BY <2>2 DEF B
<1>4. Cardinality(Spent(n, r)) <= Cardinality(Spent(n, r)') /\ Cardinality(Spent(n, r)) \in Nat
  BY <1>2, <1>3, FS_Subset, FS_CardinalityType
<1>5. Cardinality(Spent(n, r)') >= Threshold BY <1>1, <1>3, <1>4, ThresholdType
<1> QED BY <1>1, <1>5 DEF Certified, Threshold

\* Nothing else than a record takes a message out of what is spent, and that message is new.
LEMMA SpentKept ==
  ASSUME TypeInv, [Next]_vars, NEW n \in Node
  PROVE  seen[n] \ messages[n] \subseteq seen'[n] \ messages'[n]
<1>t. TypeOK BY DEF TypeInv
<1>1. ASSUME NEW q \in Node, NEW m \in sent, m \notin seen[q], See(q, m),
             Record(q, m) \/ LogReset(q) \/ UNCHANGED messages
      PROVE  seen[n] \ messages[n] \subseteq seen'[n] \ messages'[n]
  <2>1. m \in Message BY <1>t DEF TypeOK
  <2>2. seen[n] \subseteq seen'[n] BY <1>t, <1>1, <2>1, SeeTyped
  <2>3. messages'[n] \subseteq messages[n] \/ (q = n /\ messages'[n] = messages[n] \cup {m})
    BY <1>t, <1>1, <2>1, RecordTyped, ResetTyped
  <2> QED BY <1>1, <2>2, <2>3
<1>2. ASSUME NEW q \in Node, NEW m \in sent, Deliver(q, m)
      PROVE  seen[n] \ messages[n] \subseteq seen'[n] \ messages'[n]
  <2>1. /\ m \notin seen[q] /\ See(q, m)
        /\ Record(q, m) \/ LogReset(q) \/ UNCHANGED messages
    BY <1>2 DEF Deliver, HandlePreprepare, HandlePrepare, HandleCommit, CanReceive, Complete
  <2> QED BY <1>1, <2>1
<1>3. ASSUME NEW q \in Node, NEW m \in replies, HandleReply(q, m)
      PROVE  seen[n] \ messages[n] \subseteq seen'[n] \ messages'[n]
  <2>1. UNCHANGED seen /\ (LogReset(q) \/ UNCHANGED messages) BY <1>3 DEF HandleReply
  <2> QED BY <1>t, <2>1, ResetTyped
<1>4. CASE UNCHANGED <<seen, messages>> BY <1>4
<1> QED BY <1>2, <1>3, <1>4 DEF Next, vars, ExtraInitialStart, HandleRequest, MaliciousNotify

LEMMA StartInvStep == ASSUME TypeInv, StartInv, [Next]_vars PROVE StartInv'
<1>t. TypeOK BY DEF TypeInv
<1>l. Leader \in Node BY NonAuthAssumption
<1>1. ASSUME NEW r \in Request, HandleRequest(r) PROVE StartInv'
  <2> DEFINE m == Msg("PrePrepare", Leader, r)
  <2>1. m \in Message /\ m.req = r BY <1>l, MsgTyped DEF Msg
  <2> HIDE DEF m
  <2>2. ContinueExecute(Leader, m) BY <1>1 DEF HandleRequest, m
  <2>3. sent' \subseteq sent \cup {m} BY <1>t, <1>l, <2>1, <2>2, Continued
  <2>4. startData' = startData \cup {r} BY <1>1 DEF HandleRequest
  <2>5. IsFiniteSet(startData') BY <2>4, FS_AddElement DEF StartInv
  <2> QED BY <2>1, <2>3, <2>4, <2>5 DEF StartInv
<1>2. ASSUME NEW n \in Node, NEW m \in sent, NEW t \in {"Prepare", "Commit"},
             ContinueExecute(n, Msg(t, n, m.req)), UNCHANGED startData
      PROVE  StartInv'
  <2> DEFINE p == Msg(t, n, m.req)
  <2>1. m.req \in Request BY <1>t DEF TypeOK, Message
  <2>2. p \in Message /\ p.req = m.req BY <2>1, MsgTyped DEF Msg
  <2>3. ContinueExecute(n, p) BY <1>2
  <2> HIDE DEF p
  <2>4. sent' \subseteq sent \cup {p} BY <1>t, <2>2, <2>3, Continued
  <2> QED BY <1>2, <2>2, <2>4 DEF StartInv
<1>3. CASE UNCHANGED <<sent, startData>> BY <1>3 DEF StartInv
<1>4. ASSUME NEW n \in Node, NEW m \in sent, HandlePreprepare(n, m) PROVE StartInv'
  BY <1>2, <1>4 DEF HandlePreprepare
<1>5. ASSUME NEW n \in Node, NEW m \in sent, HandlePrepare(n, m) PROVE StartInv'
  <2>1. ContinueExecute(n, Msg("Commit", n, m.req)) \/ UNCHANGED sent BY <1>5 DEF HandlePrepare
  <2>2. UNCHANGED startData BY <1>5 DEF HandlePrepare
  <2> QED BY <1>2, <1>3, <2>1, <2>2
<1> QED BY <1>1, <1>3, <1>4, <1>5
      DEF Next, Deliver, vars, ExtraInitialStart, MaliciousNotify, HandleCommit, HandleReply

\* The Commit that completes a request certifies it for the first time: were there 2f spent Commits
\* of it already, 4f other nodes would have sent one.
LEMMA CompletionCertifies ==
  ASSUME Cardinality(Node) <= 4 * FaultTolerance,
         TypeInv, TypeInv', NEW n \in Node, NEW m \in sent, HandleCommit(n, m), Complete(n),
         Count(messages[n] \cup {m}, "Commit", m.req) = Threshold
  PROVE  m.req \in Certified(n)' \ Certified(n)
<1>t. TypeOK /\ FromOthers BY DEF TypeInv
<1> DEFINE r == m.req
           A == Spent(n, r)
           B == CommitsOf(messages[n] \cup {m}, r)
           R == Node \ {n}
<1>1. m \in Message /\ m \notin seen[n] /\ m.from # n /\ m.type = "Commit" /\ See(n, m)
  BY <1>t DEF HandleCommit, CanReceive, TypeOK
<1>2. r \in Request BY <1>1 DEF Message
<1>3. Cardinality(B) = Threshold BY DEF Count, CommitsOf
<1>4. A \cap B = {} BY <1>1 DEF Spent, CommitsOf
<1>5. \A x \in A \cup B : x \in Message /\ x.type = "Commit" /\ x.req = r /\ x.from \in R
  BY <1>t, <1>1 DEF Spent, CommitsOf, FromOthers, TypeOK, Message
<1>6. messages'[n] = {} /\ seen'[n] = seen[n] \cup {m}
  BY <1>t, <1>1, ResetTyped, SeeTyped DEF Complete
<1>7. B \subseteq Spent(n, r)' /\ \A x \in Spent(n, r)' : x \in Message /\ x.type = "Commit" /\ x.req = r /\ x.from \in Node
  <2>1. B \subseteq Spent(n, r)' BY <1>t, <1>1, <1>6 DEF Spent, CommitsOf, FromOthers
  <2>2. seen'[n] \subseteq Message BY DEF TypeInv, TypeOK
  <2>3. \A x \in Spent(n, r)' : x \in Message /\ x.type = "Commit" /\ x.req = r
    BY <2>2 DEF Spent, CommitsOf
  <2> QED BY <2>1, <2>3 DEF Message
<1>8. R \in SUBSET Node /\ IsFiniteSet(Node) BY NonAuthAssumption
<1>9. Cardinality(R) = Cardinality(Node) - 1 /\ Cardinality(Node) \in Nat
  BY <1>8, FS_RemoveElement, FS_CardinalityType
<1>10. Cardinality(Spent(n, r)') >= Threshold
  <2> DEFINE D == Spent(n, r)'
  <2>1. \A x \in D : x \in Message /\ x.type = "Commit" /\ x.req = r /\ x.from \in Node BY <1>7
  <2>2. B \subseteq D BY <1>7
  <2> HIDE DEF B, D
  <2>3. IsFiniteSet(D) BY <2>1, CommitSenders
  <2>4. Cardinality(B) <= Cardinality(D) BY <2>2, <2>3, FS_Subset
  <2> QED BY <1>3, <2>4 DEF D
<1>11. ~(Cardinality(A) >= Threshold)
  <2> HIDE DEF A, B, R
  <2>1. /\ IsFiniteSet(A \cup B) /\ Cardinality(A \cup B) \in Nat
        /\ Cardinality(A \cup B) <= Cardinality(R)
    <3> DEFINE S == A \cup B
    <3>1. \A x \in S : x \in Message /\ x.type = "Commit" /\ x.req = r /\ x.from \in R BY <1>5
    <3> HIDE DEF S
    <3>2. IsFiniteSet(S) /\ Cardinality(S) \in Nat /\ Cardinality(S) <= Cardinality(R)
      BY <1>8, <3>1, CommitSenders
    <3> QED BY <3>2 DEF S
  <2>2. IsFiniteSet(A) /\ IsFiniteSet(B) BY <2>1, FS_Subset
  <2>3. Cardinality(A) \in Nat /\ Cardinality(B) \in Nat BY <2>2, FS_CardinalityType
  <2>4. Cardinality(A \cup B) = Cardinality(A) + Cardinality(B)
    <3>1. Cardinality(A \cap B) = 0 BY <1>4, FS_EmptySet
    <3>2. Cardinality(A \cup B) = Cardinality(A) + Cardinality(B) - Cardinality(A \cap B)
      BY <2>2, FS_Union
    <3> QED BY <2>3, <3>1, <3>2
  <2> QED BY <1>3, <1>9, <2>1, <2>3, <2>4, NonAuthAssumption DEF Threshold
<1> QED BY <1>2, <1>10, <1>11 DEF Certified, Threshold

LEMMA CertInvStep ==
  ASSUME Cardinality(Node) <= 4 * FaultTolerance,
         TypeInv, TypeInv', StartInv, StartInv', CertInv, [Next]_vars
  PROVE  CertInv'
<1>1. CertFinite BY CertifiedCommitted
<1>2. CertFinite'
  <2>1. (TypeInv /\ StartInv)' OBVIOUS
  <2> QED BY <2>1, CertifiedCommitted, PTL
<1> SUFFICES ASSUME NEW n \in Node PROVE Len(endData'[n]) <= Cardinality(Certified(n)')
  BY DEF CertInv
<1>3. Certified(n) \subseteq Certified(n)' BY SpentKept, CertifiedKept
<1>4. /\ IsFiniteSet(Certified(n)') /\ Cardinality(Certified(n)') \in Nat
      /\ IsFiniteSet(Certified(n)) /\ Cardinality(Certified(n)) \in Nat
  BY <1>1, <1>2 DEF CertFinite
<1>5. endData[n] \in Seq(Request) /\ Len(endData[n]) \in Nat /\ Len(endData[n]) <= Cardinality(Certified(n))
  <2>1. endData[n] \in Seq(Request) BY DEF TypeInv, TypeOK
  <2> QED BY <2>1 DEF CertInv
<1>6. CASE endData'[n] = endData[n]
  <2>1. Cardinality(Certified(n)) <= Cardinality(Certified(n)') BY <1>3, <1>4, FS_Subset
  <2> QED BY <1>4, <1>5, <1>6, <2>1
<1>7. CASE endData'[n] # endData[n]
  <2>1. requests[n] \in Request /\ endData'[n] = Append(endData[n], requests[n]) BY <1>7, ReportsKept
  <2>2. Len(endData'[n]) = Len(endData[n]) + 1 BY <1>5, <2>1
  <2>3. PICK q \in Node, m \in sent : HandleCommit(q, m)
    BY <1>7 DEF Next, Deliver, vars, ExtraInitialStart, HandleRequest, MaliciousNotify, HandlePreprepare,
         HandlePrepare, HandleReply
  <2>4. Complete(q) /\ Count(messages[q] \cup {m}, "Commit", m.req) = Threshold
    BY <1>7, <2>3 DEF HandleCommit
  <2>5. q = n
    <3>1. endData \in [Node -> Seq(Request)] BY DEF TypeInv, TypeOK
    <3>2. endData' = [endData EXCEPT ![q] = Append(@, requests[q])] \/ UNCHANGED endData
      BY <2>4 DEF Complete
    <3> QED BY <1>7, <3>1, <3>2
  <2>6. m.req \in Certified(n)' \ Certified(n) BY <2>3, <2>4, <2>5, CompletionCertifies
  <2> DEFINE D == Certified(n) \cup {m.req}
  <2>7. Cardinality(D) = Cardinality(Certified(n)) + 1 BY <1>4, <2>6, FS_AddElement
  <2>8. D \subseteq Certified(n)' BY <1>3, <2>6
  <2> HIDE DEF D
  <2>9. Cardinality(D) <= Cardinality(Certified(n)') BY <1>4, <2>8, FS_Subset
  <2> QED BY <1>4, <1>5, <2>2, <2>7, <2>9
<1> QED BY <1>6, <1>7

\* Every report wipes the counts while Commits of the same request are under way, so that they are
\* counted again from nothing.  Up to 4f nodes (the code has 4 and f = 1) that is harmless: too few
\* Commits are left for a second completion, and no node reports more than 2f others committed.
THEOREM CompletionsCertifiedAlways ==
  ASSUME Cardinality(Node) <= 4 * FaultTolerance
  PROVE  Spec => []CompletionsCertified
<1>1. Init => TypeInv /\ StartInv /\ CertInv
  <2> SUFFICES ASSUME Init PROVE StartInv /\ CertInv BY TypeInvInit
  <2>1. StartInv BY FS_EmptySet DEF Init, StartInv
  <2>2. CertFinite BY <2>1, TypeInvInit, CertifiedCommitted
  <2>3. \A n \in Node : Len(endData[n]) = 0 BY DEF Init
  <2> QED BY <2>1, <2>2, <2>3 DEF CertInv, CertFinite
<1>2. TypeInv /\ StartInv /\ CertInv /\ [Next]_vars => (TypeInv /\ StartInv /\ CertInv)'
  BY TypeInvStep, StartInvStep, CertInvStep
<1>3. TypeInv /\ StartInv /\ CertInv => CompletionsCertified
  <2> SUFFICES ASSUME TypeInv, StartInv, CertInv, NEW n \in Node
               PROVE  Len(endData[n]) <= Cardinality(Committed(n))
    BY DEF CompletionsCertified
  <2>1. endData[n] \in Seq(Request) BY DEF TypeInv, TypeOK
  <2>2. Len(endData[n]) \in Nat BY <2>1
  <2> QED BY <2>2, CertifiedCommitted DEF CertInv, CertFinite
<1> QED BY <1>1, <1>2, <1>3, PTL DEF Spec

=============================================================================
