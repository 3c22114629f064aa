------------------------- MODULE MCHotStuffExecutor -------------------------
(***************************************************************************)
(* Four nodes, f = 1 (the code's values).  Any one of them, slow, is late:    *)
(* either with its messages, which arrive in any order or never, or with its   *)
(* tasks: its channel, permits and writes of mode wait as long as they like.   *)
(* The others do at once and one after the other what they have to do, but      *)
(* whenever they wait their timers may run out.  Everybody gets the requests     *)
(* in one order except slow, who takes either first and the other one late.       *)
(***************************************************************************)
EXTENDS HotStuffExecutor

CONSTANT SlowNodes   \* the nodes that may be the slow one

VARIABLES
  slow,   \* the slow node
  late    \* what it is late with: "messages" or "tasks"

mcVars == <<vars, slow, late>>

Prompt == Node \ {slow}

Least(S, Key(_)) == CHOOSE x \in S : \A y \in S : Key(x) <= Key(y)

Gossip(n) ==
  {m \in sent \ seen[n] :
     /\ m.from # n
     /\ \/ m.type \in {"ConsensusNodePKsInfo", "Request"}
        \/ m.type = "Prepare" /\ AcceptsPrepare(n, m)
        \/ m.type \in {"PreCommit", "Commit", "Decide"} /\ m.view = view[n]}

Mail(n) == {u \in mail : u.to = n /\ u.msg.from # n}

Keys(n) == {u \in Mail(n) : u.msg.type = "TBLSKey"}

Proposing(n) == consensusNotify[n] /\ view[n] < MaxView

Checking(n) == mode[n].kind = "Do" /\ mode[n].n > 0

Inside(n) ==
  \/ outbox[n] # <<>> \/ writes[n] # {} \/ Checking(n) \/ Proposing(n) \/ viewTimeoutNotify[n]

Busy == {n \in Prompt : alive[n] /\ (Inside(n) \/ Gossip(n) # {} \/ Mail(n) # {})}

InsideStep(n) ==
  IF outbox[n] # <<>> THEN Transmit(n)
  ELSE IF writes[n] # {} THEN \E w \in writes[n] : TaskWrites(n, w)
  ELSE IF Checking(n) THEN ProposalStateCheck(n)
  ELSE IF Proposing(n) THEN StartConsensus(n) \/ Panics(n)
  ELSE ViewTimeout(n)

PromptStep(n) ==
  IF Inside(n) THEN InsideStep(n)
  ELSE IF Keys(n) # {} THEN \E u \in Keys(n) : Open(n, u)
  ELSE IF Gossip(n) # {} THEN Deliver(n, CHOOSE m \in Gossip(n) : TRUE)
  ELSE Open(n, CHOOSE u \in Mail(n) : TRUE)

\* Prompt nodes that are behind another one follow it by timeout.
Behind == {n \in Prompt : alive[n] /\ timers[n] > 0 /\ \E q \in Prompt : view[q] > view[n]}

\* What slow does at once too: it takes its key share and one of the requests and hands
\* gossip to the network; late with its tasks, it takes every message, and late with its
\* messages, it leaves nothing undone inside.
SlowAtOnce ==
  \/ \E u \in Keys(slow) : Open(slow, u)
  \/ buffer[slow] = <<>> /\ ended[slow] = {} /\ \E m \in sent : ReceiveRequest(slow, m)
  \/ late = "messages" /\ Inside(slow) /\ InsideStep(slow)
  \/ /\ outbox[slow] # <<>> /\ Head(outbox[slow]).type \in {"Prepare", "PreCommit", "Commit", "Decide"}
     /\ Transmit(slow)

\* Of two unicasts of one type and view slow opens that of the lower sender first.
InOrder(u) ==
  \A w \in Mail(slow) :
    w.msg.type = u.msg.type /\ w.msg.view = u.msg.view => u.msg.from <= w.msg.from

SlowTakes ==
  \/ \E m \in sent : Deliver(slow, m)
  \/ \E u \in Mail(slow) : InOrder(u) /\ Open(slow, u)

SlowTask ==
  \/ ProposalStateCheck(slow) \/ ViewTimeout(slow) \/ StartConsensus(slow) \/ Transmit(slow)
  \/ Panics(slow)
  \/ \E w \in writes[slow] : TaskWrites(slow, w)

Uncreated == {r \in Request : \A m \in sent : m.type = "Request" => m.cmd # r}

SlowNext ==
  /\ IF Busy # {} THEN PromptStep(Least(Busy, LAMBDA n : n))
     ELSE IF ENABLED SlowAtOnce THEN SlowAtOnce
     ELSE IF Behind # {} THEN TimerExpires(Least(Behind, LAMBDA n : n))
     ELSE IF Uncreated # {} THEN CreateRequest(Least(Uncreated, LAMBDA r : r))
     ELSE IF late = "tasks" /\ alive[slow] /\ Gossip(slow) \cup Mail(slow) # {} THEN SlowTakes \/ SlowTask
     ELSE \/ DistributeKey
          \/ \E n \in Node : TimerExpires(n)
          \/ SlowTakes
          \/ SlowTask
  /\ UNCHANGED <<slow, late>>

SlowInit == Init /\ slow \in SlowNodes /\ late \in {"messages", "tasks"}

SlowSpec == SlowInit /\ [][SlowNext]_mcVars

Proposals == {m \in sent : m.type = "Prepare"}

\* A block and the blocks it extends.
Ancestors ==
  LET all == {m.block : m \in Proposals}
      chain[b \in all] == IF b.parent = NoBlock THEN {b} ELSE {b} \cup chain[b.parent]
  IN chain

\* A proposal is fresh when its proposer leads its view and extends the newest certificate
\* of 2f + 1 NewViews for it.
Fresh(m) ==
  LET nvs == {x \in newviews[m.from] : x.view + 1 = m.view}
  IN /\ m.from = Leader(m.view)
     /\ Cardinality(nvs) >= Threshold
     /\ \A x \in nvs : QcView(x.justify) <= QcView(m.justify)

\* Views end by timeout at each node by itself, a certificate may come too late for some,
\* and several leaders may be at work: as long as all proposals are fresh, one block at most
\* is ended in a view and those of different views lie on one chain.  The permit of
\* consensus_notify outlives its view, and a proposal made from it later is not fresh:
\* only then may the chain fork.
ForkNeedsStale ==
  (\A m \in Proposals : Fresh(m)) =>
    \A d, e \in UNION {ended[n] : n \in Node} :
      d.view <= e.view => /\ d.block \in Ancestors[e.block]
                          /\ d.block = e.block <=> d.view = e.view
=============================================================================
