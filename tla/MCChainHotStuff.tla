--------------------------- MODULE MCChainHotStuff ---------------------------
(* An instance of ChainHotStuff for TLC: four nodes, f = 1, and one of them, *)
(* slow, of arbitrary speed: its messages arrive late, in any order or never.*)
(* The others take theirs at once and one after the other, proposals before  *)
(* votes and votes before reports, which keeps the instance small.           *)
EXTENDS ChainHotStuff

CONSTANT HandOutViews   \* bound: the views in which the requests may reach the starter

VARIABLE slow

mcVars == <<vars, slow>>

SlowInit == Init /\ slow \in Node

Least(S, Key(_)) == CHOOSE x \in S : \A y \in S : Key(x) <= Key(y)

\* Requests are interchangeable: a proposer takes the least it may take.
LeastRequest == \A m \in sent' \ sent :
  m.type = "Generic" => \A r \in Untaken(m.from) : m.block.cmd <= r

Gossip == {p \in (Node \ {slow}) \X sent : p[2].from # p[1] /\ p[2] \notin seen[p[1]]}

Mail(t) == {u \in mail : u.to # slow /\ u.msg.type = t}

Sender(u) == IF u.msg.type = "TBLSKey" THEN Starter ELSE u.msg.from

OpenFirst(t) == LET u == Least(Mail(t), LAMBDA x : x.to * N + Sender(x)) IN Open(u.to, u)

\* The prompt nodes have nothing left to do.
Idle ==
  /\ Gossip = {} /\ \A t \in {"TBLSKey", "Vote", "Newview"} : Mail(t) = {}
  /\ \A n \in Node \ {slow} : start[n] => view[n] >= MaxView

PromptStep ==
  \/ \E n \in Node \ {slow} : StartConsensus(n)
  \/ /\ \A n \in Node \ {slow} : start[n] => view[n] >= MaxView
     /\ IF Mail("TBLSKey") # {} THEN OpenFirst("TBLSKey")
        ELSE IF Gossip # {} THEN LET p == Least(Gossip, LAMBDA x : x[1]) IN Deliver(p[1], p[2])
        ELSE IF Mail("Vote") # {} THEN OpenFirst("Vote")
        ELSE Mail("Newview") # {} /\ OpenFirst("Newview")

\* Of two messages of one kind and view, slow opens that of the lower sender first.
SlowStep ==
  /\ Idle
  /\ \/ StartConsensus(slow)
     \/ \E m \in sent : Deliver(slow, m)
     \/ \E u \in mail :
          /\ \A w \in mail :
               w.to = slow /\ w.msg.type = u.msg.type /\ Sender(w) < Sender(u) => w.msg.view # u.msg.view
          /\ Open(slow, u)

SlowNext ==
  /\ \/ ExtraInitialStart
     \/ view[Starter] \in HandOutViews /\ MakeConsensusRequests
     \/ PromptStep
     \/ SlowStep
  /\ LeastRequest
  /\ UNCHANGED slow

SlowSpec == SlowInit /\ [][SlowNext]_mcVars
=============================================================================
