----------------------------- MODULE Framework ------------------------------
(***************************************************************************)
(* One test session of BFTDiagnosis: the controller, the analyzer and the     *)
(* consensus nodes, each an event loop with its timers, joined by unicast     *)
(* links.  The operator types the four commands of README steps 8 to 11;      *)
(* everything after that is driven by feedback messages and timers.          *)
(***************************************************************************)
EXTENDS Controller, ProtocolActuator, Analyzer

\* Test plans.  items: the configured test items, in the order of configure();
\* timely: do messages and one-second timers beat the test duration?  ordered: do
\* links keep the order of their messages?  currentRequest: does the protocol under
\* test implement current_request (the HotStuff protocols do, the PBFT ones do not)?
CONSTANT Plans

ASSUME PlansAssumption ==
  \A p \in Plans : /\ p.items \in Seq(TestItem)
                  /\ p.timely \in BOOLEAN /\ p.ordered \in BOOLEAN /\ p.currentRequest \in BOOLEAN

VARIABLES
  plan,   \* the plan of this session
  ctl,    \* the controller
  node,   \* node[n]: a consensus node
  ana,    \* the analyzer
  cli     \* commands the operator has given

vars == <<plan, ctl, node, ana, cli>>

Orders == {s \in [1..Cardinality(Node) -> Node] : \A i, j \in DOMAIN s : s[i] = s[j] => i = j}

Init ==
  /\ plan \in Plans
  /\ \E s \in Orders : ctl = NewController(plan.items, s)
  /\ node = [n \in Node |-> NewNode]
  /\ ana = NewAnalyzer
  /\ cli = 0

LinksEmpty ==
  /\ \A n \in Node : ctl.toNode[n] = <<>> /\ node[n].out = <<>>
  /\ ctl.toAnalyzer = <<>> /\ ana.out = <<>>

\* Only the running test's duration timer is left to fire.
Quiet ==
  /\ LinksEmpty
  /\ \A n \in Node : Settled(node[n])
  /\ ctl.conspireTimers = 0 /\ ~ctl.conspirePermit
  /\ ~ana.completedPermit

-----------------------------------------------------------------------------
(* The operator, who waits for the feedback of a command before the next *)

Command(k, after) ==
  /\ cli = k /\ LinksEmpty
  /\ cli' = k + 1
  /\ ctl' = after
  /\ UNCHANGED <<plan, node, ana>>

Operator ==
  \/ Command(0, ConfigureAnalyzer(ctl))
  \/ \E p \in Node : Command(1, ConfigureConsensusNode(ctl, "HonestFirst", p))
  \/ Command(2, ProtocolStart(ctl))
  \/ Command(3, StartTest(ctl))

-----------------------------------------------------------------------------
(* The consensus nodes *)

NodeTakes(n) ==
  \E i \in Takeable(ctl.toNode[n], plan.ordered) :
    /\ node' = [node EXCEPT ![n] = Handle(@, ctl.toNode[n][i])]
    /\ ctl' = [ctl EXCEPT !.toNode[n] = Without(@, i)]
    /\ UNCHANGED <<plan, ana, cli>>

NodeStep(n, enabled, after) ==
  /\ enabled
  /\ node' = [node EXCEPT ![n] = after]
  /\ UNCHANGED <<plan, ctl, ana, cli>>

NodeStops(n) == NodeStep(n, node[n].running /\ node[n].stopPermit, Stop(node[n]))

NodeCrashes(n) == NodeStep(n, node[n].running /\ node[n].crashPermit, Crash(node[n]))

NodeTriggers(n) == NodeStep(n, node[n].running /\ node[n].maliciousPermit, Trigger(node[n]))

NodePanics(n) ==
  NodeStep(n, node[n].running /\ node[n].malicious /\ ~plan.currentRequest, Panic(node[n]))

CrashTimerFires(n) == NodeStep(n, node[n].crashTimers > 0, CrashTimer(node[n]))

MaliciousTimerFires(n) == NodeStep(n, node[n].maliciousTimers > 0, MaliciousTimer(node[n]))

-----------------------------------------------------------------------------
(* The analyzer *)

AnalyzerTakes ==
  /\ ~ana.panicked
  /\ \E i \in Takeable(ctl.toAnalyzer, plan.ordered) :
       /\ ana' = HandleController(ana, ctl.toAnalyzer[i])
       /\ ctl' = [ctl EXCEPT !.toAnalyzer = Without(@, i)]
  /\ UNCHANGED <<plan, node, cli>>

TestTimerFires ==
  /\ ana.timers > 0
  /\ plan.timely => Quiet
  /\ ana' = TestTimer(ana)
  /\ UNCHANGED <<plan, ctl, node, cli>>

AnalyzerCompletes ==
  /\ ~ana.panicked /\ ana.completedPermit
  /\ ana' = CompleteTest(ana)
  /\ UNCHANGED <<plan, ctl, node, cli>>

-----------------------------------------------------------------------------
(* The controller *)

ControllerHearsNode(n) ==
  /\ ~ctl.panicked
  /\ \E i \in Takeable(node[n].out, plan.ordered) : \E p \in Node :
       /\ ctl' = HandleFeedback(ctl, n, node[n].out[i], p)
       /\ node' = [node EXCEPT ![n].out = Without(@, i)]
  /\ UNCHANGED <<plan, ana, cli>>

ControllerHearsAnalyzer ==
  /\ ~ctl.panicked
  /\ \E i \in Takeable(ana.out, plan.ordered) : \E p \in Node :
       /\ ctl' = CompletedTest(ctl, ana.out[i], p)
       /\ ana' = [ana EXCEPT !.out = Without(@, i)]
  /\ UNCHANGED <<plan, node, cli>>

ConspireTimerFires ==
  /\ ctl.conspireTimers > 0
  /\ ctl' = ConspireTimer(ctl)
  /\ UNCHANGED <<plan, node, ana, cli>>

ControllerConspires ==
  /\ ~ctl.panicked /\ ctl.conspirePermit
  /\ ctl' = SendConspireRequest(ctl)
  /\ UNCHANGED <<plan, node, ana, cli>>

Next ==
  \/ Operator
  \/ \E n \in Node :
       \/ NodeTakes(n) \/ NodeStops(n) \/ NodeCrashes(n) \/ NodeTriggers(n)
       \/ NodePanics(n) \/ CrashTimerFires(n) \/ MaliciousTimerFires(n)
       \/ ControllerHearsNode(n)
  \/ AnalyzerTakes \/ TestTimerFires \/ AnalyzerCompletes
  \/ ControllerHearsAnalyzer \/ ConspireTimerFires \/ ControllerConspires

Spec == Init /\ [][Next]_vars

\* Event loops run, links deliver, timers fire, and the operator goes on.
FairSpec == Spec /\ WF_vars(Next)

-----------------------------------------------------------------------------
(* Properties *)

\* The types of the three components' records; no counter falls below zero and
\* no message goes to a node the controller has not selected.
TypeOK ==
  /\ plan \in Plans
  /\ ctl \in ControllerState
  /\ node \in [Node -> NodeState]
  /\ ana \in AnalyzerState
  /\ cli \in 0..4

\* The analyzer never ends a test it was not given (next_test's unwrap).
AnalyzerNeverPanics == ~ana.panicked

\* The state in which item is meant to be measured (message.rs's comments on
\* TestItem): the right number of nodes running, honest and subscribed, the
\* right number crashed (once all have crashed the controller recovers them at
\* once), the right ones dishonest in the right phase with their
\* behaviour triggered.
Honest(n) == node[n].mode.kind \in {"HonestFirst", "HonestOther"}

ConfiguredFor(item) ==
  LET on == {n \in Node : node[n].running}
      bad == {n \in on : ~Honest(n)}
      crashed == {n \in Node : node[n].mode.kind = "Crash"}
      guilty == IF item.kind \notin DishonestKind \/ item.at = 0 THEN 0
                ELSE IF item.kind = "ReplicaNodeConspireForgeMessages" THEN item.count ELSE 1
  IN
  /\ Cardinality(on) = CASE item.kind = "Scalability" -> item.at
                         [] item.kind = "Crash" -> Cardinality(Node) - item.at
                         [] OTHER -> Cardinality(Node)
  /\ \A n \in on : node[n].subscribed
  /\ item.kind = "Crash" /\ on # {} =>
       crashed = Node \ on /\ \A n \in crashed : ~node[n].subscribed
  /\ Cardinality(bad) = guilty
  /\ \A n \in bad : node[n].mode = DishonestMode(item) /\ node[n].malicious

\* Plans on which the two properties below speak; the controller takes the others
\* too, and the runs include them.
\* A dishonest node lives through its phases: the protocol has a current_request.
Survivable(p) ==
  \A i \in 1..Len(p.items) : p.items[i].kind \in DishonestKind /\ p.items[i].max > 0 => p.currentRequest

\* Scalability is not the first item (the first node is configured HonestFirst, which
\* leaves feedback_scalability_first_count at 1 for the next item); its step is 1
\* (JoinConsensus goes to one node whatever the step is); and its maximum is at most the
\* number of nodes (a round without a node to join configures the next item as well).
Scalable(p) ==
  \A i \in 1..Len(p.items) : p.items[i].kind = "Scalability" =>
    i > 1 /\ p.items[i].step = 1 /\ p.items[i].max <= Cardinality(Node)

\* Of the items with phases, none delays (next_test has no arm for it) or conspires (a
\* round with one more conspirator waits for those who have the mode already and do not
\* answer), and one at most goes through message fields, which are then used up, in
\* phases that have some.
Completable(p) ==
  LET Phased(kinds) == {i \in 1..Len(p.items) : p.items[i].kind \in kinds /\ p.items[i].max > 0} IN
  /\ Phased({"LeaderDelaySendMessage", "ReplicaNodeConspireForgeMessages"}) = {}
  /\ \A i, j \in Phased({"LeaderSendAmbiguousMessage"}) :
       i = j /\ \A q \in 1..p.items[i].max : q \in DOMAIN Fields /\ Fields[q] > 0

\* When the analyzer ends a round and computes its result, the nodes are in the
\* state the item it reports stands for (next_test, the join and crash handlers, the
\* malicious timer), provided that configuring them took less time than the test and
\* that the plan is Survivable and Scalable.
TestedAsConfigured ==
  plan.timely /\ Survivable(plan) /\ Scalable(plan) /\ ana.completedPermit => ConfiguredFor(ana.item)

\* The controller announces a round only when every node of the last round has
\* left its protocol run and none is about to enter one (check_reset_all_success,
\* need_reset), and no test is still being timed.
RoundsDoNotOverlap ==
  [][Len(ctl'.toAnalyzer) > Len(ctl.toAnalyzer)
       /\ ctl'.toAnalyzer[Len(ctl.toAnalyzer) + 1].type = "TestItem"
     => /\ \A n \in Node : /\ ~node[n].running
                            /\ \A i \in 1..Len(ctl.toNode[n]) :
                                 ctl.toNode[n][i].type # "ProtocolStart"
        /\ ana.timers = 0]_vars

\* The rounds the configuration asks of an item (message.rs's comments again).
Rounds(item) ==
  CASE item.kind = "Performance" -> {item}
    [] item.kind = "Scalability" ->
         {[item EXCEPT !.at = k] : k \in {j \in 1..Cardinality(Node) :
                                            j <= item.max /\ (j - 1) % item.step = 0}}
    [] item.kind = "Crash" ->
         {[item EXCEPT !.at = k] : k \in {j \in 0..Cardinality(Node) : j <= item.max}}
    [] item.kind \in {"LeaderSendAmbiguousMessage", "ReplicaNodeConspireForgeMessages"} ->
         {item} \cup UNION {{[item EXCEPT !.at = p, !.field = f, !.count = k] :
                               f \in 1..Fields[p], k \in 1..Cardinality(Node)} : p \in 1..item.max}
    [] OTHER -> {[item EXCEPT !.at = k] : k \in 0..item.max}

\* Every round of every configured item is tested, and then the controller
\* reports the end: no feedback is waited for in vain and no item is skipped
\* (next_test, the feedback counters, CompletedTest), as long as links keep the
\* order of their messages and the plan is Survivable, Scalable and Completable.
EveryRoundTested ==
  <>[](plan.ordered /\ Survivable(plan) /\ Scalable(plan) /\ Completable(plan) =>
         /\ ctl.finished
         /\ \A i \in 1..Len(plan.items) : Rounds(plan.items[i]) \subseteq ana.results)

=============================================================================
