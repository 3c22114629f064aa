----------------------------- MODULE Controller -----------------------------
(***************************************************************************)
(* The controller (components/src/controller/controller.rs): it walks the     *)
(* nodes and the analyzer through the configured test items, one round at a   *)
(* time.  Its record holds the fields of struct Controller that a handler     *)
(* reads, and its outgoing unicasts; an operator maps the record to the       *)
(* record after a method, so that methods compose the way the code calls them. *)
(*                                                                         *)
(* Abstracted: a HashSet's iter().last() is any element, given as pick;       *)
(* waiting_consensus_nodes is Node (discovery is over when a test starts);    *)
(* a phase's candidate fields are counted, field k being the k-th of them.    *)
(***************************************************************************)
EXTENDS Interaction

CONSTANT Fields    \* Fields[p]: candidate message fields of phase p (queryProtocolPhases)

ASSUME FieldsAssumption == Fields \in [DOMAIN Fields -> Nat]

NoNode == "None"

ControllerState ==
  [testItems : Seq(TestItem),                 \* test_items, next one first
   nextItem : TestItem \cup {NoItem},         \* next_test_item
   nextMid : TestItem \cup {NoItem},          \* next_mid_test_item
   consensusNodes : SUBSET Node,
   crashNodes : SUBSET Node,                  \* crash_consensus_nodes
   optionalCrash : SUBSET Node,
   optionalScalability : SUBSET Node,
   optionalDishonest : Seq(Node),
   feedbackCrash : Node \cup {NoNode},
   feedbackScalability : Node \cup {NoNode},
   feedbackDishonest : Node \cup {NoNode},
   configureCount : Nat,                      \* consensus_node_configure_count
   resetCount : Nat,                          \* reset_success_count
   crashResetCount : Nat,                     \* crash_reset_success_count
   dishonestCount : Nat,                      \* feedback_dishonest_node_count
   dishonestSuccess : Nat,                    \* feedback_dishonest_node_success_count
   scalabilityFirst : Nat,                    \* feedback_scalability_first_count
   fields : [DOMAIN Fields -> Nat],           \* candidate fields left in each entry
   phases : SUBSET DOMAIN Fields,             \* phases that still have an entry
   conspireTimers : Nat, conspirePermit : BOOLEAN,
   finished : BOOLEAN,                        \* "Protocol Test Completed!!!"
   panicked : BOOLEAN,
   toNode : [Node -> Seq(NodeMessage)],
   toAnalyzer : Seq(AnalyzerMessage)]

\* After discovery, init of both sides and queryProtocolPhases.
NewController(items, dishonest) ==
  [testItems |-> items, nextItem |-> NoItem, nextMid |-> NoItem,
   consensusNodes |-> {}, crashNodes |-> {}, optionalCrash |-> {},
   optionalScalability |-> {}, optionalDishonest |-> dishonest,
   feedbackCrash |-> NoNode, feedbackScalability |-> NoNode, feedbackDishonest |-> NoNode,
   configureCount |-> 0, resetCount |-> 0, crashResetCount |-> 0,
   dishonestCount |-> 0, dishonestSuccess |-> 0, scalabilityFirst |-> 0,
   fields |-> Fields, phases |-> DOMAIN Fields, conspireTimers |-> 0, conspirePermit |-> FALSE,
   finished |-> FALSE, panicked |-> FALSE,
   toNode |-> [n \in Node |-> <<>>], toAnalyzer |-> <<>>]

SendNodes(c, S, m) ==
  [c EXCEPT !.toNode = [n \in Node |-> IF n \in S THEN Append(@[n], m) ELSE @[n]]]

SendAnalyzer(c, type, item) ==
  [c EXCEPT !.toAnalyzer = Append(@, [type |-> type, item |-> item])]

Select(S, pick) == IF pick \in S THEN pick ELSE CHOOSE n \in S : TRUE

-----------------------------------------------------------------------------
(* Configuring the next item *)

ConfigureAnalyzer(c) ==
  IF c.testItems = <<>>
    THEN [c EXCEPT !.nextItem = NoItem, !.finished = TRUE]
    ELSE LET item == Head(c.testItems) IN
         SendAnalyzer(
           [c EXCEPT !.testItems = Tail(@),
                     !.nextItem = item,
                     !.optionalCrash = IF item.kind = "Crash" THEN Node ELSE @,
                     !.optionalScalability = IF item.kind = "Scalability" THEN Node ELSE @],
           "TestItem", item)

SetConsensusNodeMode(c, S, mode) == SendNodes(c, S, Say("ConsensusNodeMode", mode))

\* A scalability test starts with one node; all others take every node.
ConfigureConsensusNode(c, honest, pick) ==
  LET configure == Say("ConfigureConsensusNode", SimpleMode(honest))
      first == Select(c.optionalScalability, pick)
      rest == c.optionalScalability \ {first}
  IN
  IF c.nextItem.kind = "Scalability"
    THEN SetConsensusNodeMode(
           SendNodes([c EXCEPT !.consensusNodes = {},
                               !.scalabilityFirst = c.nextItem.at,
                               !.optionalScalability = rest], {first}, configure),
           rest, SimpleMode("Uninitialized"))
    ELSE SendNodes([c EXCEPT !.consensusNodes = {}], Node, configure)

ConfigureAnalyzerAndConsensusNode(c, pick) ==
  LET d == ConfigureAnalyzer(c) IN
  IF c.testItems = <<>> THEN d ELSE ConfigureConsensusNode(d, "HonestOther", pick)

\* Tell the analyzer the next round of the current item; extra follows it.
NextMidTest(c, extra) ==
  LET d == SendAnalyzer(c, "TestItem", c.nextMid) IN
  IF extra = NoNode THEN d ELSE SendAnalyzer(d, extra, NoItem)

-----------------------------------------------------------------------------
(* The next round of the current item, or the next item *)

JoinNode(c, pick) ==
  LET n == Select(c.optionalScalability, pick) IN
  SendNodes([c EXCEPT !.feedbackScalability = n, !.optionalScalability = @ \ {n}],
            {n}, Tell("JoinConsensus"))

CrashANode(c, pick) ==
  LET n == Select(c.optionalCrash, pick) IN
  SetConsensusNodeMode([c EXCEPT !.feedbackCrash = n, !.optionalCrash = @ \ {n}],
                       {n}, SimpleMode("Crash"))

\* The mode a malicious round asks of its dishonest nodes.
DishonestMode(item) ==
  [kind |-> item.kind, phase |-> item.at, field |-> item.field,
   count |-> IF item.kind = "LeaderSendAmbiguousMessage" THEN item.count ELSE 0]

CorruptANode(c) ==
  LET n == c.optionalDishonest[Len(c.optionalDishonest)] IN
  SetConsensusNodeMode([c EXCEPT !.feedbackDishonest = n], {n}, DishonestMode(c.nextMid))

\* With too few candidates the next item is configured and the round goes on
\* with no dishonest node.
CorruptNodes(c, pick) ==
  IF c.nextMid.count > Len(c.optionalDishonest)
  THEN [ConfigureAnalyzerAndConsensusNode(c, pick) EXCEPT !.dishonestCount = 0]
  ELSE
  LET S == {c.optionalDishonest[i] : i \in 1..c.nextMid.count} IN
  SetConsensusNodeMode([c EXCEPT !.dishonestCount = Cardinality(S)],
                       S, DishonestMode(c.nextMid))

\* next_test.  When scalability runs out of nodes it configures the next item
\* and then still announces the old one; a LeaderDelaySendMessage round and a
\* single-leader round without candidates have no arm that does anything.
NextTest(c, pick) ==
  LET mid == c.nextMid IN
  CASE mid = NoItem -> ConfigureAnalyzerAndConsensusNode(c, pick)
    [] mid.kind = "Scalability" ->
         IF c.optionalScalability = {}
           THEN NextMidTest(ConfigureAnalyzerAndConsensusNode(c, pick), NoNode)
           ELSE NextMidTest(JoinNode(c, pick), NoNode)
    [] mid.kind = "Crash" ->
         IF c.optionalCrash = {}
           THEN ConfigureAnalyzerAndConsensusNode(c, pick)
           ELSE NextMidTest(CrashANode(c, pick), "CrashNode")
    [] mid.kind \in {"LeaderFeignDeath", "LeaderSendDuplicateMessage"} ->
         IF c.optionalDishonest = <<>> THEN c ELSE NextMidTest(CorruptANode(c), "DishonestNode")
    [] mid.kind = "LeaderSendAmbiguousMessage" ->
         IF c.optionalDishonest = <<>>
           THEN ConfigureAnalyzerAndConsensusNode(c, pick)
           ELSE NextMidTest(CorruptANode(c), "DishonestNode")
    [] mid.kind = "ReplicaNodeConspireForgeMessages" -> NextMidTest(CorruptNodes(c, pick), NoNode)
    [] OTHER -> c

\* Mutant: the reset counters are not cleared.
AllResetKeepsCounts(c, pick) == NextTest(c, pick)

\* check_reset_all_success and the first branch of reset_consensus_node.
AllReset(c, pick) == NextTest([c EXCEPT !.resetCount = 0, !.crashResetCount = 0], pick)

\* Mutant: off by one.
CheckResetTooEarly(c, pick) ==
  IF Cardinality(c.consensusNodes) <= c.resetCount + c.crashResetCount + 1
    THEN AllReset(c, pick) ELSE c

CheckResetAllSuccess(c, pick) ==
  IF Cardinality(c.consensusNodes) = c.resetCount + c.crashResetCount
    THEN AllReset(c, pick) ELSE c

ResetConsensusNode(c, pick) ==
  IF Cardinality(c.consensusNodes) = c.crashResetCount
    THEN AllReset(c, pick)
    ELSE SendNodes(c, c.consensusNodes, Tell("Reset"))

ProtocolStart(c) == SendNodes(c, c.consensusNodes, Tell("ProtocolStart"))

StartTest(c) == SendAnalyzer(c, "StartTest", NoItem)

StartRound(c) == StartTest(ProtocolStart(c))

-----------------------------------------------------------------------------
(* analyzer_message_handler: CompletedTest *)

\* malicious_test_next_field: the field it returns (0: none), and the record
\* after it.  A phase whose entry is gone panics.
FieldOf(c, phase) == IF phase \in c.phases THEN c.fields[phase] ELSE 0

PopField(c, phase) ==
  IF phase \notin c.phases THEN [c EXCEPT !.panicked = TRUE]
  ELSE IF c.fields[phase] = 0
    THEN [c EXCEPT !.phases = @ \ {phase}]
    ELSE [c EXCEPT !.fields[phase] = @ - 1]

FieldRound(c, item, phase) ==
  [PopField(c, phase) EXCEPT
     !.nextMid = [item EXCEPT !.at = phase, !.field = FieldOf(c, phase), !.count = 1]]

\* LeaderSendAmbiguousMessage and ReplicaNodeConspireForgeMessages: every count
\* up to the number of nodes, for every field, for every phase.
AfterFieldRound(c, item) ==
  IF item.at = 0 THEN
    IF item.max > 0 THEN FieldRound(c, item, 1) ELSE [c EXCEPT !.nextMid = NoItem]
  ELSE IF item.count # Cardinality(Node) THEN
    [c EXCEPT !.nextMid = [item EXCEPT !.count = @ + 1]]
  ELSE IF FieldOf(c, item.at) # 0 THEN FieldRound(c, item, item.at)
  ELSE IF item.at = item.max THEN [PopField(c, item.at) EXCEPT !.nextMid = NoItem]
  ELSE FieldRound(PopField(c, item.at), item, item.at + 1)

\* The follow-up of a round; Performance leaves next_mid_test_item alone.
AfterRound(c, item) ==
  LET step == IF item.kind = "Scalability" THEN item.step ELSE 1 IN
  CASE item.kind = "Performance" -> c
    [] item.kind \in {"LeaderSendAmbiguousMessage", "ReplicaNodeConspireForgeMessages"} ->
         AfterFieldRound(c, item)
    [] OTHER ->
         [c EXCEPT !.nextMid = IF item.at + step <= item.max
                                 THEN [item EXCEPT !.at = @ + step] ELSE NoItem]

CompletedTest(c, item, pick) ==
  LET d == AfterRound(c, item) IN IF d.panicked THEN d ELSE ResetConsensusNode(d, pick)

-----------------------------------------------------------------------------
(* consensus_node_message_handler *)

JoinConsensusSuccess(c, n) ==
  IF n = c.feedbackScalability
    THEN StartRound([c EXCEPT !.consensusNodes = @ \cup {n}]) ELSE c

\* A crash feedback that makes the crashed nodes all the nodes recovers them.
ResetSuccess(c, n, mode, pick) ==
  CASE mode.kind = "Uninitialized" -> c
    [] mode.kind = "Crash" ->
         LET d == [c EXCEPT !.crashResetCount = @ + 1, !.crashNodes = @ \cup {n}] IN
         IF Cardinality(d.consensusNodes) = d.crashResetCount
           THEN SetConsensusNodeMode(d, d.crashNodes, SimpleMode("Uninitialized"))
           ELSE CheckResetAllSuccess(d, pick)
    [] OTHER -> CheckResetAllSuccess([c EXCEPT !.resetCount = @ + 1], pick)

HonestNode(c, n) ==
  [c EXCEPT !.consensusNodes = @ \cup {n}, !.optionalCrash = @ \cup {n}]

ConsensusNodeModeSuccess(c, n, mode) ==
  CASE mode.kind = "Uninitialized" -> c
    [] mode.kind = "HonestFirst" -> HonestNode(c, n)
    [] mode.kind = "HonestOther" ->
         IF c.configureCount + 1 = Cardinality(Node) \/ c.scalabilityFirst = 1
           THEN StartRound([HonestNode(c, n) EXCEPT !.configureCount = 0,
                                                    !.scalabilityFirst = 0])
           ELSE [HonestNode(c, n) EXCEPT !.configureCount = @ + 1]
    [] mode.kind = "Crash" -> IF n = c.feedbackCrash THEN StartRound(c) ELSE c
    [] mode.kind = "ReplicaNodeConspireForgeMessages" ->
         IF c.dishonestSuccess + 1 = c.dishonestCount
           THEN StartRound([c EXCEPT !.dishonestSuccess = 0, !.conspireTimers = @ + 1])
           ELSE [c EXCEPT !.dishonestSuccess = @ + 1]
    [] OTHER -> IF n = c.feedbackDishonest THEN StartRound(c) ELSE c

HandleFeedback(c, n, m, pick) ==
  CASE m.type = "JoinConsensusSuccess" -> JoinConsensusSuccess(c, n)
    [] m.type = "ResetSuccess" -> ResetSuccess(c, n, m.mode, pick)
    [] m.type = "ConsensusNodeModeSuccess" -> ConsensusNodeModeSuccess(c, n, m.mode)

\* conspire_request_send_timer_start's task, and the arm it wakes.
ConspireTimer(c) == [c EXCEPT !.conspireTimers = @ - 1, !.conspirePermit = TRUE]

SendConspireRequest(c) ==
  SendNodes([c EXCEPT !.conspirePermit = FALSE], c.consensusNodes,
            Tell("MakeAConsensusRequest"))

=============================================================================
