-------------------------- MODULE FrameworkProofs ---------------------------
(* Proofs about a test session with any nodes, any candidate fields and any      *)
(* plans, with links that keep the order of their messages or not.               *)
EXTENDS Framework, FiniteSetTheorems, SequenceTheorems, TLAPS

-----------------------------------------------------------------------------
(* Links.                                                                   *)

\* What may be taken is in the link.
LEMMA TakeableIn ==
  ASSUME NEW T, NEW q \in Seq(T), NEW ordered \in BOOLEAN
  PROVE  Takeable(q, ordered) \subseteq 1..Len(q)
<1>1. Len(q) \in Nat OBVIOUS
<1>2. q # <<>> => Len(q) >= 1 BY <1>1, EmptySeq
<1> QED BY <1>1, <1>2 DEF Takeable

LEMMA WithoutTyped ==
  ASSUME NEW T, NEW q \in Seq(T), NEW i \in 1..Len(q)
  PROVE  Without(q, i) \in Seq(T)
<1>1. Len(q) \in Nat /\ i \in Nat OBVIOUS
<1>2. SubSeq(q, 1, i - 1) \in Seq(T)
  <2>1. \A k \in 1..(i - 1) : k \in 1..Len(q) BY <1>1
  <2>2. \A k \in 1..(i - 1) : q[k] \in T BY <2>1
  <2> QED BY <1>1, <2>2, SubSeqProperties
<1>3. SubSeq(q, i + 1, Len(q)) \in Seq(T)
  <2>1. \A k \in (i + 1)..Len(q) : k \in 1..Len(q) BY <1>1
  <2>2. \A k \in (i + 1)..Len(q) : q[k] \in T BY <2>1
  <2> QED BY <1>1, <2>2, SubSeqProperties
<1> QED BY <1>2, <1>3 DEF Without

-----------------------------------------------------------------------------
(* The controller's methods keep its types.                                 *)

LEMMA NodesCounted ==
  /\ Cardinality(Node) \in Nat
  /\ \A S \in SUBSET Node : IsFiniteSet(S) /\ Cardinality(S) \in Nat
BY NodesAssumption, FS_Subset, FS_CardinalityType

LEMMA ModesTyped ==
  /\ \A kind \in {"Uninitialized", "HonestFirst", "HonestOther", "Crash"} : SimpleMode(kind) \in Mode
  /\ \A item \in TestItem : item.kind \in DishonestKind => DishonestMode(item) \in Mode
  /\ \A type \in {"JoinConsensus", "ProtocolStart", "Reset", "MakeAConsensusRequest"} :
       Tell(type) \in NodeMessage
  /\ \A mode \in Mode : Say("ConfigureConsensusNode", mode) \in NodeMessage
                        /\ Say("ConsensusNodeMode", mode) \in NodeMessage
<1>1. \A kind \in {"Uninitialized", "HonestFirst", "HonestOther", "Crash"} : SimpleMode(kind) \in Mode
  BY DEF SimpleMode, Mode
<1>2. \A item \in TestItem : item.kind \in DishonestKind => DishonestMode(item) \in Mode
  BY DEF DishonestMode, Mode, TestItem
<1> QED BY <1>1, <1>2 DEF Tell, Say, NodeMessage

LEMMA SendNodesTyped ==
  ASSUME NEW c \in ControllerState, NEW S, NEW m \in NodeMessage
  PROVE  SendNodes(c, S, m) \in ControllerState
<1> DEFINE after == [n \in Node |-> IF n \in S THEN Append(c.toNode[n], m) ELSE c.toNode[n]]
<1>1. \A n \in Node : c.toNode[n] \in Seq(NodeMessage) BY DEF ControllerState
<1>2. after \in [Node -> Seq(NodeMessage)] BY <1>1
<1> HIDE DEF after
<1>3. SendNodes(c, S, m) = [c EXCEPT !.toNode = after] BY DEF SendNodes, after, ControllerState
<1> QED BY <1>2, <1>3 DEF ControllerState

LEMMA SendAnalyzerTyped ==
  ASSUME NEW c \in ControllerState, NEW item \in TestItem \cup {NoItem},
         NEW type \in {"TestItem", "CrashNode", "DishonestNode", "StartTest"}
  PROVE  SendAnalyzer(c, type, item) \in ControllerState
<1>1. [type |-> type, item |-> item] \in AnalyzerMessage BY DEF AnalyzerMessage
<1>2. c.toAnalyzer \in Seq(AnalyzerMessage) BY DEF ControllerState
<1>3. Append(c.toAnalyzer, [type |-> type, item |-> item]) \in Seq(AnalyzerMessage) BY <1>1, <1>2
<1> QED BY <1>3 DEF SendAnalyzer, ControllerState

LEMMA SelectTyped ==
  ASSUME NEW S \in SUBSET Node, NEW pick
  PROVE  S # {} => Select(S, pick) \in S
BY DEF Select

LEMMA ConfigureAnalyzerTyped ==
  ASSUME NEW c \in ControllerState
  PROVE  ConfigureAnalyzer(c) \in ControllerState
<1>1. CASE c.testItems = <<>> BY <1>1 DEF ConfigureAnalyzer, ControllerState
<1>2. CASE c.testItems # <<>>
  <2> DEFINE item == Head(c.testItems)
             d == [c EXCEPT !.testItems = Tail(@),
                     !.nextItem = item,
                     !.optionalCrash = IF item.kind = "Crash" THEN Node ELSE @,
                     !.optionalScalability = IF item.kind = "Scalability" THEN Node ELSE @]
  <2>1. c.testItems \in Seq(TestItem) BY DEF ControllerState
  <2>2. item \in TestItem /\ Tail(c.testItems) \in Seq(TestItem) BY <1>2, <2>1
  <2>3. d \in ControllerState BY <2>2 DEF ControllerState
  <2>4. ConfigureAnalyzer(c) = SendAnalyzer(d, "TestItem", item) BY <1>2 DEF ConfigureAnalyzer
  <2> HIDE DEF d, item
  <2> QED BY <2>2, <2>3, <2>4, SendAnalyzerTyped
<1> QED BY <1>1, <1>2

LEMMA ConfigureConsensusNodeTyped ==
  ASSUME NEW c \in ControllerState, NEW honest \in {"HonestFirst", "HonestOther"}, NEW pick
  PROVE  ConfigureConsensusNode(c, honest, pick) \in ControllerState
<1> DEFINE m == Say("ConfigureConsensusNode", SimpleMode(honest))
           u == Say("ConsensusNodeMode", SimpleMode("Uninitialized"))
           first == Select(c.optionalScalability, pick)
           rest == c.optionalScalability \ {first}
           d == [c EXCEPT !.consensusNodes = {}, !.scalabilityFirst = c.nextItem.at, !.optionalScalability = rest]
           e == [c EXCEPT !.consensusNodes = {}]
<1>1. m \in NodeMessage /\ u \in NodeMessage BY ModesTyped
<1>2. c.nextItem.at \in Nat
  <2>1. c.nextItem \in TestItem \cup {NoItem} BY DEF ControllerState
  <2>2. \A item \in TestItem : item.at \in Nat BY DEF TestItem
  <2>3. NoItem.at = 0 BY DEF NoItem, Item
  <2> HIDE DEF m, u, first, rest, d, e
  <2> QED BY <2>1, <2>2, <2>3
<1>3. rest \in SUBSET Node BY DEF ControllerState
<1>4. d \in ControllerState /\ e \in ControllerState
  <2> HIDE DEF first, rest
  <2> QED BY <1>2, <1>3 DEF ControllerState
<1>5. ConfigureConsensusNode(c, honest, pick) =
        IF c.nextItem.kind = "Scalability" THEN SendNodes(SendNodes(d, {first}, m), rest, u)
        ELSE SendNodes(e, Node, m)
  BY DEF ConfigureConsensusNode, SetConsensusNodeMode
<1> HIDE DEF d, e, m, u, first, rest
<1> QED BY <1>1, <1>4, <1>5, SendNodesTyped

LEMMA ConfigureTyped ==
  ASSUME NEW c \in ControllerState, NEW pick
  PROVE  ConfigureAnalyzerAndConsensusNode(c, pick) \in ControllerState
BY ConfigureAnalyzerTyped, ConfigureConsensusNodeTyped DEF ConfigureAnalyzerAndConsensusNode

LEMMA NextMidTestTyped ==
  ASSUME NEW c \in ControllerState, NEW extra \in {NoNode, "CrashNode", "DishonestNode"}
  PROVE  NextMidTest(c, extra) \in ControllerState
<1>1. c.nextMid \in TestItem \cup {NoItem} BY DEF ControllerState
<1>2. SendAnalyzer(c, "TestItem", c.nextMid) \in ControllerState BY <1>1, SendAnalyzerTyped
<1>3. extra # NoNode => extra \in {"CrashNode", "DishonestNode"} OBVIOUS
<1> QED BY <1>2, <1>3, SendAnalyzerTyped DEF NextMidTest

LEMMA ModeSetTyped ==
  ASSUME NEW c \in ControllerState, NEW S, NEW mode \in Mode
  PROVE  SetConsensusNodeMode(c, S, mode) \in ControllerState
BY SendNodesTyped, ModesTyped DEF SetConsensusNodeMode

LEMMA JoinNodeTyped ==
  ASSUME NEW c \in ControllerState, NEW pick, c.optionalScalability # {}
  PROVE  JoinNode(c, pick) \in ControllerState
<1> DEFINE n == Select(c.optionalScalability, pick)
           d == [c EXCEPT !.feedbackScalability = n, !.optionalScalability = @ \ {n}]
<1>1. c.optionalScalability \in SUBSET Node BY DEF ControllerState
<1>2. n \in Node /\ c.optionalScalability \ {n} \in SUBSET Node BY <1>1, SelectTyped
<1>3. JoinNode(c, pick) = SendNodes(d, {n}, Tell("JoinConsensus")) BY DEF JoinNode
<1> HIDE DEF n
<1>4. d \in ControllerState BY <1>2 DEF ControllerState
<1> HIDE DEF d
<1> QED BY <1>3, <1>4, SendNodesTyped, ModesTyped

LEMMA CrashANodeTyped ==
  ASSUME NEW c \in ControllerState, NEW pick, c.optionalCrash # {}
  PROVE  CrashANode(c, pick) \in ControllerState
<1> DEFINE n == Select(c.optionalCrash, pick)
           d == [c EXCEPT !.feedbackCrash = n, !.optionalCrash = @ \ {n}]
<1>1. c.optionalCrash \in SUBSET Node BY DEF ControllerState
<1>2. n \in Node /\ c.optionalCrash \ {n} \in SUBSET Node BY <1>1, SelectTyped
<1>3. CrashANode(c, pick) = SetConsensusNodeMode(d, {n}, SimpleMode("Crash")) BY DEF CrashANode
<1> HIDE DEF n
<1>4. d \in ControllerState BY <1>2 DEF ControllerState
<1> HIDE DEF d
<1> QED BY <1>3, <1>4, ModeSetTyped, ModesTyped

\* A round that has dishonest nodes is one of an item.
LEMMA MidIsItem ==
  ASSUME NEW c \in ControllerState, c.nextMid.kind \in DishonestKind
  PROVE  c.nextMid \in TestItem /\ DishonestMode(c.nextMid) \in Mode
<1>1. c.nextMid \in TestItem BY DEF ControllerState, NoItem, Item, DishonestKind
<1> QED BY <1>1, ModesTyped

LEMMA CorruptANodeTyped ==
  ASSUME NEW c \in ControllerState, c.nextMid.kind \in DishonestKind, c.optionalDishonest # <<>>
  PROVE  CorruptANode(c) \in ControllerState
<1> DEFINE n == c.optionalDishonest[Len(c.optionalDishonest)]
           d == [c EXCEPT !.feedbackDishonest = n]
<1>1. c.optionalDishonest \in Seq(Node) BY DEF ControllerState
<1>2. Len(c.optionalDishonest) \in 1..Len(c.optionalDishonest) BY <1>1, EmptySeq
<1>3. n \in Node BY <1>1, <1>2
<1>4. CorruptANode(c) = SetConsensusNodeMode(d, {n}, DishonestMode(c.nextMid)) BY DEF CorruptANode
<1> HIDE DEF n
<1>5. d \in ControllerState BY <1>3 DEF ControllerState
<1> HIDE DEF d
<1> QED BY <1>4, <1>5, ModeSetTyped, MidIsItem

LEMMA CorruptNodesTyped ==
  ASSUME NEW c \in ControllerState, c.nextMid.kind \in DishonestKind, NEW pick
  PROVE  CorruptNodes(c, pick) \in ControllerState
<1>1. CASE c.nextMid.count > Len(c.optionalDishonest)
  <2>1. PICK d : d = ConfigureAnalyzerAndConsensusNode(c, pick) OBVIOUS
  <2>2. d \in ControllerState BY <2>1, ConfigureTyped
  <2>3. CorruptNodes(c, pick) = [d EXCEPT !.dishonestCount = 0] BY <1>1, <2>1 DEF CorruptNodes
  <2>4. [d EXCEPT !.dishonestCount = 0] \in ControllerState BY <2>2 DEF ControllerState
  <2> QED BY <2>3, <2>4
<1>2. CASE ~(c.nextMid.count > Len(c.optionalDishonest))
  <2> DEFINE S == {c.optionalDishonest[i] : i \in 1..c.nextMid.count}
             d == [c EXCEPT !.dishonestCount = Cardinality(S)]
  <2>1. c.optionalDishonest \in Seq(Node) /\ Len(c.optionalDishonest) \in Nat BY DEF ControllerState
  <2>2. c.nextMid.count \in Nat BY MidIsItem DEF TestItem
  <2>3. \A i \in 1..c.nextMid.count : i \in 1..Len(c.optionalDishonest) BY <1>2, <2>1, <2>2
  <2>4. S \in SUBSET Node BY <2>1, <2>3
  <2>5. CorruptNodes(c, pick) = SetConsensusNodeMode(d, S, DishonestMode(c.nextMid))
    BY <1>2 DEF CorruptNodes
  <2> HIDE DEF S
  <2>6. Cardinality(S) \in Nat BY <2>4, NodesCounted
  <2>7. d \in ControllerState BY <2>6 DEF ControllerState
  <2> HIDE DEF d
  <2> QED BY <2>5, <2>7, ModeSetTyped, MidIsItem
<1> QED BY <1>1, <1>2

LEMMA NextTestTyped ==
  ASSUME NEW c \in ControllerState, NEW pick
  PROVE  NextTest(c, pick) \in ControllerState
<1> DEFINE mid == c.nextMid
<1>1. CASE mid = NoItem
  <2>1. mid.kind = "None" BY <1>1 DEF NoItem, Item
  <2>2. NextTest(c, pick) = ConfigureAnalyzerAndConsensusNode(c, pick) BY <1>1, <2>1 DEF NextTest
  <2> QED BY <2>2, ConfigureTyped
<1>2. CASE mid # NoItem /\ mid.kind = "Scalability"
  <2>1. CASE c.optionalScalability = {}
    <3>1. NextTest(c, pick) = NextMidTest(ConfigureAnalyzerAndConsensusNode(c, pick), NoNode)
      BY <1>2, <2>1 DEF NextTest
    <3> QED BY <3>1, ConfigureTyped, NextMidTestTyped
  <2>2. CASE c.optionalScalability # {}
    <3>1. NextTest(c, pick) = NextMidTest(JoinNode(c, pick), NoNode) BY <1>2, <2>2 DEF NextTest
    <3> QED BY <2>2, <3>1, JoinNodeTyped, NextMidTestTyped
  <2> QED BY <2>1, <2>2
<1>3. CASE mid # NoItem /\ mid.kind = "Crash"
  <2>1. CASE c.optionalCrash = {} BY <1>3, <2>1, ConfigureTyped DEF NextTest
  <2>2. CASE c.optionalCrash # {}
    <3>1. NextTest(c, pick) = NextMidTest(CrashANode(c, pick), "CrashNode") BY <1>3, <2>2 DEF NextTest
    <3> QED BY <2>2, <3>1, CrashANodeTyped, NextMidTestTyped
  <2> QED BY <2>1, <2>2
<1>4. CASE mid # NoItem /\ mid.kind \in {"LeaderFeignDeath", "LeaderSendDuplicateMessage",
                                         "LeaderSendAmbiguousMessage"}
  <2>1. CASE c.optionalDishonest = <<>>
    <3>1. NextTest(c, pick) \in {c, ConfigureAnalyzerAndConsensusNode(c, pick)} BY <1>4, <2>1 DEF NextTest
    <3> QED BY <3>1, ConfigureTyped
  <2>2. CASE c.optionalDishonest # <<>>
    <3>1. NextTest(c, pick) = NextMidTest(CorruptANode(c), "DishonestNode") BY <1>4, <2>2 DEF NextTest
    <3>2. mid.kind \in DishonestKind BY <1>4 DEF DishonestKind
    <3> QED BY <2>2, <3>1, <3>2, CorruptANodeTyped, NextMidTestTyped
  <2> QED BY <2>1, <2>2
<1>5. CASE mid # NoItem /\ mid.kind = "ReplicaNodeConspireForgeMessages"
  <2>1. NextTest(c, pick) = NextMidTest(CorruptNodes(c, pick), NoNode) BY <1>5 DEF NextTest
  <2>2. mid.kind \in DishonestKind BY <1>5 DEF DishonestKind
  <2> QED BY <2>1, <2>2, CorruptNodesTyped, NextMidTestTyped
<1>6. CASE /\ mid # NoItem
           /\ mid.kind \notin {"Scalability", "Crash", "LeaderFeignDeath", "LeaderSendDuplicateMessage",
                               "LeaderSendAmbiguousMessage", "ReplicaNodeConspireForgeMessages"}
  <2>1. NextTest(c, pick) = c BY <1>6 DEF NextTest
  <2> QED BY <2>1
<1> QED BY <1>1, <1>2, <1>3, <1>4, <1>5, <1>6

LEMMA ResetsTyped ==
  ASSUME NEW c \in ControllerState, NEW pick
  PROVE  /\ AllReset(c, pick) \in ControllerState
         /\ CheckResetAllSuccess(c, pick) \in ControllerState
         /\ ResetConsensusNode(c, pick) \in ControllerState
<1>1. [c EXCEPT !.resetCount = 0, !.crashResetCount = 0] \in ControllerState BY DEF ControllerState
<1>2. AllReset(c, pick) \in ControllerState BY <1>1, NextTestTyped DEF AllReset
<1>3. CheckResetAllSuccess(c, pick) \in ControllerState BY <1>2 DEF CheckResetAllSuccess
<1>4. ResetConsensusNode(c, pick) \in ControllerState
  BY <1>2, SendNodesTyped, ModesTyped DEF ResetConsensusNode
<1> QED BY <1>2, <1>3, <1>4

LEMMA RoundTyped ==
  ASSUME NEW c \in ControllerState
  PROVE  /\ ProtocolStart(c) \in ControllerState /\ StartTest(c) \in ControllerState
         /\ StartRound(c) \in ControllerState
<1>1. \A d \in ControllerState : ProtocolStart(d) \in ControllerState
  BY SendNodesTyped, ModesTyped DEF ProtocolStart
<1>2. \A d \in ControllerState : StartTest(d) \in ControllerState BY SendAnalyzerTyped DEF StartTest
<1> QED BY <1>1, <1>2 DEF StartRound

-----------------------------------------------------------------------------
(* The controller's handlers of what it hears.                              *)

LEMMA FieldsTyped ==
  ASSUME NEW c \in ControllerState, NEW phase \in Nat
  PROVE  FieldOf(c, phase) \in Nat /\ PopField(c, phase) \in ControllerState
<1>1. c.fields \in [DOMAIN Fields -> Nat] /\ c.phases \in SUBSET DOMAIN Fields BY DEF ControllerState
<1>2. FieldOf(c, phase) \in Nat BY <1>1 DEF FieldOf
<1>3. CASE phase \notin c.phases
  <2>1. PopField(c, phase) = [c EXCEPT !.panicked = TRUE] BY <1>3 DEF PopField
  <2>2. [c EXCEPT !.panicked = TRUE] \in ControllerState BY DEF ControllerState
  <2> QED BY <1>2, <2>1, <2>2
<1>4. CASE phase \in c.phases /\ c.fields[phase] = 0
  <2>1. c.phases \ {phase} \in SUBSET DOMAIN Fields BY <1>1
  <2>2. PopField(c, phase) = [c EXCEPT !.phases = @ \ {phase}] BY <1>4 DEF PopField
  <2> QED BY <1>2, <2>1, <2>2 DEF ControllerState
<1>5. CASE phase \in c.phases /\ c.fields[phase] # 0
  <2> DEFINE left == [c.fields EXCEPT ![phase] = @ - 1]
  <2>1. c.fields[phase] - 1 \in Nat BY <1>1, <1>5
  <2>2. left \in [DOMAIN Fields -> Nat] BY <1>1, <2>1
  <2>3. PopField(c, phase) = [c EXCEPT !.fields = left] BY <1>5 DEF PopField, ControllerState
  <2> HIDE DEF left
  <2>4. [c EXCEPT !.fields = left] \in ControllerState BY <2>2 DEF ControllerState
  <2> QED BY <1>2, <2>3, <2>4
<1> QED BY <1>2, <1>3, <1>4, <1>5

\* next_mid_test_item may become any item.
LEMMA MidTyped ==
  ASSUME NEW c \in ControllerState, NEW item \in TestItem \cup {NoItem}
  PROVE  [c EXCEPT !.nextMid = item] \in ControllerState
BY DEF ControllerState

LEMMA FieldRoundTyped ==
  ASSUME NEW c \in ControllerState, NEW item \in TestItem, NEW phase \in Nat
  PROVE  FieldRound(c, item, phase) \in ControllerState
<1>1. FieldOf(c, phase) \in Nat /\ PopField(c, phase) \in ControllerState BY FieldsTyped
<1>2. PICK next : next = [item EXCEPT !.at = phase, !.field = FieldOf(c, phase), !.count = 1] OBVIOUS
<1>3. next \in TestItem BY <1>1, <1>2 DEF TestItem
<1>4. FieldRound(c, item, phase) = [PopField(c, phase) EXCEPT !.nextMid = next] BY <1>2 DEF FieldRound
<1> QED BY <1>1, <1>3, <1>4, MidTyped

LEMMA AfterFieldRoundTyped ==
  ASSUME NEW c \in ControllerState, NEW item \in TestItem
  PROVE  AfterFieldRound(c, item) \in ControllerState
<1>1. item.at \in Nat /\ item.at + 1 \in Nat /\ item.count \in Nat BY DEF TestItem
<1>2. [item EXCEPT !.count = @ + 1] \in TestItem BY <1>1 DEF TestItem
<1>3. PopField(c, item.at) \in ControllerState BY <1>1, FieldsTyped
<1>4. FieldRound(c, item, 1) \in ControllerState /\ FieldRound(c, item, item.at) \in ControllerState
      /\ FieldRound(PopField(c, item.at), item, item.at + 1) \in ControllerState
  BY <1>1, <1>3, FieldRoundTyped
<1>5. /\ [c EXCEPT !.nextMid = NoItem] \in ControllerState
      /\ [c EXCEPT !.nextMid = [item EXCEPT !.count = @ + 1]] \in ControllerState
      /\ [PopField(c, item.at) EXCEPT !.nextMid = NoItem] \in ControllerState
  BY <1>2, <1>3, MidTyped
<1> QED BY <1>4, <1>5 DEF AfterFieldRound

LEMMA CompletedTestTyped ==
  ASSUME NEW c \in ControllerState, NEW item \in TestItem, NEW pick
  PROVE  CompletedTest(c, item, pick) \in ControllerState
<1> DEFINE step == IF item.kind = "Scalability" THEN item.step ELSE 1
           next == IF item.at + step <= item.max THEN [item EXCEPT !.at = @ + step] ELSE NoItem
<1>1. item.at + step \in Nat BY DEF TestItem
<1>2. next \in TestItem \cup {NoItem} BY <1>1 DEF TestItem
<1> HIDE DEF step
<1>3. AfterRound(c, item) \in {c, AfterFieldRound(c, item), [c EXCEPT !.nextMid = next]}
  BY DEF AfterRound, step
<1> HIDE DEF next
<1>4. AfterRound(c, item) \in ControllerState BY <1>2, <1>3, AfterFieldRoundTyped, MidTyped
<1> QED BY <1>4, ResetsTyped DEF CompletedTest

LEMMA HonestNodeTyped ==
  ASSUME NEW c \in ControllerState, NEW n \in Node
  PROVE  HonestNode(c, n) \in ControllerState
BY DEF HonestNode, ControllerState

\* Every counter of feedbacks may go up.
LEMMA CountsTyped ==
  ASSUME NEW c \in ControllerState
  PROVE  /\ [c EXCEPT !.configureCount = @ + 1] \in ControllerState
         /\ [c EXCEPT !.dishonestSuccess = 0, !.conspireTimers = @ + 1] \in ControllerState
         /\ [c EXCEPT !.dishonestSuccess = @ + 1] \in ControllerState
         /\ [c EXCEPT !.resetCount = @ + 1] \in ControllerState
         /\ \A n \in Node : [c EXCEPT !.crashResetCount = @ + 1, !.crashNodes = @ \cup {n}] \in ControllerState
<1>0. /\ c.configureCount \in Nat /\ c.conspireTimers \in Nat /\ c.dishonestSuccess \in Nat
      /\ c.resetCount \in Nat /\ c.crashResetCount \in Nat
  BY DEF ControllerState
<1>1. /\ c.configureCount + 1 \in Nat /\ c.conspireTimers + 1 \in Nat /\ c.dishonestSuccess + 1 \in Nat
      /\ c.resetCount + 1 \in Nat /\ c.crashResetCount + 1 \in Nat
  BY <1>0
<1>2. \A k \in Nat :
        /\ [c EXCEPT !.configureCount = k] \in ControllerState
        /\ [c EXCEPT !.dishonestSuccess = 0, !.conspireTimers = k] \in ControllerState
        /\ [c EXCEPT !.dishonestSuccess = k] \in ControllerState
        /\ [c EXCEPT !.resetCount = k] \in ControllerState
        /\ \A S \in SUBSET Node : [c EXCEPT !.crashResetCount = k, !.crashNodes = S] \in ControllerState
  BY DEF ControllerState
<1>3. \A n \in Node : c.crashNodes \cup {n} \in SUBSET Node BY DEF ControllerState
<1> QED BY <1>1, <1>2, <1>3

LEMMA ModeSuccessTyped ==
  ASSUME NEW c \in ControllerState, NEW n \in Node, NEW mode \in Mode
  PROVE  ConsensusNodeModeSuccess(c, n, mode) \in ControllerState
<1> DEFINE h == HonestNode(c, n)
           h0 == [h EXCEPT !.configureCount = 0, !.scalabilityFirst = 0]
           h1 == [h EXCEPT !.configureCount = @ + 1]
           d0 == [c EXCEPT !.dishonestSuccess = 0, !.conspireTimers = @ + 1]
           d1 == [c EXCEPT !.dishonestSuccess = @ + 1]
<1>1. ConsensusNodeModeSuccess(c, n, mode) \in {c, h, h1, d1, StartRound(h0), StartRound(d0), StartRound(c)}
  BY DEF ConsensusNodeModeSuccess
<1>2. h \in ControllerState BY HonestNodeTyped
<1> HIDE DEF h
<1>3. h0 \in ControllerState BY <1>2 DEF ControllerState
<1>4. h1 \in ControllerState BY <1>2, CountsTyped
<1>5. d0 \in ControllerState BY CountsTyped
<1>6. d1 \in ControllerState BY CountsTyped
<1> HIDE DEF h0, h1, d0, d1
<1> QED BY <1>1, <1>2, <1>3, <1>4, <1>5, <1>6, RoundTyped

LEMMA ResetSuccessTyped ==
  ASSUME NEW c \in ControllerState, NEW n \in Node, NEW mode \in Mode, NEW pick
  PROVE  ResetSuccess(c, n, mode, pick) \in ControllerState
<1> DEFINE d == [c EXCEPT !.crashResetCount = @ + 1, !.crashNodes = @ \cup {n}]
           e == [c EXCEPT !.resetCount = @ + 1]
<1>1. ResetSuccess(c, n, mode, pick) \in
        {c, SetConsensusNodeMode(d, d.crashNodes, SimpleMode("Uninitialized")),
         CheckResetAllSuccess(d, pick), CheckResetAllSuccess(e, pick)}
  BY DEF ResetSuccess
<1>2. d \in ControllerState BY CountsTyped
<1>3. e \in ControllerState BY CountsTyped
<1> HIDE DEF d, e
<1> QED BY <1>1, <1>2, <1>3, ResetsTyped, ModeSetTyped, ModesTyped

LEMMA HandleFeedbackTyped ==
  ASSUME NEW c \in ControllerState, NEW n \in Node, NEW m \in Feedback, NEW pick
  PROVE  HandleFeedback(c, n, m, pick) \in ControllerState
<1> DEFINE d == [c EXCEPT !.consensusNodes = @ \cup {n}]
<1>1. d \in ControllerState BY DEF ControllerState
<1>2. JoinConsensusSuccess(c, n) \in {c, StartRound(d)} BY DEF JoinConsensusSuccess
<1> HIDE DEF d
<1>3. JoinConsensusSuccess(c, n) \in ControllerState BY <1>1, <1>2, RoundTyped
<1>4. m.mode \in Mode BY DEF Feedback
<1>5. m.type \in {"ConsensusNodeModeSuccess", "JoinConsensusSuccess", "ResetSuccess"} BY DEF Feedback
<1>6. HandleFeedback(c, n, m, pick) \in
        {JoinConsensusSuccess(c, n), ResetSuccess(c, n, m.mode, pick), ConsensusNodeModeSuccess(c, n, m.mode)}
  BY <1>5 DEF HandleFeedback
<1> QED BY <1>3, <1>4, <1>6, ResetSuccessTyped, ModeSuccessTyped

LEMMA ConspireTyped ==
  ASSUME NEW c \in ControllerState
  PROVE  /\ c.conspireTimers > 0 => ConspireTimer(c) \in ControllerState
         /\ SendConspireRequest(c) \in ControllerState
<1>1. c.conspireTimers \in Nat BY DEF ControllerState
<1>2. \A k \in Nat : [c EXCEPT !.conspireTimers = k, !.conspirePermit = TRUE] \in ControllerState
  BY DEF ControllerState
<1>3. c.conspireTimers > 0 => c.conspireTimers - 1 \in Nat BY <1>1
<1>4. [c EXCEPT !.conspirePermit = FALSE] \in ControllerState BY DEF ControllerState
<1> QED BY <1>2, <1>3, <1>4, SendNodesTyped, ModesTyped DEF ConspireTimer, SendConspireRequest

LEMMA LinksTyped ==
  ASSUME NEW c \in ControllerState
  PROVE  /\ \A n \in Node : \A q \in Seq(NodeMessage) : [c EXCEPT !.toNode[n] = q] \in ControllerState
         /\ \A q \in Seq(AnalyzerMessage) : [c EXCEPT !.toAnalyzer = q] \in ControllerState
<1>1. ASSUME NEW n \in Node, NEW q \in Seq(NodeMessage)
      PROVE  [c EXCEPT !.toNode[n] = q] \in ControllerState
  <2>1. PICK t : t = [c.toNode EXCEPT ![n] = q] OBVIOUS
  <2>2. c.toNode \in [Node -> Seq(NodeMessage)] BY DEF ControllerState
  <2>3. t \in [Node -> Seq(NodeMessage)] BY <2>1, <2>2
  <2>4. [c EXCEPT !.toNode[n] = q] = [c EXCEPT !.toNode = t] BY <2>1 DEF ControllerState
  <2>5. [c EXCEPT !.toNode = t] \in ControllerState BY <2>3 DEF ControllerState
  <2> QED BY <2>4, <2>5
<1>2. \A q \in Seq(AnalyzerMessage) : [c EXCEPT !.toAnalyzer = q] \in ControllerState
  BY DEF ControllerState
<1> QED BY <1>1, <1>2

-----------------------------------------------------------------------------
(* The consensus nodes' and the analyzer's handlers keep their types.       *)

LEMMA OutTyped ==
  ASSUME NEW s \in NodeState, NEW m \in Feedback
  PROVE  /\ s.out \in Seq(Feedback) /\ Append(s.out, m) \in Seq(Feedback)
         /\ \A q \in Seq(Feedback) : [s EXCEPT !.out = q] \in NodeState
<1>1. s.out \in Seq(Feedback) BY DEF NodeState
<1> QED BY <1>1 DEF NodeState

LEMMA FeedbackTyped ==
  /\ \A mode \in Mode : Say("ConsensusNodeModeSuccess", mode) \in Feedback
                        /\ Say("ResetSuccess", mode) \in Feedback
  /\ Tell("JoinConsensusSuccess") \in Feedback
<1>1. SimpleMode("Uninitialized") \in Mode BY ModesTyped
<1> QED BY <1>1 DEF Tell, Say, Feedback

LEMMA HandleTyped ==
  ASSUME NEW s \in NodeState, NEW m \in NodeMessage
  PROVE  Handle(s, m) \in NodeState
<1>1. m.mode \in Mode BY DEF NodeMessage
<1>2. \A mode \in Mode : \A q \in Seq(Feedback) :
        [s EXCEPT !.mode = mode, !.subscribed = TRUE, !.out = q] \in NodeState
  BY DEF NodeState
<1> DEFINE accepted == [s EXCEPT !.mode = m.mode, !.subscribed = TRUE,
                                 !.out = Append(@, Say("ConsensusNodeModeSuccess", m.mode))]
           joined == [s EXCEPT !.mode = SimpleMode("HonestOther"), !.subscribed = TRUE,
                               !.out = Append(@, Tell("JoinConsensusSuccess"))]
           stopped == [s EXCEPT !.stopPermit = TRUE]
<1>3. accepted \in NodeState BY <1>1, <1>2, FeedbackTyped, OutTyped
<1>4. joined \in NodeState BY <1>2, FeedbackTyped, ModesTyped, OutTyped
<1>5. stopped \in NodeState BY DEF NodeState
<1>6. ProtocolStartPreprocess(s) \in NodeState
  <2>1. PICK j : j = IF s.mode.kind = "Crash" THEN s.crashTimers + 1 ELSE s.crashTimers OBVIOUS
  <2>2. PICK k : k = IF s.mode.kind \in DishonestKind THEN s.maliciousTimers + 1 ELSE s.maliciousTimers
    OBVIOUS
  <2>3. s.crashTimers \in Nat /\ s.maliciousTimers \in Nat BY DEF NodeState
  <2>4. j \in Nat /\ k \in Nat BY <2>1, <2>2, <2>3
  <2>5. ProtocolStartPreprocess(s) = [s EXCEPT !.running = TRUE, !.crashTimers = j, !.maliciousTimers = k]
    BY <2>1, <2>2 DEF ProtocolStartPreprocess
  <2>6. [s EXCEPT !.running = TRUE, !.crashTimers = j, !.maliciousTimers = k] \in NodeState
    BY <2>4 DEF NodeState
  <2> QED BY <2>5, <2>6
<1>7. HandleIdle(s, m) \in {s, accepted, joined, ProtocolStartPreprocess(s)} BY DEF HandleIdle
<1>8. HandleRunning(s, m) \in {s, stopped} BY DEF HandleRunning
<1> HIDE DEF accepted, joined, stopped
<1> QED BY <1>3, <1>4, <1>5, <1>6, <1>7, <1>8 DEF Handle

LEMMA ResetTyped ==
  ASSUME NEW s \in NodeState
  PROVE  Reset(s) \in NodeState
<1>1. s.mode \in Mode BY DEF NodeState
<1>2. \A q \in Seq(Feedback) : [s EXCEPT !.running = FALSE, !.malicious = FALSE, !.out = q] \in NodeState
  BY DEF NodeState
<1> QED BY <1>1, <1>2, FeedbackTyped, OutTyped DEF Reset

LEMMA NodeStepsTyped ==
  ASSUME NEW s \in NodeState
  PROVE  /\ Stop(s) \in NodeState /\ Crash(s) \in NodeState /\ Trigger(s) \in NodeState
         /\ Panic(s) \in NodeState
         /\ s.crashTimers > 0 => CrashTimer(s) \in NodeState
         /\ s.maliciousTimers > 0 => MaliciousTimer(s) \in NodeState
<1>1. /\ [s EXCEPT !.stopPermit = FALSE] \in NodeState
      /\ [s EXCEPT !.crashPermit = FALSE, !.subscribed = FALSE] \in NodeState
      /\ [s EXCEPT !.maliciousPermit = FALSE, !.malicious = TRUE] \in NodeState
  BY DEF NodeState
<1>2. \A k \in Nat : /\ [s EXCEPT !.crashTimers = k, !.crashPermit = TRUE] \in NodeState
                     /\ [s EXCEPT !.maliciousTimers = k, !.maliciousPermit = TRUE] \in NodeState
  BY DEF NodeState
<1>3. s.crashTimers \in Nat /\ s.maliciousTimers \in Nat BY DEF NodeState
<1>4. /\ s.crashTimers > 0 => s.crashTimers - 1 \in Nat
      /\ s.maliciousTimers > 0 => s.maliciousTimers - 1 \in Nat
  BY <1>3
<1>5. Stop(s) \in NodeState /\ Crash(s) \in NodeState BY <1>1, ResetTyped DEF Stop, Crash
<1>6. Trigger(s) \in NodeState BY <1>1 DEF Trigger
<1>7. Panic(s) \in NodeState BY DEF Panic, NewNode, NodeState
<1> QED BY <1>2, <1>4, <1>5, <1>6, <1>7 DEF CrashTimer, MaliciousTimer

LEMMA AnalyzerTyped ==
  ASSUME NEW a \in AnalyzerState
  PROVE  /\ \A m \in AnalyzerMessage : HandleController(a, m) \in AnalyzerState
         /\ a.timers > 0 => TestTimer(a) \in AnalyzerState
         /\ CompleteTest(a) \in AnalyzerState
         /\ \A q \in Seq(TestItem) : [a EXCEPT !.out = q] \in AnalyzerState
<1>1. a.timers \in Nat /\ a.item \in TestItem \cup {NoItem} /\ a.out \in Seq(TestItem)
      /\ a.results \in SUBSET TestItem
  BY DEF AnalyzerState
<1>2. /\ \A k \in Nat : /\ [a EXCEPT !.timers = k] \in AnalyzerState
                        /\ [a EXCEPT !.timers = k, !.completedPermit = TRUE] \in AnalyzerState
      /\ \A i \in TestItem \cup {NoItem} : [a EXCEPT !.item = i] \in AnalyzerState
      /\ \A q \in Seq(TestItem) : [a EXCEPT !.out = q] \in AnalyzerState
  BY DEF AnalyzerState
<1>3. /\ [a EXCEPT !.completedPermit = FALSE, !.panicked = TRUE] \in AnalyzerState
      /\ \A S \in SUBSET TestItem : \A q \in Seq(TestItem) :
           [a EXCEPT !.completedPermit = FALSE, !.item = NoItem, !.results = S, !.out = q] \in AnalyzerState
  BY DEF AnalyzerState
<1>4. ASSUME NEW m \in AnalyzerMessage
      PROVE  HandleController(a, m) \in AnalyzerState
  <2>1. m.item \in TestItem \cup {NoItem} BY DEF AnalyzerMessage
  <2>2. a.timers + 1 \in Nat BY <1>1
  <2>3. HandleController(a, m) \in {a, [a EXCEPT !.item = m.item], [a EXCEPT !.timers = @ + 1]}
    BY DEF HandleController
  <2> QED BY <1>2, <2>1, <2>2, <2>3
<1>5. a.timers > 0 => TestTimer(a) \in AnalyzerState
  <2>1. a.timers > 0 => a.timers - 1 \in Nat BY <1>1
  <2> QED BY <1>2, <2>1 DEF TestTimer
<1>6. CASE a.item = NoItem BY <1>2, <1>3, <1>4, <1>5, <1>6 DEF CompleteTest
<1>7. CASE a.item # NoItem
  <2>1. a.item \in TestItem BY <1>1, <1>7
  <2>2. a.results \cup {a.item} \in SUBSET TestItem /\ Append(a.out, a.item) \in Seq(TestItem)
    BY <1>1, <2>1
  <2>3. CompleteTest(a) \in AnalyzerState BY <1>3, <1>7, <2>2 DEF CompleteTest
  <2> QED BY <1>2, <1>4, <1>5, <2>3
<1> QED BY <1>6, <1>7

-----------------------------------------------------------------------------
(* A session.                                                               *)

LEMMA InitTyped == Init => TypeOK
<1> SUFFICES ASSUME Init PROVE TypeOK OBVIOUS
<1>1. PICK s \in Orders : ctl = NewController(plan.items, s) BY DEF Init
<1>2. plan \in Plans /\ plan.items \in Seq(TestItem) BY PlansAssumption DEF Init
<1>3. s \in Seq(Node) BY NodesCounted DEF Orders
<1>4. PICK t : t = [n \in Node |-> <<>>] OBVIOUS
<1>5. t \in [Node -> Seq(NodeMessage)] BY <1>4
<1>6. DOMAIN Fields \in SUBSET DOMAIN Fields OBVIOUS
<1>7. ctl \in ControllerState
  BY <1>1, <1>2, <1>3, <1>4, <1>5, <1>6, FieldsAssumption DEF NewController, ControllerState
<1>8. NewNode \in NodeState BY ModesTyped DEF NewNode, NodeState
<1>9. NewAnalyzer \in AnalyzerState BY DEF NewAnalyzer, AnalyzerState
<1> QED BY <1>2, <1>7, <1>8, <1>9 DEF Init, TypeOK

LEMMA OperatorTyped ==
  ASSUME TypeOK, Operator
  PROVE  TypeOK'
<1>1. ctl \in ControllerState BY DEF TypeOK
<1>2. ASSUME NEW k \in 0..3, NEW after \in ControllerState, Command(k, after)
      PROVE  TypeOK'
  <2>1. k + 1 \in 0..4 OBVIOUS
  <2> QED BY <1>2, <2>1 DEF Command, TypeOK
<1>3. CASE Command(0, ConfigureAnalyzer(ctl)) BY <1>1, <1>2, <1>3, ConfigureAnalyzerTyped
<1>4. CASE \E p \in Node : Command(1, ConfigureConsensusNode(ctl, "HonestFirst", p))
  <2>1. PICK p \in Node : Command(1, ConfigureConsensusNode(ctl, "HonestFirst", p)) BY <1>4
  <2> QED BY <1>1, <1>2, <2>1, ConfigureConsensusNodeTyped
<1>5. CASE Command(2, ProtocolStart(ctl)) BY <1>1, <1>2, <1>5, RoundTyped
<1>6. CASE Command(3, StartTest(ctl)) BY <1>1, <1>2, <1>6, RoundTyped
<1> QED BY <1>3, <1>4, <1>5, <1>6 DEF Operator

LEMMA NodeTyped ==
  ASSUME TypeOK, NEW n \in Node,
         \/ NodeTakes(n) \/ NodeStops(n) \/ NodeCrashes(n) \/ NodeTriggers(n)
         \/ NodePanics(n) \/ CrashTimerFires(n) \/ MaliciousTimerFires(n)
  PROVE  TypeOK'
<1>1. ctl \in ControllerState /\ node \in [Node -> NodeState] /\ node[n] \in NodeState
      /\ plan.ordered \in BOOLEAN
  BY PlansAssumption DEF TypeOK
<1>2. ASSUME NEW enabled, NEW after \in NodeState, NodeStep(n, enabled, after)
      PROVE  TypeOK'
  BY <1>2 DEF NodeStep, TypeOK
<1>3. CASE NodeTakes(n)
  <2>1. ctl.toNode[n] \in Seq(NodeMessage) BY <1>1 DEF ControllerState
  <2>2. PICK i \in Takeable(ctl.toNode[n], plan.ordered) :
          /\ node' = [node EXCEPT ![n] = Handle(@, ctl.toNode[n][i])]
          /\ ctl' = [ctl EXCEPT !.toNode[n] = Without(@, i)]
          /\ UNCHANGED <<plan, ana, cli>>
    BY <1>3 DEF NodeTakes
  <2>3. i \in 1..Len(ctl.toNode[n]) BY <1>1, <2>1, TakeableIn
  <2>4. ctl.toNode[n][i] \in NodeMessage BY <2>1, <2>3
  <2>5. Without(ctl.toNode[n], i) \in Seq(NodeMessage) BY <2>1, <2>3, WithoutTyped
  <2>6. Handle(node[n], ctl.toNode[n][i]) \in NodeState BY <1>1, <2>4, HandleTyped
  <2>7. node' \in [Node -> NodeState] BY <1>1, <2>2, <2>6
  <2>8. ctl' = [ctl EXCEPT !.toNode[n] = Without(ctl.toNode[n], i)] BY <2>2
  <2>9. ctl' \in ControllerState BY <1>1, <2>5, <2>8, LinksTyped
  <2> QED BY <2>2, <2>7, <2>9 DEF TypeOK
<1>4. CASE NodeStops(n) BY <1>1, <1>2, <1>4, NodeStepsTyped DEF NodeStops
<1>5. CASE NodeCrashes(n) BY <1>1, <1>2, <1>5, NodeStepsTyped DEF NodeCrashes
<1>6. CASE NodeTriggers(n) BY <1>1, <1>2, <1>6, NodeStepsTyped DEF NodeTriggers
<1>7. CASE CrashTimerFires(n)
  <2>1. CrashTimer(node[n]) \in NodeState BY <1>1, <1>7, NodeStepsTyped DEF CrashTimerFires, NodeStep
  <2> QED BY <1>2, <1>7, <2>1 DEF CrashTimerFires
<1>8. CASE MaliciousTimerFires(n)
  <2>1. MaliciousTimer(node[n]) \in NodeState
    BY <1>1, <1>8, NodeStepsTyped DEF MaliciousTimerFires, NodeStep
  <2> QED BY <1>2, <1>8, <2>1 DEF MaliciousTimerFires
<1>9. CASE NodePanics(n) BY <1>1, <1>2, <1>9, NodeStepsTyped DEF NodePanics
<1> QED BY <1>3, <1>4, <1>5, <1>6, <1>7, <1>8, <1>9

LEMMA AnalyzerStepTyped ==
  ASSUME TypeOK, AnalyzerTakes \/ TestTimerFires \/ AnalyzerCompletes
  PROVE  TypeOK'
<1>1. ctl \in ControllerState /\ ana \in AnalyzerState /\ plan.ordered \in BOOLEAN
  BY PlansAssumption DEF TypeOK
<1>2. CASE AnalyzerTakes
  <2>1. ctl.toAnalyzer \in Seq(AnalyzerMessage) BY <1>1 DEF ControllerState
  <2>2. PICK i \in Takeable(ctl.toAnalyzer, plan.ordered) :
          /\ ana' = HandleController(ana, ctl.toAnalyzer[i])
          /\ ctl' = [ctl EXCEPT !.toAnalyzer = Without(@, i)]
    BY <1>2 DEF AnalyzerTakes
  <2>3. i \in 1..Len(ctl.toAnalyzer) BY <1>1, <2>1, TakeableIn
  <2>4. ctl.toAnalyzer[i] \in AnalyzerMessage BY <2>1, <2>3
  <2>5. Without(ctl.toAnalyzer, i) \in Seq(AnalyzerMessage) BY <2>1, <2>3, WithoutTyped
  <2>6. ana' \in AnalyzerState BY <1>1, <2>2, <2>4, AnalyzerTyped
  <2>7. ctl' = [ctl EXCEPT !.toAnalyzer = Without(ctl.toAnalyzer, i)] BY <2>2
  <2>8. ctl' \in ControllerState BY <1>1, <2>5, <2>7, LinksTyped
  <2> QED BY <1>2, <2>6, <2>8 DEF AnalyzerTakes, TypeOK
<1>3. CASE TestTimerFires
  <2>1. ana' \in AnalyzerState BY <1>1, <1>3, AnalyzerTyped DEF TestTimerFires
  <2> QED BY <1>3, <2>1 DEF TestTimerFires, TypeOK
<1>4. CASE AnalyzerCompletes
  <2>1. ana' \in AnalyzerState BY <1>1, <1>4, AnalyzerTyped DEF AnalyzerCompletes
  <2> QED BY <1>4, <2>1 DEF AnalyzerCompletes, TypeOK
<1> QED BY <1>2, <1>3, <1>4

LEMMA ControllerTyped ==
  ASSUME TypeOK,
         \/ \E n \in Node : ControllerHearsNode(n)
         \/ ControllerHearsAnalyzer \/ ConspireTimerFires \/ ControllerConspires
  PROVE  TypeOK'
<1>1. ctl \in ControllerState /\ ana \in AnalyzerState /\ plan.ordered \in BOOLEAN
      /\ node \in [Node -> NodeState]
  BY PlansAssumption DEF TypeOK
<1>2. ASSUME NEW n \in Node, ControllerHearsNode(n)
      PROVE  TypeOK'
  <2>1. node[n] \in NodeState /\ node[n].out \in Seq(Feedback) BY <1>1 DEF NodeState
  <2>2. PICK i \in Takeable(node[n].out, plan.ordered), p \in Node :
          /\ ctl' = HandleFeedback(ctl, n, node[n].out[i], p)
          /\ node' = [node EXCEPT ![n].out = Without(@, i)]
    BY <1>2 DEF ControllerHearsNode
  <2>3. i \in 1..Len(node[n].out) BY <1>1, <2>1, TakeableIn
  <2>4. node[n].out[i] \in Feedback BY <2>1, <2>3
  <2>5. PICK q : q = Without(node[n].out, i) OBVIOUS
  <2>6. q \in Seq(Feedback) BY <2>1, <2>3, <2>5, WithoutTyped
  <2>7. ctl' \in ControllerState BY <1>1, <2>2, <2>4, HandleFeedbackTyped
  <2>8. PICK s : s = [node[n] EXCEPT !.out = q] OBVIOUS
  <2>9. s \in NodeState BY <2>1, <2>4, <2>6, <2>8, OutTyped
  <2>10. node' = [node EXCEPT ![n] = s] BY <2>2, <2>5, <2>8
  <2>11. node' \in [Node -> NodeState] BY <1>1, <2>9, <2>10
  <2> QED BY <1>2, <2>7, <2>11 DEF ControllerHearsNode, TypeOK
<1>3. CASE ControllerHearsAnalyzer
  <2>1. ana.out \in Seq(TestItem) BY <1>1 DEF AnalyzerState
  <2>2. PICK i \in Takeable(ana.out, plan.ordered), p \in Node :
          /\ ctl' = CompletedTest(ctl, ana.out[i], p)
          /\ ana' = [ana EXCEPT !.out = Without(@, i)]
    BY <1>3 DEF ControllerHearsAnalyzer
  <2>3. i \in 1..Len(ana.out) BY <1>1, <2>1, TakeableIn
  <2>4. ana.out[i] \in TestItem BY <2>1, <2>3
  <2>5. Without(ana.out, i) \in Seq(TestItem) BY <2>1, <2>3, WithoutTyped
  <2>6. ctl' \in ControllerState BY <1>1, <2>2, <2>4, CompletedTestTyped
  <2>7. ana' = [ana EXCEPT !.out = Without(ana.out, i)] BY <2>2
  <2>8. ana' \in AnalyzerState BY <1>1, <2>5, <2>7, AnalyzerTyped
  <2> QED BY <1>3, <2>6, <2>8 DEF ControllerHearsAnalyzer, TypeOK
<1>4. CASE ConspireTimerFires
  <2>1. ctl' \in ControllerState BY <1>1, <1>4, ConspireTyped DEF ConspireTimerFires
  <2> QED BY <1>4, <2>1 DEF ConspireTimerFires, TypeOK
<1>5. CASE ControllerConspires
  <2>1. ctl' \in ControllerState BY <1>1, <1>5, ConspireTyped DEF ControllerConspires
  <2> QED BY <1>5, <2>1 DEF ControllerConspires, TypeOK
<1> QED BY <1>2, <1>3, <1>4, <1>5

LEMMA StepTyped ==
  ASSUME TypeOK, [Next]_vars
  PROVE  TypeOK'
<1>1. CASE Operator BY <1>1, OperatorTyped
<1>2. CASE \E n \in Node : \/ NodeTakes(n) \/ NodeStops(n) \/ NodeCrashes(n) \/ NodeTriggers(n)
                           \/ NodePanics(n) \/ CrashTimerFires(n) \/ MaliciousTimerFires(n)
  BY <1>2, NodeTyped
<1>3. CASE AnalyzerTakes \/ TestTimerFires \/ AnalyzerCompletes BY <1>3, AnalyzerStepTyped
<1>4. CASE \/ \E n \in Node : ControllerHearsNode(n)
           \/ ControllerHearsAnalyzer \/ ConspireTimerFires \/ ControllerConspires
  BY <1>4, ControllerTyped
<1>5. CASE UNCHANGED vars BY <1>5 DEF TypeOK, vars
<1> QED BY <1>1, <1>2, <1>3, <1>4, <1>5 DEF Next

\* The records of the controller (struct Controller), of every node and of the
\* analyzer keep their types for any set of nodes, any candidate fields and any
\* plans, with links that keep the order of their messages or not, and however
\* late its feedbacks come: no counter or timer falls below zero, next_test never
\* takes a node from an empty set of candidates, and a dishonest round's mode
\* (DishonestMode) is always taken from a configured item.
THEOREM FrameworkTypes == Spec => []TypeOK
BY InitTyped, StepTyped, PTL DEF Spec

-----------------------------------------------------------------------------
(* The rounds of a session.                                                 *)

\* Classes of messages.  A node answers an honest configuration (H), a mode or
\* an invitation that one node is told (W), and a mode that conspirators are told
\* (K) at most once, with an answer of the same class; everything else that asks for
\* an answer is of no consequence to the controller.
Answered == {"ConfigureConsensusNode", "ConsensusNodeMode"}
SingleKind == ({"Crash"} \cup DishonestKind) \ {"ReplicaNodeConspireForgeMessages"}

HMsg == {m \in NodeMessage : m.type \in Answered /\ m.mode.kind = "HonestOther"}
WMsg == {m \in NodeMessage : \/ m.type = "JoinConsensus"
                             \/ m.type \in Answered /\ m.mode.kind \in SingleKind}
KMsg == {m \in NodeMessage : m.type \in Answered /\ m.mode.kind = "ReplicaNodeConspireForgeMessages"}
StartMsg == {m \in NodeMessage : m.type = "ProtocolStart"}
ResetMsg == {m \in NodeMessage : m.type = "Reset"}

HAns == {m \in Feedback : m.type = "ConsensusNodeModeSuccess" /\ m.mode.kind = "HonestOther"}
WAns == {m \in Feedback : \/ m.type = "JoinConsensusSuccess"
                          \/ m.type = "ConsensusNodeModeSuccess" /\ m.mode.kind \in SingleKind}
KAns == {m \in Feedback : m.type = "ConsensusNodeModeSuccess"
                          /\ m.mode.kind = "ReplicaNodeConspireForgeMessages"}
RAns == {m \in Feedback : m.type = "ResetSuccess"}
StopAns == {m \in RAns : m.mode.kind # "Crash"}

BeginMsg == {m \in AnalyzerMessage : m.type = "StartTest"}
EmptyMsg == {m \in AnalyzerMessage : m.type = "TestItem" /\ m.item = NoItem}

Has(q, C) == \E i \in 1..Len(q) : q[i] \in C
One(q, C) == \A i, j \in 1..Len(q) : q[i] \in C /\ q[j] \in C => i = j

\* No Reset comes after a ProtocolStart.
Sorted(q) == \A i, j \in 1..Len(q) : i < j /\ q[j] \in ResetMsg => q[i] \notin StartMsg

\* Nodes with a question of class M, or its answer of class A, on the way.
Pending(c, ns, M, A) == {n \in Node : Has(c.toNode[n], M) \/ Has(ns[n].out, A)}

\* At most one of the two is, and once (q: the link to a node, o: the link from it).
Lane(q, o, M, A) == One(q, M) /\ One(o, A) /\ ~(Has(q, M) /\ Has(o, A))

\* Nodes that are about to run, run, or have a ResetSuccess on the way.
Active(c, ns) == {n \in Node : Has(c.toNode[n], StartMsg) \/ ns[n].running \/ Has(ns[n].out, RAns)}

Orderly(p) == p.timely /\ p.ordered

\* Where the one token of the session is: the operator has it until the test
\* starts; then the controller waits for configurations (cfgH), for one node (cfgW)
\* or for the conspirators (cfgK), the round is tested, or it is being reset.
Configuring == {"cfgH", "cfgW", "cfgK"}
Phases == Configuring \cup {"op", "test", "reset"}

Ended(a) == a.completedPermit \/ a.out # <<>>

\* No node is asked anything twice at a time, and no node is in a round twice.
Lanes(c, ns) ==
  \A n \in Node :
    /\ Lane(c.toNode[n], ns[n].out, HMsg, HAns) /\ Lane(c.toNode[n], ns[n].out, WMsg, WAns)
    /\ Lane(c.toNode[n], ns[n].out, KMsg, KAns) /\ Lane(c.toNode[n], ns[n].out, StartMsg, RAns)
    /\ ns[n].running => ~Has(c.toNode[n], StartMsg) /\ ~Has(ns[n].out, RAns)
    /\ ns[n].stopPermit => ns[n].running

\* The answers still to come start a round at most once, and only when one is due.
Asked(ph, c, ns, p) ==
  LET H == Pending(c, ns, HMsg, HAns)
      W == Pending(c, ns, WMsg, WAns)
      K == Pending(c, ns, KMsg, KAns)
  IN
  /\ c.configureCount < Cardinality(Node)
  /\ ph # "cfgH" => c.configureCount + Cardinality(H) < Cardinality(Node)
                    /\ (c.scalabilityFirst = 1 => H = {})
  /\ ~Orderly(p) =>
       IF ph = "cfgH" THEN /\ c.scalabilityFirst = 1 => Cardinality(H) <= 1
                           /\ c.configureCount + Cardinality(H) <= Cardinality(Node)
                      ELSE H = {} /\ c.configureCount = 0 /\ c.scalabilityFirst # 1
  /\ IF ph = "cfgW" THEN Cardinality(W) <= 1 ELSE W = {}
  /\ IF ph = "cfgK" THEN Cardinality(K) + c.dishonestSuccess <= c.dishonestCount
                    ELSE K = {} /\ c.dishonestSuccess = 0

\* S: the nodes of the round whose ResetSuccess has been counted.
Counted(ph, S, c, ns, k) ==
  /\ S \cup Active(c, ns) \subseteq c.consensusNodes
  /\ S \cap Active(c, ns) = {}
  /\ Cardinality(S) = c.resetCount + c.crashResetCount
  /\ ph \in Configuring => Active(c, ns) = {} /\ S = {}
  /\ ph # "reset" => \A n \in Node : ~ns[n].stopPermit
  /\ ph = "op" => /\ S = {}
                  /\ \A n \in Node : ~Has(ns[n].out, RAns) /\ ns[n].mode.kind # "Crash"
                  /\ k <= 2 => Active(c, ns) = {}
  /\ ph = "test" => /\ c.resetCount = 0
                    /\ \A n \in Node : ~Has(ns[n].out, StopAns)
  /\ (ph = "op") <=> (k < 4)

\* Links in order, timers in time: a node that is to crash has crashed when the
\* test ends, and a Reset it did not need is out of the way before it starts again.
InOrder(ph, c, ns, a) ==
  /\ \A n \in Node :
       /\ ns[n].crashTimers <= 1 /\ (ns[n].crashTimers > 0 => ~ns[n].crashPermit)
       /\ ns[n].crashTimers > 0 \/ ns[n].crashPermit =>
            ns[n].running /\ ns[n].mode.kind = "Crash" /\ ph = "test" /\ ~Ended(a)
       /\ ph # "reset" /\ Has(c.toNode[n], ResetMsg) => ~ns[n].running
       /\ Sorted(c.toNode[n])
  /\ ph = "reset" \/ Ended(a) =>
       /\ Pending(c, ns, HMsg, HAns) = {}
       /\ \A n \in Node : ~Has(c.toNode[n], StartMsg)

\* Any links, any timing, no crash test: nothing but a Reset ends a node's run.
CrashMsg == {m \in NodeMessage : m.mode.kind = "Crash"}
CrashAns == {m \in Feedback : m.mode.kind = "Crash"}
CrashItem == {i \in TestItem : i.kind = "Crash"}
CrashNote == {m \in AnalyzerMessage : m.item \in CrashItem}

NoCrash(ph, S, c, ns, a, k) ==
  /\ ~Has(c.testItems, CrashItem) /\ c.nextMid \notin CrashItem /\ ~Has(c.toAnalyzer, CrashNote)
  /\ a.item \notin CrashItem /\ ~Has(a.out, CrashItem)
  /\ \A n \in Node :
       /\ ns[n].crashTimers = 0 /\ ~ns[n].crashPermit /\ ns[n].mode.kind # "Crash"
       /\ ~Has(c.toNode[n], CrashMsg) /\ ~Has(ns[n].out, CrashAns)
       /\ One(c.toNode[n], ResetMsg)
       /\ Has(c.toNode[n], ResetMsg) =>
            ~ns[n].stopPermit /\ ~Has(ns[n].out, RAns) /\ n \in c.consensusNodes \ S
       /\ ph # "reset" => ~Has(c.toNode[n], ResetMsg) /\ ~Has(ns[n].out, RAns)
  /\ ph # "reset" => S = {}
  /\ k = 0 /\ c.testItems # <<>> => Head(c.testItems).kind # "Scalability"
  /\ k = 1 => c.nextItem.kind # "Scalability"

\* At most one test is on, and the analyzer knows its item.
Tested(ph, c, a) ==
  /\ IF ph = "test"
       THEN /\ One(c.toAnalyzer, BeginMsg) /\ a.timers <= 1 /\ Len(a.out) <= 1
            /\ Has(c.toAnalyzer, BeginMsg) => a.timers = 0 /\ ~Ended(a)
            /\ a.timers > 0 => ~Ended(a)
            /\ a.completedPermit => a.out = <<>>
       ELSE ~Has(c.toAnalyzer, BeginMsg) /\ a.timers = 0 /\ ~Ended(a)
  /\ a.timers > 0 \/ a.completedPermit => a.item # NoItem
  /\ ~Has(c.toAnalyzer, EmptyMsg)
  /\ ~a.panicked

Fits(ph, S, c, ns, a, k, p) ==
  /\ Lanes(c, ns)
  /\ Asked(ph, c, ns, p)
  /\ Counted(ph, S, c, ns, k)
  /\ IF Orderly(p) THEN InOrder(ph, c, ns, a) ELSE NoCrash(ph, S, c, ns, a, k)
  /\ Tested(ph, c, a)

RoundInv == TypeOK /\ \E ph \in Phases, S \in SUBSET Node : Fits(ph, S, ctl, node, ana, cli, plan)

InScope(p) ==
  \/ Orderly(p)
  \/ /\ \A i \in 1..Len(p.items) : p.items[i].kind # "Crash"
     /\ p.items # <<>> => Head(p.items).kind # "Scalability"

-----------------------------------------------------------------------------
(* Messages in a link.                                                      *)

LEMMA WithoutElements ==
  ASSUME NEW T, NEW q \in Seq(T), NEW i \in 1..Len(q)
  PROVE  /\ Without(q, i) \in Seq(T)
         /\ Len(Without(q, i)) = Len(q) - 1
         /\ \A j \in 1..(Len(q) - 1) : Without(q, i)[j] = IF j < i THEN q[j] ELSE q[j + 1]
<1> DEFINE l == SubSeq(q, 1, i - 1)
           r == SubSeq(q, i + 1, Len(q))
<1>1. Len(q) \in Nat /\ i \in Nat /\ 1 <= i /\ i <= Len(q) OBVIOUS
<1>2. l \in Seq(T) /\ Len(l) = i - 1 /\ \A j \in 1..(i - 1) : l[j] = q[j]
  <2>1. \A k \in 1..(i - 1) : k \in 1..Len(q) BY <1>1
  <2>2. \A k \in 1..(i - 1) : q[k] \in T BY <2>1
  <2> QED BY <1>1, <2>2, SubSeqProperties
<1>3. r \in Seq(T) /\ Len(r) = Len(q) - i /\ \A j \in 1..(Len(q) - i) : r[j] = q[i + j]
  <2>1. \A k \in (i + 1)..Len(q) : k \in 1..Len(q) BY <1>1
  <2>2. \A k \in (i + 1)..Len(q) : q[k] \in T BY <2>1
  <2>3. r \in Seq(T) /\ Len(r) = Len(q) - i BY <1>1, <2>2, SubSeqProperties
  <2>4. \A j \in 1..(Len(q) - i) : r[j] = q[i + j] BY <1>1
  <2> QED BY <2>3, <2>4
<1>4. Without(q, i) = l \o r BY DEF Without
<1> HIDE DEF l, r
<1>5. Len(Without(q, i)) = Len(q) - 1 /\ Without(q, i) \in Seq(T)
  <2>1. Len(l \o r) = Len(l) + Len(r) /\ l \o r \in Seq(T) BY <1>2, <1>3, ConcatProperties
  <2>2. (i - 1) + (Len(q) - i) = Len(q) - 1 BY <1>1
  <2> QED BY <1>2, <1>3, <1>4, <2>1, <2>2
<1>6. ASSUME NEW j \in 1..(Len(q) - 1)
      PROVE  Without(q, i)[j] = IF j < i THEN q[j] ELSE q[j + 1]
  <2>1. CASE j < i
    <3>1. (l \o r)[j] = l[j] BY <1>1, <1>2, <1>3, <2>1
    <3>2. j \in 1..(i - 1) BY <1>1, <2>1
    <3>3. l[j] = q[j] BY <1>2, <3>2
    <3> QED BY <1>4, <2>1, <3>1, <3>3
  <2>2. CASE ~(j < i)
    <3>1. j - Len(l) \in 1..(Len(q) - i) /\ i + (j - Len(l)) = j + 1 BY <1>1, <1>2, <2>2
    <3>2. (l \o r)[j] = r[j - Len(l)] BY <1>1, <1>2, <1>3, <2>2
    <3> QED BY <1>3, <1>4, <2>2, <3>1, <3>2
  <2> QED BY <2>1, <2>2
<1> QED BY <1>5, <1>6

\* A message that is left was there, and taking the only one leaves none.
LEMMA LinkTaken ==
  ASSUME NEW T, NEW q \in Seq(T), NEW i \in 1..Len(q), NEW C
  PROVE  /\ Has(Without(q, i), C) => Has(q, C)
         /\ One(q, C) => One(Without(q, i), C)
         /\ One(q, C) /\ q[i] \in C => ~Has(Without(q, i), C)
         /\ q[i] \in C => Has(q, C)
<1> DEFINE w == Without(q, i)
           at(j) == IF j < i THEN j ELSE j + 1
<1>1. Len(q) \in Nat /\ i \in Nat OBVIOUS
<1>2. Len(w) = Len(q) - 1 /\ \A j \in 1..(Len(q) - 1) : w[j] = IF j < i THEN q[j] ELSE q[j + 1]
  BY WithoutElements
<1>3. \A j \in 1..Len(w) : w[j] = q[at(j)] /\ at(j) \in 1..Len(q) /\ at(j) # i BY <1>1, <1>2
<1>4. \A j, k \in 1..Len(w) : at(j) = at(k) => j = k BY <1>1, <1>2
<1> HIDE DEF w, at
<1>5. Has(w, C) => Has(q, C) BY <1>3 DEF Has
<1>6. One(q, C) => One(w, C) BY <1>3, <1>4 DEF One
<1>7. One(q, C) /\ q[i] \in C => ~Has(w, C) BY <1>3 DEF One, Has
<1>8. q[i] \in C => Has(q, C) BY DEF Has
<1> QED BY <1>5, <1>6, <1>7, <1>8 DEF w

LEMMA LinkSent ==
  ASSUME NEW T, NEW q \in Seq(T), NEW m \in T, NEW C
  PROVE  /\ Has(Append(q, m), C) <=> Has(q, C) \/ m \in C
         /\ One(q, C) /\ (m \in C => ~Has(q, C)) => One(Append(q, m), C)
<1> DEFINE r == Append(q, m)
<1>1. Len(q) \in Nat /\ Len(r) = Len(q) + 1 OBVIOUS
<1>2. \A j \in 1..Len(q) : r[j] = q[j] /\ j \in 1..Len(r) BY <1>1
<1>3. r[Len(r)] = m /\ Len(r) \in 1..Len(r) BY <1>1
<1>4. \A j \in 1..Len(r) : j \in 1..Len(q) \/ j = Len(r) BY <1>1
<1> HIDE DEF r
<1>5. Has(r, C) => Has(q, C) \/ m \in C BY <1>2, <1>3, <1>4 DEF Has
<1>6. Has(q, C) => Has(r, C) BY <1>2 DEF Has
<1>7. m \in C => Has(r, C) BY <1>3 DEF Has
<1>8. One(q, C) /\ (m \in C => ~Has(q, C)) => One(r, C) BY <1>2, <1>3, <1>4 DEF One, Has
<1> QED BY <1>5, <1>6, <1>7, <1>8 DEF r

LEMMA LinkEmpty == \A C : ~Has(<<>>, C) /\ One(<<>>, C)
BY DEF Has, One

LEMMA PendingCounted ==
  ASSUME NEW c, NEW ns, NEW M, NEW A
  PROVE  /\ Pending(c, ns, M, A) \in SUBSET Node /\ IsFiniteSet(Pending(c, ns, M, A))
         /\ Cardinality(Pending(c, ns, M, A)) \in Nat
BY NodesCounted DEF Pending

LEMMA FewerCounted ==
  ASSUME NEW P \in SUBSET Node, NEW Q, Q \subseteq P
  PROVE  /\ Cardinality(P) \in Nat /\ Cardinality(Q) \in Nat /\ Cardinality(Q) <= Cardinality(P)
         /\ Cardinality(Q) = Cardinality(P) => Q = P
<1>1. IsFiniteSet(P) BY NodesCounted
<1> QED BY <1>1, FS_Subset, FS_CardinalityType

LEMMA OneLessCounted ==
  ASSUME NEW P \in SUBSET Node, NEW n \in P
  PROVE  Cardinality(P \ {n}) = Cardinality(P) - 1 /\ Cardinality(P) \in Nat /\ Cardinality(P) >= 1
<1>1. IsFiniteSet(P) /\ IsFiniteSet(P \ {n}) BY NodesCounted, FS_RemoveElement
<1>2. Cardinality(P \ {n}) = Cardinality(P) - 1 BY <1>1, FS_RemoveElement
<1> QED BY <1>1, <1>2, FS_CardinalityType

\* A node takes message i of q; it answers with o2, if at all of the same class.
LEMMA LaneTaken ==
  ASSUME NEW q \in Seq(NodeMessage), NEW o \in Seq(Feedback), NEW i \in 1..Len(q), NEW M, NEW A,
         NEW o2, o2 = o \/ \E f \in Feedback : o2 = Append(o, f) /\ (f \in A => q[i] \in M),
         Lane(q, o, M, A)
  PROVE  /\ Lane(Without(q, i), o2, M, A)
         /\ Has(Without(q, i), M) \/ Has(o2, A) => Has(q, M) \/ Has(o, A)
<1>1. /\ Has(Without(q, i), M) => Has(q, M)
      /\ One(Without(q, i), M)
      /\ q[i] \in M => ~Has(Without(q, i), M) /\ Has(q, M)
  BY LinkTaken DEF Lane
<1>2. CASE o2 = o BY <1>1, <1>2 DEF Lane
<1>3. CASE o2 # o
  <2>1. PICK f \in Feedback : o2 = Append(o, f) /\ (f \in A => q[i] \in M) BY <1>3
  <2>2. /\ Has(o2, A) <=> Has(o, A) \/ f \in A
        /\ One(o, A) /\ (f \in A => ~Has(o, A)) => One(o2, A)
    BY <2>1, LinkSent
  <2> QED BY <1>1, <2>1, <2>2 DEF Lane
<1> QED BY <1>2, <1>3

\* The controller takes message i of o.
LEMMA LaneHeard ==
  ASSUME NEW q, NEW o \in Seq(Feedback), NEW i \in 1..Len(o), NEW M, NEW A, Lane(q, o, M, A)
  PROVE  /\ Lane(q, Without(o, i), M, A)
         /\ Has(q, M) \/ Has(Without(o, i), A) => Has(q, M) \/ Has(o, A)
         /\ o[i] \in A => ~Has(q, M) /\ ~Has(Without(o, i), A) /\ Has(o, A)
<1>1. /\ Has(Without(o, i), A) => Has(o, A)
      /\ One(Without(o, i), A)
      /\ o[i] \in A => ~Has(Without(o, i), A) /\ Has(o, A)
  BY LinkTaken DEF Lane
<1> QED BY <1>1 DEF Lane

LEMMA SortedTaken ==
  ASSUME NEW q \in Seq(NodeMessage), NEW i \in 1..Len(q), Sorted(q)
  PROVE  /\ Sorted(Without(q, i))
         /\ i = 1 /\ q[i] \in StartMsg => ~Has(Without(q, i), ResetMsg)
<1> DEFINE w == Without(q, i)
           at(j) == IF j < i THEN j ELSE j + 1
<1>1. Len(q) \in Nat /\ i \in Nat OBVIOUS
<1>2. Len(w) = Len(q) - 1 /\ \A j \in 1..(Len(q) - 1) : w[j] = IF j < i THEN q[j] ELSE q[j + 1]
  BY WithoutElements
<1>3. \A j \in 1..Len(w) : w[j] = q[at(j)] /\ at(j) \in 1..Len(q) BY <1>1, <1>2
<1>4. \A j, k \in 1..Len(w) : j < k => at(j) < at(k) BY <1>1, <1>2
<1>5. i = 1 => \A j \in 1..Len(w) : i < at(j) BY <1>1, <1>2
<1> HIDE DEF w, at
<1>6. Sorted(w) BY <1>3, <1>4 DEF Sorted
<1>7. i = 1 /\ q[i] \in StartMsg => ~Has(w, ResetMsg) BY <1>3, <1>5 DEF Sorted, Has
<1> QED BY <1>6, <1>7 DEF w

LEMMA SortedSent ==
  ASSUME NEW q \in Seq(NodeMessage), NEW m \in NodeMessage, Sorted(q),
         m \in ResetMsg => ~Has(q, StartMsg)
  PROVE  Sorted(Append(q, m))
<1> DEFINE r == Append(q, m)
<1>1. Len(q) \in Nat /\ Len(r) = Len(q) + 1 OBVIOUS
<1>2. \A j \in 1..Len(q) : r[j] = q[j] BY <1>1
<1>3. r[Len(r)] = m BY <1>1
<1>4. \A i, j \in 1..Len(r) : i < j => i \in 1..Len(q) /\ (j \in 1..Len(q) \/ j = Len(r)) BY <1>1
<1> HIDE DEF r
<1>5. Sorted(r) BY <1>2, <1>3, <1>4 DEF Sorted, Has
<1> QED BY <1>5 DEF r

-----------------------------------------------------------------------------
(* What a step leaves alone.                                                *)

\* From c and ns to d and ms nothing is asked that was not, and no answer is counted.
FewerAsked(c, ns, d, ms) ==
  /\ d.configureCount = c.configureCount /\ d.scalabilityFirst = c.scalabilityFirst
  /\ d.dishonestCount = c.dishonestCount /\ d.dishonestSuccess = c.dishonestSuccess
  /\ Pending(d, ms, HMsg, HAns) \subseteq Pending(c, ns, HMsg, HAns)
  /\ Pending(d, ms, WMsg, WAns) \subseteq Pending(c, ns, WMsg, WAns)
  /\ Pending(d, ms, KMsg, KAns) \subseteq Pending(c, ns, KMsg, KAns)

LEMMA AskedKept ==
  ASSUME NEW ph, NEW c \in ControllerState, NEW d \in ControllerState, NEW ns, NEW ms, NEW p,
         Asked(ph, c, ns, p), FewerAsked(c, ns, d, ms)
  PROVE  Asked(ph, d, ms, p)
<1>0. /\ d.configureCount = c.configureCount /\ d.scalabilityFirst = c.scalabilityFirst
      /\ d.dishonestCount = c.dishonestCount /\ d.dishonestSuccess = c.dishonestSuccess
  BY DEF FewerAsked
<1>1. PICK H, H2, W, W2, K, K2 :
        /\ H = Pending(c, ns, HMsg, HAns) /\ H2 = Pending(d, ms, HMsg, HAns)
        /\ W = Pending(c, ns, WMsg, WAns) /\ W2 = Pending(d, ms, WMsg, WAns)
        /\ K = Pending(c, ns, KMsg, KAns) /\ K2 = Pending(d, ms, KMsg, KAns)
  OBVIOUS
<1>2. H \in SUBSET Node /\ W \in SUBSET Node /\ K \in SUBSET Node BY <1>1, PendingCounted
<1>3. H2 \subseteq H /\ W2 \subseteq W /\ K2 \subseteq K BY <1>1 DEF FewerAsked
<1>4. /\ Cardinality(H) \in Nat /\ Cardinality(H2) \in Nat /\ Cardinality(H2) <= Cardinality(H)
      /\ Cardinality(W) \in Nat /\ Cardinality(W2) \in Nat /\ Cardinality(W2) <= Cardinality(W)
      /\ Cardinality(K) \in Nat /\ Cardinality(K2) \in Nat /\ Cardinality(K2) <= Cardinality(K)
  BY <1>2, <1>3, FewerCounted
<1>5. /\ c.configureCount \in Nat /\ c.dishonestCount \in Nat /\ c.dishonestSuccess \in Nat
      /\ Cardinality(Node) \in Nat
  BY NodesCounted DEF ControllerState
<1>6. /\ H = {} => H2 = {}
      /\ W = {} => W2 = {}
      /\ K = {} => K2 = {}
  BY <1>3
<1>7. PICK N, h, h2, w, w2, k, k2 :
        /\ N = Cardinality(Node) /\ h = Cardinality(H) /\ h2 = Cardinality(H2)
        /\ w = Cardinality(W) /\ w2 = Cardinality(W2) /\ k = Cardinality(K) /\ k2 = Cardinality(K2)
  OBVIOUS
<1>8. PICK x, y, z : x = c.configureCount /\ y = c.dishonestCount /\ z = c.dishonestSuccess OBVIOUS
<1>9. /\ N \in Nat /\ h \in Nat /\ h2 \in Nat /\ w \in Nat /\ w2 \in Nat /\ k \in Nat /\ k2 \in Nat
      /\ x \in Nat /\ y \in Nat /\ z \in Nat /\ h2 <= h /\ w2 <= w /\ k2 <= k
  BY <1>4, <1>5, <1>7, <1>8
<1>10. /\ x + h < N => x + h2 < N
       /\ x + h <= N => x + h2 <= N
       /\ h <= 1 => h2 <= 1
       /\ w <= 1 => w2 <= 1
       /\ k + z <= y => k2 + z <= y
  BY <1>9
<1>11. /\ x < N
       /\ ph # "cfgH" => x + h < N /\ (c.scalabilityFirst = 1 => H = {})
       /\ ~Orderly(p) => IF ph = "cfgH" THEN (c.scalabilityFirst = 1 => h <= 1) /\ x + h <= N
                                        ELSE H = {} /\ x = 0 /\ c.scalabilityFirst # 1
       /\ IF ph = "cfgW" THEN w <= 1 ELSE W = {}
       /\ IF ph = "cfgK" THEN k + z <= y ELSE K = {} /\ z = 0
  BY <1>1, <1>7, <1>8 DEF Asked
<1>12. /\ x < N
       /\ ph # "cfgH" => x + h2 < N /\ (d.scalabilityFirst = 1 => H2 = {})
       /\ ~Orderly(p) => IF ph = "cfgH" THEN (d.scalabilityFirst = 1 => h2 <= 1) /\ x + h2 <= N
                                        ELSE H2 = {} /\ x = 0 /\ d.scalabilityFirst # 1
       /\ IF ph = "cfgW" THEN w2 <= 1 ELSE W2 = {}
       /\ IF ph = "cfgK" THEN k2 + z <= y ELSE K2 = {} /\ z = 0
  BY <1>0, <1>6, <1>10, <1>11
<1> QED BY <1>0, <1>1, <1>7, <1>8, <1>12 DEF Asked

\* No node becomes active that was not, and what nodes do fits the phase.
FewerActive(ph, c, ns, d, ms) ==
  /\ c.consensusNodes \subseteq d.consensusNodes
  /\ d.resetCount = c.resetCount /\ d.crashResetCount = c.crashResetCount
  /\ Active(d, ms) \subseteq Active(c, ns)
  /\ \A n \in Node : /\ ms[n].stopPermit => ns[n].stopPermit \/ ph = "reset"
                     /\ Has(ms[n].out, RAns) => Has(ns[n].out, RAns) \/ ph \in {"test", "reset"}
                     /\ Has(ms[n].out, StopAns) => Has(ns[n].out, StopAns) \/ ph = "reset"
                     /\ ms[n].mode.kind = "Crash" => ns[n].mode.kind = "Crash" \/ ph # "op"

LEMMA CountedKept ==
  ASSUME NEW ph, NEW S, NEW c, NEW d, NEW ns, NEW ms, NEW k,
         Counted(ph, S, c, ns, k), FewerActive(ph, c, ns, d, ms)
  PROVE  Counted(ph, S, d, ms, k)
<1> USE DEF FewerActive
<1>1. S \cup Active(d, ms) \subseteq d.consensusNodes /\ S \cap Active(d, ms) = {} BY DEF Counted
<1>2. Active(c, ns) = {} => Active(d, ms) = {} OBVIOUS
<1>3. "op" \notin {"test", "reset"} /\ "test" # "reset" OBVIOUS
<1>4. ph = "op" => \A n \in Node : ~Has(ms[n].out, RAns) /\ ms[n].mode.kind # "Crash" BY <1>3 DEF Counted
<1>5. ph = "test" => \A n \in Node : ~Has(ms[n].out, StopAns) BY <1>3 DEF Counted
<1>6. ph # "reset" => \A n \in Node : ~ms[n].stopPermit BY DEF Counted
<1> QED BY <1>1, <1>2, <1>4, <1>5, <1>6 DEF Counted

-----------------------------------------------------------------------------
(* A consensus node takes a message.                                        *)

LEMMA HandleEffect ==
  ASSUME NEW s \in NodeState, NEW m \in NodeMessage, NEW t, t = Handle(s, m)
  PROVE  /\ s.running => t.running
         /\ t.running => s.running \/ m \in StartMsg
         /\ t.stopPermit => s.stopPermit \/ (s.running /\ m \in ResetMsg)
         /\ t.crashPermit = s.crashPermit
         /\ t.crashTimers = s.crashTimers
            \/ /\ t.crashTimers = s.crashTimers + 1
               /\ ~s.running /\ t.running /\ m \in StartMsg /\ s.mode.kind = "Crash"
         /\ s.running \/ m \in StartMsg => t.mode = s.mode
         /\ t.mode.kind = "Crash" => s.mode.kind = "Crash" \/ m \in WMsg \cap CrashMsg
         /\ \/ t.out = s.out
            \/ \E f \in Feedback :
                 /\ t.out = Append(s.out, f) /\ ~s.running /\ m \notin StartMsg
                 /\ f \notin RAns
                 /\ f \in HAns => m \in HMsg
                 /\ f \in WAns => m \in WMsg
                 /\ f \in KAns => m \in KMsg
                 /\ f \in CrashAns => m \in CrashMsg
<1>1. /\ m.mode \in Mode
      /\ m.type \in {"ConfigureConsensusNode", "ConsensusNodeMode", "JoinConsensus",
                     "ProtocolStart", "Reset", "MakeAConsensusRequest"}
  BY DEF NodeMessage
<1>2. m \in StartMsg <=> m.type = "ProtocolStart" BY DEF StartMsg
<1>3. m \in ResetMsg <=> m.type = "Reset" BY DEF ResetMsg
<1>4. s.running \in BOOLEAN /\ s.stopPermit \in BOOLEAN BY DEF NodeState
<1> DEFINE up == ~s.panicked
<1>10. CASE ~up
  <2>1. t = s BY <1>10 DEF Handle
  <2> QED BY <2>1
<1>5. CASE up /\ s.running
  <2>1. CASE m.type = "Reset"
    <3>1. t = [s EXCEPT !.stopPermit = TRUE] BY <1>5, <2>1 DEF Handle, HandleRunning
    <3>2. /\ t.running = s.running /\ t.stopPermit = TRUE /\ t.crashPermit = s.crashPermit
          /\ t.crashTimers = s.crashTimers /\ t.mode = s.mode /\ t.out = s.out
      BY <3>1 DEF NodeState
    <3> QED BY <1>2, <1>3, <1>5, <2>1, <3>2
  <2>2. CASE m.type # "Reset"
    <3>1. t = s BY <1>5, <2>2 DEF Handle, HandleRunning
    <3> QED BY <1>2, <1>3, <1>5, <2>2, <3>1
  <2> QED BY <2>1, <2>2
<1>6. CASE up /\ ~s.running /\ m.type = "ProtocolStart"
  <2>1. t = ProtocolStartPreprocess(s) BY <1>6 DEF Handle, HandleIdle
  <2>2. /\ t.running = TRUE /\ t.stopPermit = s.stopPermit /\ t.crashPermit = s.crashPermit
        /\ t.crashTimers = IF s.mode.kind = "Crash" THEN s.crashTimers + 1 ELSE s.crashTimers
        /\ t.mode = s.mode /\ t.out = s.out
    BY <2>1 DEF ProtocolStartPreprocess, NodeState
  <2> QED BY <1>2, <1>3, <1>6, <2>2
<1>7. CASE /\ up /\ ~s.running
           /\ m.type \in {"ConfigureConsensusNode", "ConsensusNodeMode"}
           /\ m.type = "ConsensusNodeMode" => s.mode # m.mode
  <2> DEFINE f == Say("ConsensusNodeModeSuccess", m.mode)
  <2>1. t = [s EXCEPT !.mode = m.mode, !.subscribed = TRUE, !.out = Append(@, f)]
    BY <1>7 DEF Handle, HandleIdle
  <2>2. f \in Feedback BY <1>1, FeedbackTyped
  <2>3. f.type = "ConsensusNodeModeSuccess" /\ f.mode = m.mode BY DEF Say
  <2> HIDE DEF f
  <2>4. /\ t.running = s.running /\ t.stopPermit = s.stopPermit /\ t.crashPermit = s.crashPermit
        /\ t.crashTimers = s.crashTimers /\ t.mode = m.mode /\ t.out = Append(s.out, f)
    BY <2>1 DEF NodeState
  <2>5. m.type \in Answered BY <1>7 DEF Answered
  <2>6. /\ f \notin RAns /\ (f \in HAns => m \in HMsg) /\ (f \in WAns => m \in WMsg)
        /\ (f \in KAns => m \in KMsg) /\ (f \in CrashAns => m \in CrashMsg)
    BY <2>2, <2>3, <2>5 DEF RAns, HAns, HMsg, WAns, WMsg, KAns, KMsg, CrashAns, CrashMsg
  <2>7. m.mode.kind = "Crash" => m \in WMsg \cap CrashMsg
    BY <2>5 DEF WMsg, CrashMsg, SingleKind
  <2>8. m \notin StartMsg /\ m \notin ResetMsg BY <1>2, <1>3, <1>7
  <2> QED BY <1>7, <2>2, <2>4, <2>6, <2>7, <2>8
<1>8. CASE up /\ ~s.running /\ m.type = "JoinConsensus"
  <2> DEFINE f == Tell("JoinConsensusSuccess")
             h == SimpleMode("HonestOther")
  <2>1. t = [s EXCEPT !.mode = h, !.subscribed = TRUE, !.out = Append(@, f)]
    BY <1>8 DEF Handle, HandleIdle
  <2>2. f \in Feedback BY FeedbackTyped
  <2>3. f.type = "JoinConsensusSuccess" /\ f.mode.kind = "Uninitialized" /\ h.kind = "HonestOther"
    BY DEF Tell, Say, SimpleMode
  <2> HIDE DEF f, h
  <2>4. /\ t.running = s.running /\ t.stopPermit = s.stopPermit /\ t.crashPermit = s.crashPermit
        /\ t.crashTimers = s.crashTimers /\ t.mode = h /\ t.out = Append(s.out, f)
    BY <2>1 DEF NodeState
  <2>5. f \notin RAns /\ f \notin HAns /\ f \notin KAns /\ f \notin CrashAns /\ m \in WMsg
    BY <1>8, <2>3 DEF RAns, HAns, KAns, CrashAns, WMsg
  <2>6. m \notin StartMsg /\ m \notin ResetMsg BY <1>2, <1>3, <1>8
  <2> QED BY <1>8, <2>2, <2>3, <2>4, <2>5, <2>6
<1>9. CASE /\ up /\ ~s.running
           /\ \/ m.type \in {"Reset", "MakeAConsensusRequest"}
              \/ m.type = "ConsensusNodeMode" /\ s.mode = m.mode
  <2>1. t = s BY <1>9 DEF Handle, HandleIdle
  <2>2. m \notin StartMsg BY <1>2, <1>9
  <2> QED BY <1>9, <2>1, <2>2
<1> QED BY <1>1, <1>4, <1>10, <1>5, <1>6, <1>7, <1>8, <1>9

LEMMA TakesFits ==
  ASSUME NEW ph \in Phases, NEW S \in SUBSET Node, NEW c \in ControllerState, NEW ns \in [Node -> NodeState],
         NEW a, NEW k, NEW p \in Plans, NEW n \in Node, NEW i \in Takeable(c.toNode[n], p.ordered),
         Fits(ph, S, c, ns, a, k, p),
         NEW d \in ControllerState, d = [c EXCEPT !.toNode[n] = Without(@, i)],
         NEW ms \in [Node -> NodeState], ms = [ns EXCEPT ![n] = Handle(@, c.toNode[n][i])]
  PROVE  Fits(ph, S, d, ms, a, k, p)
<1> DEFINE q == c.toNode[n]
           m == q[i]
           w == Without(q, i)
           s == ns[n]
           t == ms[n]
<1>1. q \in Seq(NodeMessage) BY DEF ControllerState
<1>2. p.ordered \in BOOLEAN BY PlansAssumption
<1>3. i \in 1..Len(q) /\ (p.ordered => i = 1) BY <1>1, <1>2, TakeableIn DEF Takeable
<1>4. m \in NodeMessage BY <1>1, <1>3
<1>5. s \in NodeState /\ s.out \in Seq(Feedback) /\ t \in NodeState BY DEF NodeState
<1>6. t = Handle(s, m) OBVIOUS
<1>7. d.toNode[n] = w /\ (\A l \in Node : l # n => d.toNode[l] = c.toNode[l] /\ ms[l] = ns[l])
  BY DEF ControllerState
<1>8. /\ d.consensusNodes = c.consensusNodes /\ d.configureCount = c.configureCount
      /\ d.resetCount = c.resetCount /\ d.crashResetCount = c.crashResetCount
      /\ d.dishonestCount = c.dishonestCount /\ d.dishonestSuccess = c.dishonestSuccess
      /\ d.scalabilityFirst = c.scalabilityFirst /\ d.toAnalyzer = c.toAnalyzer
      /\ d.testItems = c.testItems /\ d.nextMid = c.nextMid /\ d.nextItem = c.nextItem
  BY DEF ControllerState
<1>9. /\ s.running => t.running
      /\ t.running => s.running \/ m \in StartMsg
      /\ t.stopPermit => s.stopPermit \/ (s.running /\ m \in ResetMsg)
      /\ t.crashPermit = s.crashPermit
      /\ t.crashTimers = s.crashTimers
         \/ (t.crashTimers = s.crashTimers + 1 /\ ~s.running /\ t.running /\ m \in StartMsg /\ s.mode.kind = "Crash")
      /\ s.running \/ m \in StartMsg => t.mode = s.mode
      /\ t.mode.kind = "Crash" => s.mode.kind = "Crash" \/ m \in WMsg \cap CrashMsg
  BY <1>4, <1>5, <1>6, HandleEffect
<1>10. \/ t.out = s.out
       \/ \E f \in Feedback :
            /\ t.out = Append(s.out, f) /\ ~s.running /\ m \notin StartMsg
            /\ f \notin RAns
            /\ f \in HAns => m \in HMsg
            /\ f \in WAns => m \in WMsg
            /\ f \in KAns => m \in KMsg
            /\ f \in CrashAns => m \in CrashMsg
  BY <1>4, <1>5, <1>6, HandleEffect
<1> HIDE DEF q, m, w, s, t
<1>11. /\ Lane(q, s.out, HMsg, HAns) /\ Lane(q, s.out, WMsg, WAns) /\ Lane(q, s.out, KMsg, KAns)
       /\ Lane(q, s.out, StartMsg, RAns)
       /\ s.running => ~Has(q, StartMsg) /\ ~Has(s.out, RAns)
       /\ s.stopPermit => s.running
  BY DEF Fits, Lanes, q, s
<1>12. /\ Lane(w, t.out, HMsg, HAns)
       /\ Has(w, HMsg) \/ Has(t.out, HAns) => Has(q, HMsg) \/ Has(s.out, HAns)
  <2>1. t.out = s.out \/ \E f \in Feedback : t.out = Append(s.out, f) /\ (f \in HAns => q[i] \in HMsg)
    BY <1>10 DEF m
  <2>2. Lane(q, s.out, HMsg, HAns) BY <1>11
  <2> QED BY <1>1, <1>3, <1>5, <2>1, <2>2, LaneTaken DEF w
<1>13. /\ Lane(w, t.out, WMsg, WAns)
       /\ Has(w, WMsg) \/ Has(t.out, WAns) => Has(q, WMsg) \/ Has(s.out, WAns)
  <2>1. t.out = s.out \/ \E f \in Feedback : t.out = Append(s.out, f) /\ (f \in WAns => q[i] \in WMsg)
    BY <1>10 DEF m
  <2>2. Lane(q, s.out, WMsg, WAns) BY <1>11
  <2> QED BY <1>1, <1>3, <1>5, <2>1, <2>2, LaneTaken DEF w
<1>14. /\ Lane(w, t.out, KMsg, KAns)
       /\ Has(w, KMsg) \/ Has(t.out, KAns) => Has(q, KMsg) \/ Has(s.out, KAns)
  <2>1. t.out = s.out \/ \E f \in Feedback : t.out = Append(s.out, f) /\ (f \in KAns => q[i] \in KMsg)
    BY <1>10 DEF m
  <2>2. Lane(q, s.out, KMsg, KAns) BY <1>11
  <2> QED BY <1>1, <1>3, <1>5, <2>1, <2>2, LaneTaken DEF w
<1>15. Lane(w, t.out, StartMsg, RAns)
  <2>1. t.out = s.out \/ \E f \in Feedback : t.out = Append(s.out, f) /\ (f \in RAns => q[i] \in StartMsg)
    BY <1>10 DEF m
  <2> QED BY <1>1, <1>3, <1>5, <1>11, <2>1, LaneTaken DEF w
<1>16. /\ Has(w, StartMsg) => Has(q, StartMsg)
       /\ m \in StartMsg => Has(q, StartMsg) /\ ~Has(w, StartMsg)
       /\ Has(w, ResetMsg) => Has(q, ResetMsg)
       /\ m \in ResetMsg => Has(q, ResetMsg)
       /\ One(q, ResetMsg) => One(w, ResetMsg) /\ (m \in ResetMsg => ~Has(w, ResetMsg))
       /\ Has(w, CrashMsg) => Has(q, CrashMsg)
       /\ m \in CrashMsg => Has(q, CrashMsg)
       /\ m \in WMsg => Has(q, WMsg)
  BY <1>1, <1>3, <1>11, LinkTaken DEF w, m, Lane
<1>17. /\ Has(t.out, RAns) => Has(s.out, RAns)
       /\ Has(t.out, StopAns) => Has(s.out, StopAns)
       /\ Has(t.out, CrashAns) => Has(s.out, CrashAns) \/ Has(q, CrashMsg)
       /\ m \in StartMsg \/ s.running => t.out = s.out
  <2>1. CASE t.out = s.out BY <2>1
  <2>2. CASE t.out # s.out
    <3>1. PICK f \in Feedback : /\ t.out = Append(s.out, f) /\ ~s.running /\ m \notin StartMsg
                                /\ f \notin RAns /\ (f \in CrashAns => m \in CrashMsg)
      BY <1>10, <2>2
    <3>2. f \notin StopAns BY <3>1 DEF StopAns
    <3>3. \A C : Has(t.out, C) <=> Has(s.out, C) \/ f \in C BY <1>5, <3>1, LinkSent
    <3> QED BY <1>16, <3>1, <3>2, <3>3
  <2> QED BY <2>1, <2>2
<1>18. Lanes(d, ms)
  <2>1. t.running => ~Has(w, StartMsg) /\ ~Has(t.out, RAns) BY <1>9, <1>11, <1>16, <1>17 DEF Lane
  <2>2. t.stopPermit => t.running BY <1>9, <1>11
  <2>3. ASSUME NEW l \in Node
        PROVE  /\ Lane(d.toNode[l], ms[l].out, HMsg, HAns) /\ Lane(d.toNode[l], ms[l].out, WMsg, WAns)
               /\ Lane(d.toNode[l], ms[l].out, KMsg, KAns) /\ Lane(d.toNode[l], ms[l].out, StartMsg, RAns)
               /\ ms[l].running => ~Has(d.toNode[l], StartMsg) /\ ~Has(ms[l].out, RAns)
               /\ ms[l].stopPermit => ms[l].running
    <3>1. CASE l = n BY <1>7, <1>12, <1>13, <1>14, <1>15, <2>1, <2>2, <3>1 DEF t
    <3>2. CASE l # n
      <4>1. d.toNode[l] = c.toNode[l] /\ ms[l] = ns[l] BY <1>7, <3>2
      <4> QED BY <4>1 DEF Fits, Lanes
    <3> QED BY <3>1, <3>2
  <2> QED BY <2>3 DEF Lanes
<1>19. /\ Pending(d, ms, HMsg, HAns) \subseteq Pending(c, ns, HMsg, HAns)
       /\ Pending(d, ms, WMsg, WAns) \subseteq Pending(c, ns, WMsg, WAns)
       /\ Pending(d, ms, KMsg, KAns) \subseteq Pending(c, ns, KMsg, KAns)
  <2>1. Pending(d, ms, HMsg, HAns) \subseteq Pending(c, ns, HMsg, HAns)
    BY <1>7, <1>12 DEF Pending, q, s, t
  <2>2. Pending(d, ms, WMsg, WAns) \subseteq Pending(c, ns, WMsg, WAns)
    BY <1>7, <1>13 DEF Pending, q, s, t
  <2>3. Pending(d, ms, KMsg, KAns) \subseteq Pending(c, ns, KMsg, KAns)
    BY <1>7, <1>14 DEF Pending, q, s, t
  <2> QED BY <2>1, <2>2, <2>3
<1>20. Asked(ph, d, ms, p)
  <2>1. Asked(ph, c, ns, p) BY DEF Fits
  <2>2. FewerAsked(c, ns, d, ms) BY <1>8, <1>19 DEF FewerAsked
  <2> QED BY <2>1, <2>2, AskedKept
<1>21. Active(d, ms) \subseteq Active(c, ns) BY <1>7, <1>9, <1>16, <1>17 DEF Active, q, s, t
<1>22. t.stopPermit /\ ~s.stopPermit => ph = "reset"
  <2>1. SUFFICES ASSUME s.running, m \in ResetMsg, ph # "reset" PROVE FALSE BY <1>9
  <2>2. Has(c.toNode[n], ResetMsg) BY <1>16, <2>1 DEF q
  <2> QED BY <2>1, <2>2 DEF Fits, InOrder, NoCrash, s
<1>23. m \in WMsg => ph = "cfgW"
  <2>1. m \in WMsg => n \in Pending(c, ns, WMsg, WAns) BY <1>16 DEF Pending, q
  <2> QED BY <2>1 DEF Fits, Asked
<1>24. Counted(ph, S, d, ms, k)
  <2>1. \A l \in Node : /\ ms[l].stopPermit => ns[l].stopPermit \/ ph = "reset"
                        /\ Has(ms[l].out, RAns) => Has(ns[l].out, RAns) \/ ph \in {"test", "reset"}
                        /\ Has(ms[l].out, StopAns) => Has(ns[l].out, StopAns) \/ ph = "reset"
                        /\ ms[l].mode.kind = "Crash" => ns[l].mode.kind = "Crash" \/ ph # "op"
    BY <1>7, <1>9, <1>17, <1>22, <1>23 DEF s, t
  <2>2. Counted(ph, S, c, ns, k) BY DEF Fits
  <2>3. c.consensusNodes \subseteq d.consensusNodes BY <1>8
  <2>4. FewerActive(ph, c, ns, d, ms) BY <1>8, <1>21, <2>1, <2>3 DEF FewerActive
  <2> QED BY <2>2, <2>4, CountedKept
<1>25. CASE Orderly(p)
  <2>0. InOrder(ph, c, ns, a) BY <1>25 DEF Fits
  <2>1. i = 1 BY <1>3, <1>25 DEF Orderly
  <2>2. /\ s.crashTimers <= 1 /\ (s.crashTimers > 0 => ~s.crashPermit)
        /\ s.crashTimers > 0 \/ s.crashPermit =>
             s.running /\ s.mode.kind = "Crash" /\ ph = "test" /\ ~Ended(a)
        /\ ph # "reset" /\ Has(q, ResetMsg) => ~s.running
        /\ Sorted(q)
    BY <2>0 DEF InOrder, q, s
  <2>3. Sorted(w) /\ (m \in StartMsg => ~Has(w, ResetMsg))
    BY <1>1, <1>3, <2>1, <2>2, SortedTaken DEF w, m
  <2>4. s.crashTimers \in Nat /\ s.running \in BOOLEAN /\ s.crashPermit \in BOOLEAN BY <1>5 DEF NodeState
  <2>5. ~s.running => s.crashTimers = 0 /\ ~s.crashPermit BY <2>2, <2>4
  <2>6. m \in StartMsg /\ s.mode.kind = "Crash" => ph = "test" /\ ~Ended(a)
    <3>1. SUFFICES ASSUME m \in StartMsg, s.mode.kind = "Crash" PROVE ph = "test" /\ ~Ended(a) OBVIOUS
    <3>2. Has(c.toNode[n], StartMsg) BY <1>16, <3>1 DEF q
    <3>3. n \in Active(c, ns) BY <3>2 DEF Active
    <3>4. ph \notin Configuring /\ ph # "op" BY <3>1, <3>3 DEF Fits, Counted, s
    <3>5. ph # "reset" /\ ~Ended(a) BY <2>0, <3>2 DEF InOrder
    <3> QED BY <3>4, <3>5 DEF Phases
  <2>7. /\ t.crashTimers <= 1 /\ (t.crashTimers > 0 => ~t.crashPermit)
        /\ t.crashTimers > 0 \/ t.crashPermit =>
             t.running /\ t.mode.kind = "Crash" /\ ph = "test" /\ ~Ended(a)
    <3>1. CASE t.crashTimers = s.crashTimers BY <1>9, <2>2, <3>1
    <3>2. CASE t.crashTimers = s.crashTimers + 1 /\ ~s.running /\ t.running /\ m \in StartMsg /\ s.mode.kind = "Crash"
      BY <1>9, <2>5, <2>6, <3>2
    <3> QED BY <1>9, <3>1, <3>2
  <2>8. ph # "reset" /\ Has(w, ResetMsg) => ~t.running BY <1>9, <1>16, <2>2, <2>3
  <2>9. ASSUME NEW l \in Node
        PROVE  /\ ms[l].crashTimers <= 1 /\ (ms[l].crashTimers > 0 => ~ms[l].crashPermit)
               /\ ms[l].crashTimers > 0 \/ ms[l].crashPermit =>
                    ms[l].running /\ ms[l].mode.kind = "Crash" /\ ph = "test" /\ ~Ended(a)
               /\ ph # "reset" /\ Has(d.toNode[l], ResetMsg) => ~ms[l].running
               /\ Sorted(d.toNode[l])
    <3>1. CASE l = n BY <1>7, <2>3, <2>7, <2>8, <3>1 DEF t
    <3>2. CASE l # n
      <4>1. d.toNode[l] = c.toNode[l] /\ ms[l] = ns[l] BY <1>7, <3>2
      <4> QED BY <2>0, <4>1 DEF InOrder
    <3> QED BY <3>1, <3>2
  <2>10. ph = "reset" \/ Ended(a) =>
           /\ Pending(d, ms, HMsg, HAns) = {}
           /\ \A l \in Node : ~Has(d.toNode[l], StartMsg)
    BY <1>7, <1>16, <1>19, <2>0 DEF InOrder, q
  <2>11. InOrder(ph, d, ms, a) BY <2>9, <2>10 DEF InOrder
  <2> QED BY <1>8, <1>18, <1>20, <1>24, <1>25, <2>11 DEF Fits, Tested
<1>26. CASE ~Orderly(p)
  <2>0. NoCrash(ph, S, c, ns, a, k) BY <1>26 DEF Fits
  <2>1. /\ s.crashTimers = 0 /\ ~s.crashPermit /\ s.mode.kind # "Crash"
        /\ ~Has(q, CrashMsg) /\ ~Has(s.out, CrashAns)
        /\ One(q, ResetMsg)
        /\ Has(q, ResetMsg) => ~s.stopPermit /\ ~Has(s.out, RAns) /\ n \in c.consensusNodes \ S
        /\ ph # "reset" => ~Has(q, ResetMsg) /\ ~Has(s.out, RAns)
    BY <2>0 DEF NoCrash, q, s
  <2>2. /\ t.crashTimers = 0 /\ ~t.crashPermit /\ t.mode.kind # "Crash"
        /\ ~Has(w, CrashMsg) /\ ~Has(t.out, CrashAns)
        /\ One(w, ResetMsg)
        /\ Has(w, ResetMsg) => ~t.stopPermit /\ ~Has(t.out, RAns) /\ n \in c.consensusNodes \ S
        /\ ph # "reset" => ~Has(w, ResetMsg) /\ ~Has(t.out, RAns)
    BY <1>9, <1>16, <1>17, <2>1
  <2>3. ASSUME NEW l \in Node
        PROVE  /\ ms[l].crashTimers = 0 /\ ~ms[l].crashPermit /\ ms[l].mode.kind # "Crash"
               /\ ~Has(d.toNode[l], CrashMsg) /\ ~Has(ms[l].out, CrashAns)
               /\ One(d.toNode[l], ResetMsg)
               /\ Has(d.toNode[l], ResetMsg) => ~ms[l].stopPermit /\ ~Has(ms[l].out, RAns) /\ l \in c.consensusNodes \ S
               /\ ph # "reset" => ~Has(d.toNode[l], ResetMsg) /\ ~Has(ms[l].out, RAns)
    <3>1. CASE l = n BY <1>7, <2>2, <3>1 DEF t
    <3>2. CASE l # n
      <4>1. d.toNode[l] = c.toNode[l] /\ ms[l] = ns[l] BY <1>7, <3>2
      <4> QED BY <2>0, <4>1 DEF NoCrash
    <3> QED BY <3>1, <3>2
  <2>4. NoCrash(ph, S, d, ms, a, k) BY <1>8, <2>0, <2>3 DEF NoCrash
  <2> QED BY <1>8, <1>18, <1>20, <1>24, <1>26, <2>4 DEF Fits, Tested
<1> QED BY <1>25, <1>26

-----------------------------------------------------------------------------
(* A node's own steps.                                                      *)

\* What a node's own step may do: leave its run with a ResetSuccess, or without one when
\* it panics, or use up a timer or a permit.
OwnStep(ph, s, t, a, p) ==
  /\ t.running => s.running
  /\ t.mode = s.mode
  /\ t.stopPermit => s.stopPermit /\ t.running
  /\ \/ t.out = s.out
     \/ /\ s.running /\ ~t.running
        /\ ph \in {"test", "reset"}
        /\ ~Orderly(p) => ph = "reset" /\ s.stopPermit
        /\ \E f \in RAns : /\ t.out = Append(s.out, f) /\ f.mode = s.mode
                           /\ f \in StopAns => ph = "reset"
  /\ IF Orderly(p)
       THEN /\ t.crashTimers <= 1 /\ (t.crashTimers > 0 => ~t.crashPermit)
            /\ t.crashTimers > 0 \/ t.crashPermit =>
                 t.running /\ t.mode.kind = "Crash" /\ ph = "test" /\ ~Ended(a)
       ELSE t.crashTimers = 0 /\ ~t.crashPermit

LEMMA OwnStepFits ==
  ASSUME NEW ph \in Phases, NEW S \in SUBSET Node, NEW c \in ControllerState, NEW ns \in [Node -> NodeState],
         NEW a, NEW k, NEW p \in Plans, NEW n \in Node, NEW t \in NodeState,
         Fits(ph, S, c, ns, a, k, p), OwnStep(ph, ns[n], t, a, p),
         NEW ms \in [Node -> NodeState], ms = [ns EXCEPT ![n] = t]
  PROVE  Fits(ph, S, c, ms, a, k, p)
<1> DEFINE q == c.toNode[n]
           s == ns[n]
<1>1. s \in NodeState /\ s.out \in Seq(Feedback) BY DEF NodeState
<1>2. ms[n] = t /\ \A l \in Node : l # n => ms[l] = ns[l] OBVIOUS
<1>3. /\ t.running => s.running
      /\ t.mode = s.mode
      /\ t.stopPermit => s.stopPermit /\ t.running
  BY DEF OwnStep
<1>4. \/ t.out = s.out
      \/ /\ s.running /\ ~t.running
         /\ ph \in {"test", "reset"}
         /\ ~Orderly(p) => ph = "reset" /\ s.stopPermit
         /\ \E f \in RAns : t.out = Append(s.out, f) /\ f.mode = s.mode /\ (f \in StopAns => ph = "reset")
  BY DEF OwnStep
<1> HIDE DEF q, s
<1>5. /\ Lane(q, s.out, HMsg, HAns) /\ Lane(q, s.out, WMsg, WAns) /\ Lane(q, s.out, KMsg, KAns)
      /\ Lane(q, s.out, StartMsg, RAns)
      /\ s.running => ~Has(q, StartMsg) /\ ~Has(s.out, RAns)
  BY DEF Fits, Lanes, q, s
<1>6. /\ Lane(q, t.out, HMsg, HAns) /\ Lane(q, t.out, WMsg, WAns) /\ Lane(q, t.out, KMsg, KAns)
      /\ Lane(q, t.out, StartMsg, RAns)
      /\ t.running => ~Has(q, StartMsg) /\ ~Has(t.out, RAns)
      /\ \A C \in {HAns, WAns, KAns} : Has(t.out, C) <=> Has(s.out, C)
      /\ Has(t.out, RAns) => Has(s.out, RAns) \/ (s.running /\ ph \in {"test", "reset"} /\ t.out # s.out)
      /\ Has(t.out, StopAns) => Has(s.out, StopAns) \/ ph = "reset"
      /\ Has(t.out, CrashAns) => Has(s.out, CrashAns) \/ s.mode.kind = "Crash"
  <2>1. CASE t.out = s.out
    <3>1. \A C : Has(t.out, C) <=> Has(s.out, C) BY <2>1
    <3>2. /\ Lane(q, t.out, HMsg, HAns) /\ Lane(q, t.out, WMsg, WAns) /\ Lane(q, t.out, KMsg, KAns)
          /\ Lane(q, t.out, StartMsg, RAns)
      BY <1>5, <2>1
    <3>3. t.running => ~Has(q, StartMsg) /\ ~Has(t.out, RAns) BY <1>3, <1>5, <3>1
    <3> QED BY <3>1, <3>2, <3>3
  <2>2. CASE t.out # s.out
    <3>1. PICK f \in RAns : t.out = Append(s.out, f) /\ f.mode = s.mode /\ (f \in StopAns => ph = "reset")
      BY <1>4, <2>2
    <3>2. f \in Feedback /\ f \notin HAns /\ f \notin WAns /\ f \notin KAns
      BY DEF RAns, HAns, WAns, KAns
    <3>3. \A C : /\ Has(t.out, C) <=> Has(s.out, C) \/ f \in C
                 /\ One(s.out, C) /\ (f \in C => ~Has(s.out, C)) => One(t.out, C)
      BY <1>1, <3>1, <3>2, LinkSent
    <3>4. s.running /\ ~t.running /\ ph \in {"test", "reset"} BY <1>4, <2>2
    <3>5. Lane(q, t.out, HMsg, HAns) /\ Lane(q, t.out, WMsg, WAns) /\ Lane(q, t.out, KMsg, KAns)
      BY <1>5, <3>2, <3>3 DEF Lane
    <3>6. Lane(q, t.out, StartMsg, RAns) BY <1>5, <3>3, <3>4 DEF Lane
    <3>7. f \in CrashAns => s.mode.kind = "Crash" BY <3>1 DEF CrashAns
    <3>8. \A C \in {HAns, WAns, KAns} : Has(t.out, C) <=> Has(s.out, C) BY <3>2, <3>3
    <3>9. /\ Has(t.out, StopAns) => Has(s.out, StopAns) \/ ph = "reset"
          /\ Has(t.out, CrashAns) => Has(s.out, CrashAns) \/ s.mode.kind = "Crash"
      BY <3>1, <3>3, <3>7
    <3> QED BY <2>2, <3>4, <3>5, <3>6, <3>8, <3>9
  <2> QED BY <2>1, <2>2
<1>7. Lanes(c, ms)
  <2>1. ASSUME NEW l \in Node
        PROVE  /\ Lane(c.toNode[l], ms[l].out, HMsg, HAns) /\ Lane(c.toNode[l], ms[l].out, WMsg, WAns)
               /\ Lane(c.toNode[l], ms[l].out, KMsg, KAns) /\ Lane(c.toNode[l], ms[l].out, StartMsg, RAns)
               /\ ms[l].running => ~Has(c.toNode[l], StartMsg) /\ ~Has(ms[l].out, RAns)
               /\ ms[l].stopPermit => ms[l].running
    <3>1. CASE l = n BY <1>2, <1>3, <1>6, <3>1 DEF q
    <3>2. CASE l # n
      <4>1. ms[l] = ns[l] BY <1>2, <3>2
      <4> QED BY <4>1 DEF Fits, Lanes
    <3> QED BY <3>1, <3>2
  <2> QED BY <2>1 DEF Lanes
<1>8. /\ Pending(c, ms, HMsg, HAns) = Pending(c, ns, HMsg, HAns)
      /\ Pending(c, ms, WMsg, WAns) = Pending(c, ns, WMsg, WAns)
      /\ Pending(c, ms, KMsg, KAns) = Pending(c, ns, KMsg, KAns)
  <2>1. Has(t.out, HAns) <=> Has(s.out, HAns) BY <1>6
  <2>2. Has(t.out, WAns) <=> Has(s.out, WAns) BY <1>6
  <2>3. Has(t.out, KAns) <=> Has(s.out, KAns) BY <1>6
  <2>4. Pending(c, ms, HMsg, HAns) = Pending(c, ns, HMsg, HAns) BY <1>2, <2>1 DEF Pending, s
  <2>5. Pending(c, ms, WMsg, WAns) = Pending(c, ns, WMsg, WAns) BY <1>2, <2>2 DEF Pending, s
  <2>6. Pending(c, ms, KMsg, KAns) = Pending(c, ns, KMsg, KAns) BY <1>2, <2>3 DEF Pending, s
  <2> QED BY <2>4, <2>5, <2>6
<1>9. Asked(ph, c, ms, p)
  <2>1. Asked(ph, c, ns, p) BY DEF Fits
  <2>2. FewerAsked(c, ns, c, ms) BY <1>8 DEF FewerAsked
  <2> QED BY <2>1, <2>2, AskedKept
<1>10. Counted(ph, S, c, ms, k)
  <2>1. Counted(ph, S, c, ns, k) BY DEF Fits
  <2>2. Active(c, ms) \subseteq Active(c, ns) BY <1>2, <1>3, <1>6 DEF Active, s
  <2>3. \A l \in Node : /\ ms[l].stopPermit => ns[l].stopPermit \/ ph = "reset"
                        /\ Has(ms[l].out, RAns) => Has(ns[l].out, RAns) \/ ph \in {"test", "reset"}
                        /\ Has(ms[l].out, StopAns) => Has(ns[l].out, StopAns) \/ ph = "reset"
                        /\ ms[l].mode.kind = "Crash" => ns[l].mode.kind = "Crash" \/ ph # "op"
    BY <1>2, <1>3, <1>6 DEF s
  <2>4. FewerActive(ph, c, ns, c, ms) BY <2>2, <2>3 DEF FewerActive
  <2> QED BY <2>1, <2>4, CountedKept
<1>11. CASE Orderly(p)
  <2>0. InOrder(ph, c, ns, a) BY <1>11 DEF Fits
  <2>1. /\ t.crashTimers <= 1 /\ (t.crashTimers > 0 => ~t.crashPermit)
        /\ t.crashTimers > 0 \/ t.crashPermit =>
             t.running /\ t.mode.kind = "Crash" /\ ph = "test" /\ ~Ended(a)
    BY <1>11 DEF OwnStep
  <2>2. ASSUME NEW l \in Node
        PROVE  /\ ms[l].crashTimers <= 1 /\ (ms[l].crashTimers > 0 => ~ms[l].crashPermit)
               /\ ms[l].crashTimers > 0 \/ ms[l].crashPermit =>
                    ms[l].running /\ ms[l].mode.kind = "Crash" /\ ph = "test" /\ ~Ended(a)
               /\ ph # "reset" /\ Has(c.toNode[l], ResetMsg) => ~ms[l].running
               /\ Sorted(c.toNode[l])
    <3>1. CASE l = n BY <1>2, <1>3, <2>0, <2>1, <3>1 DEF InOrder, s
    <3>2. CASE l # n
      <4>1. ms[l] = ns[l] BY <1>2, <3>2
      <4> QED BY <2>0, <4>1 DEF InOrder
    <3> QED BY <3>1, <3>2
  <2>3. InOrder(ph, c, ms, a) BY <1>8, <2>0, <2>2 DEF InOrder
  <2> QED BY <1>7, <1>9, <1>10, <1>11, <2>3 DEF Fits
<1>12. CASE ~Orderly(p)
  <2>0. NoCrash(ph, S, c, ns, a, k) BY <1>12 DEF Fits
  <2>1. t.crashTimers = 0 /\ ~t.crashPermit BY <1>12 DEF OwnStep
  <2>2. /\ s.mode.kind # "Crash" /\ ~Has(s.out, CrashAns) /\ ~Has(q, CrashMsg) /\ One(q, ResetMsg)
        /\ Has(q, ResetMsg) => ~s.stopPermit /\ ~Has(s.out, RAns) /\ n \in c.consensusNodes \ S
        /\ ph # "reset" => ~Has(q, ResetMsg) /\ ~Has(s.out, RAns)
    BY <2>0 DEF NoCrash, q, s
  <2>3. t.out # s.out => ph = "reset" /\ s.stopPermit BY <1>4, <1>12
  <2>4. ASSUME NEW l \in Node
        PROVE  /\ ms[l].crashTimers = 0 /\ ~ms[l].crashPermit /\ ms[l].mode.kind # "Crash"
               /\ ~Has(c.toNode[l], CrashMsg) /\ ~Has(ms[l].out, CrashAns)
               /\ One(c.toNode[l], ResetMsg)
               /\ Has(c.toNode[l], ResetMsg) => ~ms[l].stopPermit /\ ~Has(ms[l].out, RAns) /\ l \in c.consensusNodes \ S
               /\ ph # "reset" => ~Has(c.toNode[l], ResetMsg) /\ ~Has(ms[l].out, RAns)
    <3>1. CASE l = n BY <1>2, <1>3, <1>6, <2>1, <2>2, <2>3, <3>1 DEF q
    <3>2. CASE l # n
      <4>1. ms[l] = ns[l] BY <1>2, <3>2
      <4> QED BY <2>0, <4>1 DEF NoCrash
    <3> QED BY <3>1, <3>2
  <2>5. NoCrash(ph, S, c, ms, a, k) BY <2>0, <2>4 DEF NoCrash
  <2> QED BY <1>7, <1>9, <1>10, <1>12, <2>5 DEF Fits
<1> QED BY <1>11, <1>12

LEMMA OwnSteps ==
  ASSUME NEW ph \in Phases, NEW S, NEW c, NEW ns \in [Node -> NodeState],
         NEW a, NEW k, NEW p, NEW n \in Node, NEW s, s = ns[n], Fits(ph, S, c, ns, a, k, p)
  PROVE  /\ s.running /\ s.stopPermit => OwnStep(ph, s, Stop(s), a, p)
         /\ s.running /\ s.crashPermit => OwnStep(ph, s, Crash(s), a, p)
         /\ OwnStep(ph, s, Trigger(s), a, p) /\ OwnStep(ph, s, Panic(s), a, p)
         /\ s.crashTimers > 0 => OwnStep(ph, s, CrashTimer(s), a, p)
         /\ OwnStep(ph, s, MaliciousTimer(s), a, p)
<1>1. s \in NodeState /\ s.mode \in Mode /\ s.crashTimers \in Nat BY DEF NodeState
<1>2. s.stopPermit => s.running BY DEF Fits, Lanes
<1>3. s.stopPermit => ph = "reset" BY DEF Fits, Counted
<1>4. Orderly(p) =>
        /\ s.crashTimers <= 1 /\ (s.crashTimers > 0 => ~s.crashPermit)
        /\ s.crashTimers > 0 \/ s.crashPermit =>
             s.running /\ s.mode.kind = "Crash" /\ ph = "test" /\ ~Ended(a)
  BY DEF Fits, InOrder
<1>5. ~Orderly(p) => s.crashTimers = 0 /\ ~s.crashPermit BY DEF Fits, NoCrash
<1> DEFINE f == Say("ResetSuccess", s.mode)
<1>6. f \in RAns /\ f.mode = s.mode /\ (f \in StopAns => s.mode.kind # "Crash")
  BY <1>1, FeedbackTyped DEF Say, RAns, StopAns
<1> HIDE DEF f
<1>7. ASSUME s.running, s.stopPermit
      PROVE  OwnStep(ph, s, Stop(s), a, p)
  <2>1. PICK t : t = Stop(s) OBVIOUS
  <2>2. /\ t.running = FALSE /\ t.mode = s.mode /\ t.stopPermit = FALSE /\ t.out = Append(s.out, f)
        /\ t.crashTimers = s.crashTimers /\ t.crashPermit = s.crashPermit
    BY <1>1, <2>1 DEF Stop, Reset, NodeState, f
  <2>3. ph = "reset" BY <1>3, <1>7
  <2>4. ~Orderly(p) => t.crashTimers = 0 /\ ~t.crashPermit BY <1>5, <2>2
  <2>5. Orderly(p) => t.crashTimers <= 1 /\ ~(t.crashTimers > 0) /\ ~t.crashPermit BY <1>4, <2>2, <2>3
  <2>6. OwnStep(ph, s, t, a, p) BY <1>6, <1>7, <2>2, <2>3, <2>4, <2>5 DEF OwnStep
  <2> QED BY <2>1, <2>6
<1>8. ASSUME s.running, s.crashPermit
      PROVE  OwnStep(ph, s, Crash(s), a, p)
  <2>1. PICK t : t = Crash(s) OBVIOUS
  <2>2. /\ t.running = FALSE /\ t.mode = s.mode /\ t.stopPermit = s.stopPermit /\ t.out = Append(s.out, f)
        /\ t.crashTimers = s.crashTimers /\ t.crashPermit = FALSE
    BY <1>1, <2>1 DEF Crash, Reset, NodeState, f
  <2>3. Orderly(p) BY <1>5, <1>8
  <2>4. ph = "test" /\ s.mode.kind = "Crash" /\ ~s.stopPermit BY <1>3, <1>4, <1>8, <2>3
  <2>5. t.crashTimers <= 1 /\ ~(t.crashTimers > 0) BY <1>1, <1>4, <1>8, <2>2, <2>3
  <2>6. f \notin StopAns BY <1>6, <2>4
  <2>7. OwnStep(ph, s, t, a, p) BY <1>6, <1>8, <2>2, <2>3, <2>4, <2>5, <2>6 DEF OwnStep
  <2> QED BY <2>1, <2>7
<1>9. ASSUME NEW t, t.running = s.running, t.mode = s.mode, t.stopPermit = s.stopPermit, t.out = s.out,
             t.crashTimers = s.crashTimers, t.crashPermit = s.crashPermit
      PROVE  OwnStep(ph, s, t, a, p)
  BY <1>2, <1>4, <1>5, <1>9 DEF OwnStep
<1>10. OwnStep(ph, s, Trigger(s), a, p)
  <2>1. PICK t : t = Trigger(s) OBVIOUS
  <2>2. /\ t.running = s.running /\ t.mode = s.mode /\ t.stopPermit = s.stopPermit /\ t.out = s.out
        /\ t.crashTimers = s.crashTimers /\ t.crashPermit = s.crashPermit
    BY <1>1, <2>1 DEF Trigger, NodeState
  <2> QED BY <1>9, <2>1, <2>2
<1>11. OwnStep(ph, s, MaliciousTimer(s), a, p)
  <2>1. PICK t : t = MaliciousTimer(s) OBVIOUS
  <2>2. /\ t.running = s.running /\ t.mode = s.mode /\ t.stopPermit = s.stopPermit /\ t.out = s.out
        /\ t.crashTimers = s.crashTimers /\ t.crashPermit = s.crashPermit
    BY <1>1, <2>1 DEF MaliciousTimer, NodeState
  <2> QED BY <1>9, <2>1, <2>2
<1>12. ASSUME s.crashTimers > 0
       PROVE  OwnStep(ph, s, CrashTimer(s), a, p)
  <2>1. PICK t : t = CrashTimer(s) OBVIOUS
  <2>2. /\ t.running = s.running /\ t.mode = s.mode /\ t.stopPermit = s.stopPermit /\ t.out = s.out
        /\ t.crashTimers = s.crashTimers - 1 /\ t.crashPermit = TRUE
    BY <1>1, <2>1 DEF CrashTimer, NodeState
  <2>3. Orderly(p) BY <1>5, <1>12
  <2>4. s.crashTimers = 1 BY <1>1, <1>4, <1>12, <2>3
  <2>5. t.crashTimers = 0 BY <2>2, <2>4
  <2>6. OwnStep(ph, s, t, a, p) BY <1>2, <1>4, <1>12, <2>2, <2>3, <2>5 DEF OwnStep
  <2> QED BY <2>1, <2>6
<1>13. OwnStep(ph, s, Panic(s), a, p)
  <2>1. PICK t : t = Panic(s) OBVIOUS
  <2>2. /\ t.running = FALSE /\ t.mode = s.mode /\ t.stopPermit = FALSE /\ t.out = s.out
        /\ t.crashTimers = 0 /\ t.crashPermit = FALSE
    BY <2>1 DEF Panic, NewNode
  <2>3. OwnStep(ph, s, t, a, p) BY <2>2 DEF OwnStep
  <2> QED BY <2>1, <2>3
<1> QED BY <1>7, <1>8, <1>10, <1>11, <1>12, <1>13

-----------------------------------------------------------------------------
(* The analyzer's steps.                                                    *)

\* The fields that the invariant reads, but for what is on the way to the analyzer.
Same(c, d) ==
  /\ d.toNode = c.toNode /\ d.consensusNodes = c.consensusNodes
  /\ d.configureCount = c.configureCount /\ d.scalabilityFirst = c.scalabilityFirst
  /\ d.resetCount = c.resetCount /\ d.crashResetCount = c.crashResetCount
  /\ d.dishonestCount = c.dishonestCount /\ d.dishonestSuccess = c.dishonestSuccess
  /\ d.testItems = c.testItems /\ d.nextMid = c.nextMid /\ d.nextItem = c.nextItem

\* A step of the analyzer from c and a to d and b that ends no test.
AnalyzerStep(ph, c, a, d, b, p) ==
  /\ Same(c, d)
  /\ Ended(b) => Ended(a)
  /\ Tested(ph, d, b)
  /\ ~Orderly(p) => ~Has(d.toAnalyzer, CrashNote) /\ b.item \notin CrashItem /\ ~Has(b.out, CrashItem)

LEMMA SameFits ==
  ASSUME NEW ph, NEW S, NEW c, NEW d, NEW ns, NEW a, NEW b, NEW k, NEW p,
         AnalyzerStep(ph, c, a, d, b, p), Fits(ph, S, c, ns, a, k, p)
  PROVE  Fits(ph, S, d, ns, b, k, p)
<1> USE DEF AnalyzerStep
<1>1. /\ Pending(d, ns, HMsg, HAns) = Pending(c, ns, HMsg, HAns)
      /\ Pending(d, ns, WMsg, WAns) = Pending(c, ns, WMsg, WAns)
      /\ Pending(d, ns, KMsg, KAns) = Pending(c, ns, KMsg, KAns)
      /\ Active(d, ns) = Active(c, ns)
  BY DEF Pending, Active, Same
<1>2. Lanes(d, ns) BY DEF Fits, Lanes, Same
<1>3. Asked(ph, d, ns, p)
  <2>1. Asked(ph, c, ns, p) BY DEF Fits
  <2> QED BY <1>1, <2>1 DEF Asked, Same
<1>4. Counted(ph, S, d, ns, k)
  <2>1. Counted(ph, S, c, ns, k) BY DEF Fits
  <2> QED BY <1>1, <2>1 DEF Counted, Same
<1>5. CASE Orderly(p)
  <2>1. InOrder(ph, c, ns, a) BY <1>5 DEF Fits
  <2>2. InOrder(ph, d, ns, b) BY <1>1, <2>1 DEF InOrder, Same
  <2> QED BY <1>2, <1>3, <1>4, <1>5, <2>2 DEF Fits
<1>6. CASE ~Orderly(p)
  <2>1. NoCrash(ph, S, c, ns, a, k) BY <1>6 DEF Fits
  <2>2. NoCrash(ph, S, d, ns, b, k) BY <1>6, <2>1 DEF NoCrash, Same
  <2> QED BY <1>2, <1>3, <1>4, <1>6, <2>2 DEF Fits
<1> QED BY <1>5, <1>6

LEMMA AnalyzerTakesFits ==
  ASSUME NEW ph \in Phases, NEW S, NEW c \in ControllerState, NEW ns, NEW a \in AnalyzerState, NEW k,
         NEW p \in Plans, NEW i \in Takeable(c.toAnalyzer, p.ordered),
         Fits(ph, S, c, ns, a, k, p),
         NEW d \in ControllerState, d = [c EXCEPT !.toAnalyzer = Without(@, i)],
         NEW b \in AnalyzerState, b = HandleController(a, c.toAnalyzer[i])
  PROVE  Fits(ph, S, d, ns, b, k, p)
<1> DEFINE q == c.toAnalyzer
           m == q[i]
           w == Without(q, i)
<1>1. q \in Seq(AnalyzerMessage) BY DEF ControllerState
<1>2. p.ordered \in BOOLEAN BY PlansAssumption
<1>3. i \in 1..Len(q) BY <1>1, <1>2, TakeableIn
<1>4. m \in AnalyzerMessage /\ m.item \in TestItem \cup {NoItem}
  <2>1. m \in AnalyzerMessage BY <1>1, <1>3
  <2> QED BY <2>1 DEF AnalyzerMessage
<1>5. Same(c, d) /\ d.toAnalyzer = w BY DEF Same, ControllerState
<1>6. b = HandleController(a, m) OBVIOUS
<1> HIDE DEF q, m, w
<1>7. \A C : /\ Has(w, C) => Has(q, C)
             /\ One(q, C) => One(w, C)
             /\ One(q, C) /\ m \in C => ~Has(w, C)
             /\ m \in C => Has(q, C)
  BY <1>1, <1>3, LinkTaken DEF w, m
<1>8. Tested(ph, c, a) BY DEF Fits
<1>9. ~Has(q, EmptyMsg) BY <1>8 DEF Tested, q
<1>10. m \notin EmptyMsg /\ ~Has(w, EmptyMsg) BY <1>7, <1>9
<1>11. a.timers \in Nat BY DEF AnalyzerState
<1>12. CASE m.type = "TestItem"
  <2>1. b = [a EXCEPT !.item = m.item] BY <1>6, <1>12 DEF HandleController
  <2>2. /\ b.item = m.item /\ b.timers = a.timers /\ b.completedPermit = a.completedPermit
        /\ b.out = a.out /\ b.panicked = a.panicked
    BY <2>1 DEF AnalyzerState
  <2>3. m.item # NoItem BY <1>4, <1>10, <1>12 DEF EmptyMsg
  <2>4. Ended(b) <=> Ended(a) BY <2>2 DEF Ended
  <2>5. Tested(ph, d, b) BY <1>5, <1>7, <1>8, <1>10, <2>2, <2>3, <2>4 DEF Tested, q
  <2>6. ~Orderly(p) => ~Has(q, CrashNote) /\ ~Has(b.out, CrashItem) BY <2>2 DEF Fits, NoCrash, q
  <2>7. m \notin CrashNote => m.item \notin CrashItem BY <1>4 DEF CrashNote
  <2>8. ~Orderly(p) => ~Has(d.toAnalyzer, CrashNote) /\ b.item \notin CrashItem /\ ~Has(b.out, CrashItem)
    BY <1>5, <1>7, <2>2, <2>6, <2>7
  <2>9. AnalyzerStep(ph, c, a, d, b, p) BY <1>5, <2>4, <2>5, <2>8 DEF AnalyzerStep
  <2> QED BY <2>9, SameFits
<1>13. CASE m.type = "StartTest" /\ a.item # NoItem
  <2>1. b = [a EXCEPT !.timers = @ + 1] BY <1>6, <1>13 DEF HandleController
  <2>2. /\ b.item = a.item /\ b.timers = a.timers + 1 /\ b.completedPermit = a.completedPermit
        /\ b.out = a.out /\ b.panicked = a.panicked
    BY <2>1 DEF AnalyzerState
  <2>3. m \in BeginMsg BY <1>4, <1>13 DEF BeginMsg
  <2>4. Has(q, BeginMsg) BY <1>7, <2>3
  <2>5. ph = "test" /\ One(q, BeginMsg) /\ a.timers = 0 /\ ~Ended(a) BY <1>8, <2>4 DEF Tested, q
  <2>6. ~Has(w, BeginMsg) /\ One(w, BeginMsg) BY <1>7, <2>3, <2>5
  <2>7. Ended(b) <=> Ended(a) BY <2>2 DEF Ended
  <2>8. b.timers = 1 BY <2>2, <2>5
  <2>9. Tested(ph, d, b) BY <1>5, <1>8, <1>10, <1>13, <2>2, <2>5, <2>6, <2>7, <2>8 DEF Tested
  <2>10. ~Orderly(p) => ~Has(q, CrashNote) /\ a.item \notin CrashItem /\ ~Has(b.out, CrashItem)
    BY <2>2 DEF Fits, NoCrash, q
  <2>11. ~Orderly(p) => ~Has(d.toAnalyzer, CrashNote) /\ b.item \notin CrashItem /\ ~Has(b.out, CrashItem)
    BY <1>5, <1>7, <2>2, <2>10
  <2>12. AnalyzerStep(ph, c, a, d, b, p) BY <1>5, <2>7, <2>9, <2>11 DEF AnalyzerStep
  <2> QED BY <2>12, SameFits
<1>14. CASE m.type # "TestItem" /\ ~(m.type = "StartTest" /\ a.item # NoItem)
  <2>1. b = a BY <1>6, <1>14 DEF HandleController
  <2>2. Tested(ph, d, a) BY <1>5, <1>7, <1>8, <1>10 DEF Tested, q
  <2>3. ~Orderly(p) => ~Has(q, CrashNote) /\ a.item \notin CrashItem /\ ~Has(a.out, CrashItem)
    BY DEF Fits, NoCrash, q
  <2>4. ~Orderly(p) => ~Has(d.toAnalyzer, CrashNote) /\ a.item \notin CrashItem /\ ~Has(a.out, CrashItem)
    BY <1>5, <1>7, <2>3
  <2>5. AnalyzerStep(ph, c, a, d, b, p) BY <1>5, <2>1, <2>2, <2>4 DEF AnalyzerStep
  <2> QED BY <2>5, SameFits
<1> QED BY <1>12, <1>13, <1>14

\* The duration of a test is over.  In time means that nothing else is left to happen.
LEMMA TestTimerFits ==
  ASSUME NEW ph \in Phases, NEW S, NEW c \in ControllerState, NEW ns \in [Node -> NodeState],
         NEW a \in AnalyzerState, NEW k, NEW p \in Plans,
         Fits(ph, S, c, ns, a, k, p), a.timers > 0,
         p.timely => \A n \in Node : c.toNode[n] = <<>> /\ ns[n].out = <<>> /\ Settled(ns[n])
  PROVE  Fits(ph, S, c, ns, TestTimer(a), k, p)
<1>1. PICK b : b = TestTimer(a) OBVIOUS
<1>2. /\ b.item = a.item /\ b.timers = a.timers - 1 /\ b.completedPermit = TRUE
      /\ b.out = a.out /\ b.panicked = a.panicked
  BY <1>1 DEF TestTimer, AnalyzerState
<1>3. a.timers \in Nat BY DEF AnalyzerState
<1>4. Tested(ph, c, a) BY DEF Fits
<1>5. ph = "test" /\ a.timers = 1 /\ ~Ended(a) /\ ~Has(c.toAnalyzer, BeginMsg) BY <1>3, <1>4 DEF Tested
<1>6. b.timers = 0 /\ b.out = <<>> BY <1>2, <1>5 DEF Ended
<1>7. Tested(ph, c, b) BY <1>2, <1>4, <1>5, <1>6 DEF Tested
<1>8. CASE Orderly(p)
  <2>1. InOrder(ph, c, ns, a) BY <1>8 DEF Fits
  <2>2. \A n \in Node : c.toNode[n] = <<>> /\ ns[n].out = <<>> /\ Settled(ns[n]) BY <1>8 DEF Orderly
  <2>3. \A n \in Node : ~Has(c.toNode[n], StartMsg) /\ ~Has(c.toNode[n], HMsg) /\ ~Has(ns[n].out, HAns)
    BY <2>2, LinkEmpty
  <2>4. Pending(c, ns, HMsg, HAns) = {} BY <2>3 DEF Pending
  <2>5. \A n \in Node : ns[n].crashTimers = 0 /\ ~ns[n].crashPermit BY <2>1, <2>2 DEF Settled, InOrder
  <2>6. InOrder(ph, c, ns, b) BY <2>1, <2>3, <2>4, <2>5 DEF InOrder
  <2>7. Fits(ph, S, c, ns, b, k, p) BY <1>7, <1>8, <2>6 DEF Fits
  <2> QED BY <1>1, <2>7
<1>9. CASE ~Orderly(p)
  <2>1. NoCrash(ph, S, c, ns, a, k) BY <1>9 DEF Fits
  <2>2. NoCrash(ph, S, c, ns, b, k) BY <1>2, <2>1 DEF NoCrash
  <2>3. Fits(ph, S, c, ns, b, k, p) BY <1>7, <1>9, <2>2 DEF Fits
  <2> QED BY <1>1, <2>3
<1> QED BY <1>8, <1>9

LEMMA CompletesFits ==
  ASSUME NEW ph \in Phases, NEW S, NEW c \in ControllerState, NEW ns, NEW a \in AnalyzerState, NEW k, NEW p,
         Fits(ph, S, c, ns, a, k, p), a.completedPermit
  PROVE  Fits(ph, S, c, ns, CompleteTest(a), k, p)
<1>1. PICK b : b = CompleteTest(a) OBVIOUS
<1>2. Tested(ph, c, a) BY DEF Fits
<1>3. Ended(a) BY DEF Ended
<1>4. a.timers \in Nat BY DEF AnalyzerState
<1>5. /\ ph = "test" /\ a.timers = 0 /\ a.out = <<>> /\ a.item # NoItem /\ ~Has(c.toAnalyzer, BeginMsg)
      /\ ~a.panicked
  BY <1>2, <1>3, <1>4 DEF Tested
<1>6. a.item \in TestItem BY <1>5 DEF AnalyzerState
<1>7. b = [a EXCEPT !.completedPermit = FALSE, !.item = NoItem,
                    !.results = @ \cup {a.item}, !.out = Append(@, a.item)]
  BY <1>1, <1>5 DEF CompleteTest
<1>8. /\ b.item = NoItem /\ b.timers = 0 /\ b.completedPermit = FALSE
      /\ b.out = Append(a.out, a.item) /\ b.panicked = a.panicked
  BY <1>5, <1>7 DEF AnalyzerState
<1>9. b.out = <<a.item>> /\ Len(b.out) = 1 /\ b.out[1] = a.item BY <1>5, <1>8
<1>10. Ended(b) BY <1>9 DEF Ended
<1>11. Tested(ph, c, b) BY <1>2, <1>5, <1>8, <1>9 DEF Tested
<1>12. NoItem \notin CrashItem BY DEF NoItem, Item, CrashItem
<1>13. a.item \notin CrashItem => ~Has(b.out, CrashItem) BY <1>9 DEF Has
<1>14. ~Orderly(p) => ~Has(c.toAnalyzer, CrashNote) /\ a.item \notin CrashItem BY DEF Fits, NoCrash
<1>15. ~Orderly(p) => ~Has(c.toAnalyzer, CrashNote) /\ b.item \notin CrashItem /\ ~Has(b.out, CrashItem)
  BY <1>8, <1>12, <1>13, <1>14
<1>16. Same(c, c) BY DEF Same
<1>17. Ended(b) => Ended(a) BY <1>3
<1>18. AnalyzerStep(ph, c, a, c, b, p) BY <1>11, <1>15, <1>16, <1>17 DEF AnalyzerStep
<1>19. Fits(ph, S, c, ns, b, k, p) BY <1>18, SameFits
<1> QED BY <1>1, <1>19

-----------------------------------------------------------------------------
(* What the controller sends.                                               *)

\* Nothing that starts, stops or counts anything.
Neutral == NodeMessage \ (HMsg \cup WMsg \cup KMsg \cup StartMsg \cup ResetMsg \cup CrashMsg)

\* From c to d every node is sent one message of X or none.
Told(c, d, X) ==
  \A n \in Node : \/ d.toNode[n] = c.toNode[n]
                  \/ \E m \in X : d.toNode[n] = Append(c.toNode[n], m)

LEMMA Untold ==
  ASSUME NEW c \in ControllerState, NEW d, NEW X \in SUBSET NodeMessage, Told(c, d, X),
         NEW C, X \cap C = {}
  PROVE  \A n \in Node : /\ Has(d.toNode[n], C) <=> Has(c.toNode[n], C)
                         /\ One(c.toNode[n], C) => One(d.toNode[n], C)
<1> SUFFICES ASSUME NEW n \in Node
             PROVE  /\ Has(d.toNode[n], C) <=> Has(c.toNode[n], C)
                    /\ One(c.toNode[n], C) => One(d.toNode[n], C)
  OBVIOUS
<1>1. c.toNode[n] \in Seq(NodeMessage) BY DEF ControllerState
<1>2. CASE d.toNode[n] = c.toNode[n] BY <1>2
<1>3. CASE \E m \in X : d.toNode[n] = Append(c.toNode[n], m)
  <2>1. PICK m \in X : d.toNode[n] = Append(c.toNode[n], m) BY <1>3
  <2>2. m \in NodeMessage /\ m \notin C OBVIOUS
  <2>3. PICK q : q = c.toNode[n] OBVIOUS
  <2>4. q \in Seq(NodeMessage) BY <1>1, <2>3
  <2>5. /\ Has(Append(q, m), C) <=> Has(q, C) \/ m \in C
        /\ One(q, C) /\ (m \in C => ~Has(q, C)) => One(Append(q, m), C)
    BY <2>2, <2>4, LinkSent
  <2> QED BY <2>1, <2>2, <2>3, <2>5
<1> QED BY <1>2, <1>3 DEF Told

LEMMA ToldSorted ==
  ASSUME NEW c \in ControllerState, NEW d, NEW X \in SUBSET NodeMessage, Told(c, d, X),
         X \cap ResetMsg = {} \/ \A n \in Node : ~Has(c.toNode[n], StartMsg)
  PROVE  \A n \in Node : Sorted(c.toNode[n]) => Sorted(d.toNode[n])
<1> SUFFICES ASSUME NEW n \in Node, Sorted(c.toNode[n])
             PROVE  Sorted(d.toNode[n])
  OBVIOUS
<1>1. c.toNode[n] \in Seq(NodeMessage) BY DEF ControllerState
<1>2. CASE d.toNode[n] = c.toNode[n] BY <1>2
<1>3. CASE \E m \in X : d.toNode[n] = Append(c.toNode[n], m)
  <2>1. PICK m \in X : d.toNode[n] = Append(c.toNode[n], m) BY <1>3
  <2>2. m \in NodeMessage /\ (m \in ResetMsg => ~Has(c.toNode[n], StartMsg)) OBVIOUS
  <2>3. PICK q : q = c.toNode[n] OBVIOUS
  <2>4. q \in Seq(NodeMessage) /\ Sorted(q) /\ (m \in ResetMsg => ~Has(q, StartMsg)) BY <1>1, <2>2, <2>3
  <2>5. Sorted(Append(q, m)) BY <2>2, <2>4, SortedSent
  <2> QED BY <2>1, <2>3, <2>5
<1> QED BY <1>2, <1>3 DEF Told

\* The fields that the invariant reads, but for what is on the way to the nodes.
Neutrally(c, d) ==
  /\ Told(c, d, Neutral)
  /\ c.consensusNodes \subseteq d.consensusNodes
  /\ d.configureCount = c.configureCount /\ d.scalabilityFirst = c.scalabilityFirst
  /\ d.resetCount = c.resetCount /\ d.crashResetCount = c.crashResetCount
  /\ d.dishonestCount = c.dishonestCount /\ d.dishonestSuccess = c.dishonestSuccess
  /\ d.testItems = c.testItems /\ d.nextMid = c.nextMid /\ d.nextItem = c.nextItem
  /\ d.toAnalyzer = c.toAnalyzer

LEMMA NeutralFits ==
  ASSUME NEW ph, NEW S, NEW c \in ControllerState, NEW d, NEW ns, NEW a, NEW k, NEW p,
         Neutrally(c, d), Fits(ph, S, c, ns, a, k, p)
  PROVE  Fits(ph, S, d, ns, a, k, p)
<1> USE DEF Neutrally
<1>1. Neutral \in SUBSET NodeMessage BY DEF Neutral
<1>2. /\ Neutral \cap HMsg = {} /\ Neutral \cap WMsg = {} /\ Neutral \cap KMsg = {}
      /\ Neutral \cap StartMsg = {} /\ Neutral \cap ResetMsg = {} /\ Neutral \cap CrashMsg = {}
  BY DEF Neutral
<1>3. \A n \in Node : /\ Has(d.toNode[n], HMsg) <=> Has(c.toNode[n], HMsg)
                      /\ One(c.toNode[n], HMsg) => One(d.toNode[n], HMsg)
  BY <1>1, <1>2, Untold
<1>4. \A n \in Node : /\ Has(d.toNode[n], WMsg) <=> Has(c.toNode[n], WMsg)
                      /\ One(c.toNode[n], WMsg) => One(d.toNode[n], WMsg)
  BY <1>1, <1>2, Untold
<1>5. \A n \in Node : /\ Has(d.toNode[n], KMsg) <=> Has(c.toNode[n], KMsg)
                      /\ One(c.toNode[n], KMsg) => One(d.toNode[n], KMsg)
  BY <1>1, <1>2, Untold
<1>6. \A n \in Node : /\ Has(d.toNode[n], StartMsg) <=> Has(c.toNode[n], StartMsg)
                      /\ One(c.toNode[n], StartMsg) => One(d.toNode[n], StartMsg)
  BY <1>1, <1>2, Untold
<1>7. \A n \in Node : /\ Has(d.toNode[n], ResetMsg) <=> Has(c.toNode[n], ResetMsg)
                      /\ One(c.toNode[n], ResetMsg) => One(d.toNode[n], ResetMsg)
  BY <1>1, <1>2, Untold
<1>8. \A n \in Node : Has(d.toNode[n], CrashMsg) <=> Has(c.toNode[n], CrashMsg)
  BY <1>1, <1>2, Untold
<1>9. \A n \in Node : Sorted(c.toNode[n]) => Sorted(d.toNode[n]) BY <1>1, <1>2, ToldSorted
<1>10. /\ Pending(d, ns, HMsg, HAns) = Pending(c, ns, HMsg, HAns)
       /\ Pending(d, ns, WMsg, WAns) = Pending(c, ns, WMsg, WAns)
       /\ Pending(d, ns, KMsg, KAns) = Pending(c, ns, KMsg, KAns)
       /\ Active(d, ns) = Active(c, ns)
  BY <1>3, <1>4, <1>5, <1>6 DEF Pending, Active
<1>11. Lanes(d, ns)
  <2>1. Lanes(c, ns) BY DEF Fits
  <2> QED BY <1>3, <1>4, <1>5, <1>6, <2>1 DEF Lanes, Lane
<1>12. Asked(ph, d, ns, p)
  <2>1. Asked(ph, c, ns, p) BY DEF Fits
  <2> QED BY <1>10, <2>1 DEF Asked
<1>13. Counted(ph, S, d, ns, k)
  <2>1. Counted(ph, S, c, ns, k) BY DEF Fits
  <2> QED BY <1>10, <2>1 DEF Counted
<1>14. Tested(ph, d, a) BY DEF Fits, Tested
<1>15. CASE Orderly(p)
  <2>1. InOrder(ph, c, ns, a) BY <1>15 DEF Fits
  <2>2. InOrder(ph, d, ns, a) BY <1>6, <1>7, <1>9, <1>10, <2>1 DEF InOrder
  <2> QED BY <1>11, <1>12, <1>13, <1>14, <1>15, <2>2 DEF Fits
<1>16. CASE ~Orderly(p)
  <2>1. NoCrash(ph, S, c, ns, a, k) BY <1>16 DEF Fits
  <2>2. NoCrash(ph, S, d, ns, a, k) BY <1>7, <1>8, <2>1 DEF NoCrash
  <2> QED BY <1>11, <1>12, <1>13, <1>14, <1>16, <2>2 DEF Fits
<1> QED BY <1>15, <1>16

\* The controller takes answer m of node n, which leaves ms of ns.
Heard(c, ns, ms, n, m) ==
  /\ m \in HAns =>
       n \in Pending(c, ns, HMsg, HAns) /\ Pending(c, ms, HMsg, HAns) = Pending(c, ns, HMsg, HAns) \ {n}
  /\ m \in WAns =>
       n \in Pending(c, ns, WMsg, WAns) /\ Pending(c, ms, WMsg, WAns) = Pending(c, ns, WMsg, WAns) \ {n}
  /\ m \in KAns =>
       n \in Pending(c, ns, KMsg, KAns) /\ Pending(c, ms, KMsg, KAns) = Pending(c, ns, KMsg, KAns) \ {n}
  /\ m \in RAns => n \in Active(c, ns) \ Active(c, ms)

Hears(ns, ms, n, i) == ms = [ns EXCEPT ![n].out = Without(@, i)]

LEMMA HeardFits ==
  ASSUME NEW ph, NEW S, NEW c \in ControllerState, NEW ns \in [Node -> NodeState], NEW a, NEW k, NEW p,
         NEW n \in Node, NEW i \in 1..Len(ns[n].out),
         NEW ms, Hears(ns, ms, n, i), Fits(ph, S, c, ns, a, k, p)
  PROVE  Fits(ph, S, c, ms, a, k, p) /\ Heard(c, ns, ms, n, ns[n].out[i])
<1> DEFINE o == ns[n].out
           w == Without(o, i)
           q == c.toNode[n]
<1>1. ns[n] \in NodeState /\ o \in Seq(Feedback) BY DEF NodeState
<1>2. /\ ms[n].out = w /\ ms[n].running = ns[n].running /\ ms[n].mode = ns[n].mode
      /\ ms[n].stopPermit = ns[n].stopPermit /\ ms[n].crashTimers = ns[n].crashTimers
      /\ ms[n].crashPermit = ns[n].crashPermit
  BY <1>1 DEF NodeState, Hears
<1>3. \A l \in Node : l # n => ms[l] = ns[l] BY DEF Hears
<1> HIDE DEF o, w, q
<1>4. \A C : Has(w, C) => Has(o, C) BY <1>1, LinkTaken DEF w, o
<1>5. Lanes(c, ns) BY DEF Fits
<1>6. /\ Lane(q, o, HMsg, HAns) /\ Lane(q, o, WMsg, WAns) /\ Lane(q, o, KMsg, KAns) /\ Lane(q, o, StartMsg, RAns)
      /\ ns[n].running => ~Has(q, StartMsg) /\ ~Has(o, RAns)
      /\ ns[n].stopPermit => ns[n].running
  BY <1>5 DEF Lanes, o, q
<1>7. /\ Lane(q, w, HMsg, HAns)
      /\ o[i] \in HAns => ~Has(q, HMsg) /\ ~Has(w, HAns) /\ Has(o, HAns)
  BY <1>1, <1>6, LaneHeard DEF w, o
<1>8. /\ Lane(q, w, WMsg, WAns)
      /\ o[i] \in WAns => ~Has(q, WMsg) /\ ~Has(w, WAns) /\ Has(o, WAns)
  BY <1>1, <1>6, LaneHeard DEF w, o
<1>9. /\ Lane(q, w, KMsg, KAns)
      /\ o[i] \in KAns => ~Has(q, KMsg) /\ ~Has(w, KAns) /\ Has(o, KAns)
  BY <1>1, <1>6, LaneHeard DEF w, o
<1>10. /\ Lane(q, w, StartMsg, RAns)
       /\ o[i] \in RAns => ~Has(q, StartMsg) /\ ~Has(w, RAns) /\ Has(o, RAns)
  BY <1>1, <1>6, LaneHeard DEF w, o
<1>11. Lanes(c, ms)
  <2>1. ASSUME NEW l \in Node
        PROVE  /\ Lane(c.toNode[l], ms[l].out, HMsg, HAns) /\ Lane(c.toNode[l], ms[l].out, WMsg, WAns)
               /\ Lane(c.toNode[l], ms[l].out, KMsg, KAns) /\ Lane(c.toNode[l], ms[l].out, StartMsg, RAns)
               /\ ms[l].running => ~Has(c.toNode[l], StartMsg) /\ ~Has(ms[l].out, RAns)
               /\ ms[l].stopPermit => ms[l].running
    <3>1. CASE l = n BY <1>2, <1>4, <1>6, <1>7, <1>8, <1>9, <1>10, <3>1 DEF q
    <3>2. CASE l # n BY <1>3, <1>5, <3>2 DEF Lanes
    <3> QED BY <3>1, <3>2
  <2> QED BY <2>1 DEF Lanes
<1>12. \A l \in Node :
         /\ Has(ms[l].out, HAns) => Has(ns[l].out, HAns)
         /\ Has(ms[l].out, WAns) => Has(ns[l].out, WAns)
         /\ Has(ms[l].out, KAns) => Has(ns[l].out, KAns)
         /\ Has(ms[l].out, RAns) => Has(ns[l].out, RAns)
         /\ Has(ms[l].out, StopAns) => Has(ns[l].out, StopAns)
         /\ Has(ms[l].out, CrashAns) => Has(ns[l].out, CrashAns)
         /\ ms[l].running = ns[l].running /\ ms[l].mode = ns[l].mode /\ ms[l].stopPermit = ns[l].stopPermit
         /\ ms[l].crashTimers = ns[l].crashTimers /\ ms[l].crashPermit = ns[l].crashPermit
  <2>1. ASSUME NEW l \in Node, l = n PROVE \A C : Has(ms[l].out, C) => Has(ns[l].out, C)
    BY <1>2, <1>4, <2>1 DEF o
  <2>2. ASSUME NEW l \in Node, l # n PROVE ms[l] = ns[l] BY <1>3, <2>2
  <2> QED BY <1>2, <2>1, <2>2
<1>13. /\ Pending(c, ms, HMsg, HAns) \subseteq Pending(c, ns, HMsg, HAns)
       /\ Pending(c, ms, WMsg, WAns) \subseteq Pending(c, ns, WMsg, WAns)
       /\ Pending(c, ms, KMsg, KAns) \subseteq Pending(c, ns, KMsg, KAns)
       /\ Active(c, ms) \subseteq Active(c, ns)
  BY <1>12 DEF Pending, Active
<1>14. Asked(ph, c, ms, p)
  <2>1. FewerAsked(c, ns, c, ms) BY <1>13 DEF FewerAsked
  <2>2. Asked(ph, c, ns, p) BY DEF Fits
  <2> QED BY <2>1, <2>2, AskedKept
<1>15. Counted(ph, S, c, ms, k)
  <2>1. FewerActive(ph, c, ns, c, ms) BY <1>12, <1>13 DEF FewerActive
  <2>2. Counted(ph, S, c, ns, k) BY DEF Fits
  <2> QED BY <2>1, <2>2, CountedKept
<1>16. Fits(ph, S, c, ms, a, k, p)
  <2>1. CASE Orderly(p)
    <3>1. InOrder(ph, c, ns, a) BY <2>1 DEF Fits
    <3>2. InOrder(ph, c, ms, a) BY <1>12, <1>13, <3>1 DEF InOrder
    <3> QED BY <1>11, <1>14, <1>15, <2>1, <3>2 DEF Fits
  <2>2. CASE ~Orderly(p)
    <3>1. NoCrash(ph, S, c, ns, a, k) BY <2>2 DEF Fits
    <3>2. NoCrash(ph, S, c, ms, a, k) BY <1>12, <3>1 DEF NoCrash
    <3> QED BY <1>11, <1>14, <1>15, <2>2, <3>2 DEF Fits
  <2> QED BY <2>1, <2>2
<1>17. o[i] \in HAns =>
         n \in Pending(c, ns, HMsg, HAns) /\ Pending(c, ms, HMsg, HAns) = Pending(c, ns, HMsg, HAns) \ {n}
  BY <1>2, <1>3, <1>7 DEF Pending, o, q
<1>18. o[i] \in WAns =>
         n \in Pending(c, ns, WMsg, WAns) /\ Pending(c, ms, WMsg, WAns) = Pending(c, ns, WMsg, WAns) \ {n}
  BY <1>2, <1>3, <1>8 DEF Pending, o, q
<1>19. o[i] \in KAns =>
         n \in Pending(c, ns, KMsg, KAns) /\ Pending(c, ms, KMsg, KAns) = Pending(c, ns, KMsg, KAns) \ {n}
  BY <1>2, <1>3, <1>9 DEF Pending, o, q
<1>20. o[i] \in RAns => n \in Active(c, ns) \ Active(c, ms)
  BY <1>2, <1>6, <1>10 DEF Active, o, q
<1> QED BY <1>16, <1>17, <1>18, <1>19, <1>20 DEF o, Heard

-----------------------------------------------------------------------------
(* A round starts.                                                          *)

\* The fields that the invariant reads, but for the links.
Kept(c, d) ==
  /\ d.consensusNodes = c.consensusNodes
  /\ d.configureCount = c.configureCount /\ d.scalabilityFirst = c.scalabilityFirst
  /\ d.resetCount = c.resetCount /\ d.crashResetCount = c.crashResetCount
  /\ d.dishonestCount = c.dishonestCount /\ d.dishonestSuccess = c.dishonestSuccess
  /\ d.testItems = c.testItems /\ d.nextMid = c.nextMid /\ d.nextItem = c.nextItem

LEMMA SendNodesEffect ==
  ASSUME NEW c \in ControllerState, NEW S, NEW m, NEW d, d = SendNodes(c, S, m)
  PROVE  /\ Kept(c, d) /\ d.toAnalyzer = c.toAnalyzer
         /\ \A n \in Node : d.toNode[n] = IF n \in S THEN Append(c.toNode[n], m) ELSE c.toNode[n]
         /\ Told(c, d, {m})
<1>1. d = [c EXCEPT !.toNode = [n \in Node |-> IF n \in S THEN Append(c.toNode[n], m) ELSE c.toNode[n]]]
  BY DEF SendNodes, ControllerState
<1>2. Kept(c, d) /\ d.toAnalyzer = c.toAnalyzer BY <1>1 DEF Kept, ControllerState
<1>3. d.toNode = [n \in Node |-> IF n \in S THEN Append(c.toNode[n], m) ELSE c.toNode[n]]
  BY <1>1 DEF ControllerState
<1> QED BY <1>2, <1>3 DEF Told

LEMMA SendAnalyzerEffect ==
  ASSUME NEW c \in ControllerState, NEW type, NEW item, NEW d, d = SendAnalyzer(c, type, item)
  PROVE  /\ Kept(c, d) /\ d.toNode = c.toNode
         /\ d.toAnalyzer = Append(c.toAnalyzer, [type |-> type, item |-> item])
<1>1. d = [c EXCEPT !.toAnalyzer = Append(c.toAnalyzer, [type |-> type, item |-> item])]
  BY DEF SendAnalyzer, ControllerState
<1> QED BY <1>1 DEF Kept, ControllerState

\* From c to d a round is announced to the analyzer ...
Announces(c, d) ==
  /\ Len(d.toAnalyzer) > Len(c.toAnalyzer)
  /\ d.toAnalyzer[Len(c.toAnalyzer) + 1].type = "TestItem"

\* ... which is due when the last one is over.
RoundOver(c, ns, a) ==
  /\ \A n \in Node : ~ns[n].running /\ ~Has(c.toNode[n], StartMsg)
  /\ a.timers = 0

LEMMA NothingAnnounced ==
  ASSUME NEW c \in ControllerState, NEW d,
         d.toAnalyzer = c.toAnalyzer \/ \E m : m.type # "TestItem" /\ d.toAnalyzer = Append(c.toAnalyzer, m)
  PROVE  ~Announces(c, d)
<1>1. c.toAnalyzer \in Seq(AnalyzerMessage) BY DEF ControllerState
<1>2. PICK q : q = c.toAnalyzer OBVIOUS
<1>3. q \in Seq(AnalyzerMessage) /\ Len(q) \in Nat BY <1>1, <1>2
<1>4. CASE d.toAnalyzer = q BY <1>2, <1>3, <1>4 DEF Announces
<1>5. CASE d.toAnalyzer # q
  <2>1. PICK m : m.type # "TestItem" /\ d.toAnalyzer = Append(q, m) BY <1>2, <1>5
  <2>2. Append(q, m)[Len(q) + 1] = m BY <1>3
  <2> QED BY <1>2, <2>1, <2>2 DEF Announces
<1> QED BY <1>4, <1>5

\* The last answer that was missing: from c to e only answers are counted.
Readies(c, e) ==
  /\ e.toNode = c.toNode /\ e.toAnalyzer = c.toAnalyzer
  /\ c.consensusNodes \subseteq e.consensusNodes
  /\ e.resetCount = c.resetCount /\ e.crashResetCount = c.crashResetCount
  /\ e.testItems = c.testItems /\ e.nextMid = c.nextMid /\ e.nextItem = c.nextItem

LEMMA GoFits ==
  ASSUME NEW ph \in Configuring, NEW S, NEW c \in ControllerState, NEW e \in ControllerState,
         NEW ns \in [Node -> NodeState], NEW a \in AnalyzerState, NEW k, NEW p, NEW d,
         Fits(ph, S, c, ns, a, k, p), Readies(c, e), Asked("test", e, ns, p), d = StartRound(e)
  PROVE  Fits("test", {}, d, ns, a, k, p) /\ ~Announces(c, d)
<1> USE DEF Readies
<1> DEFINE m == Tell("ProtocolStart")
           b == [type |-> "StartTest", item |-> NoItem]
<1>1. m \in NodeMessage /\ m.type = "ProtocolStart" /\ m.mode.kind = "Uninitialized"
  <2>1. m \in NodeMessage BY ModesTyped
  <2> QED BY <2>1 DEF Tell, Say, SimpleMode
<1>2. b \in AnalyzerMessage /\ b.type = "StartTest" /\ b.item = NoItem BY DEF AnalyzerMessage
<1>3. PICK g : g = ProtocolStart(e) OBVIOUS
<1>4. g = SendNodes(e, e.consensusNodes, m) BY <1>3 DEF ProtocolStart
<1>5. d = SendAnalyzer(g, "StartTest", NoItem) BY <1>3 DEF StartRound, StartTest
<1>6. g \in ControllerState BY <1>1, <1>4, SendNodesTyped
<1> HIDE DEF m, b
<1>7. Kept(e, g) /\ g.toAnalyzer = e.toAnalyzer /\ Told(e, g, {m})
      /\ \A n \in Node : g.toNode[n] = IF n \in e.consensusNodes THEN Append(e.toNode[n], m) ELSE e.toNode[n]
  BY <1>4, SendNodesEffect
<1>8. Kept(g, d) /\ d.toNode = g.toNode /\ d.toAnalyzer = Append(g.toAnalyzer, b)
  BY <1>5, <1>6, SendAnalyzerEffect DEF b
<1>9. Kept(e, d) BY <1>7, <1>8 DEF Kept
<1>10. Told(c, d, {m}) BY <1>7, <1>8 DEF Told
<1>11. /\ {m} \cap HMsg = {} /\ {m} \cap WMsg = {} /\ {m} \cap KMsg = {}
       /\ {m} \cap ResetMsg = {} /\ {m} \cap CrashMsg = {} /\ {m} \in SUBSET NodeMessage
  BY <1>1 DEF HMsg, WMsg, KMsg, ResetMsg, CrashMsg, Answered
<1>12. \A n \in Node : /\ Has(d.toNode[n], HMsg) <=> Has(c.toNode[n], HMsg)
                       /\ One(c.toNode[n], HMsg) => One(d.toNode[n], HMsg)
  BY <1>10, <1>11, Untold
<1>13. \A n \in Node : /\ Has(d.toNode[n], WMsg) <=> Has(c.toNode[n], WMsg)
                       /\ One(c.toNode[n], WMsg) => One(d.toNode[n], WMsg)
  BY <1>10, <1>11, Untold
<1>14. \A n \in Node : /\ Has(d.toNode[n], KMsg) <=> Has(c.toNode[n], KMsg)
                       /\ One(c.toNode[n], KMsg) => One(d.toNode[n], KMsg)
  BY <1>10, <1>11, Untold
<1>15. \A n \in Node : /\ Has(d.toNode[n], ResetMsg) <=> Has(c.toNode[n], ResetMsg)
                       /\ One(c.toNode[n], ResetMsg) => One(d.toNode[n], ResetMsg)
  BY <1>10, <1>11, Untold
<1>16. \A n \in Node : Has(d.toNode[n], CrashMsg) <=> Has(c.toNode[n], CrashMsg)
  BY <1>10, <1>11, Untold
<1>17. \A n \in Node : Sorted(c.toNode[n]) => Sorted(d.toNode[n]) BY <1>10, <1>11, ToldSorted
<1>18. Lanes(c, ns) /\ Counted(ph, S, c, ns, k) /\ Tested(ph, c, a) BY DEF Fits
<1>19. ph # "test" /\ ph # "reset" /\ ph # "op" BY DEF Configuring
<1>20. Active(c, ns) = {} /\ S = {} BY <1>18 DEF Counted
<1>21. \A n \in Node : ~Has(c.toNode[n], StartMsg) /\ ~ns[n].running /\ ~Has(ns[n].out, RAns)
  BY <1>20 DEF Active
<1>22. \A n \in Node : /\ One(d.toNode[n], StartMsg)
                       /\ Has(d.toNode[n], StartMsg) => n \in d.consensusNodes
  <2> SUFFICES ASSUME NEW n \in Node
               PROVE  One(d.toNode[n], StartMsg) /\ (Has(d.toNode[n], StartMsg) => n \in d.consensusNodes)
    OBVIOUS
  <2>1. PICK q : q = c.toNode[n] OBVIOUS
  <2>2. q \in Seq(NodeMessage) BY <2>1 DEF ControllerState
  <2>3. One(q, StartMsg) /\ ~Has(q, StartMsg) BY <1>18, <1>21, <2>1 DEF Lanes, Lane
  <2>4. d.toNode[n] = IF n \in e.consensusNodes THEN Append(q, m) ELSE q BY <1>7, <1>8, <2>1
  <2>5. One(Append(q, m), StartMsg) BY <1>1, <2>2, <2>3, LinkSent
  <2> QED BY <1>9, <2>3, <2>4, <2>5 DEF Kept
<1>23. /\ Pending(d, ns, HMsg, HAns) = Pending(e, ns, HMsg, HAns)
       /\ Pending(d, ns, WMsg, WAns) = Pending(e, ns, WMsg, WAns)
       /\ Pending(d, ns, KMsg, KAns) = Pending(e, ns, KMsg, KAns)
  BY <1>12, <1>13, <1>14 DEF Pending
<1>24. Active(d, ns) \subseteq d.consensusNodes BY <1>21, <1>22 DEF Active
<1>25. Lanes(d, ns) BY <1>12, <1>13, <1>14, <1>18, <1>21, <1>22 DEF Lanes, Lane
<1>26. Asked("test", d, ns, p) BY <1>9, <1>23 DEF Asked, Kept
<1>27. Counted("test", {}, d, ns, k)
  <2>1. Cardinality(S) = c.resetCount + c.crashResetCount /\ (\A n \in Node : ~ns[n].stopPermit) /\ ~(k < 4)
    BY <1>18, <1>19 DEF Counted
  <2>2. Cardinality({}) = 0 BY FS_EmptySet
  <2>3. c.resetCount \in Nat /\ c.crashResetCount \in Nat BY DEF ControllerState
  <2>4. d.resetCount = 0 /\ d.crashResetCount = 0 BY <1>9, <1>20, <2>1, <2>2, <2>3 DEF Kept
  <2>5. StopAns \subseteq RAns BY DEF StopAns
  <2>6. \A n \in Node : ~Has(ns[n].out, StopAns) BY <1>21, <2>5 DEF Has
  <2>7. "test" \notin Configuring BY DEF Configuring
  <2> QED BY <1>24, <2>1, <2>2, <2>4, <2>6, <2>7 DEF Counted
<1>28. Tested("test", d, a)
  <2>1. PICK q : q = c.toAnalyzer OBVIOUS
  <2>2. q \in Seq(AnalyzerMessage) BY <2>1 DEF ControllerState
  <2>3. ~Has(q, BeginMsg) /\ a.timers = 0 /\ ~Ended(a) /\ ~Has(q, EmptyMsg) /\ ~a.panicked
    BY <1>18, <1>19, <2>1 DEF Tested
  <2>4. One(q, BeginMsg) BY <2>3 DEF One, Has
  <2>5. d.toAnalyzer = Append(q, b) BY <1>7, <1>8, <2>1
  <2>6. One(Append(q, b), BeginMsg) BY <1>2, <2>2, <2>3, <2>4, LinkSent
  <2>7. b \notin EmptyMsg BY <1>2 DEF EmptyMsg
  <2>8. ~Has(Append(q, b), EmptyMsg) BY <1>2, <2>2, <2>3, <2>7, LinkSent
  <2>9. a.out = <<>> /\ ~a.completedPermit BY <2>3 DEF Ended
  <2> QED BY <2>3, <2>5, <2>6, <2>8, <2>9 DEF Tested
<1>29. ~Announces(c, d)
  <2>1. b.type # "TestItem" /\ d.toAnalyzer = Append(c.toAnalyzer, b) BY <1>2, <1>7, <1>8
  <2> QED BY <2>1, NothingAnnounced
<1>30. CASE Orderly(p)
  <2>1. InOrder(ph, c, ns, a) BY <1>30 DEF Fits
  <2>2. ~Ended(a) BY <1>18, <1>19 DEF Tested
  <2>3. InOrder("test", d, ns, a) BY <1>15, <1>17, <1>19, <1>21, <2>1, <2>2 DEF InOrder
  <2> QED BY <1>25, <1>26, <1>27, <1>28, <1>29, <1>30, <2>3 DEF Fits
<1>31. CASE ~Orderly(p)
  <2>1. NoCrash(ph, S, c, ns, a, k) BY <1>31 DEF Fits
  <2>2. ~Has(d.toAnalyzer, CrashNote)
    <3>1. PICK q : q = c.toAnalyzer OBVIOUS
    <3>2. q \in Seq(AnalyzerMessage) /\ ~Has(q, CrashNote) BY <2>1, <3>1 DEF ControllerState, NoCrash
    <3>3. b \notin CrashNote BY <1>2 DEF CrashNote, CrashItem, NoItem, Item
    <3>4. ~Has(Append(q, b), CrashNote) BY <1>2, <3>2, <3>3, LinkSent
    <3> QED BY <1>7, <1>8, <3>1, <3>4
  <2>3. /\ d.testItems = c.testItems /\ d.nextMid = c.nextMid /\ d.nextItem = c.nextItem
    BY <1>9 DEF Kept
  <2>4. NoCrash("test", {}, d, ns, a, k) BY <1>15, <1>16, <1>19, <1>20, <1>21, <2>1, <2>2, <2>3 DEF NoCrash
  <2> QED BY <1>25, <1>26, <1>27, <1>28, <1>29, <1>31, <2>4 DEF Fits
<1> QED BY <1>30, <1>31

-----------------------------------------------------------------------------
(* The controller hears a node.                                             *)

\* An answer is counted and nothing else happens.
LEMMA TallyFits ==
  ASSUME NEW ph, NEW S, NEW c \in ControllerState, NEW e, NEW ns, NEW a, NEW k, NEW p,
         Fits(ph, S, c, ns, a, k, p), Readies(c, e), Asked(ph, e, ns, p)
  PROVE  Fits(ph, S, e, ns, a, k, p) /\ ~Announces(c, e)
<1> USE DEF Readies
<1>1. ~Announces(c, e) BY NothingAnnounced
<1>2. Lanes(e, ns) BY DEF Fits, Lanes
<1>3. Active(e, ns) = Active(c, ns) /\ Pending(e, ns, HMsg, HAns) = Pending(c, ns, HMsg, HAns)
  BY DEF Active, Pending
<1>4. Counted(ph, S, e, ns, k)
  <2>1. Counted(ph, S, c, ns, k) BY DEF Fits
  <2> QED BY <1>3, <2>1 DEF Counted
<1>5. Tested(ph, e, a) BY DEF Fits, Tested
<1>6. CASE Orderly(p)
  <2>1. InOrder(ph, c, ns, a) BY <1>6 DEF Fits
  <2>2. InOrder(ph, e, ns, a) BY <1>3, <2>1 DEF InOrder
  <2> QED BY <1>1, <1>2, <1>4, <1>5, <1>6, <2>2 DEF Fits
<1>7. CASE ~Orderly(p)
  <2>1. NoCrash(ph, S, c, ns, a, k) BY <1>7 DEF Fits
  <2>2. NoCrash(ph, S, e, ns, a, k) BY <2>1 DEF NoCrash
  <2> QED BY <1>1, <1>2, <1>4, <1>5, <1>7, <2>2 DEF Fits
<1> QED BY <1>6, <1>7

\* The session after the controller's step from c to d fits some phase again, and
\* a round is announced only when the last one is over.
Fitting(d, ns, a, k, p) == \E ph \in Phases, S \in SUBSET Node : Fits(ph, S, d, ns, a, k, p)

LEMMA HonestAnswerFits ==
  ASSUME NEW ph \in Phases, NEW S \in SUBSET Node, NEW c \in ControllerState, NEW d,
         NEW ns, NEW ms \in [Node -> NodeState], NEW a \in AnalyzerState, NEW k, NEW p, NEW n \in Node,
         NEW H, H = Pending(c, ns, HMsg, HAns), n \in H, Pending(c, ms, HMsg, HAns) = H \ {n},
         Asked(ph, c, ns, p), Fits(ph, S, c, ms, a, k, p),
         NEW mode, mode.kind = "HonestOther", d = ConsensusNodeModeSuccess(c, n, mode)
  PROVE  Fitting(d, ms, a, k, p) /\ ~Announces(c, d)
<1> DEFINE H2 == H \ {n}
           e == [HonestNode(c, n) EXCEPT !.configureCount = 0, !.scalabilityFirst = 0]
           g == [HonestNode(c, n) EXCEPT !.configureCount = @ + 1]
<1>1. d = IF c.configureCount + 1 = Cardinality(Node) \/ c.scalabilityFirst = 1 THEN StartRound(e) ELSE g
  BY DEF ConsensusNodeModeSuccess
<1>2. /\ e \in ControllerState /\ Readies(c, e) /\ e.configureCount = 0 /\ e.scalabilityFirst = 0
      /\ e.dishonestCount = c.dishonestCount /\ e.dishonestSuccess = c.dishonestSuccess
  BY DEF HonestNode, ControllerState, Readies
<1>3. /\ Readies(c, g) /\ g.configureCount = c.configureCount + 1 /\ g.scalabilityFirst = c.scalabilityFirst
      /\ g.dishonestCount = c.dishonestCount /\ g.dishonestSuccess = c.dishonestSuccess
  BY DEF HonestNode, ControllerState, Readies
<1> HIDE DEF e, g
<1>4. /\ \A M, A : Pending(e, ms, M, A) = Pending(c, ms, M, A)
      /\ \A M, A : Pending(g, ms, M, A) = Pending(c, ms, M, A)
  BY <1>2, <1>3 DEF Pending, Readies
<1>5. H \in SUBSET Node BY PendingCounted
<1>6. /\ Cardinality(H2) = Cardinality(H) - 1 /\ Cardinality(H) \in Nat /\ Cardinality(H) >= 1
      /\ Cardinality(H) <= Cardinality(Node)
  BY <1>5, OneLessCounted, FewerCounted
<1>7. c.configureCount \in Nat /\ Cardinality(Node) \in Nat BY NodesCounted DEF ControllerState
<1>8. /\ c.configureCount < Cardinality(Node)
      /\ ph # "cfgH" => c.configureCount + Cardinality(H) < Cardinality(Node) /\ (c.scalabilityFirst = 1 => H = {})
      /\ ~Orderly(p) => IF ph = "cfgH" THEN /\ c.scalabilityFirst = 1 => Cardinality(H) <= 1
                                            /\ c.configureCount + Cardinality(H) <= Cardinality(Node)
                                       ELSE H = {}
  BY DEF Asked
<1>9. /\ IF ph = "cfgW" THEN Cardinality(Pending(c, ms, WMsg, WAns)) <= 1 ELSE Pending(c, ms, WMsg, WAns) = {}
      /\ IF ph = "cfgK" THEN Cardinality(Pending(c, ms, KMsg, KAns)) + c.dishonestSuccess <= c.dishonestCount
                        ELSE Pending(c, ms, KMsg, KAns) = {} /\ c.dishonestSuccess = 0
  BY DEF Fits, Asked
<1> DEFINE x == c.configureCount
           h == Cardinality(H)
           N == Cardinality(Node)
<1> HIDE DEF H2
<1>10. PICK h2 : h2 = Cardinality(H2) OBVIOUS
<1>11. h \in Nat /\ h2 \in Nat /\ x \in Nat /\ N \in Nat /\ h2 = h - 1 /\ h >= 1 /\ h <= N /\ x < N
  BY <1>6, <1>7, <1>8, <1>10
<1>12. H # {} OBVIOUS
<1>13. CASE x + 1 = N \/ c.scalabilityFirst = 1
  <2>1. ph = "cfgH"
    <3>1. ph # "cfgH" => x + h < N /\ c.scalabilityFirst # 1 BY <1>8, <1>12
    <3> HIDE DEF x, h, N
    <3>2. x + h < N => x + 1 # N BY <1>11
    <3> QED BY <1>13, <3>1, <3>2
  <2>2. ~Orderly(p) => h <= 1
    <3>1. ~Orderly(p) => (c.scalabilityFirst = 1 => h <= 1) /\ x + h <= N BY <1>8, <2>1
    <3> HIDE DEF x, h, N
    <3>2. x + 1 = N /\ x + h <= N => h <= 1 BY <1>11
    <3> QED BY <1>13, <3>1, <3>2
  <2>3. ~Orderly(p) => H2 = {}
    <3>1. IsFiniteSet(H2) BY <1>5, NodesCounted DEF H2
    <3>2. Cardinality(H2) = 0 => H2 = {} BY <3>1, FS_EmptySet
    <3> HIDE DEF h
    <3>3. h <= 1 => h2 = 0 BY <1>11
    <3> QED BY <1>10, <2>2, <3>2, <3>3
  <2>4. 0 < N /\ 0 + h2 < N
    <3> HIDE DEF x, h, N
    <3> QED BY <1>11
  <2>5. Pending(e, ms, HMsg, HAns) = H2 /\ Pending(e, ms, WMsg, WAns) = {} /\ Pending(e, ms, KMsg, KAns) = {}
        /\ e.dishonestSuccess = 0
    BY <1>2, <1>4, <1>9, <2>1 DEF H2
  <2>6. Asked("test", e, ms, p) BY <1>2, <1>10, <2>3, <2>4, <2>5 DEF Asked
  <2>7. d = StartRound(e) BY <1>1, <1>13
  <2>8. ph \in Configuring BY <2>1 DEF Configuring
  <2>9. Fits("test", {}, d, ms, a, k, p) /\ ~Announces(c, d) BY <1>2, <2>6, <2>7, <2>8, GoFits
  <2>10. "test" \in Phases BY DEF Phases
  <2> QED BY <2>9, <2>10 DEF Fitting
<1>14. CASE ~(x + 1 = N \/ c.scalabilityFirst = 1)
  <2>1. x + 1 < N /\ (x + 1) + h2 = x + h /\ h2 <= h
    <3> HIDE DEF x, h, N
    <3> QED BY <1>11, <1>14
  <2>2. ~Orderly(p) => ph = "cfgH" BY <1>8, <1>12
  <2>3. Pending(g, ms, HMsg, HAns) = H2 BY <1>4 DEF H2
  <2>4. /\ ph # "cfgH" => (x + 1) + Cardinality(H2) < N
        /\ ~Orderly(p) => (x + 1) + Cardinality(H2) <= N
    BY <1>8, <1>10, <2>1, <2>2
  <2>5. g.configureCount = x + 1 /\ g.scalabilityFirst # 1 BY <1>3, <1>14
  <2>6. /\ IF ph = "cfgW" THEN Cardinality(Pending(g, ms, WMsg, WAns)) <= 1 ELSE Pending(g, ms, WMsg, WAns) = {}
        /\ IF ph = "cfgK" THEN Cardinality(Pending(g, ms, KMsg, KAns)) + g.dishonestSuccess <= g.dishonestCount
                          ELSE Pending(g, ms, KMsg, KAns) = {} /\ g.dishonestSuccess = 0
    BY <1>3, <1>4, <1>9
  <2>7. Asked(ph, g, ms, p) BY <2>1, <2>2, <2>3, <2>4, <2>5, <2>6 DEF Asked
  <2>8. Fits(ph, S, g, ms, a, k, p) /\ ~Announces(c, g) BY <1>3, <2>7, TallyFits
  <2>9. d = g BY <1>1, <1>14
  <2> QED BY <2>8, <2>9 DEF Fitting
<1> QED BY <1>13, <1>14

\* The one node that was told to join, to crash or to misbehave.
LEMMA SingleAnswerFits ==
  ASSUME NEW ph \in Phases, NEW S \in SUBSET Node, NEW c \in ControllerState, NEW d,
         NEW ns, NEW ms \in [Node -> NodeState], NEW a \in AnalyzerState, NEW k, NEW p, NEW n \in Node,
         NEW W, W = Pending(c, ns, WMsg, WAns), n \in W, Pending(c, ms, WMsg, WAns) = W \ {n},
         Asked(ph, c, ns, p), Fits(ph, S, c, ms, a, k, p),
         NEW e \in ControllerState, Readies(c, e), Kept([c EXCEPT !.consensusNodes = e.consensusNodes], e),
         d = c \/ d = StartRound(e)
  PROVE  Fitting(d, ms, a, k, p) /\ ~Announces(c, d)
<1>1. /\ e.configureCount = c.configureCount /\ e.scalabilityFirst = c.scalabilityFirst
      /\ e.dishonestCount = c.dishonestCount /\ e.dishonestSuccess = c.dishonestSuccess
  BY DEF Kept, ControllerState
<1>2. \A M, A : Pending(e, ms, M, A) = Pending(c, ms, M, A) BY DEF Pending, Readies
<1>3. ph = "cfgW" /\ Cardinality(W) <= 1 BY DEF Asked
<1>4. W \in SUBSET Node BY PendingCounted
<1>5. W \ {n} = {}
  <2>1. Cardinality(W \ {n}) = Cardinality(W) - 1 /\ Cardinality(W) \in Nat /\ Cardinality(W) >= 1
    BY <1>4, OneLessCounted
  <2>2. Cardinality(W \ {n}) = 0 BY <1>3, <2>1
  <2>3. IsFiniteSet(W \ {n}) BY <1>4, NodesCounted
  <2> QED BY <2>2, <2>3, FS_EmptySet
<1>6. Asked(ph, c, ms, p) BY DEF Fits
<1>7. Asked("test", e, ms, p) BY <1>1, <1>2, <1>3, <1>5, <1>6 DEF Asked
<1>8. ph \in Configuring /\ "test" \in Phases BY <1>3 DEF Configuring, Phases
<1>9. CASE d = c BY <1>9, NothingAnnounced DEF Fitting
<1>10. CASE d = StartRound(e)
  <2>1. Fits("test", {}, d, ms, a, k, p) /\ ~Announces(c, d) BY <1>7, <1>8, <1>10, GoFits
  <2> QED BY <1>8, <2>1 DEF Fitting
<1> QED BY <1>9, <1>10

LEMMA ConspiratorAnswerFits ==
  ASSUME NEW ph \in Phases, NEW S \in SUBSET Node, NEW c \in ControllerState, NEW d,
         NEW ns, NEW ms \in [Node -> NodeState], NEW a \in AnalyzerState, NEW k, NEW p, NEW n \in Node,
         NEW K, K = Pending(c, ns, KMsg, KAns), n \in K, Pending(c, ms, KMsg, KAns) = K \ {n},
         Asked(ph, c, ns, p), Fits(ph, S, c, ms, a, k, p),
         NEW mode, mode.kind = "ReplicaNodeConspireForgeMessages", d = ConsensusNodeModeSuccess(c, n, mode)
  PROVE  Fitting(d, ms, a, k, p) /\ ~Announces(c, d)
<1> DEFINE e == [c EXCEPT !.dishonestSuccess = 0, !.conspireTimers = @ + 1]
           g == [c EXCEPT !.dishonestSuccess = @ + 1]
           K2 == K \ {n}
<1>1. d = IF c.dishonestSuccess + 1 = c.dishonestCount THEN StartRound(e) ELSE g
  BY DEF ConsensusNodeModeSuccess
<1>2. /\ e \in ControllerState /\ Readies(c, e) /\ e.configureCount = c.configureCount
      /\ e.scalabilityFirst = c.scalabilityFirst
      /\ e.dishonestCount = c.dishonestCount /\ e.dishonestSuccess = 0
  <2>1. e \in ControllerState BY CountsTyped
  <2>2. Readies(c, e) BY DEF ControllerState, Readies
  <2> QED BY <2>1, <2>2 DEF ControllerState
<1>3. /\ Readies(c, g) /\ g.configureCount = c.configureCount /\ g.scalabilityFirst = c.scalabilityFirst
      /\ g.dishonestCount = c.dishonestCount /\ g.dishonestSuccess = c.dishonestSuccess + 1
  BY DEF ControllerState, Readies
<1> HIDE DEF e, g
<1>4. /\ \A M, A : Pending(e, ms, M, A) = Pending(c, ms, M, A)
      /\ \A M, A : Pending(g, ms, M, A) = Pending(c, ms, M, A)
  BY <1>2, <1>3 DEF Pending, Readies
<1>5. ph = "cfgK" /\ Cardinality(K) + c.dishonestSuccess <= c.dishonestCount BY DEF Asked
<1>6. K \in SUBSET Node BY PendingCounted
<1>7. Cardinality(K2) = Cardinality(K) - 1 /\ Cardinality(K) \in Nat /\ Cardinality(K) >= 1
  BY <1>6, OneLessCounted
<1>8. c.dishonestSuccess \in Nat /\ c.dishonestCount \in Nat BY DEF ControllerState
<1>9. Asked(ph, c, ms, p) BY DEF Fits
<1>10. ph \in Configuring /\ "test" \in Phases BY <1>5 DEF Configuring, Phases
<1>11. CASE c.dishonestSuccess + 1 = c.dishonestCount
  <2>1. Cardinality(K2) = 0 BY <1>5, <1>7, <1>8, <1>11
  <2>2. IsFiniteSet(K2) BY <1>6, NodesCounted
  <2>3. K2 = {} BY <2>1, <2>2, FS_EmptySet
  <2>4. Asked("test", e, ms, p) BY <1>2, <1>4, <1>5, <1>9, <2>3 DEF Asked
  <2>5. d = StartRound(e) BY <1>1, <1>11
  <2>6. Fits("test", {}, d, ms, a, k, p) /\ ~Announces(c, d) BY <1>2, <1>10, <2>4, <2>5, GoFits
  <2> QED BY <1>10, <2>6 DEF Fitting
<1>12. CASE c.dishonestSuccess + 1 # c.dishonestCount
  <2>1. Cardinality(K2) + g.dishonestSuccess <= g.dishonestCount BY <1>3, <1>5, <1>7, <1>8
  <2>2. Pending(g, ms, KMsg, KAns) = K2 BY <1>4
  <2> HIDE DEF K2
  <2>3. Asked(ph, g, ms, p) BY <1>3, <1>4, <1>5, <1>9, <2>1, <2>2 DEF Asked
  <2>4. Fits(ph, S, g, ms, a, k, p) /\ ~Announces(c, g) BY <1>3, <2>3, TallyFits
  <2>5. d = g BY <1>1, <1>12
  <2> QED BY <2>4, <2>5 DEF Fitting
<1> QED BY <1>11, <1>12

-----------------------------------------------------------------------------
(* The next round is configured.                                            *)

Question(ph) == IF ph = "cfgH" THEN HMsg ELSE IF ph = "cfgW" THEN WMsg ELSE KMsg

\* From c to d the nodes of T are asked what phase ph waits for; the others are told
\* something neutral or nothing, and the analyzer is told items.
Asks(ph, T, c, d) ==
  /\ \A n \in Node :
       \/ d.toNode[n] = c.toNode[n]
       \/ \E m \in Neutral \cup (IF n \in T THEN Question(ph) ELSE {}) :
            d.toNode[n] = Append(c.toNode[n], m) /\ (m \in CrashMsg => c.nextMid \in CrashItem)
  /\ d.configureCount = c.configureCount /\ d.dishonestSuccess = c.dishonestSuccess
  /\ d.resetCount = c.resetCount /\ d.crashResetCount = c.crashResetCount /\ d.nextMid = c.nextMid
  /\ IF ph = "cfgH" THEN d.scalabilityFirst = 1 => c.scalabilityFirst = 1 \/ Cardinality(T) <= 1
                    ELSE d.scalabilityFirst = c.scalabilityFirst
  /\ ph = "cfgW" => Cardinality(T) <= 1
  /\ ph = "cfgK" => Cardinality(T) <= d.dishonestCount
  /\ ~Has(c.testItems, CrashItem) /\ c.nextMid \notin CrashItem /\ ~Has(c.toAnalyzer, CrashNote) =>
       ~Has(d.testItems, CrashItem) /\ ~Has(d.toAnalyzer, CrashNote)
  /\ Has(d.toAnalyzer, BeginMsg) => Has(c.toAnalyzer, BeginMsg)
  /\ Has(d.toAnalyzer, EmptyMsg) => Has(c.toAnalyzer, EmptyMsg)

LEMMA ClassesApart ==
  /\ HMsg \cap WMsg = {} /\ HMsg \cap KMsg = {} /\ WMsg \cap KMsg = {}
  /\ (HMsg \cup WMsg \cup KMsg) \cap (StartMsg \cup ResetMsg) = {}
  /\ HMsg \cap CrashMsg = {} /\ KMsg \cap CrashMsg = {}
  /\ HMsg \subseteq NodeMessage /\ WMsg \subseteq NodeMessage /\ KMsg \subseteq NodeMessage
  /\ Neutral \subseteq NodeMessage
  /\ Neutral \cap (HMsg \cup WMsg \cup KMsg \cup StartMsg \cup ResetMsg \cup CrashMsg) = {}
<1>1. "JoinConsensus" \notin Answered /\ "ProtocolStart" \notin Answered /\ "Reset" \notin Answered
  BY DEF Answered
<1>2. "HonestOther" \notin SingleKind /\ "ReplicaNodeConspireForgeMessages" \notin SingleKind
  BY DEF SingleKind, DishonestKind
<1> QED BY <1>1, <1>2 DEF HMsg, WMsg, KMsg, StartMsg, ResetMsg, CrashMsg, Neutral

\* Between two rounds nothing is asked and no node is active.
LEMMA AskedFits ==
  ASSUME NEW ph \in Configuring, NEW T \in SUBSET Node, NEW c \in ControllerState, NEW d \in ControllerState,
         NEW ns \in [Node -> NodeState], NEW a \in AnalyzerState, NEW k, NEW p,
         Fits("cfgW", {}, c, ns, a, k, p), Asks(ph, T, c, d),
         Pending(c, ns, HMsg, HAns) = {}, Pending(c, ns, WMsg, WAns) = {}, Pending(c, ns, KMsg, KAns) = {},
         c.dishonestSuccess = 0
  PROVE  Fits(ph, {}, d, ns, a, k, p)
<1> DEFINE X == Neutral \cup HMsg \cup WMsg \cup KMsg
<1>0. Question(ph) \subseteq HMsg \cup WMsg \cup KMsg /\ ph \in {"cfgH", "cfgW", "cfgK"}
  BY DEF Question, Configuring
<1>1. Told(c, d, X) BY <1>0 DEF Told, Asks
<1>2. X \in SUBSET NodeMessage /\ X \cap StartMsg = {} /\ X \cap ResetMsg = {} BY ClassesApart
<1> HIDE DEF X
<1>3. \A n \in Node : /\ Has(d.toNode[n], StartMsg) <=> Has(c.toNode[n], StartMsg)
                      /\ One(c.toNode[n], StartMsg) => One(d.toNode[n], StartMsg)
  BY <1>1, <1>2, Untold
<1>4. \A n \in Node : /\ Has(d.toNode[n], ResetMsg) <=> Has(c.toNode[n], ResetMsg)
                      /\ One(c.toNode[n], ResetMsg) => One(d.toNode[n], ResetMsg)
  BY <1>1, <1>2, Untold
<1>5. \A n \in Node : Sorted(c.toNode[n]) => Sorted(d.toNode[n]) BY <1>1, <1>2, ToldSorted
<1>6. \A n \in Node : /\ ~Has(c.toNode[n], HMsg) /\ ~Has(c.toNode[n], WMsg) /\ ~Has(c.toNode[n], KMsg)
                      /\ ~Has(ns[n].out, HAns) /\ ~Has(ns[n].out, WAns) /\ ~Has(ns[n].out, KAns)
  BY DEF Pending
<1>7. Lanes(c, ns) /\ Counted("cfgW", {}, c, ns, k) /\ Tested("cfgW", c, a) BY DEF Fits
<1>8. ASSUME NEW n \in Node
      PROVE  /\ One(d.toNode[n], HMsg) /\ One(d.toNode[n], WMsg) /\ One(d.toNode[n], KMsg)
             /\ Has(d.toNode[n], HMsg) => ph = "cfgH" /\ n \in T
             /\ Has(d.toNode[n], WMsg) => ph = "cfgW" /\ n \in T
             /\ Has(d.toNode[n], KMsg) => ph = "cfgK" /\ n \in T
             /\ Has(d.toNode[n], CrashMsg) => Has(c.toNode[n], CrashMsg) \/ c.nextMid \in CrashItem
  <2>1. PICK q : q = c.toNode[n] OBVIOUS
  <2>2. q \in Seq(NodeMessage) BY <2>1 DEF ControllerState
  <2>3. ~Has(q, HMsg) /\ ~Has(q, WMsg) /\ ~Has(q, KMsg) BY <1>6, <2>1
  <2>4. One(q, HMsg) /\ One(q, WMsg) /\ One(q, KMsg) BY <2>3 DEF One, Has
  <2>5. CASE d.toNode[n] = q BY <2>1, <2>3, <2>4, <2>5
  <2>6. CASE d.toNode[n] # q
    <3>1. PICK m \in Neutral \cup (IF n \in T THEN Question(ph) ELSE {}) :
            d.toNode[n] = Append(q, m) /\ (m \in CrashMsg => c.nextMid \in CrashItem)
      BY <2>1, <2>6 DEF Asks
    <3>2. m \in NodeMessage BY <1>0, <3>1, ClassesApart
    <3>3. \A C : /\ Has(Append(q, m), C) <=> Has(q, C) \/ m \in C
                 /\ One(q, C) /\ (m \in C => ~Has(q, C)) => One(Append(q, m), C)
      BY <2>2, <3>2, LinkSent
    <3>4. m \in HMsg \cup WMsg \cup KMsg => n \in T /\ m \in Question(ph) BY <3>1, ClassesApart
    <3>5. /\ m \in HMsg => ph = "cfgH"
          /\ m \in WMsg => ph = "cfgW"
          /\ m \in KMsg => ph = "cfgK"
      BY <1>0, <3>4, ClassesApart DEF Question
    <3>6. d.toNode[n] = Append(q, m) BY <3>1
    <3>7. /\ One(d.toNode[n], HMsg) /\ One(d.toNode[n], WMsg) /\ One(d.toNode[n], KMsg)
      BY <2>3, <2>4, <3>3, <3>6
    <3>8. /\ Has(d.toNode[n], HMsg) => m \in HMsg
          /\ Has(d.toNode[n], WMsg) => m \in WMsg
          /\ Has(d.toNode[n], KMsg) => m \in KMsg
          /\ Has(d.toNode[n], CrashMsg) => Has(q, CrashMsg) \/ m \in CrashMsg
      BY <2>3, <3>3, <3>6
    <3> QED BY <2>1, <3>1, <3>4, <3>5, <3>7, <3>8
  <2> QED BY <2>5, <2>6
<1>9. Lanes(d, ns) BY <1>3, <1>6, <1>7, <1>8 DEF Lanes, Lane
<1>10. PICK H, W, K : /\ H = Pending(d, ns, HMsg, HAns) /\ W = Pending(d, ns, WMsg, WAns)
                      /\ K = Pending(d, ns, KMsg, KAns)
  OBVIOUS
<1>11. /\ H \subseteq T /\ W \subseteq T /\ K \subseteq T
       /\ ph # "cfgH" => H = {}
       /\ ph # "cfgW" => W = {}
       /\ ph # "cfgK" => K = {}
  BY <1>6, <1>8, <1>10 DEF Pending
<1>12. /\ Cardinality(T) \in Nat /\ Cardinality(H) \in Nat /\ Cardinality(W) \in Nat /\ Cardinality(K) \in Nat
       /\ Cardinality(H) <= Cardinality(T) /\ Cardinality(W) <= Cardinality(T) /\ Cardinality(K) <= Cardinality(T)
       /\ Cardinality(T) <= Cardinality(Node) /\ Cardinality(Node) \in Nat
  <2>1. Cardinality(H) \in Nat /\ Cardinality(H) <= Cardinality(T) /\ Cardinality(T) \in Nat BY <1>11, FewerCounted
  <2>2. Cardinality(W) \in Nat /\ Cardinality(W) <= Cardinality(T) BY <1>11, FewerCounted
  <2>3. Cardinality(K) \in Nat /\ Cardinality(K) <= Cardinality(T) BY <1>11, FewerCounted
  <2>4. Cardinality(T) <= Cardinality(Node) /\ Cardinality(Node) \in Nat BY FewerCounted
  <2> QED BY <2>1, <2>2, <2>3, <2>4
<1>13. /\ c.configureCount < Cardinality(Node)
       /\ ~Orderly(p) => c.configureCount = 0 /\ c.scalabilityFirst # 1
  BY DEF Fits, Asked
<1>14. c.configureCount \in Nat /\ Cardinality({}) = 0 BY FS_EmptySet DEF ControllerState
<1>15. Asked(ph, d, ns, p)
  <2>1. /\ d.configureCount = c.configureCount /\ d.dishonestSuccess = 0
        /\ IF ph = "cfgH" THEN d.scalabilityFirst = 1 => c.scalabilityFirst = 1 \/ Cardinality(T) <= 1
                          ELSE d.scalabilityFirst = c.scalabilityFirst
        /\ ph = "cfgW" => Cardinality(T) <= 1
        /\ ph = "cfgK" => Cardinality(T) <= d.dishonestCount
    BY DEF Asks
  <2>2. ph # "cfgH" => d.configureCount + Cardinality(H) < Cardinality(Node)
    BY <1>11, <1>13, <1>14, <2>1
  <2>3. ~Orderly(p) /\ ph = "cfgH" =>
          /\ d.scalabilityFirst = 1 => Cardinality(H) <= 1
          /\ d.configureCount + Cardinality(H) <= Cardinality(Node)
    BY <1>12, <1>13, <2>1
  <2>4. /\ ph = "cfgW" => Cardinality(W) <= 1
        /\ ph = "cfgK" => Cardinality(K) + d.dishonestSuccess <= d.dishonestCount
    <3>1. d.dishonestCount \in Nat BY DEF ControllerState
    <3> QED BY <1>12, <2>1, <3>1
  <2>5. d.configureCount < Cardinality(Node) BY <1>13, <2>1
  <2> QED BY <1>10, <1>11, <1>13, <2>1, <2>2, <2>3, <2>4, <2>5 DEF Asked
<1>16. Active(d, ns) = {} /\ Active(c, ns) = {}
  <2>1. Active(c, ns) = {} BY <1>7 DEF Counted, Configuring
  <2> QED BY <1>3, <2>1 DEF Active
<1>17. Counted(ph, {}, d, ns, k)
  <2>1. d.resetCount = c.resetCount /\ d.crashResetCount = c.crashResetCount BY DEF Asks
  <2>2. ph # "test" /\ ph # "reset" /\ ph # "op" BY <1>0
  <2> QED BY <1>7, <1>16, <2>1, <2>2 DEF Counted
<1>18. Tested(ph, d, a)
  <2>1. ~Has(d.toAnalyzer, BeginMsg) /\ ~Has(d.toAnalyzer, EmptyMsg) BY <1>7 DEF Tested, Asks
  <2>2. ph # "test" BY <1>0
  <2> QED BY <1>7, <2>1, <2>2 DEF Tested
<1>19. ph # "reset" /\ ph # "test" BY <1>0
<1>20. CASE Orderly(p)
  <2>1. InOrder("cfgW", c, ns, a) BY <1>20 DEF Fits
  <2>2. ~Ended(a) BY <1>7 DEF Tested
  <2>3. InOrder(ph, d, ns, a) BY <1>4, <1>5, <1>19, <2>1, <2>2 DEF InOrder
  <2> QED BY <1>9, <1>15, <1>17, <1>18, <1>20, <2>3 DEF Fits
<1>21. CASE ~Orderly(p)
  <2>1. NoCrash("cfgW", {}, c, ns, a, k) BY <1>21 DEF Fits
  <2>2. /\ ~Has(d.testItems, CrashItem) /\ d.nextMid \notin CrashItem /\ ~Has(d.toAnalyzer, CrashNote)
        /\ c.nextMid \notin CrashItem
    BY <2>1 DEF NoCrash, Asks
  <2>3. \A n \in Node : ~Has(d.toNode[n], CrashMsg) BY <1>8, <2>1, <2>2 DEF NoCrash
  <2>4. ~(k < 4) BY <1>7 DEF Counted
  <2>5. \A n \in Node : ~Has(d.toNode[n], ResetMsg) BY <1>4, <2>1 DEF NoCrash
  <2>6. k # 0 /\ k # 1 BY <2>4
  <2>7. NoCrash(ph, {}, d, ns, a, k) BY <1>4, <1>19, <2>1, <2>2, <2>3, <2>5, <2>6 DEF NoCrash
  <2> QED BY <1>9, <1>15, <1>17, <1>18, <1>21, <2>7 DEF Fits
<1> QED BY <1>20, <1>21

\* What next_test asks.
Alike(c, d) == Kept(c, d) /\ d.toNode = c.toNode /\ d.toAnalyzer = c.toAnalyzer

LEMMA AsksNothing ==
  ASSUME NEW c \in ControllerState, NEW d, Alike(c, d)
  PROVE  Asks("cfgH", {}, c, d)
BY DEF Asks, Kept, Alike

Sent(c, d, S, m) ==
  /\ Kept(c, d) /\ d.toAnalyzer = c.toAnalyzer
  /\ \A n \in Node : d.toNode[n] = IF n \in S THEN Append(c.toNode[n], m) ELSE c.toNode[n]

LEMMA SendNodesSent ==
  ASSUME NEW c \in ControllerState, NEW S, NEW m
  PROVE  Sent(c, SendNodes(c, S, m), S, m)
<1>1. PICK d : d = SendNodes(c, S, m) OBVIOUS
<1>2. /\ Kept(c, d) /\ d.toAnalyzer = c.toAnalyzer
      /\ \A n \in Node : d.toNode[n] = IF n \in S THEN Append(c.toNode[n], m) ELSE c.toNode[n]
      /\ Told(c, d, {m})
  BY <1>1, SendNodesEffect
<1>3. Sent(c, d, S, m) BY <1>2 DEF Sent
<1> QED BY <1>1, <1>3

LEMMA AsksOne ==
  ASSUME NEW c \in ControllerState, NEW e \in ControllerState, Alike(c, e), NEW m \in WMsg, m \in CrashMsg => c.nextMid \in CrashItem,
         NEW X \in SUBSET Node, Cardinality(X) <= 1, NEW d, d = SendNodes(e, X, m)
  PROVE  Asks("cfgW", X, c, d)
<1>1. /\ Kept(e, d) /\ d.toAnalyzer = e.toAnalyzer
      /\ \A n \in Node : d.toNode[n] = IF n \in X THEN Append(e.toNode[n], m) ELSE e.toNode[n]
  <2>1. Sent(e, d, X, m) BY SendNodesSent
  <2> QED BY <2>1 DEF Sent
<1>2. m \in Question("cfgW") BY DEF Question
<1>3. \A n \in Node :
       \/ d.toNode[n] = c.toNode[n]
       \/ \E x \in Neutral \cup (IF n \in X THEN Question("cfgW") ELSE {}) :
            d.toNode[n] = Append(c.toNode[n], x) /\ (x \in CrashMsg => c.nextMid \in CrashItem)
  BY <1>1, <1>2 DEF Alike
<1>4. /\ d.configureCount = c.configureCount /\ d.dishonestSuccess = c.dishonestSuccess
      /\ d.resetCount = c.resetCount /\ d.crashResetCount = c.crashResetCount /\ d.nextMid = c.nextMid
      /\ d.scalabilityFirst = c.scalabilityFirst /\ d.testItems = c.testItems
      /\ d.toAnalyzer = c.toAnalyzer
  BY <1>1 DEF Alike, Kept
<1> QED BY <1>3, <1>4 DEF Asks

\* ConfigureAnalyzer tells the analyzer the next item, if there is one.
LEMMA ConfigureAnalyzerEffect ==
  ASSUME NEW c \in ControllerState, NEW d, d = ConfigureAnalyzer(c)
  PROVE  /\ Kept([c EXCEPT !.testItems = d.testItems, !.nextItem = d.nextItem], d) /\ d.toNode = c.toNode
         /\ IF c.testItems = <<>> THEN d.testItems = c.testItems /\ d.nextItem = NoItem /\ d.toAnalyzer = c.toAnalyzer
            ELSE /\ d.testItems = Tail(c.testItems) /\ d.nextItem = Head(c.testItems)
                 /\ d.toAnalyzer = Append(c.toAnalyzer, [type |-> "TestItem", item |-> Head(c.testItems)])
<1>1. CASE c.testItems = <<>>
  <2>1. d = [c EXCEPT !.nextItem = NoItem, !.finished = TRUE] BY <1>1 DEF ConfigureAnalyzer
  <2> QED BY <1>1, <2>1 DEF Kept, ControllerState
<1>2. CASE c.testItems # <<>>
  <2> DEFINE item == Head(c.testItems)
             e == [c EXCEPT !.testItems = Tail(@),
                     !.nextItem = item,
                     !.optionalCrash = IF item.kind = "Crash" THEN Node ELSE @,
                     !.optionalScalability = IF item.kind = "Scalability" THEN Node ELSE @]
  <2>1. c.testItems \in Seq(TestItem) BY DEF ControllerState
  <2>2. item \in TestItem /\ Tail(c.testItems) \in Seq(TestItem) BY <1>2, <2>1
  <2>3. e \in ControllerState BY <2>2 DEF ControllerState
  <2>4. d = SendAnalyzer(e, "TestItem", item) BY <1>2 DEF ConfigureAnalyzer
  <2>5. /\ e.testItems = Tail(c.testItems) /\ e.nextItem = item /\ e.toNode = c.toNode /\ e.toAnalyzer = c.toAnalyzer
        /\ e.consensusNodes = c.consensusNodes
        /\ e.configureCount = c.configureCount /\ e.scalabilityFirst = c.scalabilityFirst
        /\ e.resetCount = c.resetCount /\ e.crashResetCount = c.crashResetCount
        /\ e.dishonestCount = c.dishonestCount /\ e.dishonestSuccess = c.dishonestSuccess
        /\ e.nextMid = c.nextMid
    BY DEF ControllerState
  <2> HIDE DEF e
  <2>6. Kept(e, d) /\ d.toNode = e.toNode
        /\ d.toAnalyzer = Append(e.toAnalyzer, [type |-> "TestItem", item |-> item])
    BY <2>3, <2>4, SendAnalyzerEffect
  <2>7. Kept([c EXCEPT !.testItems = d.testItems, !.nextItem = d.nextItem], d)
    BY <2>5, <2>6 DEF Kept, ControllerState
  <2> QED BY <1>2, <2>5, <2>6, <2>7 DEF Kept
<1> QED BY <1>1, <1>2

\* ConfigureConsensusNode tells every node its mode, or one of them (T) when a
\* scalability test begins.
Configures(c, d, honest) ==
  \E T \in SUBSET Node :
    /\ \A n \in Node :
         \/ d.toNode[n] = c.toNode[n]
         \/ d.toNode[n] = Append(c.toNode[n], Say("ConfigureConsensusNode", SimpleMode(honest))) /\ n \in T
         \/ d.toNode[n] = Append(c.toNode[n], Say("ConsensusNodeMode", SimpleMode("Uninitialized")))
    /\ Kept([c EXCEPT !.consensusNodes = {}, !.scalabilityFirst = d.scalabilityFirst], d)
    /\ d.toAnalyzer = c.toAnalyzer
    /\ \/ d.scalabilityFirst = c.scalabilityFirst
       \/ c.nextItem.kind = "Scalability" /\ Cardinality(T) <= 1

LEMMA ConfigureConsensusNodeEffect ==
  ASSUME NEW c \in ControllerState, NEW honest \in {"HonestFirst", "HonestOther"}, NEW pick
  PROVE  Configures(c, ConfigureConsensusNode(c, honest, pick), honest)
<1>0. PICK d : d = ConfigureConsensusNode(c, honest, pick) OBVIOUS
<1> SUFFICES Configures(c, d, honest) BY <1>0
<1> DEFINE m == Say("ConfigureConsensusNode", SimpleMode(honest))
           u == Say("ConsensusNodeMode", SimpleMode("Uninitialized"))
           first == Select(c.optionalScalability, pick)
           rest == c.optionalScalability \ {first}
           s == [c EXCEPT !.consensusNodes = {}, !.scalabilityFirst = c.nextItem.at, !.optionalScalability = rest]
           e == [c EXCEPT !.consensusNodes = {}]
           T == IF c.nextItem.kind = "Scalability" THEN {first} \cap Node ELSE Node
<1>1. m \in NodeMessage /\ u \in NodeMessage BY ModesTyped
<1>2. c.nextItem.at \in Nat
  <2>1. c.nextItem \in TestItem \cup {NoItem} BY DEF ControllerState
  <2>2. \A item \in TestItem : item.at \in Nat BY DEF TestItem
  <2>3. NoItem.at = 0 BY DEF NoItem, Item
  <2> HIDE DEF m, u, first, rest, s, e, T
  <2> QED BY <2>1, <2>2, <2>3
<1>3. rest \in SUBSET Node BY DEF ControllerState
<1>4. s \in ControllerState /\ e \in ControllerState
  <2> HIDE DEF first, rest
  <2> QED BY <1>2, <1>3 DEF ControllerState
<1>5. d = IF c.nextItem.kind = "Scalability" THEN SendNodes(SendNodes(s, {first}, m), rest, u)
          ELSE SendNodes(e, Node, m)
  BY <1>0 DEF ConfigureConsensusNode, SetConsensusNodeMode
<1>6. first \notin rest OBVIOUS
<1>7. /\ s.toNode = c.toNode /\ s.toAnalyzer = c.toAnalyzer
      /\ Kept([c EXCEPT !.consensusNodes = {}, !.scalabilityFirst = s.scalabilityFirst], s)
  BY DEF ControllerState, Kept
<1>8. /\ e.toNode = c.toNode /\ e.toAnalyzer = c.toAnalyzer /\ e.scalabilityFirst = c.scalabilityFirst
      /\ Kept([c EXCEPT !.consensusNodes = {}, !.scalabilityFirst = e.scalabilityFirst], e)
  BY DEF ControllerState, Kept
<1> HIDE DEF s, e, m, u, first, rest
<1>9. CASE c.nextItem.kind = "Scalability"
  <2>0. PICK X, Y : X = {first} /\ Y = rest OBVIOUS
  <2>1. PICK g : g = SendNodes(s, X, m) OBVIOUS
  <2>2. g \in ControllerState BY <1>1, <1>4, <2>1, SendNodesTyped
  <2>3. d = SendNodes(g, Y, u) BY <1>5, <1>9, <2>0, <2>1
  <2>4. /\ Kept(s, g) /\ g.toAnalyzer = s.toAnalyzer
        /\ \A n \in Node : g.toNode[n] = IF n \in X THEN Append(s.toNode[n], m) ELSE s.toNode[n]
    <3>1. Sent(s, g, X, m) BY <1>4, <2>1, SendNodesSent
    <3> QED BY <3>1 DEF Sent
  <2>5. /\ Kept(g, d) /\ d.toAnalyzer = g.toAnalyzer
        /\ \A n \in Node : d.toNode[n] = IF n \in Y THEN Append(g.toNode[n], u) ELSE g.toNode[n]
    <3>1. Sent(g, d, Y, u) BY <2>2, <2>3, SendNodesSent
    <3> QED BY <3>1 DEF Sent
  <2>6. ASSUME NEW n \in Node
        PROVE  \/ d.toNode[n] = c.toNode[n]
               \/ d.toNode[n] = Append(c.toNode[n], m) /\ n \in T
               \/ d.toNode[n] = Append(c.toNode[n], u)
    <3>1. CASE n = first BY <1>6, <1>7, <1>9, <2>0, <2>4, <2>5, <3>1
    <3>2. CASE n # first BY <1>7, <2>0, <2>4, <2>5, <3>2
    <3> QED BY <3>1, <3>2
  <2>7. Kept([c EXCEPT !.consensusNodes = {}, !.scalabilityFirst = d.scalabilityFirst], d)
    BY <1>7, <2>4, <2>5 DEF Kept, ControllerState
  <2>8. Cardinality({first}) = 1 /\ IsFiniteSet({first}) BY FS_Singleton
  <2>9. Cardinality({first} \cap Node) <= 1 BY <2>8, FS_Subset
  <2>10. T \in SUBSET Node /\ Cardinality(T) <= 1 BY <1>9, <2>9
  <2>11. d.toAnalyzer = c.toAnalyzer BY <1>7, <2>4, <2>5
  <2> HIDE DEF T
  <2> QED BY <1>9, <2>6, <2>7, <2>10, <2>11 DEF m, u, Configures
<1>10. CASE c.nextItem.kind # "Scalability"
  <2>0. PICK X : X = Node OBVIOUS
  <2>1. d = SendNodes(e, X, m) BY <1>5, <1>10, <2>0
  <2>2. /\ Kept(e, d) /\ d.toAnalyzer = e.toAnalyzer
        /\ \A n \in Node : d.toNode[n] = IF n \in X THEN Append(e.toNode[n], m) ELSE e.toNode[n]
    <3>1. Sent(e, d, X, m) BY <1>4, <2>1, SendNodesSent
    <3> QED BY <3>1 DEF Sent
  <2>3. Kept([c EXCEPT !.consensusNodes = {}, !.scalabilityFirst = d.scalabilityFirst], d)
    BY <1>8, <2>2 DEF Kept, ControllerState
  <2>4. T = Node BY <1>10
  <2>5. d.scalabilityFirst = c.scalabilityFirst BY <1>8, <2>2 DEF Kept
  <2>6. \A n \in Node : d.toNode[n] = Append(c.toNode[n], m) BY <1>8, <2>0, <2>2
  <2> HIDE DEF T
  <2> QED BY <1>8, <2>2, <2>3, <2>4, <2>5, <2>6 DEF m, Configures
<1> QED BY <1>9, <1>10

\* Items that are left to test are ones that were.
LEMMA ItemsLeft ==
  ASSUME NEW q \in Seq(TestItem), q # <<>>, NEW C
  PROVE  /\ Head(q) \in C => Has(q, C)
         /\ Has(Tail(q), C) => Has(q, C)
<1>1. Len(q) \in Nat /\ Len(q) >= 1 BY EmptySeq
<1>2. Head(q) = q[1] /\ 1 \in 1..Len(q) BY <1>1
<1>3. Len(Tail(q)) = Len(q) - 1 /\ \A i \in 1..(Len(q) - 1) : Tail(q)[i] = q[i + 1] /\ i + 1 \in 1..Len(q)
  BY <1>1
<1>4. Head(q) \in C => Has(q, C) BY <1>2 DEF Has
<1>5. Has(Tail(q), C) => Has(q, C) BY <1>3 DEF Has
<1> QED BY <1>4, <1>5

\* The analyzer is told an item: what that adds to its link.
LEMMA ItemSent ==
  ASSUME NEW q \in Seq(AnalyzerMessage), NEW item \in TestItem, NEW r,
         r = Append(q, [type |-> "TestItem", item |-> item])
  PROVE  /\ Has(r, CrashNote) => Has(q, CrashNote) \/ item \in CrashItem
         /\ Has(r, BeginMsg) => Has(q, BeginMsg)
         /\ Has(r, EmptyMsg) => Has(q, EmptyMsg)
<1>1. PICK b : b = [type |-> "TestItem", item |-> item] OBVIOUS
<1>2. b \in AnalyzerMessage /\ b.type = "TestItem" /\ b.item = item BY <1>1 DEF AnalyzerMessage
<1>3. item # NoItem BY DEF TestItem, NoItem, Item, ItemKind
<1>4. b \notin BeginMsg /\ b \notin EmptyMsg /\ (b \in CrashNote => item \in CrashItem)
  BY <1>2, <1>3 DEF BeginMsg, EmptyMsg, CrashNote
<1>5. \A C : Has(Append(q, b), C) <=> Has(q, C) \/ b \in C BY <1>2, LinkSent
<1> QED BY <1>1, <1>4, <1>5

LEMMA NoteSent ==
  ASSUME NEW q \in Seq(AnalyzerMessage), NEW type \in {"CrashNode", "DishonestNode"}, NEW r,
         r = Append(q, [type |-> type, item |-> NoItem])
  PROVE  /\ Has(r, CrashNote) => Has(q, CrashNote)
         /\ Has(r, BeginMsg) => Has(q, BeginMsg)
         /\ Has(r, EmptyMsg) => Has(q, EmptyMsg)
<1>1. PICK b : b = [type |-> type, item |-> NoItem] OBVIOUS
<1>2. b \in AnalyzerMessage /\ b.type = type /\ b.item = NoItem BY <1>1 DEF AnalyzerMessage
<1>3. NoItem \notin CrashItem BY DEF CrashItem, NoItem, Item
<1>4. b \notin BeginMsg /\ b \notin EmptyMsg /\ b \notin CrashNote
  BY <1>2, <1>3 DEF BeginMsg, EmptyMsg, CrashNote
<1>5. \A C : Has(Append(q, b), C) <=> Has(q, C) \/ b \in C BY <1>2, LinkSent
<1> QED BY <1>1, <1>4, <1>5

LEMMA MidAsks ==
  ASSUME NEW ph, NEW T, NEW c \in ControllerState, NEW d \in ControllerState, Asks(ph, T, c, d),
         c.nextMid \in TestItem, NEW extra \in {NoNode, "CrashNode", "DishonestNode"},
         NEW e, e = NextMidTest(d, extra)
  PROVE  Asks(ph, T, c, e)
<1>1. PICK g : g = SendAnalyzer(d, "TestItem", d.nextMid) OBVIOUS
<1>2. d.nextMid = c.nextMid /\ d.nextMid \in TestItem BY DEF Asks
<1>3. g \in ControllerState BY <1>1, <1>2, SendAnalyzerTyped
<1>4. Kept(d, g) /\ g.toNode = d.toNode
      /\ g.toAnalyzer = Append(d.toAnalyzer, [type |-> "TestItem", item |-> d.nextMid])
  BY <1>1, SendAnalyzerEffect
<1>5. PICK q : q = d.toAnalyzer OBVIOUS
<1>6. q \in Seq(AnalyzerMessage) BY <1>5 DEF ControllerState
<1>7. /\ Has(g.toAnalyzer, CrashNote) => Has(q, CrashNote) \/ c.nextMid \in CrashItem
      /\ Has(g.toAnalyzer, BeginMsg) => Has(q, BeginMsg)
      /\ Has(g.toAnalyzer, EmptyMsg) => Has(q, EmptyMsg)
  BY <1>2, <1>4, <1>5, <1>6, ItemSent
<1>8. /\ Kept(d, e) /\ e.toNode = d.toNode
      /\ Has(e.toAnalyzer, CrashNote) => Has(g.toAnalyzer, CrashNote)
      /\ Has(e.toAnalyzer, BeginMsg) => Has(g.toAnalyzer, BeginMsg)
      /\ Has(e.toAnalyzer, EmptyMsg) => Has(g.toAnalyzer, EmptyMsg)
  <2>1. CASE extra = NoNode
    <3>1. e = g BY <1>1, <2>1 DEF NextMidTest
    <3> QED BY <1>4, <3>1
  <2>2. CASE extra # NoNode
    <3>1. e = SendAnalyzer(g, extra, NoItem) BY <1>1, <2>2 DEF NextMidTest
    <3>2. Kept(g, e) /\ e.toNode = g.toNode
          /\ e.toAnalyzer = Append(g.toAnalyzer, [type |-> extra, item |-> NoItem])
      BY <1>3, <3>1, SendAnalyzerEffect
    <3>3. PICK r : r = g.toAnalyzer OBVIOUS
    <3>4. r \in Seq(AnalyzerMessage) BY <1>3, <3>3 DEF ControllerState
    <3>5. extra \in {"CrashNode", "DishonestNode"} BY <2>2
    <3>6. /\ Has(e.toAnalyzer, CrashNote) => Has(r, CrashNote)
          /\ Has(e.toAnalyzer, BeginMsg) => Has(r, BeginMsg)
          /\ Has(e.toAnalyzer, EmptyMsg) => Has(r, EmptyMsg)
      BY <3>2, <3>3, <3>4, <3>5, NoteSent
    <3>7. Kept(d, e) /\ e.toNode = d.toNode BY <1>4, <3>2 DEF Kept
    <3> QED BY <3>3, <3>6, <3>7
  <2> QED BY <2>1, <2>2
<1>9. /\ e.configureCount = d.configureCount /\ e.dishonestSuccess = d.dishonestSuccess
      /\ e.resetCount = d.resetCount /\ e.crashResetCount = d.crashResetCount /\ e.nextMid = d.nextMid
      /\ e.scalabilityFirst = d.scalabilityFirst /\ e.testItems = d.testItems
      /\ e.dishonestCount = d.dishonestCount
  BY <1>8 DEF Kept
<1> QED BY <1>5, <1>7, <1>8, <1>9 DEF Asks

LEMMA ConfigureAsks ==
  ASSUME NEW c \in ControllerState, NEW pick, NEW d, d = ConfigureAnalyzerAndConsensusNode(c, pick)
  PROVE  \E T \in SUBSET Node : Asks("cfgH", T, c, d)
<1>1. PICK e : e = ConfigureAnalyzer(c) OBVIOUS
<1>2. e \in ControllerState BY <1>1, ConfigureAnalyzerTyped
<1>3. /\ Kept([c EXCEPT !.testItems = e.testItems, !.nextItem = e.nextItem], e) /\ e.toNode = c.toNode
      /\ IF c.testItems = <<>> THEN e.testItems = c.testItems /\ e.nextItem = NoItem /\ e.toAnalyzer = c.toAnalyzer
         ELSE /\ e.testItems = Tail(c.testItems) /\ e.nextItem = Head(c.testItems)
              /\ e.toAnalyzer = Append(c.toAnalyzer, [type |-> "TestItem", item |-> Head(c.testItems)])
  BY <1>1, ConfigureAnalyzerEffect
<1>4. /\ e.configureCount = c.configureCount /\ e.dishonestSuccess = c.dishonestSuccess
      /\ e.resetCount = c.resetCount /\ e.crashResetCount = c.crashResetCount /\ e.nextMid = c.nextMid
      /\ e.scalabilityFirst = c.scalabilityFirst
  BY <1>3 DEF Kept, ControllerState
<1>5. CASE c.testItems = <<>>
  <2>1. d = e BY <1>1, <1>5 DEF ConfigureAnalyzerAndConsensusNode
  <2>2. e.testItems = c.testItems /\ e.toNode = c.toNode /\ e.toAnalyzer = c.toAnalyzer BY <1>3, <1>5
  <2>3. Asks("cfgH", {}, c, d) BY <1>4, <2>1, <2>2 DEF Asks
  <2> QED BY <2>3
<1>6. CASE c.testItems # <<>>
  <2>1. d = ConfigureConsensusNode(e, "HonestOther", pick) BY <1>1, <1>6 DEF ConfigureAnalyzerAndConsensusNode
  <2> DEFINE m == Say("ConfigureConsensusNode", SimpleMode("HonestOther"))
             u == Say("ConsensusNodeMode", SimpleMode("Uninitialized"))
  <2>2. PICK T \in SUBSET Node :
           /\ \A n \in Node :
                \/ d.toNode[n] = e.toNode[n]
                \/ d.toNode[n] = Append(e.toNode[n], m) /\ n \in T
                \/ d.toNode[n] = Append(e.toNode[n], u)
           /\ Kept([e EXCEPT !.consensusNodes = {}, !.scalabilityFirst = d.scalabilityFirst], d)
           /\ d.toAnalyzer = e.toAnalyzer
           /\ \/ d.scalabilityFirst = e.scalabilityFirst
              \/ e.nextItem.kind = "Scalability" /\ Cardinality(T) <= 1
    <3>1. Configures(e, d, "HonestOther") BY <1>2, <2>1, ConfigureConsensusNodeEffect
    <3> QED BY <3>1 DEF Configures
  <2>3. m \in NodeMessage /\ u \in NodeMessage BY ModesTyped
  <2>4. /\ m.type = "ConfigureConsensusNode" /\ m.mode.kind = "HonestOther"
        /\ u.type = "ConsensusNodeMode" /\ u.mode.kind = "Uninitialized"
    BY DEF Say, SimpleMode
  <2> HIDE DEF m, u
  <2>5. m \in Question("cfgH") /\ m \notin CrashMsg
    BY <2>3, <2>4 DEF Question, HMsg, Answered, CrashMsg
  <2>6. u \in Neutral /\ u \notin CrashMsg
    <3>1. "Uninitialized" \notin SingleKind BY DEF SingleKind, DishonestKind
    <3> QED BY <2>3, <2>4, <3>1 DEF Neutral, HMsg, WMsg, KMsg, StartMsg, ResetMsg, CrashMsg
  <2>7. \A n \in Node :
         \/ d.toNode[n] = c.toNode[n]
         \/ \E x \in Neutral \cup (IF n \in T THEN Question("cfgH") ELSE {}) :
              d.toNode[n] = Append(c.toNode[n], x) /\ (x \in CrashMsg => c.nextMid \in CrashItem)
    BY <1>3, <2>2, <2>5, <2>6
  <2>8. /\ d.configureCount = e.configureCount /\ d.dishonestSuccess = e.dishonestSuccess
        /\ d.resetCount = e.resetCount /\ d.crashResetCount = e.crashResetCount /\ d.nextMid = e.nextMid
        /\ d.testItems = e.testItems
    BY <1>2, <2>2 DEF Kept, ControllerState
  <2>9. PICK q, r, item : q = c.testItems /\ r = c.toAnalyzer /\ item = Head(c.testItems) OBVIOUS
  <2>10. q \in Seq(TestItem) /\ q # <<>> /\ r \in Seq(AnalyzerMessage) BY <1>6, <2>9 DEF ControllerState
  <2>11. item \in TestItem /\ item = Head(q) BY <2>9, <2>10
  <2>12. (item \in CrashItem => Has(q, CrashItem)) /\ (Has(Tail(q), CrashItem) => Has(q, CrashItem))
    BY <2>10, <2>11, ItemsLeft
  <2>13. d.toAnalyzer = Append(r, [type |-> "TestItem", item |-> item]) /\ d.testItems = Tail(q)
    BY <1>3, <1>6, <2>2, <2>8, <2>9
  <2>14. /\ Has(d.toAnalyzer, CrashNote) => Has(r, CrashNote) \/ item \in CrashItem
         /\ Has(d.toAnalyzer, BeginMsg) => Has(r, BeginMsg)
         /\ Has(d.toAnalyzer, EmptyMsg) => Has(r, EmptyMsg)
    BY <2>10, <2>11, <2>13, ItemSent
  <2>15. Asks("cfgH", T, c, d)
    BY <1>4, <2>2, <2>7, <2>8, <2>9, <2>12, <2>13, <2>14 DEF Asks
  <2> QED BY <2>15
<1> QED BY <1>5, <1>6

LEMMA JoinAsks ==
  ASSUME NEW c \in ControllerState, NEW pick, c.optionalScalability # {}
  PROVE  \E T \in SUBSET Node : Asks("cfgW", T, c, JoinNode(c, pick))
<1> DEFINE n == Select(c.optionalScalability, pick)
           e == [c EXCEPT !.feedbackScalability = n, !.optionalScalability = @ \ {n}]
           m == Tell("JoinConsensus")
<1>1. c.optionalScalability \in SUBSET Node BY DEF ControllerState
<1>2. n \in Node /\ c.optionalScalability \ {n} \in SUBSET Node BY <1>1, SelectTyped
<1>3. JoinNode(c, pick) = SendNodes(e, {n}, m) BY DEF JoinNode
<1> HIDE DEF n
<1>4. e \in ControllerState /\ Alike(c, e) BY <1>2 DEF ControllerState, Alike, Kept
<1>5. m \in WMsg /\ m \notin CrashMsg
  <2>1. m \in NodeMessage /\ m.type = "JoinConsensus" /\ m.mode.kind = "Uninitialized"
    BY ModesTyped DEF Tell, Say, SimpleMode
  <2> QED BY <2>1 DEF WMsg, CrashMsg
<1> HIDE DEF e, m
<1>6. PICK X : X = {n} OBVIOUS
<1>7. X \in SUBSET Node /\ Cardinality(X) <= 1
  <2>1. Cardinality({n}) = 1 BY FS_Singleton
  <2> QED BY <1>2, <1>6, <2>1
<1>8. Asks("cfgW", X, c, JoinNode(c, pick)) BY <1>3, <1>4, <1>5, <1>6, <1>7, AsksOne
<1> QED BY <1>7, <1>8

LEMMA CrashAsks ==
  ASSUME NEW c \in ControllerState, NEW pick, c.optionalCrash # {}, c.nextMid \in CrashItem
  PROVE  \E T \in SUBSET Node : Asks("cfgW", T, c, CrashANode(c, pick))
<1> DEFINE n == Select(c.optionalCrash, pick)
           e == [c EXCEPT !.feedbackCrash = n, !.optionalCrash = @ \ {n}]
           m == Say("ConsensusNodeMode", SimpleMode("Crash"))
<1>1. c.optionalCrash \in SUBSET Node BY DEF ControllerState
<1>2. n \in Node /\ c.optionalCrash \ {n} \in SUBSET Node BY <1>1, SelectTyped
<1>3. CrashANode(c, pick) = SendNodes(e, {n}, m) BY DEF CrashANode, SetConsensusNodeMode
<1> HIDE DEF n
<1>4. e \in ControllerState /\ Alike(c, e) BY <1>2 DEF ControllerState, Alike, Kept
<1>5. m \in WMsg
  <2>1. m \in NodeMessage BY ModesTyped
  <2>2. m.type = "ConsensusNodeMode" /\ m.mode.kind = "Crash" BY DEF Say, SimpleMode
  <2> HIDE DEF m
  <2>3. "Crash" \in SingleKind BY DEF SingleKind
  <2> QED BY <2>1, <2>2, <2>3 DEF WMsg, Answered
<1> HIDE DEF e, m
<1>6. PICK X : X = {n} OBVIOUS
<1>7. X \in SUBSET Node /\ Cardinality(X) <= 1
  <2>1. Cardinality({n}) = 1 BY FS_Singleton
  <2> QED BY <1>2, <1>6, <2>1
<1>8. Asks("cfgW", X, c, CrashANode(c, pick)) BY <1>3, <1>4, <1>5, <1>6, <1>7, AsksOne
<1> QED BY <1>7, <1>8

LEMMA CorruptAsks ==
  ASSUME NEW c \in ControllerState, c.optionalDishonest # <<>>,
         c.nextMid.kind \in DishonestKind \ {"ReplicaNodeConspireForgeMessages"}
  PROVE  \E T \in SUBSET Node : Asks("cfgW", T, c, CorruptANode(c))
<1> DEFINE n == c.optionalDishonest[Len(c.optionalDishonest)]
           e == [c EXCEPT !.feedbackDishonest = n]
           m == Say("ConsensusNodeMode", DishonestMode(c.nextMid))
<1>1. c.optionalDishonest \in Seq(Node) BY DEF ControllerState
<1>2. Len(c.optionalDishonest) \in 1..Len(c.optionalDishonest) BY <1>1, EmptySeq
<1>3. n \in Node BY <1>1, <1>2
<1>4. CorruptANode(c) = SendNodes(e, {n}, m) BY DEF CorruptANode, SetConsensusNodeMode
<1> HIDE DEF n
<1>5. e \in ControllerState /\ Alike(c, e) BY <1>3 DEF ControllerState, Alike, Kept
<1>6. m \in WMsg /\ m \notin CrashMsg
  <2>1. DishonestMode(c.nextMid) \in Mode BY MidIsItem
  <2>2. m \in NodeMessage BY <2>1, ModesTyped
  <2>3. m.type = "ConsensusNodeMode" /\ m.mode.kind = c.nextMid.kind BY DEF Say, DishonestMode
  <2> HIDE DEF m
  <2>4. c.nextMid.kind \in SingleKind /\ c.nextMid.kind # "Crash" BY DEF SingleKind, DishonestKind
  <2> QED BY <2>2, <2>3, <2>4 DEF WMsg, Answered, CrashMsg
<1> HIDE DEF e, m
<1>7. PICK X : X = {n} OBVIOUS
<1>8. X \in SUBSET Node /\ Cardinality(X) <= 1
  <2>1. Cardinality({n}) = 1 BY FS_Singleton
  <2> QED BY <1>3, <1>7, <2>1
<1>9. Asks("cfgW", X, c, CorruptANode(c)) BY <1>4, <1>5, <1>6, <1>7, <1>8, AsksOne
<1> QED BY <1>8, <1>9

\* The conspirators, or nobody when there are too few.
LEMMA ConspireAsks ==
  ASSUME NEW c \in ControllerState, c.nextMid.kind = "ReplicaNodeConspireForgeMessages", NEW pick
  PROVE  \E ph \in {"cfgH", "cfgK"}, T \in SUBSET Node : Asks(ph, T, c, CorruptNodes(c, pick))
<1>0. c.nextMid.kind \in DishonestKind BY DEF DishonestKind
<1>1. CASE c.nextMid.count > Len(c.optionalDishonest)
  <2>1. PICK d : d = ConfigureAnalyzerAndConsensusNode(c, pick) OBVIOUS
  <2>2. d \in ControllerState BY <2>1, ConfigureTyped
  <2>3. PICK T \in SUBSET Node : Asks("cfgH", T, c, d) BY <2>1, ConfigureAsks
  <2>4. PICK e : e = [d EXCEPT !.dishonestCount = 0] OBVIOUS
  <2>5. /\ e.configureCount = d.configureCount /\ e.dishonestSuccess = d.dishonestSuccess
        /\ e.resetCount = d.resetCount /\ e.crashResetCount = d.crashResetCount /\ e.nextMid = d.nextMid
        /\ e.scalabilityFirst = d.scalabilityFirst /\ e.testItems = d.testItems
        /\ e.toNode = d.toNode /\ e.toAnalyzer = d.toAnalyzer
    BY <2>2, <2>4 DEF ControllerState
  <2>6. Asks("cfgH", T, c, e) BY <2>3, <2>5 DEF Asks
  <2>7. CorruptNodes(c, pick) = e BY <1>1, <2>1, <2>4 DEF CorruptNodes
  <2> QED BY <2>6, <2>7
<1>2. CASE ~(c.nextMid.count > Len(c.optionalDishonest))
  <2> DEFINE S == {c.optionalDishonest[i] : i \in 1..c.nextMid.count}
             e == [c EXCEPT !.dishonestCount = Cardinality(S)]
             m == Say("ConsensusNodeMode", DishonestMode(c.nextMid))
  <2>1. c.optionalDishonest \in Seq(Node) /\ Len(c.optionalDishonest) \in Nat BY DEF ControllerState
  <2>2. c.nextMid.count \in Nat BY <1>0, MidIsItem DEF TestItem
  <2>3. \A i \in 1..c.nextMid.count : i \in 1..Len(c.optionalDishonest) BY <1>2, <2>1, <2>2
  <2>4. S \in SUBSET Node BY <2>1, <2>3
  <2>5. CorruptNodes(c, pick) = SendNodes(e, S, m) BY <1>2 DEF CorruptNodes, SetConsensusNodeMode
  <2> HIDE DEF S
  <2>6. Cardinality(S) \in Nat BY <2>4, NodesCounted
  <2>7. /\ e \in ControllerState /\ e.dishonestCount = Cardinality(S)
        /\ e.configureCount = c.configureCount /\ e.dishonestSuccess = c.dishonestSuccess
        /\ e.resetCount = c.resetCount /\ e.crashResetCount = c.crashResetCount /\ e.nextMid = c.nextMid
        /\ e.scalabilityFirst = c.scalabilityFirst /\ e.testItems = c.testItems
        /\ e.toNode = c.toNode /\ e.toAnalyzer = c.toAnalyzer
    BY <2>6 DEF ControllerState
  <2>8. m \in KMsg
    <3>1. DishonestMode(c.nextMid) \in Mode BY <1>0, MidIsItem
    <3>2. m \in NodeMessage BY <3>1, ModesTyped
    <3>3. m.type = "ConsensusNodeMode" /\ m.mode.kind = c.nextMid.kind BY DEF Say, DishonestMode
    <3> HIDE DEF m
    <3> QED BY <3>2, <3>3 DEF KMsg, Answered
  <2> HIDE DEF e, m
  <2>9. PICK d : d = SendNodes(e, S, m) OBVIOUS
  <2>10. Sent(e, d, S, m) BY <2>7, <2>9, SendNodesSent
  <2>11. /\ Kept(e, d) /\ d.toAnalyzer = e.toAnalyzer
         /\ \A n \in Node : d.toNode[n] = IF n \in S THEN Append(e.toNode[n], m) ELSE e.toNode[n]
    BY <2>10 DEF Sent
  <2>12. m \in Question("cfgK") /\ m \notin CrashMsg BY <2>8, ClassesApart DEF Question
  <2>13. \A n \in Node :
         \/ d.toNode[n] = c.toNode[n]
         \/ \E x \in Neutral \cup (IF n \in S THEN Question("cfgK") ELSE {}) :
              d.toNode[n] = Append(c.toNode[n], x) /\ (x \in CrashMsg => c.nextMid \in CrashItem)
    BY <2>7, <2>11, <2>12
  <2>14. /\ d.configureCount = c.configureCount /\ d.dishonestSuccess = c.dishonestSuccess
         /\ d.resetCount = c.resetCount /\ d.crashResetCount = c.crashResetCount /\ d.nextMid = c.nextMid
         /\ d.scalabilityFirst = c.scalabilityFirst /\ d.testItems = c.testItems
         /\ d.toAnalyzer = c.toAnalyzer /\ d.dishonestCount = Cardinality(S)
    BY <2>7, <2>11 DEF Kept
  <2>15. Cardinality(S) <= d.dishonestCount BY <2>6, <2>14
  <2>16. Asks("cfgK", S, c, d) BY <2>13, <2>14, <2>15 DEF Asks
  <2> QED BY <2>4, <2>5, <2>9, <2>16
<1> QED BY <1>1, <1>2

LEMMA NextTestAsks ==
  ASSUME NEW c \in ControllerState, NEW pick
  PROVE  \E ph \in Configuring, T \in SUBSET Node : Asks(ph, T, c, NextTest(c, pick))
<1> DEFINE mid == c.nextMid
<1>0. "cfgH" \in Configuring /\ "cfgW" \in Configuring /\ "cfgK" \in Configuring BY DEF Configuring
<1>1. mid \in TestItem \cup {NoItem} BY DEF ControllerState
<1>2. \E T \in SUBSET Node : Asks("cfgH", T, c, ConfigureAnalyzerAndConsensusNode(c, pick)) BY ConfigureAsks
<1>3. Asks("cfgH", {}, c, c)
  <2>1. Alike(c, c) BY DEF Alike, Kept
  <2> QED BY <2>1, AsksNothing
<1>4. CASE mid = NoItem
  <2>1. mid.kind = "None" BY <1>4 DEF NoItem, Item
  <2>2. NextTest(c, pick) = ConfigureAnalyzerAndConsensusNode(c, pick) BY <1>4, <2>1 DEF NextTest
  <2> QED BY <1>0, <1>2, <2>2
<1>5. CASE mid # NoItem /\ mid.kind = "Scalability"
  <2>1. mid \in TestItem BY <1>1, <1>5
  <2>2. CASE c.optionalScalability = {}
    <3>1. PICK d : d = ConfigureAnalyzerAndConsensusNode(c, pick) OBVIOUS
    <3>2. d \in ControllerState BY <3>1, ConfigureTyped
    <3>3. PICK T \in SUBSET Node : Asks("cfgH", T, c, d) BY <1>2, <3>1
    <3>4. NextTest(c, pick) = NextMidTest(d, NoNode) BY <1>5, <2>2, <3>1 DEF NextTest
    <3>5. Asks("cfgH", T, c, NextTest(c, pick)) BY <2>1, <3>2, <3>3, <3>4, MidAsks
    <3> QED BY <1>0, <3>5
  <2>3. CASE c.optionalScalability # {}
    <3>1. PICK d : d = JoinNode(c, pick) OBVIOUS
    <3>2. d \in ControllerState BY <2>3, <3>1, JoinNodeTyped
    <3>3. PICK T \in SUBSET Node : Asks("cfgW", T, c, d) BY <2>3, <3>1, JoinAsks
    <3>4. NextTest(c, pick) = NextMidTest(d, NoNode) BY <1>5, <2>3, <3>1 DEF NextTest
    <3>5. Asks("cfgW", T, c, NextTest(c, pick)) BY <2>1, <3>2, <3>3, <3>4, MidAsks
    <3> QED BY <1>0, <3>5
  <2> QED BY <2>2, <2>3
<1>6. CASE mid # NoItem /\ mid.kind = "Crash"
  <2>1. mid \in TestItem /\ mid \in CrashItem BY <1>1, <1>6 DEF CrashItem
  <2>2. CASE c.optionalCrash = {}
    <3>1. NextTest(c, pick) = ConfigureAnalyzerAndConsensusNode(c, pick) BY <1>6, <2>2 DEF NextTest
    <3> QED BY <1>0, <1>2, <3>1
  <2>3. CASE c.optionalCrash # {}
    <3>1. PICK d : d = CrashANode(c, pick) OBVIOUS
    <3>2. d \in ControllerState BY <2>3, <3>1, CrashANodeTyped
    <3>3. PICK T \in SUBSET Node : Asks("cfgW", T, c, d) BY <2>1, <2>3, <3>1, CrashAsks
    <3>4. NextTest(c, pick) = NextMidTest(d, "CrashNode") BY <1>6, <2>3, <3>1 DEF NextTest
    <3>5. Asks("cfgW", T, c, NextTest(c, pick)) BY <2>1, <3>2, <3>3, <3>4, MidAsks
    <3> QED BY <1>0, <3>5
  <2> QED BY <2>2, <2>3
<1>7. CASE mid # NoItem /\ mid.kind \in {"LeaderFeignDeath", "LeaderSendDuplicateMessage",
                                         "LeaderSendAmbiguousMessage"}
  <2>1. mid \in TestItem BY <1>1, <1>7
  <2>2. CASE c.optionalDishonest = <<>>
    <3>1. NextTest(c, pick) \in {c, ConfigureAnalyzerAndConsensusNode(c, pick)} BY <1>7, <2>2 DEF NextTest
    <3> QED BY <1>0, <1>2, <1>3, <3>1
  <2>3. CASE c.optionalDishonest # <<>>
    <3>0. mid.kind \in DishonestKind \ {"ReplicaNodeConspireForgeMessages"} BY <1>7 DEF DishonestKind
    <3>1. PICK d : d = CorruptANode(c) OBVIOUS
    <3>2. d \in ControllerState BY <2>3, <3>0, <3>1, CorruptANodeTyped
    <3>3. PICK T \in SUBSET Node : Asks("cfgW", T, c, d) BY <2>3, <3>0, <3>1, CorruptAsks
    <3>4. NextTest(c, pick) = NextMidTest(d, "DishonestNode") BY <1>7, <2>3, <3>1 DEF NextTest
    <3>5. Asks("cfgW", T, c, NextTest(c, pick)) BY <2>1, <3>2, <3>3, <3>4, MidAsks
    <3> QED BY <1>0, <3>5
  <2> QED BY <2>2, <2>3
<1>8. CASE mid # NoItem /\ mid.kind = "ReplicaNodeConspireForgeMessages"
  <2>1. mid \in TestItem BY <1>1, <1>8
  <2>2. PICK d : d = CorruptNodes(c, pick) OBVIOUS
  <2>3. mid.kind \in DishonestKind BY <1>8 DEF DishonestKind
  <2>4. d \in ControllerState BY <2>2, <2>3, CorruptNodesTyped
  <2>5. PICK ph \in {"cfgH", "cfgK"}, T \in SUBSET Node : Asks(ph, T, c, d) BY <1>8, <2>2, ConspireAsks
  <2>6. NextTest(c, pick) = NextMidTest(d, NoNode) BY <1>8, <2>2 DEF NextTest
  <2>7. Asks(ph, T, c, NextTest(c, pick)) BY <2>1, <2>4, <2>5, <2>6, MidAsks
  <2>8. ph \in Configuring BY <1>0, <2>5
  <2> QED BY <2>7, <2>8
<1>9. CASE /\ mid # NoItem
           /\ mid.kind \notin {"Scalability", "Crash", "LeaderFeignDeath", "LeaderSendDuplicateMessage",
                               "LeaderSendAmbiguousMessage", "ReplicaNodeConspireForgeMessages"}
  <2>1. NextTest(c, pick) = c BY <1>9 DEF NextTest
  <2> QED BY <1>0, <1>3, <2>1
<1> QED BY <1>4, <1>5, <1>6, <1>7, <1>8, <1>9

-----------------------------------------------------------------------------
(* A round is over.                                                         *)

LEMMA AllResetFits ==
  ASSUME NEW S \in SUBSET Node, NEW c \in ControllerState, NEW ns \in [Node -> NodeState],
         NEW a \in AnalyzerState, NEW k, NEW p, NEW pick,
         Fits("reset", S, c, ns, a, k, p), S = c.consensusNodes
  PROVE  Fitting(AllReset(c, pick), ns, a, k, p) /\ RoundOver(c, ns, a)
<1>1. PICK e : e = [c EXCEPT !.resetCount = 0, !.crashResetCount = 0] OBVIOUS
<1>2. /\ e \in ControllerState /\ e.resetCount = 0 /\ e.crashResetCount = 0
      /\ e.toNode = c.toNode /\ e.toAnalyzer = c.toAnalyzer /\ e.consensusNodes = c.consensusNodes
      /\ e.configureCount = c.configureCount /\ e.scalabilityFirst = c.scalabilityFirst
      /\ e.dishonestCount = c.dishonestCount /\ e.dishonestSuccess = c.dishonestSuccess
      /\ e.testItems = c.testItems /\ e.nextMid = c.nextMid /\ e.nextItem = c.nextItem
  BY <1>1 DEF ControllerState
<1>3. AllReset(c, pick) = NextTest(e, pick) BY <1>1 DEF AllReset
<1>4. Lanes(c, ns) /\ Asked("reset", c, ns, p) /\ Counted("reset", S, c, ns, k) /\ Tested("reset", c, a)
  BY DEF Fits
<1>5. Active(c, ns) = {} BY <1>4 DEF Counted
<1>6. \A n \in Node : ~Has(c.toNode[n], StartMsg) /\ ~ns[n].running /\ ~Has(ns[n].out, RAns)
  BY <1>5 DEF Active
<1>7. \A n \in Node : ~ns[n].stopPermit BY <1>4, <1>6 DEF Lanes
<1>8. a.timers = 0 /\ ~Ended(a) BY <1>4 DEF Tested
<1>9. RoundOver(c, ns, a) BY <1>6, <1>8 DEF RoundOver
<1>10. Pending(c, ns, HMsg, HAns) = {}
  <2>1. CASE Orderly(p) BY <2>1 DEF Fits, InOrder
  <2>2. CASE ~Orderly(p) BY <1>4, <2>2 DEF Asked
  <2> QED BY <2>1, <2>2
<1>11. /\ Pending(c, ns, WMsg, WAns) = {} /\ Pending(c, ns, KMsg, KAns) = {} /\ c.dishonestSuccess = 0
  BY <1>4 DEF Asked
<1>12. /\ \A M, A : Pending(e, ns, M, A) = Pending(c, ns, M, A)
       /\ Active(e, ns) = {}
  BY <1>2, <1>5 DEF Pending, Active
<1>13. Cardinality({}) = 0 BY FS_EmptySet
<1>14. Lanes(e, ns) BY <1>2, <1>4 DEF Lanes
<1>15. Asked("cfgW", e, ns, p)
  <2>1. Cardinality(Pending(e, ns, WMsg, WAns)) <= 1 BY <1>11, <1>12, <1>13
  <2> QED BY <1>2, <1>4, <1>10, <1>11, <1>12, <2>1 DEF Asked
<1>16. Counted("cfgW", {}, e, ns, k)
  <2>1. ~(k < 4) BY <1>4 DEF Counted
  <2> QED BY <1>2, <1>7, <1>12, <1>13, <2>1 DEF Counted
<1>17. Tested("cfgW", e, a) BY <1>2, <1>4 DEF Tested
<1>18. Fits("cfgW", {}, e, ns, a, k, p)
  <2>1. CASE Orderly(p)
    <3>1. InOrder("reset", c, ns, a) BY <2>1 DEF Fits
    <3>2. InOrder("cfgW", e, ns, a) BY <1>2, <1>6, <1>8, <1>10, <1>12, <3>1 DEF InOrder
    <3> QED BY <1>14, <1>15, <1>16, <1>17, <2>1, <3>2 DEF Fits
  <2>2. CASE ~Orderly(p)
    <3>1. NoCrash("reset", S, c, ns, a, k) BY <2>2 DEF Fits
    <3>2. \A n \in Node : ~Has(c.toNode[n], ResetMsg) BY <3>1 DEF NoCrash
    <3>3. NoCrash("cfgW", {}, e, ns, a, k) BY <1>2, <1>6, <3>1, <3>2 DEF NoCrash
    <3> QED BY <1>14, <1>15, <1>16, <1>17, <2>2, <3>3 DEF Fits
  <2> QED BY <2>1, <2>2
<1>19. PICK ph \in Configuring, T \in SUBSET Node : Asks(ph, T, e, NextTest(e, pick))
  BY <1>2, NextTestAsks
<1>20. PICK d : d = NextTest(e, pick) OBVIOUS
<1>21. d \in ControllerState BY <1>2, <1>20, NextTestTyped
<1>22. Asks(ph, T, e, d) BY <1>19, <1>20
<1>23. /\ Pending(e, ns, HMsg, HAns) = {} /\ Pending(e, ns, WMsg, WAns) = {} /\ Pending(e, ns, KMsg, KAns) = {}
       /\ e.dishonestSuccess = 0
  BY <1>2, <1>10, <1>11, <1>12
<1>24. Fits(ph, {}, d, ns, a, k, p) BY <1>2, <1>18, <1>21, <1>22, <1>23, AskedFits
<1>25. ph \in Phases BY DEF Phases
<1> QED BY <1>3, <1>9, <1>20, <1>24, <1>25 DEF Fitting

\* The ResetSuccess of a node is counted.
Counts(ph, c, d) ==
  /\ d.toNode = c.toNode /\ d.toAnalyzer = c.toAnalyzer /\ d.consensusNodes = c.consensusNodes
  /\ d.configureCount = c.configureCount /\ d.scalabilityFirst = c.scalabilityFirst
  /\ d.dishonestCount = c.dishonestCount /\ d.dishonestSuccess = c.dishonestSuccess
  /\ d.testItems = c.testItems /\ d.nextMid = c.nextMid /\ d.nextItem = c.nextItem
  /\ d.resetCount + d.crashResetCount = c.resetCount + c.crashResetCount + 1
  /\ ph = "test" => d.resetCount = c.resetCount

LEMMA CountFits ==
  ASSUME NEW ph \in {"test", "reset"}, NEW S \in SUBSET Node, NEW c \in ControllerState, NEW d,
         NEW ns, NEW a, NEW k, NEW p, NEW n \in Node,
         Fits(ph, S, c, ns, a, k, p), Counts(ph, c, d), n \in c.consensusNodes \ (S \cup Active(c, ns)),
         ~Orderly(p) => ph = "reset" /\ ~Has(c.toNode[n], ResetMsg)
  PROVE  Fits(ph, S \cup {n}, d, ns, a, k, p)
<1> USE DEF Counts
<1>1. Lanes(d, ns) BY DEF Fits, Lanes
<1>2. /\ \A M, A : Pending(d, ns, M, A) = Pending(c, ns, M, A)
      /\ Active(d, ns) = Active(c, ns)
  BY DEF Pending, Active
<1>3. Asked(ph, d, ns, p)
  <2>1. Asked(ph, c, ns, p) BY DEF Fits
  <2> QED BY <1>2, <2>1 DEF Asked
<1>4. Cardinality(S \cup {n}) = Cardinality(S) + 1
  <2>1. IsFiniteSet(S) BY NodesCounted
  <2> QED BY <2>1, FS_AddElement
<1>5. Counted(ph, S \cup {n}, d, ns, k)
  <2>1. Counted(ph, S, c, ns, k) BY DEF Fits
  <2>2. ph \notin Configuring /\ ph # "op" BY DEF Configuring
  <2>3. Cardinality(S \cup {n}) = d.resetCount + d.crashResetCount BY <1>4, <2>1 DEF Counted
  <2> QED BY <1>2, <2>1, <2>2, <2>3 DEF Counted
<1>6. Tested(ph, d, a) BY DEF Fits, Tested
<1>7. CASE Orderly(p)
  <2>1. InOrder(ph, c, ns, a) BY <1>7 DEF Fits
  <2>2. InOrder(ph, d, ns, a) BY <1>2, <2>1 DEF InOrder
  <2> QED BY <1>1, <1>3, <1>5, <1>6, <1>7, <2>2 DEF Fits
<1>8. CASE ~Orderly(p)
  <2>1. NoCrash(ph, S, c, ns, a, k) BY <1>8 DEF Fits
  <2>2. NoCrash(ph, S \cup {n}, d, ns, a, k) BY <1>8, <2>1 DEF NoCrash
  <2> QED BY <1>1, <1>3, <1>5, <1>6, <1>8, <2>2 DEF Fits
<1> QED BY <1>7, <1>8

\* All nodes of the round are counted, or not yet.
LEMMA CheckFits ==
  ASSUME NEW S \in SUBSET Node, NEW c \in ControllerState, NEW ns \in [Node -> NodeState],
         NEW a \in AnalyzerState, NEW k, NEW p, NEW pick, Fits("reset", S, c, ns, a, k, p)
  PROVE  /\ Fitting(CheckResetAllSuccess(c, pick), ns, a, k, p)
         /\ CheckResetAllSuccess(c, pick) = c \/ RoundOver(c, ns, a)
<1>1. CASE Cardinality(c.consensusNodes) = c.resetCount + c.crashResetCount
  <2>1. CheckResetAllSuccess(c, pick) = AllReset(c, pick) BY <1>1 DEF CheckResetAllSuccess
  <2>2. Cardinality(S) = c.resetCount + c.crashResetCount /\ S \subseteq c.consensusNodes
    BY DEF Fits, Counted
  <2>3. c.consensusNodes \in SUBSET Node BY DEF ControllerState
  <2>4. S = c.consensusNodes BY <1>1, <2>2, <2>3, FewerCounted
  <2> QED BY <2>1, <2>4, AllResetFits
<1>2. CASE Cardinality(c.consensusNodes) # c.resetCount + c.crashResetCount
  <2>1. CheckResetAllSuccess(c, pick) = c BY <1>2 DEF CheckResetAllSuccess
  <2>2. "reset" \in Phases BY DEF Phases
  <2> QED BY <2>1, <2>2 DEF Fitting
<1> QED BY <1>1, <1>2

\* A message of no consequence to any set of nodes.
LEMMA SendNeutral ==
  ASSUME NEW c \in ControllerState, NEW S, NEW m \in Neutral
  PROVE  Neutrally(c, SendNodes(c, S, m))
<1>1. PICK d : d = SendNodes(c, S, m) OBVIOUS
<1>2. Sent(c, d, S, m) BY <1>1, SendNodesSent
<1>3. Told(c, d, Neutral) BY <1>2 DEF Sent, Told
<1>4. Neutrally(c, d) BY <1>2, <1>3 DEF Sent, Kept, Neutrally
<1> QED BY <1>1, <1>4

LEMMA NeutralMessages ==
  /\ Say("ConsensusNodeMode", SimpleMode("Uninitialized")) \in Neutral
  /\ Say("ConfigureConsensusNode", SimpleMode("HonestFirst")) \in Neutral
  /\ Tell("MakeAConsensusRequest") \in Neutral
<1> DEFINE u == Say("ConsensusNodeMode", SimpleMode("Uninitialized"))
           f == Say("ConfigureConsensusNode", SimpleMode("HonestFirst"))
           r == Tell("MakeAConsensusRequest")
<1>1. u \in NodeMessage /\ f \in NodeMessage /\ r \in NodeMessage BY ModesTyped
<1>2. /\ u.type = "ConsensusNodeMode" /\ u.mode.kind = "Uninitialized"
      /\ f.type = "ConfigureConsensusNode" /\ f.mode.kind = "HonestFirst"
      /\ r.type = "MakeAConsensusRequest" /\ r.mode.kind = "Uninitialized"
  BY DEF Say, Tell, SimpleMode
<1> HIDE DEF u, f, r
<1>3. "Uninitialized" \notin SingleKind /\ "HonestFirst" \notin SingleKind /\ "MakeAConsensusRequest" \notin Answered
  BY DEF SingleKind, DishonestKind, Answered
<1>4. \A m \in {u, f, r} : m \in Neutral
  BY <1>1, <1>2, <1>3 DEF Neutral, HMsg, WMsg, KMsg, StartMsg, ResetMsg, CrashMsg
<1> QED BY <1>4 DEF u, f, r

LEMMA ResetAnswerFits ==
  ASSUME NEW ph \in Phases, NEW S \in SUBSET Node, NEW c \in ControllerState,
         NEW ns, NEW ms \in [Node -> NodeState], NEW a \in AnalyzerState, NEW k, NEW p,
         NEW n \in Node, NEW pick, NEW m \in RAns,
         Fits(ph, S, c, ns, a, k, p), Fits(ph, S, c, ms, a, k, p), n \in Active(c, ns) \ Active(c, ms),
         Has(ns[n].out, RAns), m \in StopAns => Has(ns[n].out, StopAns),
         m \in CrashAns => Has(ns[n].out, CrashAns),
         NEW d, d = ResetSuccess(c, n, m.mode, pick)
  PROVE  Fitting(d, ms, a, k, p) /\ (Announces(c, d) => RoundOver(c, ms, a))
<1>0. m \in Feedback /\ m.mode \in Mode BY DEF RAns, Feedback
<1>1. Counted(ph, S, c, ns, k) BY DEF Fits
<1>2. ph \in {"test", "reset"} BY <1>1 DEF Counted, Phases
<1>3. n \in c.consensusNodes \ (S \cup Active(c, ms)) BY <1>1 DEF Counted
<1>4. c.resetCount \in Nat /\ c.crashResetCount \in Nat BY DEF ControllerState
<1>5. ~Orderly(p) => ph = "reset" /\ ~Has(c.toNode[n], ResetMsg) /\ m.mode.kind # "Crash"
  <2> SUFFICES ASSUME ~Orderly(p)
               PROVE  ph = "reset" /\ ~Has(c.toNode[n], ResetMsg) /\ m.mode.kind # "Crash"
    OBVIOUS
  <2>1. NoCrash(ph, S, c, ns, a, k) BY DEF Fits
  <2>2. m \notin CrashAns BY <2>1 DEF NoCrash
  <2> QED BY <1>0, <2>1, <2>2 DEF NoCrash, CrashAns
<1>6. ph = "test" => c.resetCount = 0 /\ m \notin StopAns BY <1>1 DEF Counted
<1>7. CASE m.mode.kind = "Uninitialized"
  <2>1. d = c BY <1>7 DEF ResetSuccess
  <2> QED BY <2>1, NothingAnnounced DEF Fitting
<1>8. CASE m.mode.kind = "Crash"
  <2>1. PICK e : e = [c EXCEPT !.crashResetCount = @ + 1, !.crashNodes = @ \cup {n}] OBVIOUS
  <2>2. e \in ControllerState BY <2>1, CountsTyped
  <2>3. e.crashResetCount = c.crashResetCount + 1 /\ e.resetCount = c.resetCount BY <2>1 DEF ControllerState
  <2>4. e.resetCount + e.crashResetCount = c.resetCount + c.crashResetCount + 1 BY <1>4, <2>3
  <2>5. /\ e.toNode = c.toNode /\ e.toAnalyzer = c.toAnalyzer /\ e.consensusNodes = c.consensusNodes
        /\ e.configureCount = c.configureCount /\ e.scalabilityFirst = c.scalabilityFirst
        /\ e.dishonestCount = c.dishonestCount /\ e.dishonestSuccess = c.dishonestSuccess
        /\ e.testItems = c.testItems /\ e.nextMid = c.nextMid /\ e.nextItem = c.nextItem
    BY <2>1 DEF ControllerState
  <2>6. Counts(ph, c, e) BY <2>3, <2>4, <2>5 DEF Counts
  <2>7. Fits(ph, S \cup {n}, e, ms, a, k, p) BY <1>2, <1>3, <1>5, <2>6, CountFits
  <2>8. CASE Cardinality(e.consensusNodes) = e.crashResetCount
    <3>1. d = SendNodes(e, e.crashNodes, Say("ConsensusNodeMode", SimpleMode("Uninitialized")))
      BY <1>8, <2>1, <2>8 DEF ResetSuccess, SetConsensusNodeMode
    <3>2. Neutrally(e, d) BY <2>2, <3>1, SendNeutral, NeutralMessages
    <3>3. Fits(ph, S \cup {n}, d, ms, a, k, p) BY <2>2, <2>7, <3>2, NeutralFits
    <3>4. d.toAnalyzer = c.toAnalyzer BY <2>5, <3>2 DEF Neutrally
    <3>5. ~Announces(c, d) BY <3>4, NothingAnnounced
    <3> QED BY <3>3, <3>5 DEF Fitting
  <2>9. CASE Cardinality(e.consensusNodes) # e.crashResetCount
    <3>1. d = CheckResetAllSuccess(e, pick) BY <1>8, <2>1, <2>9 DEF ResetSuccess
    <3>2. CASE ph = "test"
      <4>1. e.resetCount + e.crashResetCount = e.crashResetCount BY <1>4, <1>6, <2>3, <3>2
      <4>2. d = e BY <2>9, <3>1, <4>1 DEF CheckResetAllSuccess
      <4>3. ~Announces(c, d) BY <2>5, <4>2, NothingAnnounced
      <4> QED BY <2>7, <4>2, <4>3 DEF Fitting
    <3>3. CASE ph = "reset"
      <4>1. Fits("reset", S \cup {n}, e, ms, a, k, p) BY <2>7, <3>3
      <4>2. S \cup {n} \in SUBSET Node OBVIOUS
      <4>3. Fitting(d, ms, a, k, p) /\ (d = e \/ RoundOver(e, ms, a)) BY <2>2, <3>1, <4>1, <4>2, CheckFits
      <4>4. RoundOver(e, ms, a) => RoundOver(c, ms, a) BY <2>5 DEF RoundOver
      <4>5. d = e => ~Announces(c, d) BY <2>5, NothingAnnounced
      <4> QED BY <4>3, <4>4, <4>5
    <3> QED BY <1>2, <3>2, <3>3
  <2> QED BY <2>8, <2>9
<1>9. CASE m.mode.kind # "Uninitialized" /\ m.mode.kind # "Crash"
  <2>0. ph = "reset" BY <1>2, <1>6, <1>9 DEF StopAns
  <2>1. PICK e : e = [c EXCEPT !.resetCount = @ + 1] OBVIOUS
  <2>2. e \in ControllerState BY <2>1, CountsTyped
  <2>3. e.crashResetCount = c.crashResetCount /\ e.resetCount = c.resetCount + 1 BY <2>1 DEF ControllerState
  <2>4. e.resetCount + e.crashResetCount = c.resetCount + c.crashResetCount + 1 BY <1>4, <2>3
  <2>5. /\ e.toNode = c.toNode /\ e.toAnalyzer = c.toAnalyzer /\ e.consensusNodes = c.consensusNodes
        /\ e.configureCount = c.configureCount /\ e.scalabilityFirst = c.scalabilityFirst
        /\ e.dishonestCount = c.dishonestCount /\ e.dishonestSuccess = c.dishonestSuccess
        /\ e.testItems = c.testItems /\ e.nextMid = c.nextMid /\ e.nextItem = c.nextItem
    BY <2>1 DEF ControllerState
  <2>6. Counts(ph, c, e) BY <2>0, <2>4, <2>5 DEF Counts
  <2>7. Fits("reset", S \cup {n}, e, ms, a, k, p) BY <1>2, <1>3, <1>5, <2>0, <2>6, CountFits
  <2>8. d = CheckResetAllSuccess(e, pick) BY <1>9, <2>1 DEF ResetSuccess
  <2>9. S \cup {n} \in SUBSET Node OBVIOUS
  <2>10. Fitting(d, ms, a, k, p) /\ (d = e \/ RoundOver(e, ms, a)) BY <2>2, <2>7, <2>8, <2>9, CheckFits
  <2>11. RoundOver(e, ms, a) => RoundOver(c, ms, a) BY <2>5 DEF RoundOver
  <2>12. d = e => ~Announces(c, d) BY <2>5, NothingAnnounced
  <2> QED BY <2>10, <2>11, <2>12
<1> QED BY <1>7, <1>8, <1>9

LEMMA HearsNodeFits ==
  ASSUME NEW ph \in Phases, NEW S \in SUBSET Node, NEW c \in ControllerState, NEW ns \in [Node -> NodeState],
         NEW ms \in [Node -> NodeState], NEW a \in AnalyzerState, NEW k, NEW p, NEW pick,
         NEW n \in Node, NEW i \in 1..Len(ns[n].out), Hears(ns, ms, n, i),
         Fits(ph, S, c, ns, a, k, p),
         NEW m, m = ns[n].out[i], NEW d, d = HandleFeedback(c, n, m, pick)
  PROVE  Fitting(d, ms, a, k, p) /\ (Announces(c, d) => RoundOver(c, ns, a))
<1>1. ns[n].out \in Seq(Feedback) BY DEF NodeState
<1>2. m \in Feedback BY <1>1
<1>3. m.mode \in Mode /\ m.type \in {"ConsensusNodeModeSuccess", "JoinConsensusSuccess", "ResetSuccess"}
  BY <1>2 DEF Feedback
<1>4. /\ Fits(ph, S, c, ms, a, k, p)
      /\ m \in HAns =>
           n \in Pending(c, ns, HMsg, HAns) /\ Pending(c, ms, HMsg, HAns) = Pending(c, ns, HMsg, HAns) \ {n}
      /\ m \in WAns =>
           n \in Pending(c, ns, WMsg, WAns) /\ Pending(c, ms, WMsg, WAns) = Pending(c, ns, WMsg, WAns) \ {n}
      /\ m \in KAns =>
           n \in Pending(c, ns, KMsg, KAns) /\ Pending(c, ms, KMsg, KAns) = Pending(c, ns, KMsg, KAns) \ {n}
      /\ m \in RAns => n \in Active(c, ns) \ Active(c, ms)
  <2>1. Fits(ph, S, c, ms, a, k, p) /\ Heard(c, ns, ms, n, ns[n].out[i]) BY HeardFits
  <2> QED BY <2>1 DEF Heard
<1>5. Asked(ph, c, ns, p) BY DEF Fits
<1>6. RoundOver(c, ms, a) => RoundOver(c, ns, a)
  <2>1. \A l \in Node : ms[l].running = ns[l].running BY DEF NodeState, Hears
  <2> QED BY <2>1 DEF RoundOver
<1>7. CASE m.type = "JoinConsensusSuccess"
  <2>1. m \in WAns BY <1>2, <1>7 DEF WAns
  <2>2. PICK e : e = [c EXCEPT !.consensusNodes = @ \cup {n}] OBVIOUS
  <2>3. e \in ControllerState /\ Readies(c, e) /\ Kept([c EXCEPT !.consensusNodes = e.consensusNodes], e)
    BY <2>2 DEF ControllerState, Readies, Kept
  <2>4. d = c \/ d = StartRound(e) BY <1>7, <2>2 DEF HandleFeedback, JoinConsensusSuccess
  <2>5. Fitting(d, ms, a, k, p) /\ ~Announces(c, d) BY <1>4, <1>5, <2>1, <2>3, <2>4, SingleAnswerFits
  <2> QED BY <2>5
<1>8. CASE m.type = "ResetSuccess"
  <2>1. m \in RAns BY <1>2, <1>8 DEF RAns
  <2>2. d = ResetSuccess(c, n, m.mode, pick) BY <1>8 DEF HandleFeedback
  <2>3. \A C : m \in C => Has(ns[n].out, C) BY DEF Has
  <2>4. Fitting(d, ms, a, k, p) /\ (Announces(c, d) => RoundOver(c, ms, a))
    BY <1>4, <2>1, <2>2, <2>3, ResetAnswerFits
  <2> QED BY <1>6, <2>4
<1>9. CASE m.type = "ConsensusNodeModeSuccess"
  <2>1. d = ConsensusNodeModeSuccess(c, n, m.mode) BY <1>9 DEF HandleFeedback
  <2>2. CASE m.mode.kind = "Uninitialized"
    <3>1. d = c BY <2>1, <2>2 DEF ConsensusNodeModeSuccess
    <3> QED BY <1>4, <3>1, NothingAnnounced DEF Fitting
  <2>3. CASE m.mode.kind = "HonestFirst"
    <3>1. d = HonestNode(c, n) BY <2>1, <2>3 DEF ConsensusNodeModeSuccess
    <3>2. Neutrally(c, d) BY <3>1 DEF HonestNode, Neutrally, Told, ControllerState
    <3>3. Fits(ph, S, d, ms, a, k, p) BY <1>4, <3>2, NeutralFits
    <3>4. ~Announces(c, d) BY <3>2, NothingAnnounced DEF Neutrally
    <3> QED BY <3>3, <3>4 DEF Fitting
  <2>4. CASE m.mode.kind = "HonestOther"
    <3>1. m \in HAns BY <1>2, <1>9, <2>4 DEF HAns
    <3>2. Fitting(d, ms, a, k, p) /\ ~Announces(c, d) BY <1>4, <1>5, <2>1, <2>4, <3>1, HonestAnswerFits
    <3> QED BY <3>2
  <2>5. CASE m.mode.kind = "ReplicaNodeConspireForgeMessages"
    <3>1. m \in KAns BY <1>2, <1>9, <2>5 DEF KAns
    <3>2. Fitting(d, ms, a, k, p) /\ ~Announces(c, d) BY <1>4, <1>5, <2>1, <2>5, <3>1, ConspiratorAnswerFits
    <3> QED BY <3>2
  <2>6. CASE m.mode.kind \in SingleKind
    <3>1. m \in WAns BY <1>2, <1>9, <2>6 DEF WAns
    <3>2. m.mode.kind \notin {"Uninitialized", "HonestFirst", "HonestOther", "ReplicaNodeConspireForgeMessages"}
      BY <2>6 DEF SingleKind, DishonestKind
    <3>3. d = c \/ d = StartRound(c) BY <2>1, <3>2 DEF ConsensusNodeModeSuccess
    <3>4. Readies(c, c) /\ Kept([c EXCEPT !.consensusNodes = c.consensusNodes], c)
      BY DEF Readies, Kept, ControllerState
    <3>5. Fitting(d, ms, a, k, p) /\ ~Announces(c, d) BY <1>4, <1>5, <3>1, <3>3, <3>4, SingleAnswerFits
    <3> QED BY <3>5
  <2> QED BY <1>3, <2>2, <2>3, <2>4, <2>5, <2>6 DEF Mode, SingleKind
<1> QED BY <1>3, <1>7, <1>8, <1>9

-----------------------------------------------------------------------------
(* The controller hears the analyzer: the test is over.                     *)

HearsEnd(a, b, i) == b = [a EXCEPT !.out = Without(@, i)]

LEMMA TestOverFits ==
  ASSUME NEW ph \in Phases, NEW S, NEW c \in ControllerState, NEW ns, NEW a \in AnalyzerState, NEW k, NEW p,
         Fits(ph, S, c, ns, a, k, p), NEW i \in 1..Len(a.out), NEW b, HearsEnd(a, b, i)
  PROVE  /\ Fits("reset", S, c, ns, b, k, p) /\ ph = "test" /\ a.timers = 0
         /\ ~Orderly(p) => a.out[i] \notin CrashItem
<1>1. a.out \in Seq(TestItem) /\ a.timers \in Nat /\ Len(a.out) \in Nat BY DEF AnalyzerState
<1>2. a.out # <<>> /\ Ended(a) BY <1>1 DEF Ended
<1>3. Tested(ph, c, a) BY DEF Fits
<1>4. /\ ph = "test" /\ a.timers = 0 /\ Len(a.out) <= 1 /\ ~a.completedPermit
      /\ ~Has(c.toAnalyzer, BeginMsg)
  BY <1>1, <1>2, <1>3 DEF Tested
<1>5. /\ b.item = a.item /\ b.timers = a.timers /\ b.completedPermit = a.completedPermit
      /\ b.panicked = a.panicked /\ b.out = Without(a.out, i)
  BY DEF AnalyzerState, HearsEnd
<1>6. b.out = <<>>
  <2>1. PICK q : q = a.out OBVIOUS
  <2>2. q \in Seq(TestItem) /\ i \in 1..Len(q) BY <1>1, <2>1
  <2>3. Without(q, i) \in Seq(TestItem) /\ Len(Without(q, i)) = Len(q) - 1 BY <2>2, WithoutElements
  <2>6. Len(q) \in Nat /\ Len(q) <= 1 /\ 1 <= i /\ i <= Len(q) BY <1>1, <1>4, <2>1, <2>2
  <2>7. Len(q) = 1 BY <2>6
  <2>4. Len(Without(q, i)) = 0 BY <2>3, <2>7
  <2>5. Without(q, i) = <<>> BY <2>3, <2>4, EmptySeq
  <2> QED BY <1>5, <2>1, <2>5
<1>7. ~Ended(b) BY <1>4, <1>5, <1>6 DEF Ended
<1>8. Tested("reset", c, b) BY <1>3, <1>4, <1>5, <1>7 DEF Tested
<1>9. Asked("reset", c, ns, p)
  <2>1. Asked("test", c, ns, p) BY <1>4 DEF Fits
  <2> QED BY <2>1 DEF Asked
<1>10. Counted("reset", S, c, ns, k)
  <2>1. Counted("test", S, c, ns, k) BY <1>4 DEF Fits
  <2>2. "reset" \notin Configuring BY DEF Configuring
  <2> QED BY <2>1, <2>2 DEF Counted
<1>11. CASE Orderly(p)
  <2>1. InOrder("test", c, ns, a) BY <1>4, <1>11 DEF Fits
  <2>2. InOrder("reset", c, ns, b) BY <1>2, <2>1 DEF InOrder
  <2>3. Fits("reset", S, c, ns, b, k, p) BY <1>8, <1>9, <1>10, <1>11, <2>2 DEF Fits
  <2> QED BY <1>4, <1>11, <2>3
<1>12. CASE ~Orderly(p)
  <2>1. NoCrash("test", S, c, ns, a, k) BY <1>4, <1>12 DEF Fits
  <2>2. ~Has(b.out, CrashItem) BY <1>6, LinkEmpty
  <2>3. NoCrash("reset", S, c, ns, b, k) BY <1>5, <2>1, <2>2 DEF NoCrash
  <2>4. Fits("reset", S, c, ns, b, k, p) BY <1>8, <1>9, <1>10, <1>12, <2>3 DEF Fits
  <2>5. a.out[i] \notin CrashItem BY <2>1 DEF NoCrash, Has
  <2> QED BY <1>4, <2>4, <2>5
<1> QED BY <1>11, <1>12

\* next_mid_test_item becomes another round of the same item, or none.
Moves(c, d, item) ==
  /\ d.toNode = c.toNode /\ d.toAnalyzer = c.toAnalyzer /\ d.consensusNodes = c.consensusNodes
  /\ d.configureCount = c.configureCount /\ d.scalabilityFirst = c.scalabilityFirst
  /\ d.resetCount = c.resetCount /\ d.crashResetCount = c.crashResetCount
  /\ d.dishonestCount = c.dishonestCount /\ d.dishonestSuccess = c.dishonestSuccess
  /\ d.testItems = c.testItems /\ d.nextItem = c.nextItem
  /\ d.nextMid = c.nextMid \/ d.nextMid = NoItem \/ d.nextMid.kind = item.kind

LEMMA PopMoves ==
  ASSUME NEW c \in ControllerState, NEW phase \in Nat, NEW item
  PROVE  Moves(c, PopField(c, phase), item)
<1>1. PICK d : d = PopField(c, phase) OBVIOUS
<1>2. CASE phase \notin c.phases
  <2>1. d = [c EXCEPT !.panicked = TRUE] BY <1>1, <1>2 DEF PopField
  <2>2. Moves(c, d, item) BY <2>1 DEF Moves, ControllerState
  <2> QED BY <1>1, <2>2
<1>3. CASE phase \in c.phases /\ c.fields[phase] = 0
  <2>1. d = [c EXCEPT !.phases = @ \ {phase}] BY <1>1, <1>3 DEF PopField
  <2>2. Moves(c, d, item) BY <2>1 DEF Moves, ControllerState
  <2> QED BY <1>1, <2>2
<1>4. CASE phase \in c.phases /\ c.fields[phase] # 0
  <2>1. PICK left : left = [c.fields EXCEPT ![phase] = @ - 1] OBVIOUS
  <2>2. d = [c EXCEPT !.fields = left] BY <1>1, <1>4, <2>1 DEF PopField, ControllerState
  <2>3. Moves(c, d, item) BY <2>2 DEF Moves, ControllerState
  <2> QED BY <1>1, <2>3
<1> QED BY <1>2, <1>3, <1>4

LEMMA MidMoves ==
  ASSUME NEW c, NEW d \in ControllerState, NEW item, NEW mid, Moves(c, d, item),
         mid = NoItem \/ mid.kind = item.kind
  PROVE  Moves(c, [d EXCEPT !.nextMid = mid], item)
<1>1. PICK e : e = [d EXCEPT !.nextMid = mid] OBVIOUS
<1>2. /\ e.toNode = d.toNode /\ e.toAnalyzer = d.toAnalyzer /\ e.consensusNodes = d.consensusNodes
      /\ e.configureCount = d.configureCount /\ e.scalabilityFirst = d.scalabilityFirst
      /\ e.resetCount = d.resetCount /\ e.crashResetCount = d.crashResetCount
      /\ e.dishonestCount = d.dishonestCount /\ e.dishonestSuccess = d.dishonestSuccess
      /\ e.testItems = d.testItems /\ e.nextItem = d.nextItem /\ e.nextMid = mid
  BY <1>1 DEF ControllerState
<1>3. Moves(c, e, item) BY <1>2 DEF Moves
<1> QED BY <1>1, <1>3

LEMMA FieldMoves ==
  ASSUME NEW c, NEW e \in ControllerState, NEW item \in TestItem, NEW phase \in Nat,
         NEW mid, mid = NoItem \/ mid.kind = item.kind, Moves(c, e, item)
  PROVE  /\ Moves(c, FieldRound(e, item, phase), item)
         /\ Moves(c, [PopField(e, phase) EXCEPT !.nextMid = mid], item)
<1>1. PICK g : g = PopField(e, phase) OBVIOUS
<1>2. g \in ControllerState /\ Moves(e, g, item) BY <1>1, FieldsTyped, PopMoves
<1>3. Moves(c, g, item) BY <1>2 DEF Moves
<1>4. PICK next : next = [item EXCEPT !.at = phase, !.field = FieldOf(e, phase), !.count = 1] OBVIOUS
<1>5. next.kind = item.kind BY <1>4 DEF TestItem
<1>6. FieldRound(e, item, phase) = [g EXCEPT !.nextMid = next] BY <1>1, <1>4 DEF FieldRound
<1>7. Moves(c, [g EXCEPT !.nextMid = next], item) BY <1>2, <1>3, <1>5, MidMoves
<1>8. Moves(c, [g EXCEPT !.nextMid = mid], item) BY <1>2, <1>3, MidMoves
<1> QED BY <1>1, <1>6, <1>7, <1>8

LEMMA AfterRoundMoves ==
  ASSUME NEW c \in ControllerState, NEW item \in TestItem
  PROVE  AfterRound(c, item) \in ControllerState /\ Moves(c, AfterRound(c, item), item)
<1> DEFINE step == IF item.kind = "Scalability" THEN item.step ELSE 1
           next == IF item.at + step <= item.max THEN [item EXCEPT !.at = @ + step] ELSE NoItem
<1>1. item.at + step \in Nat /\ item.at \in Nat /\ item.at + 1 \in Nat /\ item.count \in Nat BY DEF TestItem
<1>2. next \in TestItem \cup {NoItem} /\ (next = NoItem \/ next.kind = item.kind) BY <1>1 DEF TestItem
<1> HIDE DEF step
<1>3. AfterRound(c, item) \in {c, AfterFieldRound(c, item), [c EXCEPT !.nextMid = next]}
  BY DEF AfterRound, step
<1> HIDE DEF next
<1>4. AfterRound(c, item) \in ControllerState BY <1>2, <1>3, AfterFieldRoundTyped, MidTyped
<1>5. Moves(c, c, item) BY DEF Moves
<1>6. Moves(c, [c EXCEPT !.nextMid = next], item) BY <1>2, <1>5, MidMoves
<1>7. Moves(c, AfterFieldRound(c, item), item)
  <2>1. PICK more : more = [item EXCEPT !.count = @ + 1] OBVIOUS
  <2>2. more.kind = item.kind BY <2>1 DEF TestItem
  <2>3. /\ Moves(c, [c EXCEPT !.nextMid = NoItem], item)
        /\ Moves(c, [c EXCEPT !.nextMid = more], item)
    BY <1>5, <2>2, MidMoves
  <2>4. PICK g : g = PopField(c, item.at) OBVIOUS
  <2>5. g \in ControllerState /\ Moves(c, g, item) BY <1>1, <2>4, FieldsTyped, PopMoves
  <2>6. Moves(c, FieldRound(c, item, 1), item) BY <1>5, FieldMoves
  <2>7. Moves(c, FieldRound(c, item, item.at), item) BY <1>1, <1>5, FieldMoves
  <2>8. Moves(c, [g EXCEPT !.nextMid = NoItem], item) BY <2>5, MidMoves
  <2>9. Moves(c, FieldRound(g, item, item.at + 1), item) BY <1>1, <2>5, FieldMoves
  <2>10. AfterFieldRound(c, item) \in
           {FieldRound(c, item, 1), [c EXCEPT !.nextMid = NoItem], [c EXCEPT !.nextMid = more],
            FieldRound(c, item, item.at), [g EXCEPT !.nextMid = NoItem], FieldRound(g, item, item.at + 1)}
    BY <2>1, <2>4 DEF AfterFieldRound
  <2> QED BY <2>3, <2>6, <2>7, <2>8, <2>9, <2>10
<1> QED BY <1>3, <1>4, <1>5, <1>6, <1>7

LEMMA MovesFits ==
  ASSUME NEW S, NEW c \in ControllerState, NEW d \in ControllerState, NEW ns, NEW a, NEW k, NEW p,
         NEW item \in TestItem, Fits("reset", S, c, ns, a, k, p), Moves(c, d, item),
         ~Orderly(p) => item \notin CrashItem
  PROVE  Fits("reset", S, d, ns, a, k, p)
<1> USE DEF Moves
<1>1. Lanes(d, ns) BY DEF Fits, Lanes
<1>2. /\ \A M, A : Pending(d, ns, M, A) = Pending(c, ns, M, A)
      /\ Active(d, ns) = Active(c, ns)
  BY DEF Pending, Active
<1>3. Asked("reset", d, ns, p)
  <2>1. Asked("reset", c, ns, p) BY DEF Fits
  <2> QED BY <1>2, <2>1 DEF Asked
<1>4. Counted("reset", S, c, ns, k) BY DEF Fits
<1>5. Counted("reset", S, d, ns, k) BY <1>2, <1>4 DEF Counted
<1>6. Tested("reset", d, a) BY DEF Fits, Tested
<1>7. CASE Orderly(p)
  <2>1. InOrder("reset", c, ns, a) BY <1>7 DEF Fits
  <2>2. InOrder("reset", d, ns, a) BY <1>2, <2>1 DEF InOrder
  <2> QED BY <1>1, <1>3, <1>5, <1>6, <1>7, <2>2 DEF Fits
<1>8. CASE ~Orderly(p)
  <2>1. NoCrash("reset", S, c, ns, a, k) BY <1>8 DEF Fits
  <2>2. item.kind # "Crash" BY <1>8 DEF CrashItem
  <2>3. NoItem \notin CrashItem BY DEF CrashItem, NoItem, Item
  <2>4. d.nextMid \notin CrashItem BY <2>1, <2>2, <2>3 DEF NoCrash, CrashItem
  <2>5. NoCrash("reset", S, d, ns, a, k) BY <2>1, <2>4 DEF NoCrash
  <2> QED BY <1>1, <1>3, <1>5, <1>6, <1>8, <2>5 DEF Fits
<1> QED BY <1>7, <1>8

\* Every node of the round is told to reset; in the test no ResetSuccess but that of a
\* crashed node was counted, and without crash tests none at all.
Unanswered(S, c, ns, p) ==
  /\ c.resetCount = 0
  /\ ~Orderly(p) =>
       /\ S = {}
       /\ \A n \in Node : ~Has(c.toNode[n], ResetMsg) /\ ~Has(ns[n].out, RAns) /\ ~ns[n].stopPermit

LEMMA ResetSentFits ==
  ASSUME NEW S \in SUBSET Node, NEW c \in ControllerState, NEW ns \in [Node -> NodeState], NEW a, NEW k, NEW p,
         Fits("reset", S, c, ns, a, k, p), Unanswered(S, c, ns, p)
  PROVE  /\ Fits("reset", S, SendNodes(c, c.consensusNodes, Tell("Reset")), ns, a, k, p)
         /\ ~Announces(c, SendNodes(c, c.consensusNodes, Tell("Reset")))
<1>0. PICK N, m, d : N = c.consensusNodes /\ m = Tell("Reset") /\ d = SendNodes(c, N, m) OBVIOUS
<1> SUFFICES Fits("reset", S, d, ns, a, k, p) /\ ~Announces(c, d) BY <1>0
<1>1. m \in NodeMessage /\ m.type = "Reset" /\ m.mode.kind = "Uninitialized"
  BY <1>0, ModesTyped DEF Tell, Say, SimpleMode
<1>2. m \notin HMsg /\ m \notin WMsg /\ m \notin KMsg /\ m \notin StartMsg /\ m \notin CrashMsg /\ m \in ResetMsg
  BY <1>1 DEF HMsg, WMsg, KMsg, StartMsg, CrashMsg, ResetMsg, Answered
<1>3. Sent(c, d, N, m) BY <1>0, SendNodesSent
<1>4. PICK X : X = {m} OBVIOUS
<1>5. X \in SUBSET NodeMessage /\ Told(c, d, X) BY <1>1, <1>3, <1>4 DEF Sent, Told
<1>6. /\ X \cap HMsg = {} /\ X \cap WMsg = {} /\ X \cap KMsg = {} /\ X \cap StartMsg = {} /\ X \cap CrashMsg = {}
  BY <1>2, <1>4
<1>7. \A n \in Node : /\ Has(d.toNode[n], HMsg) <=> Has(c.toNode[n], HMsg)
                      /\ One(c.toNode[n], HMsg) => One(d.toNode[n], HMsg)
  BY <1>5, <1>6, Untold
<1>8. \A n \in Node : /\ Has(d.toNode[n], WMsg) <=> Has(c.toNode[n], WMsg)
                      /\ One(c.toNode[n], WMsg) => One(d.toNode[n], WMsg)
  BY <1>5, <1>6, Untold
<1>9. \A n \in Node : /\ Has(d.toNode[n], KMsg) <=> Has(c.toNode[n], KMsg)
                      /\ One(c.toNode[n], KMsg) => One(d.toNode[n], KMsg)
  BY <1>5, <1>6, Untold
<1>10. \A n \in Node : /\ Has(d.toNode[n], StartMsg) <=> Has(c.toNode[n], StartMsg)
                       /\ One(c.toNode[n], StartMsg) => One(d.toNode[n], StartMsg)
  BY <1>5, <1>6, Untold
<1>11. \A n \in Node : /\ Has(d.toNode[n], CrashMsg) <=> Has(c.toNode[n], CrashMsg)
                       /\ One(c.toNode[n], CrashMsg) => One(d.toNode[n], CrashMsg)
  BY <1>5, <1>6, Untold
<1>12. /\ Pending(d, ns, HMsg, HAns) = Pending(c, ns, HMsg, HAns)
       /\ Pending(d, ns, WMsg, WAns) = Pending(c, ns, WMsg, WAns)
       /\ Pending(d, ns, KMsg, KAns) = Pending(c, ns, KMsg, KAns)
       /\ Active(d, ns) = Active(c, ns)
  BY <1>7, <1>8, <1>9, <1>10 DEF Pending, Active
<1>13. Lanes(d, ns)
  <2>1. Lanes(c, ns) BY DEF Fits
  <2> QED BY <1>7, <1>8, <1>9, <1>10, <2>1 DEF Lanes, Lane
<1>14. Kept(c, d) /\ d.toAnalyzer = c.toAnalyzer BY <1>3 DEF Sent
<1>15. Asked("reset", d, ns, p)
  <2>1. Asked("reset", c, ns, p) BY DEF Fits
  <2> QED BY <1>12, <1>14, <2>1 DEF Asked, Kept
<1>16. Counted("reset", S, d, ns, k)
  <2>1. Counted("reset", S, c, ns, k) BY DEF Fits
  <2> QED BY <1>12, <1>14, <2>1 DEF Counted, Kept
<1>17. Tested("reset", d, a) BY <1>14 DEF Fits, Tested
<1>18. ~Announces(c, d) BY <1>14, NothingAnnounced
<1>19. CASE Orderly(p)
  <2>1. InOrder("reset", c, ns, a) BY <1>19 DEF Fits
  <2>2. \A n \in Node : ~Has(c.toNode[n], StartMsg) BY <2>1 DEF InOrder
  <2>3. \A n \in Node : Sorted(c.toNode[n]) => Sorted(d.toNode[n]) BY <1>5, <2>2, ToldSorted
  <2>4. InOrder("reset", d, ns, a) BY <1>10, <1>12, <2>1, <2>3 DEF InOrder
  <2> QED BY <1>13, <1>15, <1>16, <1>17, <1>18, <1>19, <2>4 DEF Fits
<1>20. CASE ~Orderly(p)
  <2>1. NoCrash("reset", S, c, ns, a, k) BY <1>20 DEF Fits
  <2>2. /\ S = {}
        /\ \A n \in Node : ~Has(c.toNode[n], ResetMsg) /\ ~Has(ns[n].out, RAns) /\ ~ns[n].stopPermit
    BY <1>20 DEF Unanswered
  <2>3. ASSUME NEW n \in Node
        PROVE  One(d.toNode[n], ResetMsg) /\ (Has(d.toNode[n], ResetMsg) => n \in d.consensusNodes)
    <3>1. PICK q : q = c.toNode[n] OBVIOUS
    <3>2. q \in Seq(NodeMessage) /\ ~Has(q, ResetMsg) BY <2>2, <3>1 DEF ControllerState
    <3>3. One(q, ResetMsg) BY <3>2 DEF One, Has
    <3>4. One(Append(q, m), ResetMsg) BY <1>1, <3>2, <3>3, LinkSent
    <3>5. d.toNode[n] = IF n \in N THEN Append(q, m) ELSE q BY <1>3, <3>1 DEF Sent
    <3>6. d.consensusNodes = N BY <1>0, <1>14 DEF Kept
    <3> QED BY <3>2, <3>3, <3>4, <3>5, <3>6
  <2>4. NoCrash("reset", S, d, ns, a, k) BY <1>11, <1>14, <2>1, <2>2, <2>3 DEF NoCrash, Kept
  <2> QED BY <1>13, <1>15, <1>16, <1>17, <1>18, <1>20, <2>4 DEF Fits
<1> QED BY <1>19, <1>20

LEMMA HearsAnalyzerFits ==
  ASSUME NEW ph \in Phases, NEW S \in SUBSET Node, NEW c \in ControllerState, NEW ns \in [Node -> NodeState],
         NEW a \in AnalyzerState, NEW b \in AnalyzerState, NEW k, NEW p, NEW pick,
         NEW i \in 1..Len(a.out), HearsEnd(a, b, i), Fits(ph, S, c, ns, a, k, p),
         NEW item, item = a.out[i], NEW d, d = CompletedTest(c, item, pick)
  PROVE  Fitting(d, ns, b, k, p) /\ (Announces(c, d) => RoundOver(c, ns, a))
<1>0. a.out \in Seq(TestItem) BY DEF AnalyzerState
<1>1. item \in TestItem BY <1>0
<1>2. /\ Fits("reset", S, c, ns, b, k, p) /\ ph = "test" /\ a.timers = 0
      /\ ~Orderly(p) => item \notin CrashItem
  BY TestOverFits
<1>3. PICK e : e = AfterRound(c, item) OBVIOUS
<1>4. e \in ControllerState /\ Moves(c, e, item) BY <1>1, <1>3, AfterRoundMoves
<1>5. Fits("reset", S, e, ns, b, k, p) BY <1>1, <1>2, <1>4, MovesFits
<1>6. Unanswered(S, e, ns, p)
  <2>1. Counted("test", S, c, ns, k) BY <1>2 DEF Fits
  <2>2. c.resetCount = 0 /\ \A n \in Node : ~ns[n].stopPermit BY <2>1 DEF Counted
  <2>3. ~Orderly(p) => NoCrash("test", S, c, ns, a, k) BY <1>2 DEF Fits
  <2>4. ~Orderly(p) => S = {} /\ \A n \in Node : ~Has(c.toNode[n], ResetMsg) /\ ~Has(ns[n].out, RAns)
    BY <2>3 DEF NoCrash
  <2> QED BY <1>4, <2>2, <2>4 DEF Unanswered, Moves
<1>7. c.toNode = e.toNode /\ c.toAnalyzer = e.toAnalyzer BY <1>4 DEF Moves
<1>8. Announces(c, d) => Announces(e, d) BY <1>7 DEF Announces
<1>9. RoundOver(e, ns, b) => RoundOver(c, ns, a) BY <1>2, <1>7 DEF RoundOver
<1>10. "reset" \in Phases BY DEF Phases
<1>11. CASE e.panicked
  <2>1. d = e BY <1>3, <1>11 DEF CompletedTest
  <2>2. ~Announces(c, d) BY <1>7, <2>1, NothingAnnounced
  <2> QED BY <1>5, <1>10, <2>1, <2>2 DEF Fitting
<1>12. CASE ~e.panicked /\ Cardinality(e.consensusNodes) = e.crashResetCount
  <2>1. d = AllReset(e, pick) BY <1>3, <1>12 DEF CompletedTest, ResetConsensusNode
  <2>2. S \subseteq e.consensusNodes /\ Cardinality(S) = e.resetCount + e.crashResetCount
    BY <1>5 DEF Fits, Counted
  <2>3. e.crashResetCount \in Nat /\ e.consensusNodes \in SUBSET Node BY <1>4 DEF ControllerState
  <2>4. Cardinality(S) = Cardinality(e.consensusNodes) BY <1>6, <1>12, <2>2, <2>3 DEF Unanswered
  <2>5. S = e.consensusNodes BY <2>2, <2>3, <2>4, FewerCounted
  <2>6. Fitting(AllReset(e, pick), ns, b, k, p) /\ RoundOver(e, ns, b) BY <1>4, <1>5, <2>5, AllResetFits
  <2> QED BY <1>9, <2>1, <2>6
<1>13. CASE ~e.panicked /\ Cardinality(e.consensusNodes) # e.crashResetCount
  <2>1. d = SendNodes(e, e.consensusNodes, Tell("Reset")) BY <1>3, <1>13 DEF CompletedTest, ResetConsensusNode
  <2>2. /\ Fits("reset", S, SendNodes(e, e.consensusNodes, Tell("Reset")), ns, b, k, p)
        /\ ~Announces(e, SendNodes(e, e.consensusNodes, Tell("Reset")))
    BY <1>4, <1>5, <1>6, ResetSentFits
  <2> QED BY <1>8, <1>10, <2>1, <2>2 DEF Fitting
<1> QED BY <1>11, <1>12, <1>13

-----------------------------------------------------------------------------
(* The conspirators' request, and the operator's commands.                  *)

LEMMA ConspireNeutral ==
  ASSUME NEW c \in ControllerState
  PROVE  Neutrally(c, ConspireTimer(c)) /\ Neutrally(c, SendConspireRequest(c))
<1>1. Neutrally(c, ConspireTimer(c))
  <2>1. PICK d : d = ConspireTimer(c) OBVIOUS
  <2>2. PICK t : t = c.conspireTimers - 1 OBVIOUS
  <2>3. d = [c EXCEPT !.conspireTimers = t, !.conspirePermit = TRUE]
    BY <2>1, <2>2 DEF ConspireTimer, ControllerState
  <2>4. Neutrally(c, d) BY <2>3 DEF Neutrally, Told, ControllerState
  <2> QED BY <2>1, <2>4
<1>2. Neutrally(c, SendConspireRequest(c))
  <2>1. PICK e, N, m : /\ e = [c EXCEPT !.conspirePermit = FALSE] /\ N = c.consensusNodes
                       /\ m = Tell("MakeAConsensusRequest")
    OBVIOUS
  <2>2. e \in ControllerState BY <2>1 DEF ControllerState
  <2>3. m \in Neutral BY <2>1, NeutralMessages
  <2>4. PICK d : d = SendNodes(e, N, m) OBVIOUS
  <2>5. Neutrally(e, d) BY <2>2, <2>3, <2>4, SendNeutral
  <2>6. Neutrally(c, d)
    <3>1. /\ e.toNode = c.toNode /\ e.consensusNodes = c.consensusNodes
          /\ e.configureCount = c.configureCount /\ e.scalabilityFirst = c.scalabilityFirst
          /\ e.resetCount = c.resetCount /\ e.crashResetCount = c.crashResetCount
          /\ e.dishonestCount = c.dishonestCount /\ e.dishonestSuccess = c.dishonestSuccess
          /\ e.testItems = c.testItems /\ e.nextMid = c.nextMid /\ e.nextItem = c.nextItem
          /\ e.toAnalyzer = c.toAnalyzer
      BY <2>1 DEF ControllerState
    <3> QED BY <2>5, <3>1 DEF Neutrally, Told
  <2> QED BY <2>1, <2>4, <2>6 DEF SendConspireRequest
<1> QED BY <1>1, <1>2

\* The operator waits until nothing is on the way to a node or from one.
Idle(c, ns) == \A n \in Node : c.toNode[n] = <<>> /\ ns[n].out = <<>>

LEMMA IdleFacts ==
  ASSUME NEW c, NEW ns, Idle(c, ns)
  PROVE  /\ \A n \in Node : \A C : ~Has(c.toNode[n], C) /\ One(c.toNode[n], C) /\ ~Has(ns[n].out, C)
         /\ \A M, A : Pending(c, ns, M, A) = {}
<1>1. \A n \in Node : \A C : ~Has(c.toNode[n], C) /\ One(c.toNode[n], C) /\ ~Has(ns[n].out, C)
  BY LinkEmpty DEF Idle
<1>2. \A M, A : Pending(c, ns, M, A) = {} BY <1>1 DEF Pending
<1> QED BY <1>1, <1>2

\* configureAnalyzer: the first item is announced.
LEMMA FirstItemFits ==
  ASSUME NEW S, NEW c \in ControllerState, NEW ns, NEW a, NEW p,
         Fits("op", S, c, ns, a, 0, p)
  PROVE  Fits("op", S, ConfigureAnalyzer(c), ns, a, 1, p) /\ RoundOver(c, ns, a)
<1>0. PICK d : d = ConfigureAnalyzer(c) OBVIOUS
<1> SUFFICES Fits("op", S, d, ns, a, 1, p) /\ RoundOver(c, ns, a) BY <1>0
<1>1. /\ Kept([c EXCEPT !.testItems = d.testItems, !.nextItem = d.nextItem], d) /\ d.toNode = c.toNode
      /\ IF c.testItems = <<>> THEN d.testItems = c.testItems /\ d.nextItem = NoItem /\ d.toAnalyzer = c.toAnalyzer
         ELSE /\ d.testItems = Tail(c.testItems) /\ d.nextItem = Head(c.testItems)
              /\ d.toAnalyzer = Append(c.toAnalyzer, [type |-> "TestItem", item |-> Head(c.testItems)])
  BY <1>0, ConfigureAnalyzerEffect
<1>2. /\ d.consensusNodes = c.consensusNodes
      /\ d.configureCount = c.configureCount /\ d.scalabilityFirst = c.scalabilityFirst
      /\ d.resetCount = c.resetCount /\ d.crashResetCount = c.crashResetCount
      /\ d.dishonestCount = c.dishonestCount /\ d.dishonestSuccess = c.dishonestSuccess
      /\ d.nextMid = c.nextMid
  BY <1>1 DEF Kept, ControllerState
<1>3. Counted("op", S, c, ns, 0) /\ Tested("op", c, a) /\ Lanes(c, ns) /\ Asked("op", c, ns, p) BY DEF Fits
<1>4. Active(c, ns) = {} BY <1>3 DEF Counted
<1>5. RoundOver(c, ns, a) BY <1>3, <1>4 DEF RoundOver, Active, Tested
<1>6. /\ \A M, A : Pending(d, ns, M, A) = Pending(c, ns, M, A)
      /\ Active(d, ns) = Active(c, ns)
  BY <1>1 DEF Pending, Active
<1>7. Lanes(d, ns) BY <1>1, <1>3 DEF Lanes
<1>8. Asked("op", d, ns, p) BY <1>2, <1>3, <1>6 DEF Asked
<1>9. Counted("op", S, d, ns, 1) BY <1>2, <1>3, <1>4, <1>6 DEF Counted
<1>10. /\ Has(d.toAnalyzer, BeginMsg) => Has(c.toAnalyzer, BeginMsg)
       /\ Has(d.toAnalyzer, EmptyMsg) => Has(c.toAnalyzer, EmptyMsg)
       /\ ~Has(c.testItems, CrashItem) /\ ~Has(c.toAnalyzer, CrashNote) =>
            ~Has(d.testItems, CrashItem) /\ ~Has(d.toAnalyzer, CrashNote)
  <2>1. CASE c.testItems = <<>> BY <1>1, <2>1
  <2>2. CASE c.testItems # <<>>
    <3>1. PICK q, r, item : q = c.testItems /\ r = c.toAnalyzer /\ item = Head(q) OBVIOUS
    <3>2. q \in Seq(TestItem) /\ q # <<>> /\ r \in Seq(AnalyzerMessage) BY <2>2, <3>1 DEF ControllerState
    <3>3. item \in TestItem BY <3>1, <3>2
    <3>4. d.toAnalyzer = Append(r, [type |-> "TestItem", item |-> item]) /\ d.testItems = Tail(q)
      BY <1>1, <2>2, <3>1
    <3>5. /\ Has(d.toAnalyzer, CrashNote) => Has(r, CrashNote) \/ item \in CrashItem
          /\ Has(d.toAnalyzer, BeginMsg) => Has(r, BeginMsg)
          /\ Has(d.toAnalyzer, EmptyMsg) => Has(r, EmptyMsg)
      BY <3>2, <3>3, <3>4, ItemSent
    <3>6. /\ Head(q) \in CrashItem => Has(q, CrashItem)
          /\ Has(Tail(q), CrashItem) => Has(q, CrashItem)
      BY <3>2, ItemsLeft
    <3> QED BY <3>1, <3>4, <3>5, <3>6
  <2> QED BY <2>1, <2>2
<1>11. Tested("op", d, a) BY <1>3, <1>10 DEF Tested
<1>12. CASE Orderly(p)
  <2>1. InOrder("op", c, ns, a) BY <1>12 DEF Fits
  <2>2. InOrder("op", d, ns, a) BY <1>1, <1>6, <2>1 DEF InOrder
  <2> QED BY <1>5, <1>7, <1>8, <1>9, <1>11, <1>12, <2>2 DEF Fits
<1>13. CASE ~Orderly(p)
  <2>1. NoCrash("op", S, c, ns, a, 0) BY <1>13 DEF Fits
  <2>2. NoItem.kind # "Scalability" BY DEF NoItem, Item
  <2>3. d.nextItem.kind # "Scalability"
    <3>1. CASE c.testItems = <<>> BY <1>1, <2>2, <3>1
    <3>2. CASE c.testItems # <<>> BY <1>1, <2>1, <3>2 DEF NoCrash
    <3> QED BY <3>1, <3>2
  <2>4. NoCrash("op", S, d, ns, a, 1) BY <1>1, <1>2, <1>10, <2>1, <2>3 DEF NoCrash
  <2> QED BY <1>5, <1>7, <1>8, <1>9, <1>11, <1>13, <2>4 DEF Fits
<1> QED BY <1>12, <1>13

\* configureConsensusNode.
LEMMA FirstModesFit ==
  ASSUME NEW S, NEW c \in ControllerState, NEW ns, NEW a, NEW p, NEW pick,
         Fits("op", S, c, ns, a, 1, p), Idle(c, ns)
  PROVE  /\ Fits("op", S, ConfigureConsensusNode(c, "HonestFirst", pick), ns, a, 2, p)
         /\ ~Announces(c, ConfigureConsensusNode(c, "HonestFirst", pick))
<1>0. PICK d : d = ConfigureConsensusNode(c, "HonestFirst", pick) OBVIOUS
<1> SUFFICES Fits("op", S, d, ns, a, 2, p) /\ ~Announces(c, d) BY <1>0
<1>1. d \in ControllerState /\ Configures(c, d, "HonestFirst")
  BY <1>0, ConfigureConsensusNodeTyped, ConfigureConsensusNodeEffect
<1>2. PICK s, e : s = d.scalabilityFirst /\ e = [c EXCEPT !.consensusNodes = {}, !.scalabilityFirst = s] OBVIOUS
<1>3. s \in Nat /\ e \in ControllerState BY <1>1, <1>2 DEF ControllerState
<1>4. /\ e.toNode = c.toNode /\ e.toAnalyzer = c.toAnalyzer /\ e.consensusNodes = {} /\ e.scalabilityFirst = s
      /\ e.configureCount = c.configureCount
      /\ e.resetCount = c.resetCount /\ e.crashResetCount = c.crashResetCount
      /\ e.dishonestCount = c.dishonestCount /\ e.dishonestSuccess = c.dishonestSuccess
      /\ e.testItems = c.testItems /\ e.nextMid = c.nextMid /\ e.nextItem = c.nextItem
  BY <1>2 DEF ControllerState
<1>5. Kept(e, d) /\ d.toAnalyzer = c.toAnalyzer /\ (s = c.scalabilityFirst \/ c.nextItem.kind = "Scalability")
  BY <1>1, <1>2 DEF Configures
<1>6. Told(e, d, Neutral) BY <1>1, <1>4, NeutralMessages DEF Told, Configures
<1>7. Neutrally(e, d) BY <1>4, <1>5, <1>6 DEF Neutrally, Kept
<1>8. ~Announces(c, d) BY <1>5, NothingAnnounced
<1>9. Counted("op", S, c, ns, 1) /\ Tested("op", c, a) /\ Lanes(c, ns) /\ Asked("op", c, ns, p) BY DEF Fits
<1>10. /\ \A M, A : Pending(e, ns, M, A) = {} /\ Pending(c, ns, M, A) = {}
       /\ Active(e, ns) = Active(c, ns)
  BY <1>4, IdleFacts DEF Pending, Active
<1>11. Active(c, ns) = {} /\ S = {} BY <1>9 DEF Counted
<1>12. Lanes(e, ns) BY <1>4, <1>9 DEF Lanes
<1>13. ~Orderly(p) => s = c.scalabilityFirst BY <1>5 DEF Fits, NoCrash
<1>14. Asked("op", e, ns, p) BY <1>4, <1>9, <1>10, <1>13 DEF Asked
<1>15. Counted("op", S, e, ns, 2) BY <1>4, <1>9, <1>10, <1>11 DEF Counted
<1>16. Tested("op", e, a) BY <1>4, <1>9 DEF Tested
<1>17. Fits("op", S, e, ns, a, 2, p)
  <2>1. CASE Orderly(p)
    <3>1. InOrder("op", c, ns, a) BY <2>1 DEF Fits
    <3>2. InOrder("op", e, ns, a) BY <1>4, <1>10, <3>1 DEF InOrder
    <3> QED BY <1>12, <1>14, <1>15, <1>16, <2>1, <3>2 DEF Fits
  <2>2. CASE ~Orderly(p)
    <3>1. NoCrash("op", S, c, ns, a, 1) BY <2>2 DEF Fits
    <3>2. NoCrash("op", S, e, ns, a, 2) BY <1>4, <3>1 DEF NoCrash
    <3> QED BY <1>12, <1>14, <1>15, <1>16, <2>2, <3>2 DEF Fits
  <2> QED BY <2>1, <2>2
<1>18. Fits("op", S, d, ns, a, 2, p) BY <1>3, <1>7, <1>17, NeutralFits
<1> QED BY <1>8, <1>18

\* protocolStart.
LEMMA FirstStartFits ==
  ASSUME NEW S, NEW c \in ControllerState, NEW ns, NEW a, NEW p,
         Fits("op", S, c, ns, a, 2, p), Idle(c, ns)
  PROVE  Fits("op", S, ProtocolStart(c), ns, a, 3, p) /\ ~Announces(c, ProtocolStart(c))
<1>0. PICK N, m, d : N = c.consensusNodes /\ m = Tell("ProtocolStart") /\ d = SendNodes(c, N, m) OBVIOUS
<1> SUFFICES Fits("op", S, d, ns, a, 3, p) /\ ~Announces(c, d) BY <1>0 DEF ProtocolStart
<1>1. m \in NodeMessage /\ m.type = "ProtocolStart" /\ m.mode.kind = "Uninitialized"
  BY <1>0, ModesTyped DEF Tell, Say, SimpleMode
<1>2. m \notin HMsg /\ m \notin WMsg /\ m \notin KMsg /\ m \notin ResetMsg /\ m \notin CrashMsg
  BY <1>1 DEF HMsg, WMsg, KMsg, ResetMsg, CrashMsg, Answered
<1>3. Sent(c, d, N, m) BY <1>0, SendNodesSent
<1>4. Kept(c, d) /\ d.toAnalyzer = c.toAnalyzer BY <1>3 DEF Sent
<1>5. ASSUME NEW n \in Node
      PROVE  /\ \A C : One(d.toNode[n], C) /\ (Has(d.toNode[n], C) => m \in C /\ n \in N)
             /\ Sorted(d.toNode[n])
  <2>1. PICK q, e : q = d.toNode[n] /\ e = c.toNode[n] OBVIOUS
  <2>0. e = <<>> BY <2>1 DEF Idle
  <2>2. e = <<>> /\ e \in Seq(NodeMessage) BY <2>0, <2>1 DEF ControllerState
  <2>3. \A C : ~Has(e, C) /\ One(e, C) BY <2>2, LinkEmpty
  <2>4. Sorted(e) BY <2>2 DEF Sorted
  <2>5. \A C : /\ Has(Append(e, m), C) <=> Has(e, C) \/ m \in C
               /\ One(e, C) /\ (m \in C => ~Has(e, C)) => One(Append(e, m), C)
    BY <1>1, <2>2, LinkSent
  <2>6. Sorted(Append(e, m)) BY <1>1, <1>2, <2>2, <2>4, SortedSent
  <2>7. q = IF n \in N THEN Append(e, m) ELSE e BY <1>3, <2>1 DEF Sent
  <2> QED BY <2>1, <2>3, <2>4, <2>5, <2>6, <2>7
<1>6. Counted("op", S, c, ns, 2) /\ Tested("op", c, a) /\ Lanes(c, ns) /\ Asked("op", c, ns, p) BY DEF Fits
<1>7. \A n \in Node : \A C : ~Has(ns[n].out, C) BY IdleFacts
<1>8. \A n \in Node : ~ns[n].running BY <1>6 DEF Counted, Active
<1>9. Lanes(d, ns)
  <2>1. \A n \in Node : \A C : One(ns[n].out, C) BY <1>7 DEF One, Has
  <2> QED BY <1>5, <1>6, <1>7, <1>8, <2>1 DEF Lanes, Lane
<1>10. /\ Pending(d, ns, HMsg, HAns) = {} /\ Pending(d, ns, WMsg, WAns) = {} /\ Pending(d, ns, KMsg, KAns) = {}
       /\ Pending(c, ns, HMsg, HAns) = {} /\ Pending(c, ns, WMsg, WAns) = {} /\ Pending(c, ns, KMsg, KAns) = {}
  BY <1>2, <1>5, <1>7, IdleFacts DEF Pending
<1>11. Asked("op", d, ns, p) BY <1>4, <1>6, <1>10 DEF Asked, Kept
<1>12. Active(d, ns) \subseteq N BY <1>5, <1>7, <1>8 DEF Active
<1>13. S = {} /\ N = d.consensusNodes BY <1>0, <1>4, <1>6 DEF Counted, Kept
<1>14. Counted("op", S, d, ns, 3)
  <2>1. "op" \notin Configuring /\ "op" # "test" /\ "op" # "reset" /\ 3 < 4 /\ ~(3 <= 2) BY DEF Configuring
  <2>2. S \cup Active(d, ns) \subseteq d.consensusNodes /\ S \cap Active(d, ns) = {} BY <1>12, <1>13
  <2>3. Cardinality(S) = d.resetCount + d.crashResetCount BY <1>4, <1>6 DEF Counted, Kept
  <2>4. \A n \in Node : ~ns[n].stopPermit /\ ~Has(ns[n].out, RAns) /\ ns[n].mode.kind # "Crash"
    BY <1>6 DEF Counted
  <2> QED BY <1>13, <2>1, <2>2, <2>3, <2>4 DEF Counted
<1>15. Tested("op", d, a) BY <1>4, <1>6 DEF Tested
<1>16. ~Announces(c, d) BY <1>4, NothingAnnounced
<1>17. CASE Orderly(p)
  <2>1. InOrder("op", c, ns, a) /\ ~Ended(a) BY <1>6, <1>17 DEF Fits, Tested
  <2>2. InOrder("op", d, ns, a) BY <1>2, <1>5, <1>8, <2>1 DEF InOrder
  <2> QED BY <1>9, <1>11, <1>14, <1>15, <1>16, <1>17, <2>2 DEF Fits
<1>18. CASE ~Orderly(p)
  <2>1. NoCrash("op", S, c, ns, a, 2) BY <1>18 DEF Fits
  <2>2. NoCrash("op", S, d, ns, a, 3) BY <1>2, <1>4, <1>5, <2>1 DEF NoCrash, Kept
  <2> QED BY <1>9, <1>11, <1>14, <1>15, <1>16, <1>18, <2>2 DEF Fits
<1> QED BY <1>17, <1>18

\* startTest.
LEMMA FirstTestFits ==
  ASSUME NEW S \in SUBSET Node, NEW c \in ControllerState, NEW ns, NEW a \in AnalyzerState, NEW p,
         Fits("op", S, c, ns, a, 3, p), Idle(c, ns)
  PROVE  Fits("test", S, StartTest(c), ns, a, 4, p) /\ ~Announces(c, StartTest(c))
<1>0. PICK d, m : d = StartTest(c) /\ m = [type |-> "StartTest", item |-> NoItem] OBVIOUS
<1> SUFFICES Fits("test", S, d, ns, a, 4, p) /\ ~Announces(c, d) BY <1>0
<1>1. Kept(c, d) /\ d.toNode = c.toNode /\ d.toAnalyzer = Append(c.toAnalyzer, m)
  BY <1>0, SendAnalyzerEffect DEF StartTest
<1>2. m \in AnalyzerMessage /\ m.type = "StartTest" /\ m.item = NoItem BY <1>0 DEF AnalyzerMessage
<1>3. ~Announces(c, d) BY <1>1, <1>2, NothingAnnounced
<1>4. Counted("op", S, c, ns, 3) /\ Tested("op", c, a) /\ Lanes(c, ns) /\ Asked("op", c, ns, p) BY DEF Fits
<1>5. /\ One(d.toAnalyzer, BeginMsg) /\ ~Has(d.toAnalyzer, EmptyMsg)
      /\ Has(d.toAnalyzer, CrashNote) => Has(c.toAnalyzer, CrashNote)
  <2>1. PICK q : q = c.toAnalyzer OBVIOUS
  <2>2. q \in Seq(AnalyzerMessage) BY <2>1 DEF ControllerState
  <2>3. ~Has(q, BeginMsg) /\ ~Has(q, EmptyMsg) BY <1>4, <2>1 DEF Tested
  <2>4. One(q, BeginMsg) BY <2>3 DEF One, Has
  <2>5. m \notin EmptyMsg /\ m \notin CrashNote BY <1>2 DEF EmptyMsg, CrashNote, CrashItem, NoItem, Item
  <2>6. \A C : /\ Has(Append(q, m), C) <=> Has(q, C) \/ m \in C
               /\ One(q, C) /\ (m \in C => ~Has(q, C)) => One(Append(q, m), C)
    BY <1>2, <2>2, LinkSent
  <2> QED BY <1>1, <2>1, <2>3, <2>4, <2>5, <2>6
<1>6. a.timers = 0 /\ ~Ended(a) /\ a.out = <<>> BY <1>4 DEF Tested, Ended
<1>7. Tested("test", d, a) BY <1>4, <1>5, <1>6 DEF Tested, Ended
<1>8. Lanes(d, ns) BY <1>1, <1>4 DEF Lanes
<1>9. /\ \A M, A : Pending(d, ns, M, A) = Pending(c, ns, M, A)
      /\ Active(d, ns) = Active(c, ns)
  BY <1>1 DEF Pending, Active
<1>10. Asked("test", d, ns, p) BY <1>1, <1>4, <1>9 DEF Asked, Kept
<1>11. Counted("test", S, d, ns, 4)
  <2>1. S = {} /\ Cardinality(S) = c.resetCount + c.crashResetCount BY <1>4 DEF Counted
  <2>2. c.resetCount \in Nat /\ c.crashResetCount \in Nat /\ Cardinality(S) = 0
    BY <2>1, FS_EmptySet DEF ControllerState
  <2>3. c.resetCount = 0 BY <2>1, <2>2
  <2>4. \A n \in Node : ~Has(ns[n].out, StopAns) BY IdleFacts
  <2>5. "test" \notin Configuring BY DEF Configuring
  <2> QED BY <1>1, <1>4, <1>9, <2>3, <2>4, <2>5 DEF Counted, Kept
<1>12. CASE Orderly(p)
  <2>1. InOrder("op", c, ns, a) BY <1>12 DEF Fits
  <2>2. InOrder("test", d, ns, a) BY <1>1, <1>6, <2>1 DEF InOrder
  <2> QED BY <1>3, <1>7, <1>8, <1>10, <1>11, <1>12, <2>2 DEF Fits
<1>13. CASE ~Orderly(p)
  <2>1. NoCrash("op", S, c, ns, a, 3) BY <1>13 DEF Fits
  <2>2. NoCrash("test", S, d, ns, a, 4) BY <1>1, <1>5, <2>1 DEF NoCrash, Kept
  <2> QED BY <1>3, <1>7, <1>8, <1>10, <1>11, <1>13, <2>2 DEF Fits
<1> QED BY <1>12, <1>13

LEMMA CommandsFit ==
  ASSUME NEW ph \in Phases, NEW S \in SUBSET Node, NEW c \in ControllerState, NEW ns, NEW a \in AnalyzerState,
         NEW k \in 0..3, NEW p, NEW pick, NEW d, Idle(c, ns), Fits(ph, S, c, ns, a, k, p),
         \/ k = 0 /\ d = ConfigureAnalyzer(c)
         \/ k = 1 /\ d = ConfigureConsensusNode(c, "HonestFirst", pick)
         \/ k = 2 /\ d = ProtocolStart(c)
         \/ k = 3 /\ d = StartTest(c)
  PROVE  Fitting(d, ns, a, k + 1, p) /\ (Announces(c, d) => RoundOver(c, ns, a))
<1>1. ph = "op"
  <2>1. k < 4 BY DEF Fits
  <2>2. Counted(ph, S, c, ns, k) BY DEF Fits
  <2> QED BY <2>1, <2>2 DEF Counted
<1>2. "op" \in Phases /\ "test" \in Phases BY DEF Phases
<1>3. CASE k = 0 /\ d = ConfigureAnalyzer(c)
  <2>1. Fits("op", S, ConfigureAnalyzer(c), ns, a, 1, p) /\ RoundOver(c, ns, a) BY <1>1, <1>3, FirstItemFits
  <2>2. k + 1 = 1 BY <1>3
  <2> QED BY <1>2, <1>3, <2>1, <2>2 DEF Fitting
<1>4. CASE k = 1 /\ d = ConfigureConsensusNode(c, "HonestFirst", pick)
  <2>1. /\ Fits("op", S, ConfigureConsensusNode(c, "HonestFirst", pick), ns, a, 2, p)
        /\ ~Announces(c, ConfigureConsensusNode(c, "HonestFirst", pick))
    BY <1>1, <1>4, FirstModesFit
  <2>2. k + 1 = 2 BY <1>4
  <2> QED BY <1>2, <1>4, <2>1, <2>2 DEF Fitting
<1>5. CASE k = 2 /\ d = ProtocolStart(c)
  <2>1. Fits("op", S, ProtocolStart(c), ns, a, 3, p) /\ ~Announces(c, ProtocolStart(c))
    BY <1>1, <1>5, FirstStartFits
  <2>2. k + 1 = 3 BY <1>5
  <2> QED BY <1>2, <1>5, <2>1, <2>2 DEF Fitting
<1>6. CASE k = 3 /\ d = StartTest(c)
  <2>1. Fits("test", S, StartTest(c), ns, a, 4, p) /\ ~Announces(c, StartTest(c))
    BY <1>1, <1>6, FirstTestFits
  <2>2. k + 1 = 4 BY <1>6
  <2> QED BY <1>2, <1>6, <2>1, <2>2 DEF Fitting
<1> QED BY <1>3, <1>4, <1>5, <1>6

-----------------------------------------------------------------------------
(* The session.                                                             *)

LEMMA RoundsBegin ==
  ASSUME Init, InScope(plan)
  PROVE  RoundInv
<1>1. TypeOK BY InitTyped
<1>2. PICK s \in Orders : ctl = NewController(plan.items, s) BY DEF Init
<1>3. /\ ctl.consensusNodes = {} /\ ctl.configureCount = 0 /\ ctl.scalabilityFirst = 0
      /\ ctl.resetCount = 0 /\ ctl.crashResetCount = 0 /\ ctl.dishonestCount = 0 /\ ctl.dishonestSuccess = 0
      /\ ctl.testItems = plan.items /\ ctl.nextMid = NoItem /\ ctl.nextItem = NoItem
      /\ ctl.toAnalyzer = <<>> /\ \A n \in Node : ctl.toNode[n] = <<>>
  BY <1>2 DEF NewController
<1>4. \A n \in Node : /\ node[n].out = <<>> /\ ~node[n].running /\ ~node[n].stopPermit
                      /\ node[n].crashTimers = 0 /\ ~node[n].crashPermit /\ node[n].mode.kind = "Uninitialized"
  BY DEF Init, NewNode, SimpleMode
<1>5. ana.item = NoItem /\ ana.timers = 0 /\ ~ana.completedPermit /\ ~ana.panicked /\ ana.out = <<>> /\ cli = 0
  BY DEF Init, NewAnalyzer
<1>6. Idle(ctl, node) BY <1>3, <1>4 DEF Idle
<1>7. /\ \A n \in Node : \A C : ~Has(ctl.toNode[n], C) /\ One(ctl.toNode[n], C) /\ ~Has(node[n].out, C)
      /\ \A M, A : Pending(ctl, node, M, A) = {}
  BY <1>6, IdleFacts
<1>8. Active(ctl, node) = {} BY <1>4, <1>7 DEF Active
<1>9. Lanes(ctl, node)
  <2>1. \A n \in Node : \A C : One(node[n].out, C) BY <1>4, LinkEmpty
  <2> QED BY <1>4, <1>7, <2>1 DEF Lanes, Lane
<1>10. Cardinality({}) = 0 /\ Cardinality(Node) \in Nat /\ Cardinality(Node) # 0
  BY NodesAssumption, FS_EmptySet, NodesCounted
<1>11. Asked("op", ctl, node, plan)
  <2>1. 0 < Cardinality(Node) /\ 0 + 0 < Cardinality(Node) BY <1>10
  <2>2. PICK H, W, K : /\ H = Pending(ctl, node, HMsg, HAns) /\ W = Pending(ctl, node, WMsg, WAns)
                       /\ K = Pending(ctl, node, KMsg, KAns)
    OBVIOUS
  <2>3. H = {} /\ W = {} /\ K = {} /\ Cardinality(H) = 0 BY <1>7, <1>10, <2>2
  <2>4. "op" \notin {"cfgH", "cfgW", "cfgK"} OBVIOUS
  <2> QED BY <1>3, <2>1, <2>2, <2>3, <2>4 DEF Asked
<1>12. Counted("op", {}, ctl, node, cli)
  <2>1. "op" \notin Configuring BY DEF Configuring
  <2>2. PICK A : A = Active(ctl, node) OBVIOUS
  <2>3. /\ {} \cup A \subseteq ctl.consensusNodes /\ {} \cap A = {}
        /\ Cardinality({}) = ctl.resetCount + ctl.crashResetCount
    BY <1>3, <1>8, <1>10, <2>2
  <2>4. \A n \in Node : ~node[n].stopPermit /\ ~Has(node[n].out, RAns) /\ node[n].mode.kind # "Crash"
    BY <1>4, <1>7
  <2>5. cli < 4 BY <1>5
  <2> QED BY <1>8, <2>1, <2>2, <2>3, <2>4, <2>5 DEF Counted
<1>13. \A C : ~Has(ctl.toAnalyzer, C) /\ ~Has(ana.out, C) BY <1>3, <1>5, LinkEmpty
<1>14. ~Ended(ana) BY <1>5 DEF Ended
<1>15. Tested("op", ctl, ana) BY <1>5, <1>13, <1>14 DEF Tested
<1>16. Fits("op", {}, ctl, node, ana, cli, plan)
  <2>1. CASE Orderly(plan)
    <3>1. \A n \in Node : Sorted(ctl.toNode[n]) BY <1>3 DEF Sorted
    <3>2. InOrder("op", ctl, node, ana) BY <1>4, <1>7, <1>14, <3>1 DEF InOrder
    <3> QED BY <1>9, <1>11, <1>12, <1>15, <2>1, <3>2 DEF Fits
  <2>2. CASE ~Orderly(plan)
    <3>1. /\ \A i \in 1..Len(plan.items) : plan.items[i].kind # "Crash"
          /\ plan.items # <<>> => Head(plan.items).kind # "Scalability"
      BY <2>2 DEF InScope
    <3>2. ~Has(ctl.testItems, CrashItem) BY <1>3, <3>1 DEF Has, CrashItem
    <3>3. NoItem \notin CrashItem BY DEF CrashItem, NoItem, Item
    <3>4. \A n \in Node : node[n].crashTimers = 0 /\ ~node[n].crashPermit /\ node[n].mode.kind # "Crash" BY <1>4
    <3>5. /\ ctl.nextMid \notin CrashItem /\ ana.item \notin CrashItem
          /\ ~Has(ctl.toAnalyzer, CrashNote) /\ ~Has(ana.out, CrashItem)
      BY <1>3, <1>5, <1>13, <3>3
    <3>6. ctl.testItems # <<>> => Head(ctl.testItems).kind # "Scalability" BY <1>3, <3>1
    <3>7. cli # 1 BY <1>5
    <3>8. NoCrash("op", {}, ctl, node, ana, cli) BY <1>7, <3>2, <3>4, <3>5, <3>6, <3>7 DEF NoCrash
    <3> QED BY <1>9, <1>11, <1>12, <1>15, <2>2, <3>8 DEF Fits
  <2> QED BY <2>1, <2>2
<1>17. "op" \in Phases /\ {} \in SUBSET Node BY DEF Phases
<1> QED BY <1>1, <1>16, <1>17 DEF RoundInv

\* What a step makes of the invariant, and of the rounds.
RoundStep ==
  /\ Fitting(ctl', node', ana', cli', plan')
  /\ Announces(ctl, ctl') => RoundOver(ctl, node, ana)

LEMMA OperatorRounds ==
  ASSUME RoundInv, Operator
  PROVE  RoundStep
<1>1. PICK ph \in Phases, S \in SUBSET Node : Fits(ph, S, ctl, node, ana, cli, plan) BY DEF RoundInv
<1>2. ctl \in ControllerState /\ ana \in AnalyzerState BY DEF RoundInv, TypeOK
<1>3. PICK k, d, pick :
        /\ k \in 0..3 /\ Command(k, d)
        /\ \/ k = 0 /\ d = ConfigureAnalyzer(ctl)
           \/ k = 1 /\ d = ConfigureConsensusNode(ctl, "HonestFirst", pick)
           \/ k = 2 /\ d = ProtocolStart(ctl)
           \/ k = 3 /\ d = StartTest(ctl)
  BY DEF Operator
<1>4. /\ cli = k /\ cli' = k + 1 /\ ctl' = d /\ node' = node /\ ana' = ana /\ plan' = plan
      /\ Idle(ctl, node)
  BY <1>3 DEF Command, LinksEmpty, Idle
<1>5. Fits(ph, S, ctl, node, ana, k, plan) BY <1>1, <1>4
<1>6. Fitting(d, node, ana, k + 1, plan) /\ (Announces(ctl, d) => RoundOver(ctl, node, ana))
  BY <1>2, <1>3, <1>4, <1>5, CommandsFit
<1> QED BY <1>4, <1>6 DEF RoundStep

LEMMA NodeRounds ==
  ASSUME RoundInv, TypeOK', NEW n \in Node,
         \/ NodeTakes(n) \/ NodeStops(n) \/ NodeCrashes(n) \/ NodeTriggers(n)
         \/ NodePanics(n) \/ CrashTimerFires(n) \/ MaliciousTimerFires(n)
  PROVE  RoundStep
<1>1. PICK ph \in Phases, S \in SUBSET Node : Fits(ph, S, ctl, node, ana, cli, plan) BY DEF RoundInv
<1>2. /\ ctl \in ControllerState /\ node \in [Node -> NodeState] /\ plan \in Plans
      /\ ctl' \in ControllerState /\ node' \in [Node -> NodeState] /\ node[n] \in NodeState
  BY DEF RoundInv, TypeOK
<1>3. CASE NodeTakes(n)
  <2>1. PICK i \in Takeable(ctl.toNode[n], plan.ordered) :
          /\ node' = [node EXCEPT ![n] = Handle(@, ctl.toNode[n][i])]
          /\ ctl' = [ctl EXCEPT !.toNode[n] = Without(@, i)]
          /\ UNCHANGED <<plan, ana, cli>>
    BY <1>3 DEF NodeTakes
  <2>2. Fits(ph, S, ctl', node', ana, cli, plan) BY <1>1, <1>2, <2>1, TakesFits
  <2>3. ctl'.toAnalyzer = ctl.toAnalyzer BY <1>2, <2>1 DEF ControllerState
  <2>4. ~Announces(ctl, ctl') BY <1>2, <2>3, NothingAnnounced
  <2> QED BY <2>1, <2>2, <2>4 DEF RoundStep, Fitting
<1>4. ASSUME NEW enabled, NEW t \in NodeState, NodeStep(n, enabled, t), OwnStep(ph, node[n], t, ana, plan)
      PROVE  RoundStep
  <2>1. node' = [node EXCEPT ![n] = t] /\ UNCHANGED <<plan, ctl, ana, cli>> BY <1>4 DEF NodeStep
  <2>2. Fits(ph, S, ctl, node', ana, cli, plan) BY <1>1, <1>2, <1>4, <2>1, OwnStepFits
  <2>3. ~Announces(ctl, ctl') BY <1>2, <2>1, NothingAnnounced
  <2> QED BY <2>1, <2>2, <2>3 DEF RoundStep, Fitting
<1>5. PICK s : s = node[n] OBVIOUS
<1>6. /\ s.running /\ s.stopPermit => OwnStep(ph, s, Stop(s), ana, plan)
      /\ s.running /\ s.crashPermit => OwnStep(ph, s, Crash(s), ana, plan)
      /\ OwnStep(ph, s, Trigger(s), ana, plan) /\ OwnStep(ph, s, Panic(s), ana, plan)
      /\ s.crashTimers > 0 => OwnStep(ph, s, CrashTimer(s), ana, plan)
      /\ OwnStep(ph, s, MaliciousTimer(s), ana, plan)
  BY <1>1, <1>2, <1>5, OwnSteps
<1>7. /\ Stop(s) \in NodeState /\ Crash(s) \in NodeState /\ Trigger(s) \in NodeState
      /\ Panic(s) \in NodeState
      /\ s.crashTimers > 0 => CrashTimer(s) \in NodeState
      /\ s.maliciousTimers > 0 => MaliciousTimer(s) \in NodeState
  BY <1>2, <1>5, NodeStepsTyped
<1>8. CASE NodeStops(n)
  <2>1. OwnStep(ph, node[n], Stop(node[n]), ana, plan) BY <1>5, <1>6, <1>8 DEF NodeStops, NodeStep
  <2> QED BY <1>4, <1>5, <1>7, <1>8, <2>1 DEF NodeStops
<1>9. CASE NodeCrashes(n)
  <2>1. OwnStep(ph, node[n], Crash(node[n]), ana, plan) BY <1>5, <1>6, <1>9 DEF NodeCrashes, NodeStep
  <2> QED BY <1>4, <1>5, <1>7, <1>9, <2>1 DEF NodeCrashes
<1>10. CASE NodeTriggers(n)
  BY <1>4, <1>5, <1>6, <1>7, <1>10 DEF NodeTriggers
<1>11. CASE CrashTimerFires(n)
  <2>1. OwnStep(ph, node[n], CrashTimer(node[n]), ana, plan) /\ CrashTimer(node[n]) \in NodeState
    BY <1>5, <1>6, <1>7, <1>11 DEF CrashTimerFires, NodeStep
  <2> QED BY <1>4, <1>11, <2>1 DEF CrashTimerFires
<1>12. CASE MaliciousTimerFires(n)
  <2>1. OwnStep(ph, node[n], MaliciousTimer(node[n]), ana, plan) /\ MaliciousTimer(node[n]) \in NodeState
    BY <1>5, <1>6, <1>7, <1>12 DEF MaliciousTimerFires, NodeStep
  <2> QED BY <1>4, <1>12, <2>1 DEF MaliciousTimerFires
<1>13. CASE NodePanics(n)
  BY <1>4, <1>5, <1>6, <1>7, <1>13 DEF NodePanics
<1> QED BY <1>3, <1>8, <1>9, <1>10, <1>11, <1>12, <1>13

LEMMA AnalyzerRounds ==
  ASSUME RoundInv, TypeOK', AnalyzerTakes \/ TestTimerFires \/ AnalyzerCompletes
  PROVE  RoundStep
<1>1. PICK ph \in Phases, S \in SUBSET Node : Fits(ph, S, ctl, node, ana, cli, plan) BY DEF RoundInv
<1>2. /\ ctl \in ControllerState /\ node \in [Node -> NodeState] /\ plan \in Plans /\ ana \in AnalyzerState
      /\ ctl' \in ControllerState /\ ana' \in AnalyzerState
  BY DEF RoundInv, TypeOK
<1>3. CASE AnalyzerTakes
  <2>1. PICK i \in Takeable(ctl.toAnalyzer, plan.ordered) :
          /\ ana' = HandleController(ana, ctl.toAnalyzer[i])
          /\ ctl' = [ctl EXCEPT !.toAnalyzer = Without(@, i)]
    BY <1>3 DEF AnalyzerTakes
  <2>2. UNCHANGED <<plan, node, cli>> BY <1>3 DEF AnalyzerTakes
  <2>3. Fits(ph, S, ctl', node, ana', cli, plan) BY <1>1, <1>2, <2>1, AnalyzerTakesFits
  <2>4. PICK q : q = ctl.toAnalyzer OBVIOUS
  <2>5. q \in Seq(AnalyzerMessage) /\ i \in 1..Len(q)
    BY <1>2, <2>1, <2>4, TakeableIn, PlansAssumption DEF ControllerState
  <2>6. Len(Without(q, i)) = Len(q) - 1 /\ Len(q) \in Nat BY <2>5, WithoutElements
  <2>7. ctl'.toAnalyzer = Without(q, i) BY <1>2, <2>1, <2>4 DEF ControllerState
  <2>8. ~Announces(ctl, ctl') BY <2>4, <2>6, <2>7 DEF Announces
  <2> QED BY <2>2, <2>3, <2>8 DEF RoundStep, Fitting
<1>4. CASE TestTimerFires
  <2>1. ana.timers > 0 /\ (plan.timely => Quiet) /\ ana' = TestTimer(ana) /\ UNCHANGED <<plan, ctl, node, cli>>
    BY <1>4 DEF TestTimerFires
  <2>2. plan.timely => \A n \in Node : ctl.toNode[n] = <<>> /\ node[n].out = <<>> /\ Settled(node[n])
    BY <2>1 DEF Quiet, LinksEmpty
  <2>3. Fits(ph, S, ctl, node, TestTimer(ana), cli, plan) BY <1>1, <1>2, <2>1, <2>2, TestTimerFits
  <2>4. ~Announces(ctl, ctl') BY <1>2, <2>1, NothingAnnounced
  <2> QED BY <2>1, <2>3, <2>4 DEF RoundStep, Fitting
<1>5. CASE AnalyzerCompletes
  <2>1. ana.completedPermit /\ ana' = CompleteTest(ana) /\ UNCHANGED <<plan, ctl, node, cli>>
    BY <1>5 DEF AnalyzerCompletes
  <2>2. Fits(ph, S, ctl, node, CompleteTest(ana), cli, plan) BY <1>1, <1>2, <2>1, CompletesFits
  <2>3. ~Announces(ctl, ctl') BY <1>2, <2>1, NothingAnnounced
  <2> QED BY <2>1, <2>2, <2>3 DEF RoundStep, Fitting
<1> QED BY <1>3, <1>4, <1>5

LEMMA ControllerRounds ==
  ASSUME RoundInv, TypeOK',
         \/ \E n \in Node : ControllerHearsNode(n)
         \/ ControllerHearsAnalyzer \/ ConspireTimerFires \/ ControllerConspires
  PROVE  RoundStep
<1>1. PICK ph \in Phases, S \in SUBSET Node : Fits(ph, S, ctl, node, ana, cli, plan) BY DEF RoundInv
<1>2. /\ ctl \in ControllerState /\ node \in [Node -> NodeState] /\ plan.ordered \in BOOLEAN /\ ana \in AnalyzerState
      /\ node' \in [Node -> NodeState] /\ ana' \in AnalyzerState
  BY PlansAssumption DEF RoundInv, TypeOK
<1>3. ASSUME NEW n \in Node, ControllerHearsNode(n)
      PROVE  RoundStep
  <2>1. PICK i \in Takeable(node[n].out, plan.ordered), pick \in Node :
          /\ ctl' = HandleFeedback(ctl, n, node[n].out[i], pick)
          /\ node' = [node EXCEPT ![n].out = Without(@, i)]
    BY <1>3 DEF ControllerHearsNode
  <2>2. UNCHANGED <<plan, ana, cli>> BY <1>3 DEF ControllerHearsNode
  <2>3. node[n].out \in Seq(Feedback) BY <1>2 DEF NodeState
  <2>4. i \in 1..Len(node[n].out) BY <1>2, <2>1, <2>3, TakeableIn
  <2>5. Hears(node, node', n, i) BY <2>1 DEF Hears
  <2>6. PICK m : m = node[n].out[i] OBVIOUS
  <2>7. ctl' = HandleFeedback(ctl, n, m, pick) BY <2>1, <2>6
  <2>8. Fitting(ctl', node', ana, cli, plan) /\ (Announces(ctl, ctl') => RoundOver(ctl, node, ana))
    BY <1>1, <1>2, <2>4, <2>5, <2>6, <2>7, HearsNodeFits
  <2> QED BY <2>2, <2>8 DEF RoundStep
<1>4. CASE ControllerHearsAnalyzer
  <2>1. PICK i \in Takeable(ana.out, plan.ordered), pick \in Node :
          /\ ctl' = CompletedTest(ctl, ana.out[i], pick)
          /\ ana' = [ana EXCEPT !.out = Without(@, i)]
    BY <1>4 DEF ControllerHearsAnalyzer
  <2>2. UNCHANGED <<plan, node, cli>> BY <1>4 DEF ControllerHearsAnalyzer
  <2>3. ana.out \in Seq(TestItem) BY <1>2 DEF AnalyzerState
  <2>4. i \in 1..Len(ana.out) BY <1>2, <2>1, <2>3, TakeableIn
  <2>5. HearsEnd(ana, ana', i) BY <2>1 DEF HearsEnd
  <2>6. PICK item : item = ana.out[i] OBVIOUS
  <2>7. ctl' = CompletedTest(ctl, item, pick) BY <2>1, <2>6
  <2>8. Fitting(ctl', node, ana', cli, plan) /\ (Announces(ctl, ctl') => RoundOver(ctl, node, ana))
    BY <1>1, <1>2, <2>4, <2>5, <2>6, <2>7, HearsAnalyzerFits
  <2> QED BY <2>2, <2>8 DEF RoundStep
<1>5. CASE ConspireTimerFires \/ ControllerConspires
  <2>1. (ctl' = ConspireTimer(ctl) \/ ctl' = SendConspireRequest(ctl)) /\ UNCHANGED <<plan, node, ana, cli>>
    BY <1>5 DEF ConspireTimerFires, ControllerConspires
  <2>2. Neutrally(ctl, ctl') BY <1>2, <2>1, ConspireNeutral
  <2>3. Fits(ph, S, ctl', node, ana, cli, plan) BY <1>1, <1>2, <2>2, NeutralFits
  <2>4. ctl'.toAnalyzer = ctl.toAnalyzer BY <2>2 DEF Neutrally
  <2>5. ~Announces(ctl, ctl') BY <1>2, <2>4, NothingAnnounced
  <2> QED BY <2>1, <2>3, <2>5 DEF RoundStep, Fitting
<1> QED BY <1>3, <1>4, <1>5

LEMMA RoundsGoOn ==
  ASSUME RoundInv, [Next]_vars
  PROVE  RoundInv' /\ RoundStep
<1>1. TypeOK' BY StepTyped DEF RoundInv
<1> SUFFICES RoundStep BY <1>1 DEF RoundInv, RoundStep, Fitting
<1>2. CASE Operator BY <1>2, OperatorRounds
<1>3. CASE \E n \in Node : \/ NodeTakes(n) \/ NodeStops(n) \/ NodeCrashes(n) \/ NodeTriggers(n)
                           \/ NodePanics(n) \/ CrashTimerFires(n) \/ MaliciousTimerFires(n)
  BY <1>1, <1>3, NodeRounds
<1>4. CASE AnalyzerTakes \/ TestTimerFires \/ AnalyzerCompletes BY <1>1, <1>4, AnalyzerRounds
<1>5. CASE \/ \E n \in Node : ControllerHearsNode(n)
           \/ ControllerHearsAnalyzer \/ ConspireTimerFires \/ ControllerConspires
  BY <1>1, <1>5, ControllerRounds
<1>6. CASE UNCHANGED vars
  <2>1. /\ plan' = plan /\ ctl' = ctl /\ node' = node /\ ana' = ana /\ cli' = cli BY <1>6 DEF vars
  <2>2. ctl \in ControllerState BY DEF RoundInv, TypeOK
  <2>3. ~Announces(ctl, ctl') BY <2>1, <2>2, NothingAnnounced
  <2>4. Fitting(ctl, node, ana, cli, plan) BY DEF RoundInv, Fitting
  <2> QED BY <2>1, <2>3, <2>4 DEF RoundStep
<1> QED BY <1>2, <1>3, <1>4, <1>5, <1>6 DEF Next

\* Whatever the set of nodes, the candidate fields and the other plans, in a session
\* whose plan is in scope (its links in order and its timers in time, or else no
\* crash test and no scalability test at the start) at most one test is timed at a
\* time and the analyzer has its item when it ends: the unwrap of the test item in the
\* analyzer's next_test never fails, also when dishonest nodes panic.
THEOREM AnalyzerNeverPanicsAlways ==
  Spec /\ InScope(plan) => []AnalyzerNeverPanics
<1>1. Init /\ InScope(plan) => RoundInv BY RoundsBegin
<1>2. RoundInv /\ [Next]_vars => RoundInv' BY RoundsGoOn
<1>3. RoundInv => AnalyzerNeverPanics BY DEF RoundInv, Fits, Tested, AnalyzerNeverPanics
<1> QED BY <1>1, <1>2, <1>3, PTL DEF Spec

\* In the same sessions, the controller announces a round (configure_analyzer,
\* next_mid_test) only when no node is running or about to, and no test is being timed:
\* check_reset_all_success and need_reset count exactly the nodes of the last round.
THEOREM RoundsDoNotOverlapAlways ==
  Spec /\ InScope(plan) => RoundsDoNotOverlap
<1>1. Init /\ InScope(plan) => RoundInv BY RoundsBegin
<1>2. RoundInv /\ [Next]_vars => RoundInv' BY RoundsGoOn
<1>3. ASSUME RoundInv, [Next]_vars
      PROVE  Len(ctl'.toAnalyzer) > Len(ctl.toAnalyzer)
               /\ ctl'.toAnalyzer[Len(ctl.toAnalyzer) + 1].type = "TestItem"
             => /\ \A n \in Node : /\ ~node[n].running
                                    /\ \A i \in 1..Len(ctl.toNode[n]) :
                                         ctl.toNode[n][i].type # "ProtocolStart"
                /\ ana.timers = 0
  <2>1. HAVE /\ Len(ctl'.toAnalyzer) > Len(ctl.toAnalyzer)
             /\ ctl'.toAnalyzer[Len(ctl.toAnalyzer) + 1].type = "TestItem"
  <2>2. RoundStep BY <1>3, RoundsGoOn
  <2>3. RoundOver(ctl, node, ana) BY <2>1, <2>2 DEF RoundStep, Announces
  <2>4. ASSUME NEW n \in Node, NEW i \in 1..Len(ctl.toNode[n])
        PROVE  ctl.toNode[n][i].type # "ProtocolStart"
    <3>1. ctl.toNode[n] \in Seq(NodeMessage) BY <1>3 DEF RoundInv, TypeOK, ControllerState
    <3>2. ctl.toNode[n][i] \in NodeMessage BY <3>1
    <3> QED BY <2>3, <3>2 DEF RoundOver, Has, StartMsg
  <2> QED BY <2>3, <2>4 DEF RoundOver
<1>4. RoundInv /\ [Next]_vars =>
        [Len(ctl'.toAnalyzer) > Len(ctl.toAnalyzer)
           /\ ctl'.toAnalyzer[Len(ctl.toAnalyzer) + 1].type = "TestItem"
         => /\ \A n \in Node : /\ ~node[n].running
                                /\ \A i \in 1..Len(ctl.toNode[n]) :
                                     ctl.toNode[n][i].type # "ProtocolStart"
            /\ ana.timers = 0]_vars
  BY <1>3
<1> QED BY <1>1, <1>2, <1>4, PTL DEF Spec, RoundsDoNotOverlap

=============================================================================
