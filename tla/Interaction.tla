----------------------------- MODULE Interaction -----------------------------
(***************************************************************************)
(* The vocabulary the controller, the analyzer and the consensus nodes      *)
(* share: test items, node modes, interactive messages (message.rs), and    *)
(* the unicast links between them.                                          *)
(*                                                                         *)
(* A link is the sequence of messages its sender has handed to the swarm     *)
(* and its receiver has not taken.  The unicast behaviour opens a substream  *)
(* for every message (OneShotHandler), so in general a receiver may take     *)
(* any of them next; when links are ordered it takes them in the order sent. *)
(***************************************************************************)
EXTENDS Naturals, Sequences, FiniteSets

CONSTANT Node   \* the consensus nodes the controller has discovered

ASSUME NodesAssumption == IsFiniteSet(Node) /\ Node # {}

\* The positions of link q whose message may be taken next.
Takeable(q, ordered) == IF ordered THEN {i \in {1} : q # <<>>} ELSE 1..Len(q)

Without(q, i) == SubSeq(q, 1, i - 1) \o SubSeq(q, i + 1, Len(q))

\* Throughput, Latency and ThroughputAndLatency are alike to every handler but
\* the analyzer's arithmetic: they are the one kind "Performance".
ItemKind == {"Performance", "Scalability", "Crash", "LeaderFeignDeath",
             "LeaderDelaySendMessage", "LeaderSendDuplicateMessage",
             "LeaderSendAmbiguousMessage", "ReplicaNodeConspireForgeMessages"}

\* A test item and how far it has got: at is the number of nodes (Scalability),
\* of crashed nodes (Crash) or the protocol phase (0 is Round::FirstRound) of
\* the round, max its last value, step the scalability increment; field (0 is
\* the empty vector) and count belong to the last two kinds.
TestItem == [kind : ItemKind, at : Nat, max : Nat, step : Nat, field : Nat, count : Nat]

Item(kind, at, max) ==
  [kind |-> kind, at |-> at, max |-> max, step |-> 0, field |-> 0, count |-> 0]

\* Option::None.
NoItem == Item("None", 0, 0)

DishonestKind == {"LeaderFeignDeath", "LeaderSendDuplicateMessage",
                  "LeaderSendAmbiguousMessage", "ReplicaNodeConspireForgeMessages"}

\* ConsensusNodeMode; Honest(First) and Honest(Other) are kinds of their own.
Mode == [kind : {"Uninitialized", "HonestFirst", "HonestOther", "Crash"} \cup DishonestKind,
         phase : Nat, field : Nat, count : Nat]

SimpleMode(kind) == [kind |-> kind, phase |-> 0, field |-> 0, count |-> 0]

\* Controller to node, and node to controller; most carry a mode.
NodeMessage == [type : {"ConfigureConsensusNode", "ConsensusNodeMode", "JoinConsensus",
                        "ProtocolStart", "Reset", "MakeAConsensusRequest"}, mode : Mode]

Feedback == [type : {"ConsensusNodeModeSuccess", "JoinConsensusSuccess", "ResetSuccess"},
             mode : Mode]

Say(type, mode) == [type |-> type, mode |-> mode]

Tell(type) == Say(type, SimpleMode("Uninitialized"))

\* Controller to analyzer.
AnalyzerMessage == [type : {"TestItem", "CrashNode", "DishonestNode", "StartTest"},
                    item : TestItem \cup {NoItem}]

=============================================================================
