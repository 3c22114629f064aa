# A TLA+ model of BFTDiagnosis

BFTDiagnosis is a framework that runs a BFT protocol on a set of nodes, drives it
through test items (throughput, latency, scalability, crashes, malicious
behaviours) and reports what it measured. This project models what its results
depend on: the test session that the controller, the analyzer and the consensus nodes
carry out together, the data warehouse that turns
the nodes' reports into results, the five protocols the nodes run, and the older
stand-alone PBFT and Basic HotStuff of the crate `consensus`.

## 1. Inventory

| part | state it keeps | operations | hard about it |
|---|---|---|---|
| **Controller** `components/src/controller/controller.rs` | the test items left, the item and round in progress, sets of consensus, crashed, optional nodes, six feedback counters, candidate message fields | four operator commands; handlers for `CompletedTest`, `JoinConsensusSuccess`, `ResetSuccess`, `ConsensusNodeModeSuccess`; the conspire timer | it counts messages to decide that a round may begin; counters and sets carry over from round to round |
| **Protocol actuator** `components/src/protocol_actuator.rs` | mode, running flag, subscription, `Notify` permits, timers, request buffer, `consensus_state` flag | idle and running handlers for controller messages; arms for key distribution, stop, crash, malicious trigger, next proposal, network events | timers race `Reset`; permits survive a reset; a background task shares a flag with the event loop |
| **Analyzer** `components/src/analyzer/analyzer.rs` | current item, duration timers, completion permit | handlers for `TestItem`, `StartTest`; completion | a completion without an item panics |
| **Data warehouse** `components/src/analyzer/data_warehouse.rs` | start and end data per node, intermediate and final results | store, compute, reset | data of one round arriving in the next; unsigned arithmetic |
| **PBFT** `protocols/src/pbft` | keys, primary, log (request slot, messages, phase), replies, taken requests | handlers for keys, request, pre-prepare, prepare, commit, reply | messages before keys or before the proposal; one sequence number for all requests; the log is wiped after each execution |
| **Non-viewchange PBFT**, **non-authenticated PBFT** `protocols/src/{non_viewchange_pbft, non_authenticated_pbft}` | as PBFT; the second has no keys | as PBFT | the first is restarted between rounds with its old state; the second compares no hashes |
| **Basic HotStuff** `protocols/src/basic_hotstuff` | key share, public keys, view, `high_qc`, `prepare_qc`, `locked_qc`, new views, partial signatures, view timer | key distribution, new view, prepare, pre-commit, commit, decide and their votes, view timeout | keys race the first view; certificates of several phases in flight; a proposal outside the leader's turn |
| **Chained HotStuff** `protocols/src/chain_hotstuff` | the same with `generic_qc`, current and next leader | generic, vote, new view, view timeout | reports overtake votes; proposals skip views and compete |
| **Network** `network` | peers, gossip mesh | gossip, unicast | every unicast opens its own substream: no order |
| **Stand-alone PBFT** `consensus/src/pbft` | keys in a database, log, queue of pending requests, mode, view-change permit; the client's replies | client commands, the three phases, timeout task, view change | every node proposes, under one number; timeouts outlive their request |
| **Stand-alone Basic HotStuff** `consensus/src/basic_hotstuff` | keys, view, primary, the three certificates, new views and votes, a channel of outgoing messages, two request buffers, `mode` behind a mutex, three permits, timer tasks | the controller's two commands; key distribution, new view, the phases and their votes, request buffering, end of a block, view timeout | `mode` is read and written under two locks by three tasks; timers and stop permits of neighbouring views; a vote goes to whoever is the primary when it leaves the channel |
| **rest of the consensus crate** | stand-alone Chained HotStuff, HoneyBadger | | the first repeats the event loop of the stand-alone Basic HotStuff; HoneyBadger is not even compiled |
| `cli`, `storage`, `utils`, `core`, `BFTDiagnosis`, `main` | | parsing, database, crypto, configuration | I/O |

How they interact: all communication is libp2p. Nodes gossip protocol messages on
the topic "Consensus" and unicast replies to the leader; controller, analyzer and
nodes exchange `InteractiveMessage`s by unicast; nodes unicast start and end data
to the analyzer. Inside a process, timers and background tasks talk to the event
loop through `tokio::sync::Notify` permits and, for the leader, a mutex-protected
flag.

What makes the parts correct:

- PBFT: what a node executes is backed by a quorum; it executes a request once;
  nodes agree on the order; a proposed request is closed and the next one follows.
- Session: a round is measured with the nodes in the state it stands for; rounds do
  not overlap; every configured round is measured; the session ends; nothing panics.
- HotStuff: what is completed a quorum has been locked on, a view has one certificate at
  most, and the decided blocks form one chain; in Basic HotStuff locks never go back and
  nobody panics for want of a key but, at worst, the leader of view 1; a view that times out
  is left.
- Data warehouse: every reported request is counted once, a latency is a difference of
  two reported times, and a completed test leaves nothing uncounted.
- Stand-alone PBFT: nodes commit the same request, once, and the client's answer was
  committed by f + 1 nodes.
- Stand-alone Basic HotStuff: a node has exactly one timer at any time (not always the one
  of its view), its two request buffers stay the same length, what is ended is locked by a
  quorum, and the chain forks only after a proposal that was not made for its view.

`PROJECT.json` lists the hazards behind these, at their lines.

## 2. Modules

| module | models |
|---|---|
| `PBFT` | one protocol run: PBFT's handlers and the leader's loop, with the state-check task |
| `MCPBFT` | its instances for TLC |
| `PBFTProofs` | the inductive invariant of `PBFT` and five theorems |
| `Interaction` | test items, modes, messages, unicast links |
| `ProtocolActuator` | a node as the controller sees it |
| `Analyzer` | the analyzer's part in a session |
| `Controller` | the controller's methods |
| `Framework` | the composition of the last three, and its properties |
| `FrameworkProofs` | a lemma per method and handler, the invariant of the rounds, and three theorems |
| `MCFramework` | test plans for TLC |
| `DataWarehouse`, `MCDataWarehouse` | the analyzer's timers, what it stores, computes, writes to its tables and prints |
| `DataWarehouseProofs` | its latencies, counts and the end of a test: three theorems |
| `BasicHotStuff`, `MCBasicHotStuff` | one run of Basic HotStuff |
| `PhaseLadder` | the abstract specification `BasicHotStuff` and `HotStuffExecutor` implement |
| `BasicHotStuffProofs` | its certificates and keys: four theorems, one of them the refinement of `PhaseLadder` |
| `ChainHotStuff`, `MCChainHotStuff` | one run of Chained HotStuff |
| `ChainHotStuffProofs` | its votes and certificates: three theorems |
| `ViewTimer` | the view timers of both HotStuff protocols over several rounds |
| `NonAuthPBFT`, `MCNonAuthPBFT` | one run of PBFT without signatures, with a dishonest node's panic |
| `NonAuthPBFTProofs` | its reports, replies and counts of Commits: four theorems |
| `NonTimeoutPBFT`, `MCNonTimeoutPBFT` | PBFT without view change over several rounds, an instance of `PBFT` with the restart added |
| `Executor`, `MCExecutor` | the stand-alone PBFT and its client |
| `ExecutorProofs` | the inductive invariant of `Executor` and four theorems |
| `HotStuffExecutor`, `MCHotStuffExecutor` | the stand-alone Basic HotStuff with its tasks and its controller node |
| `HotStuffExecutorProofs` | three inductive invariants of `HotStuffExecutor` (timers, buffers, certificates) and four theorems, one of them the refinement of `PhaseLadder` |

### PBFT

Every action is an arm of `message_handler_start` with the whole handler it calls and
the `PhaseState` processing that follows. The variables are the fields the handlers
read: `requests`, `messages`, `prepared` and `replyMessages` are the node's
`ConsensusLog`, `pk`, `primary` and `taken` the rest of its protocol state;
`consensusState`, `clearPending`, `consensusNotify` are the flag, the program counter
of the state-check task and its permit. `sent`/`seen` is gossip: every node gets every
message of another node at most once and in any order (the message id is a hash of
source and data). `startData`, `endData`, `over` record what a node reports.

Left out because no code path changes it: the view (nothing starts a view change:
`view_timeout_start` has no caller), the sequence number (always 1), the stable
checkpoint (no `CheckPoint` is ever built). A signature verifies exactly when the
receiver holds the sender's key: nodes of this module are honest.

### The framework

`Controller`, `ProtocolActuator` and `Analyzer` each define a record of the component's
fields and one operator per method, from the record before to the record after, so
that methods compose the way the code calls them; `Framework` makes them actions: a
message is taken from a link, a timer fires, a permit is consumed. A link belongs to
its sender's record (`toNode`, `toAnalyzer`, `out`).

Abstractions: a `HashSet`'s `iter().last()` is any element; throughput, latency and
both together are one kind of item, since only the analyzer's arithmetic tells them
apart; a phase's candidate fields are counted; discovery, `init` and
`queryProtocolPhases` have happened in the initial state. The operator gives the four
commands of the usage section of the repository's README and waits for the feedback
of each.

Three flags of a plan say what the environment guarantees in it. `ordered`: links keep the
order of their messages (with `FALSE` a receiver may take any message of a link, which
is what one substream per message allows). `timely`: messages and the one-second timers
of the nodes beat the duration of a test (with `FALSE` a test may end at any time).
`currentRequest`: the protocol under test implements `current_request`; with `FALSE`, as
in the three PBFT protocols, a node whose malicious timer has fired may panic at any time
(`NodePanics`: at the next message it would broadcast), after which it takes its messages and
answers none. A session takes one of the constant `Plans`.

The controller accepts plans on which a session goes wrong. Three predicates say which
ones do not: `Survivable` (no dishonest phases with a protocol that panics), `Scalable`
(scalability is not the first item, advances by 1 and asks for no more nodes than there
are) and `Completable` (no item that conspires or delays, one item that uses message
fields). `TestedAsConfigured` has the first two as premises and `EveryRoundTested` all
three. The run includes plans of both sorts.

### The data warehouse

One variable per collection of `DataWarehouse`: started requests and completed
`<<peer, request>>` pairs for throughput (`tStart`, `tEnd`), latency (`lStart`, `lEnd`,
functions to times) and security tests (`sStart`, `sEnd`); the counts per peer; the
result tables as sequences of rows; the analyzer's interval and duration timers and
their permits. `times`, `received` and `fresh` record what was reported, for the
properties only. Times are numbers modulo `Word`, so `wrapping_sub` wraps and the plain
subtraction of the scalability latencies panics (the debug build) where the code does.
The order a `HashMap` iterates in is any order.

### HotStuff

A block contains its parent instead of the parent's hash, a certificate is a view and
a block, and a vote verifies when it was cast for that phase, view and block. Unicasts
are a set of messages in flight, opened in any order, and never one a node sends to
itself, since libp2p does not dial itself: a proposer does not vote for its own block.
A message a handler rejects changes nothing and is left undelivered, so that every
delivery in the model is one that changes the node's state. `BasicHotStuff` has one
action per message type; in `ChainHotStuff` the handler of a proposal is divided as in
the code: `AdoptChain` is the one-, two- and three-chain rule, `AcceptGeneric` the vote
and the step to the next view.

`PhaseLadder` says what the phases are for: a block gets ballots in a phase only when
2f + 1 nodes gave it theirs in the phase before, and is decided only with a quorum of
the last. The refinement maps a ballot to a vote in flight or in a log (or still in the
channel of the stand-alone node), and `decided` to the blocks reported as completed.

`ViewTimer` names a `Notify` by the round whose `protocol_reset` made it; the event loop
waits on number 0, the one `network_start` handed over.

### The PBFT variants

`NonTimeoutPBFT` instantiates `PBFT`: the handlers of the two protocols are the same.
It adds the stop of a node, which empties the request buffer and nothing else, and the
next start, in which messages of the last round are gone and the protocol's state is
what `protocol_reset` leaves: everything. `NonAuthPBFT` has its own handlers, because
they do not compare hashes, and the fault: after the malicious timer a node's next
message runs into `todo!()` in `current_request`, and the node is gone, its log already
updated and nothing sent.

### The stand-alone PBFT

`Executor` has the nodes' and the client's loops. Nothing ever advances the sequence
number, sets `is_primary` or subscribes to the topics (that is left to the embedding
program); so any node proposes, number 1 is shared, and `NewView` and `CheckPoint` are
out of reach. `alive` becomes false where `broadcast_viewchange` panics because a
pending request has no entry in `request_map`.

### The stand-alone Basic HotStuff

`HotStuffExecutor` has the event loop of `ConsensusNode`, the `Executor` it calls, the two
kinds of task that run beside it, and the controller node's two commands. What differs
from the protocols crate is modelled, not the shared algorithm once more:

- A handler writes its messages to the channel `outbox`; `Transmit` is the loop's arm that
  reads it, and only then is the receiver of a vote or NewView looked up in `primary`,
  which the handler itself may have changed. The End message never leaves the node: it
  removes the request from the buffers.
- `mode` is behind a mutex that every user locks twice, once to read and once to write.
  `writes[n]` holds what a task that has read is going to write; `UpdateMode` is the event
  loop's own pair of locks, between which it may lose the writes of tasks.
- `timers`, `stopNotify` and `viewTimeoutNotify` are the waiting timer tasks and two
  permits: a stop ends some waiting task, or is stored and ends the next one; a timer
  that runs out while a proposal is under way writes `mode` before it notifies.
- `buffer` and `bufferMap` are the list of requests and the keys of the map beside it. The
  End of a block removes the first of the list and the decided one of the map.
- `alive` becomes false where the loop panics (`Panics`): an unwrap of what is not there.

A missing certificate is a record without a view (`NoQC`), so that it differs from every
certificate whatever the blocks are.

## 3. Runs

Passing runs:

| run | instance | checks |
|---|---|---|
| `PBFT_safety` | four nodes, f = 1 (the code's value), from the initial state: all interleavings of the key exchange, fairly, then two requests; one replica of arbitrary speed, to which the leader's key may come late; the others prompt | `TypeOK`, `CommitCertificate`, `ExecuteOnce`, `OverCertified`, `EvictedOnlyByExecution`, `KeysExchanged` |
| `Framework_sessions` | three nodes, one of fifteen plans. Regular: links ordered, timers in time: performance, scalability to 3, crashes to 4 (more than nodes), feign death in 2 phases, duplicate; the ambiguous-message item in 2 phases; the first round of feign death and a crash with a PBFT protocol. Links ordered, timers late: performance, one crash, feign death. Links unordered, timers late: performance, scalability, feign death; performance, one crash. Irregular: scalability by steps of 2; to more nodes than there are; as the first item; the conspire item, with links ordered, with links unordered, after the ambiguous-message item and with a PBFT protocol; the delay item; feign death with a PBFT protocol and late timers | `TypeOK`, `TestedAsConfigured`, `AnalyzerNeverPanics`, `RoundsDoNotOverlap`, `EveryRoundTested` |
| `BasicHotStuff_views` | four nodes, f = 1, all interleavings of keys, two proposing views and the NewViews of the third, the controller's request reaching the starter in view 2 | `KeysInTime`, `DecisionLocked`, `ForkNeedsStarter`, `NeverBack`, `ImplementsLadder` |
| `ChainHotStuff_slow` | four nodes, seven proposing views, any one node of arbitrary speed, the others prompt, the controller's requests reaching the starter in view 1, 4 or 7 | `DecisionLocked`, `VotesOnce`, `OneCertificate` |
| `DataWarehouse_rounds` | two peers, one request started and completed up to twice, two items of any kind, up to two computations of an item, pages of one row | `CountsWhatWasReported`, `LatencyIsCounted`, `SecurityReportsOnce`, `PrintsEveryRow`, `LatencyIsReal`, `CompletedIsComputed` |
| `NonAuthPBFT_slow` | four nodes, f = 1, two requests, one replica of arbitrary speed, any node panicking at any time | `TypeOK`, `CompletionsCertified`, `ReportedOnce`, `OverCertified` |
| `Executor_slow` | four nodes, f = 1 (the code's values), two nodes asked for the same or two requests, one slow node that may miss a key, two timeout tasks | `TypeOK`, `Agreement`, `OneCommit`, `AnswerCertified` |
| `HotStuffExecutor_slow` | four nodes, f = 1 (the code's values), two requests, two proposing views; any one node late with its messages, or with its tasks: channel, permits, writes of `mode`; the others prompt, but timing out whenever they wait | `TypeOK`, `DecisionLocked`, `BuffersInStep`, `OneTimer`, `ForkNeedsStale`, `ImplementsLadder` |

Two requests are enough for the shared slot, the leftover replies and late Commits:
they need one earlier request. Letting one replica lag keeps two requests in reach
and still gives that replica every order of its messages (up to interchangeable
senders); the proofs below remove the restriction. `PBFT_wakeup` starts from
`JustProposed`, a state the specification reaches. Three nodes let a
crash or a dishonest node leave two others, and let "some", "all but one" and "all
nodes have crashed" differ. The controller meets the nodes in one order: sessions that
differ only in the names of the nodes behave alike.

Two views of Basic HotStuff are what a lock and its successor need, and the third view's
reports what the choice of the newest certificate needs; a stray proposal of the starter in
the second view meets both a locked block and a competing one; one in view 0 or 1, which
meets the key exchange, is left to the proof of `KeysInTime` (with `HandOutViews = {0, 1}`
and `MaxView = 2` TLC also finds it to hold, in 271,933 states). Seven proposing views of
Chained HotStuff leave room for a three-chain after skipped views and for a proposal on an
old certificate after it. In the warehouse a request that completes twice stands for a
duplicate and for late data of the item before; eight values of a time suffice for a wrapped
difference. Two nodes that propose in the stand-alone PBFT are the least that compete for
the slot, and four nodes the most its constants allow. Two proposing views of the
stand-alone HotStuff, with timeouts anywhere in them, let votes, permits and stops of one
view meet the next, and let a block be decided in a view that some have left; two requests
are what the two buffers need to come apart.

A run whose expectation is a violation shows where the code does something else than
its own comments, configuration file or README say:

| run | property | what TLC shows |
|---|---|---|
| `PBFT_wakeup` | `NextProposal` | the state-check task erases a flag raised while it was between notify and clear |
| `ViewTimer_timeout` | `TimedOutViewIsLeft` | from the first `ProtocolStart` on the view timers notify an object the event loop does not wait on, and a view that has timed out is not left |
| `Executor_viewchange` | `ViewchangeBroadcast` | a node that times out with a request pending enters the view change mode and panics while it collects the messages for its ViewChange, which it never sends |
| `NonTimeoutPBFT_restart` | `LastRoundCloses` | a round that was reset in the middle of a request leaves it in the slot; the next round never closes one, although its messages arrive in the best order |

What the models say beyond the runs, read off their actions:

- PBFT: a node executes on 2f Commits of others, its own missing, where the comment at
  `pbft/protocol.rs:530` says 2f+1; Prepares and Commits that overtake the proposal are
  dropped for good, so with five nodes a fully delivered run may stay open; all requests
  share one sequence number, so two nodes may execute two of them in opposite orders.
- Sessions: a node that already has the requested mode does not answer, so a conspire
  round with two nodes does not start; a second item that uses message fields finds them
  used up; a scalability maximum above the number of nodes swallows the next item; a
  session that begins with scalability starts its next item after one answer; an item
  without an arm in `next_test` ends the session; with a scalability increment of 2 one
  node joins; a node that panics in a malicious round never answers the `Reset`. These
  are the premises `Scalable`, `Completable` and `Survivable`. They are not wider than needed: without
  them TLC finds `TestedAsConfigured` or `EveryRoundTested` violated on each irregular plan
  but the unordered one, of which both say nothing.
  A `StartTest` that overtakes its `TestItem` is ignored, hence the premise `ordered`.
- Basic HotStuff: the leader of view 1 gets its key share by a unicast that the public keys,
  the NewViews and three votes for its proposal may overtake; it then panics when it
  combines the votes (`basic_hotstuff/protocol.rs:438`), and nothing is ever certified.
  `KeysInTime` says that this is the only node without a share when one is unwrapped. When
  the controller's requests reach the starter before it leads, it proposes beside the leader
  of view 1; a replica that votes for its certificate sends the vote to that leader, which
  may not have the public keys yet, and `handle_precommit_vote` panics. That is why
  `KeysInTime` promises the primary and the public keys, and that nobody else has panicked,
  only while there is no `EarlyProposal`.
- Chained HotStuff: the next leader's own vote is recorded without looking whether it
  is the third, so a quorum it completes yields no certificate. A lock may go back: the
  starter proposes whenever requests reach it, on a `high_qc` that may be old, and a
  replica locked on the very block that proposal rests on takes it for safe and locks the
  block's parent certificate instead. Hence `DecisionLocked` speaks of the votes a quorum
  has cast while it locked the block, not of the locks it holds.
- Stand-alone Basic HotStuff: when requests reach nodes in different orders, the list and
  the map of a node come to hold different requests; the node then drops a request nobody
  has decided, and the unwrap at `consensus_node/node.rs:76` panics when it proposes. The
  permit of `consensus_notify` outlives its view, and a proposal made from it competes
  with that of the leader, which is the one way the chain forks (`ForkNeedsStale`). A view
  that times out in mode `Done(0)` leaves `Init` behind although requests are buffered, so
  the node does not propose them until another one arrives. A timer that has run out just
  before its block ends is not stopped: the stop ends the next view's own timer, and the old
  one ends the next view early. `OneTimer` counts it as the node's one timer.
- Non-authenticated PBFT: a completion is reported under the name of whatever request is
  in the slot.

Deadlock is not checked (`CHECK_DEADLOCK FALSE`): a run ends when its messages are
delivered and its requests are used up, a session when its items are tested.

### Fairness

`ViewTimer`: a timer task runs into its timeout and the event loop takes the arm of a
`Notify` that holds a permit; nothing makes a decision come. `NonTimeoutPBFT`: weak
fairness of the schedule's steps, that is, the loops run and no message is lost while the
nodes run; the instance takes messages in the order of the phases, on which a round that
starts from an empty log always closes its request.

PBFT: weak fairness of every arm of the loop and of the state-check task, and of
`Receive(n)` for each node. The loops never block, tokio schedules every ready task,
and gossip delivers; a `Receive` step uses up one message and nothing is received
twice, so weak fairness of the disjunction delivers each one. The controller's
`MakeConsensusRequests` is not fair: the operator may never send requests. `PBFT_safety`
assumes a part of that: weak fairness of the steps of the key exchange together (`KeyStep`),
which are finitely many.

Framework: weak fairness of `Next`. Every step uses up a message, a permit, a timer or
a command, and the items are finite, so every behaviour is finite and the assumption
only says that the session does not stop while something can still happen.

## 4. Proofs

`PBFTProofs` proves, for any finite set of nodes, any requests and any f > 0, of
`Spec` with all interleavings:

- `TypeCorrect`: `[]TypeOK`;
- `CommitsCertified`: `[]CommitCertificate`;
- `ExecutesOnce`: `[]ExecuteOnce`;
- `ClosedIsExecuted`: `[]OverCertified`;
- `EvictionExecutes`: `EvictedOnlyByExecution`.

Assumptions: the leader is a node, the set of nodes is finite, the "absent" values are
not members, f is a positive natural number. There is no assumption that n > 3f: the
counts are what the code checks, and no step uses quorum intersection (two honest
nodes never vote differently here, since the leader is honest).

The argument. None of the properties is inductive by itself. `CommitCertificate` speaks
of executed requests, while execution depends on what is in a log, so `LogInv` says
that a log holds only published messages of other nodes, and `SentInv` what each
published message vouches for: a Commit for 2f Prepares of others, a Prepare for the
proposal, the proposal for the report of its start. `ExecuteOnce` needs a reason why a
wiped slot is not filled again by the same request: a request enters a replica's slot
only when its proposal is first delivered, and gossip delivers it once (`SlotInv`:
what is in the slot or executed was proposed to the node, and the slot's request is
not executed); at the leader `taken` plays that part. `OverCertified` needs that every reply,
in flight or counted, stems from a replica that executed (`ReplyInv`), and that counts
of one request's replies are counts of distinct replicas. `IInv` is their conjunction.

`ExecutorProofs` proves of the stand-alone PBFT's `Spec`, with all interleavings:

- `ExecutorTypes`: `[]TypeOK`;
- `ExecutorAgreement`: `[]Agreement`;
- `ExecutorCommitsOnce`: `[]OneCommit`;
- `ExecutorAnswers`: `[]AnswerCertified`.

Assumptions: at most 3f + 1 nodes, f > 0, the client is not a node. The bound is needed
this time: `Agreement` is quorum intersection. Two nodes that commit each have 2f Commits
of others; with themselves these are two sets of 2f + 1 among 3f + 1 nodes, so they share
a node (`QuorumsMeet`), and whoever sends a Commit or commits has that request in its
slot, which is filled once (`SentInv`, `CommitInv`). So the nodes agree although every node answers
every proposal with a Prepare. `OneCommit` needs the counter tied to the replies
(`CounterInv`): a committed request that a late Prepare takes back to Prepared is not
committed again, because its Commits are counted with `==` in a log that already holds
2f of them (`CommitInv`). `AnswerCertified` adds what the client has logged
(`AnswerInv`). `IInv` is the conjunction of the five with `TypeOK`.

`HotStuffExecutorProofs` proves of the stand-alone Basic HotStuff's `Spec`, with all
interleavings of loops, tasks and messages, any number of nodes, any requests and any f:

- `OneTimerAlways`: `[]OneTimer`;
- `BuffersInStepAlways`: `[]BuffersInStep`;
- `DecisionLockedAlways`: `[]DecisionLocked`;
- `LadderImplemented`: `ImplementsLadder`, the specification of `PhaseLadder` under the
  refinement mapping the run checks.

Assumptions: there is at least one node, f is a natural number, and neither the controller
nor "no node" is a node. There are three invariants (the last two theorems share one) over
the common `Domains` (in which no stop is stored between two steps, since whoever stops a timer
starts the next in the same step) and, for the first two, `SentInv` (the controller's
messages are published once, by nobody else).
`TimerInv` says where the one timer of a node is, waiting, about to write `mode`, or
noticed, and that the first view is entered with the keys, whose one message is delivered
once (`KeysOnce`); without that a second first view would start a second timer.
`BufferInv` adds that what is in the map has been received, so that a request is never
received while it is in the map and the list grows exactly when the map does. `OneTimer` does
not say that the timer was started in the node's view: one that ran out before the decision
counts too.

`LadderInv` is about every message in a channel, in flight, published or in a log: a vote
is determined by its voter, a commit vote is of a node locked in that view or later, and a
PreCommit, Commit or Decide carries a certificate that a quorum of voters stands behind
(`MsgOK`). Two facts keep it: since a lock is of a view its node has entered and
certificates are taken only in the node's own view, locks never go back (`LockStep`); and
votes move from the channel to the mail to a log without ever being lost, each step casting
at most one (`CastStep`). What a node counts as a certificate is an injection of its ballot
into the voters (`BallotCertified`). `DecisionLocked` follows because the voters of a commit
certificate are among the locked nodes (`CommittedLocked`); the refinement because a phase's
ballots are the votes of its type (`BallotsAreVotes`), so that a vote is a step `Vote` or a
stutter (`VoteStep`) and an end of a block a step `Decide` (`DecideStep`). No step needs
n > 3f.

`BasicHotStuffProofs` proves of Basic HotStuff's `Spec`, for any number of nodes, any
requests and any f:

- `NeverBackAlways`: `NeverBack`;
- `DecisionLockedAlways`: `[]DecisionLocked`;
- `LadderImplemented`: `ImplementsLadder`;
- `KeysInTimeAlways`: `[]KeysInTime`, when N <= 2f + 2.

Assumptions: there is at least one node, the starter is a node, "no node" is none, f is a
natural number. `NeverBack` rests on `QcsOK`: a lock and a `prepare_qc` are of views their
owner has entered, and certificates are only taken in the owner's own view. `LadderInv` is
the stand-alone protocol's argument without the channel. `KeysInTime` needs the bound on N,
which State::new's four nodes and f = 1 satisfy: a certificate is then one of all nodes but
its proposer (`AllVoted`), a vote takes a key share, so a certificate shows that all shares
have arrived. `KeyInv` adds that the public keys come with the first view and once
(`KeysDealt`), that a node in a view has a primary (`PrimaryOK`), what proposals and votes
show about their senders' keys, and `Punctual`: without an early proposal nobody is in view 2
and nothing is committed before all nodes have the public keys. `ShareInv` finds the one node
that may lack its share: a share is dealt by a starter who has its own, so a node that collects votes
without one is not the starter, and has proposed as the first leader, since view 2 is only
reached with a share (`WithoutShare`). `PanicInv` follows who has panicked: without an early
proposal only that leader, which then never gets its share, so that nothing is ever certified
(`OnlyFirstLeader`). The other three theorems hold whoever panics.

`ChainHotStuffProofs` proves of Chained HotStuff's `Spec`, under the same assumptions:

- `VotesOnceAlways`: `[]VotesOnce`;
- `OneCertificateAlways`: `[]OneCertificate`, when N <= 4f;
- `DecisionLockedAlways`: `[]DecisionLocked`.

`VoteInv` says that a vote lies behind its node (of an earlier view than the node's), unless
the node is the next leader, who stays; that is the reason nobody else votes twice.
`CertInv` says that every certificate a node holds, a proposal or a report carries, or a
block voted for rests on has 2f + 1 voters. Two quorums of one view share two nodes when
N <= 4f (any N <= 3f + 1 is), so one that is not the next leader (`QuorumsMeet`), and that
one votes once. With 4f + 1 nodes the only shared node could be the next leader, who votes
for every proposal.
`DecisionLocked` follows because a block is reported by a certificate whose voters all
accepted the three-chain.

`NonAuthPBFTProofs` proves of PBFT without signatures, for any finite set of nodes, any
requests and any f > 0, with nodes that panic at any time:

- `NonAuthTypes`: `[]TypeOK`;
- `ReportedOnceAlways`: `[]ReportedOnce`;
- `OverCertifiedAlways`: `[]OverCertified`;
- `CompletionsCertifiedAlways`: `[]CompletionsCertified`, with at most 4f nodes.

`TypeOK` is not inductive: a reply goes to `State::primary`, so a filled slot must imply a
known primary (`PrimaryKnown`). `ReportInv` says that what is in a slot was proposed to the
node and has not been reported; `ReplyInv` that each reply, in flight or counted, is of a
replica that reported its request. `CertInv` pays for every report with a request of its own: a
Commit that was received and is no longer in the log is spent, a request with 2f spent
Commits is certified, and a node has at most as many reports as certified requests. A report
certifies a new one, because a request that had 2f spent Commits already would now have 4f,
of 4f - 1 others (`CompletionCertifies`). With more nodes the leftover Commits of one
request are enough to complete twice.

`DataWarehouseProofs` proves of the data warehouse, for any finite sets of peers and
requests, any word size, any cap and any clocks that are not a word apart:

- `LatencyIsRealAlways`: `LatencyIsReal`;
- `CompletedIsComputedAlways`: `CompletedIsComputed`;
- `LatencyIsCountedAlways`: `[]LatencyIsCounted`.

`WarehouseInv` says that stored times were received for this item; `Wraps` that a wrapped
difference exceeds the cap, given the assumption on the clocks. `LatencyIsCounted` compares a
count of rows with a counter. Its invariant `CountInv` adds to the rows of an item the ends
that have been counted but whose latency is still to be measured (`Ahead`): the sum never
exceeds the counter, because the starts kept for latencies are among those kept for
counting, so that an end which is measured was counted before or is counted in the same
computation (`ComputeCounts`). Rows are told apart by the end they were made of
(`NewlyMeasured`), and rows of different items by the item's number (`CountShape`).

`FrameworkProofs` proves of a test session, for any finite set of nodes, any candidate
fields and any plans, with links that keep the order of their messages or not and with
nodes that panic in a malicious round or do not:

- `FrameworkTypes`: `TypeOK` always holds. Each method of the controller has a lemma that
  takes a typed record to a typed record, in the order in which the methods call each
  other, so that a handler's lemma follows from those of what it calls. What could go
  wrong is not the shape of the records: the timers are subtracted from, `next_test` takes
  a node from `optional_*` sets that handlers fill and empty, and a round that asks for a
  dishonest mode takes it from `next_mid_test_item`, which may be empty. None of it depends
  on when feedback arrives;
- `AnalyzerNeverPanicsAlways`: `[]AnalyzerNeverPanics`, when the session's plan is `InScope`;
- `RoundsDoNotOverlapAlways`: `RoundsDoNotOverlap`, when the session's plan is `InScope`.

A plan is `InScope` when links keep their order and timers are in time, whatever its items;
or, with any order and any timing, when it has no crash item and does not begin with
scalability. The other plans are not left out for convenience. With late timers and two
nodes TLC finds that `Performance`, one crash, one crash again and two `Performance` items
let rounds overlap, and with unordered links so does a crash item before scalability and
`Performance`: a crash timer that is late, or a `Reset` that comes after the next
`ProtocolStart`, ends a run it was not meant for, and its `ResetSuccess` is counted for
another round. For unordered plans that begin with scalability TLC finds no error, but they
start their next item after one answer, and the invariant does not cover that.

Neither property is anywhere near inductive: both rest on counters that add up answers
without looking at whom they come from. `RoundInv` says that the session has one token.
It is with the operator (phase `op`), or the controller waits for configurations
(`cfgH`), for one node (`cfgW`) or for the conspirators (`cfgK`), or the round is tested
(`test`), or it is being reset (`reset`); `Fits(ph, S, ...)` says what may be on the way
in each phase, `S` being the nodes of the round whose `ResetSuccess` has been counted:

- `Lanes`: no node has the same question, or a question and its answer, on the way twice,
  and a node that runs has no `ProtocolStart` or `ResetSuccess` on the way;
- `Asked`: the answers still to come, with those counted, complete a count at most once,
  and only in the phase that waits for them;
- `Counted`: `S` and the nodes that are about to run, run or have a `ResetSuccess` on the
  way (`Active`) are apart and both in `consensus_nodes`, and the two reset counters add up
  to the size of `S`, so that the counters reach the number of nodes only when nobody is
  active;
- `InOrder` or `NoCrash`: why no `ResetSuccess` comes but for a `Reset` of this round. In
  order and in time, a node that is to crash has crashed when the test ends, and no
  `Reset` follows a `ProtocolStart` in a link; else, nothing crashes and a node has at
  most one `Reset`, which it has not answered;
- `Tested`: one `StartTest`, timer, notification or report at a time, and only in phase
  `test`, and the analyzer has its item.

`Init` fits phase `op`. For each kind of step a lemma shows that the state after it fits
some phase: a node takes a message (`TakesFits`) or a step of its own (`OwnStepFits`), the
analyzer's three steps, an answer counted or the last one that starts the round
(`GoFits`), the end of the test (`HearsAnalyzerFits`), a `ResetSuccess` and the next round
(`AllResetFits`, with `NextTestAsks` for what `next_test` asks of whom), and the four
commands (`CommandsFit`). `RoundsDoNotOverlap` follows from what those lemmas say of a step
that announces a round (`RoundOver`). TLC found no error in `RoundInv` on plans of both
kinds with two nodes before it was proved.

Only model-checked:

- the liveness properties (`KeysExchanged`, `EveryRoundTested`, and those of the violation
  runs): the prover has no rule for fairness and ENABLED;
- `CountsWhatWasReported` and `SecurityReportsOnce`, which sum over a set with a fold, and
  `PrintsEveryRow`, which is about a recursive function: what they compute for every input
  takes induction over data;
- `ForkNeedsStarter` and `ForkNeedsStale`, whose chains of ancestors are recursive too;
- `TypeOK` of `HotStuffExecutor`, whose bound on the channel holds for the instance only;
- the framework's `TestedAsConfigured`, whose proof needs `RoundInv` with the mode of every
  node in every round of every kind of item besides, for the plans its premises admit; and
  the two properties above for plans that are not `InScope`.

## 5. Not modelled, and the plan

Not modelled: database access, crypto, serialization, command parsing, discovery, and
printing other than paging. View change and checkpoint of PBFT and its variants are
unreachable in the code. `pbft/protocol_pbft.rs` and HoneyBadger are not compiled. The
stand-alone Chained HotStuff has the event loop, tasks and buffers of the stand-alone Basic
HotStuff and the chain rules of `ChainHotStuff`. What HotStuff nodes send in a dishonest
mode is not modelled: the numbers `get_current_phase` returns do not match those of the
message templates, so what would be forged is not a message of the phase.

Plan, in order:

1. A proof of `TestedAsConfigured`, from `RoundInv` and an invariant
   that follows the modes of the nodes from round to round.
2. The composition of `Analyzer` in `Framework` with `DataWarehouse`.
