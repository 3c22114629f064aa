--------------------------- MODULE NonTimeoutPBFT ---------------------------
(***************************************************************************)
(* PBFT without view changes (protocols/src/non_viewchange_pbft), over        *)
(* several test rounds.  Its handlers do what those of PBFT do, on the same    *)
(* state, so each is PBFT's action; what this module adds is the actuator's     *)
(* reset between two runs.  The protocol does not override protocol_reset,     *)
(* whose default does nothing: its log, its keys and the requests it took      *)
(* survive from one run into the next.  The same holds of PBFT itself.        *)
(***************************************************************************)
EXTENDS Naturals, Sequences, FiniteSets

CONSTANTS Node, Leader, ClientRequest, GeneratedRequest, FaultTolerance, NoRequest, NoNode,
          MaxSession   \* bound: test rounds

VARIABLES sent, seen, replies, pk, primary, requests, messages, prepared, replyMessages,
          taken, requestBuffer, handedOut, keyDistribute, consensusState, clearPending,
          consensusNotify, startData, endData, over,
          running,     \* running[n]: n is in message_handler_start
          session      \* number of the test round

P == INSTANCE PBFT

sessionVars == <<running, session>>
vars == <<P!vars, sessionVars>>

Init == P!Init /\ running = [n \in Node |-> TRUE] /\ session = 1

-----------------------------------------------------------------------------
\* The running protocol.

ExtraInitialStart == running[Leader] /\ P!ExtraInitialStart /\ UNCHANGED sessionVars

StateCheckNotify == running[Leader] /\ P!StateCheckNotify /\ UNCHANGED sessionVars

StateCheckClear == running[Leader] /\ P!StateCheckClear /\ UNCHANGED sessionVars

MakeConsensusRequests == running[Leader] /\ P!MakeConsensusRequests /\ UNCHANGED sessionVars

\* The consensus_notify arm, and handle_request.
StartConsensus == running[Leader] /\ P!StartConsensus /\ UNCHANGED sessionVars

\* distribute_public_key
HandleDistributePK(n, m) == P!HandleDistributePK(n, m)

\* storage_public_key_by_peer_id: the first key of a node is kept.
StoragePublicKey(n, m) == P!StoragePublicKey(n, m)

HandlePreprepare(n, m) == P!HandlePreprepare(n, m)

HandlePrepare(n, m) == P!HandlePrepare(n, m)

HandleCommit(n, m) == P!HandleCommit(n, m)

HandleReply(n, m) == running[n] /\ P!HandleReply(n, m) /\ UNCHANGED sessionVars

\* consensus_protocol_message_handler
Deliver(n, m) ==
  /\ running[n]
  /\ \/ HandleDistributePK(n, m)
     \/ StoragePublicKey(n, m)
     \/ HandlePreprepare(n, m)
     \/ HandlePrepare(n, m)
     \/ HandleCommit(n, m)
  /\ UNCHANGED sessionVars

-----------------------------------------------------------------------------
\* The test rounds.

\* The protocol_stop_notify arm and ProtocolActuator::reset: the request buffer is
\* emptied, the notifies and the consensus_state flag keep their state.
Stop(n) ==
  /\ running[n] /\ session < MaxSession
  /\ running' = [running EXCEPT ![n] = FALSE]
  /\ requestBuffer' = IF n = Leader THEN {} ELSE requestBuffer
  /\ UNCHANGED <<session, sent, seen, replies, pk, primary, requests, messages, prepared,
                 replyMessages, taken, handedOut, keyDistribute, consensusState,
                 clearPending, consensusNotify, startData, endData, over>>

\* ProtocolBehaviour::protocol_reset, the default.
ProtocolReset == UNCHANGED <<pk, primary, requests, messages, prepared, replyMessages, taken>>

\* ProtocolStart reaches the nodes when all have stopped.  The messages of the last
\* round are gone; what the analyzer was told of it is cleared with it.
ProtocolStart ==
  /\ \A n \in Node : ~running[n]
  /\ running' = [n \in Node |-> TRUE]
  /\ session' = session + 1
  /\ ProtocolReset
  /\ keyDistribute' = TRUE
  /\ handedOut' = FALSE
  /\ sent' = {} /\ seen' = [n \in Node |-> {}] /\ replies' = {}
  /\ startData' = {} /\ endData' = [n \in Node |-> <<>>] /\ over' = {}
  /\ UNCHANGED <<requestBuffer, consensusState, clearPending, consensusNotify>>

Receive(n) ==
  \/ \E m \in sent : Deliver(n, m)
  \/ \E m \in replies : HandleReply(n, m)

Next ==
  \/ ExtraInitialStart
  \/ StateCheckNotify
  \/ StateCheckClear
  \/ MakeConsensusRequests
  \/ StartConsensus
  \/ \E n \in Node : Receive(n) \/ Stop(n)
  \/ ProtocolStart

Spec == Init /\ [][Next]_vars

\* The loops run and no message is lost while the nodes run.
Fairness ==
  /\ WF_vars(ExtraInitialStart)
  /\ WF_vars(StateCheckNotify)
  /\ WF_vars(StateCheckClear)
  /\ WF_vars(StartConsensus)
  /\ WF_vars(ProtocolStart)
  /\ \A n \in Node : WF_vars(Receive(n))

-----------------------------------------------------------------------------
\* "Reset all the running data of the consensus protocol" (protocol_reset in
\* behaviour.rs): the last test round, which starts after the one before it was
\* reset at any moment, comes to close a request.
LastRoundCloses == (session = MaxSession) ~> (over # {})

=============================================================================
