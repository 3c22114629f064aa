-------------------------- MODULE ProtocolActuator --------------------------
(***************************************************************************)
(* What the controller sees of a consensus node: the two event loops of      *)
(* components/src/protocol_actuator.rs, protocol_start_listening (idle) and  *)
(* message_handler_start (running), their timers and their Notify permits.   *)
(* The consensus protocol inside the running loop is module PBFT's.          *)
(*                                                                         *)
(* An operator maps the record of one node to the record after the handler.  *)
(***************************************************************************)
EXTENDS Interaction

NodeState ==
  [mode : Mode,
   running : BOOLEAN,          \* inside message_handler_start
   subscribed : BOOLEAN,       \* to the gossip topic "Consensus"
   stopPermit : BOOLEAN,       \* protocol_stop_notify
   crashTimers : Nat,          \* crash timers that have not fired
   crashPermit : BOOLEAN,      \* crash_notify
   maliciousTimers : Nat,      \* malicious timers that have not fired
   maliciousPermit : BOOLEAN,  \* malicious_trigger_notify
   malicious : BOOLEAN,        \* malicious_flag
   panicked : BOOLEAN,         \* the process is gone
   out : Seq(Feedback)]        \* unicasts to the controller

NewNode ==
  [mode |-> SimpleMode("Uninitialized"), running |-> FALSE, subscribed |-> FALSE,
   stopPermit |-> FALSE, crashTimers |-> 0, crashPermit |-> FALSE,
   maliciousTimers |-> 0, maliciousPermit |-> FALSE, malicious |-> FALSE,
   panicked |-> FALSE, out |-> <<>>]

\* On the way into the running loop.
ProtocolStartPreprocess(s) ==
  [s EXCEPT !.running = TRUE,
            !.crashTimers = IF s.mode.kind = "Crash" THEN @ + 1 ELSE @,
            !.maliciousTimers = IF s.mode.kind \in DishonestKind THEN @ + 1 ELSE @]

\* no_running_controller_message_handler.
HandleIdle(s, m) ==
  CASE m.type = "ConfigureConsensusNode" ->
         [s EXCEPT !.mode = m.mode, !.subscribed = TRUE,
                   !.out = Append(@, Say("ConsensusNodeModeSuccess", m.mode))]
    [] m.type = "JoinConsensus" ->
         [s EXCEPT !.mode = SimpleMode("HonestOther"), !.subscribed = TRUE,
                   !.out = Append(@, Tell("JoinConsensusSuccess"))]
    [] m.type = "ConsensusNodeMode" /\ s.mode # m.mode ->
         [s EXCEPT !.mode = m.mode, !.subscribed = TRUE,
                   !.out = Append(@, Say("ConsensusNodeModeSuccess", m.mode))]
    [] m.type = "ProtocolStart" -> ProtocolStartPreprocess(s)
    [] OTHER -> s

\* running_controller_message_handler; the requests it buffers are PBFT's.
HandleRunning(s, m) == IF m.type = "Reset" THEN [s EXCEPT !.stopPermit = TRUE] ELSE s

\* What is sent to a process that is gone is lost.
Handle(s, m) ==
  IF s.panicked THEN s ELSE IF s.running THEN HandleRunning(s, m) ELSE HandleIdle(s, m)

\* reset and the break out of the running loop; Notify permits survive it.
Reset(s) == [s EXCEPT !.running = FALSE, !.malicious = FALSE,
                      !.out = Append(@, Say("ResetSuccess", s.mode))]

Stop(s) == Reset([s EXCEPT !.stopPermit = FALSE])

\* Mutant: a crashing node stays subscribed.
CrashSubscribed(s) == Reset([s EXCEPT !.crashPermit = FALSE])

Crash(s) == Reset([s EXCEPT !.crashPermit = FALSE, !.subscribed = FALSE])

Trigger(s) == [s EXCEPT !.maliciousPermit = FALSE, !.malicious = TRUE]

\* The next broadcast of a triggered node asks the protocol for its current_request,
\* whatever its mode and phase; the PBFT protocols leave that a todo!().  Of
\* the process only the messages it has sent remain.
Panic(s) == [NewNode EXCEPT !.mode = s.mode, !.subscribed = s.subscribed,
                            !.panicked = TRUE, !.out = s.out]

\* The one-second timers of crash_timer_start and malicious_timer_start fire.
CrashTimer(s) == [s EXCEPT !.crashTimers = @ - 1, !.crashPermit = TRUE]

\* Mutant: the wrong timer is used up.
MaliciousTimerMixedUp(s) == [s EXCEPT !.crashTimers = @ - 1, !.maliciousPermit = TRUE]

MaliciousTimer(s) == [s EXCEPT !.maliciousTimers = @ - 1, !.maliciousPermit = TRUE]

\* Nothing of the node's own is left to happen.
Settled(s) ==
  /\ s.out = <<>>
  /\ s.crashTimers = 0 /\ s.maliciousTimers = 0
  /\ s.running => ~s.stopPermit /\ ~s.crashPermit /\ ~s.maliciousPermit

=============================================================================
