------------------------------- MODULE ViewTimer ------------------------------
(***************************************************************************)
(* The view timers of one node that runs a HotStuff protocol: the timer     *)
(* tasks that view_timeout_start spawns, the Notify objects they share with *)
(* the protocol (view_timeout_notify, view_timeout_stop_notify) and with    *)
(* the event loop of components/src/protocol_actuator.rs, over several      *)
(* sessions.                                                               *)
(*                                                                         *)
(* A Notify is named by the session whose protocol_reset made it; 0 is the  *)
(* one network_start handed over (init_timeout_notify), the only one the    *)
(* event loop waits on.  A Notify stores at most one permit.               *)
(***************************************************************************)
EXTENDS Naturals, FiniteSets

CONSTANTS
  MaxSession,   \* bound of the model: number of ProtocolStarts
  MaxView       \* bound of the model: the last view of a session

VARIABLES
  protocol,     \* which HotStuff the node runs
  running,      \* the event loop of a session is running
  session,      \* number of ProtocolStarts so far; names the protocol's Notifys
  view,         \* State::view
  timers,       \* timer tasks waiting for their stop or their timeout
  stopPermit,   \* the stop Notifys that hold a permit
  wakePermit,   \* the timeout Notifys that hold a permit
  expired       \* the views of this session whose timer ran out

vars == <<protocol, running, session, view, timers, stopPermit, wakePermit, expired>>

ActuatorNotify == 0

\* network_start.
Init ==
  /\ protocol \in {"BasicHotstuff", "ChainHotstuff"}
  /\ running = FALSE
  /\ session = 0
  /\ view = 0
  /\ timers = {}
  /\ stopPermit = {}
  /\ wakePermit = {}
  /\ expired = {}

Timer(v) == [view |-> v, session |-> session]

Waiting(ts) == {t \in ts : t.session = session}

\* The timers and permits left by view_timeout_stop: notify_one wakes the oldest
\* waiting task or, when there is none, leaves a permit.
StopTimer(ts, permits) ==
  IF Waiting(ts) = {}
    THEN <<ts, permits \cup {session}>>
    ELSE <<ts \ {CHOOSE t \in Waiting(ts) : \A u \in Waiting(ts) : t.view <= u.view}, permits>>

\* ... and by view_timeout_start for view v: a stored stop ends the new task at once.
StartTimer(ts, permits, v) ==
  IF session \in permits
    THEN <<ts, permits \ {session}>>
    ELSE <<ts \cup {Timer(v)}, permits>>

SetTimers(tp) == timers' = tp[1] /\ stopPermit' = tp[2]

\* The ProtocolStart arm: protocol_reset replaces both Notifys of the protocol.
ProtocolStart ==
  /\ ~running
  /\ session < MaxSession
  /\ SetTimers(StopTimer(timers, stopPermit))
  /\ running' = TRUE
  /\ session' = session + 1
  /\ view' = 0
  /\ expired' = {}
  /\ UNCHANGED <<protocol, wakePermit>>

\* The protocol_stop and crash arms: reset leaves the protocol as it is.
Reset ==
  /\ running
  /\ running' = FALSE
  /\ UNCHANGED <<protocol, session, view, timers, stopPermit, wakePermit, expired>>

\* newview and next_view: the leader of a Chain HotStuff view starts no timer.
NextView(tp, leads) ==
  /\ view < MaxView
  /\ view' = view + 1
  /\ SetTimers(IF protocol = "ChainHotstuff" /\ leads THEN tp
               ELSE StartTimer(tp[1], tp[2], view + 1))

\* storage_consensus_node_pk.
FirstView(leads) ==
  /\ running /\ view = 0
  /\ NextView(<<timers, stopPermit>>, leads)
  /\ UNCHANGED <<protocol, running, session, wakePermit, expired>>

\* handle_decide and handle_commit_vote of Basic HotStuff.
Decide ==
  /\ protocol = "BasicHotstuff"
  /\ running /\ view > 0
  /\ NextView(StopTimer(timers, stopPermit), FALSE)
  /\ UNCHANGED <<protocol, running, session, wakePermit, expired>>

\* replica_handle_generic of Chain HotStuff: the timer of the next view starts
\* before a timer is stopped; the next leader stays in the view.
Generic(leadsNext) ==
  /\ protocol = "ChainHotstuff"
  /\ running /\ view > 0 /\ view < MaxView
  /\ view' = IF leadsNext THEN view ELSE view + 1
  /\ LET tp == IF leadsNext THEN <<timers, stopPermit>>
               ELSE StartTimer(timers, stopPermit, view + 1)
     IN SetTimers(StopTimer(tp[1], tp[2]))
  /\ UNCHANGED <<protocol, running, session, wakePermit, expired>>

\* handle_newview_generic of Chain HotStuff.
NewviewGeneric(leads) ==
  /\ protocol = "ChainHotstuff"
  /\ running /\ view > 0
  /\ NextView(<<timers, stopPermit>>, leads)
  /\ UNCHANGED <<protocol, running, session, wakePermit, expired>>

\* The task of view_timeout_start runs into its timeout and notifies the Notify it
\* was started with.
TimerExpires(t) ==
  /\ t \in timers
  /\ timers' = timers \ {t}
  /\ wakePermit' = wakePermit \cup {t.session}
  /\ expired' = IF t.session = session THEN expired \cup {t.view} ELSE expired
  /\ UNCHANGED <<protocol, running, session, view, stopPermit>>

\* The view_timeout_notify arm and view_timeout_handler.
ViewTimeoutHandler(leads) ==
  /\ running
  /\ ActuatorNotify \in wakePermit
  /\ wakePermit' = wakePermit \ {ActuatorNotify}
  /\ NextView(<<timers, stopPermit>>, leads)
  /\ UNCHANGED <<protocol, running, session, expired>>

Handle(leads) ==
  \/ FirstView(leads) \/ Generic(leads) \/ NewviewGeneric(leads) \/ ViewTimeoutHandler(leads)

Next ==
  \/ ProtocolStart \/ Reset \/ Decide
  \/ \E leads \in BOOLEAN : Handle(leads)
  \/ \E t \in timers : TimerExpires(t)

\* A timer task ends and the event loop takes the arm of a Notify that has a
\* permit.  Nothing makes a decision or the next session come.
Fairness ==
  /\ WF_vars(\E t \in timers : TimerExpires(t))
  /\ WF_vars(\E leads \in BOOLEAN : ViewTimeoutHandler(leads))

Spec == Init /\ [][Next]_vars /\ Fairness

\* What view_timeout_handler is documented to be for: a node whose view has timed
\* out does not stay in that view.
TimedOutViewIsLeft ==
  \A v \in 1 .. MaxView - 1 :
    (running /\ view = v /\ v \in expired) ~> (~running \/ view # v)
=============================================================================
