----------------------------- MODULE MCFramework -----------------------------
(* Test plans for TLC, three consensus nodes. *)
EXTENDS Framework

Performance == Item("Performance", 0, 0)

Scalability(max, step) == [Item("Scalability", 1, max) EXCEPT !.step = step]

Crashes(max) == Item("Crash", 0, max)

Malicious(kind, phases) == Item(kind, 0, phases)

Conspire(phases) == Malicious("ReplicaNodeConspireForgeMessages", phases)

Plan(items, timely, ordered) ==
  [items |-> items, timely |-> timely, ordered |-> ordered, currentRequest |-> TRUE]

Timely(items) == Plan(items, TRUE, TRUE)

Late(items) == Plan(items, FALSE, TRUE)

Reordered(items) == Plan(items, FALSE, FALSE)

\* With one of the PBFT protocols.
Panicking(p) == [p EXCEPT !.currentRequest = FALSE]

\* Plans that are Survivable, Scalable and Completable.
RegularPlans ==
  {Timely(<<Performance, Scalability(3, 1), Crashes(4), Malicious("LeaderFeignDeath", 2),
            Malicious("LeaderSendDuplicateMessage", 1)>>),
   Timely(<<Malicious("LeaderSendAmbiguousMessage", 2), Performance>>),
   Panicking(Timely(<<Malicious("LeaderFeignDeath", 0), Crashes(1)>>)),
   Late(<<Performance, Crashes(1), Malicious("LeaderFeignDeath", 1)>>),
   Reordered(<<Performance, Scalability(2, 1), Malicious("LeaderFeignDeath", 1)>>),
   Reordered(<<Performance, Crashes(1)>>)}

\* Plans a configuration may ask for as well.
IrregularPlans ==
  {Timely(<<Performance, Scalability(3, 2), Crashes(1)>>),
   Timely(<<Performance, Scalability(4, 1), Crashes(1)>>),
   Timely(<<Scalability(2, 1), Crashes(1)>>),
   Timely(<<Conspire(1), Performance>>),
   Reordered(<<Conspire(1)>>),
   Timely(<<Malicious("LeaderSendAmbiguousMessage", 1), Conspire(1), Performance>>),
   Timely(<<Item("LeaderDelaySendMessage", 0, 1), Performance>>),
   Panicking(Timely(<<Conspire(1), Performance>>)),
   Panicking(Late(<<Performance, Malicious("LeaderFeignDeath", 1), Performance>>))}

SessionPlans == RegularPlans \cup IrregularPlans

OneFieldEach == [p \in 1..2 |-> 1]

\* The controller meets the nodes in one order out of those that differ only in
\* the nodes' names.
OneOrder == CHOOSE s \in Orders : TRUE

InitOneOrder == Init /\ ctl.optionalDishonest = OneOrder

FairSpecOneOrder == InitOneOrder /\ [][Next]_vars /\ WF_vars(Next)

=============================================================================
