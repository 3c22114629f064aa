------------------------------ MODULE Analyzer ------------------------------
(***************************************************************************)
(* The analyzer's part in the test sequence (components/src/analyzer/         *)
(* analyzer.rs): which item it is testing, the timers that end a test, and    *)
(* its report to the controller.  What it computes from the nodes' data       *)
(* (data_warehouse.rs) is not modelled here.                                 *)
(***************************************************************************)
EXTENDS Interaction

AnalyzerState ==
  [item : TestItem \cup {NoItem},   \* current_test_item
   timers : Nat,                    \* duration timers that have not fired
   completedPermit : BOOLEAN,       \* completed_test_notify
   results : SUBSET TestItem,       \* rounds whose result has been computed
   panicked : BOOLEAN,              \* next_test unwrapped an empty test item
   out : Seq(TestItem)]             \* CompletedTest unicasts to the controller

NewAnalyzer ==
  [item |-> NoItem, timers |-> 0, completedPermit |-> FALSE, results |-> {},
   panicked |-> FALSE, out |-> <<>>]

\* controller_message_handler.  StartTest without a configured item is ignored.
HandleController(a, m) ==
  CASE m.type = "TestItem" -> [a EXCEPT !.item = m.item]
    [] m.type = "StartTest" /\ a.item # NoItem -> [a EXCEPT !.timers = @ + 1]
    [] OTHER -> a

\* Mutant: the interval keeps ticking.
TestTimerPeriodic(a) == [a EXCEPT !.completedPermit = TRUE]

\* A timer of performance_, crash_ or malicious_test_timer_start fires.
TestTimer(a) == [a EXCEPT !.timers = @ - 1, !.completedPermit = TRUE]

\* The completed_test_notify arm: compute_and_analyse the round, then next_test
\* reports the item and clears it.
CompleteTest(a) ==
  IF a.item = NoItem
    THEN [a EXCEPT !.completedPermit = FALSE, !.panicked = TRUE]
    ELSE [a EXCEPT !.completedPermit = FALSE, !.item = NoItem,
                   !.results = @ \cup {a.item},
                   !.out = Append(@, a.item)]

=============================================================================
