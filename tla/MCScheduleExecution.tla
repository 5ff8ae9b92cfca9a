------------------------- MODULE MCScheduleExecution -------------------------
(***************************************************************************)
(* Schedules for the model checker: three gates, of which "tt" has an      *)
(* entry of its own and "be" and "bg" share the rest of the cycle.         *)
(***************************************************************************)
EXTENDS ScheduleExecution

List(cycle, entries) == [cycleTime |-> cycle, controlList |-> entries]

E(t, gates) == [timeInterval |-> t, gates |-> gates]

\* A TT slot of t, a slot for both other gates, and one for "be" alone.
ThreeSlots(t, u, v) == List(8, <<E(t, {"tt"}), E(u, {"be", "bg"}), E(v, {"be"})>>)

\* The intervals add up to the cycle time.
ExactInitial == ThreeSlots(2, 3, 3)
ExactProposals == {ThreeSlots(2, 3, 3), ThreeSlots(4, 3, 1), ThreeSlots(1, 1, 6)}

\* They add up to more: the last entry is cut, or not reached at all because
\* the second one already runs over the end of the cycle.
LongInitial == ThreeSlots(3, 4, 4)
LongProposals == {LongInitial, ThreeSlots(1, 6, 5)}
CutProposals == {ThreeSlots(3, 6, 2), ThreeSlots(2, 7, 2)}

\* All of them, and one that the load refuses.
AllProposals == ExactProposals \cup LongProposals \cup CutProposals \cup {ThreeSlots(-1, 6, 5)}
=============================================================================
