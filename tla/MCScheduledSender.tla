-------------------------- MODULE MCScheduledSender --------------------------
(***************************************************************************)
(* Schedules for the model checker.  The initial one has an entry of zero  *)
(* length and fills its cycle of 3; the others are longer than their cycle *)
(* with an entry that is not reached, shorter than it with a base time in  *)
(* the past, and empty.                                                    *)
(***************************************************************************)
EXTENDS ScheduledSender

Slot(t, x) == [timeInterval |-> t, object |-> x]

List(base, cycle, ext, list) ==
  [baseTime |-> base, cycleTime |-> cycle, cycleTimeExtension |-> ext, controlList |-> list]

Full == List(1, 3, 0, <<Slot(1, "x"), Slot(0, "y"), Slot(1, "x")>>)
Long == List(3, 4, 1, <<Slot(2, "y"), Slot(3, "x"), Slot(1, "y")>>)
Short == List(-2, 3, 0, <<Slot(2, "x")>>)
Empty == List(0, 2, 0, <<>>)

MCSchedules == {Long, Short, Empty}
=============================================================================
