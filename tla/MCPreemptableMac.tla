--------------------------- MODULE MCPreemptableMac ---------------------------
(***************************************************************************)
(* Two schedules: one in which the express gate opens and closes while the *)
(* other is always open, without hold and release, and one with a slot of  *)
(* each class and holds before the express slot, which comes first, so     *)
(* that the MAC is on hold from the start.  Numbers are scaled down;       *)
(* the longer preemptable frame can be preempted twice, the shorter only   *)
(* at one place, and then not when an express frame came early.            *)
(***************************************************************************)
EXTENDS PreemptableMac

MCSlot(t, gates) == [timeInterval |-> t, gates |-> gates]

MCSchedules ==
  { [holdAndRelease |-> FALSE,
     list |-> <<MCSlot(11, {"preemptable"}), MCSlot(25, {"express", "preemptable"})>>],
    [holdAndRelease |-> TRUE,
     list |-> <<MCSlot(14, {"express"}), MCSlot(19, {"preemptable"})>>] }

\* The sizes of the code, and a slot of each class.
MCRealSchedules ==
  { [holdAndRelease |-> TRUE,
     list |-> <<MCSlot(100, {"preemptable"}), MCSlot(300, {"express"})>>] }
=============================================================================
