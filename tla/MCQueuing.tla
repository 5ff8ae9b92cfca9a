------------------------------ MODULE MCQueuing ------------------------------
(***************************************************************************)
(* A control list with a slot of each class and one in which both gates    *)
(* are open.  A frame with its gap takes 3 or 4 units, so frames end at    *)
(* every distance from a change of the gates.                              *)
(***************************************************************************)
EXTENDS Queuing

MCSlot(t, gates) == [timeInterval |-> t, gates |-> gates]

MCControlList == <<MCSlot(7, {1}), MCSlot(4, {0}), MCSlot(3, {0, 1})>>
=============================================================================
