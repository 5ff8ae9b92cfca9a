--------------------------- MODULE MCGclTwoSwitch ---------------------------
(***************************************************************************)
(* What autoIntervalDecrease may compute with: a TT transmission of the    *)
(* cycle before, one within the TT slot, one late in this cycle.           *)
(***************************************************************************)
EXTENDS GclTwoSwitch

MCUsedTimes == {-10, 4, 10}
=============================================================================
