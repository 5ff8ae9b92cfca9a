---------------------------- MODULE MCGclAdaptive ----------------------------
(***************************************************************************)
(* Two slots, as in the simulations: first TT alone, then the other gates. *)
(***************************************************************************)
EXTENDS GclAdaptive

TwoSlots(cycle, t) ==
  [cycleTime |-> cycle,
   controlList |-> <<[timeInterval |-> t, gates |-> {"tt"}],
                     [timeInterval |-> cycle - t, gates |-> {"be"}]>>]

MCInitial30 == TwoSlots(30, 8)
MCInitial10 == TwoSlots(10, 4)
=============================================================================
