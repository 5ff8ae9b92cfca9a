------------------------------ MODULE MCClocks ------------------------------
(***************************************************************************)
(* A clock that can be fast: a tick lasts 2 or 3 units and adds up to one  *)
(* more to the local time, so that a timestamp 3 units away lies on a tick *)
(* or between two of them, and a change of the rate moves it.  The         *)
(* listeners of a clock are treated alike, so they are symmetric.          *)
(***************************************************************************)
EXTENDS Clocks, TLC

Alike == Permutations(Listeners) \cup Permutations(LegacyListeners)
=============================================================================
