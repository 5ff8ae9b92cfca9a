---------------------------- MODULE TimerPromise ----------------------------
(***************************************************************************)
(* What a clock promises its listeners: who asked to be told at a time is  *)
(* told once, in the order of time, at the first tick with which the clock *)
(* reaches that time, and not at all after it cancelled.  Time goes on in  *)
(* ticks, which may be of any length.                                      *)
(***************************************************************************)
EXTENDS Integers

VARIABLES
  time,      \* what the clock shows at its last tick
  pending,   \* who still waits for what: a set of [listener, due]
  told       \* those that were told since the last tick

vars == <<time, pending, told>>

Init == time = 0 /\ pending = {} /\ told = {}

\* Asking twice for the same is asking once.
Ask(p) ==
  /\ p.due >= time
  /\ pending' = pending \cup {p}
  /\ UNCHANGED <<time, told>>

Cancel(S) ==
  /\ S \subseteq pending
  /\ pending' = pending \ S
  /\ UNCHANGED <<time, told>>

\* Listeners are told, none of them before the time has come, and no one who
\* waits for an earlier time is passed over.
Tell(S) ==
  /\ S \subseteq pending /\ S # {}
  /\ \A p \in S : p.due <= time /\ \A q \in pending \ S : p.due <= q.due
  /\ pending' = pending \ S
  /\ told' = told \cup S
  /\ UNCHANGED time

\* The next tick, when everybody was told whose time had come.
Advance ==
  /\ \A p \in pending : p.due > time
  /\ time' > time
  /\ told' = {}
  /\ UNCHANGED pending

Next ==
  \/ \E p \in pending' : Ask(p)
  \/ Cancel(pending \ pending')
  \/ Tell(pending \ pending')
  \/ Advance

Spec == Init /\ [][Next]_vars
=============================================================================
