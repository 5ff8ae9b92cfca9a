---------------------------- MODULE SlotPromise ----------------------------
(***************************************************************************)
(* What an adaptively controlled port promises about its TT slot, without  *)
(* clocks, messages or the arithmetic of the control law: the slot that is *)
(* executed only ever becomes the one proposed last, proposals stay        *)
(* between the shortest and the longest slot, and once the slot has been   *)
(* enlarged in a cycle nothing takes the enlargement back before it is     *)
(* executed.                                                               *)
(***************************************************************************)
EXTENDS Integers

CONSTANTS
  MinSlot, MaxSlot,   \* the shortest and the longest slot
  NoSlot              \* no slot is executed yet

VARIABLES
  executed,   \* length of the TT slot of the running cycle
  proposed,   \* length proposed for the next one
  enlarged    \* the proposal was enlarged in this cycle

promiseVars == <<executed, proposed, enlarged>>

Slots == MinSlot .. MaxSlot

Init ==
  /\ executed = NoSlot
  /\ proposed \in Slots
  /\ enlarged = FALSE

\* A late packet: the next slot is longer than this one, or the longest.
Enlarge ==
  /\ executed # NoSlot
  /\ proposed' \in {t \in Slots : t > executed \/ t = MaxSlot}
  /\ enlarged => proposed' >= proposed
  /\ enlarged' = TRUE
  /\ UNCHANGED executed

\* An early packet, in a cycle without a late one so far.
Shrink ==
  /\ executed # NoSlot
  /\ ~enlarged
  /\ proposed' \in {t \in Slots : t <= proposed}
  /\ UNCHANGED <<executed, enlarged>>

\* The cycle is over.
Load ==
  /\ executed' = proposed
  /\ enlarged' = FALSE
  /\ UNCHANGED proposed

Next == Enlarge \/ Shrink \/ Load

Spec == Init /\ [][Next]_promiseVars
=============================================================================
