---------------------------- MODULE GclTwoSwitch ----------------------------
(***************************************************************************)
(* The adaptive experiment with two switches: VlanEtherTrafGenGCL2 adjusts *)
(* either the shared switch "a" or the exclusive switch "b".  Both ports   *)
(* have the same cycle time and base time, so their updates are due at the *)
(* same instants, in either order, with packets received in between.  Of a *)
(* gate controller this module keeps what receivePacket() reads and        *)
(* writes; GateController has the rest.  BE packets go through             *)
(* receivePacket() too and take part in the selection.                     *)
(***************************************************************************)
EXTENDS IntervalControl, FiniteSets

CONSTANTS
  Cycle,       \* cycle time of both ports
  InitialTT,   \* TT slot of the initial schedules
  Delays,      \* delays TT packets may arrive with
  UsedTimes    \* times from a cycle start to the last TT transmission

Switches == {"a", "b"}

None == "none"   \* a pointer nothing has been assigned to

VARIABLES
  current,                  \* TT slot each port executes
  next,                     \* TT slot in newSchedule of each port
  isIncreased, isSelected,  \* the flags of each gate controller
  due,                      \* ports whose update of this instant is to come
  gateController,           \* the pointers of the receiver
  transmissionSelection,
  firstIncrease,            \* is_first_increase_switch
  firstDecrease,            \* is_first_decrease_switch
  failed,                   \* an exception, or a wild pointer was followed
  moved                     \* history: ports whose slot this cycle start changed

receiverVars == <<gateController, transmissionSelection, firstIncrease, firstDecrease>>

vars == <<current, next, isIncreased, isSelected, due, receiverVars, failed, moved>>

ASSUME TwoSwitchAssumption ==
  /\ Cycle \in Nat \ {0}
  /\ InitialTT \in Shortest(Cycle) .. Longest(Cycle)
  /\ Delays \subseteq Nat \ {0}
  /\ UsedTimes \subseteq Int

\* The first update of both ports has taken place at their base time, 0.
Init ==
  /\ current = [s \in Switches |-> InitialTT]
  /\ next = [s \in Switches |-> InitialTT]
  /\ isIncreased = [s \in Switches |-> FALSE]
  /\ isSelected = [s \in Switches |-> FALSE]
  /\ due = {}
  /\ gateController = None
  /\ transmissionSelection = None
  /\ firstIncrease = TRUE
  /\ firstDecrease = TRUE
  /\ failed = FALSE
  /\ moved = {}

\* The cycles of both ports end.
CycleEnds ==
  /\ ~failed
  /\ due = {}
  /\ due' = Switches
  /\ moved' = {}
  /\ UNCHANGED <<current, next, isIncreased, isSelected, receiverVars, failed>>

\* Mutants: the load accepts negative intervals; it resets the selection of
\* both ports.
UpdateUnchecked(s) ==
  /\ ~failed
  /\ s \in due
  /\ due' = due \ {s}
  /\ current' = [current EXCEPT ![s] = next[s]]
  /\ isIncreased' = [isIncreased EXCEPT ![s] = FALSE]
  /\ isSelected' = [isSelected EXCEPT ![s] = FALSE]
  /\ moved' = IF next[s] = current[s] THEN moved ELSE moved \cup {s}
  /\ UNCHANGED <<next, receiverVars, failed>>

UpdateResetsBoth(s) ==
  /\ ~failed
  /\ s \in due
  /\ next[s] \in 0 .. Cycle
  /\ due' = due \ {s}
  /\ current' = [current EXCEPT ![s] = next[s]]
  /\ isIncreased' = [isIncreased EXCEPT ![s] = FALSE]
  /\ isSelected' = [t \in Switches |-> FALSE]
  /\ moved' = IF next[s] = current[s] THEN moved ELSE moved \cup {s}
  /\ UNCHANGED <<next, receiverVars, failed>>

\* updateSchedule() of port s loads newSchedule.
UpdateSchedule(s) ==
  /\ ~failed
  /\ s \in due
  /\ next[s] \in 0 .. Cycle
  /\ due' = due \ {s}
  /\ current' = [current EXCEPT ![s] = next[s]]
  /\ isIncreased' = [isIncreased EXCEPT ![s] = FALSE]
  /\ isSelected' = [isSelected EXCEPT ![s] = FALSE]
  /\ moved' = IF next[s] = current[s] THEN moved ELSE moved \cup {s}
  /\ UNCHANGED <<next, receiverVars, failed>>

\* The load throws: the TT or the BE slot would be negative.
UpdateScheduleThrows(s) ==
  /\ ~failed
  /\ s \in due
  /\ next[s] \notin 0 .. Cycle
  /\ failed' = TRUE
  /\ UNCHANGED <<current, next, isIncreased, isSelected, due, receiverVars, moved>>

-----------------------------------------------------------------------------
\* The port chosen when none is: only a TT packet with a high or a low delay
\* chooses, in turns; any other packet finds what the pointer holds.
NewlySelected(tt, delay) ==
  IF tt /\ High(delay) THEN (IF firstIncrease THEN "a" ELSE "b")
  ELSE IF tt /\ Low(delay) THEN (IF firstDecrease THEN "a" ELSE "b")
  ELSE gateController

\* A port is selected already: it stays the one to adjust.
KeepSelection ==
  /\ gateController' = CHOOSE s \in Switches : isSelected[s]
  /\ UNCHANGED <<transmissionSelection, firstIncrease, firstDecrease, isSelected>>

\* Mutant: transmissionSelection is assigned for a high delay only.
SelectLeavesTransmissionSelection(tt, delay) ==
  LET s == NewlySelected(tt, delay)
      high == tt /\ High(delay)
      low == tt /\ Low(delay)
  IN
  /\ s # None
  /\ gateController' = s
  /\ transmissionSelection' = IF high THEN s ELSE transmissionSelection
  /\ firstIncrease' = IF high THEN ~firstIncrease ELSE low \/ firstIncrease
  /\ firstDecrease' = IF low THEN ~firstDecrease ELSE high \/ firstDecrease
  /\ isSelected' = [isSelected EXCEPT ![s] = TRUE]

\* No port is selected: the packet selects one.
NewSelection(tt, delay) ==
  LET s == NewlySelected(tt, delay)
      high == tt /\ High(delay)
      low == tt /\ Low(delay)
  IN
  /\ s # None
  /\ gateController' = s
  /\ transmissionSelection' = IF high \/ low THEN s ELSE transmissionSelection
  /\ firstIncrease' = IF high THEN ~firstIncrease ELSE low \/ firstIncrease
  /\ firstDecrease' = IF low THEN ~firstDecrease ELSE high \/ firstDecrease
  /\ isSelected' = [isSelected EXCEPT ![s] = TRUE]

\* Mutant: only the shared switch is asked whether it is selected.
SelectAsksSharedOnly(tt, delay) ==
  IF isSelected["a"] THEN KeepSelection ELSE NewSelection(tt, delay)

\* The first part of receivePacket: which port is adjusted in this cycle.
SelectSwitch(tt, delay) ==
  IF \E s \in Switches : isSelected[s]
  THEN KeepSelection
  ELSE NewSelection(tt, delay)

\* The second part: a TT packet changes newSchedule of the port.  used is what
\* transmissionSelection recorded of the port's last TT transmission.
AdjustInterval(s, delay, used) ==
  /\ next' = [next EXCEPT ![s] = TargetInterval(delay, Cycle, current[s], next[s],
                                                isIncreased[s], used)]
  /\ isIncreased' = [isIncreased EXCEPT ![s] = @ \/ High(delay)]

ReceiveTT(delay) ==
  /\ ~failed
  /\ isSelected # [s \in Switches |-> TRUE]
  /\ SelectSwitch(TRUE, delay)
  /\ \E used \in UsedTimes : AdjustInterval(gateController', delay, used)
  /\ UNCHANGED <<current, due, failed, moved>>

ReceiveBE ==
  /\ ~failed
  /\ isSelected # [s \in Switches |-> TRUE]
  /\ SelectSwitch(FALSE, 0)
  /\ UNCHANGED <<current, next, isIncreased, due, failed, moved>>

\* "switch select failed" is thrown, or no port is selected and the packet
\* chooses none: gateController is used before it was ever assigned.
ReceiveFails(tt, delay) ==
  /\ ~failed
  /\ \/ isSelected = [s \in Switches |-> TRUE]
     \/ /\ isSelected = [s \in Switches |-> FALSE]
        /\ NewlySelected(tt, delay) = None
  /\ failed' = TRUE
  /\ UNCHANGED <<current, next, isIncreased, isSelected, due, receiverVars, moved>>

Next ==
  \/ CycleEnds
  \/ \E s \in Switches : UpdateSchedule(s) \/ UpdateScheduleThrows(s)
  \/ \E delay \in Delays : ReceiveTT(delay) \/ ReceiveFails(TRUE, delay)
  \/ ReceiveBE
  \/ ReceiveFails(FALSE, 0)

Spec == Init /\ [][Next]_vars

-----------------------------------------------------------------------------
TypeOK ==
  /\ current \in [Switches -> 0 .. Cycle]
  /\ next \in [Switches -> Int]
  /\ isIncreased \in [Switches -> BOOLEAN]
  /\ isSelected \in [Switches -> BOOLEAN]
  /\ due \subseteq Switches
  /\ gateController \in Switches \cup {None}
  /\ transmissionSelection \in Switches \cup {None}
  /\ firstIncrease \in BOOLEAN
  /\ firstDecrease \in BOOLEAN
  /\ failed \in BOOLEAN
  /\ moved \subseteq Switches

\* The two ports reset their flags at different moments and packets come in
\* between, but they are never both selected: receivePacket cannot throw
\* "switch select failed".
NeverBothSelected == ~(isSelected["a"] /\ isSelected["b"])

\* No sequence of packets and updates makes a port execute a TT slot outside of
\* its cycle, and "switch select failed" is never thrown.
AssertionsHold == TypeOK /\ NeverBothSelected

\* A selected port is the one the receiver adjusts, and transmissionSelection
\* belongs to the same switch (autoIntervalDecrease subtracts the times of the
\* one from those of the other).
PointersAgree ==
  /\ \A s \in Switches : isSelected[s] => gateController = s
  /\ transmissionSelection = gateController

\* Only the port selected in this cycle has a proposal that differs from what
\* it executes; the other one keeps its slot.
OnlySelectedIsAdjusted ==
  \A s \in Switches : next[s] # current[s] => isSelected[s]

\* "In one GCL cycle only one switch is changed" (rule 3 of receivePacket).
OneSwitchPerCycle == Cardinality(moved) <= 1
=============================================================================
