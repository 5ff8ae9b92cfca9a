------------------------ MODULE GclTwoSwitchProofs ------------------------
(***************************************************************************)
(* The selection of a switch is right for every cycle time, every set of   *)
(* delays and every setting of the control law: proofs of the invariants   *)
(* that the run two_auto checks on small instances.                        *)
(***************************************************************************)
EXTENDS GclTwoSwitch, TLAPS

\* Whatever the arguments, the control law computes a truncated length.
LEMMA TargetIntervalType ==
  ASSUME NEW delay \in Nat, NEW cycle \in Nat, NEW cur \in Int, NEW nxt \in Int,
         NEW inc \in BOOLEAN, NEW used \in Int
  PROVE  /\ TargetInterval(delay, cycle, cur, nxt, inc, used) \in Int
         /\ TargetInterval(delay, cycle, cur, nxt, inc, used) \in {TruncUs(y) : y \in Int}
<1>1. IncreasedInterval(cycle, cur, nxt) \in Int
  BY ParameterAssumption DEF IncreasedInterval, NineTenths
<1>2. DecreasedInterval(cycle, cur, nxt) \in Int
  BY ParameterAssumption DEF DecreasedInterval, OneTenth
<1>3. ElevenTenths(used) \in Int
  BY DEF ElevenTenths
<1>4. \A t \in Int : TruncUs(t) \in Int
  BY ParameterAssumption DEF TruncUs
<1>5. \E y \in Int : TargetInterval(delay, cycle, cur, nxt, inc, used) = TruncUs(y)
  BY <1>1, <1>2, <1>3 DEF TargetInterval
<1>. QED
  BY <1>4, <1>5

\* The part of the type invariant that the selection of a switch assigns.
ReceiverTypeOK ==
  /\ isSelected \in [Switches -> BOOLEAN]
  /\ gateController \in Switches \cup {None}
  /\ transmissionSelection \in Switches \cup {None}
  /\ firstIncrease \in BOOLEAN
  /\ firstDecrease \in BOOLEAN

\* After the selection the receiver's pointer leads to a switch.
LEMMA SelectedIsSwitch ==
  ASSUME NEW tt, NEW delay, TypeOK, SelectSwitch(tt, delay)
  PROVE  gateController' \in Switches
<1>1. CASE \E s \in Switches : isSelected[s]
  BY <1>1 DEF SelectSwitch, KeepSelection
<1>2. CASE ~\E s \in Switches : isSelected[s]
  BY <1>2 DEF SelectSwitch, NewSelection, NewlySelected, TypeOK, Switches
<1>. QED
  BY <1>1, <1>2

\* The selection keeps the types of what it assigns.
LEMMA SelectionType ==
  ASSUME NEW tt, NEW delay, TypeOK, SelectSwitch(tt, delay)
  PROVE  ReceiverTypeOK'
<1>1. CASE \E s \in Switches : isSelected[s]
  BY <1>1, SelectedIsSwitch DEF SelectSwitch, KeepSelection, TypeOK, ReceiverTypeOK
<1>2. CASE ~\E s \in Switches : isSelected[s]
  <2>. NewSelection(tt, delay)
    BY <1>2 DEF SelectSwitch
  <2>1. isSelected' \in [Switches -> BOOLEAN]
    BY DEF NewSelection, TypeOK
  <2>2. firstIncrease' \in BOOLEAN /\ firstDecrease' \in BOOLEAN
    BY DEF NewSelection, TypeOK
  <2>3. transmissionSelection' \in Switches \cup {None}
    BY SelectedIsSwitch DEF NewSelection, TypeOK
  <2>. QED
    BY <2>1, <2>2, <2>3, SelectedIsSwitch DEF ReceiverTypeOK
<1>. QED
  BY <1>1, <1>2

\* The type invariant is inductive: no sequence of packets and updates makes a
\* port execute a TT slot outside of its cycle.
THEOREM TypeCorrect == Spec => []TypeOK
<1>1. Init => TypeOK
  <2>1. InitialTT \in 0 .. Cycle
    BY TwoSwitchAssumption, ParameterAssumption
    DEF Shortest, Longest, TruncUs, OneTenth, NineTenths
  <2>. SUFFICES ASSUME Init PROVE TypeOK
    OBVIOUS
  <2>2. current \in [Switches -> 0 .. Cycle] /\ next \in [Switches -> Int]
    BY <2>1 DEF Init
  <2>3. isIncreased \in [Switches -> BOOLEAN] /\ isSelected \in [Switches -> BOOLEAN]
    BY DEF Init
  <2>. QED
    BY <2>2, <2>3 DEF Init, TypeOK
<1>2. TypeOK /\ [Next]_vars => TypeOK'
  <2>. SUFFICES ASSUME TypeOK, [Next]_vars PROVE TypeOK'
    OBVIOUS
  <2>1. CASE CycleEnds
    BY <2>1 DEF CycleEnds, TypeOK, receiverVars
  <2>2. ASSUME NEW s \in Switches, UpdateSchedule(s) PROVE TypeOK'
    <3>1. current' \in [Switches -> 0 .. Cycle]
      BY <2>2 DEF UpdateSchedule, TypeOK
    <3>2. isIncreased' \in [Switches -> BOOLEAN] /\ isSelected' \in [Switches -> BOOLEAN]
      BY <2>2 DEF UpdateSchedule, TypeOK
    <3>. QED
      BY <2>2, <3>1, <3>2 DEF UpdateSchedule, TypeOK, receiverVars
  <2>3. ASSUME NEW s \in Switches, UpdateScheduleThrows(s) PROVE TypeOK'
    BY <2>3 DEF UpdateScheduleThrows, TypeOK, receiverVars
  <2>4. ASSUME NEW delay \in Delays, ReceiveTT(delay) PROVE TypeOK'
    <3>1. gateController' \in Switches
      BY <2>4, SelectedIsSwitch DEF ReceiveTT
    <3>2. PICK used \in UsedTimes : AdjustInterval(gateController', delay, used)
      BY <2>4 DEF ReceiveTT
    <3>3. TargetInterval(delay, Cycle, current[gateController'], next[gateController'],
                         isIncreased[gateController'], used) \in Int
      BY <3>1, TargetIntervalType, TwoSwitchAssumption DEF TypeOK
    <3>4. next' \in [Switches -> Int]
      BY <3>2, <3>3 DEF AdjustInterval, TypeOK
    <3>5. isIncreased' \in [Switches -> BOOLEAN]
      BY <3>2, TwoSwitchAssumption DEF AdjustInterval, TypeOK, High
    <3>6. ReceiverTypeOK'
      BY <2>4, SelectionType DEF ReceiveTT
    <3>. QED
      BY <2>4, <3>4, <3>5, <3>6 DEF ReceiveTT, TypeOK, ReceiverTypeOK
  <2>5. CASE ReceiveBE
    <3>1. ReceiverTypeOK'
      BY <2>5, SelectionType DEF ReceiveBE
    <3>. QED
      BY <2>5, <3>1 DEF ReceiveBE, TypeOK, ReceiverTypeOK
  <2>6. ASSUME NEW tt, NEW delay, ReceiveFails(tt, delay) PROVE TypeOK'
    BY <2>6 DEF ReceiveFails, TypeOK, receiverVars
  <2>7. CASE UNCHANGED vars
    BY <2>7 DEF vars, TypeOK, receiverVars
  <2>. QED
    BY <2>1, <2>2, <2>3, <2>4, <2>5, <2>6, <2>7 DEF Next
<1>. QED
  BY <1>1, <1>2, PTL DEF Spec

-----------------------------------------------------------------------------
(***************************************************************************)
(* The invariants of the selection.  They need each other: that the two    *)
(* ports are never both selected follows from the agreement of the         *)
(* pointers, and that only the selected port has a differing proposal      *)
(* needs that a selected port stays the one that is adjusted.              *)
(***************************************************************************)
SelectionInv == TypeOK /\ PointersAgree /\ OnlySelectedIsAdjusted

\* A selected switch is the one the receiver's pointer leads to afterwards,
\* whatever the packet.
LEMMA SelectionKeepsAgreement ==
  ASSUME NEW tt, NEW delay, TypeOK, PointersAgree, SelectSwitch(tt, delay)
  PROVE  /\ PointersAgree'
         /\ isSelected'[gateController']
         /\ \A s \in Switches : isSelected[s] => isSelected'[s]
<1>1. CASE \E s \in Switches : isSelected[s]
  BY <1>1 DEF SelectSwitch, KeepSelection, PointersAgree
<1>2. CASE ~\E s \in Switches : isSelected[s]
  <2>. NewSelection(tt, delay)
    BY <1>2 DEF SelectSwitch
  <2>1. isSelected' = [isSelected EXCEPT ![gateController'] = TRUE]
    BY DEF NewSelection
  <2>2. transmissionSelection' = gateController'
    BY DEF NewSelection, NewlySelected, PointersAgree
  <2>. QED
    BY <1>2, <2>1, <2>2, SelectedIsSwitch DEF PointersAgree, TypeOK
<1>. QED
  BY <1>1, <1>2

\* Every step keeps the selection consistent: the resets of the two ports at
\* the end of a cycle come in either order, with packets in between.
LEMMA SelectionStep ==
  ASSUME SelectionInv, [Next]_vars, TypeOK'
  PROVE  PointersAgree' /\ OnlySelectedIsAdjusted'
<1>. USE DEF SelectionInv
<1>1. CASE CycleEnds
  BY <1>1 DEF CycleEnds, receiverVars, PointersAgree, OnlySelectedIsAdjusted
<1>2. ASSUME NEW s \in Switches, UpdateSchedule(s)
      PROVE  PointersAgree' /\ OnlySelectedIsAdjusted'
  <2>1. PointersAgree'
    BY <1>2 DEF UpdateSchedule, receiverVars, PointersAgree, TypeOK
  <2>2. OnlySelectedIsAdjusted'
    BY <1>2 DEF UpdateSchedule, OnlySelectedIsAdjusted, TypeOK
  <2>. QED
    BY <2>1, <2>2
<1>3. ASSUME NEW s \in Switches, UpdateScheduleThrows(s)
      PROVE  PointersAgree' /\ OnlySelectedIsAdjusted'
  BY <1>3 DEF UpdateScheduleThrows, receiverVars, PointersAgree, OnlySelectedIsAdjusted
<1>4. ASSUME NEW delay \in Delays, ReceiveTT(delay)
      PROVE  PointersAgree' /\ OnlySelectedIsAdjusted'
  <2>. SelectSwitch(TRUE, delay) /\ UNCHANGED current
    BY <1>4 DEF ReceiveTT
  <2>1. PICK used \in UsedTimes : AdjustInterval(gateController', delay, used)
    BY <1>4 DEF ReceiveTT
  <2>2. \A s \in Switches : s # gateController' => next'[s] = next[s]
    BY <2>1 DEF AdjustInterval, TypeOK
  <2>. QED
    BY <2>2, SelectionKeepsAgreement DEF OnlySelectedIsAdjusted
<1>5. CASE ReceiveBE
  <2>. SelectSwitch(FALSE, 0) /\ UNCHANGED <<current, next>>
    BY <1>5 DEF ReceiveBE
  <2>. QED
    BY SelectionKeepsAgreement DEF OnlySelectedIsAdjusted
<1>6. ASSUME NEW tt, NEW delay, ReceiveFails(tt, delay)
      PROVE  PointersAgree' /\ OnlySelectedIsAdjusted'
  BY <1>6 DEF ReceiveFails, receiverVars, PointersAgree, OnlySelectedIsAdjusted
<1>7. CASE UNCHANGED vars
  BY <1>7 DEF vars, receiverVars, PointersAgree, OnlySelectedIsAdjusted
<1>. QED
  BY <1>1, <1>2, <1>3, <1>4, <1>5, <1>6, <1>7 DEF Next

\* For every setting of the control law, every set of delays and every
\* interleaving, receivePacket() finds its pointers in agreement and only the
\* selected port is adjusted.
THEOREM SelectionIsConsistent == Spec => [](PointersAgree /\ OnlySelectedIsAdjusted)
<1>1. Init /\ TypeOK => SelectionInv
  BY DEF Init, SelectionInv, PointersAgree, OnlySelectedIsAdjusted
<1>2. SelectionInv /\ [Next]_vars /\ TypeOK' => SelectionInv'
  BY SelectionStep DEF SelectionInv
<1>3. SelectionInv => PointersAgree /\ OnlySelectedIsAdjusted
  BY DEF SelectionInv
<1>. QED
  BY <1>1, <1>2, <1>3, TypeCorrect, PTL DEF Spec

\* receivePacket() never throws "switch select failed": the two ports are
\* never both selected.  And what the ports execute stays within the cycle.
THEOREM SelectionNeverFails == Spec => []AssertionsHold
<1>1. TypeOK /\ PointersAgree => AssertionsHold
  BY DEF PointersAgree, AssertionsHold, NeverBothSelected, Switches
<1>. QED
  BY <1>1, TypeCorrect, SelectionIsConsistent, PTL

\* The switch that is not selected keeps its slot: a packet changes the
\* proposal of the selected one only.
THEOREM OtherSwitchKeepsSlot == Spec => []OnlySelectedIsAdjusted
BY SelectionIsConsistent, PTL

\* The two pointers of the receiver lead to parts of the same switch.
THEOREM PointersStayTogether == Spec => []PointersAgree
BY SelectionIsConsistent, PTL
=============================================================================
