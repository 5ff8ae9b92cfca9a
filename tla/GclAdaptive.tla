---------------------------- MODULE GclAdaptive ----------------------------
(***************************************************************************)
(* The adaptive experiment with one switch: VlanEtherTrafGenGCL on the     *)
(* receiving host measures the delay of every TT packet and changes        *)
(* newSchedule of the gate controller the TT flow passes.  Entry 0 of the  *)
(* schedule is the TT slot, entry 1 the BE slot.  A packet that has passed *)
(* the port arrives at any instant after: before and after the tick, and   *)
(* between the tick and the handling of updateScheduleMsg.                 *)
(***************************************************************************)
EXTENDS GateController, IntervalControl

CONSTANTS
  Delays,    \* the delays TT packets may arrive with
  TTGate,    \* gate 7: packets that leave through it are TT transmissions
  MaxLag     \* bound: an older TT transmission counts as this old

VARIABLES
  lastTT,       \* MaxLastTTtransmissiontime of the transmission selection
  transmitted,  \* history: a TT packet has left the port
  seen          \* history: kinds of delay seen since the last load

vars == <<gcVars, lastTT, transmitted, seen>>

ASSUME DelayAssumption ==
  /\ Delays \subseteq Nat \ {0}
  /\ MaxLag \in Nat
  /\ \A delay \in Delays : delay < MaxLag

\* receivePacket writes entries 0 and 1.
ASSUME SlotAssumption ==
  /\ TTGate \in Gates
  /\ ControlListLength(InitialSchedule) >= 2

TT(s) == TimeInterval(s, 0)
BE(s) == TimeInterval(s, 1)

\* The first update has taken place.
Started == currentSchedule # DefaultSchedule

Kind(delay) == IF High(delay) THEN "high" ELSE IF Low(delay) THEN "low" ELSE "mid"

GInit == Init /\ lastTT = 0 /\ transmitted = FALSE /\ seen = {}

\* A TT packet (pcp 7) is received.  It has left the port within its delay,
\* and no packet is older than the simulation.
ReceivePacket(delay) ==
  LET cycle == newSchedule.cycleTime
      target == TargetInterval(delay, cycle, TT(currentSchedule), TT(newSchedule),
                               isIncreased, lastTT - cycleStartAuto)
  IN
  /\ ~failed
  /\ transmitted /\ -lastTT <= delay
  /\ Started \/ delay <= -lastChange
  /\ newSchedule' = [newSchedule EXCEPT !.controlList[1].timeInterval = target,
                                        !.controlList[2].timeInterval = cycle - target]
  /\ isIncreased' = (isIncreased \/ High(delay))
  /\ seen' = seen \cup {Kind(delay)}
  /\ UNCHANGED <<currentSchedule, scheduleIndex, cycleStart, cycleStartAuto,
                 lastChange, tick, updateScheduleMsg, gateOpen, isSelected,
                 failed, lastTT,
                 transmitted>>

\* The transmission selection passes a packet of gate 7 on.
TransmitTT ==
  /\ ~failed
  /\ TTGate \in gateOpen
  /\ lastTT' = 0
  /\ transmitted' = TRUE
  /\ UNCHANGED <<gcVars, seen>>

Wait ==
  /\ Elapse(1)
  /\ lastTT' = IF lastTT > -MaxLag THEN lastTT - 1 ELSE lastTT
  /\ UNCHANGED <<transmitted, seen>>

GUpdateSchedule ==
  /\ UpdateSchedule
  /\ seen' = IF Loads THEN {} ELSE seen
  /\ UNCHANGED <<lastTT, transmitted>>

Next ==
  \/ \E delay \in Delays : ReceivePacket(delay)
  \/ TransmitTT
  \/ Wait
  \/ GUpdateSchedule
  \/ /\ \/ Tick
        \/ UpdateScheduleThrows
        \/ \E g \in LengthAwareGates : CalculateMaxBit(g)
     /\ UNCHANGED <<lastTT, transmitted, seen>>

\* The simulation kernel goes on for as long as events are queued.
Fairness ==
  /\ WF_vars(Wait)
  /\ WF_vars(Tick /\ UNCHANGED <<lastTT, transmitted, seen>>)
  /\ WF_vars(GUpdateSchedule)

Spec == GInit /\ [][Next]_vars /\ Fairness

-----------------------------------------------------------------------------
GTypeOK ==
  /\ TypeOK
  /\ lastTT \in Int
  /\ transmitted \in BOOLEAN
  /\ seen \subseteq {"high", "mid", "low"}

InitialTT == TT(InitialSchedule)

AtLeast(m, t) == IF t < m THEN m ELSE t
AtMost(m, t) == IF t > m THEN m ELSE t

\* The shortest and longest TT slot the control law is meant to produce; an
\* initial slot outside of the reserved 10% is not brought back by itself.
Floor == AtMost(Shortest(InitialSchedule.cycleTime), InitialTT)
Ceiling == AtLeast(NineTenths(InitialSchedule.cycleTime), InitialTT)

InBand(s) ==
  /\ Floor <= TT(s) /\ TT(s) <= Ceiling
  /\ BE(s) = s.cycleTime - TT(s)

(***************************************************************************)
(* The TT slot leaves the reserved 10% of the cycle at both ends alone and *)
(* the BE slot is the rest of the cycle: in the schedule that is executed  *)
(* and in the proposal of the next one, after any order of receivePacket() *)
(* calls and updates.                                                      *)
(***************************************************************************)
ReservedShare ==
  /\ InBand(newSchedule)
  /\ Started => InBand(currentSchedule)

\* receivePacket never proposes a schedule the controller cannot copy
\* (addControlListEntry throws on a negative interval).
NeverThrows == ~failed

\* The controller and the receiver stay within their types (the schedule's
\* index, the flags, the lengths) and no exception ends the simulation.
AssertionsHold == GTypeOK /\ NeverThrows

\* After one packet above the upper limit the next TT slot is longer than the
\* executed one (or as long as it may be), whatever the other packets of the
\* cycle do before and after it.
OverloadEnlarges ==
  Started /\ "high" \in seen =>
    \/ TT(newSchedule) > TT(currentSchedule)
    \/ TT(newSchedule) = Longest(InitialSchedule.cycleTime)

\* The slot of the cycle that begins, and of the one that ends.
SlotChange == TT(currentSchedule') - TT(currentSchedule)

\* From one cycle to the next the TT slot changes by at most the maximum of
\* a cycle and one more step (the clamp to 90% and 10% is taken before the
\* maximum is looked at, so the maximum alone is not kept).
SlotChangeBounded ==
  [][Started =>
       /\ SlotChange <= MaxIncreaseStepLength + IncreaseStepLength
       /\ -SlotChange <= MaxDecreaseStepLength + DecreaseStepLength]_vars

Receives(kind) == \E delay \in Delays : Kind(delay) = kind /\ ReceivePacket(delay)

\* When late packets keep coming and no early ones do, the controller ends up
\* executing the longest TT slot: no increase is lost for good between
\* receivePacket, the load and the next increase.
OverloadReachesLongest ==
  (/\ <>[][~Receives("low")]_vars
   /\ []<><<Receives("high")>>_vars)
    => <>[](TT(currentSchedule) = Longest(InitialSchedule.cycleTime))

\* When early packets keep coming and no late ones do, the controller ends up
\* executing the shortest TT slot: isIncreased does not stay set.
UnderloadReachesShortest ==
  (/\ <>[][~Receives("high")]_vars
   /\ []<><<Receives("low")>>_vars)
    => <>[](TT(currentSchedule) = Shortest(InitialSchedule.cycleTime))
-----------------------------------------------------------------------------
\* The port with its receiver keeps the promise of SlotPromise: the slot that
\* is executed is TT(currentSchedule), the proposal is TT(newSchedule).
NoSlot == -1

Promise == INSTANCE SlotPromise WITH
  MinSlot <- Shortest(InitialSchedule.cycleTime),
  MaxSlot <- Longest(InitialSchedule.cycleTime),
  NoSlot <- NoSlot,
  executed <- IF Started THEN TT(currentSchedule) ELSE NoSlot,
  proposed <- TT(newSchedule),
  enlarged <- isIncreased

\* Every step of the controller and the receiver is a step the promise
\* allows, or changes nothing it speaks of.
KeepsPromise == Promise!Spec
=============================================================================
