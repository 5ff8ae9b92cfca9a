-------------------------- MODULE ScheduleExecution --------------------------
(***************************************************************************)
(* One gate controller with a module beside it that rewrites newSchedule   *)
(* whenever it likes, as the receivers of the adaptive experiments do      *)
(* through the pointer getnewSchedule() hands out.  The module asks what   *)
(* the port makes of its schedules: which gates are open when, how long a  *)
(* cycle lasts, and when a rewritten schedule takes effect.                *)
(***************************************************************************)
EXTENDS GateController

CONSTANT Proposals   \* the contents newSchedule may be given

ASSUME ProposalAssumption ==
  Proposals \subseteq
    {s \in Schedule : /\ s.cycleTime = InitialSchedule.cycleTime
                      /\ ControlListLength(s) = ControlListLength(InitialSchedule)}

\* Another module sets the intervals of newSchedule in place.
SetTimeIntervals(s) ==
  /\ ~failed
  /\ newSchedule' = s
  /\ UNCHANGED <<currentSchedule, scheduleIndex, cycleStart, cycleStartAuto,
                 lastChange, tick, updateScheduleMsg, gateOpen, isIncreased,
                 isSelected, failed>>

\* The intervals of the list add up to the cycle time.
FillsCycle(s) == EndOfEntries(s)[ControlListLength(s)] = s.cycleTime

Next ==
  \/ Elapse(1) \/ Tick \/ UpdateSchedule \/ UpdateScheduleThrows
  \/ \E g \in LengthAwareGates : FillsCycle(currentSchedule) /\ CalculateMaxBit(g)
  \/ \E s \in Proposals : SetTimeIntervals(s)

\* The simulation kernel goes on for as long as events are queued: time
\* passes, a due tick is delivered and a queued message handled.
Fairness ==
  /\ WF_gcVars(Elapse(1))
  /\ WF_gcVars(Tick)
  /\ WF_gcVars(UpdateSchedule \/ UpdateScheduleThrows)

\* No lookahead while a list is executed that is longer than its cycle.
Spec == Init /\ [][Next]_gcVars /\ Fairness

AnyLookaheadSpec ==
  Init /\ [][ControllerNext \/ \E s \in Proposals : SetTimeIntervals(s)]_gcVars

-----------------------------------------------------------------------------
\* The first update has taken place.
Started == currentSchedule # DefaultSchedule

\* How far the port is into the cycle it is executing.
Phase == -cycleStartAuto

\* Nothing is left to do at this instant.
Settled == tick > 0 /\ ~updateScheduleMsg /\ ~failed

(***************************************************************************)
(* Whenever the handlers of an instant are done, the open gates are those  *)
(* of the entry of currentSchedule that covers the elapsed part of the     *)
(* cycle, and the cycle is not over (updateSchedule, scheduleNextTickEvent *)
(* and the lookahead, which changes cycleStart behind their back).         *)
(***************************************************************************)
GatesFollowSchedule ==
  Started /\ Settled =>
    /\ Phase < currentSchedule.cycleTime
    /\ \E i \in 0 .. ControlListLength(currentSchedule) - 1 :
         /\ EndOfEntries(currentSchedule)[i] <= Phase
         /\ Phase < EndOfEntries(currentSchedule)[i + 1]
         /\ gateOpen = ScheduledObject(currentSchedule, i)

\* A cycle ends, and the next one begins, exactly cycleTime after it began:
\* the list is cut at the end of the cycle and a lookahead of a gate does not
\* make the cycle longer.
CycleLastsCycleTime ==
  [][Started /\ cycleStartAuto < 0 /\ cycleStartAuto' = 0
       => Phase = currentSchedule.cycleTime]_gcVars

\* A schedule is never exchanged in the middle of a cycle: the load in
\* updateSchedule only happens in the step that begins a new one.
ExchangedAtCycleStart ==
  [][currentSchedule' # currentSchedule
       => /\ cycleStartAuto' = 0
          /\ Started => Phase >= currentSchedule.cycleTime]_gcVars

\* The port gets to the end of the list before the cycle is over.
ReachesLastEntry(s) ==
  EndOfEntries(s)[ControlListLength(s) - 1] < s.cycleTime

\* What another module writes into newSchedule is executed eventually (or
\* overwritten): updateSchedule goes on loading it at the start of a cycle,
\* unless the load refuses it, or the last entry is not reached, for the load is
\* tied to the index that follows it.
NewScheduleIsLoaded ==
  []<>(currentSchedule = newSchedule \/ failed \/ ~ReachesLastEntry(currentSchedule))
=============================================================================
