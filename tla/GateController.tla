--------------------------- MODULE GateController ---------------------------
(***************************************************************************)
(* The gate controller of one egress port (IEEE 802.1Qbv, chapter          *)
(* 8.6.8.4).  It walks through the control list of currentSchedule: every  *)
(* entry holds a set of open gates and a time interval.  At the end of an  *)
(* entry the clock calls tick(), tick() sends updateScheduleMsg to the     *)
(* controller itself, and the handler of that message, updateSchedule(),   *)
(* loads newSchedule when a list has been finished, sets the gates and     *)
(* subscribes the next tick.  Other modules hold a pointer to newSchedule  *)
(* and change its intervals in place; the transmission gates ask           *)
(* calculateMaxBit() how much may still be sent.                           *)
(*                                                                         *)
(* The controller is modelled as the adaptive experiments configure it,    *)
(* with enableHoldAndRelease = false: updateSchedule() then sends the MAC  *)
(* neither hold nor release.                                               *)
(*                                                                         *)
(* Time.  The unit is one tick of the port's clock.  Every point in time   *)
(* is stored relative to the present: cycleStart = -3 says that the cycle  *)
(* began three ticks ago.  Elapse shifts them all, so the model needs no   *)
(* bound on the length of a run.  A handler takes no time, and what other  *)
(* modules do at the same instant may come before or after it.             *)
(***************************************************************************)
EXTENDS Integers, Sequences

CONSTANTS
  Gates,             \* the transmission gates of the port
  InitialSchedule,   \* what the parameter initialSchedule describes
  BaseTime,          \* its base time: when the first cycle starts
  DefaultInterval,   \* length of the entry in force before that (1 s)
  LengthAwareGates,  \* gates with lengthAwareSchedulingEnabled
  MtuTime,           \* time to send an MTU at the rate of the port
  MaxAhead           \* bound: how far a lookahead may push cycleStart

VARIABLES
  currentSchedule,   \* the schedule being executed
  newSchedule,       \* the schedule the next load copies
  scheduleIndex,     \* index (from 0) of the entry the next update executes
  cycleStart,        \* start of the running cycle, as calculateMaxBit moves it
  cycleStartAuto,    \* cycleStart_for_autoIntervalDecrease
  lastChange,        \* the last time the gates were set
  tick,              \* time until the subscribed tick
  updateScheduleMsg, \* the message is in the event queue, for this instant
  gateOpen,          \* the gates that are open
  isIncreased,       \* the TT interval of newSchedule was enlarged this cycle
  isSelected,        \* this port was chosen for adjustment this cycle
  failed             \* a cRuntimeError ended the simulation

gcVars == <<currentSchedule, newSchedule, scheduleIndex, cycleStart,
            cycleStartAuto, lastChange, tick, updateScheduleMsg, gateOpen,
            isIncreased, isSelected, failed>>

-----------------------------------------------------------------------------
\* Schedule<GateBitvector>

Entry == [timeInterval : Int, gates : SUBSET Gates]

Schedule == [cycleTime : Nat, controlList : Seq(Entry)]

ControlListLength(s) == Len(s.controlList)

\* getTimeInterval and getScheduledObject count entries from 0.
TimeInterval(s, i) == s.controlList[i + 1].timeInterval

ScheduledObject(s, i) == s.controlList[i + 1].gates

\* Time from the start of the list to the end of its first n entries.
EndOfEntries(s) ==
  LET sum[n \in 0 .. Len(s.controlList)] ==
        IF n = 0 THEN 0 ELSE sum[n - 1] + s.controlList[n].timeInterval
  IN  sum

\* Mutant: the load checks nothing.
CopyNeverThrows(s) == FALSE

\* copySchedule adds the entries one by one, and addControlListEntry throws
\* on a negative interval.
CopyThrows(s) == \E e \in 1 .. Len(s.controlList) : s.controlList[e].timeInterval < 0

ASSUME ScheduleAssumption ==
  /\ InitialSchedule \in Schedule
  /\ InitialSchedule.cycleTime > 0
  /\ ControlListLength(InitialSchedule) > 0   \* loadScheduleOrDefault throws
  /\ ~CopyThrows(InitialSchedule)

ASSUME TimeAssumption ==
  /\ BaseTime \in Nat
  /\ DefaultInterval \in Nat
  /\ MtuTime \in Nat
  /\ MaxAhead \in Int

ASSUME GateAssumption == LengthAwareGates \subseteq Gates

\* Until the first update one entry with all gates open is in force; its
\* cycle time is 0.
DefaultSchedule ==
  [cycleTime |-> 0,
   controlList |-> <<[timeInterval |-> DefaultInterval, gates |-> Gates]>>]

-----------------------------------------------------------------------------
Init ==
  /\ currentSchedule = DefaultSchedule
  /\ newSchedule = InitialSchedule
  /\ scheduleIndex = 0
  /\ cycleStart = 0
  /\ cycleStartAuto = 0
  /\ lastChange = 0
  /\ tick = BaseTime
  /\ updateScheduleMsg = FALSE
  /\ gateOpen = Gates
  /\ isIncreased = FALSE
  /\ isSelected = FALSE
  /\ failed = FALSE

\* d ticks pass.  Nothing may be due before they have passed.
Elapse(d) ==
  /\ ~failed
  /\ ~updateScheduleMsg
  /\ d <= tick
  /\ tick' = tick - d
  /\ cycleStart' = cycleStart - d
  /\ cycleStartAuto' = cycleStartAuto - d
  /\ lastChange' = lastChange - d
  /\ UNCHANGED <<currentSchedule, newSchedule, scheduleIndex,
                 updateScheduleMsg, gateOpen, isIncreased, isSelected, failed>>

\* The clock reaches the subscribed tick and calls tick(), which sends
\* updateScheduleMsg without delay.
Tick ==
  /\ ~failed
  /\ tick = 0
  /\ ~updateScheduleMsg
  /\ updateScheduleMsg' = TRUE
  /\ UNCHANGED <<currentSchedule, newSchedule, scheduleIndex, cycleStart,
                 cycleStartAuto, lastChange, tick, gateOpen, isIncreased,
                 isSelected, failed>>

\* Mutants: the entry is not cut at the end of the cycle; the interval of the
\* following entry is taken.
NextTickNotCut(s, i, start) == TimeInterval(s, i)

NextTickOfNextEntry(s, i, start) ==
  TimeInterval(s, (i + 1) % ControlListLength(s))

\* Time to the end of entry i of schedule s, cut at the end of a cycle that
\* began at start.
ScheduleNextTickEvent(s, i, start) ==
  IF TimeInterval(s, i) > start + s.cycleTime
  THEN start + s.cycleTime
  ELSE TimeInterval(s, i)

\* Mutants: every update loads; only the first update loads.
LoadsAlways == TRUE

LoadsOnce == scheduleIndex = 0 /\ currentSchedule = DefaultSchedule

\* A new list begins: newSchedule is copied before it.
Loads == scheduleIndex = 0

ScheduleInForce == IF Loads THEN newSchedule ELSE currentSchedule

\* The entry to execute: the next of the list, or the first one when the
\* cycle ends now.
EntryInForce ==
  IF cycleStart + ScheduleInForce.cycleTime = 0 /\ ScheduleInForce.cycleTime # 0
  THEN 0
  ELSE scheduleIndex

\* Mutant: the index runs off the end of the list.
FollowingUnwrapped(sched, entry) == entry + 1

FollowingEntry(sched, entry) == (entry + 1) % ControlListLength(sched)

\* Mutant: a load leaves the flags alone.
FlagKept(flag) == flag

\* A load resets isIncreased and isSelected.
FlagAfterUpdate(flag) == flag /\ ~Loads

UpdateSchedule ==
  LET sched == ScheduleInForce
      entry == EntryInForce
      start == IF entry = 0 THEN 0 ELSE cycleStart
  IN
  /\ ~failed
  /\ updateScheduleMsg
  /\ updateScheduleMsg' = FALSE
  /\ ~(Loads /\ CopyThrows(newSchedule))
  /\ currentSchedule' = sched
  /\ isIncreased' = FlagAfterUpdate(isIncreased)
  /\ isSelected' = FlagAfterUpdate(isSelected)
  /\ cycleStart' = start
  /\ cycleStartAuto' = IF entry = 0 THEN 0 ELSE cycleStartAuto
  /\ gateOpen' = ScheduledObject(sched, entry)
  /\ tick' = ScheduleNextTickEvent(sched, entry, start)
  /\ lastChange' = 0
  /\ scheduleIndex' = FollowingEntry(sched, entry)
  /\ UNCHANGED <<newSchedule, failed>>

\* The load copies a schedule with a negative interval: the simulation ends.
UpdateScheduleThrows ==
  /\ ~failed
  /\ updateScheduleMsg
  /\ Loads
  /\ CopyThrows(newSchedule)
  /\ failed' = TRUE
  /\ UNCHANGED <<currentSchedule, newSchedule, scheduleIndex, cycleStart,
                 cycleStartAuto, lastChange, tick, updateScheduleMsg, gateOpen,
                 isIncreased, isSelected>>

-----------------------------------------------------------------------------
(***************************************************************************)
(* calculateMaxBit(g) sums up the time gate g stays open.  It leaves the   *)
(* current schedule for the next one when it gets to the entry that ends   *)
(* the cycle, and then moves the member cycleStart to the end of the       *)
(* cycle.  The number it returns is not part of this module.               *)
(***************************************************************************)

\* The entry whose gates are set now (scheduleIndex is one ahead).
RunningEntry ==
  LET len == ControlListLength(currentSchedule)
  IN  (scheduleIndex + len - 1) % len

HitsCycleEnd(i) ==
  EndOfEntries(currentSchedule)[i + 1] > currentSchedule.cycleTime

\* The first entry from RunningEntry on that ends the list or the cycle.
LastEntryOfCycle ==
  CHOOSE i \in RunningEntry .. ControlListLength(currentSchedule) - 1 :
    /\ HitsCycleEnd(i) \/ i = ControlListLength(currentSchedule) - 1
    /\ \A j \in RunningEntry .. i - 1 : ~HitsCycleEnd(j)

\* The loop gets through the current schedule: the gate is open in every
\* entry, and an MTU is not filled before the last of them.
LooksIntoNextSchedule(g) ==
  /\ \A i \in RunningEntry .. LastEntryOfCycle :
       g \in ScheduledObject(currentSchedule, i)
  /\ \/ LastEntryOfCycle = RunningEntry
     \/ EndOfEntries(currentSchedule)[LastEntryOfCycle]
          - EndOfEntries(currentSchedule)[RunningEntry] + lastChange < MtuTime

EndOfCurrentCycle ==
  IF HitsCycleEnd(LastEntryOfCycle)
  THEN currentSchedule.cycleTime
  ELSE EndOfEntries(currentSchedule)[LastEntryOfCycle + 1]

CalculateMaxBit(g) ==
  /\ ~failed
  /\ LooksIntoNextSchedule(g)
  /\ cycleStart + EndOfCurrentCycle <= MaxAhead
  /\ cycleStart' = cycleStart + EndOfCurrentCycle
  /\ UNCHANGED <<currentSchedule, newSchedule, scheduleIndex, cycleStartAuto,
                 lastChange, tick, updateScheduleMsg, gateOpen, isIncreased,
                 isSelected, failed>>

-----------------------------------------------------------------------------
\* What the controller does by itself, one tick of time at a step.
ControllerNext ==
  \/ Elapse(1)
  \/ Tick
  \/ UpdateSchedule
  \/ UpdateScheduleThrows
  \/ \E g \in LengthAwareGates : CalculateMaxBit(g)

ScheduleTypeOK ==
  /\ currentSchedule \in Schedule
  /\ newSchedule \in Schedule
  /\ scheduleIndex \in 0 .. ControlListLength(currentSchedule) - 1
  /\ cycleStartAuto \in Int
  /\ lastChange \in Int
  /\ updateScheduleMsg \in BOOLEAN
  /\ gateOpen \subseteq Gates
  /\ isIncreased \in BOOLEAN
  /\ isSelected \in BOOLEAN
  /\ failed \in BOOLEAN

TimeTypeOK == cycleStart \in Int /\ tick \in Int

\* The type invariant; the second part is about the times that the lookahead
\* has a hand in.
TypeOK == ScheduleTypeOK /\ TimeTypeOK

\* subscribeTick takes an unsigned number of ticks: the time
\* scheduleNextTickEvent returns is never negative (the cast would be
\* undefined), although calculateMaxBit moves the cycleStart it computes with
\* and other modules write the intervals.
TickNotInThePast == tick >= 0
=============================================================================
