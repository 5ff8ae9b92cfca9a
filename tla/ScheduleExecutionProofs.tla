----------------------- MODULE ScheduleExecutionProofs -----------------------
(***************************************************************************)
(* What a port makes of its schedules, for lists of every length and with  *)
(* intervals that are changed at any time: it follows the list, and keeps  *)
(* the cycle time if no list is shorter than the cycle.                    *)
(***************************************************************************)
EXTENDS ScheduleExecution, GateControllerProofs

C == InitialSchedule.cycleTime

\* What newSchedule ever holds.
Contents == Proposals \cup {InitialSchedule}

\* Types, and that what is executed was copied.
ContentInv ==
  /\ TypeOK
  /\ newSchedule \in Contents
  /\ currentSchedule \in Contents \cup {DefaultSchedule}
  /\ ~CopyThrows(currentSchedule)
  /\ ~Started => scheduleIndex = 0

\* The end of the running entry, cut at the end of the cycle, is when the tick is
\* due; lookaheads have moved cycleStart by one cycle at least, if at all.
RunningInv ==
  /\ tick >= 0 /\ cycleStartAuto <= 0
  /\ updateScheduleMsg => tick = 0
  /\ Started =>
       /\ tick - cycleStartAuto <= C
       /\ tick - cycleStartAuto <= EndOfEntries(currentSchedule)[RunningEntry + 1]
       /\ tick - cycleStartAuto \in {EndOfEntries(currentSchedule)[RunningEntry + 1], C}
       /\ EndOfEntries(currentSchedule)[RunningEntry] <= Phase
       /\ gateOpen = ScheduledObject(currentSchedule, RunningEntry)
       /\ \/ cycleStart = cycleStartAuto
          \/ FillsCycle(currentSchedule) /\ cycleStart >= cycleStartAuto + C

ExecutionInv == ContentInv /\ RunningInv

-----------------------------------------------------------------------------
LEMMA ContentsAre ==
  /\ C \in Nat \ {0}
  /\ \A s \in Contents : /\ s \in Schedule /\ s.cycleTime = C
                         /\ Len(s.controlList) = Len(InitialSchedule.controlList)
                         /\ Len(s.controlList) \in Nat \ {0}
                         /\ s # DefaultSchedule
<1>1. C \in Nat \ {0}
  BY ScheduleAssumption DEF C, Schedule
<1>2. Len(InitialSchedule.controlList) \in Nat \ {0}
  BY ScheduleAssumption, EntriesOfSchedule DEF ControlListLength
<1>3. DefaultSchedule.cycleTime = 0
  BY DEF DefaultSchedule
<1>4. \A s \in Contents : /\ s \in Schedule /\ s.cycleTime = C
                          /\ Len(s.controlList) = Len(InitialSchedule.controlList)
  BY ProposalAssumption, ScheduleAssumption DEF Contents, C, ControlListLength
<1>. QED
  BY <1>1, <1>2, <1>3, <1>4

LEMMA DefaultIs ==
  /\ Executable(DefaultSchedule)
  /\ Len(DefaultSchedule.controlList) = 1 /\ DefaultSchedule.cycleTime = 0
<1>. DEFINE e == [timeInterval |-> DefaultInterval, gates |-> Gates]
<1>1. e \in Entry /\ e.timeInterval \in Nat
  BY TimeAssumption DEF Entry
<1>. HIDE DEF e
<1>2. <<e>> \in Seq(Entry) /\ Len(<<e>>) = 1 /\ <<e>>[1] = e
  BY <1>1
<1>3. DefaultSchedule = [cycleTime |-> 0, controlList |-> <<e>>]
  BY DEF DefaultSchedule, e
<1>. QED
  BY <1>1, <1>2, <1>3 DEF Executable, Schedule, CopyThrows

\* What is executed may be executed.
LEMMA CurrentIs ==
  ASSUME ContentInv
  PROVE  /\ Executable(currentSchedule)
         /\ scheduleIndex \in 0 .. Len(currentSchedule.controlList) - 1
         /\ Started => currentSchedule \in Contents
<1>1. CASE currentSchedule = DefaultSchedule
  BY <1>1, DefaultIs DEF ContentInv, TypeOK, ScheduleTypeOK, ControlListLength, Started
<1>2. CASE currentSchedule \in Contents
  BY <1>2, ContentsAre DEF ContentInv, TypeOK, ScheduleTypeOK, ControlListLength, Executable
<1>. QED
  BY <1>1, <1>2 DEF ContentInv

LEMMA InitExecution == Init => ExecutionInv
<1>. SUFFICES ASSUME Init PROVE ExecutionInv
  OBVIOUS
<1>1. 0 \in 0 .. ControlListLength(DefaultSchedule) - 1 /\ DefaultSchedule \in Schedule
      /\ ~CopyThrows(DefaultSchedule)
  BY DefaultIs DEF ControlListLength, Executable
<1>2. BaseTime \in Nat
  BY TimeAssumption
<1>3. TypeOK
  <2>1. InitialSchedule \in Schedule
    BY ScheduleAssumption
  <2>2. /\ updateScheduleMsg \in BOOLEAN /\ isIncreased \in BOOLEAN /\ isSelected \in BOOLEAN
        /\ failed \in BOOLEAN /\ gateOpen \subseteq Gates
    BY Zenon DEF Init
  <2>3. ScheduleTypeOK
    BY <1>1, <2>1, <2>2 DEF Init, ScheduleTypeOK
  <2>. QED
    BY <1>2, <2>3 DEF Init, TypeOK, TimeTypeOK
<1>4. ContentInv
  BY <1>1, <1>3 DEF Init, ContentInv, Contents, Started
<1>5. RunningInv
  BY <1>2 DEF Init, RunningInv, Started
<1>. QED
  BY <1>4, <1>5 DEF ExecutionInv

-----------------------------------------------------------------------------
\* updateSchedule

\* What an update executes, and which entry of it.
LEMMA UpdateExecutes ==
  ASSUME ExecutionInv, UpdateSchedule
  PROVE  /\ currentSchedule' \in Contents /\ ~CopyThrows(currentSchedule') /\ Started'
         /\ EntryInForce \in 0 .. Len(currentSchedule'.controlList) - 1
         /\ scheduleIndex' \in 0 .. Len(currentSchedule'.controlList) - 1
         /\ scheduleIndex' = (EntryInForce + 1) % Len(currentSchedule'.controlList)
         /\ Loads => EntryInForce = 0 /\ currentSchedule' = newSchedule
         /\ ~Loads => Started /\ currentSchedule' = currentSchedule
<1>1. CASE Loads
  <2>1. currentSchedule' = newSchedule /\ ~CopyThrows(newSchedule) /\ newSchedule \in Contents
    BY <1>1 DEF UpdateSchedule, ScheduleInForce, ExecutionInv, ContentInv
  <2>2. EntryInForce = 0
    BY <1>1 DEF EntryInForce, Loads
  <2>3. scheduleIndex' = (EntryInForce + 1) % Len(currentSchedule'.controlList)
    BY DEF UpdateSchedule, FollowingEntry, ControlListLength
  <2>4. Len(currentSchedule'.controlList) \in Nat \ {0} /\ Started'
    BY <2>1, ContentsAre DEF Started
  <2>5. 0 \in 0 .. Len(currentSchedule'.controlList) - 1
    BY <2>4
  <2>6. scheduleIndex' \in 0 .. Len(currentSchedule'.controlList) - 1
    <3>. DEFINE n == Len(currentSchedule'.controlList)
    <3>1. scheduleIndex' = (EntryInForce + 1) % n /\ EntryInForce \in 0 .. n - 1 /\ n \in Nat \ {0}
      BY <2>2, <2>3, <2>4, <2>5
    <3>. HIDE DEF n
    <3>2. scheduleIndex' \in 0 .. n - 1
      BY <3>1, AroundTheList
    <3>. QED
      BY <3>2 DEF n
  <2>. QED
    BY <1>1, <2>1, <2>2, <2>3, <2>4, <2>5, <2>6
<1>2. CASE ~Loads
  <2>1. Started /\ currentSchedule' = currentSchedule
    BY <1>2 DEF UpdateSchedule, ScheduleInForce, Loads, ExecutionInv, ContentInv
  <2>2. /\ currentSchedule \in Contents /\ ~CopyThrows(currentSchedule) /\ Started'
        /\ scheduleIndex \in 0 .. Len(currentSchedule.controlList) - 1
    BY <2>1, CurrentIs DEF Started, ExecutionInv, ContentInv
  <2>3. EntryInForce \in {0, scheduleIndex}
    BY DEF EntryInForce
  <2>4. scheduleIndex' = (EntryInForce + 1) % Len(currentSchedule'.controlList)
    BY DEF UpdateSchedule, FollowingEntry, ControlListLength
  <2>5. Len(currentSchedule'.controlList) \in Nat \ {0}
    BY <2>1, <2>2, ContentsAre
  <2>6. EntryInForce \in 0 .. Len(currentSchedule'.controlList) - 1
    BY <2>1, <2>2, <2>3, <2>5
  <2>7. scheduleIndex' \in 0 .. Len(currentSchedule'.controlList) - 1
    <3>. DEFINE n == Len(currentSchedule'.controlList)
    <3>1. scheduleIndex' = (EntryInForce + 1) % n /\ EntryInForce \in 0 .. n - 1 /\ n \in Nat \ {0}
      BY <2>4, <2>5, <2>6
    <3>. HIDE DEF n
    <3>2. scheduleIndex' \in 0 .. n - 1
      BY <3>1, AroundTheList
    <3>. QED
      BY <3>2 DEF n
  <2>. QED
    BY <1>2, <2>1, <2>2, <2>4, <2>6, <2>7
<1>. QED
  BY <1>1, <1>2

\* The entry runs until it ends or the cycle does, also when a lookahead has moved
\* the cycleStart that the end of the cycle is computed from.
LEMMA UpdateRuns ==
  ASSUME ExecutionInv, UpdateSchedule
  PROVE  /\ tick' - cycleStartAuto' <= C
         /\ tick' - cycleStartAuto' <= EndOfEntries(currentSchedule')[EntryInForce + 1]
         /\ tick' - cycleStartAuto' \in {EndOfEntries(currentSchedule')[EntryInForce + 1], C}
         /\ EndOfEntries(currentSchedule')[EntryInForce] = -cycleStartAuto'
         /\ tick' \in Nat /\ cycleStart' \in Int /\ cycleStartAuto' \in Int /\ cycleStartAuto' <= 0
         /\ \/ cycleStart' = cycleStartAuto'
            \/ FillsCycle(currentSchedule') /\ cycleStart' >= cycleStartAuto' + C
<1>. DEFINE s == currentSchedule'  k == EntryInForce  e == EndOfEntries(s)
            n == Len(s.controlList)  d == TimeInterval(s, k)
<1>1. /\ s \in Schedule /\ ~CopyThrows(s) /\ s.cycleTime = C /\ C \in Nat \ {0}
      /\ n \in Nat /\ k \in 0 .. n - 1
      /\ cycleStart \in Int /\ cycleStartAuto \in Int /\ cycleStartAuto <= 0 /\ tick = 0
  BY UpdateExecutes, ContentsAre
     DEF ExecutionInv, ContentInv, RunningInv, TypeOK, ScheduleTypeOK, TimeTypeOK, UpdateSchedule
<1>2. k + 1 \in 1 .. n /\ n \in 0 .. n /\ k \in 0 .. n /\ n \in k + 1 .. n /\ (k + 1) - 1 = k
  BY <1>1
<1>3. d \in Nat
  BY <1>1, <1>2, EntriesOfSchedule DEF CopyThrows, TimeInterval
<1>4. e[0] = 0 /\ e[k] \in Int /\ e[k + 1] \in Int /\ e[n] \in Int /\ e[k + 1] = e[k] + d
  BY <1>1, <1>2, EndsAreSums DEF TimeInterval
<1>5. e[k + 1] <= e[n]
  BY <1>1, <1>2, EndsAreOrdered
<1>6. /\ cycleStart' = (IF k = 0 THEN 0 ELSE cycleStart)
      /\ cycleStartAuto' = (IF k = 0 THEN 0 ELSE cycleStartAuto)
      /\ tick' = (IF d > cycleStart' + C THEN cycleStart' + C ELSE d)
  BY <1>1 DEF UpdateSchedule, ScheduleNextTickEvent
<1>7. FillsCycle(s) => e[n] = C
  BY <1>1 DEF FillsCycle, ControlListLength
<1>. HIDE DEF d, e, n, k
<1>8. CASE k = 0
  BY <1>1, <1>3, <1>4, <1>6, <1>8 DEF e, k
\* The entry before has ended, and the cycle has not.
<1>9. CASE k # 0
  <2>1. ~Loads /\ Started /\ s = currentSchedule /\ k = scheduleIndex
    BY <1>9, UpdateExecutes DEF EntryInForce, k
  <2>2. cycleStart + C # 0
    BY <1>1, <1>9 DEF EntryInForce, UpdateSchedule, k
  <2>3. RunningEntry + 1 = k
    BY <1>1, <1>9, <2>1, CurrentIs, RunningEntryIs DEF ExecutionInv
  <2>4. /\ -cycleStartAuto <= C /\ -cycleStartAuto <= e[k] /\ -cycleStartAuto \in {e[k], C}
        /\ cycleStart = cycleStartAuto \/ (FillsCycle(s) /\ cycleStart >= cycleStartAuto + C)
    BY <1>1, <2>1, <2>3 DEF ExecutionInv, RunningInv, e
  <2>5. -cycleStartAuto = e[k]
    BY <1>1, <1>3, <1>4, <1>5, <1>7, <2>2, <2>4
  <2>6. /\ tick' - cycleStartAuto' <= C
        /\ tick' - cycleStartAuto' <= e[k + 1]
        /\ tick' - cycleStartAuto' \in {e[k + 1], C}
        /\ e[k] = -cycleStartAuto'
        /\ tick' \in Nat
    BY <1>1, <1>3, <1>4, <1>5, <1>6, <1>7, <1>9, <2>4, <2>5
  <2>. QED
    BY <1>1, <1>6, <1>9, <2>4, <2>6 DEF e, k
<1>. QED
  BY <1>8, <1>9

LEMMA UpdateKeepsExecution ==
  ASSUME ExecutionInv, UpdateSchedule
  PROVE  ExecutionInv'
<1>. DEFINE s == currentSchedule'  n == Len(s.controlList)
<1>1. /\ s \in Contents /\ ~CopyThrows(s) /\ Started' /\ s \in Schedule
      /\ n \in Nat \ {0} /\ s.controlList \in Seq(Entry)
      /\ EntryInForce \in 0 .. n - 1 /\ scheduleIndex' \in 0 .. n - 1
      /\ scheduleIndex' = (EntryInForce + 1) % n
  BY UpdateExecutes, ContentsAre, EntriesOfSchedule
<1>2. /\ tick' \in Nat /\ cycleStart' \in Int /\ cycleStartAuto' \in Int /\ cycleStartAuto' <= 0
  BY UpdateRuns
<1>3. /\ lastChange' = 0 /\ updateScheduleMsg' = FALSE /\ newSchedule' = newSchedule
      /\ failed' = failed /\ gateOpen' = ScheduledObject(s, EntryInForce)
      /\ isIncreased' = FlagAfterUpdate(isIncreased) /\ isSelected' = FlagAfterUpdate(isSelected)
  BY DEF UpdateSchedule
<1>4. gateOpen' \subseteq Gates
  <2>1. EntryInForce + 1 \in 1 .. n
    BY <1>1
  <2>. QED
    BY <1>1, <1>3, <2>1, EntriesOfSchedule DEF ScheduledObject
<1>5. isIncreased' \in BOOLEAN /\ isSelected' \in BOOLEAN
  BY <1>3 DEF FlagAfterUpdate, ExecutionInv, ContentInv, TypeOK, ScheduleTypeOK
<1>6. ContentInv'
  <2>1. /\ newSchedule \in Schedule /\ newSchedule \in Contents /\ failed \in BOOLEAN
    BY DEF ExecutionInv, ContentInv, TypeOK, ScheduleTypeOK
  <2>2. ScheduleTypeOK'
    <3>1. updateScheduleMsg' \in BOOLEAN /\ failed' \in BOOLEAN
      BY <1>3, <2>1, Zenon
    <3>2. newSchedule' \in Schedule /\ lastChange' \in Int
      BY <1>3, <2>1
    <3>. QED
      BY <1>1, <1>2, <1>4, <1>5, <3>1, <3>2 DEF ScheduleTypeOK, ControlListLength
  <2>3. TypeOK'
    BY <1>2, <2>2 DEF TypeOK, TimeTypeOK
  <2>. QED
    BY <1>1, <1>3, <2>1, <2>3 DEF ContentInv
<1>7. RunningEntry' = EntryInForce
  <2>1. RunningEntry' = (scheduleIndex' + n - 1) % n
    BY DEF RunningEntry, ControlListLength
  <2>. HIDE DEF n
  <2>2. /\ (EntryInForce + 1) % n = IF EntryInForce = n - 1 THEN 0 ELSE EntryInForce + 1
        /\ (scheduleIndex' + n - 1) % n = IF scheduleIndex' = 0 THEN n - 1 ELSE scheduleIndex' - 1
    BY <1>1, AroundTheList
  <2>. QED
    BY <1>1, <2>1, <2>2
<1>8. RunningInv'
  BY <1>1, <1>2, <1>3, <1>7, UpdateRuns DEF RunningInv, Phase
<1>. QED
  BY <1>6, <1>8 DEF ExecutionInv

-----------------------------------------------------------------------------
LEMMA NextKeepsExecution == ExecutionInv /\ [Next]_gcVars => ExecutionInv'
<1>. SUFFICES ASSUME ExecutionInv, [Next]_gcVars PROVE ExecutionInv'
  OBVIOUS
\* Whatever the running list, index and gates are not touched.
<1>1. ASSUME UNCHANGED <<currentSchedule, scheduleIndex, gateOpen, isIncreased, isSelected>>
      PROVE  /\ UNCHANGED <<RunningEntry, Started, EndOfEntries(currentSchedule),
                            FillsCycle(currentSchedule), ControlListLength(currentSchedule)>>
             /\ CopyThrows(currentSchedule)' <=> CopyThrows(currentSchedule)
             /\ \A i : ScheduledObject(currentSchedule, i)' = ScheduledObject(currentSchedule, i)
  BY <1>1 DEF RunningEntry, ControlListLength, Started, EndOfEntries, FillsCycle, CopyThrows,
              ScheduledObject
<1>2. ASSUME UNCHANGED <<currentSchedule, scheduleIndex, gateOpen, isIncreased, isSelected>>,
             newSchedule' \in Contents, updateScheduleMsg' \in BOOLEAN, failed' \in BOOLEAN,
             {cycleStart', cycleStartAuto', lastChange', tick'} \subseteq Int
      PROVE  ContentInv'
  <2>1. newSchedule' \in Schedule
    BY <1>2, ContentsAre
  <2>2. TypeOK'
    BY <1>1, <1>2, <2>1 DEF ExecutionInv, ContentInv, TypeOK, ScheduleTypeOK, TimeTypeOK
  <2>. QED
    BY <1>1, <1>2, <2>2 DEF ExecutionInv, ContentInv, Started
<1>3. /\ newSchedule \in Contents /\ updateScheduleMsg \in BOOLEAN /\ failed \in BOOLEAN
      /\ cycleStart \in Int /\ cycleStartAuto \in Int /\ lastChange \in Int /\ tick \in Int
  BY DEF ExecutionInv, ContentInv, TypeOK, ScheduleTypeOK, TimeTypeOK
<1>4. CASE Elapse(1)
  <2>1. /\ UNCHANGED <<currentSchedule, scheduleIndex, gateOpen, isIncreased, isSelected>>
        /\ UNCHANGED <<newSchedule, updateScheduleMsg, failed>>
        /\ updateScheduleMsg = FALSE /\ 1 <= tick /\ tick' = tick - 1
        /\ cycleStart' = cycleStart - 1 /\ cycleStartAuto' = cycleStartAuto - 1
        /\ lastChange' = lastChange - 1
    BY <1>3, <1>4 DEF Elapse
  <2>2. ContentInv'
    <3>1. updateScheduleMsg' \in BOOLEAN /\ failed' \in BOOLEAN
      BY <1>3, <2>1, Zenon
    <3>. QED
      BY <1>2, <1>3, <2>1, <3>1
  <2>3. tick' >= 0 /\ cycleStartAuto' <= 0 /\ (updateScheduleMsg' => tick' = 0)
    BY <1>3, <2>1 DEF ExecutionInv, RunningInv
  <2>4. ASSUME Started
        PROVE  /\ tick' - cycleStartAuto' = tick - cycleStartAuto
               /\ EndOfEntries(currentSchedule)[RunningEntry] <= -cycleStartAuto'
               /\ \/ cycleStart' = cycleStartAuto'
                  \/ FillsCycle(currentSchedule) /\ cycleStart' >= cycleStartAuto' + C
    <3>1. RunningEntry \in 0 .. Len(currentSchedule.controlList)
      BY CurrentIs, RunningEntryIs, EntriesOfSchedule DEF ExecutionInv, Executable
    <3>2. EndOfEntries(currentSchedule)[RunningEntry] \in Int
      BY <3>1, CurrentIs, EndsAreSums DEF ExecutionInv, Executable
    <3>. QED
      BY <1>3, <2>1, <2>4, <3>2, ContentsAre DEF ExecutionInv, RunningInv, Phase
  <2>5. RunningInv'
    BY <1>1, <2>1, <2>3, <2>4 DEF RunningInv, ExecutionInv, Phase
  <2>. QED
    BY <2>2, <2>5 DEF ExecutionInv
<1>5. CASE Tick
  <2>1. /\ UNCHANGED <<currentSchedule, scheduleIndex, gateOpen, isIncreased, isSelected>>
        /\ UNCHANGED <<newSchedule, failed, cycleStart, cycleStartAuto, lastChange, tick>>
        /\ updateScheduleMsg' = TRUE /\ tick = 0
    BY <1>5 DEF Tick
  <2>2. ContentInv'
    <3>1. updateScheduleMsg' \in BOOLEAN /\ failed' \in BOOLEAN
      BY <1>3, <2>1, Zenon
    <3>. QED
      BY <1>2, <1>3, <2>1, <3>1
  <2>3. RunningInv'
    BY <1>1, <2>1 DEF RunningInv, ExecutionInv, Phase
  <2>. QED
    BY <2>2, <2>3 DEF ExecutionInv
<1>6. CASE UpdateSchedule
  BY <1>6, UpdateKeepsExecution
<1>7. CASE UpdateScheduleThrows
  <2>1. /\ UNCHANGED <<currentSchedule, scheduleIndex, gateOpen, isIncreased, isSelected>>
        /\ UNCHANGED <<newSchedule, updateScheduleMsg, cycleStart, cycleStartAuto, lastChange, tick>>
        /\ failed' = TRUE
    BY <1>7 DEF UpdateScheduleThrows
  <2>2. ContentInv'
    <3>1. updateScheduleMsg' \in BOOLEAN /\ failed' \in BOOLEAN
      BY <1>3, <2>1, Zenon
    <3>. QED
      BY <1>2, <1>3, <2>1, <3>1
  <2>3. RunningInv'
    BY <1>1, <2>1 DEF RunningInv, ExecutionInv, Phase
  <2>. QED
    BY <2>2, <2>3 DEF ExecutionInv
<1>8. ASSUME NEW g \in LengthAwareGates, FillsCycle(currentSchedule), CalculateMaxBit(g)
      PROVE  ExecutionInv'
  <2>1. /\ UNCHANGED <<currentSchedule, scheduleIndex, gateOpen, isIncreased, isSelected>>
        /\ UNCHANGED <<newSchedule, updateScheduleMsg, failed, cycleStartAuto, lastChange, tick>>
        /\ cycleStart' = cycleStart + EndOfCurrentCycle
    BY <1>8 DEF CalculateMaxBit
  <2>2. EndOfCurrentCycle = currentSchedule.cycleTime /\ EndOfCurrentCycle \in Nat
    BY <1>8, CurrentIs, LookaheadMovesOn DEF ExecutionInv, FillsCycle, ControlListLength
  <2>3. ContentInv'
    <3>1. updateScheduleMsg' \in BOOLEAN /\ failed' \in BOOLEAN
      BY <1>3, <2>1, Zenon
    <3>2. cycleStart' \in Int
      BY <1>3, <2>1, <2>2
    <3>. QED
      BY <1>2, <1>3, <2>1, <3>1, <3>2
  <2>4. Started => cycleStart' >= cycleStartAuto + C
    <3>1. Started => EndOfCurrentCycle = C
      BY <2>2, CurrentIs, ContentsAre DEF ExecutionInv
    <3>. QED
      BY <1>3, <2>1, <3>1, ContentsAre DEF ExecutionInv, RunningInv
  <2>5. RunningInv'
    BY <1>1, <1>8, <2>1, <2>4 DEF RunningInv, ExecutionInv, Phase
  <2>. QED
    BY <2>3, <2>5 DEF ExecutionInv
<1>9. ASSUME NEW s \in Proposals, SetTimeIntervals(s)
      PROVE  ExecutionInv'
  <2>1. /\ UNCHANGED <<currentSchedule, scheduleIndex, gateOpen, isIncreased, isSelected>>
        /\ UNCHANGED <<updateScheduleMsg, failed, cycleStart, cycleStartAuto, lastChange, tick>>
        /\ newSchedule' = s /\ s \in Contents
    BY <1>9 DEF SetTimeIntervals, Contents
  <2>2. ContentInv'
    <3>1. updateScheduleMsg' \in BOOLEAN /\ failed' \in BOOLEAN
      BY <1>3, <2>1, Zenon
    <3>. QED
      BY <1>2, <1>3, <2>1, <3>1
  <2>3. RunningInv'
    BY <1>1, <2>1 DEF RunningInv, ExecutionInv, Phase
  <2>. QED
    BY <2>2, <2>3 DEF ExecutionInv
<1>10. CASE UNCHANGED gcVars
  <2>1. /\ UNCHANGED <<currentSchedule, scheduleIndex, gateOpen, isIncreased, isSelected>>
        /\ UNCHANGED <<newSchedule, updateScheduleMsg, failed, cycleStart, cycleStartAuto,
                       lastChange, tick>>
    BY <1>10 DEF gcVars
  <2>2. ContentInv'
    <3>1. updateScheduleMsg' \in BOOLEAN /\ failed' \in BOOLEAN
      BY <1>3, <2>1, Zenon
    <3>. QED
      BY <1>2, <1>3, <2>1, <3>1
  <2>3. RunningInv'
    BY <1>1, <2>1 DEF RunningInv, ExecutionInv, Phase
  <2>. QED
    BY <2>2, <2>3 DEF ExecutionInv
<1>. QED
  BY <1>4, <1>5, <1>6, <1>7, <1>8, <1>9, <1>10 DEF Next

LEMMA ExecutionInvariance == Spec => []ExecutionInv
BY InitExecution, NextKeepsExecution, PTL DEF Spec

\* The open gates are those of the entry that covers the elapsed part of the cycle,
\* and the tick is never in the past, whatever intervals are written into the
\* schedule to come and however often gates look ahead.
THEOREM PortFollowsSchedule == Spec => [](TypeOK /\ TickNotInThePast /\ GatesFollowSchedule)
<1>1. ExecutionInv => TypeOK /\ TickNotInThePast
  BY DEF ExecutionInv, ContentInv, RunningInv, TickNotInThePast
<1>2. ExecutionInv => GatesFollowSchedule
  <2>. SUFFICES ASSUME ExecutionInv, Started, Settled
                PROVE  /\ Phase < currentSchedule.cycleTime
                       /\ \E i \in 0 .. ControlListLength(currentSchedule) - 1 :
                            /\ EndOfEntries(currentSchedule)[i] <= Phase
                            /\ Phase < EndOfEntries(currentSchedule)[i + 1]
                            /\ gateOpen = ScheduledObject(currentSchedule, i)
    BY DEF GatesFollowSchedule
  <2>. DEFINE i == RunningEntry  e == EndOfEntries(currentSchedule)
              n == ControlListLength(currentSchedule)
  <2>1. i \in 0 .. n - 1 /\ n \in Nat /\ currentSchedule \in Schedule /\ currentSchedule.cycleTime = C
    BY CurrentIs, RunningEntryIs, ContentsAre DEF ExecutionInv, ControlListLength, Executable
  <2>2. i + 1 \in 0 .. n
    BY <2>1
  <2>3. e[i + 1] \in Int /\ C \in Int
    BY <2>1, <2>2, EndsAreSums, ContentsAre DEF ControlListLength
  <2>4. tick \in Int /\ tick > 0 /\ cycleStartAuto \in Int
    BY DEF ExecutionInv, ContentInv, TypeOK, ScheduleTypeOK, TimeTypeOK, Settled
  <2>5. /\ tick - cycleStartAuto <= C /\ tick - cycleStartAuto <= e[i + 1]
        /\ e[i] <= Phase /\ gateOpen = ScheduledObject(currentSchedule, i)
    BY DEF ExecutionInv, RunningInv
  <2>. HIDE DEF e, i
  <2>6. Phase < C /\ Phase < e[i + 1]
    BY <2>3, <2>4, <2>5 DEF Phase
  <2>. QED
    BY <2>1, <2>5, <2>6 DEF e
<1>. QED
  BY <1>1, <1>2, ExecutionInvariance, PTL

-----------------------------------------------------------------------------
\* No list that may be written is shorter than the cycle.
NoShortList ==
  \A s \in Contents : EndOfEntries(s)[ControlListLength(s)] >= s.cycleTime

\* A cycle ends when its time is over: the first entry is not executed before.
LEMMA CycleEnds ==
  ASSUME NoShortList, ExecutionInv, UpdateSchedule, Started, EntryInForce = 0
  PROVE  Phase = C
<1>. DEFINE e == EndOfEntries(currentSchedule)  n == Len(currentSchedule.controlList)
<1>1. /\ currentSchedule \in Contents /\ currentSchedule.cycleTime = C /\ C \in Nat \ {0}
      /\ n \in Nat \ {0} /\ currentSchedule \in Schedule
  BY CurrentIs, ContentsAre DEF ExecutionInv
<1>2. tick = 0 /\ cycleStart \in Int /\ cycleStartAuto \in Int
  BY DEF UpdateSchedule, ExecutionInv, ContentInv, RunningInv, TypeOK, ScheduleTypeOK, TimeTypeOK
<1>3. /\ -cycleStartAuto <= C /\ -cycleStartAuto \in {e[RunningEntry + 1], C}
      /\ cycleStart = cycleStartAuto \/ cycleStart >= cycleStartAuto + C
  BY <1>2 DEF ExecutionInv, RunningInv
<1>4. CASE Loads
  <2>1. RunningEntry + 1 = n
    BY <1>1, <1>4, CurrentIs, RunningEntryIs DEF ExecutionInv, Loads
  <2>2. e[n] >= C /\ e[n] \in Int
    BY <1>1, EndsAreSums DEF NoShortList, ControlListLength
  <2>. HIDE DEF e, n
  <2>. QED
    BY <1>1, <1>2, <1>3, <2>1, <2>2 DEF Phase
<1>5. CASE ~Loads
  <2>1. ScheduleInForce.cycleTime = C
    BY <1>1, <1>5 DEF ScheduleInForce
  <2>2. cycleStart + C = 0
    BY <1>5, <2>1 DEF EntryInForce, Loads
  <2>. QED
    BY <1>1, <1>2, <1>3, <2>2 DEF Phase
<1>. QED
  BY <1>4, <1>5

\* Cycles last exactly the cycle time, and a new schedule is taken into use only
\* where one ends: the list is cut there and lookaheads do not move the end. Lists
\* that are shorter than their cycle break both.
THEOREM CyclesKeepTime ==
  ASSUME NoShortList
  PROVE  Spec => CycleLastsCycleTime /\ ExchangedAtCycleStart
<1>1. ASSUME ExecutionInv, [Next]_gcVars
      PROVE  /\ (Started /\ cycleStartAuto < 0 /\ cycleStartAuto' = 0
                   => Phase = currentSchedule.cycleTime)
             /\ (currentSchedule' # currentSchedule
                   => /\ cycleStartAuto' = 0
                      /\ Started => Phase >= currentSchedule.cycleTime)
  <2>1. CASE UpdateSchedule
    <3>1. Started => currentSchedule.cycleTime = C /\ C \in Nat
      BY <1>1, CurrentIs, ContentsAre DEF ExecutionInv
    <3>2. Started /\ EntryInForce = 0 => Phase = C
      BY <1>1, <2>1, CycleEnds
    <3>3. cycleStartAuto' = IF EntryInForce = 0 THEN 0 ELSE cycleStartAuto
      BY <2>1 DEF UpdateSchedule
    <3>4. currentSchedule' # currentSchedule => EntryInForce = 0
      BY <1>1, <2>1, UpdateExecutes
    <3>5. cycleStartAuto \in Int
      BY <1>1 DEF ExecutionInv, ContentInv, TypeOK, ScheduleTypeOK
    <3>. QED
      BY <3>1, <3>2, <3>3, <3>4, <3>5
  <2>2. CASE ~UpdateSchedule
    <3>1. currentSchedule' = currentSchedule /\ cycleStartAuto' \in {cycleStartAuto, cycleStartAuto - 1}
      BY <1>1, <2>2 DEF Next, Elapse, Tick, UpdateScheduleThrows, CalculateMaxBit,
                        SetTimeIntervals, gcVars
    <3>2. cycleStartAuto \in Int
      BY <1>1 DEF ExecutionInv, ContentInv, TypeOK, ScheduleTypeOK
    <3>. QED
      BY <3>1, <3>2
  <2>. QED
    BY <2>1, <2>2
<1>2. Spec => [][Next]_gcVars
  BY PTL DEF Spec
<1>. QED
  BY <1>1, <1>2, ExecutionInvariance, PTL DEF CycleLastsCycleTime, ExchangedAtCycleStart
=============================================================================
