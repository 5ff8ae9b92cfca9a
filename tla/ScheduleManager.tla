--------------------------- MODULE ScheduleManager ---------------------------
(***************************************************************************)
(* ScheduleManager<T>: the three state machines of IEEE 802.1Q, 8.6.9 --   *)
(* cycle timer, list execute and list config -- that run a control list    *)
(* and exchange it at configChangeTime.  A machine is updated by a message *)
(* the manager sends to itself, or by a timestamp of the clock, which      *)
(* sends that message.  Messages of one instant are handled in the order   *)
(* they were scheduled; rescheduleAt() moves a message to the end, and     *)
(* every call of the clock moves the clock's own event there.  The methods *)
(* other modules call may come between any two messages.                   *)
(*                                                                         *)
(* Time is counted in ticks of the clock and stored relative to the        *)
(* present.  The flags cycleStart and newConfigCT and the error counter    *)
(* are written and never read by the manager, and are left out.  Of the    *)
(* clock (module Clocks has all of it) there is what the manager sees:     *)
(* RealtimeClock delivers the timestamps that are due one by one, by kind; *)
(* no other module subscribes to it.  The manager is that of a traffic     *)
(* generator (module ScheduledSender); a gate schedule manager differs in  *)
(* that nobody listens to it.                                              *)
(***************************************************************************)
EXTENDS Integers, Sequences, SequencesExt

CONSTANTS
  States,                \* scheduled objects
  InitialAdminState,
  InitialAdminSchedule,
  AdminSchedules,        \* schedules setAdminSchedule is called with
  MaxAge                 \* bound: a cycle that runs for longer counts as this old

VARIABLES
  enabled, adminState, adminSchedule,
  cycleTimerState, nextCycleTimerState, cycleStartTime,
  listExecuteState, nextListExecuteState, listPointer, operState, exitTimer,
  listConfigState, nextListConfigState, operSchedule,
  configChange, configPending, configChangeTime,
  timestamps,   \* the time of each machine's pending timestamp
  subscribed,   \* machines that have ever subscribed one
  queue,        \* what is to be handled at this instant, in order
  failed,       \* an assertion was violated
  age           \* history: time since the start of the running cycle, or Never

cycleTimerVars == <<cycleTimerState, nextCycleTimerState, cycleStartTime>>
listExecuteVars ==
  <<listExecuteState, nextListExecuteState, listPointer, operState, exitTimer, age>>
listConfigVars == <<listConfigState, nextListConfigState, operSchedule,
                    configPending, configChangeTime>>
adminVars == <<enabled, adminState, adminSchedule, configChange>>
clockVars == <<timestamps, subscribed>>
vars == <<adminVars, cycleTimerVars, listExecuteVars, listConfigVars, clockVars, queue, failed>>

CYCLE_TIMER == "cycleTimer"
LIST_EXECUTE == "listExecute"
LIST_CONFIG == "listConfig"
TICK == "tick"                  \* the event of the clock's oscillator
START == "start"                \* the generator's message to itself, of three kinds
STOP == "stop"
SEND == "send"

Machines == {CYCLE_TIMER, LIST_EXECUTE, LIST_CONFIG}

Never == -1

\* A base time lies less than a cycle ahead: setCycleStartTime casts the
\* number of cycles to an unsigned integer, and a negative one is undefined.
Schedule ==
  {s \in [baseTime : Int, cycleTime : Nat \ {0}, cycleTimeExtension : Nat,
          controlList : Seq([timeInterval : Nat, object : States])] :
     s.baseTime < s.cycleTime}

ASSUME ManagerAssumption ==
  /\ InitialAdminState \in States
  /\ InitialAdminSchedule \in Schedule
  /\ AdminSchedules \subseteq Schedule
  /\ MaxAge \in Nat

-----------------------------------------------------------------------------
\* The event queue

\* rescheduleAt(simTime(), msg)
Reschedule(q, msg) == Append(RemoveFirst(q, msg), msg)

\* Mutant: the event of the clock is cancelled only.
ClockForgets(q, ts) == RemoveFirst(q, TICK)

\* The clock renews the event of its next timestamp: it goes to the end of
\* this instant if a timestamp is due.
ClockCalled(q, ts) ==
  IF \E m \in Machines : ts[m] = 0 THEN Reschedule(q, TICK) ELSE RemoveFirst(q, TICK)

\* The message of machine m is being handled: it leaves the queue, and the
\* machine gives up the timestamp it subscribed last, fired or not.
TimestampsWithout(m) == [timestamps EXCEPT ![m] = Never]

QueueWithout(m) ==
  IF m \in subscribed THEN ClockCalled(Tail(queue), TimestampsWithout(m)) ELSE Tail(queue)

\* The machine does not subscribe a new timestamp in this step.
NoTimestamp(m) == timestamps' = TimestampsWithout(m) /\ UNCHANGED subscribed

\* The machine subscribes a timestamp t from now; it was handled with q.
Subscribe(m, t, q) ==
  /\ timestamps' = [timestamps EXCEPT ![m] = t]
  /\ subscribed' = subscribed \cup {m}
  /\ queue' = ClockCalled(q, timestamps')

Handles(m) == ~failed /\ queue # <<>> /\ Head(queue) = m

-----------------------------------------------------------------------------
Init ==
  /\ enabled = TRUE
  /\ adminState = InitialAdminState
  /\ adminSchedule = InitialAdminSchedule
  /\ cycleTimerState = "UNDEFINED"
  /\ nextCycleTimerState = "CYCLE_IDLE"
  /\ cycleStartTime = 0
  /\ listExecuteState = "UNDEFINED"
  /\ nextListExecuteState = "INIT"
  /\ listPointer = 0
  /\ operState = InitialAdminState
  /\ exitTimer = 0
  /\ listConfigState = "UNDEFINED"
  /\ nextListConfigState = "CONFIG_IDLE"
  /\ operSchedule = InitialAdminSchedule
  /\ configChange = FALSE
  /\ configPending = FALSE
  /\ configChangeTime = 0
  /\ timestamps = [m \in Machines |-> Never]
  /\ subscribed = {}
  /\ queue \in {<<CYCLE_TIMER, LIST_EXECUTE, LIST_CONFIG, START>>,
                <<START, CYCLE_TIMER, LIST_EXECUTE, LIST_CONFIG>>}
  /\ failed = FALSE
  /\ age = Never

-----------------------------------------------------------------------------
\* The CycleTimer machine: updateCycleTimerState

CycleTimerDisabled ==
  /\ Handles(CYCLE_TIMER)
  /\ ~enabled
  /\ cycleTimerState' = nextCycleTimerState
  /\ queue' = QueueWithout(CYCLE_TIMER)
  /\ NoTimestamp(CYCLE_TIMER)
  /\ UNCHANGED <<nextCycleTimerState, cycleStartTime, adminVars, listExecuteVars,
                 listConfigVars, failed>>

CycleIdle ==
  /\ Handles(CYCLE_TIMER)
  /\ enabled
  /\ nextCycleTimerState = "CYCLE_IDLE"
  /\ cycleTimerState' = "CYCLE_IDLE"
  /\ nextCycleTimerState' = "SET_CYCLE_START_TIME"
  /\ queue' = Reschedule(QueueWithout(CYCLE_TIMER), CYCLE_TIMER)
  /\ NoTimestamp(CYCLE_TIMER)
  /\ UNCHANGED <<cycleStartTime, adminVars, listExecuteVars, listConfigVars, failed>>

\* The first base + n * cycle from now on (one that lies ahead is taken as it
\* is: the quotient is rounded up to 0).
NextMultiple(base, cycle) ==
  IF base > 0 THEN base ELSE base + ((cycle - 1 - base) \div cycle) * cycle

\* Mutants: the number of cycles is rounded down; a cycle that would begin now
\* is skipped.
LastCycleStart(base, cycle) ==
  IF base > 0 THEN base ELSE base + ((-base) \div cycle) * cycle

CycleStartRoundedDown == LastCycleStart(operSchedule.baseTime, operSchedule.cycleTime)

CycleStartAfterNow ==
  IF configPending THEN configChangeTime ELSE CycleStartRoundedDown + operSchedule.cycleTime

\* setCycleStartTime, cases a) to d)
CycleStartTime ==
  IF configPending /\ configChangeTime <= operSchedule.cycleTime
                                            + operSchedule.cycleTimeExtension
  THEN configChangeTime
  ELSE NextMultiple(operSchedule.baseTime, operSchedule.cycleTime)

SetCycleStartTime ==
  /\ Handles(CYCLE_TIMER)
  /\ enabled
  /\ nextCycleTimerState = "SET_CYCLE_START_TIME"
  /\ cycleTimerState' = "SET_CYCLE_START_TIME"
  /\ cycleStartTime' = CycleStartTime
  /\ IF CycleStartTime < 0
     THEN /\ failed' = TRUE
          /\ UNCHANGED <<nextCycleTimerState, clockVars, queue>>
     ELSE /\ nextCycleTimerState' = "START_CYCLE"
          /\ Subscribe(CYCLE_TIMER, CycleStartTime, QueueWithout(CYCLE_TIMER))
          /\ UNCHANGED failed
  /\ UNCHANGED <<adminVars, listExecuteVars, listConfigVars>>

\* setCycleStart(true) makes the list start again, whatever it is at.
StartCycle ==
  /\ Handles(CYCLE_TIMER)
  /\ enabled
  /\ nextCycleTimerState = "START_CYCLE"
  /\ cycleTimerState' = "START_CYCLE"
  /\ nextCycleTimerState' = "SET_CYCLE_START_TIME"
  /\ nextListExecuteState' = "NEW_CYCLE"
  /\ Subscribe(CYCLE_TIMER, 1, Reschedule(QueueWithout(CYCLE_TIMER), LIST_EXECUTE))
  /\ UNCHANGED <<cycleStartTime, adminVars, listExecuteState, listPointer, operState,
                 exitTimer, age, listConfigVars, failed>>

-----------------------------------------------------------------------------
\* The ListExecute machine: updateListExecuteState

ListExecuteDisabled ==
  /\ Handles(LIST_EXECUTE)
  /\ ~enabled
  /\ listExecuteState' = nextListExecuteState
  /\ queue' = QueueWithout(LIST_EXECUTE)
  /\ NoTimestamp(LIST_EXECUTE)
  /\ age' = Never
  /\ UNCHANGED <<nextListExecuteState, listPointer, operState, exitTimer, adminVars,
                 cycleTimerVars, listConfigVars, failed>>

\* The machine goes from its next state to state s, and on to t at once, after the
\* messages others have scheduled on its call.
ListExecuteGoesOn(s, t, others) ==
  /\ Handles(LIST_EXECUTE)
  /\ enabled
  /\ nextListExecuteState = s
  /\ listExecuteState' = s
  /\ nextListExecuteState' = t
  /\ queue' = Reschedule(QueueWithout(LIST_EXECUTE) \o others, LIST_EXECUTE)
  /\ NoTimestamp(LIST_EXECUTE)
  /\ UNCHANGED <<adminVars, cycleTimerVars, listConfigVars, failed>>

ListInit ==
  /\ ListExecuteGoesOn("INIT", "END_OF_CYCLE", <<>>)
  /\ operState' = adminState
  /\ exitTimer' = 0
  /\ listPointer' = 0
  /\ age' = Never

\* Mutant: the pointer is not reset.
NewCycleKeepsPointer ==
  /\ ListExecuteGoesOn("NEW_CYCLE", "EXECUTE_CYCLE", <<>>)
  /\ age' = 0
  /\ UNCHANGED <<listPointer, operState, exitTimer>>

NewCycle ==
  /\ ListExecuteGoesOn("NEW_CYCLE", "EXECUTE_CYCLE", <<>>)
  /\ listPointer' = 0
  /\ age' = 0
  /\ UNCHANGED <<operState, exitTimer>>

ListLength == Len(operSchedule.controlList)

\* executeOperation: an interval of zero lasts one tick.
Interval(e) == IF e.timeInterval = 0 THEN 1 ELSE e.timeInterval

\* What follows the execution of an entry, with the pointer behind it.
StateAfterEntry(pointer) == IF pointer < ListLength THEN "DELAY" ELSE "END_OF_CYCLE"

\* Mutant: listeners are told of changes only.
NotifyOfChange(state) == IF state # operState THEN <<SEND>> ELSE <<>>

\* notifyStateChanged, and the generator's onOperStateChange
NotifyStateChanged(state) == <<SEND>>

\* The list is over, or the generator's message is scheduled still: an assertion
\* fails or the kernel throws.
ExecuteFails ==
  \/ ListLength > 0 /\ listPointer >= ListLength
  \/ \E kind \in {START, STOP, SEND} : Contains(queue, kind)

ExecuteCycle ==
  LET object == IF ListLength = 0 THEN adminState
                ELSE operSchedule.controlList[listPointer + 1].object
  IN  IF ExecuteFails
      THEN /\ Handles(LIST_EXECUTE)
           /\ enabled
           /\ nextListExecuteState = "EXECUTE_CYCLE"
           /\ failed' = TRUE
           /\ UNCHANGED <<adminVars, cycleTimerVars, listExecuteVars, listConfigVars,
                          clockVars, queue>>
      ELSE /\ ListExecuteGoesOn("EXECUTE_CYCLE", StateAfterEntry(listPointer + 1),
                                NotifyStateChanged(object))
           /\ listPointer' = listPointer + 1
           /\ operState' = object
           /\ exitTimer' = IF ListLength = 0 THEN operSchedule.cycleTime
                           ELSE Interval(operSchedule.controlList[listPointer + 1])
           /\ UNCHANGED age

Delay ==
  /\ Handles(LIST_EXECUTE)
  /\ enabled
  /\ nextListExecuteState = "DELAY"
  /\ listExecuteState' = "DELAY"
  /\ nextListExecuteState' = "EXECUTE_CYCLE"
  /\ Subscribe(LIST_EXECUTE, exitTimer, QueueWithout(LIST_EXECUTE))
  /\ UNCHANGED <<listPointer, operState, exitTimer, age, adminVars, cycleTimerVars,
                 listConfigVars, failed>>

EndOfCycle ==
  /\ Handles(LIST_EXECUTE)
  /\ enabled
  /\ nextListExecuteState = "END_OF_CYCLE"
  /\ listExecuteState' = "END_OF_CYCLE"
  /\ queue' = QueueWithout(LIST_EXECUTE)
  /\ NoTimestamp(LIST_EXECUTE)
  /\ UNCHANGED <<nextListExecuteState, listPointer, operState, exitTimer, age, adminVars,
                 cycleTimerVars, listConfigVars, failed>>

-----------------------------------------------------------------------------
\* The ListConfig machine: updateListConfigState

ListConfigDisabled ==
  /\ Handles(LIST_CONFIG)
  /\ ~enabled
  /\ listConfigState' = nextListConfigState
  /\ queue' = QueueWithout(LIST_CONFIG)
  /\ NoTimestamp(LIST_CONFIG)
  /\ UNCHANGED <<nextListConfigState, operSchedule, configPending, configChangeTime,
                 adminVars, cycleTimerVars, listExecuteVars, failed>>

\* setConfigChangeTime: the first start of an admin cycle from now on.
ConfigChangeTime == NextMultiple(adminSchedule.baseTime, adminSchedule.cycleTime)

ConfigPending ==
  /\ Handles(LIST_CONFIG)
  /\ enabled
  /\ nextListConfigState = "CONFIG_PENDING"
  /\ listConfigState' = "CONFIG_PENDING"
  /\ nextListConfigState' = "UPDATE_CONFIG"
  /\ configChange' = FALSE
  /\ configPending' = TRUE
  /\ configChangeTime' = ConfigChangeTime
  /\ Subscribe(LIST_CONFIG, ConfigChangeTime, QueueWithout(LIST_CONFIG))
  /\ UNCHANGED <<operSchedule, enabled, adminState, adminSchedule, cycleTimerVars,
                 listExecuteVars, failed>>

\* setNewConfigCT(true) makes the cycle timer start again.
UpdateConfig ==
  /\ Handles(LIST_CONFIG)
  /\ enabled
  /\ nextListConfigState = "UPDATE_CONFIG"
  /\ listConfigState' = "UPDATE_CONFIG"
  /\ nextListConfigState' = "CONFIG_IDLE"
  /\ operSchedule' = adminSchedule
  /\ nextCycleTimerState' = "CYCLE_IDLE"
  /\ queue' = Reschedule(Reschedule(QueueWithout(LIST_CONFIG), CYCLE_TIMER), LIST_CONFIG)
  /\ NoTimestamp(LIST_CONFIG)
  /\ UNCHANGED <<configPending, configChangeTime, adminVars, cycleTimerState,
                 cycleStartTime, listExecuteVars, failed>>

ConfigIdle ==
  /\ Handles(LIST_CONFIG)
  /\ enabled
  /\ nextListConfigState = "CONFIG_IDLE"
  /\ listConfigState' = "CONFIG_IDLE"
  /\ configPending' = FALSE
  /\ queue' = QueueWithout(LIST_CONFIG)
  /\ NoTimestamp(LIST_CONFIG)
  /\ UNCHANGED <<nextListConfigState, operSchedule, configChangeTime, adminVars,
                 cycleTimerVars, listExecuteVars, failed>>

-----------------------------------------------------------------------------
\* The clock

\* Timestamps of the same time are ordered by kind.
DueFirst ==
  IF timestamps[CYCLE_TIMER] = 0 THEN CYCLE_TIMER
  ELSE IF timestamps[LIST_EXECUTE] = 0 THEN LIST_EXECUTE
  ELSE LIST_CONFIG

\* onTimestamp: the first due timestamp sends the message of its machine; the
\* oscillator then schedules the next one.
OnTimestamp ==
  /\ Handles(TICK)
  /\ timestamps' = [timestamps EXCEPT ![DueFirst] = Never]
  /\ queue' = ClockCalled(Reschedule(Tail(queue), DueFirst), timestamps')
  /\ UNCHANGED <<subscribed, adminVars, cycleTimerVars, listExecuteVars, listConfigVars, failed>>

\* Times are counted down to the present; a base time is renewed by a cycle
\* when it is a whole cycle old, which leaves the starts of cycles where they
\* are.
Earlier(t) == IF t > Never THEN t - 1 ELSE Never

Shifted(s) ==
  [s EXCEPT !.baseTime = IF @ - 1 = -s.cycleTime THEN 0 ELSE @ - 1]

Elapse ==
  /\ ~failed
  /\ queue = <<>>
  /\ timestamps' = [m \in Machines |-> Earlier(timestamps[m])]
  /\ queue' = ClockCalled(queue, timestamps')
  /\ adminSchedule' = Shifted(adminSchedule)
  /\ operSchedule' = Shifted(operSchedule)
  /\ cycleStartTime' = Earlier(cycleStartTime)
  /\ configChangeTime' = Earlier(configChangeTime)
  /\ age' = IF age \in 0 .. MaxAge - 1 THEN age + 1 ELSE age
  /\ UNCHANGED <<enabled, adminState, configChange, cycleTimerState, nextCycleTimerState,
                 listExecuteState, nextListExecuteState, listPointer, operState, exitTimer,
                 listConfigState, nextListConfigState, configPending, subscribed, failed>>

-----------------------------------------------------------------------------
\* The methods of the manager

\* setEnabled, called when q is queued
SetEnabled(value, q) ==
  /\ enabled' = value
  /\ IF ~value
     THEN /\ nextCycleTimerState' = "CYCLE_IDLE"
          /\ nextListExecuteState' = "INIT"
          /\ nextListConfigState' = "CONFIG_IDLE"
          /\ queue' = Reschedule(Reschedule(Reschedule(q, CYCLE_TIMER), LIST_EXECUTE),
                                 LIST_CONFIG)
     ELSE /\ nextListConfigState' = IF configChange THEN "CONFIG_PENDING"
                                                    ELSE nextListConfigState
          /\ queue' = IF configChange THEN Reschedule(q, LIST_CONFIG) ELSE q
          /\ UNCHANGED <<nextCycleTimerState, nextListExecuteState>>
  /\ UNCHANGED <<adminState, adminSchedule, configChange, cycleTimerState, cycleStartTime,
                 listExecuteState, listPointer, operState, exitTimer, age, listConfigState,
                 operSchedule, configPending, configChangeTime, clockVars, failed>>

\* Mutant: a change that is pending already is not planned again.
RequestOnce ==
  /\ ~failed
  /\ configChange' = TRUE
  /\ nextListConfigState' = IF enabled /\ ~configPending THEN "CONFIG_PENDING"
                                                        ELSE nextListConfigState
  /\ queue' = IF enabled /\ ~configPending THEN Reschedule(queue, LIST_CONFIG) ELSE queue
  /\ UNCHANGED <<enabled, adminState, cycleTimerVars, listExecuteVars, listConfigState,
                 operSchedule, configPending, configChangeTime, clockVars, failed>>

\* setConfigChange(true)
RequestConfigChange ==
  /\ ~failed
  /\ configChange' = TRUE
  /\ nextListConfigState' = IF enabled THEN "CONFIG_PENDING" ELSE nextListConfigState
  /\ queue' = IF enabled THEN Reschedule(queue, LIST_CONFIG) ELSE queue
  /\ UNCHANGED <<enabled, adminState, cycleTimerVars, listExecuteVars, listConfigState,
                 operSchedule, configPending, configChangeTime, clockVars, failed>>

SetAdminState(state) ==
  /\ ~failed
  /\ adminState' = state
  /\ UNCHANGED <<enabled, adminSchedule, configChange, cycleTimerVars, listExecuteVars,
                 listConfigVars, clockVars, queue, failed>>

\* setAdminSchedule(s)
SetAdminSchedule(s) ==
  /\ ~failed
  /\ adminSchedule' = s
  /\ UNCHANGED <<enabled, adminState, configChange, cycleTimerVars, listExecuteVars,
                 listConfigVars, clockVars, queue, failed>>

\* setAdminSchedule(s), and setConfigChange(true) at once
Reconfigure(s) == RequestConfigChange /\ adminSchedule' = s

-----------------------------------------------------------------------------
ManagerNext ==
  \/ CycleTimerDisabled \/ CycleIdle \/ SetCycleStartTime \/ StartCycle
  \/ ListExecuteDisabled \/ ListInit \/ NewCycle \/ ExecuteCycle \/ Delay \/ EndOfCycle
  \/ ListConfigDisabled \/ ConfigPending \/ UpdateConfig \/ ConfigIdle
  \/ OnTimestamp
  \/ Elapse

\* Clients may call the methods one by one, at any time.
AnyCall ==
  \/ \E s \in AdminSchedules : SetAdminSchedule(s)
  \/ RequestConfigChange /\ UNCHANGED adminSchedule
  \/ \E state \in States : SetAdminState(state)

\* Careful clients: they set a schedule only together with the request to
\* change, and not while the change before is being carried out.  The code
\* accepts both and then lets a schedule take over whose cycle does not start
\* now: the one that is adminSchedule when UPDATE_CONFIG is handled.
CarefulCall ==
  \/ \E s \in AdminSchedules : listConfigState # "UPDATE_CONFIG" /\ Reconfigure(s)
  \/ \E state \in States : SetAdminState(state)

-----------------------------------------------------------------------------
TypeOK ==
  /\ enabled \in BOOLEAN
  /\ {adminState, operState} \subseteq States
  /\ {adminSchedule, operSchedule} \subseteq Schedule
  /\ cycleTimerState \in {"UNDEFINED", "CYCLE_IDLE", "SET_CYCLE_START_TIME", "START_CYCLE"}
  /\ nextCycleTimerState \in {"CYCLE_IDLE", "SET_CYCLE_START_TIME", "START_CYCLE"}
  /\ {listExecuteState, nextListExecuteState} \subseteq
       {"UNDEFINED", "INIT", "NEW_CYCLE", "EXECUTE_CYCLE", "DELAY", "END_OF_CYCLE"}
  /\ {listConfigState, nextListConfigState} \subseteq
       {"UNDEFINED", "CONFIG_IDLE", "CONFIG_PENDING", "UPDATE_CONFIG"}
  /\ {cycleStartTime, configChangeTime} \subseteq Int
  /\ listPointer \in Nat
  /\ exitTimer \in Nat
  /\ {configChange, configPending, failed} \subseteq BOOLEAN
  /\ timestamps \in [Machines -> Nat \cup {Never}]
  /\ subscribed \subseteq Machines
  /\ queue \in Seq(Machines \cup {TICK, START, STOP, SEND})
  /\ age \in Nat \cup {Never}

\* All messages and timestamps of the instant are handled, and a cycle runs.
Settled == queue = <<>> /\ ~failed
Running == Settled /\ enabled /\ age # Never

\* A gate may ask nextGateCloseEvent between the instants, of a manager that nobody
\* has stopped: the cycle to come is not in the past ("TODO: Is this always the
\* case?"), the list pointer is in the list, and a list that waits is not empty and
\* waits for a timestamp.
GateMayAsk ==
  Settled /\ enabled /\ cycleTimerState # "CYCLE_IDLE" =>
    CASE listExecuteState \in {"INIT", "END_OF_CYCLE"} -> cycleStartTime >= 0
      [] listExecuteState = "EXECUTE_CYCLE" -> listPointer < ListLength
      [] listExecuteState = "DELAY" -> ListLength > 0 /\ timestamps["listExecute"] # Never
      [] OTHER -> listExecuteState = "NEW_CYCLE"

\* Time from the start of the list to the end of its first n entries.
EndOfEntries(s) ==
  LET end[n \in 0 .. Len(s.controlList)] ==
        IF n = 0 THEN 0 ELSE end[n - 1] + Interval(s.controlList[n])
  IN  end

(***************************************************************************)
(* Between the instants operState is that of the entry of operSchedule     *)
(* that covers the elapsed time of the cycle; the last entry is extended.  *)
(* Timer, list and configuration are updated by separate messages of one   *)
(* instant, and none of them may leave the list at a place of another      *)
(* cycle or schedule.                                                      *)
(***************************************************************************)
OperStateFollowsSchedule ==
  Running /\ ListLength > 0 =>
    \E i \in 1 .. ListLength :
      /\ EndOfEntries(operSchedule)[i - 1] <= age
      /\ age < EndOfEntries(operSchedule)[i] \/ i = ListLength
      /\ operState = operSchedule.controlList[i].object

\* A cycle lasts no longer than the cycle time; only before a change it may be
\* extended, by the extension of the schedule and the tick after which
\* setCycleStartTime plans the next cycle.
CycleEndsInTime ==
  Running =>
    \/ age < operSchedule.cycleTime
    \/ /\ configPending
       /\ age <= operSchedule.cycleTime + operSchedule.cycleTimeExtension

\* A schedule takes over at the start of one of its own cycles, also when
\* careful clients ask for another one while a change is pending.  (A schedule
\* set while the change is being carried out takes over at once, whatever its
\* cycle: see CarefulCall.)
ExchangedOnTime ==
  [][operSchedule.controlList # operSchedule'.controlList
       => NextMultiple(operSchedule'.baseTime, operSchedule'.cycleTime) = 0]_vars
=============================================================================
