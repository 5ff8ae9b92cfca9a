------------------------------- MODULE Clocks -------------------------------
(***************************************************************************)
(* An oscillator (OscillatorBase, IdealOscillator) and the two clocks that *)
(* count its ticks: the RealtimeClock of the schedule managers, which      *)
(* tells its listeners when its local time reaches a timestamp, and the    *)
(* LegacyClock of the gate controllers and traffic generators, which tells *)
(* them after a number of ticks.  The oscillator has a sorted list of      *)
(* ticks the clocks subscribed and one message to itself, for the first of *)
(* them; the RealtimeClock has a sorted list of timestamps and subscribes  *)
(* one tick, for the first of them.  Nothing is counted while time passes: *)
(* whoever is called first calculates how many ticks have gone by.         *)
(*                                                                         *)
(* Methods call each other, so they are operators from the state of the    *)
(* three modules to the next one.  Global time, local time and the length  *)
(* of a tick have one unit; the drift of the RealtimeClock is what a tick  *)
(* adds to its local time beyond its length.  The order of ticks that are  *)
(* equal but for the listener is that of addresses: any order.             *)
(***************************************************************************)
EXTENDS Integers, FiniteSets, FiniteSetsExt

CONSTANTS
  Listeners,       \* of the RealtimeClock
  LegacyListeners, \* of the LegacyClock
  Intervals,       \* lengths of a tick: the frequencies of the oscillator
  FirstInterval,   \* the one it starts with
  Drifts,          \* of the RealtimeClock; 0 is among them
  Deltas,          \* after which time a listener asks to be told
  IdleTicks,       \* after how many ticks a listener asks to be told
  Kinds,           \* of the LegacyClock's events
  MaxPending,      \* bound: timestamps and ticks that are waited for
  MaxChanges,      \* bound: changes of the frequency or the drift
  Horizon          \* bound: global time at which a behaviour ends

VARIABLES
  now,        \* simTime()
  m,          \* the state of the modules: see Modules below
  table,      \* tickToListenerTable of the LegacyClock
  changes,    \* changes so far
  phase,      \* history: time since the oscillator's last true tick
  trueTick,   \* history: number of that tick
  trueTime,   \* history: local time at that tick
  pending,    \* history: timestamps listeners wait for
  told,       \* history: those told since the last true tick
  toldTicks   \* history: the LegacyClock's listeners that were told since then

histories == <<phase, trueTick, trueTime>>
vars == <<now, m, table, changes, histories, pending, told, toldTicks>>

Never == -1

ASSUME ClocksAssumption ==
  /\ Intervals \subseteq Nat \ {0} /\ FirstInterval \in Intervals
  /\ Drifts \subseteq Int /\ 0 \in Drifts
  /\ \A i \in Intervals, d \in Drifts : i + d > 0   \* the clock never stops
  /\ Deltas \subseteq Nat /\ IdleTicks \subseteq Nat /\ Kinds \subseteq Nat
  /\ {MaxPending, MaxChanges, Horizon} \subseteq Nat

\* A tick that is subscribed, by the RealtimeClock or by the LegacyClock.
TickEvent ==
  [owner : {"realtime", "legacy"}, tick : Nat, kind : Kinds \cup {0}, time : Nat]

Timestamp == [listener : Listeners, due : Nat]

\* An entry of the LegacyClock's table.  It is lost when the oscillator has
\* forgotten its tick.
Waiting == [listener : LegacyListeners, kind : Kinds, due : Nat, lost : BOOLEAN]

Modules == [
  interval : Intervals,             \* tickInterval() of the oscillator
  lastTick : Nat,
  timeOfLastTick : Nat,
  scheduledEvents : SUBSET TickEvent,
  tickMessage : Nat \cup {Never},   \* when it is scheduled
  drift : Drifts,                   \* of the RealtimeClock
  localTime : Nat,
  clockLastTick : Nat,              \* its lastTick
  timestamps : SUBSET Timestamp,    \* its scheduledEvents
  nextTick : Nat \cup {Never},
  failed : BOOLEAN ]

Fail(s) == [s EXCEPT !.failed = TRUE]

-----------------------------------------------------------------------------
\* Oscillator

\* tickFromGlobalTime(simTime())
CurrentTick(s) == s.lastTick + (now - s.timeOfLastTick) \div s.interval

\* globalTimeFromTick
GlobalTime(s, tick) == s.timeOfLastTick + (tick - s.lastTick) * s.interval

UpdateTickCount(s) ==
  IF now < s.timeOfLastTick THEN Fail(s)
  ELSE [s EXCEPT !.lastTick = CurrentTick(s),
                 !.timeOfLastTick = GlobalTime(s, CurrentTick(s))]

FirstTick(s) == Min({e.tick : e \in s.scheduledEvents})

FrontEvents(s) == {e \in s.scheduledEvents : e.tick = FirstTick(s)}

\* Mutant: the message is not scheduled anew when it is scheduled already.
ScheduleFirstTickOnly(s) ==
  IF s.scheduledEvents = {} THEN [s EXCEPT !.tickMessage = Never]
  ELSE IF s.tickMessage # Never THEN UpdateTickCount(s)
  ELSE [UpdateTickCount(s) EXCEPT !.tickMessage = Min({e.time : e \in FrontEvents(s)})]

ScheduleNextTick(s) ==
  LET u == UpdateTickCount(s)
  IN  IF s.scheduledEvents = {} THEN [s EXCEPT !.tickMessage = Never]
      ELSE IF FirstTick(s) < u.lastTick \/ Min({e.time : e \in FrontEvents(s)}) < now
      THEN Fail(u)
      ELSE [u EXCEPT !.tickMessage = Min({e.time : e \in FrontEvents(s)})]

SameTick(e, f) == e.owner = f.owner /\ e.tick = f.tick /\ e.kind = f.kind

\* Subscribing twice is subscribing once; a negative number of ticks is none
\* that an unsigned number can hold.
SubscribeTick(s, owner, idleTicks, kind) ==
  LET u == UpdateTickCount(s)
      tick == u.lastTick + idleTicks
      e == [owner |-> owner, tick |-> tick, kind |-> kind, time |-> GlobalTime(u, tick)]
  IN  IF idleTicks < 0 THEN Fail(s)
      ELSE IF \E f \in u.scheduledEvents : SameTick(e, f) THEN ScheduleNextTick(u)
      ELSE ScheduleNextTick([u EXCEPT !.scheduledEvents = @ \cup {e}])

UnsubscribeTick(s, owner, tick, kind) ==
  ScheduleNextTick([s EXCEPT !.scheduledEvents =
    {e \in @ : e.owner # owner \/ e.tick # tick \/ e.kind # kind}])

\* setFrequency, up to the call of the listeners: the ticks since the last
\* update are counted with the new frequency.
ChangeFrequency(s, interval) ==
  LET u == UpdateTickCount([s EXCEPT !.interval = interval])
  IN  IF \E e \in s.scheduledEvents : e.tick < u.lastTick THEN Fail(u)
      ELSE ScheduleNextTick([u EXCEPT !.scheduledEvents =
             {[e EXCEPT !.time = GlobalTime(u, e.tick)] : e \in @}])

-----------------------------------------------------------------------------
\* RealtimeClock

Inc(s) == s.interval + s.drift   \* timeIncrementPerTick()

UpdateLocalTime(s) ==
  LET u == UpdateTickCount(s)
  IN  [u EXCEPT !.localTime = @ + (u.lastTick - u.clockLastTick) * Inc(u),
                !.clockLastTick = u.lastTick]

FirstDue(s) == Min({p.due : p \in s.timestamps})

\* Mutant: rounded down.
TicksBefore(s, due) == (due - s.localTime) \div Inc(s)

\* Rounded up to the next tick.
TicksUntil(s, due) == -((s.localTime - due) \div Inc(s))

\* Mutant: the tick that was subscribed before is not given back.
ScheduleWithoutCancelling(s) ==
  LET u == UpdateLocalTime(s)
      idleTicks == TicksUntil(u, FirstDue(u))
  IN  IF s.timestamps = {} THEN s
      ELSE [SubscribeTick(u, "realtime", idleTicks, 0)
              EXCEPT !.nextTick = u.lastTick + idleTicks]

ScheduleNextTimestamp(s) ==
  LET t == IF s.nextTick = Never THEN s
           ELSE [UnsubscribeTick(s, "realtime", s.nextTick, 0) EXCEPT !.nextTick = Never]
      u == UpdateLocalTime(t)
      idleTicks == TicksUntil(u, FirstDue(u))
  IN  IF t.timestamps = {} THEN t
      ELSE [SubscribeTick(u, "realtime", idleTicks, 0)
              EXCEPT !.nextTick = u.lastTick + idleTicks]

SubscribeTimestamp(s, p) == ScheduleNextTimestamp([s EXCEPT !.timestamps = @ \cup {p}])

UnsubscribeTimestamp(s, p) == ScheduleNextTimestamp([s EXCEPT !.timestamps = @ \ {p}])

\* onTick, up to the call of the listener of the first timestamp, p.
OnRealtimeTick(s, p) ==
  IF s.localTime > p.due THEN Fail(s)
  ELSE ScheduleNextTimestamp(UpdateLocalTime([s EXCEPT !.timestamps = @ \ {p}]))

ChangeDrift(s, drift) == ScheduleNextTimestamp([s EXCEPT !.drift = drift])

-----------------------------------------------------------------------------
Init ==
  /\ now = 0
  /\ m = [interval |-> FirstInterval, lastTick |-> 0, timeOfLastTick |-> 0,
          scheduledEvents |-> {}, tickMessage |-> Never,
          drift |-> 0, localTime |-> 0, clockLastTick |-> 0,
          timestamps |-> {}, nextTick |-> Never, failed |-> FALSE]
  /\ table = {} /\ changes = 0
  /\ phase = 0 /\ trueTick = 0 /\ trueTime = 0
  /\ pending = {} /\ told = {} /\ toldTicks = {}

\* Time goes on while no message is due; a tick ends with its interval.
Elapse ==
  /\ now < Horizon /\ m.tickMessage # now /\ ~m.failed
  /\ now' = now + 1
  /\ IF phase + 1 < m.interval
     THEN phase' = phase + 1 /\ UNCHANGED <<trueTick, trueTime, told, toldTicks>>
     ELSE /\ phase' = 0 /\ trueTick' = trueTick + 1 /\ trueTime' = trueTime + Inc(m)
          /\ told' = {} /\ toldTicks' = {}
  /\ UNCHANGED <<m, table, changes, pending>>

\* The end of the bounded behaviours.
End == now = Horizon /\ m.tickMessage # now /\ ~m.failed /\ UNCHANGED vars

\* handleMessage, up to the call of the tick's listener.
PopTick(e) ==
  [m EXCEPT !.scheduledEvents = @ \ {e}, !.tickMessage = Never,
            !.timeOfLastTick = IF m.lastTick < e.tick THEN now ELSE @,
            !.lastTick = Max({@, e.tick}),
            !.failed = m.lastTick > e.tick \/ m.timeOfLastTick > now]

\* The oscillator's message arrives for the RealtimeClock: it tells the listener
\* of its first timestamp.
RealtimeTick ==
  /\ m.tickMessage = now
  /\ \E e \in FrontEvents(m) :
       /\ e.owner = "realtime"
       /\ IF m.timestamps = {} THEN m' = Fail(PopTick(e)) /\ UNCHANGED <<pending, told>>
          ELSE \E p \in m.timestamps :
                 /\ p.due = FirstDue(m)
                 /\ m' = ScheduleNextTick(OnRealtimeTick(PopTick(e), p))
                 /\ told' = told \cup {p} /\ pending' = pending \ {p}
  /\ UNCHANGED <<now, table, changes, histories, toldTicks>>

\* It arrives for the LegacyClock, which tells everybody who waits for that tick.
LegacyTick ==
  /\ m.tickMessage = now
  /\ \E e \in FrontEvents(m) :
       LET listeners == {l \in table : l.due = e.tick /\ l.kind = e.kind /\ ~l.lost}
       IN  /\ e.owner = "legacy"
           /\ m' = ScheduleNextTick(PopTick(e))
           /\ table' = table \ listeners /\ toldTicks' = toldTicks \cup listeners
  /\ UNCHANGED <<now, changes, histories, pending, told>>

-----------------------------------------------------------------------------
\* The callers' side: the schedule managers, gate controllers and generators.

\* The tick at which the clock reaches a time, and what it shows then.
TimeReached(s, due) ==
  trueTime + (IF due > trueTime THEN -((trueTime - due) \div Inc(s)) ELSE 0) * Inc(s)

\* Careful callers.  Of the timestamps that one tick reaches, no two come before
\* it: the clock tells them one after the other and would find the second one in
\* the past.
OnePerTick(s) ==
  \A p, q \in s.timestamps :
    p # q /\ TimeReached(s, p.due) = TimeReached(s, q.due)
      => Max({p.due, q.due}) = TimeReached(s, p.due)

\* Nobody calls the clock at the instant of a tick that reaches a timestamp
\* between ticks, before the clock has told the listener: this, too, makes it a
\* timestamp in the past.
NoneIsLate == \A p \in m.timestamps : p.due >= trueTime

\* The time is calculated with the rate of now, so the rate changes in a callback
\* at a tick, as in the tests, when everything up to it is counted.
AllTicksAreCounted == phase = 0 /\ m.lastTick = trueTick /\ m.clockLastTick = trueTick

\* Nobody asks between two ticks to be told at once: that tick has passed, and no
\* message can be scheduled for it.
NotForThePast(wait) == wait > 0 \/ phase = 0

Careful == ~m.failed /\ NoneIsLate /\ OnePerTick(m')

CallClock == UNCHANGED <<now, table, histories, told, toldTicks>>

SubscribeDelta(listener, delta) ==
  LET u == UpdateLocalTime(m)
  IN  /\ ~m.failed /\ Cardinality(pending) < MaxPending
      /\ m' = SubscribeTimestamp(u, [listener |-> listener, due |-> u.localTime + delta])
      /\ pending' = pending \cup {[listener |-> listener, due |-> trueTime + delta]}
      /\ CallClock /\ UNCHANGED changes

Unsubscribe(p) ==
  /\ ~m.failed
  /\ m' = UnsubscribeTimestamp(m, p)
  /\ pending' = pending \ {p}
  /\ CallClock /\ UNCHANGED changes

SetDriftRate(drift) ==
  /\ ~m.failed /\ changes < MaxChanges /\ drift # m.drift
  /\ m' = ChangeDrift(m, drift)
  /\ changes' = changes + 1
  /\ CallClock /\ UNCHANGED pending

\* The clock's setClockRate: the oscillator calls onFrequencyChange back.
SetFrequency(interval) ==
  /\ ~m.failed /\ changes < MaxChanges /\ interval # m.interval
  /\ m' = ScheduleNextTimestamp(ChangeFrequency(m, interval))
  /\ changes' = changes + 1
  /\ CallClock /\ UNCHANGED pending

CallLegacyClock == UNCHANGED <<now, changes, histories, pending, told, toldTicks>>

\* subscribeTick of the LegacyClock.
SubscribeLegacy(listener, idleTicks, kind) ==
  /\ ~m.failed /\ Cardinality(table) < MaxPending
  /\ m' = SubscribeTick(m, "legacy", idleTicks, kind)
  /\ table' = table \cup {[listener |-> listener, kind |-> kind,
                            due |-> UpdateTickCount(m).lastTick + idleTicks, lost |-> FALSE]}
  /\ CallLegacyClock

TicksOf(listener) == {l \in table : l.listener = listener}

\* A tick is shared by those who asked for the same number and kind.
Shares(l, listener) == \E k \in TicksOf(listener) : k.due = l.due /\ k.kind = l.kind

\* unsubscribeTicks takes the listener's ticks away from the oscillator, by value:
\* others who share one stay in the table and are never told.
UnsubscribeLegacy(listener) ==
  LET others == table \ TicksOf(listener)
  IN  /\ ~m.failed /\ TicksOf(listener) # {}
      /\ m' = ScheduleNextTick([m EXCEPT !.scheduledEvents =
                 {e \in @ : \A l \in TicksOf(listener) :
                    e.owner # "legacy" \/ e.tick # l.due \/ e.kind # l.kind}])
      /\ table' = {[l EXCEPT !.lost = @ \/ Shares(l, listener)] : l \in others}
      /\ CallLegacyClock

NobodyShares(listener) == \A l \in table \ TicksOf(listener) : ~Shares(l, listener)

\* Callers who may call at any instant.
Next ==
  \/ Elapse \/ End \/ RealtimeTick \/ LegacyTick
  \/ \E l \in Listeners, d \in Deltas : SubscribeDelta(l, d)
  \/ \E p \in pending : Unsubscribe(p)
  \/ \E d \in Drifts : SetDriftRate(d)
  \/ \E i \in Intervals : SetFrequency(i)
  \/ \E l \in LegacyListeners, t \in IdleTicks, k \in Kinds : SubscribeLegacy(l, t, k)
  \/ \E l \in LegacyListeners : UnsubscribeLegacy(l)

Spec == Init /\ [][Next]_vars

\* Callers who keep clear of what the code does not carry: see the guards above.
CarefulNext ==
  \/ Elapse \/ End \/ RealtimeTick \/ LegacyTick
  \/ \E l \in Listeners, d \in Deltas : NotForThePast(d) /\ SubscribeDelta(l, d) /\ Careful
  \/ \E p \in pending : Unsubscribe(p) /\ Careful
  \/ \E d \in Drifts : SetDriftRate(d) /\ Careful /\ AllTicksAreCounted
  \/ \E i \in Intervals : SetFrequency(i) /\ Careful /\ AllTicksAreCounted
  \/ \E l \in LegacyListeners, t \in IdleTicks, k \in Kinds :
       NotForThePast(t) /\ SubscribeLegacy(l, t, k)
  \/ \E l \in LegacyListeners : UnsubscribeLegacy(l) /\ NobodyShares(l)

CarefulSpec == Init /\ [][CarefulNext]_vars

-----------------------------------------------------------------------------
TypeOK ==
  /\ now \in 0 .. Horizon
  /\ m \in Modules
  /\ table \subseteq Waiting
  /\ changes \in 0 .. MaxChanges
  /\ phase \in Nat /\ trueTick \in Nat /\ trueTime \in Nat
  /\ pending \subseteq Timestamp /\ told \subseteq Timestamp
  /\ toldTicks \subseteq Waiting

\* Every variable keeps its type and, as long as the callers are careful, no
\* assertion of the oscillator or the clock fails: ticks only go up, no tick is
\* found in the past, and the clock is not called back without a timestamp, however
\* subscriptions, cancellations and changes of the rate renew the one tick it
\* waits for.  Two timestamps between the same two ticks, or a call at the instant
\* of the tick that reaches one, fail the assertion at RealtimeClock.cc:220: OnePerTick
\* and NoneIsLate keep them out, and under Spec this does not hold.
AssertionsHold == TypeOK /\ ~m.failed

Timestamps == INSTANCE TimerPromise
  WITH time <- trueTime, pending <- pending, told <- told

\* Who subscribed a timestamp is told at the first tick with which the local time
\* reaches it, in the order of time and once, and not after cancelling, whatever
\* happens to the rate at ticks that are counted (the callers being careful).
TimestampsKeepPromise == Timestamps!Spec

Ticks == INSTANCE TimerPromise
  WITH time <- trueTick, pending <- table, told <- toldTicks

\* Who subscribed a tick of the LegacyClock is told at that very tick, while others
\* subscribe and the frequency changes, as long as nobody cancels a tick that
\* another one shares: unsubscribeTicks would take it away from both.
TicksKeepPromise == Ticks!Spec
=============================================================================
