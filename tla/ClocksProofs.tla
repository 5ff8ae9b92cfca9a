---------------------------- MODULE ClocksProofs ----------------------------
(***************************************************************************)
(* Both clocks keep the promise of a timer, and none of their assertions   *)
(* fails, with any number of listeners and of changes of the rate.         *)
(***************************************************************************)
EXTENDS Clocks, WellFoundedInduction, TLAPS

-----------------------------------------------------------------------------
\* Numbers

\* A set of numbers has a least one.
LEMMA LeastNumber ==
  ASSUME NEW T, T \subseteq Nat, T # {}
  PROVE  \E n \in T : \A k \in T : n <= k
<1>. DEFINE R == OpToRel(<, Nat)
<1>1. IsWellFoundedOn(R, Nat)
  BY NatLessThanWellFounded
<1>2. PICK n \in T : \A k \in T : ~(<<k, n>> \in R)
  BY <1>1, WFMin
<1>3. \A k \in T : ~(k < n)
  BY <1>2 DEF OpToRel
<1>. QED
  BY <1>3

\* Min is what it is called.
LEMMA MinIs ==
  ASSUME NEW T, T \subseteq Nat, T # {}
  PROVE  Min(T) \in T /\ \A n \in T : Min(T) <= n
BY LeastNumber DEF Min

LEMMA MaxOfTwo ==
  ASSUME NEW a \in Int, NEW b \in Int
  PROVE  Max({a, b}) = IF a >= b THEN a ELSE b
<1>1. \E n \in {a, b} : \A k \in {a, b} : n >= k
  BY a <= b \/ b <= a
<1>. QED
  BY <1>1 DEF Max

\* Multiplication keeps the order.
LEMMA TimesMonotone ==
  ASSUME NEW p \in Int, NEW q \in Int, NEW d \in Nat, p <= q
  PROVE  p * d <= q * d
OBVIOUS

\* A quotient is found between its multiples.
LEMMA Quotient ==
  ASSUME NEW x \in Int, NEW a \in Int, NEW d \in Nat \ {0}, a * d <= x, x < (a + 1) * d
  PROVE  x \div d = a
<1>. DEFINE b == x \div d
<1>1. b \in Int /\ b * d <= x /\ x < (b + 1) * d
  OBVIOUS
<1>. HIDE DEF b
<1>2. ~(a + 1 <= b)
  <2>1. SUFFICES ASSUME a + 1 <= b PROVE FALSE
    OBVIOUS
  <2>2. (a + 1) * d <= b * d
    BY <1>1, <2>1, TimesMonotone
  <2>3. (a + 1) * d \in Int /\ b * d \in Int
    BY <1>1
  <2>. QED
    BY <1>1, <2>2, <2>3
<1>3. ~(b + 1 <= a)
  <2>1. SUFFICES ASSUME b + 1 <= a PROVE FALSE
    OBVIOUS
  <2>2. (b + 1) * d <= a * d
    BY <1>1, <2>1, TimesMonotone
  <2>3. (b + 1) * d \in Int /\ a * d \in Int
    BY <1>1
  <2>. QED
    BY <1>1, <2>2, <2>3
<1>. QED
  BY <1>1, <1>2, <1>3 DEF b

\* The quotient, rounded up.
LEMMA RoundedUp ==
  ASSUME NEW x \in Int, NEW d \in Nat \ {0}
  PROVE  LET c == -((-x) \div d) IN c \in Int /\ x <= c * d /\ (c - 1) * d < x
<1>. DEFINE b == (-x) \div d
<1>1. b \in Int /\ b * d <= -x /\ -x < (b + 1) * d
  OBVIOUS
<1>2. (-b) * d = -(b * d) /\ (-b - 1) * d = -((b + 1) * d) /\ b * d \in Int /\ (b + 1) * d \in Int
  BY <1>1
<1>. HIDE DEF b
<1>. QED
  BY <1>1, <1>2 DEF b

\* It is the only number of steps of length d that reaches x and not before.
LEMMA RoundedUpOnly ==
  ASSUME NEW x \in Int, NEW d \in Nat \ {0}, NEW c \in Int, x <= c * d, (c - 1) * d < x
  PROVE  c = -((-x) \div d)
<1>1. (-c) * d = -(c * d) /\ (-c + 1) * d = -((c - 1) * d) /\ c * d \in Int /\ (c - 1) * d \in Int
  OBVIOUS
<1>2. (-x) \div d = -c
  BY <1>1, Quotient
<1>. QED
  BY <1>2

-----------------------------------------------------------------------------
\* What holds of the state s of the modules, between the calls of their methods.

\* The oscillator, who counts only when it is called, would count rightly.
CountsAt(s, tick, part, time) ==
  /\ part < s.interval
  /\ s.lastTick <= tick
  /\ s.timeOfLastTick + (tick - s.lastTick) * s.interval + part = time

CountsRightly(s) == CountsAt(s, trueTick, phase, now)

\* No tick that is waited for has passed, and each is awaited for its time.
EventsAhead(s) ==
  \A e \in s.scheduledEvents :
    /\ e.tick >= trueTick /\ (phase > 0 => e.tick > trueTick)
    /\ e.time = GlobalTime(s, e.tick)

\* The message is for the first of them.
MessageForFirst(s) ==
  s.tickMessage = IF s.scheduledEvents = {} THEN Never ELSE GlobalTime(s, FirstTick(s))

\* The RealtimeClock, too, would count rightly.
ShowsAt(s, tick, time) == s.localTime + (tick - s.clockLastTick) * Inc(s) = time

ClockCountsRightly(s) == ShowsAt(s, trueTick, trueTime)

\* No timestamp is one the clock would find in the past.
TimestampsAhead(s) == \A p \in s.timestamps : p.due >= s.localTime

\* The local time reaches due with this tick and not before.
FirstReaches(s, tick, due) ==
  /\ trueTime + (tick - trueTick) * Inc(s) >= due
  /\ tick > trueTick => trueTime + (tick - 1 - trueTick) * Inc(s) < due

\* The clock waits for one tick: the one that reaches its first timestamp.
WaitsForFirst(s) ==
  /\ s.timestamps = {} => /\ s.nextTick = Never
                          /\ \A e \in s.scheduledEvents : e.owner # "realtime"
  /\ s.timestamps # {} =>
       /\ s.nextTick \in Nat /\ FirstReaches(s, s.nextTick, FirstDue(s))
       /\ \E e \in s.scheduledEvents : e.owner = "realtime"
       /\ \A e \in s.scheduledEvents :
            e.owner = "realtime" => e.tick = s.nextTick /\ e.kind = 0

OscillatorInv(s) == s \in Modules /\ ~s.failed /\ CountsRightly(s) /\ EventsAhead(s)

ClockInv(s) == ClockCountsRightly(s) /\ TimestampsAhead(s) /\ WaitsForFirst(s) /\ OnePerTick(s)

\* The LegacyClock has subscribed the ticks its listeners wait for.
TableInv ==
  /\ \A l \in table : \E e \in m.scheduledEvents :
       e.owner = "legacy" /\ e.tick = l.due /\ e.kind = l.kind
  /\ \A l \in table : ~l.lost
  /\ \A e \in m.scheduledEvents : e.owner = "legacy" =>
       \E l \in table : l.due = e.tick /\ l.kind = e.kind

ClocksInv ==
  /\ TypeOK
  /\ OscillatorInv(m) /\ MessageForFirst(m)
  /\ ClockInv(m) /\ pending = m.timestamps
  /\ TableInv

HistoryTypes == now \in Nat /\ phase \in Nat /\ trueTick \in Nat /\ trueTime \in Nat

-----------------------------------------------------------------------------
\* The oscillator

\* The state in which all ticks up to now are counted.
Counted(s) == [s EXCEPT !.lastTick = trueTick, !.timeOfLastTick = now - phase]

LEMMA GlobalTimeIs ==
  ASSUME HistoryTypes, NEW s \in Modules, CountsRightly(s), NEW t \in Int
  PROVE  GlobalTime(s, t) = (now - phase) + (t - trueTick) * s.interval
<1>1. /\ s.interval \in Nat /\ s.lastTick \in Nat /\ s.timeOfLastTick \in Nat
  BY ClocksAssumption DEF Modules
<1>. DEFINE a == (trueTick - s.lastTick) * s.interval
            b == (t - trueTick) * s.interval
            c == (t - s.lastTick) * s.interval
<1>2. a \in Int /\ b \in Int /\ c = a + b
  BY <1>1 DEF HistoryTypes
<1>3. s.timeOfLastTick + a + phase = now
  BY DEF CountsRightly, CountsAt
<1>4. GlobalTime(s, t) = s.timeOfLastTick + c
  BY DEF GlobalTime
<1>. HIDE DEF a, c
<1>. SUFFICES s.timeOfLastTick + c = (now - phase) + b
  BY <1>4
<1>. HIDE DEF b
<1>. QED
  BY <1>1, <1>2, <1>3 DEF HistoryTypes

LEMMA UpdateTickCountIs ==
  ASSUME HistoryTypes, NEW s \in Modules, CountsRightly(s)
  PROVE  /\ UpdateTickCount(s) = Counted(s)
         /\ Counted(s) \in Modules /\ CountsRightly(Counted(s))
         /\ \A t \in Int : GlobalTime(Counted(s), t) = GlobalTime(s, t)
<1>. DEFINE n == trueTick - s.lastTick
<1>1. /\ s.interval \in Nat \ {0} /\ s.lastTick \in Nat /\ s.timeOfLastTick \in Nat
      /\ n \in Nat /\ phase \in 0 .. s.interval - 1
  <2>1. /\ s.interval \in Nat \ {0} /\ s.lastTick \in Nat /\ s.timeOfLastTick \in Nat
    BY ClocksAssumption DEF Modules
  <2>2. s.lastTick <= trueTick /\ phase < s.interval
    BY DEF CountsRightly, CountsAt
  <2>. QED
    BY <2>1, <2>2 DEF HistoryTypes
<1>2. n * s.interval \in Nat /\ now - s.timeOfLastTick = n * s.interval + phase
  BY <1>1 DEF CountsRightly, CountsAt, HistoryTypes
<1>3. (n + 1) * s.interval = n * s.interval + s.interval
  BY <1>1
<1>4. (now - s.timeOfLastTick) \div s.interval = n
  <2>. HIDE DEF n
  <2>1. n * s.interval <= now - s.timeOfLastTick /\ now - s.timeOfLastTick < (n + 1) * s.interval
    BY <1>1, <1>2, <1>3
  <2>. QED
    BY <1>1, <2>1, Quotient DEF HistoryTypes
<1>5. CurrentTick(s) = trueTick
  BY <1>1, <1>4 DEF CurrentTick, HistoryTypes
<1>6. GlobalTime(s, trueTick) = now - phase
  <2>1. (trueTick - trueTick) * s.interval = 0
    BY <1>1 DEF HistoryTypes
  <2>. QED
    BY <2>1, GlobalTimeIs DEF HistoryTypes
<1>7. ~(now < s.timeOfLastTick)
  BY <1>1, <1>2 DEF HistoryTypes
<1>8. UpdateTickCount(s) = Counted(s)
  BY <1>5, <1>6, <1>7 DEF UpdateTickCount, Counted
<1>9. now - phase \in Nat
  BY <1>1, <1>2 DEF HistoryTypes
<1>10. Counted(s) \in Modules
  BY <1>9 DEF Counted, Modules, HistoryTypes
<1>11. /\ Counted(s).lastTick = trueTick /\ Counted(s).timeOfLastTick = now - phase
       /\ Counted(s).interval = s.interval
  BY DEF Counted, Modules
<1>12. CountsRightly(Counted(s))
  <2>1. (trueTick - trueTick) * s.interval = 0
    BY <1>1 DEF HistoryTypes
  <2>. QED
    BY <1>1, <1>11, <2>1 DEF CountsRightly, CountsAt, HistoryTypes
<1>13. \A t \in Int : GlobalTime(Counted(s), t) = GlobalTime(s, t)
  BY <1>10, <1>11, <1>12, GlobalTimeIs
<1>. QED
  BY <1>8, <1>10, <1>12, <1>13

\* What is waited for comes now or later, and now only what is of this tick.
LEMMA EventTimes ==
  ASSUME HistoryTypes, NEW s, OscillatorInv(s), NEW e \in s.scheduledEvents
  PROVE  /\ e \in TickEvent /\ e.tick \in Nat /\ e.time \in Nat /\ e.time >= now
         /\ e.time = now => e.tick = trueTick /\ phase = 0
         /\ e.tick = trueTick => e.time = now
         /\ \A f \in s.scheduledEvents : e.tick <= f.tick => e.time <= f.time
<1>1. /\ s \in Modules /\ s.interval \in Nat \ {0} /\ phase < s.interval
      /\ \A f \in s.scheduledEvents : f \in TickEvent /\ f.tick \in Nat /\ f.time \in Nat
  BY ClocksAssumption DEF OscillatorInv, CountsRightly, CountsAt, Modules, TickEvent
<1>2. \A f \in s.scheduledEvents : /\ f.time = (now - phase) + (f.tick - trueTick) * s.interval
                                   /\ f.tick >= trueTick /\ (phase > 0 => f.tick > trueTick)
  BY <1>1, GlobalTimeIs DEF OscillatorInv, EventsAhead
<1>. DEFINE d == s.interval
            P(f) == (f.tick - trueTick) * d
<1>3. ASSUME NEW f \in s.scheduledEvents
      PROVE  /\ P(f) \in Int /\ f.time = (now - phase) + P(f)
             /\ f.tick = trueTick => P(f) = 0
             /\ f.tick > trueTick => P(f) >= d
             /\ \A g \in s.scheduledEvents : f.tick <= g.tick => P(f) <= P(g)
  <2>1. f.tick \in Nat /\ trueTick \in Nat /\ d \in Nat
    BY <1>1 DEF HistoryTypes
  <2>2. f.tick > trueTick => P(f) >= d
    <3>1. f.tick > trueTick => 1 * d <= P(f)
      BY <2>1, TimesMonotone
    <3>. QED
      BY <2>1, <3>1
  <2>3. \A g \in s.scheduledEvents : f.tick <= g.tick => P(f) <= P(g)
    <3>1. \A g \in s.scheduledEvents : g.tick \in Nat
      BY <1>1
    <3>. QED
      BY <2>1, <3>1, TimesMonotone
  <2>4. f.tick = trueTick => P(f) = 0
    BY <2>1
  <2>. QED
    BY <1>2, <2>1, <2>2, <2>3, <2>4
<1>. HIDE DEF P
<1>4. now \in Nat /\ phase \in Nat /\ trueTick \in Nat /\ d \in Nat /\ phase < d
  BY <1>1 DEF HistoryTypes
<1>. HIDE DEF d
<1>5. /\ P(e) \in Int /\ e.time = (now - phase) + P(e)
      /\ e.tick = trueTick => P(e) = 0
      /\ e.tick > trueTick => P(e) >= d
      /\ e.tick >= trueTick /\ (phase > 0 => e.tick > trueTick) /\ e.tick \in Nat
  BY <1>1, <1>2, <1>3
<1>6. e.time >= now /\ (e.time = now => e.tick = trueTick /\ phase = 0)
  BY <1>4, <1>5
<1>7. e.tick = trueTick => e.time = now
  BY <1>4, <1>5
<1>8. ASSUME NEW f \in s.scheduledEvents, e.tick <= f.tick PROVE e.time <= f.time
  <2>1. P(e) <= P(f) /\ P(f) \in Int /\ f.time = (now - phase) + P(f)
    BY <1>3, <1>8
  <2>. QED
    BY <1>4, <1>5, <2>1
<1>. QED
  BY <1>1, <1>6, <1>7, <1>8

\* The first events are of one tick and for one time.
LEMMA FirstEvents ==
  ASSUME HistoryTypes, NEW s, OscillatorInv(s), s.scheduledEvents # {}
  PROVE  /\ FirstTick(s) \in Nat /\ FirstTick(s) >= trueTick
         /\ \E e \in s.scheduledEvents : e.tick = FirstTick(s)
         /\ \A e \in s.scheduledEvents : FirstTick(s) <= e.tick
         /\ Min({e.time : e \in FrontEvents(s)}) = GlobalTime(s, FirstTick(s))
         /\ GlobalTime(s, FirstTick(s)) \in Nat /\ GlobalTime(s, FirstTick(s)) >= now
<1>. DEFINE T == {e.tick : e \in s.scheduledEvents}
            U == {e.time : e \in FrontEvents(s)}
<1>1. T \subseteq Nat /\ T # {}
  BY EventTimes
<1>2. /\ FirstTick(s) \in Nat
      /\ \E e \in s.scheduledEvents : e.tick = FirstTick(s)
      /\ \A e \in s.scheduledEvents : FirstTick(s) <= e.tick
  BY <1>1, MinIs DEF FirstTick
<1>3. PICK e \in s.scheduledEvents : e.tick = FirstTick(s)
  BY <1>2
<1>4. \A f \in FrontEvents(s) : f.time = GlobalTime(s, FirstTick(s))
  BY DEF FrontEvents, OscillatorInv, EventsAhead
<1>5. e \in FrontEvents(s)
  BY <1>3 DEF FrontEvents
<1>6. U = {GlobalTime(s, FirstTick(s))}
  BY <1>4, <1>5
<1>7. e.time \in Nat /\ e.time >= now /\ e.tick >= trueTick /\ e.time = GlobalTime(s, FirstTick(s))
  BY <1>3, <1>4, <1>5, EventTimes DEF OscillatorInv, EventsAhead
<1>8. Min(U) = GlobalTime(s, FirstTick(s))
  BY <1>6, <1>7, MinIs
<1>. QED
  BY <1>2, <1>3, <1>7, <1>8

\* The clocks' part of the state is the same.
SameClock(t, s) ==
  /\ t.interval = s.interval /\ t.drift = s.drift
  /\ t.localTime = s.localTime /\ t.clockLastTick = s.clockLastTick
  /\ t.timestamps = s.timestamps /\ t.nextTick = s.nextTick

\* The message is scheduled for the first event.
LEMMA ScheduleNextTickIs ==
  ASSUME HistoryTypes, NEW s, OscillatorInv(s)
  PROVE  LET t == ScheduleNextTick(s)
         IN  /\ OscillatorInv(t) /\ MessageForFirst(t) /\ SameClock(t, s)
             /\ t.scheduledEvents = s.scheduledEvents
<1>1. CASE s.scheduledEvents = {}
  <2>. DEFINE t == [s EXCEPT !.tickMessage = Never]
  <2>1. ScheduleNextTick(s) = t
    BY <1>1 DEF ScheduleNextTick
  <2>2. t \in Modules /\ SameClock(t, s) /\ t.scheduledEvents = {} /\ t.tickMessage = Never
        /\ t.lastTick = s.lastTick /\ t.timeOfLastTick = s.timeOfLastTick /\ t.failed = s.failed
    BY <1>1 DEF OscillatorInv, Modules, SameClock
  <2>. HIDE DEF t
  <2>3. CountsRightly(t)
    BY <2>2 DEF OscillatorInv, CountsRightly, CountsAt, SameClock
  <2>. QED
    BY <1>1, <2>1, <2>2, <2>3 DEF OscillatorInv, EventsAhead, MessageForFirst
<1>2. CASE s.scheduledEvents # {}
  <2>. DEFINE time == GlobalTime(s, FirstTick(s))
              t == [Counted(s) EXCEPT !.tickMessage = time]
  <2>1. /\ UpdateTickCount(s) = Counted(s) /\ Counted(s) \in Modules /\ CountsRightly(Counted(s))
        /\ \A n \in Int : GlobalTime(Counted(s), n) = GlobalTime(s, n)
    BY UpdateTickCountIs DEF OscillatorInv
  <2>2. /\ FirstTick(s) \in Nat /\ FirstTick(s) >= trueTick
        /\ Min({e.time : e \in FrontEvents(s)}) = time /\ time \in Nat /\ time >= now
    BY <1>2, FirstEvents
  <2>. HIDE DEF time
  <2>3. Counted(s).lastTick = trueTick
    BY DEF Counted, OscillatorInv, Modules
  <2>4. ScheduleNextTick(s) = t
    BY <1>2, <2>1, <2>2, <2>3 DEF ScheduleNextTick, HistoryTypes
  <2>5. /\ t \in Modules /\ SameClock(t, s) /\ t.scheduledEvents = s.scheduledEvents
        /\ t.failed = s.failed /\ t.tickMessage = time
        /\ t.lastTick = Counted(s).lastTick /\ t.timeOfLastTick = Counted(s).timeOfLastTick
        /\ t.interval = Counted(s).interval
    BY <2>1, <2>2 DEF OscillatorInv, Modules, SameClock, Counted
  <2>. HIDE DEF t
  <2>6. CountsRightly(t)
    BY <2>1, <2>5 DEF CountsRightly, CountsAt
  <2>7. \A n \in Int : GlobalTime(t, n) = GlobalTime(s, n)
    BY <2>1, <2>5 DEF GlobalTime
  <2>8. FirstTick(t) = FirstTick(s)
    BY <2>5 DEF FirstTick
  <2>9. EventsAhead(t)
    <3>. SUFFICES ASSUME NEW e \in s.scheduledEvents
                  PROVE  /\ e.tick >= trueTick /\ (phase > 0 => e.tick > trueTick)
                         /\ e.time = GlobalTime(t, e.tick)
      BY <2>5 DEF EventsAhead
    <3>1. e.tick \in Nat
      BY EventTimes
    <3>. QED
      BY <2>7, <3>1 DEF OscillatorInv, EventsAhead
  <2>10. MessageForFirst(t)
    BY <1>2, <2>2, <2>5, <2>7, <2>8 DEF MessageForFirst, time
  <2>. QED
    BY <2>4, <2>5, <2>6, <2>9, <2>10 DEF OscillatorInv
<1>. QED
  BY <1>1, <1>2

\* The oscillator with other events.
LEMMA OtherEvents ==
  ASSUME NEW s \in Modules, ~s.failed, CountsRightly(s), NEW E, E \subseteq TickEvent,
         \A e \in E : /\ e.tick >= trueTick /\ (phase > 0 => e.tick > trueTick)
                      /\ e.time = GlobalTime(s, e.tick)
  PROVE  LET t == [s EXCEPT !.scheduledEvents = E]
         IN  OscillatorInv(t) /\ SameClock(t, s) /\ t.scheduledEvents = E
<1>. DEFINE t == [s EXCEPT !.scheduledEvents = E]
<1>1. /\ t \in Modules /\ SameClock(t, s) /\ t.scheduledEvents = E /\ t.failed = s.failed
      /\ t.lastTick = s.lastTick /\ t.timeOfLastTick = s.timeOfLastTick /\ t.interval = s.interval
  BY DEF Modules, SameClock
<1>. HIDE DEF t
<1>2. CountsRightly(t)
  BY <1>1 DEF CountsRightly, CountsAt
<1>3. \A n : GlobalTime(t, n) = GlobalTime(s, n)
  BY <1>1 DEF GlobalTime
<1>4. EventsAhead(t)
  BY <1>1, <1>3 DEF EventsAhead
<1>. QED
  BY <1>1, <1>2, <1>4 DEF OscillatorInv, t

\* A tick that is not in the past can be subscribed.
LEMMA SubscribeTickIs ==
  ASSUME HistoryTypes, NEW s, OscillatorInv(s), NEW owner \in {"realtime", "legacy"},
         NEW idleTicks \in Nat, NEW kind \in Kinds \cup {0}, phase > 0 => idleTicks > 0
  PROVE  LET t == SubscribeTick(s, owner, idleTicks, kind)
         IN  /\ OscillatorInv(t) /\ MessageForFirst(t) /\ SameClock(t, s)
             /\ s.scheduledEvents \subseteq t.scheduledEvents
             /\ \E e \in t.scheduledEvents :
                  e.owner = owner /\ e.tick = trueTick + idleTicks /\ e.kind = kind
             /\ \A e \in t.scheduledEvents : e \in s.scheduledEvents \/
                  (e.owner = owner /\ e.tick = trueTick + idleTicks /\ e.kind = kind)
<1>. DEFINE u == Counted(s)
            tick == trueTick + idleTicks
            e == [owner |-> owner, tick |-> tick, kind |-> kind, time |-> GlobalTime(u, tick)]
            E == u.scheduledEvents \cup {e}
            t == SubscribeTick(s, owner, idleTicks, kind)
<1>1. /\ UpdateTickCount(s) = u /\ u \in Modules /\ CountsRightly(u)
      /\ \A n \in Int : GlobalTime(u, n) = GlobalTime(s, n)
  BY UpdateTickCountIs DEF OscillatorInv
<1>2. /\ SameClock(u, s) /\ u.scheduledEvents = s.scheduledEvents /\ u.failed = s.failed
      /\ u.lastTick = trueTick
  BY DEF OscillatorInv, Modules, SameClock, Counted
<1>3. OscillatorInv(u)
  <2>1. EventsAhead(u)
    <3>. SUFFICES ASSUME NEW f \in s.scheduledEvents
                  PROVE  /\ f.tick >= trueTick /\ (phase > 0 => f.tick > trueTick)
                         /\ f.time = GlobalTime(u, f.tick)
      BY <1>2 DEF EventsAhead
    <3>1. f.tick \in Int
      BY EventTimes
    <3>. QED
      BY <1>1, <3>1 DEF OscillatorInv, EventsAhead
  <2>. QED
    BY <1>1, <1>2, <2>1 DEF OscillatorInv
<1>. HIDE DEF u
<1>4. tick \in Nat /\ tick >= trueTick /\ (phase > 0 => tick > trueTick)
  BY DEF HistoryTypes
<1>5. ~(idleTicks < 0)
  OBVIOUS
<1>6. t = IF \E f \in u.scheduledEvents : SameTick(e, f) THEN ScheduleNextTick(u)
          ELSE ScheduleNextTick([u EXCEPT !.scheduledEvents = E])
  BY <1>1, <1>2, <1>5 DEF SubscribeTick
<1>7. CASE \E f \in u.scheduledEvents : SameTick(e, f)
  <2>1. t = ScheduleNextTick(u)
    BY <1>6, <1>7
  <2>2. OscillatorInv(t) /\ MessageForFirst(t) /\ SameClock(t, u)
        /\ t.scheduledEvents = u.scheduledEvents
    BY <1>3, <2>1, ScheduleNextTickIs
  <2>3. PICK f \in u.scheduledEvents : SameTick(e, f)
    BY <1>7
  <2>4. f.owner = owner /\ f.tick = tick /\ f.kind = kind
    BY <2>3 DEF SameTick
  <2>5. SameClock(t, s)
    BY <1>2, <2>2 DEF SameClock
  <2>. HIDE DEF t
  <2>. QED
    BY <1>2, <2>2, <2>3, <2>4, <2>5 DEF t
<1>8. CASE ~ \E f \in u.scheduledEvents : SameTick(e, f)
  <2>. DEFINE v == [u EXCEPT !.scheduledEvents = E]
  <2>1. GlobalTime(u, tick) \in Nat
    <3>1. GlobalTime(u, tick) = (now - phase) + (tick - trueTick) * u.interval
      BY <1>1, <1>4, GlobalTimeIs
    <3>2. u.interval \in Nat /\ phase < u.interval
      BY <1>1, ClocksAssumption DEF Modules, CountsRightly, CountsAt
    <3>3. tick - trueTick \in Nat /\ (phase > 0 => tick - trueTick >= 1)
      BY <1>4 DEF HistoryTypes
    <3>. DEFINE n == (tick - trueTick) * u.interval
    <3>4. n \in Nat
      BY <3>2, <3>3
    <3>5. phase > 0 => n >= u.interval
      <4>1. tick - trueTick >= 1 => 1 * u.interval <= n
        BY <3>2, <3>3, TimesMonotone
      <4>. QED
        BY <3>2, <3>3, <4>1
    <3>6. now >= phase \/ phase > 0
      BY DEF HistoryTypes
    <3>7. GlobalTime(u, tick) = (now - phase) + n
      BY <3>1
    <3>. HIDE DEF n
    <3>. QED
      BY <3>2, <3>4, <3>5, <3>6, <3>7 DEF HistoryTypes
  <2>2. e \in TickEvent
    BY <1>4, <2>1 DEF TickEvent
  <2>3. E \subseteq TickEvent
    BY <1>1, <2>2 DEF Modules
  <2>4. \A f \in E : /\ f.tick >= trueTick /\ (phase > 0 => f.tick > trueTick)
                     /\ f.time = GlobalTime(u, f.tick)
    <3>1. /\ e.tick >= trueTick /\ (phase > 0 => e.tick > trueTick)
          /\ e.time = GlobalTime(u, e.tick)
      BY <1>4
    <3>. QED
      BY <1>3, <3>1 DEF OscillatorInv, EventsAhead
  <2>. HIDE DEF E
  <2>5. OscillatorInv(v) /\ SameClock(v, u) /\ v.scheduledEvents = E
    BY <1>3, <2>3, <2>4, OtherEvents DEF OscillatorInv
  <2>6. t = ScheduleNextTick(v)
    BY <1>6, <1>8
  <2>. HIDE DEF v, t
  <2>7. OscillatorInv(t) /\ MessageForFirst(t) /\ SameClock(t, v) /\ t.scheduledEvents = E
    BY <2>5, <2>6, ScheduleNextTickIs
  <2>8. SameClock(t, s)
    BY <1>2, <2>5, <2>7 DEF SameClock
  <2>9. e \in E /\ e.owner = owner /\ e.tick = tick /\ e.kind = kind
    BY DEF E
  <2>10. s.scheduledEvents \subseteq E /\ \A f \in E : f \in s.scheduledEvents \/ f = e
    BY <1>2 DEF E
  <2>. HIDE DEF e
  <2>. QED
    BY <2>7, <2>8, <2>9, <2>10 DEF t
<1>. QED
  BY <1>7, <1>8

\* Events can be taken away.
LEMMA FewerEvents ==
  ASSUME HistoryTypes, NEW s, OscillatorInv(s), NEW E, E \subseteq s.scheduledEvents
  PROVE  LET t == ScheduleNextTick([s EXCEPT !.scheduledEvents = E])
         IN  /\ OscillatorInv(t) /\ MessageForFirst(t) /\ SameClock(t, s)
             /\ t.scheduledEvents = E
<1>. DEFINE v == [s EXCEPT !.scheduledEvents = E]
<1>1. E \subseteq TickEvent
  BY DEF OscillatorInv, Modules
<1>2. OscillatorInv(v) /\ SameClock(v, s) /\ v.scheduledEvents = E
  BY <1>1, OtherEvents DEF OscillatorInv, EventsAhead
<1>. HIDE DEF v
<1>3. LET t == ScheduleNextTick(v)
      IN  /\ OscillatorInv(t) /\ MessageForFirst(t) /\ SameClock(t, v)
          /\ t.scheduledEvents = E
  BY <1>2, ScheduleNextTickIs
<1>. QED
  BY <1>2, <1>3 DEF SameClock, v

LEMMA UnsubscribeTickIs ==
  ASSUME HistoryTypes, NEW s, OscillatorInv(s), NEW owner, NEW tick, NEW kind
  PROVE  LET t == UnsubscribeTick(s, owner, tick, kind)
         IN  /\ OscillatorInv(t) /\ MessageForFirst(t) /\ SameClock(t, s)
             /\ t.scheduledEvents = {e \in s.scheduledEvents :
                                       e.owner # owner \/ e.tick # tick \/ e.kind # kind}
<1>. DEFINE E == {e \in s.scheduledEvents : e.owner # owner \/ e.tick # tick \/ e.kind # kind}
<1>1. UnsubscribeTick(s, owner, tick, kind) = ScheduleNextTick([s EXCEPT !.scheduledEvents = E])
  BY DEF UnsubscribeTick
<1>2. E \subseteq s.scheduledEvents
  OBVIOUS
<1>. HIDE DEF E
<1>3. LET t == ScheduleNextTick([s EXCEPT !.scheduledEvents = E])
      IN  /\ OscillatorInv(t) /\ MessageForFirst(t) /\ SameClock(t, s)
          /\ t.scheduledEvents = E
  BY <1>2, FewerEvents
<1>. QED
  BY <1>1, <1>3 DEF E

\* The message comes for an event of this very tick.
LEMMA PopTickIs ==
  ASSUME HistoryTypes, OscillatorInv(m), MessageForFirst(m), m.tickMessage = now,
         NEW e \in FrontEvents(m)
  PROVE  LET t == PopTick(e)
         IN  /\ OscillatorInv(t) /\ SameClock(t, m)
             /\ t.scheduledEvents = m.scheduledEvents \ {e}
             /\ e.tick = trueTick /\ phase = 0
             /\ e.tick = FirstTick(m)
<1>1. e \in m.scheduledEvents /\ e.tick = FirstTick(m) /\ m.scheduledEvents # {}
  BY DEF FrontEvents
<1>2. e.time = now
  BY <1>1 DEF MessageForFirst, OscillatorInv, EventsAhead
<1>3. e.tick = trueTick /\ phase = 0 /\ e.tick \in Nat
  BY <1>1, <1>2, EventTimes
<1>. DEFINE E == m.scheduledEvents \ {e}
            t == PopTick(e)
<1>4. /\ UpdateTickCount(m) = Counted(m) /\ Counted(m) \in Modules /\ CountsRightly(Counted(m))
      /\ \A n \in Int : GlobalTime(Counted(m), n) = GlobalTime(m, n)
  BY UpdateTickCountIs DEF OscillatorInv
<1>5. /\ m \in Modules /\ m.failed = FALSE /\ m.lastTick \in Nat /\ m.timeOfLastTick \in Nat
      /\ m.lastTick <= trueTick /\ m.interval \in Nat
      /\ m.timeOfLastTick + (trueTick - m.lastTick) * m.interval + phase = now
  BY ClocksAssumption DEF OscillatorInv, Modules, CountsRightly, CountsAt
<1>6. m.timeOfLastTick <= now /\ (m.lastTick = trueTick => m.timeOfLastTick = now)
  <2>. DEFINE n == (trueTick - m.lastTick) * m.interval
  <2>1. n \in Nat /\ (m.lastTick = trueTick => n = 0)
    BY <1>5 DEF HistoryTypes
  <2>2. m.timeOfLastTick + n + phase = now
    BY <1>5
  <2>. HIDE DEF n
  <2>. QED
    BY <1>3, <1>5, <2>1, <2>2 DEF HistoryTypes
<1>7. Max({m.lastTick, e.tick}) = trueTick
  BY <1>3, <1>5, MaxOfTwo
<1>8. (IF m.lastTick < e.tick THEN now ELSE m.timeOfLastTick) = now - phase
  BY <1>3, <1>5, <1>6 DEF HistoryTypes
<1>9. (m.lastTick > e.tick \/ m.timeOfLastTick > now) = FALSE
  BY <1>3, <1>5, <1>6 DEF HistoryTypes
<1>10. t = [[Counted(m) EXCEPT !.tickMessage = Never] EXCEPT !.scheduledEvents = E]
  <2>1. t = [m EXCEPT !.scheduledEvents = E, !.tickMessage = Never, !.timeOfLastTick = now - phase,
                      !.lastTick = trueTick, !.failed = FALSE]
    BY <1>7, <1>8, <1>9 DEF PopTick
  <2>. QED
    BY <1>5, <2>1 DEF Counted, Modules
<1>. DEFINE v == [Counted(m) EXCEPT !.tickMessage = Never]
<1>11. /\ v \in Modules /\ v.failed = FALSE /\ SameClock(v, m)
       /\ v.scheduledEvents = m.scheduledEvents
       /\ v.lastTick = Counted(m).lastTick /\ v.timeOfLastTick = Counted(m).timeOfLastTick
       /\ v.interval = Counted(m).interval
  BY <1>4, <1>5 DEF Modules, Counted, SameClock
<1>. HIDE DEF v
<1>12. CountsRightly(v)
  BY <1>4, <1>11 DEF CountsRightly, CountsAt
<1>13. \A n \in Int : GlobalTime(v, n) = GlobalTime(m, n)
  BY <1>4, <1>11 DEF GlobalTime
<1>14. OscillatorInv(v)
  <2>. SUFFICES ASSUME NEW f \in m.scheduledEvents
                PROVE  /\ f.tick >= trueTick /\ (phase > 0 => f.tick > trueTick)
                       /\ f.time = GlobalTime(v, f.tick)
    BY <1>11, <1>12 DEF OscillatorInv, EventsAhead
  <2>1. f.tick \in Int
    BY EventTimes
  <2>. QED
    BY <1>13, <2>1 DEF OscillatorInv, EventsAhead
<1>15. OscillatorInv(t) /\ SameClock(t, v) /\ t.scheduledEvents = E
  <2>1. E \subseteq TickEvent
    BY <1>5 DEF Modules
  <2>2. \A f \in E : /\ f.tick >= trueTick /\ (phase > 0 => f.tick > trueTick)
                     /\ f.time = GlobalTime(v, f.tick)
    BY <1>11, <1>14 DEF OscillatorInv, EventsAhead
  <2>. HIDE DEF E, t
  <2>3. t = [v EXCEPT !.scheduledEvents = E]
    BY <1>10 DEF v
  <2>. QED
    BY <1>14, <2>1, <2>2, <2>3, OtherEvents DEF OscillatorInv
<1>. HIDE DEF t, E
<1>16. SameClock(t, m)
  BY <1>11, <1>15 DEF SameClock
<1>. QED
  BY <1>1, <1>3, <1>15, <1>16 DEF t, E

-----------------------------------------------------------------------------
\* The RealtimeClock

LEMMA IncIs ==
  ASSUME NEW s \in Modules
  PROVE  Inc(s) \in Nat \ {0}
<1>1. s.interval \in Intervals /\ s.drift \in Drifts
  BY DEF Modules
<1>2. s.interval + s.drift > 0 /\ s.interval \in Nat /\ s.drift \in Int
  BY <1>1, ClocksAssumption
<1>. QED
  BY <1>2 DEF Inc

LEMMA UpdateLocalTimeIs ==
  ASSUME HistoryTypes, NEW s, OscillatorInv(s), ClockCountsRightly(s)
  PROVE  LET u == UpdateLocalTime(s)
         IN  /\ OscillatorInv(u) /\ ClockCountsRightly(u)
             /\ MessageForFirst(s) => MessageForFirst(u)
             /\ u.localTime = trueTime /\ u.lastTick = trueTick
             /\ u.interval = s.interval /\ u.drift = s.drift
             /\ u.timestamps = s.timestamps /\ u.nextTick = s.nextTick
             /\ u.scheduledEvents = s.scheduledEvents
<1>. DEFINE c == Counted(s)
            u == [c EXCEPT !.localTime = trueTime, !.clockLastTick = trueTick]
<1>1. /\ UpdateTickCount(s) = c /\ c \in Modules /\ CountsRightly(c)
      /\ \A n \in Int : GlobalTime(c, n) = GlobalTime(s, n)
  BY UpdateTickCountIs DEF OscillatorInv
<1>2. /\ SameClock(c, s) /\ c.scheduledEvents = s.scheduledEvents /\ c.failed = s.failed
      /\ c.lastTick = trueTick /\ c.tickMessage = s.tickMessage
  BY DEF OscillatorInv, Modules, SameClock, Counted
<1>. HIDE DEF c
<1>3. c.localTime + (c.lastTick - c.clockLastTick) * Inc(c) = trueTime
  BY <1>2 DEF SameClock, Inc, ClockCountsRightly, ShowsAt
<1>4. UpdateLocalTime(s) = u
  BY <1>1, <1>2, <1>3 DEF UpdateLocalTime
<1>5. /\ u \in Modules /\ u.localTime = trueTime /\ u.clockLastTick = trueTick
      /\ u.lastTick = trueTick /\ u.timeOfLastTick = c.timeOfLastTick
      /\ u.interval = s.interval /\ u.drift = s.drift /\ u.failed = s.failed
      /\ u.timestamps = s.timestamps /\ u.nextTick = s.nextTick
      /\ u.scheduledEvents = s.scheduledEvents /\ u.tickMessage = s.tickMessage
      /\ c.interval = s.interval
  BY <1>1, <1>2 DEF Modules, HistoryTypes, SameClock
<1>. HIDE DEF u
<1>6. CountsRightly(u)
  BY <1>1, <1>2, <1>5 DEF CountsRightly, CountsAt
<1>7. \A n \in Int : GlobalTime(u, n) = GlobalTime(s, n)
  BY <1>1, <1>2, <1>5 DEF GlobalTime
<1>8. EventsAhead(u)
  <2>. SUFFICES ASSUME NEW f \in s.scheduledEvents
                PROVE  /\ f.tick >= trueTick /\ (phase > 0 => f.tick > trueTick)
                       /\ f.time = GlobalTime(u, f.tick)
    BY <1>5 DEF EventsAhead
  <2>1. f.tick \in Int
    BY EventTimes
  <2>. QED
    BY <1>7, <2>1 DEF OscillatorInv, EventsAhead
<1>9. OscillatorInv(u)
  BY <1>5, <1>6, <1>8 DEF OscillatorInv
<1>10. ClockCountsRightly(u)
  <2>1. (trueTick - trueTick) * Inc(u) = 0
    BY <1>5, IncIs DEF HistoryTypes
  <2>. QED
    BY <1>5, <2>1 DEF ClockCountsRightly, ShowsAt, HistoryTypes
<1>11. ASSUME MessageForFirst(s) PROVE MessageForFirst(u)
  <2>1. FirstTick(u) = FirstTick(s)
    BY <1>5 DEF FirstTick
  <2>2. ASSUME s.scheduledEvents # {} PROVE FirstTick(s) \in Int
    <3>1. FirstTick(s) \in Nat
      BY <2>2, FirstEvents
    <3>. QED
      BY <3>1
  <2>. QED
    BY <1>5, <1>7, <1>11, <2>1, <2>2 DEF MessageForFirst
<1>. QED
  BY <1>4, <1>5, <1>9, <1>10, <1>11

\* The number of ticks until the local time reaches a timestamp.
LEMMA TicksUntilIs ==
  ASSUME HistoryTypes, NEW u \in Modules, u.localTime = trueTime,
         NEW due \in Nat, due >= trueTime
  PROVE  LET n == TicksUntil(u, due)
         IN  /\ n \in Nat /\ FirstReaches(u, trueTick + n, due)
             /\ due > trueTime => n > 0
<1>. DEFINE x == due - trueTime
            n == TicksUntil(u, due)
            d == Inc(u)
<1>1. d \in Nat \ {0} /\ x \in Nat
  BY IncIs DEF HistoryTypes
<1>. HIDE DEF d
<1>2. n = -((-x) \div d)
  BY DEF TicksUntil, HistoryTypes, d
<1>. HIDE DEF n, x
<1>3. n \in Int /\ x <= n * d /\ (n - 1) * d < x
  BY <1>1, <1>2, RoundedUp
<1>4. n \in Nat
  <2>1. SUFFICES ASSUME n < 0 PROVE FALSE
    BY <1>3
  <2>2. n * d <= (-1) * d /\ n * d \in Int
    BY <1>1, <1>3, <2>1, TimesMonotone
  <2>. QED
    BY <1>1, <1>3, <2>2
<1>5. x > 0 => n > 0
  <2>1. n = 0 => n * d = 0
    BY <1>1
  <2>. QED
    BY <1>1, <1>3, <1>4, <2>1
<1>6. x = due - trueTime /\ trueTick \in Nat /\ trueTime \in Nat
  BY DEF x, HistoryTypes
<1>7. FirstReaches(u, trueTick + n, due)
  <2>1. (trueTick + n) - trueTick = n /\ (trueTick + n) - 1 - trueTick = n - 1
    BY <1>4, <1>6
  <2>. DEFINE a == n * d  b == (n - 1) * d
  <2>2. a \in Int /\ b \in Int
    BY <1>1, <1>4
  <2>3. x <= a /\ b < x
    BY <1>3
  <2>. HIDE DEF a, b
  <2>4. trueTime + a >= due /\ trueTime + b < due
    BY <1>6, <2>2, <2>3
  <2>. QED
    BY <2>1, <2>4 DEF FirstReaches, a, b, d
<1>. QED
  BY <1>4, <1>5, <1>6, <1>7 DEF n

LEMMA FirstDueIs ==
  ASSUME NEW s \in Modules, s.timestamps # {}
  PROVE  /\ FirstDue(s) \in Nat
         /\ \E p \in s.timestamps : p.due = FirstDue(s)
         /\ \A p \in s.timestamps : FirstDue(s) <= p.due
<1>. DEFINE T == {p.due : p \in s.timestamps}
<1>1. T \subseteq Nat /\ T # {}
  BY DEF Modules, Timestamp
<1>. QED
  BY <1>1, MinIs DEF FirstDue

\* The clock waits for no tick but nextTick.
OneTick(s) ==
  /\ s.nextTick \in Nat \cup {Never}
  /\ \A e \in s.scheduledEvents : e.owner = "realtime" => e.tick = s.nextTick /\ e.kind = 0

\* Both owners are treated apart.
SameForLegacy(t, s) ==
  \A e : e.owner = "legacy" => (e \in t.scheduledEvents <=> e \in s.scheduledEvents)

\* The clock gives its tick back and subscribes the one it needs.
LEMMA ScheduleNextTimestampIs ==
  ASSUME HistoryTypes, NEW s, OscillatorInv(s), ClockCountsRightly(s), OneTick(s),
         \A p \in s.timestamps : p.due >= trueTime /\ (phase > 0 => p.due > trueTime)
  PROVE  LET t == ScheduleNextTimestamp(s)
         IN  /\ OscillatorInv(t) /\ (MessageForFirst(s) => MessageForFirst(t))
             /\ ClockCountsRightly(t) /\ TimestampsAhead(t)
             /\ WaitsForFirst(t) /\ SameForLegacy(t, s)
             /\ t.interval = s.interval /\ t.drift = s.drift /\ t.timestamps = s.timestamps
<1>. DEFINE v == UnsubscribeTick(s, "realtime", s.nextTick, 0)
            w == IF s.nextTick = Never THEN s ELSE [v EXCEPT !.nextTick = Never]
            u == UpdateLocalTime(w)
            n == TicksUntil(u, FirstDue(u))
            x == SubscribeTick(u, "realtime", n, 0)
            t == ScheduleNextTimestamp(s)
<1>1. t = IF w.timestamps = {} THEN w ELSE [x EXCEPT !.nextTick = u.lastTick + n]
  BY DEF ScheduleNextTimestamp
<1>2. /\ OscillatorInv(w) /\ (MessageForFirst(s) => MessageForFirst(w))
      /\ ClockCountsRightly(w) /\ w.nextTick = Never
      /\ w.interval = s.interval /\ w.drift = s.drift /\ w.timestamps = s.timestamps
      /\ w.localTime = s.localTime
      /\ \A e \in w.scheduledEvents : e.owner # "realtime"
      /\ SameForLegacy(w, s)
  <2>1. CASE s.nextTick = Never
    <3>1. \A e \in s.scheduledEvents : e.tick \in Nat
      BY EventTimes
    <3>2. \A e \in s.scheduledEvents : e.owner # "realtime"
      BY <2>1, <3>1 DEF OneTick, Never
    <3>. QED
      BY <2>1, <3>2 DEF SameForLegacy
  <2>2. CASE s.nextTick # Never
    <3>1. /\ OscillatorInv(v) /\ MessageForFirst(v) /\ SameClock(v, s)
          /\ v.scheduledEvents = {e \in s.scheduledEvents :
                  e.owner # "realtime" \/ e.tick # s.nextTick \/ e.kind # 0}
      BY UnsubscribeTickIs
    <3>. HIDE DEF v
    <3>2. w = [v EXCEPT !.nextTick = Never]
      BY <2>2
    <3>3. /\ w \in Modules /\ w.scheduledEvents = v.scheduledEvents /\ w.failed = v.failed
          /\ w.lastTick = v.lastTick /\ w.timeOfLastTick = v.timeOfLastTick
          /\ w.interval = v.interval /\ w.tickMessage = v.tickMessage /\ w.drift = v.drift
          /\ w.localTime = v.localTime /\ w.clockLastTick = v.clockLastTick
          /\ w.timestamps = v.timestamps /\ w.nextTick = Never
      BY <3>1, <3>2 DEF OscillatorInv, Modules
    <3>. HIDE DEF w
    <3>4. \A k : GlobalTime(w, k) = GlobalTime(v, k)
      BY <3>3 DEF GlobalTime
    <3>5. OscillatorInv(w)
      BY <3>1, <3>3, <3>4 DEF OscillatorInv, CountsRightly, CountsAt, EventsAhead
    <3>6. MessageForFirst(w)
      <4>1. FirstTick(w) = FirstTick(v)
        BY <3>3 DEF FirstTick
      <4>. QED
        BY <3>1, <3>3, <3>4, <4>1 DEF MessageForFirst
    <3>7. ClockCountsRightly(w)
      BY <3>1, <3>3 DEF SameClock, ClockCountsRightly, ShowsAt, Inc
    <3>8. \A e \in w.scheduledEvents : e.owner # "realtime"
      BY <3>1, <3>3 DEF OneTick
    <3>9. SameForLegacy(w, s)
      BY <3>1, <3>3 DEF SameForLegacy
    <3>. QED
      BY <3>1, <3>3, <3>5, <3>6, <3>7, <3>8, <3>9 DEF SameClock
  <2>. QED
    BY <2>1, <2>2
<1>. HIDE DEF w, v
<1>3. CASE w.timestamps = {}
  <2>1. t = w
    BY <1>1, <1>3
  <2>2. TimestampsAhead(w) /\ WaitsForFirst(w)
    BY <1>2, <1>3 DEF TimestampsAhead, WaitsForFirst
  <2>. HIDE DEF t
  <2>. QED
    BY <1>2, <2>1, <2>2 DEF t
<1>4. CASE w.timestamps # {}
  <2>1. /\ OscillatorInv(u) /\ ClockCountsRightly(u)
        /\ u.localTime = trueTime /\ u.lastTick = trueTick
        /\ u.interval = w.interval /\ u.drift = w.drift
        /\ u.timestamps = w.timestamps /\ u.nextTick = w.nextTick
        /\ u.scheduledEvents = w.scheduledEvents
    BY <1>2, UpdateLocalTimeIs
  <2>. HIDE DEF u
  <2>2. u \in Modules
    BY <2>1 DEF OscillatorInv
  <2>3. /\ FirstDue(u) \in Nat /\ FirstDue(u) >= trueTime
        /\ phase > 0 => FirstDue(u) > trueTime
        /\ \A p \in u.timestamps : p.due >= trueTime
    BY <1>2, <1>4, <2>1, <2>2, FirstDueIs
  <2>4. /\ n \in Nat /\ FirstReaches(u, trueTick + n, FirstDue(u))
        /\ phase > 0 => n > 0
    BY <2>1, <2>2, <2>3, TicksUntilIs
  <2>. HIDE DEF n
  <2>5. /\ OscillatorInv(x) /\ MessageForFirst(x) /\ SameClock(x, u)
        /\ u.scheduledEvents \subseteq x.scheduledEvents
        /\ \E e \in x.scheduledEvents :
             e.owner = "realtime" /\ e.tick = trueTick + n /\ e.kind = 0
        /\ \A e \in x.scheduledEvents : e \in u.scheduledEvents \/
             (e.owner = "realtime" /\ e.tick = trueTick + n /\ e.kind = 0)
    BY <2>1, <2>4, SubscribeTickIs
  <2>. HIDE DEF x
  <2>6. t = [x EXCEPT !.nextTick = trueTick + n]
    BY <1>1, <1>4, <2>1
  <2>7. /\ t \in Modules /\ t.scheduledEvents = x.scheduledEvents /\ t.failed = x.failed
        /\ t.lastTick = x.lastTick /\ t.timeOfLastTick = x.timeOfLastTick
        /\ t.interval = x.interval /\ t.tickMessage = x.tickMessage /\ t.drift = x.drift
        /\ t.localTime = x.localTime /\ t.clockLastTick = x.clockLastTick
        /\ t.timestamps = x.timestamps /\ t.nextTick = trueTick + n
        /\ trueTick + n \in Nat
    BY <2>4, <2>5, <2>6 DEF OscillatorInv, Modules, HistoryTypes
  <2>. HIDE DEF t
  <2>8. \A k : GlobalTime(t, k) = GlobalTime(x, k)
    BY <2>7 DEF GlobalTime
  <2>9. OscillatorInv(t)
    BY <2>5, <2>7, <2>8 DEF OscillatorInv, CountsRightly, CountsAt, EventsAhead
  <2>10. MessageForFirst(t)
    <3>1. FirstTick(t) = FirstTick(x)
      BY <2>7 DEF FirstTick
    <3>. QED
      BY <2>5, <2>7, <2>8, <3>1 DEF MessageForFirst
  <2>11. Inc(t) = Inc(u) /\ FirstDue(t) = FirstDue(u)
    BY <2>5, <2>7 DEF SameClock, Inc, FirstDue
  <2>12. ClockCountsRightly(t)
    BY <2>1, <2>5, <2>7, <2>11 DEF SameClock, ClockCountsRightly, ShowsAt
  <2>13. TimestampsAhead(t)
    BY <2>1, <2>3, <2>5, <2>7 DEF SameClock, TimestampsAhead
  <2>14. WaitsForFirst(t)
    <3>1. FirstReaches(t, t.nextTick, FirstDue(t))
      BY <2>4, <2>7, <2>11 DEF FirstReaches
    <3>2. t.timestamps # {}
      BY <1>4, <2>1, <2>5, <2>7 DEF SameClock
    <3>3. /\ \E e \in t.scheduledEvents : e.owner = "realtime"
          /\ \A e \in t.scheduledEvents :
               e.owner = "realtime" => e.tick = t.nextTick /\ e.kind = 0
      BY <1>2, <2>1, <2>5, <2>7
    <3>. QED
      BY <2>7, <3>1, <3>2, <3>3 DEF WaitsForFirst
  <2>15. SameForLegacy(t, s)
    BY <1>2, <2>1, <2>5, <2>7 DEF SameForLegacy
  <2>. QED
    BY <1>2, <2>1, <2>5, <2>7, <2>9, <2>10, <2>12, <2>13, <2>14, <2>15 DEF SameClock, t
<1>. QED
  BY <1>3, <1>4

-----------------------------------------------------------------------------
\* Between the calls

\* The same predicates of the next state, at the same instant.
LEMMA SameInstant ==
  ASSUME UNCHANGED <<now, histories>>, TypeOK', OscillatorInv(m'), MessageForFirst(m'),
         ClockInv(m'), pending' = m'.timestamps, TableInv'
  PROVE  ClocksInv'
<1>1. OscillatorInv(m)' /\ MessageForFirst(m)'
  BY DEF OscillatorInv, CountsRightly, CountsAt, EventsAhead, GlobalTime, MessageForFirst, FirstTick,
         histories
<1>2. ClockInv(m)'
  BY DEF ClockInv, ClockCountsRightly, ShowsAt, TimestampsAhead, WaitsForFirst, OnePerTick, FirstReaches,
         FirstDue, TimeReached, Inc, histories
<1>. QED
  BY <1>1, <1>2 DEF ClocksInv

Callable(s) == OscillatorInv(s) /\ ClockCountsRightly(s) /\ OneTick(s)

\* What a method of the clock finds.
LEMMA CalledClock ==
  ASSUME ClocksInv
  PROVE  /\ HistoryTypes /\ Callable(m) /\ m \in Modules
         /\ \A p \in m.timestamps : /\ p \in Timestamp /\ p.due \in Nat
                                    /\ phase > 0 \/ m.nextTick # trueTick => p.due > trueTime
<1>1. HistoryTypes
  BY ClocksAssumption DEF ClocksInv, TypeOK, HistoryTypes
<1>2. m \in Modules
  BY DEF ClocksInv, OscillatorInv
<1>3. Callable(m)
  <2>1. OneTick(m)
    BY DEF ClocksInv, ClockInv, WaitsForFirst, OneTick
  <2>. QED
    BY <2>1 DEF ClocksInv, ClockInv, Callable
<1>4. ASSUME NEW p \in m.timestamps
      PROVE  /\ p \in Timestamp /\ p.due \in Nat
             /\ phase > 0 \/ m.nextTick # trueTick => p.due > trueTime
  <2>1. p \in Timestamp /\ p.due \in Nat
    BY <1>2 DEF Modules, Timestamp
  <2>2. FirstDue(m) \in Nat /\ FirstDue(m) <= p.due
    BY <1>2, FirstDueIs
  <2>3. /\ m.nextTick \in Nat /\ FirstReaches(m, m.nextTick, FirstDue(m))
        /\ \E e \in m.scheduledEvents : e.tick = m.nextTick
    BY DEF ClocksInv, ClockInv, WaitsForFirst
  <2>4. m.nextTick >= trueTick /\ (phase > 0 => m.nextTick > trueTick)
    BY <2>3 DEF ClocksInv, OscillatorInv, EventsAhead
  <2>5. ASSUME m.nextTick > trueTick PROVE p.due > trueTime
    <3>. DEFINE k == m.nextTick - 1 - trueTick
    <3>1. Inc(m) \in Nat /\ k \in Nat
      BY <1>1, <1>2, <2>3, <2>5, IncIs DEF HistoryTypes
    <3>2. trueTime + k * Inc(m) < FirstDue(m)
      BY <2>3, <2>5 DEF FirstReaches
    <3>. HIDE DEF k
    <3>3. k * Inc(m) \in Nat
      BY <3>1
    <3>. QED
      BY <1>1, <2>1, <2>2, <3>2, <3>3 DEF HistoryTypes
  <2>. QED
    BY <1>1, <2>1, <2>3, <2>4, <2>5 DEF HistoryTypes
<1>. QED
  BY <1>1, <1>2, <1>3, <1>4

\* The clock with other timestamps.
LEMMA OtherTimestamps ==
  ASSUME NEW s, Callable(s), NEW T, T \subseteq Timestamp
  PROVE  LET t == [s EXCEPT !.timestamps = T]
         IN  /\ Callable(t) /\ (MessageForFirst(s) => MessageForFirst(t))
             /\ t.timestamps = T /\ t.scheduledEvents = s.scheduledEvents
             /\ t.interval = s.interval /\ t.drift = s.drift /\ t.localTime = s.localTime
<1>. DEFINE t == [s EXCEPT !.timestamps = T]
<1>1. /\ t \in Modules /\ t.timestamps = T /\ t.failed = s.failed
      /\ t.scheduledEvents = s.scheduledEvents /\ t.tickMessage = s.tickMessage
      /\ t.interval = s.interval /\ t.drift = s.drift /\ t.localTime = s.localTime
      /\ t.lastTick = s.lastTick /\ t.timeOfLastTick = s.timeOfLastTick
      /\ t.clockLastTick = s.clockLastTick /\ t.nextTick = s.nextTick
  BY DEF Callable, OscillatorInv, Modules
<1>. HIDE DEF t
<1>2. OscillatorInv(t)
  BY <1>1 DEF Callable, OscillatorInv, CountsRightly, CountsAt, EventsAhead, GlobalTime
<1>3. ClockCountsRightly(t) /\ OneTick(t)
  BY <1>1 DEF Callable, ClockCountsRightly, ShowsAt, Inc, OneTick
<1>4. MessageForFirst(s) => MessageForFirst(t)
  BY <1>1 DEF MessageForFirst, GlobalTime, FirstTick
<1>. QED
  BY <1>1, <1>2, <1>3, <1>4 DEF Callable, t

\* The time has been updated.
LEMMA UpdatedClock ==
  ASSUME HistoryTypes, NEW s, Callable(s)
  PROVE  LET u == UpdateLocalTime(s)
         IN  /\ Callable(u) /\ (MessageForFirst(s) => MessageForFirst(u))
             /\ u.localTime = trueTime
             /\ u.interval = s.interval /\ u.drift = s.drift
             /\ u.timestamps = s.timestamps /\ u.scheduledEvents = s.scheduledEvents
<1>. DEFINE u == UpdateLocalTime(s)
<1>1. /\ OscillatorInv(u) /\ ClockCountsRightly(u)
      /\ MessageForFirst(s) => MessageForFirst(u)
      /\ u.localTime = trueTime
      /\ u.interval = s.interval /\ u.drift = s.drift
      /\ u.timestamps = s.timestamps /\ u.nextTick = s.nextTick
      /\ u.scheduledEvents = s.scheduledEvents
  BY UpdateLocalTimeIs DEF Callable
<1>. HIDE DEF u
<1>. QED
  BY <1>1 DEF Callable, OneTick, u

\* What the clock has told of its timestamps, with fewer of them.
LEMMA FewerPerTick ==
  ASSUME NEW s, NEW t, OnePerTick(s), t.timestamps \subseteq s.timestamps,
         t.interval = s.interval, t.drift = s.drift
  PROVE  OnePerTick(t)
<1>1. \A due : TimeReached(t, due) = TimeReached(s, due)
  BY DEF TimeReached, Inc
<1>. QED
  BY <1>1 DEF OnePerTick

\* What one tick reaches is told before the time is updated.
LEMMA ToldInTime ==
  ASSUME ClocksInv, NEW p \in m.timestamps, p.due <= trueTime, p.due = FirstDue(m),
         NEW q \in m.timestamps \ {p}
  PROVE  q.due >= trueTime
<1>1. /\ HistoryTypes /\ m \in Modules
      /\ p.due \in Nat /\ q.due \in Nat
  BY CalledClock
<1>2. p.due <= q.due
  BY <1>1, FirstDueIs
<1>3. SUFFICES ASSUME q.due < trueTime PROVE FALSE
  BY <1>1 DEF HistoryTypes
<1>4. \A due \in Nat : due <= trueTime => TimeReached(m, due) = trueTime
  <2>1. Inc(m) \in Nat
    BY <1>1, IncIs
  <2>2. trueTime + 0 * Inc(m) = trueTime
    BY <1>1, <2>1 DEF HistoryTypes
  <2>. QED
    BY <1>1, <2>2 DEF TimeReached, HistoryTypes
<1>5. TimeReached(m, p.due) = trueTime /\ TimeReached(m, q.due) = trueTime
  BY <1>1, <1>3, <1>4 DEF HistoryTypes
<1>6. Max({p.due, q.due}) = trueTime
  BY <1>5 DEF ClocksInv, ClockInv, OnePerTick
<1>. QED
  BY <1>1, <1>2, <1>3, <1>6, MaxOfTwo DEF HistoryTypes

\* When what lies at due is shown, if it is a with the last tick.
Reached(a, due, d) == a + (IF due > a THEN -((a - due) \div d) ELSE 0) * d

\* A time that lies ahead is reached at the same time as it was a tick before.
LEMMA ReachedLater ==
  ASSUME NEW a \in Int, NEW due \in Int, NEW d \in Nat \ {0}, due > a
  PROVE  a + (-((a - due) \div d)) * d
           = (a + d) + (IF due > a + d THEN -(((a + d) - due) \div d) ELSE 0) * d
<1>. DEFINE x == due - a
            c == -((a - due) \div d)
<1>1. x \in Nat \ {0} /\ a - due = -x
  OBVIOUS
<1>. HIDE DEF x
<1>2. c = -((-x) \div d)
  BY <1>1
<1>. HIDE DEF c
<1>3. c \in Int /\ x <= c * d /\ (c - 1) * d < x
  BY <1>1, <1>2, RoundedUp
<1>4. CASE due > a + d
  <2>1. x - d \in Int /\ a + d - due = -(x - d)
    BY <1>1
  <2>2. (c - 1) * d = c * d - d /\ (c - 1 - 1) * d = (c - 1) * d - d /\ c * d \in Int
    BY <1>3
  <2>3. x - d <= (c - 1) * d /\ (c - 1 - 1) * d < x - d
    BY <1>1, <1>3, <2>2
  <2>4. c - 1 = -((-(x - d)) \div d)
    <3>. DEFINE y == x - d  k == c - 1
    <3>1. y \in Int /\ k \in Int /\ y <= k * d /\ (k - 1) * d < y
      BY <1>3, <2>1, <2>3
    <3>. HIDE DEF y, k
    <3>2. k = -((-y) \div d)
      BY <3>1, RoundedUpOnly
    <3>. QED
      BY <3>2 DEF y, k
  <2>5. -(((a + d) - due) \div d) = c - 1
    BY <2>1, <2>4
  <2>6. a + c * d = (a + d) + (c - 1) * d
    BY <2>2
  <2>. QED
    BY <1>4, <2>5, <2>6 DEF c
<1>5. CASE ~(due > a + d)
  <2>1. x <= 1 * d /\ (1 - 1) * d < x
    BY <1>1, <1>5
  <2>2. 1 = -((-x) \div d)
    BY <1>1, <2>1, RoundedUpOnly
  <2>3. a + 1 * d = (a + d) + 0 * d
    OBVIOUS
  <2>. QED
    BY <1>2, <1>5, <2>2, <2>3 DEF c
<1>. QED
  BY <1>4, <1>5

-----------------------------------------------------------------------------
\* The steps

LEMMA ClocksInit == Init => ClocksInv
<1>. SUFFICES ASSUME Init PROVE ClocksInv
  OBVIOUS
<1>1. FirstInterval \in Nat \ {0} /\ FirstInterval \in Intervals /\ 0 \in Drifts
  BY ClocksAssumption
<1>2. m \in Modules /\ m.failed = FALSE /\ m.scheduledEvents = {} /\ m.timestamps = {}
      /\ m.tickMessage = Never /\ m.nextTick = Never /\ m.lastTick = 0 /\ m.timeOfLastTick = 0
      /\ m.localTime = 0 /\ m.clockLastTick = 0 /\ m.interval = FirstInterval
  BY <1>1 DEF Init, Modules
<1>3. TypeOK
  BY <1>2, ClocksAssumption DEF Init, TypeOK
<1>4. (0 - 0) * FirstInterval = 0 /\ (0 - 0) * Inc(m) = 0
  BY <1>1, <1>2, IncIs
<1>5. OscillatorInv(m) /\ MessageForFirst(m)
  BY <1>1, <1>2, <1>4 DEF Init, OscillatorInv, CountsRightly, CountsAt, EventsAhead, MessageForFirst
<1>6. ClockInv(m)
  BY <1>2, <1>4 DEF Init, ClockInv, ClockCountsRightly, ShowsAt, TimestampsAhead, WaitsForFirst, OnePerTick
<1>. QED
  BY <1>2, <1>3, <1>5, <1>6 DEF ClocksInv, TableInv, Init

\* While no message is due no tick that is waited for is missed.
LEMMA ElapseStep ==
  ASSUME ClocksInv, Elapse
  PROVE  ClocksInv' /\ \A e \in m.scheduledEvents : e.tick > trueTick
<1>1. /\ HistoryTypes /\ Callable(m) /\ m \in Modules /\ OscillatorInv(m)
      /\ m.interval \in Nat \ {0} /\ phase < m.interval
  BY CalledClock, ClocksAssumption DEF Callable, OscillatorInv, Modules, CountsRightly, CountsAt
<1>2. ASSUME NEW e \in m.scheduledEvents PROVE e.tick \in Nat /\ e.tick > trueTick
  <2>1. e.tick \in Nat /\ e.tick >= trueTick
    BY <1>1, EventTimes DEF OscillatorInv, EventsAhead
  <2>2. ASSUME e.tick = trueTick PROVE FALSE
    <3>1. e.time = now
      BY <1>1, <2>2, EventTimes
    <3>2. FirstTick(m) <= e.tick /\ FirstTick(m) >= trueTick /\ FirstTick(m) \in Nat
      BY <1>1, FirstEvents
    <3>3. FirstTick(m) = e.tick
      BY <1>1, <2>2, <3>2 DEF HistoryTypes
    <3>4. m.tickMessage = now
      BY <1>1, <3>1, <3>3 DEF ClocksInv, MessageForFirst, OscillatorInv, EventsAhead
    <3>. QED
      BY <3>4 DEF Elapse
  <2>. QED
    BY <1>1, <2>1, <2>2 DEF HistoryTypes
<1>3. now' = now + 1 /\ now' \in 0 .. Horizon /\ m' = m /\ table' = table /\ pending' = pending
      /\ changes' = changes
  BY ClocksAssumption DEF Elapse, ClocksInv, TypeOK
<1>4. \A t : GlobalTime(m, t)' = GlobalTime(m, t)
  BY <1>3 DEF GlobalTime
<1>5. MessageForFirst(m)' /\ TableInv' /\ (pending = m.timestamps)' /\ TimestampsAhead(m)'
  BY <1>3, <1>4 DEF ClocksInv, MessageForFirst, FirstTick, TableInv, ClockInv, TimestampsAhead
<1>6. m.timeOfLastTick \in Nat /\ m.lastTick \in Nat /\ m.lastTick <= trueTick
  BY <1>1 DEF OscillatorInv, CountsRightly, CountsAt, Modules
<1>7. m.timeOfLastTick + (trueTick - m.lastTick) * m.interval + phase = now
  BY <1>1 DEF OscillatorInv, CountsRightly, CountsAt
<1>8. CASE phase + 1 < m.interval
  <2>1. phase' = phase + 1 /\ UNCHANGED <<trueTick, trueTime, told, toldTicks>>
    BY <1>8 DEF Elapse
  <2>2. CountsRightly(m)'
    <3>. DEFINE k == (trueTick - m.lastTick) * m.interval
    <3>1. /\ k \in Int /\ m.timeOfLastTick \in Int /\ phase \in Int /\ now \in Int
          /\ m.timeOfLastTick + k + phase = now
      BY <1>1, <1>6, <1>7 DEF HistoryTypes
    <3>. HIDE DEF k
    <3>2. m.timeOfLastTick + k + (phase + 1) = now + 1
      BY <3>1
    <3>3. CountsAt(m, trueTick, phase + 1, now + 1)
      BY <1>6, <1>8, <3>2 DEF CountsAt, k
    <3>. QED
      BY <1>3, <2>1, <3>3 DEF CountsRightly
  <2>3. EventsAhead(m)'
    BY <1>1, <1>2, <1>3, <1>4, <2>1 DEF OscillatorInv, EventsAhead
  <2>4. OscillatorInv(m)'
    BY <1>1, <1>3, <2>2, <2>3 DEF OscillatorInv
  <2>5. ClockInv(m)'
    BY <1>3, <2>1, <1>5 DEF ClocksInv, ClockInv, ClockCountsRightly, ShowsAt, WaitsForFirst, FirstReaches,
       FirstDue, OnePerTick, TimeReached, Inc
  <2>6. TypeOK'
    BY <1>1, <1>3, <2>1 DEF ClocksInv, TypeOK, HistoryTypes
  <2>. QED
    BY <1>2, <1>5, <2>4, <2>5, <2>6 DEF ClocksInv
<1>9. CASE ~(phase + 1 < m.interval)
  <2>1. /\ phase' = 0 /\ trueTick' = trueTick + 1 /\ trueTime' = trueTime + Inc(m)
        /\ told' = {} /\ toldTicks' = {} /\ phase + 1 = m.interval
    BY <1>1, <1>9 DEF Elapse, HistoryTypes
  <2>2. Inc(m) \in Nat \ {0} /\ Inc(m)' = Inc(m)
    BY <1>1, <1>3, IncIs DEF Inc
  <2>3. CountsRightly(m)'
    <3>. DEFINE k == (trueTick - m.lastTick) * m.interval
    <3>1. /\ k \in Int /\ m.timeOfLastTick \in Int /\ phase \in Int /\ now \in Int
          /\ m.interval \in Int /\ m.timeOfLastTick + k + phase = now
      BY <1>1, <1>6, <1>7 DEF HistoryTypes
    <3>2. ((trueTick + 1) - m.lastTick) * m.interval = k + m.interval
      <4>1. (trueTick + 1) - m.lastTick = (trueTick - m.lastTick) + 1 /\ trueTick - m.lastTick \in Int
        BY <1>1, <1>6 DEF HistoryTypes
      <4>. QED
        BY <1>1, <4>1
    <3>. HIDE DEF k
    <3>3. m.timeOfLastTick + (k + m.interval) + 0 = now + 1
      BY <2>1, <3>1
    <3>4. m.timeOfLastTick + ((trueTick + 1) - m.lastTick) * m.interval + 0 = now + 1
      BY <3>2, <3>3
    <3>5. m.lastTick <= trueTick + 1 /\ 0 < m.interval
      BY <1>1, <1>6 DEF HistoryTypes
    <3>6. CountsAt(m, trueTick + 1, 0, now + 1)
      BY <3>4, <3>5 DEF CountsAt
    <3>. QED
      BY <1>3, <2>1, <3>6 DEF CountsRightly
  <2>4. EventsAhead(m)'
    <3>1. \A e \in m.scheduledEvents : e.tick >= trueTick + 1
      BY <1>1, <1>2 DEF HistoryTypes
    <3>. QED
      BY <1>1, <1>3, <1>4, <2>1, <3>1 DEF OscillatorInv, EventsAhead
  <2>5. OscillatorInv(m)'
    BY <1>1, <1>3, <2>3, <2>4 DEF OscillatorInv
  <2>6. ClockCountsRightly(m)'
    <3>. DEFINE k == (trueTick - m.clockLastTick) * Inc(m)
    <3>1. m.clockLastTick \in Nat /\ m.localTime \in Nat
      BY <1>1 DEF Modules
    <3>2. k \in Int /\ ((trueTick + 1) - m.clockLastTick) * Inc(m) = k + Inc(m)
      BY <1>1, <2>2, <3>1 DEF HistoryTypes
    <3>3. m.localTime + k = trueTime
      BY <1>1 DEF Callable, ClockCountsRightly, ShowsAt
    <3>. HIDE DEF k
    <3>4. m.localTime + (k + Inc(m)) = trueTime + Inc(m)
      BY <1>1, <2>2, <3>1, <3>2, <3>3 DEF HistoryTypes
    <3>5. m.localTime + ((trueTick + 1) - m.clockLastTick) * Inc(m) = trueTime + Inc(m)
      BY <3>2, <3>4
    <3>6. ShowsAt(m, trueTick + 1, trueTime + Inc(m))
      BY <3>5 DEF ShowsAt
    <3>. QED
      BY <1>3, <2>1, <3>6 DEF ClockCountsRightly
  <2>7. ASSUME m.timestamps # {}
        PROVE  m.nextTick \in Nat /\ m.nextTick > trueTick
    BY <1>2, <2>7 DEF ClocksInv, ClockInv, WaitsForFirst
  <2>8. WaitsForFirst(m)'
    <3>1. ASSUME m.timestamps # {}
          PROVE  FirstReaches(m, m.nextTick, FirstDue(m))'
      <4>. DEFINE d == Inc(m)
                  k == m.nextTick - trueTick
      <4>1. m.nextTick \in Nat /\ k \in Nat /\ k >= 1
        BY <1>1, <2>7, <3>1 DEF HistoryTypes
      <4>2. trueTime + k * d >= FirstDue(m) /\ trueTime + (m.nextTick - 1 - trueTick) * d < FirstDue(m)
        BY <2>7, <3>1 DEF ClocksInv, ClockInv, WaitsForFirst, FirstReaches
      <4>3. /\ m.nextTick - 1 - trueTick = k - 1 /\ m.nextTick - (trueTick + 1) = k - 1
            /\ m.nextTick - 1 - (trueTick + 1) = k - 2
        BY <1>1, <4>1 DEF HistoryTypes
      <4>4. trueTime + (k - 1) * d < FirstDue(m)
        BY <4>2, <4>3
      <4>. HIDE DEF k, d
      <4>5. d \in Nat
        BY <2>2 DEF d
      <4>6. (k - 1) * d = k * d - d /\ (k - 2) * d = (k - 1) * d - d
            /\ k * d \in Int /\ (k - 1) * d \in Int
        BY <4>1, <4>5
      <4>7. (trueTime + d) + (k - 1) * d = trueTime + k * d
            /\ (trueTime + d) + (k - 2) * d = trueTime + (k - 1) * d
        BY <1>1, <4>5, <4>6 DEF HistoryTypes
      <4>8. FirstDue(m)' = FirstDue(m)
        BY <1>3 DEF FirstDue
      <4>9. /\ (trueTime + d) + (m.nextTick - (trueTick + 1)) * d >= FirstDue(m)
            /\ (trueTime + d) + (m.nextTick - 1 - (trueTick + 1)) * d < FirstDue(m)
        BY <4>2, <4>3, <4>4, <4>7
      <4>. QED
        BY <1>3, <2>1, <2>2, <4>8, <4>9 DEF FirstReaches, d
    <3>. QED
      BY <1>3, <3>1 DEF ClocksInv, ClockInv, WaitsForFirst
  <2>9. OnePerTick(m)'
    <3>1. ASSUME NEW p \in m.timestamps
          PROVE  TimeReached(m, p.due)' = TimeReached(m, p.due)
      <4>1. p.due \in Nat /\ p.due > trueTime
        BY <1>1, <2>7, CalledClock DEF HistoryTypes
      <4>. DEFINE d == Inc(m)
      <4>. HIDE DEF d
      <4>2. d \in Nat \ {0} /\ trueTime \in Int
        BY <1>1, <2>2 DEF d, HistoryTypes
      <4>3. trueTime + (-((trueTime - p.due) \div d)) * d
              = (trueTime + d) + (IF p.due > trueTime + d THEN -(((trueTime + d) - p.due) \div d) ELSE 0) * d
        <5>. DEFINE due == p.due
        <5>1. due \in Int /\ due > trueTime
          BY <4>1
        <5>. HIDE DEF due
        <5>2. trueTime + (-((trueTime - due) \div d)) * d
                = (trueTime + d) + (IF due > trueTime + d THEN -(((trueTime + d) - due) \div d) ELSE 0) * d
          BY <4>2, <5>1, ReachedLater, Zenon
        <5>. QED
          BY <5>2 DEF due
      <4>4. TimeReached(m, p.due) = trueTime + (-((trueTime - p.due) \div d)) * d
        BY <4>1 DEF TimeReached, d
      <4>5. TimeReached(m, p.due)' = Reached(trueTime + d, p.due, d)
        <5>1. TimeReached(m, p.due)' = Reached(trueTime', p.due, Inc(m)')
          BY DEF TimeReached, Reached
        <5>2. trueTime' = trueTime + d /\ Inc(m)' = d
          BY <2>1, <2>2 DEF d
        <5>. QED
          BY <5>1, <5>2
      <4>6. Reached(trueTime + d, p.due, d) = TimeReached(m, p.due)
        BY <4>3, <4>4 DEF Reached
      <4>. QED
        BY <4>5, <4>6
    <3>. QED
      BY <1>3, <3>1 DEF ClocksInv, ClockInv, OnePerTick
  <2>10. TypeOK'
    BY <1>1, <1>3, <2>1, <2>2 DEF ClocksInv, TypeOK, HistoryTypes
  <2>. QED
    BY <1>2, <1>5, <2>5, <2>6, <2>8, <2>9, <2>10 DEF ClocksInv, ClockInv
<1>. QED
  BY <1>8, <1>9
\* What the clock relies on is the same after a call that is not for it.
LEMMA ClockInvKept ==
  ASSUME NEW s, NEW t, ClockInv(s), SameClock(t, s),
         \A e : e.owner = "realtime" => (e \in t.scheduledEvents <=> e \in s.scheduledEvents)
  PROVE  ClockInv(t)
<1>1. Inc(t) = Inc(s) /\ FirstDue(t) = FirstDue(s) /\ t.timestamps = s.timestamps
      /\ t.nextTick = s.nextTick /\ t.localTime = s.localTime /\ t.clockLastTick = s.clockLastTick
  BY DEF SameClock, Inc, FirstDue
<1>2. ClockCountsRightly(t) /\ TimestampsAhead(t)
  BY <1>1 DEF ClockInv, ClockCountsRightly, ShowsAt, TimestampsAhead
<1>3. WaitsForFirst(t)
  <2>1. \A tick, due : FirstReaches(t, tick, due) <=> FirstReaches(s, tick, due)
    BY <1>1 DEF FirstReaches
  <2>. QED
    BY <1>1, <2>1 DEF ClockInv, WaitsForFirst
<1>4. OnePerTick(t)
  BY FewerPerTick DEF ClockInv, SameClock
<1>. QED
  BY <1>2, <1>3, <1>4 DEF ClockInv

\* A call of the RealtimeClock by its users: it has the timestamps T then.
LEMMA CallStep ==
  ASSUME ClocksInv, UNCHANGED <<now, table, histories, told, toldTicks>>, changes' \in 0 .. MaxChanges,
         OnePerTick(m'), pending' = m'.timestamps,
         NEW s, Callable(s), MessageForFirst(s), m' = ScheduleNextTimestamp(s),
         \A p \in s.timestamps : p.due >= trueTime /\ (phase > 0 => p.due > trueTime),
         \A e \in m.scheduledEvents : e.owner = "legacy" =>
            \E f \in s.scheduledEvents : SameTick(e, f),
         \A f \in s.scheduledEvents : f.owner = "legacy" =>
            \E e \in m.scheduledEvents : SameTick(e, f)
  PROVE  ClocksInv'
<1>1. HistoryTypes
  BY CalledClock
<1>2. LET t == ScheduleNextTimestamp(s)
      IN  /\ OscillatorInv(t) /\ (MessageForFirst(s) => MessageForFirst(t))
          /\ ClockCountsRightly(t) /\ TimestampsAhead(t)
          /\ WaitsForFirst(t) /\ SameForLegacy(t, s)
          /\ t.interval = s.interval /\ t.drift = s.drift /\ t.timestamps = s.timestamps
  BY <1>1, ScheduleNextTimestampIs DEF Callable
<1>3. /\ OscillatorInv(m') /\ MessageForFirst(m') /\ SameForLegacy(m', s)
      /\ ClockInv(m')
  BY <1>2 DEF ClockInv
<1>4. TypeOK'
  <2>1. m' \in Modules /\ m'.timestamps \subseteq Timestamp
    BY <1>3 DEF OscillatorInv, Modules
  <2>. QED
    BY <2>1 DEF ClocksInv, TypeOK, histories
<1>5. TableInv'
  <2>1. ASSUME NEW l \in table
        PROVE  \E f \in m'.scheduledEvents : f.owner = "legacy" /\ f.tick = l.due /\ f.kind = l.kind
    <3>1. PICK e \in m.scheduledEvents : e.owner = "legacy" /\ e.tick = l.due /\ e.kind = l.kind
      BY DEF ClocksInv, TableInv
    <3>2. PICK f \in s.scheduledEvents : SameTick(e, f)
      BY <3>1
    <3>. QED
      BY <1>3, <3>1, <3>2 DEF SameForLegacy, SameTick
  <2>2. ASSUME NEW f \in m'.scheduledEvents, f.owner = "legacy"
        PROVE  \E l \in table : l.due = f.tick /\ l.kind = f.kind
    <3>1. f \in s.scheduledEvents
      BY <1>3, <2>2 DEF SameForLegacy
    <3>2. PICK e \in m.scheduledEvents : SameTick(e, f)
      BY <2>2, <3>1
    <3>3. PICK l \in table : l.due = e.tick /\ l.kind = e.kind
      BY <2>2, <3>2 DEF ClocksInv, TableInv, SameTick
    <3>. QED
      BY <3>2, <3>3 DEF SameTick
  <2>3. table' = table
    OBVIOUS
  <2>4. \A l \in table : ~l.lost
    BY DEF ClocksInv, TableInv
  <2>. QED
    BY <2>1, <2>2, <2>3, <2>4 DEF TableInv
<1>. QED
  BY <1>3, <1>4, <1>5, SameInstant

\* Who asks or cancels.
LEMMA SubscribeDeltaStep ==
  ASSUME ClocksInv, NEW l \in Listeners, NEW d \in Deltas,
         NotForThePast(d), SubscribeDelta(l, d), Careful
  PROVE  /\ ClocksInv'
         /\ pending' = pending \cup {[listener |-> l, due |-> trueTime + d]}
         /\ trueTime + d >= trueTime
<1>. DEFINE u == UpdateLocalTime(m)
            p == [listener |-> l, due |-> trueTime + d]
            s == [u EXCEPT !.timestamps = @ \cup {p}]
<1>1. /\ HistoryTypes /\ Callable(m) /\ m \in Modules /\ MessageForFirst(m)
      /\ \A q \in m.timestamps : q \in Timestamp /\ q.due \in Nat /\ (phase > 0 => q.due > trueTime)
  BY CalledClock DEF ClocksInv
<1>2. /\ Callable(u) /\ MessageForFirst(u) /\ u.localTime = trueTime
      /\ u.timestamps = m.timestamps /\ u.scheduledEvents = m.scheduledEvents
  BY <1>1, UpdatedClock
<1>3. d \in Nat /\ (phase > 0 => d > 0)
  BY <1>1, ClocksAssumption DEF NotForThePast
<1>4. p \in Timestamp /\ p.due = trueTime + d /\ p.due \in Nat
  BY <1>1, <1>3 DEF Timestamp, HistoryTypes
<1>5. m' = ScheduleNextTimestamp(s)
  BY <1>2 DEF SubscribeDelta, SubscribeTimestamp
<1>. DEFINE T == m.timestamps \cup {p}
<1>6. s = [u EXCEPT !.timestamps = T] /\ T \subseteq Timestamp
  BY <1>1, <1>2, <1>4
<1>. HIDE DEF s, u
<1>7. Callable(s) /\ MessageForFirst(s) /\ s.timestamps = T /\ s.scheduledEvents = m.scheduledEvents
  BY <1>2, <1>6, OtherTimestamps
<1>8. \A q \in T : q.due >= trueTime /\ (phase > 0 => q.due > trueTime)
  <2>1. p.due >= trueTime /\ (phase > 0 => p.due > trueTime)
    BY <1>1, <1>3, <1>4 DEF HistoryTypes
  <2>. QED
    BY <1>1, <2>1 DEF Careful, NoneIsLate
<1>9. pending' = T
  BY DEF SubscribeDelta, ClocksInv
<1>10. m'.timestamps = T
  <2>1. LET t == ScheduleNextTimestamp(s) IN t.timestamps = s.timestamps
    BY <1>1, <1>7, <1>8, ScheduleNextTimestampIs DEF Callable
  <2>. QED
    BY <1>5, <1>7, <2>1
<1>11. ClocksInv'
  <2>1. UNCHANGED <<now, table, histories, told, toldTicks>> /\ changes' \in 0 .. MaxChanges
    BY DEF SubscribeDelta, CallClock, ClocksInv, TypeOK
  <2>. HIDE DEF T
  <2>. QED
    BY <1>5, <1>7, <1>8, <1>9, <1>10, <2>1, CallStep DEF Careful, SameTick
<1>. QED
  BY <1>1, <1>3, <1>9, <1>11 DEF ClocksInv, HistoryTypes
LEMMA UnsubscribeStep ==
  ASSUME ClocksInv, NEW p \in pending, Unsubscribe(p), Careful
  PROVE  ClocksInv' /\ pending' = pending \ {p}
<1>. DEFINE T == m.timestamps \ {p}
            s == [m EXCEPT !.timestamps = T]
<1>1. /\ HistoryTypes /\ Callable(m) /\ m \in Modules /\ MessageForFirst(m)
      /\ \A q \in m.timestamps : q \in Timestamp /\ q.due \in Nat /\ (phase > 0 => q.due > trueTime)
  BY CalledClock DEF ClocksInv
<1>2. m' = ScheduleNextTimestamp(s) /\ T \subseteq Timestamp
  BY <1>1 DEF Unsubscribe, UnsubscribeTimestamp
<1>. HIDE DEF s
<1>3. Callable(s) /\ MessageForFirst(s) /\ s.timestamps = T /\ s.scheduledEvents = m.scheduledEvents
  BY <1>1, <1>2, OtherTimestamps DEF s
<1>4. \A q \in T : q.due >= trueTime /\ (phase > 0 => q.due > trueTime)
  BY <1>1 DEF Careful, NoneIsLate
<1>5. pending' = T
  BY DEF Unsubscribe, ClocksInv
<1>6. m'.timestamps = T
  <2>1. LET t == ScheduleNextTimestamp(s) IN t.timestamps = s.timestamps
    BY <1>1, <1>3, <1>4, ScheduleNextTimestampIs DEF Callable
  <2>. QED
    BY <1>2, <1>3, <2>1
<1>7. UNCHANGED <<now, table, histories, told, toldTicks>> /\ changes' \in 0 .. MaxChanges
  BY DEF Unsubscribe, CallClock, ClocksInv, TypeOK
<1>8. pending' = pending \ {p}
  BY DEF Unsubscribe
<1>. HIDE DEF T
<1>. QED
  BY <1>2, <1>3, <1>4, <1>5, <1>6, <1>7, <1>8, CallStep DEF Careful, SameTick

\* The rate changes when all ticks are counted: nothing of the past is counted anew.
LEMMA SetDriftRateStep ==
  ASSUME ClocksInv, NEW d \in Drifts, SetDriftRate(d), Careful, AllTicksAreCounted
  PROVE  ClocksInv'
<1>. DEFINE s == [m EXCEPT !.drift = d]
<1>1. /\ HistoryTypes /\ Callable(m) /\ m \in Modules /\ MessageForFirst(m)
      /\ \A q \in m.timestamps : q \in Timestamp /\ q.due \in Nat /\ (phase > 0 => q.due > trueTime)
  BY CalledClock DEF ClocksInv
<1>2. m' = ScheduleNextTimestamp(s)
  BY DEF SetDriftRate, ChangeDrift
<1>3. /\ s \in Modules /\ s.timestamps = m.timestamps /\ s.failed = m.failed
      /\ s.scheduledEvents = m.scheduledEvents /\ s.tickMessage = m.tickMessage
      /\ s.interval = m.interval /\ s.localTime = m.localTime
      /\ s.lastTick = m.lastTick /\ s.timeOfLastTick = m.timeOfLastTick
      /\ s.clockLastTick = m.clockLastTick /\ s.nextTick = m.nextTick
  BY <1>1 DEF Modules
<1>. HIDE DEF s
<1>4. OscillatorInv(s)
  BY <1>1, <1>3 DEF Callable, OscillatorInv, CountsRightly, CountsAt, EventsAhead, GlobalTime
<1>5. OneTick(s) /\ MessageForFirst(s)
  BY <1>1, <1>3 DEF Callable, OneTick, MessageForFirst, GlobalTime, FirstTick
<1>6. ClockCountsRightly(s)
  <2>1. m.localTime = trueTime
    <3>1. (trueTick - trueTick) * Inc(m) = 0 /\ m.localTime \in Nat
      BY <1>1, IncIs DEF HistoryTypes, Modules
    <3>2. m.localTime + (trueTick - trueTick) * Inc(m) = trueTime
      BY <1>1 DEF Callable, ClockCountsRightly, ShowsAt, AllTicksAreCounted
    <3>. QED
      BY <1>1, <3>1, <3>2 DEF HistoryTypes
  <2>2. (trueTick - trueTick) * Inc(s) = 0
    BY <1>1, <1>3, IncIs DEF HistoryTypes
  <2>3. trueTime + (trueTick - trueTick) * Inc(s) = trueTime
    BY <1>1, <2>2 DEF HistoryTypes
  <2>. QED
    BY <1>3, <2>1, <2>3 DEF ClockCountsRightly, ShowsAt, AllTicksAreCounted
<1>7. \A q \in s.timestamps : q.due >= trueTime /\ (phase > 0 => q.due > trueTime)
  BY <1>1, <1>3 DEF Careful, NoneIsLate
<1>8. pending' = m'.timestamps
  <2>1. LET t == ScheduleNextTimestamp(s) IN t.timestamps = s.timestamps
    BY <1>1, <1>4, <1>5, <1>6, <1>7, ScheduleNextTimestampIs
  <2>. QED
    BY <1>2, <1>3, <2>1 DEF SetDriftRate, ClocksInv
<1>9. UNCHANGED <<now, table, histories, told, toldTicks>> /\ changes' \in 0 .. MaxChanges
  <2>1. changes \in Nat /\ MaxChanges \in Nat /\ changes < MaxChanges /\ changes' = changes + 1
    BY ClocksAssumption DEF SetDriftRate, ClocksInv, TypeOK
  <2>. QED
    BY <2>1 DEF SetDriftRate, CallClock
<1>10. Callable(s)
  BY <1>4, <1>5, <1>6 DEF Callable
<1>. QED
  BY <1>2, <1>3, <1>5, <1>7, <1>8, <1>9, <1>10, CallStep DEF Careful, SameTick
\* The ticks that are awaited keep their numbers and get new times.
LEMMA SetFrequencyStep ==
  ASSUME ClocksInv, NEW i \in Intervals, SetFrequency(i), Careful, AllTicksAreCounted
  PROVE  ClocksInv'
<1>. DEFINE r == [m EXCEPT !.interval = i]
            u == UpdateTickCount(r)
            moved(e) == [e EXCEPT !.time = GlobalTime(u, e.tick)]
            E == {moved(e) : e \in m.scheduledEvents}
            v == [u EXCEPT !.scheduledEvents = E]
            s == ScheduleNextTick(v)
<1>1. /\ HistoryTypes /\ Callable(m) /\ m \in Modules /\ OscillatorInv(m)
      /\ \A q \in m.timestamps : q \in Timestamp /\ q.due \in Nat /\ (phase > 0 => q.due > trueTime)
      /\ i \in Nat \ {0} /\ phase = 0 /\ m.lastTick = trueTick /\ m.clockLastTick = trueTick
  BY CalledClock, ClocksAssumption DEF Callable, AllTicksAreCounted
<1>2. /\ r \in Modules /\ r.interval = i /\ r.lastTick = trueTick /\ r.failed = m.failed
      /\ r.timeOfLastTick = m.timeOfLastTick /\ r.scheduledEvents = m.scheduledEvents
      /\ r.timestamps = m.timestamps /\ r.drift = m.drift /\ r.nextTick = m.nextTick
      /\ r.localTime = m.localTime /\ r.clockLastTick = trueTick
  BY <1>1 DEF Modules
<1>. HIDE DEF r
<1>3. CountsRightly(r)
  <2>1. m.timeOfLastTick + (trueTick - trueTick) * m.interval + phase = now
    BY <1>1 DEF OscillatorInv, CountsRightly, CountsAt
  <2>2. (trueTick - trueTick) * m.interval = 0 /\ (trueTick - trueTick) * i = 0
    <3>1. m.interval \in Intervals
      BY <1>1 DEF Modules
    <3>2. m.interval \in Nat /\ i \in Nat /\ trueTick \in Nat
      BY <1>1, <3>1, ClocksAssumption DEF HistoryTypes
    <3>. QED
      BY <3>2
  <2>3. m.timeOfLastTick + (trueTick - trueTick) * i + phase = now
    BY <2>1, <2>2
  <2>. QED
    BY <1>1, <1>2, <2>3 DEF CountsRightly, CountsAt, HistoryTypes
<1>4. /\ u = Counted(r) /\ u \in Modules /\ CountsRightly(u)
  BY <1>1, <1>2, <1>3, UpdateTickCountIs
<1>5. /\ u.lastTick = trueTick /\ u.scheduledEvents = m.scheduledEvents /\ SameClock(u, r)
      /\ u.failed = FALSE /\ u.interval = i
  BY <1>1, <1>2, <1>4 DEF Counted, Modules, SameClock, OscillatorInv
<1>6. \A e \in m.scheduledEvents : e \in TickEvent /\ e.tick \in Nat /\ e.tick >= trueTick
  BY <1>1, EventTimes DEF OscillatorInv, EventsAhead
<1>7. ~ \E e \in r.scheduledEvents : e.tick < u.lastTick
  BY <1>1, <1>2, <1>5, <1>6 DEF HistoryTypes
<1>8. ChangeFrequency(m, i) = s
  <2>1. v = [u EXCEPT !.scheduledEvents = {[e EXCEPT !.time = GlobalTime(u, e.tick)] : e \in @}]
    BY <1>4, <1>5 DEF Modules
  <2>. HIDE DEF v, u
  <2>. QED
    BY <1>2, <1>7, <2>1 DEF ChangeFrequency, r, u
<1>. HIDE DEF u
<1>9. ASSUME NEW e \in m.scheduledEvents
      PROVE  /\ moved(e) \in TickEvent /\ moved(e).owner = e.owner /\ moved(e).tick = e.tick
             /\ moved(e).kind = e.kind /\ moved(e).time = GlobalTime(u, e.tick)
  <2>1. GlobalTime(u, e.tick) = (now - phase) + (e.tick - trueTick) * i
    BY <1>1, <1>4, <1>5, <1>6, GlobalTimeIs
  <2>2. (e.tick - trueTick) * i \in Nat /\ now - phase \in Nat
    <3>1. e.tick - trueTick \in Nat /\ now - phase \in Nat
      BY <1>1, <1>6 DEF HistoryTypes
    <3>. QED
      BY <1>1, <3>1
  <2>3. GlobalTime(u, e.tick) \in Nat
    BY <2>1, <2>2
  <2>. QED
    BY <1>6, <2>3 DEF TickEvent
<1>. HIDE DEF moved
<1>10. /\ E \subseteq TickEvent
       /\ \A f \in E : /\ f.tick >= trueTick /\ (phase > 0 => f.tick > trueTick)
                       /\ f.time = GlobalTime(u, f.tick)
  BY <1>1, <1>6, <1>9
<1>11. /\ \A e \in m.scheduledEvents : \E f \in E : SameTick(e, f)
       /\ \A f \in E : \E e \in m.scheduledEvents : SameTick(e, f)
       /\ \A f \in E : f.owner = "realtime" => f.tick = m.nextTick /\ f.kind = 0
  <2>1. \A e \in m.scheduledEvents : moved(e) \in E /\ SameTick(e, moved(e))
    BY <1>9 DEF SameTick
  <2>2. \A f \in E : \E e \in m.scheduledEvents : SameTick(e, f)
    BY <2>1
  <2>. QED
    BY <1>1, <2>1, <2>2 DEF Callable, OneTick, SameTick
<1>. HIDE DEF E
<1>12. OscillatorInv(v) /\ SameClock(v, u) /\ v.scheduledEvents = E
  BY <1>4, <1>5, <1>10, OtherEvents
<1>. HIDE DEF v
<1>13. OscillatorInv(s) /\ MessageForFirst(s) /\ SameClock(s, v) /\ s.scheduledEvents = E
  BY <1>1, <1>12, ScheduleNextTickIs
<1>. HIDE DEF s
<1>14. SameClock(s, r)
  BY <1>5, <1>12, <1>13 DEF SameClock
<1>15. ClockCountsRightly(s)
  <2>1. m.localTime = trueTime
    <3>1. (trueTick - trueTick) * Inc(m) = 0 /\ m.localTime \in Nat
      BY <1>1, IncIs DEF HistoryTypes, Modules
    <3>2. m.localTime + (trueTick - trueTick) * Inc(m) = trueTime
      BY <1>1 DEF Callable, ClockCountsRightly, ShowsAt
    <3>. QED
      BY <1>1, <3>1, <3>2 DEF HistoryTypes
  <2>2. (trueTick - trueTick) * Inc(s) = 0
    BY <1>1, <1>13, IncIs DEF HistoryTypes, OscillatorInv
  <2>3. trueTime + (trueTick - trueTick) * Inc(s) = trueTime
    BY <1>1, <2>2 DEF HistoryTypes
  <2>. QED
    BY <1>2, <1>14, <2>1, <2>3 DEF ClockCountsRightly, ShowsAt, SameClock
<1>16. Callable(s)
  <2>1. OneTick(s)
    BY <1>1, <1>2, <1>11, <1>13, <1>14 DEF Callable, OneTick, SameClock
  <2>. QED
    BY <1>13, <1>15, <2>1 DEF Callable
<1>17. m' = ScheduleNextTimestamp(s)
  BY <1>8 DEF SetFrequency
<1>18. s.timestamps = m.timestamps
  BY <1>2, <1>14 DEF SameClock
<1>19. \A q \in s.timestamps : q.due >= trueTime /\ (phase > 0 => q.due > trueTime)
  BY <1>1, <1>18 DEF Careful, NoneIsLate
<1>20. pending' = m'.timestamps
  <2>1. LET t == ScheduleNextTimestamp(s) IN t.timestamps = s.timestamps
    BY <1>1, <1>16, <1>19, ScheduleNextTimestampIs DEF Callable
  <2>. QED
    BY <1>17, <1>18, <2>1 DEF SetFrequency, ClocksInv
<1>21. UNCHANGED <<now, table, histories, told, toldTicks>> /\ changes' \in 0 .. MaxChanges
  <2>1. changes \in Nat /\ MaxChanges \in Nat /\ changes < MaxChanges /\ changes' = changes + 1
    BY ClocksAssumption DEF SetFrequency, ClocksInv, TypeOK
  <2>. QED
    BY <2>1 DEF SetFrequency, CallClock
<1>. QED
  BY <1>11, <1>13, <1>16, <1>17, <1>19, <1>20, <1>21, CallStep DEF Careful
\* The LegacyClock and its users.
LEMMA LegacyCallStep ==
  ASSUME ClocksInv, UNCHANGED <<now, changes, histories, pending, told>>,
         OscillatorInv(m'), MessageForFirst(m'), SameClock(m', m),
         \A e : e.owner = "realtime" => (e \in m'.scheduledEvents <=> e \in m.scheduledEvents),
         TableInv',
         table' \subseteq Waiting,
         toldTicks' \subseteq Waiting
  PROVE  ClocksInv'
<1>1. ClockInv(m')
  BY ClockInvKept DEF ClocksInv
<1>2. TypeOK'
  BY DEF ClocksInv, TypeOK, OscillatorInv, histories
<1>3. pending' = m'.timestamps
  BY DEF ClocksInv, SameClock
<1>. QED
  BY <1>1, <1>2, <1>3, SameInstant

LEMMA SubscribeLegacyStep ==
  ASSUME ClocksInv, NEW l \in LegacyListeners, NEW n \in IdleTicks, NEW k \in Kinds,
         NotForThePast(n), SubscribeLegacy(l, n, k)
  PROVE  /\ ClocksInv'
         /\ table' = table \cup {[listener |-> l, kind |-> k, due |-> trueTick + n, lost |-> FALSE]}
<1>. DEFINE new == [listener |-> l, kind |-> k, due |-> trueTick + n, lost |-> FALSE]
<1>1. HistoryTypes /\ m \in Modules /\ OscillatorInv(m) /\ n \in Nat /\ (phase > 0 => n > 0)
      /\ k \in Kinds \cup {0}
  BY CalledClock, ClocksAssumption DEF Callable, NotForThePast, HistoryTypes
<1>2. m' = SubscribeTick(m, "legacy", n, k)
  BY DEF SubscribeLegacy
<1>3. /\ OscillatorInv(m') /\ MessageForFirst(m') /\ SameClock(m', m)
      /\ m.scheduledEvents \subseteq m'.scheduledEvents
      /\ \E e \in m'.scheduledEvents : e.owner = "legacy" /\ e.tick = trueTick + n /\ e.kind = k
      /\ \A e \in m'.scheduledEvents : e \in m.scheduledEvents \/
           (e.owner = "legacy" /\ e.tick = trueTick + n /\ e.kind = k)
  BY <1>1, <1>2, SubscribeTickIs
<1>4. table' = table \cup {new}
  <2>1. UpdateTickCount(m).lastTick = trueTick
    BY <1>1, UpdateTickCountIs DEF OscillatorInv, Counted, Modules
  <2>2. table' = table \cup {[listener |-> l, kind |-> k,
                               due |-> UpdateTickCount(m).lastTick + n, lost |-> FALSE]}
    BY DEF SubscribeLegacy
  <2>. QED
    BY <2>1, <2>2
<1>5. TableInv'
  <2>1. \A x \in table' : \E e \in m'.scheduledEvents :
          e.owner = "legacy" /\ e.tick = x.due /\ e.kind = x.kind
    BY <1>3, <1>4 DEF ClocksInv, TableInv
  <2>2. \A e \in m'.scheduledEvents : e.owner = "legacy" =>
          \E x \in table' : x.due = e.tick /\ x.kind = e.kind
    <3>1. new \in table' /\ new.due = trueTick + n /\ new.kind = k /\ table \subseteq table'
      BY <1>4
    <3>. HIDE DEF new
    <3>2. ASSUME NEW e \in m.scheduledEvents, e.owner = "legacy"
          PROVE  \E x \in table' : x.due = e.tick /\ x.kind = e.kind
      BY <3>1, <3>2 DEF ClocksInv, TableInv
    <3>. QED
      BY <1>3, <3>1, <3>2
  <2>3. \A x \in table' : ~x.lost
    BY <1>4 DEF ClocksInv, TableInv
  <2>. QED
    BY <2>1, <2>2, <2>3 DEF TableInv
<1>6. new \in Waiting
  <2>1. trueTick + n \in Nat
    BY <1>1 DEF HistoryTypes
  <2>. QED
    BY <2>1 DEF Waiting
<1>7. \A e : e.owner = "realtime" => (e \in m'.scheduledEvents <=> e \in m.scheduledEvents)
  BY <1>3
<1>8. UNCHANGED <<now, changes, histories, pending, told, toldTicks>>
  BY DEF SubscribeLegacy, CallLegacyClock
<1>9. table' \subseteq Waiting
      /\ toldTicks' \subseteq Waiting
  BY <1>4, <1>6, <1>8 DEF ClocksInv, TypeOK
<1>. QED
  BY <1>3, <1>4, <1>5, <1>7, <1>8, <1>9, LegacyCallStep

LEMMA UnsubscribeLegacyStep ==
  ASSUME ClocksInv, NEW l \in LegacyListeners, UnsubscribeLegacy(l), NobodyShares(l)
  PROVE  ClocksInv' /\ table' = table \ TicksOf(l)
<1>. DEFINE E == {e \in m.scheduledEvents : \A x \in TicksOf(l) :
                    e.owner # "legacy" \/ e.tick # x.due \/ e.kind # x.kind}
<1>1. HistoryTypes /\ OscillatorInv(m)
  BY CalledClock DEF Callable
<1>2. m' = ScheduleNextTick([m EXCEPT !.scheduledEvents = E])
  BY DEF UnsubscribeLegacy
<1>3. E \subseteq m.scheduledEvents
  OBVIOUS
<1>4. /\ OscillatorInv(m') /\ MessageForFirst(m') /\ SameClock(m', m)
      /\ m'.scheduledEvents = E
  <2>. HIDE DEF E
  <2>. QED
    BY <1>1, <1>2, <1>3, FewerEvents
<1>5. /\ table' = table \ TicksOf(l)
      /\ \A x \in TicksOf(l), y \in table \ TicksOf(l) : x.due # y.due \/ x.kind # y.kind
  <2>1. \A x \in TicksOf(l), y \in table \ TicksOf(l) : x.due # y.due \/ x.kind # y.kind
    BY DEF NobodyShares, Shares
  <2>2. ASSUME NEW y \in table \ TicksOf(l)
        PROVE  [y EXCEPT !.lost = @ \/ Shares(y, l)] = y
    <3>1. y \in Waiting /\ ~y.lost
      BY DEF ClocksInv, TypeOK, TableInv
    <3>2. ~Shares(y, l)
      BY DEF NobodyShares
    <3>3. y.lost \/ Shares(y, l) <=> y.lost
      BY <3>2
    <3>4. [y EXCEPT !.lost = y.lost \/ Shares(y, l)] = [y EXCEPT !.lost = FALSE]
      BY <3>1, <3>2
    <3>5. y.lost = FALSE
      BY <3>1 DEF Waiting
    <3>. QED
      BY <3>1, <3>4, <3>5 DEF Waiting
  <2>3. table' = {[y EXCEPT !.lost = @ \/ Shares(y, l)] : y \in table \ TicksOf(l)}
    BY DEF UnsubscribeLegacy
  <2>. QED
    BY <2>1, <2>2, <2>3
<1>6. TableInv'
  <2>1. ASSUME NEW y \in table'
        PROVE  \E e \in m'.scheduledEvents : e.owner = "legacy" /\ e.tick = y.due /\ e.kind = y.kind
    <3>1. PICK e \in m.scheduledEvents : e.owner = "legacy" /\ e.tick = y.due /\ e.kind = y.kind
      BY <1>5 DEF ClocksInv, TableInv
    <3>2. e \in E
      BY <1>5, <3>1
    <3>. QED
      BY <1>4, <3>1, <3>2
  <2>2. ASSUME NEW e \in m'.scheduledEvents, e.owner = "legacy"
        PROVE  \E y \in table' : y.due = e.tick /\ y.kind = e.kind
    <3>1. PICK y \in table : y.due = e.tick /\ y.kind = e.kind
      BY <1>4, <2>2 DEF ClocksInv, TableInv
    <3>2. y \notin TicksOf(l)
      BY <1>4, <2>2, <3>1
    <3>. QED
      BY <1>5, <3>1, <3>2
  <2>3. \A x \in table' : ~x.lost
    BY <1>5 DEF ClocksInv, TableInv
  <2>. QED
    BY <2>1, <2>2, <2>3 DEF TableInv
<1>7. \A e : e.owner = "realtime" => (e \in m'.scheduledEvents <=> e \in m.scheduledEvents)
  BY <1>4
<1>8. UNCHANGED <<now, changes, histories, pending, told, toldTicks>>
  BY DEF UnsubscribeLegacy, CallLegacyClock
<1>9. table' \subseteq Waiting
      /\ toldTicks' \subseteq Waiting
  BY <1>5, <1>8 DEF ClocksInv, TypeOK
<1>. QED
  BY <1>4, <1>5, <1>6, <1>7, <1>8, <1>9, LegacyCallStep

\* Everybody who waits for a tick of the LegacyClock is told at that tick.
LEMMA LegacyTickStep ==
  ASSUME ClocksInv, LegacyTick
  PROVE  /\ ClocksInv'
         /\ \E S \in SUBSET table :
              /\ S # {} /\ table' = table \ S /\ toldTicks' = toldTicks \cup S
              /\ \A x \in S : x.due = trueTick
         /\ \A x \in table : x.due >= trueTick
<1>1. HistoryTypes /\ OscillatorInv(m) /\ MessageForFirst(m)
  BY CalledClock DEF Callable, ClocksInv
<1>2. PICK e \in FrontEvents(m) :
        /\ e.owner = "legacy"
        /\ m' = ScheduleNextTick(PopTick(e))
        /\ LET listeners == {x \in table : x.due = e.tick /\ x.kind = e.kind /\ ~x.lost}
           IN  table' = table \ listeners /\ toldTicks' = toldTicks \cup listeners
  BY DEF LegacyTick
<1>3. m.tickMessage = now /\ UNCHANGED <<now, changes, histories, pending, told>>
  BY DEF LegacyTick
<1>. DEFINE S == {x \in table : x.due = e.tick /\ x.kind = e.kind}
<1>17. table' = table \ S /\ toldTicks' = toldTicks \cup S
  <2>1. S = {x \in table : x.due = e.tick /\ x.kind = e.kind /\ ~x.lost}
    BY DEF ClocksInv, TableInv
  <2>. QED
    BY <1>2, <2>1
<1>4. /\ OscillatorInv(PopTick(e)) /\ SameClock(PopTick(e), m)
      /\ PopTick(e).scheduledEvents = m.scheduledEvents \ {e}
      /\ e.tick = trueTick
  BY <1>1, <1>3, PopTickIs
<1>5. /\ OscillatorInv(m') /\ MessageForFirst(m') /\ SameClock(m', PopTick(e))
      /\ m'.scheduledEvents = m.scheduledEvents \ {e}
  BY <1>1, <1>2, <1>4, ScheduleNextTickIs
<1>6. e \in m.scheduledEvents
  BY DEF FrontEvents
<1>7. ASSUME NEW f \in m.scheduledEvents, SameTick(e, f) PROVE f = e
  <2>1. e \in TickEvent /\ f \in TickEvent
    BY <1>1, <1>6, EventTimes
  <2>2. f.time = e.time
    BY <1>1, <1>6, <1>7 DEF OscillatorInv, EventsAhead, SameTick
  <2>. QED
    BY <1>7, <2>1, <2>2 DEF TickEvent, SameTick
<1>8. TableInv'
  <2>1. ASSUME NEW y \in table'
        PROVE  \E f \in m'.scheduledEvents : f.owner = "legacy" /\ f.tick = y.due /\ f.kind = y.kind
    <3>1. PICK f \in m.scheduledEvents : f.owner = "legacy" /\ f.tick = y.due /\ f.kind = y.kind
      BY <1>17 DEF ClocksInv, TableInv
    <3>2. f # e
      BY <1>17, <3>1
    <3>. QED
      BY <1>5, <3>1, <3>2
  <2>2. ASSUME NEW f \in m'.scheduledEvents, f.owner = "legacy"
        PROVE  \E y \in table' : y.due = f.tick /\ y.kind = f.kind
    <3>1. f \in m.scheduledEvents /\ f # e
      BY <1>5
    <3>2. PICK y \in table : y.due = f.tick /\ y.kind = f.kind
      BY <2>2, <3>1 DEF ClocksInv, TableInv
    <3>3. y \notin S
      BY <1>2, <1>7, <2>2, <3>1, <3>2 DEF SameTick
    <3>. QED
      BY <1>17, <3>2, <3>3
  <2>3. \A y \in table' : ~y.lost
    BY <1>17 DEF ClocksInv, TableInv
  <2>. QED
    BY <2>1, <2>2, <2>3 DEF TableInv
<1>9. SameClock(m', m)
  BY <1>4, <1>5 DEF SameClock
<1>10. \A f : f.owner = "realtime" => (f \in m'.scheduledEvents <=> f \in m.scheduledEvents)
  BY <1>2, <1>5
<1>11. table' \subseteq Waiting
       /\ toldTicks' \subseteq Waiting
  BY <1>17 DEF ClocksInv, TypeOK
<1>12. ClocksInv'
  BY <1>3, <1>5, <1>8, <1>9, <1>10, <1>11, LegacyCallStep
<1>13. S # {}
  BY <1>2, <1>6 DEF ClocksInv, TableInv
<1>14. \A x \in table : x.due >= trueTick
  <2>1. \A f \in m.scheduledEvents : f.tick >= trueTick
    BY <1>1 DEF OscillatorInv, EventsAhead
  <2>. QED
    BY <2>1 DEF ClocksInv, TableInv
<1>15. S \in SUBSET table /\ \A x \in S : x.due = trueTick
  BY <1>4
<1>. HIDE DEF S
<1>. QED
  BY <1>12, <1>13, <1>14, <1>15, <1>17
\* The first timestamp is told with the tick that reaches it.
LEMMA RealtimeTickStep ==
  ASSUME ClocksInv, RealtimeTick
  PROVE  /\ ClocksInv'
         /\ \E p \in pending :
              /\ pending' = pending \ {p} /\ told' = told \cup {p}
              /\ p.due <= trueTime /\ \A q \in pending : p.due <= q.due
<1>1. HistoryTypes /\ OscillatorInv(m) /\ MessageForFirst(m) /\ ClockInv(m) /\ m \in Modules
      /\ Callable(m)
  BY CalledClock DEF Callable, ClocksInv
<1>2. m.tickMessage = now /\ UNCHANGED <<now, table, changes, histories, toldTicks>>
  BY DEF RealtimeTick
<1>3. PICK e \in FrontEvents(m) :
        /\ e.owner = "realtime"
        /\ IF m.timestamps = {} THEN m' = Fail(PopTick(e)) /\ UNCHANGED <<pending, told>>
           ELSE \E p \in m.timestamps :
                  /\ p.due = FirstDue(m)
                  /\ m' = ScheduleNextTick(OnRealtimeTick(PopTick(e), p))
                  /\ told' = told \cup {p} /\ pending' = pending \ {p}
  BY DEF RealtimeTick
<1>4. e \in m.scheduledEvents
  BY DEF FrontEvents
<1>5. m.timestamps # {}
  BY <1>1, <1>3, <1>4 DEF ClockInv, WaitsForFirst
<1>6. PICK p \in m.timestamps :
        /\ p.due = FirstDue(m)
        /\ m' = ScheduleNextTick(OnRealtimeTick(PopTick(e), p))
        /\ told' = told \cup {p} /\ pending' = pending \ {p}
  BY <1>3, <1>5
<1>. DEFINE t == PopTick(e)
            T == m.timestamps \ {p}
            s == [t EXCEPT !.timestamps = T]
            u == UpdateLocalTime(s)
            v == ScheduleNextTimestamp(u)
<1>7. /\ OscillatorInv(t) /\ SameClock(t, m)
      /\ t.scheduledEvents = m.scheduledEvents \ {e}
      /\ e.tick = trueTick /\ phase = 0
  BY <1>1, <1>2, PopTickIs
<1>8. /\ \A q \in m.timestamps : q \in Timestamp /\ q.due \in Nat /\ p.due <= q.due
                               /\ q.due >= m.localTime
  BY <1>1, <1>6, CalledClock, FirstDueIs DEF ClockInv, TimestampsAhead
<1>9. p.due <= trueTime
  <2>1. m.nextTick = trueTick
    BY <1>1, <1>3, <1>4, <1>5, <1>7 DEF ClockInv, WaitsForFirst
  <2>2. trueTime + (trueTick - trueTick) * Inc(m) >= p.due
    BY <1>1, <1>5, <1>6, <2>1 DEF ClockInv, WaitsForFirst, FirstReaches
  <2>3. (trueTick - trueTick) * Inc(m) = 0
    BY <1>1, IncIs DEF HistoryTypes
  <2>. QED
    BY <1>1, <1>8, <2>2, <2>3 DEF HistoryTypes
<1>10. OnRealtimeTick(t, p) = v
  <2>1. ~(t.localTime > p.due) /\ t.timestamps = m.timestamps
    <3>1. m.localTime \in Nat
      BY <1>1 DEF Modules
    <3>. QED
      BY <1>7, <1>8, <3>1 DEF SameClock
  <2>. HIDE DEF t
  <2>. QED
    BY <2>1 DEF OnRealtimeTick
<1>11. Callable(t)
  <2>1. ClockCountsRightly(t)
    BY <1>1, <1>7 DEF SameClock, ClockInv, ClockCountsRightly, ShowsAt, Inc
  <2>2. OneTick(t)
    BY <1>1, <1>7 DEF SameClock, Callable, OneTick
  <2>. QED
    BY <1>7, <2>1, <2>2 DEF Callable
<1>. HIDE DEF t
<1>12. /\ Callable(s) /\ s.timestamps = T /\ s.scheduledEvents = t.scheduledEvents
       /\ s.interval = t.interval /\ s.drift = t.drift
  <2>1. T \subseteq Timestamp
    BY <1>8
  <2>. HIDE DEF T
  <2>. QED
    BY <1>11, <2>1, OtherTimestamps
<1>. HIDE DEF s
<1>13. /\ Callable(u) /\ u.timestamps = T /\ u.scheduledEvents = t.scheduledEvents
       /\ u.interval = t.interval /\ u.drift = t.drift
  BY <1>1, <1>12, UpdatedClock
<1>. HIDE DEF u
<1>14. \A q \in T : q.due >= trueTime /\ (phase > 0 => q.due > trueTime)
  BY <1>1, <1>6, <1>7, <1>9, ToldInTime DEF HistoryTypes
<1>15. /\ OscillatorInv(v) /\ ClockCountsRightly(v) /\ TimestampsAhead(v)
       /\ WaitsForFirst(v) /\ SameForLegacy(v, u)
       /\ v.interval = u.interval /\ v.drift = u.drift /\ v.timestamps = T
  <2>. HIDE DEF T
  <2>. QED
    BY <1>1, <1>13, <1>14, ScheduleNextTimestampIs DEF Callable
<1>. HIDE DEF v
<1>16. /\ OscillatorInv(m') /\ MessageForFirst(m') /\ SameClock(m', v)
       /\ m'.scheduledEvents = v.scheduledEvents
  BY <1>1, <1>6, <1>10, <1>15, ScheduleNextTickIs DEF t
<1>17. OnePerTick(v)
  <2>1. v.interval = m.interval /\ v.drift = m.drift
    BY <1>7, <1>13, <1>15 DEF SameClock
  <2>. QED
    BY <1>1, <1>15, <2>1, FewerPerTick DEF ClockInv
<1>18. ClockInv(m')
  BY <1>15, <1>16, <1>17, ClockInvKept DEF ClockInv
<1>19. m'.timestamps = T /\ pending' = T /\ pending = m.timestamps
  BY <1>6, <1>15, <1>16 DEF SameClock, ClocksInv
<1>20. TableInv'
  <2>1. \A f : f.owner = "legacy" => (f \in m'.scheduledEvents <=> f \in m.scheduledEvents)
    BY <1>3, <1>7, <1>13, <1>15, <1>16 DEF SameForLegacy
  <2>. QED
    BY <1>2, <2>1 DEF ClocksInv, TableInv
<1>21. TypeOK'
  <2>1. m' \in Modules /\ pending' \subseteq Timestamp /\ told' \subseteq Timestamp
    BY <1>6, <1>8, <1>16, <1>19 DEF OscillatorInv, ClocksInv, TypeOK
  <2>. QED
    BY <1>2, <2>1 DEF ClocksInv, TypeOK, histories
<1>22. ClocksInv'
  BY <1>2, <1>16, <1>18, <1>19, <1>20, <1>21, SameInstant
<1>. QED
  BY <1>6, <1>8, <1>9, <1>19, <1>22

LEMMA ClocksStep ==
  ASSUME ClocksInv, [CarefulNext]_vars
  PROVE  ClocksInv'
<1>1. CASE Elapse
  BY <1>1, ElapseStep
<1>2. CASE RealtimeTick
  BY <1>2, RealtimeTickStep
<1>3. CASE LegacyTick
  BY <1>3, LegacyTickStep
<1>4. CASE \E l \in Listeners, d \in Deltas : NotForThePast(d) /\ SubscribeDelta(l, d) /\ Careful
  BY <1>4, SubscribeDeltaStep
<1>5. CASE \E p \in pending : Unsubscribe(p) /\ Careful
  BY <1>5, UnsubscribeStep
<1>6. CASE \E d \in Drifts : SetDriftRate(d) /\ Careful /\ AllTicksAreCounted
  BY <1>6, SetDriftRateStep
<1>7. CASE \E i \in Intervals : SetFrequency(i) /\ Careful /\ AllTicksAreCounted
  BY <1>7, SetFrequencyStep
<1>8. CASE \E l \in LegacyListeners, t \in IdleTicks, k \in Kinds :
             NotForThePast(t) /\ SubscribeLegacy(l, t, k)
  BY <1>8, SubscribeLegacyStep
<1>9. CASE \E l \in LegacyListeners : UnsubscribeLegacy(l) /\ NobodyShares(l)
  BY <1>9, UnsubscribeLegacyStep
<1>10. CASE UNCHANGED vars
  <2>1. /\ UNCHANGED <<now, histories>> /\ m' = m /\ pending' = pending /\ table' = table
        /\ UNCHANGED <<changes, told, toldTicks>>
    BY <1>10 DEF vars
  <2>2. TypeOK' /\ TableInv'
    BY <2>1 DEF ClocksInv, TypeOK, TableInv, histories
  <2>. QED
    BY <2>1, <2>2, SameInstant DEF ClocksInv
<1>. QED
  BY <1>1, <1>2, <1>3, <1>4, <1>5, <1>6, <1>7, <1>8, <1>9, <1>10 DEF CarefulNext, End

-----------------------------------------------------------------------------
\* The theorems

LEMMA ClocksAlways == CarefulSpec => []ClocksInv
BY ClocksInit, ClocksStep, PTL DEF CarefulSpec

\* For careful callers no assertion of the oscillator or the RealtimeClock fails
\* and every variable keeps its type: no tick is found in the past, and the clock
\* is never called back without a timestamp that waits.  The callers of CarefulSpec
\* leave out the calls and timestamps that fail RealtimeClock.cc:220.
THEOREM ClocksNeverFail == CarefulSpec => []AssertionsHold
<1>1. ClocksInv => AssertionsHold
  BY DEF ClocksInv, OscillatorInv, AssertionsHold
<1>. QED
  BY <1>1, ClocksAlways, PTL
LEMMA TimestampsStep ==
  ASSUME ClocksInv, [CarefulNext]_vars
  PROVE  [Timestamps!Next]_(Timestamps!vars)
<1>. USE DEF Timestamps!Next, Timestamps!vars
<1>1. CASE Elapse
  <2>1. CASE phase + 1 < m.interval
    BY <1>1, <2>1 DEF Elapse
  <2>2. CASE ~(phase + 1 < m.interval)
    <3>1. m \in Modules /\ trueTime \in Nat /\ \A e \in m.scheduledEvents : e.tick > trueTick
      BY <1>1, CalledClock, ElapseStep DEF HistoryTypes
    <3>2. ASSUME NEW p \in pending PROVE p.due > trueTime
      <4>1. p \in m.timestamps /\ trueTick \in Nat
        BY CalledClock DEF ClocksInv, HistoryTypes
      <4>2. m.nextTick # trueTick
        BY <3>1, <4>1 DEF ClocksInv, ClockInv, WaitsForFirst
      <4>. QED
        BY <4>1, <4>2, CalledClock
    <3>3. trueTime' = trueTime + Inc(m) /\ told' = {} /\ pending' = pending
      BY <1>1, <2>2 DEF Elapse
    <3>4. trueTime' > trueTime
      BY <3>1, <3>3, IncIs
    <3>. QED
      BY <3>2, <3>3, <3>4 DEF Timestamps!Advance
  <2>. QED
    BY <2>1, <2>2
<1>2. CASE RealtimeTick
  <2>1. PICK p \in pending : /\ pending' = pending \ {p} /\ told' = told \cup {p}
                             /\ p.due <= trueTime /\ \A q \in pending : p.due <= q.due
    BY <1>2, RealtimeTickStep
  <2>2. pending \ pending' = {p}
    BY <2>1
  <2>3. trueTime' = trueTime
    BY <1>2 DEF RealtimeTick, histories
  <2>. QED
    BY <2>1, <2>2, <2>3 DEF Timestamps!Tell
<1>3. CASE LegacyTick
  BY <1>3 DEF LegacyTick, histories
<1>4. CASE \E l \in Listeners, d \in Deltas : NotForThePast(d) /\ SubscribeDelta(l, d) /\ Careful
  <2>1. PICK l \in Listeners, d \in Deltas : NotForThePast(d) /\ SubscribeDelta(l, d) /\ Careful
    BY <1>4
  <2>. DEFINE p == [listener |-> l, due |-> trueTime + d]
  <2>2. pending' = pending \cup {p} /\ p.due >= trueTime /\ p \in pending'
    BY <2>1, SubscribeDeltaStep
  <2>3. UNCHANGED <<trueTime, told>>
    BY <2>1 DEF SubscribeDelta, CallClock, histories
  <2>. HIDE DEF p
  <2>. QED
    BY <2>2, <2>3 DEF Timestamps!Ask
<1>5. CASE \E p \in pending : Unsubscribe(p) /\ Careful
  <2>1. PICK p \in pending : Unsubscribe(p)
    BY <1>5
  <2>2. pending' = pending \ {p} /\ UNCHANGED <<trueTime, told>>
    BY <2>1 DEF Unsubscribe, CallClock, histories
  <2>3. pending' = pending \ (pending \ pending')
    BY <2>2
  <2>. QED
    BY <2>2, <2>3 DEF Timestamps!Cancel
<1>6. CASE \E d \in Drifts : SetDriftRate(d) /\ Careful /\ AllTicksAreCounted
  BY <1>6 DEF SetDriftRate, CallClock, histories
<1>7. CASE \E i \in Intervals : SetFrequency(i) /\ Careful /\ AllTicksAreCounted
  BY <1>7 DEF SetFrequency, CallClock, histories
<1>8. CASE \E l \in LegacyListeners, t \in IdleTicks, k \in Kinds :
             NotForThePast(t) /\ SubscribeLegacy(l, t, k)
  BY <1>8 DEF SubscribeLegacy, CallLegacyClock, histories
<1>9. CASE \E l \in LegacyListeners : UnsubscribeLegacy(l) /\ NobodyShares(l)
  BY <1>9 DEF UnsubscribeLegacy, CallLegacyClock, histories
<1>10. CASE UNCHANGED vars
  BY <1>10 DEF vars, histories
<1>. QED
  BY <1>1, <1>2, <1>3, <1>4, <1>5, <1>6, <1>7, <1>8, <1>9, <1>10 DEF CarefulNext, End

\* The RealtimeClock keeps the promise of a timer: who asked to be told at a time
\* is told with the first tick that reaches it, in the order of time, once, and
\* not after cancelling, whatever happens to the frequency and the drift (for the
\* callers of CarefulSpec).
THEOREM TimestampsAreKept == CarefulSpec => TimestampsKeepPromise
<1>1. Init => Timestamps!Init
  BY DEF Init, Timestamps!Init
<1>2. ClocksInv /\ [CarefulNext]_vars => [Timestamps!Next]_(Timestamps!vars)
  BY TimestampsStep
<1>. QED
  BY <1>1, <1>2, ClocksAlways, PTL DEF CarefulSpec, TimestampsKeepPromise, Timestamps!Spec

LEMMA TicksStep ==
  ASSUME ClocksInv, [CarefulNext]_vars
  PROVE  [Ticks!Next]_(Ticks!vars)
<1>. USE DEF Ticks!Next, Ticks!vars
<1>1. CASE Elapse
  <2>1. CASE phase + 1 < m.interval
    BY <1>1, <2>1 DEF Elapse
  <2>2. CASE ~(phase + 1 < m.interval)
    <3>1. trueTick \in Nat /\ \A e \in m.scheduledEvents : e.tick > trueTick
      BY <1>1, CalledClock, ElapseStep DEF HistoryTypes
    <3>2. \A l \in table : l.due > trueTick
      BY <3>1 DEF ClocksInv, TableInv
    <3>3. trueTick' = trueTick + 1 /\ toldTicks' = {} /\ table' = table
      BY <1>1, <2>2 DEF Elapse
    <3>4. trueTick' > trueTick
      BY <3>1, <3>3
    <3>. QED
      BY <3>2, <3>3, <3>4 DEF Ticks!Advance
  <2>. QED
    BY <2>1, <2>2
<1>2. CASE RealtimeTick
  BY <1>2 DEF RealtimeTick, histories
<1>3. CASE LegacyTick
  <2>1. PICK S \in SUBSET table : /\ S # {} /\ table' = table \ S /\ toldTicks' = toldTicks \cup S
                                  /\ \A x \in S : x.due = trueTick
    BY <1>3, LegacyTickStep
  <2>2. table \ table' = S
    BY <2>1
  <2>3. trueTick' = trueTick /\ trueTick \in Nat
    BY <1>3, CalledClock DEF LegacyTick, histories, HistoryTypes
  <2>4. \A x \in table : x.due >= trueTick
    BY <1>3, LegacyTickStep
  <2>5. \A x \in S : x.due <= trueTick /\ \A y \in table \ S : x.due <= y.due
    BY <2>1, <2>3, <2>4
  <2>. QED
    BY <2>1, <2>2, <2>3, <2>5 DEF Ticks!Tell
<1>4. CASE \E l \in Listeners, d \in Deltas : NotForThePast(d) /\ SubscribeDelta(l, d) /\ Careful
  BY <1>4 DEF SubscribeDelta, CallClock, histories
<1>5. CASE \E p \in pending : Unsubscribe(p) /\ Careful
  BY <1>5 DEF Unsubscribe, CallClock, histories
<1>6. CASE \E d \in Drifts : SetDriftRate(d) /\ Careful /\ AllTicksAreCounted
  BY <1>6 DEF SetDriftRate, CallClock, histories
<1>7. CASE \E i \in Intervals : SetFrequency(i) /\ Careful /\ AllTicksAreCounted
  BY <1>7 DEF SetFrequency, CallClock, histories
<1>8. CASE \E l \in LegacyListeners, t \in IdleTicks, k \in Kinds :
             NotForThePast(t) /\ SubscribeLegacy(l, t, k)
  <2>1. PICK l \in LegacyListeners, t \in IdleTicks, k \in Kinds :
          NotForThePast(t) /\ SubscribeLegacy(l, t, k)
    BY <1>8
  <2>. DEFINE x == [listener |-> l, kind |-> k, due |-> trueTick + t, lost |-> FALSE]
  <2>2. table' = table \cup {x}
    BY <2>1, SubscribeLegacyStep
  <2>3. x \in table' /\ x.due >= trueTick
    <3>1. trueTick \in Nat /\ t \in Nat
      BY CalledClock, ClocksAssumption DEF HistoryTypes
    <3>. QED
      BY <2>2, <3>1
  <2>4. UNCHANGED <<trueTick, toldTicks>>
    BY <2>1 DEF SubscribeLegacy, CallLegacyClock, histories
  <2>. HIDE DEF x
  <2>. QED
    BY <2>2, <2>3, <2>4 DEF Ticks!Ask
<1>9. CASE \E l \in LegacyListeners : UnsubscribeLegacy(l) /\ NobodyShares(l)
  <2>1. PICK l \in LegacyListeners : UnsubscribeLegacy(l) /\ NobodyShares(l)
    BY <1>9
  <2>2. table' = table \ TicksOf(l)
    BY <2>1, UnsubscribeLegacyStep
  <2>4. UNCHANGED <<trueTick, toldTicks>>
    BY <2>1 DEF UnsubscribeLegacy, CallLegacyClock, histories
  <2>3. table' = table \ (table \ table')
    BY <2>2
  <2>. QED
    BY <2>2, <2>3, <2>4 DEF Ticks!Cancel
<1>10. CASE UNCHANGED vars
  BY <1>10 DEF vars, histories
<1>. QED
  BY <1>1, <1>2, <1>3, <1>4, <1>5, <1>6, <1>7, <1>8, <1>9, <1>10 DEF CarefulNext, End

\* So does the LegacyClock, whose listeners are told at the very tick they asked
\* for, all who wait for it at once, as long as nobody cancels a shared tick.
THEOREM TicksAreKept == CarefulSpec => TicksKeepPromise
<1>1. Init => Ticks!Init
  BY DEF Init, Ticks!Init
<1>2. ClocksInv /\ [CarefulNext]_vars => [Ticks!Next]_(Ticks!vars)
  BY TicksStep
<1>. QED
  BY <1>1, <1>2, ClocksAlways, PTL DEF CarefulSpec, TicksKeepPromise, Ticks!Spec
=============================================================================
