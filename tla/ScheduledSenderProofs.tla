------------------------ MODULE ScheduledSenderProofs ------------------------
(***************************************************************************)
(* The three machines of the schedule manager, the clock and the generator *)
(* agree with each other whatever the order of the messages of an instant, *)
(* for lists of any length and schedules of any kind.                      *)
(***************************************************************************)
EXTENDS ScheduledSender, SequenceTheorems, WellFoundedInduction, TLAPS

-----------------------------------------------------------------------------
\* What the invariants are built from

Messages == Machines \cup {TICK, START, STOP, SEND}

In(msg) == msg \in Range(queue)

\* a is handled before b.
Precedes(q, a, b) == \E i, j \in DOMAIN q : i < j /\ q[i] = a /\ q[j] = b

Before(a, b) == Precedes(queue, a, b)

\* The cycle timer is going to do something.
TimerLives == In(CYCLE_TIMER) \/ timestamps[CYCLE_TIMER] # Never

\* The cycle timer sets a start time that it has not started a cycle before.
FirstSet == nextCycleTimerState = "SET_CYCLE_START_TIME" /\ cycleTimerState = "CYCLE_IDLE"

\* The list is about to start again at this instant; what it was at, and of which
\* schedule, does not matter any more.
Restarting ==
  \/ nextListExecuteState = "NEW_CYCLE"
  \/ /\ In(CYCLE_TIMER)
     /\ nextCycleTimerState \in {"CYCLE_IDLE", "START_CYCLE"} \/ cycleTimerState = "CYCLE_IDLE"
  \/ nextCycleTimerState = "START_CYCLE" /\ timestamps[CYCLE_TIMER] = 0

AdminStart == NextMultiple(adminSchedule.baseTime, adminSchedule.cycleTime)

OperStart == NextMultiple(operSchedule.baseTime, operSchedule.cycleTime)

-----------------------------------------------------------------------------
\* The invariant

\* Every message is queued once, and the clock's event is there when a timestamp is
\* due.  Only who has subscribed waits for one.
QueueInv ==
  /\ IsInjective(queue)
  /\ In(TICK) <=> \E m \in Machines : timestamps[m] = 0
  /\ \A m \in Machines : timestamps[m] # Never => m \in subscribed

\* Nothing is left of what was planned when the manager is disabled, but messages.
DisabledInv ==
  ~enabled =>
    /\ nextCycleTimerState = "CYCLE_IDLE"
    /\ nextListExecuteState = "INIT"
    /\ nextListConfigState = "CONFIG_IDLE"
    /\ \A m \in Machines : timestamps[m] # Never => In(m)
    /\ ~In(CYCLE_TIMER) => cycleTimerState = "CYCLE_IDLE"
    /\ ~In(LIST_EXECUTE) => listExecuteState = "INIT" /\ age = Never
    /\ ~In(SEND)
    /\ In(START) => Range(queue) = {START}

\* The generator is down exactly when the manager is disabled and nobody starts it.
OperatingInv ==
  /\ operating <=> enabled \/ In(START)
  /\ ~In(STOP)

\* Before the generator has started nothing runs yet.
StartInv ==
  In(START) =>
    /\ In(CYCLE_TIMER)
    /\ nextCycleTimerState = "SET_CYCLE_START_TIME" => Before(START, CYCLE_TIMER)
    /\ nextCycleTimerState # "START_CYCLE"
    /\ cycleTimerState \in {"UNDEFINED", "CYCLE_IDLE"}
    /\ nextListExecuteState \in {"INIT", "END_OF_CYCLE"}
    /\ nextListConfigState # "UPDATE_CONFIG"
    /\ nextListConfigState = "CONFIG_PENDING" => Before(START, LIST_CONFIG)
    /\ configChange => nextListConfigState = "CONFIG_PENDING"
    /\ listConfigState # "UPDATE_CONFIG"
    /\ ~configPending
    /\ \A m \in Machines : timestamps[m] = Never
    /\ age = Never

\* A change is pending until configChangeTime, the start of a cycle of the admin
\* schedule; the machine waits for that time, or is told.
ConfigInv ==
  /\ nextListConfigState # "UNDEFINED"
  /\ nextListConfigState = "CONFIG_PENDING" => In(LIST_CONFIG)
  /\ nextListConfigState = "CONFIG_IDLE" => timestamps[LIST_CONFIG] = Never
  /\ nextListConfigState = "UPDATE_CONFIG" =>
       /\ configPending
       /\ configChangeTime = AdminStart
       /\ In(LIST_CONFIG) => configChangeTime = 0 /\ timestamps[LIST_CONFIG] = Never
       /\ ~In(LIST_CONFIG) => timestamps[LIST_CONFIG] = configChangeTime
  /\ configPending /\ TimerLives =>
       /\ configChangeTime >= 0
       /\ nextListConfigState = "CONFIG_IDLE" => listConfigState = "UPDATE_CONFIG"
  /\ configPending /\ nextListConfigState = "CONFIG_IDLE" /\ In(LIST_CONFIG) =>
       listConfigState = "UPDATE_CONFIG"

\* While a change is carried out the timer is about to set the start of the first
\* cycle, and does not do it before the change is over.
UpdateInv ==
  listConfigState = "UPDATE_CONFIG" =>
    /\ In(LIST_CONFIG) /\ nextListConfigState = "CONFIG_IDLE"
    /\ enabled =>
         /\ In(CYCLE_TIMER)
         /\ \/ nextCycleTimerState = "CYCLE_IDLE"
            \/ FirstSet /\ Before(LIST_CONFIG, CYCLE_TIMER)

\* What the timer waits for, and how old the cycle is when that comes.
TimerInv ==
  /\ ~TimerLives =>
       /\ nextCycleTimerState = "CYCLE_IDLE" /\ cycleTimerState = "CYCLE_IDLE"
       /\ nextListExecuteState = "INIT" /\ ~In(LIST_EXECUTE) /\ ~In(SEND)
  /\ nextCycleTimerState = "CYCLE_IDLE" /\ ~In(CYCLE_TIMER) => ~TimerLives
  /\ nextCycleTimerState = "SET_CYCLE_START_TIME" =>
       /\ cycleTimerState \in {"CYCLE_IDLE", "START_CYCLE"}
       /\ In(CYCLE_TIMER) => timestamps[CYCLE_TIMER] = Never
       /\ cycleTimerState = "CYCLE_IDLE" => In(CYCLE_TIMER)
       /\ cycleTimerState = "START_CYCLE" /\ In(CYCLE_TIMER) => age = 1
       /\ ~In(CYCLE_TIMER) =>
            /\ timestamps[CYCLE_TIMER] \in {0, 1}
            /\ \/ age + timestamps[CYCLE_TIMER] = 1
               \/ nextListExecuteState = "NEW_CYCLE"
            /\ timestamps[CYCLE_TIMER] = 1 => cycleStartTime = 0
  /\ nextCycleTimerState = "START_CYCLE" =>
       /\ cycleTimerState = "SET_CYCLE_START_TIME"
       /\ In(CYCLE_TIMER) => timestamps[CYCLE_TIMER] = Never /\ cycleStartTime = 0
       /\ ~In(CYCLE_TIMER) =>
            /\ timestamps[CYCLE_TIMER] = cycleStartTime
            /\ \/ cycleStartTime = 0
               \/ age = Never
               \/ age + cycleStartTime <= operSchedule.cycleTime
               \/ /\ configPending
                  /\ age + cycleStartTime <=
                       operSchedule.cycleTime + operSchedule.cycleTimeExtension + 1

\* A restart for a new schedule is over in the instant.
RestartInv ==
  /\ nextCycleTimerState = "CYCLE_IDLE" /\ In(CYCLE_TIMER) =>
       /\ ~In(TICK)
       /\ In(LIST_CONFIG) => /\ nextListConfigState # "UPDATE_CONFIG"
                             /\ Before(CYCLE_TIMER, LIST_CONFIG)
       /\ age # Never => OperStart = 0 /\ listConfigState = "UPDATE_CONFIG"
  /\ FirstSet =>
       /\ timestamps[LIST_EXECUTE] # 0
       /\ age # Never =>
            /\ OperStart = 0
            /\ configPending => listConfigState = "UPDATE_CONFIG"
            /\ nextListConfigState = "CONFIG_PENDING" => Before(CYCLE_TIMER, LIST_CONFIG)

\* The timer acts before the clock's next timestamp, and the list machine starts
\* or goes on before the schedule is exchanged.
OrderInv ==
  /\ In(CYCLE_TIMER) /\ In(TICK) => Before(CYCLE_TIMER, TICK)
  /\ nextListExecuteState = "NEW_CYCLE" =>
       /\ In(LIST_EXECUTE)
       /\ In(TICK) => Before(LIST_EXECUTE, TICK)
       /\ ~In(CYCLE_TIMER)
       /\ nextCycleTimerState = "SET_CYCLE_START_TIME"
       /\ timestamps[CYCLE_TIMER] = 1
       /\ In(LIST_CONFIG) => nextListConfigState # "UPDATE_CONFIG"
  /\ nextListExecuteState = "EXECUTE_CYCLE" /\ In(LIST_EXECUTE) =>
       /\ ~In(CYCLE_TIMER)
       /\ timestamps[CYCLE_TIMER] # 0
       /\ In(LIST_CONFIG) /\ nextListConfigState = "UPDATE_CONFIG" =>
            Before(LIST_EXECUTE, LIST_CONFIG)
  /\ In(LIST_CONFIG) /\ nextListConfigState = "UPDATE_CONFIG" =>
       ~In(TICK) /\ ~In(CYCLE_TIMER)

\* What the list machine waits for.
ListInv ==
  /\ nextListExecuteState # "UNDEFINED"
  /\ nextListExecuteState = "INIT" =>
       /\ age = Never
       /\ ~In(LIST_EXECUTE) => listExecuteState = "INIT"
  /\ nextListExecuteState \in {"INIT", "DELAY", "END_OF_CYCLE"} =>
       timestamps[LIST_EXECUTE] = Never
  /\ nextListExecuteState \in {"EXECUTE_CYCLE", "DELAY"} => age # Never
  /\ nextListExecuteState = "DELAY" => In(LIST_EXECUTE) /\ exitTimer >= 1
  /\ nextListExecuteState = "EXECUTE_CYCLE" =>
       IF In(LIST_EXECUTE) THEN timestamps[LIST_EXECUTE] = Never
       ELSE timestamps[LIST_EXECUTE] # Never /\ listExecuteState = "DELAY"
  /\ nextListExecuteState = "END_OF_CYCLE" /\ ~In(LIST_EXECUTE) =>
       listExecuteState = "END_OF_CYCLE"
  /\ listExecuteState = "NEW_CYCLE" =>
       /\ nextListExecuteState = "EXECUTE_CYCLE" /\ In(LIST_EXECUTE)
       /\ listPointer = 0 /\ sent = <<>>

\* The generator's message comes before the list machine goes on.
SendInv ==
  In(SEND) =>
    /\ In(LIST_EXECUTE) /\ Before(SEND, LIST_EXECUTE)
    /\ nextListExecuteState \in {"NEW_CYCLE", "DELAY", "END_OF_CYCLE"}

EndOf(l) ==
  LET end[n \in 0 .. Len(l)] == IF n = 0 THEN 0 ELSE end[n - 1] + Interval(l[n])
  IN  end

\* The datagrams are those of the first n entries of list l.
SentFirst(n, l) == Len(sent) = n /\ \A i \in 1 .. n : sent[i] = l[i].object

SentOrSending(n, l) == SentFirst(IF In(SEND) THEN n - 1 ELSE n, l)

\* Entry n was executed last, at its time.
Executed(n, l) ==
  /\ n \in 1 .. Len(l)
  /\ EndOf(l)[n - 1] <= age
  /\ operState = l[n].object
  /\ SentOrSending(n, l)

\* The list machine is where the age of the cycle says.
PlaceInv ==
  LET l == operSchedule.controlList
  IN  age # Never /\ ~Restarting =>
        /\ nextListExecuteState = "EXECUTE_CYCLE" /\ In(LIST_EXECUTE) =>
             \/ l = <<>> /\ listPointer = 0
             \/ /\ listPointer < Len(l)
                /\ age = EndOf(l)[listPointer]
                /\ SentFirst(listPointer, l)
        /\ nextListExecuteState = "DELAY" =>
             /\ Executed(listPointer, l) /\ listPointer < Len(l)
             /\ age + exitTimer = EndOf(l)[listPointer]
        /\ nextListExecuteState = "EXECUTE_CYCLE" /\ ~In(LIST_EXECUTE) =>
             /\ Executed(listPointer, l) /\ listPointer < Len(l)
             /\ age + timestamps[LIST_EXECUTE] = EndOf(l)[listPointer]
        /\ nextListExecuteState = "END_OF_CYCLE" =>
             l = <<>> \/ (listPointer = Len(l) /\ Executed(listPointer, l))

\* MaxAge is no bound: it exceeds every cycle with its extension.
Counted(s) == s.cycleTime + s.cycleTimeExtension < MaxAge

SenderTypeOK == TypeOK /\ operating \in BOOLEAN /\ sent \in Seq(States)

SenderInv ==
  /\ SenderTypeOK
  /\ ~failed
  /\ Counted(adminSchedule) /\ Counted(operSchedule)
  /\ QueueInv
  /\ DisabledInv
  /\ OperatingInv
  /\ UpdateInv
  /\ enabled => /\ StartInv
                /\ ConfigInv
                /\ TimerInv
                /\ RestartInv
                /\ OrderInv
                /\ ListInv
                /\ SendInv
                /\ PlaceInv

-----------------------------------------------------------------------------
\* Numbers

\* A set of numbers has a least one.
LEMMA LeastNumber ==
  ASSUME NEW T, T \subseteq Nat, T # {}
  PROVE  \E n \in T : \A m \in T : n <= m
<1>. DEFINE R == OpToRel(<, Nat)
<1>1. IsWellFoundedOn(R, Nat)
  BY NatLessThanWellFounded
<1>2. PICK n \in T : \A m \in T : ~(<<m, n>> \in R)
  BY <1>1, WFMin
<1>3. \A m \in T : ~(m < n)
  BY <1>2 DEF OpToRel
<1>. QED
  BY <1>3

\* A set with 0 and with the successors of its numbers has all numbers.
LEMMA SetInduction ==
  ASSUME NEW T, 0 \in T, \A n \in Nat : n \in T => n + 1 \in T
  PROVE  Nat \subseteq T
<1>1. SUFFICES ASSUME Nat \ T # {} PROVE FALSE
  OBVIOUS
<1>2. PICK n \in Nat \ T : \A m \in Nat \ T : n <= m
  BY <1>1, LeastNumber
<1>3. n # 0 /\ n - 1 \in Nat
  OBVIOUS
<1>4. n - 1 \in T
  BY <1>2, <1>3
<1>. QED
  BY <1>3, <1>4

\* Multiplication keeps the order.
LEMMA TimesMonotone ==
  ASSUME NEW p \in Int, NEW q \in Int, NEW d \in Nat, p <= q
  PROVE  p * d <= q * d
OBVIOUS

\* A quotient is found between its multiples.
LEMMA Quotient ==
  ASSUME NEW x \in Int, NEW a \in Int, NEW d \in Nat \ {0}, a * d <= x, x < (a + 1) * d
  PROVE  x \div d = a
<1>. DEFINE b == x \div d
<1>1. b \in Int /\ b * d <= x /\ x < (b + 1) * d
  OBVIOUS
<1>. HIDE DEF b
<1>2. ~(a + 1 <= b)
  <2>1. SUFFICES ASSUME a + 1 <= b PROVE FALSE
    OBVIOUS
  <2>2. (a + 1) * d <= b * d
    BY <1>1, <2>1, TimesMonotone
  <2>3. (a + 1) * d \in Int /\ b * d \in Int
    BY <1>1
  <2>. QED
    BY <1>1, <2>2, <2>3
<1>3. ~(b + 1 <= a)
  <2>1. SUFFICES ASSUME b + 1 <= a PROVE FALSE
    OBVIOUS
  <2>2. (b + 1) * d <= a * d
    BY <1>1, <2>1, TimesMonotone
  <2>3. (b + 1) * d \in Int /\ a * d \in Int
    BY <1>1
  <2>. QED
    BY <1>1, <2>2, <2>3
<1>. QED
  BY <1>1, <1>2, <1>3 DEF b

\* A cycle that has been under way for long starts again within a cycle.
LEMMA StartAfterBase ==
  ASSUME NEW base \in Int, NEW cycle \in Nat \ {0}, base <= 0
  PROVE  LET q == (cycle - 1 - base) \div cycle
         IN  /\ q \in Int /\ q * cycle \in Int
             /\ NextMultiple(base, cycle) = base + q * cycle
             /\ base + q * cycle >= 0 /\ base + q * cycle < cycle
<1>. DEFINE x == cycle - 1 - base  q == x \div cycle
<1>1. x \in Int /\ x = cycle - 1 - base
  OBVIOUS
<1>. HIDE DEF x
<1>2. q \in Int /\ q * cycle <= x /\ x < (q + 1) * cycle
  BY <1>1
<1>3. NextMultiple(base, cycle) = base + q * cycle
  BY DEF NextMultiple, x
<1>. HIDE DEF q
<1>4. (q + 1) * cycle = q * cycle + cycle /\ q * cycle \in Int
  BY <1>2
<1>. DEFINE p == q * cycle
<1>5. p \in Int /\ p <= x /\ x < p + cycle /\ NextMultiple(base, cycle) = base + p
  BY <1>2, <1>3, <1>4
<1>. HIDE DEF p
<1>6. base + p >= 0 /\ base + p < cycle
  BY <1>1, <1>5
<1>. QED
  BY <1>2, <1>3, <1>4, <1>6 DEF p, q, x

\* The next start of a cycle is not in the past, and comes within a cycle.
LEMMA NextMultipleIs ==
  ASSUME NEW base \in Int, NEW cycle \in Nat \ {0}
  PROVE  /\ NextMultiple(base, cycle) \in Nat
         /\ base < cycle => NextMultiple(base, cycle) < cycle
<1>1. CASE base > 0
  BY <1>1 DEF NextMultiple
<1>2. CASE base <= 0
  BY <1>2, StartAfterBase
<1>. QED
  BY <1>1, <1>2

\* As time passes the next start comes nearer.
LEMMA NextMultipleComes ==
  ASSUME NEW s \in Schedule
  PROVE  /\ Shifted(s) \in Schedule
         /\ Shifted(s).cycleTime = s.cycleTime
         /\ Shifted(s).cycleTimeExtension = s.cycleTimeExtension
         /\ Shifted(s).controlList = s.controlList
         /\ NextMultiple(s.baseTime, s.cycleTime) > 0 =>
              NextMultiple(Shifted(s).baseTime, Shifted(s).cycleTime)
                = NextMultiple(s.baseTime, s.cycleTime) - 1
<1>. DEFINE b == s.baseTime  c == s.cycleTime  k == NextMultiple(b, c)
            b1 == IF b - 1 = -c THEN 0 ELSE b - 1
<1>1. b \in Int /\ c \in Nat \ {0} /\ b < c
  BY DEF Schedule
<1>2. /\ Shifted(s) \in Schedule
      /\ Shifted(s).cycleTime = s.cycleTime
      /\ Shifted(s).cycleTimeExtension = s.cycleTimeExtension
      /\ Shifted(s).controlList = s.controlList
      /\ Shifted(s).baseTime = b1
  BY DEF Schedule, Shifted
<1>. HIDE DEF b, c
<1>3. k \in Nat
  BY <1>1, NextMultipleIs
<1>4. NextMultiple(0, c) = 0
  <2>1. (c - 1 - 0) \div c = 0
    <3>1. 0 * c <= c - 1 - 0 /\ c - 1 - 0 < (0 + 1) * c /\ c - 1 - 0 \in Int
      BY <1>1
    <3>. QED
      BY <1>1, <3>1, Quotient
  <2>2. 0 + 0 * c = 0
    BY <1>1
  <2>. QED
    BY <2>1, <2>2 DEF NextMultiple
<1>5. ASSUME k > 0 PROVE NextMultiple(b1, c) = k - 1
  <2>1. CASE b > 1
    <3>1. b1 = b - 1 /\ b1 > 0 /\ k = b
      BY <1>1, <2>1 DEF NextMultiple
    <3>. HIDE DEF b1, k
    <3>. QED
      BY <3>1 DEF NextMultiple
  <2>2. CASE b = 1
    <3>1. b1 = 0 /\ k = 1
      BY <1>1, <2>2 DEF NextMultiple
    <3>. QED
      BY <3>1, <1>4
  <2>3. CASE b <= 0
    <3>. DEFINE q == (c - 1 - b) \div c  p == q * c
    <3>1. q \in Int /\ p \in Int /\ k = b + p /\ b + p < c
      BY <1>1, <2>3, StartAfterBase
    <3>2. (q + 1) * c = p + c
      BY <1>1, <3>1
    <3>. HIDE DEF k, q
    <3>3. p <= c - b /\ c - b < p + c
      <4>. HIDE DEF p
      <4>. QED
        BY <1>1, <1>3, <1>5, <3>1
    <3>4. (c - b) \div c = q
      BY <1>1, <3>1, <3>2, <3>3, Quotient
    <3>5. CASE b - 1 = -c
      <4>1. p >= c
        <5>. HIDE DEF p
        <5>. QED
          BY <1>1, <1>3, <1>5, <3>1, <3>5
      <4>2. p < 2 * c
        <5>. HIDE DEF p
        <5>. QED
          BY <1>1, <1>3, <1>5, <3>1, <3>5
      <4>3. q = 1
        <5>1. p \div c = 1
          BY <1>1, <3>1, <4>1, <4>2, Quotient
        <5>2. p \div c = q
          BY <1>1, <3>1, <3>2, Quotient
        <5>. QED
          BY <5>1, <5>2
      <4>4. p = c
        BY <4>3, <1>1
      <4>5. k = 1
        <5>. HIDE DEF p
        <5>. QED
          BY <1>1, <3>1, <3>5, <4>4
      <4>. QED
        BY <1>4, <3>5, <4>5
    <3>6. CASE b - 1 # -c
      <4>1. b1 = b - 1 /\ b1 \in Int /\ ~(b1 > 0) /\ c - 1 - b1 = c - b
        BY <1>1, <2>3, <3>6
      <4>. HIDE DEF b1
      <4>2. NextMultiple(b1, c) = b1 + p
        BY <3>4, <4>1 DEF NextMultiple
      <4>. HIDE DEF p
      <4>. QED
        BY <1>1, <3>1, <4>1, <4>2
    <3>. QED
      BY <3>5, <3>6
  <2>. QED
    BY <1>1, <2>1, <2>2, <2>3
<1>. QED
  BY <1>2, <1>5 DEF b, c

-----------------------------------------------------------------------------
\* The entries of a list

Entry == [timeInterval : Nat, object : States]

\* There is a function that adds up the first intervals of a list ...
LEMMA SumExists ==
  ASSUME NEW N \in Nat, NEW a, \A n \in 1 .. N : Interval(a[n]) \in Nat
  PROVE  \E f \in [0 .. N -> Nat] :
           f = [n \in 0 .. N |-> IF n = 0 THEN 0 ELSE f[n - 1] + Interval(a[n])]
<1>. DEFINE Adds(f, m) == f[0] = 0 /\ \A k \in 1 .. m : f[k] = f[k - 1] + Interval(a[k])
            T == {m \in Nat : m <= N => \E f \in [0 .. m -> Nat] : Adds(f, m)}
<1>1. 0 \in T
  <2>1. [n \in 0 .. 0 |-> 0] \in [0 .. 0 -> Nat] /\ Adds([n \in 0 .. 0 |-> 0], 0)
    OBVIOUS
  <2>. QED
    BY <2>1
<1>2. ASSUME NEW m \in Nat, m \in T PROVE m + 1 \in T
  <2>. SUFFICES ASSUME m + 1 <= N PROVE \E f \in [0 .. m + 1 -> Nat] : Adds(f, m + 1)
    OBVIOUS
  <2>1. PICK f \in [0 .. m -> Nat] : Adds(f, m)
    BY <1>2
  <2>. DEFINE g == [k \in 0 .. m + 1 |-> IF k = m + 1 THEN f[m] + Interval(a[m + 1]) ELSE f[k]]
  <2>2. m + 1 \in 1 .. N
    OBVIOUS
  <2>3. g \in [0 .. m + 1 -> Nat]
    <3>1. f[m] + Interval(a[m + 1]) \in Nat
      BY <2>1, <2>2
    <3>. QED
      BY <3>1, <2>1
  <2>4. g[0] = 0
    BY <2>1
  <2>5. \A k \in 1 .. m : g[k] = g[k - 1] + Interval(a[k])
    BY <2>1
  <2>6. g[m + 1] = g[m] + Interval(a[m + 1])
    OBVIOUS
  <2>. HIDE DEF g
  <2>7. (m + 1) - 1 = m /\ \A k \in 1 .. m + 1 : k \in 1 .. m \/ k = m + 1
    OBVIOUS
  <2>8. \A k \in 1 .. m + 1 : g[k] = g[k - 1] + Interval(a[k])
    BY <2>5, <2>6, <2>7
  <2>9. Adds(g, m + 1)
    BY <2>4, <2>8
  <2>. HIDE DEF Adds
  <2>. QED
    BY <2>3, <2>9
<1>3. N \in T
  <2>. HIDE DEF T
  <2>. QED
    BY <1>1, <1>2, SetInduction
<1>4. PICK f \in [0 .. N -> Nat] : Adds(f, N)
  BY <1>3
<1>5. f = [n \in 0 .. N |-> IF n = 0 THEN 0 ELSE f[n - 1] + Interval(a[n])]
  BY <1>4
<1>. QED
  BY <1>5

\* ... and EndOf is it.
LEMMA EndsAreSums ==
  ASSUME NEW l \in Seq(Entry)
  PROVE  /\ Len(l) \in Nat /\ EndOf(l)[0] = 0
         /\ \A n \in 1 .. Len(l) : l[n] \in Entry /\ Interval(l[n]) \in Nat /\ Interval(l[n]) >= 1
         /\ \A n \in 0 .. Len(l) : EndOf(l)[n] \in Nat
         /\ \A n \in 1 .. Len(l) : EndOf(l)[n] = EndOf(l)[n - 1] + Interval(l[n])
<1>. DEFINE N == Len(l)
            IsSum(f) == f = [n \in 0 .. N |-> IF n = 0 THEN 0 ELSE f[n - 1] + Interval(l[n])]
<1>1. N \in Nat /\ \A n \in 1 .. N : l[n] \in Entry /\ Interval(l[n]) \in Nat /\ Interval(l[n]) >= 1
  <2>1. N \in Nat /\ \A n \in 1 .. N : l[n] \in Entry
    OBVIOUS
  <2>. QED
    BY <2>1 DEF Interval, Entry
<1>2. PICK g \in [0 .. N -> Nat] : IsSum(g)
  <2>. HIDE DEF N
  <2>. QED
    BY <1>1, SumExists
<1>3. IsSum(EndOf(l))
  BY <1>2, Zenon DEF EndOf
<1>4. ASSUME NEW f, IsSum(f)
      PROVE  f[0] = 0 /\ \A n \in 1 .. N : f[n] = f[n - 1] + Interval(l[n])
  <2>. DEFINE F(n) == IF n = 0 THEN 0 ELSE f[n - 1] + Interval(l[n])
  <2>1. f = [n \in 0 .. N |-> F(n)]
    BY <1>4
  <2>. HIDE DEF F
  <2>2. \A n \in 0 .. N : f[n] = F(n)
    BY <2>1
  <2>3. 0 \in 0 .. N /\ \A n \in 1 .. N : n \in 0 .. N /\ n # 0
    BY <1>1
  <2>. QED
    BY <2>2, <2>3 DEF F
<1>. DEFINE e == EndOf(l)
            T == {n \in Nat : n <= N => e[n] = g[n]}
<1>5. /\ e[0] = 0 /\ \A n \in 1 .. N : e[n] = e[n - 1] + Interval(l[n])
      /\ g[0] = 0 /\ \A n \in 1 .. N : g[n] = g[n - 1] + Interval(l[n])
  <2>. HIDE DEF IsSum, e
  <2>. QED
    BY <1>2, <1>3, <1>4 DEF e
<1>. HIDE DEF e, N
<1>6. Nat \subseteq T
  <2>1. 0 \in T
    BY <1>5
  <2>2. ASSUME NEW n \in Nat, n \in T PROVE n + 1 \in T
    <3>1. n + 1 <= N => n + 1 \in 1 .. N /\ (n + 1) - 1 = n
      BY <1>1
    <3>. QED
      BY <1>1, <1>5, <2>2, <3>1
  <2>. HIDE DEF T
  <2>. QED
    BY <2>1, <2>2, SetInduction
<1>7. \A n \in 0 .. N : e[n] = g[n]
  BY <1>1, <1>6
<1>8. \A n \in 0 .. N : e[n] \in Nat
  BY <1>2, <1>7
<1>. QED
  BY <1>1, <1>5, <1>8 DEF e, N

\* EndOfEntries depends on the list alone.
LEMMA EndsOfSchedule ==
  ASSUME NEW s
  PROVE  EndOfEntries(s) = EndOf(s.controlList)
BY Zenon DEF EndOfEntries, EndOf

-----------------------------------------------------------------------------
\* The event queue

\* A queue of messages, each at most once.
QueueOK(q) == q \in Seq(Messages) /\ IsInjective(q)

\* Elements of a sequence and its domain.
LEMMA SeqFacts ==
  ASSUME NEW M, NEW q \in Seq(M)
  PROVE  /\ Len(q) \in Nat /\ DOMAIN q = 1 .. Len(q) /\ \A i \in 1 .. Len(q) : q[i] \in M
         /\ Range(q) \subseteq M
         /\ q = <<>> <=> Range(q) = {}
<1>1. Len(q) \in Nat /\ DOMAIN q = 1 .. Len(q) /\ \A i \in 1 .. Len(q) : q[i] \in M
  OBVIOUS
<1>2. Range(q) \subseteq M
  BY <1>1 DEF Range
<1>3. q = <<>> <=> Len(q) = 0
  OBVIOUS
<1>4. Len(q) = 0 <=> Range(q) = {}
  <2>1. Len(q) # 0 => q[1] \in Range(q)
    BY <1>1 DEF Range
  <2>2. Len(q) = 0 => Range(q) = {}
    BY <1>1 DEF Range
  <2>. QED
    BY <2>1, <2>2
<1>. QED
  BY <1>1, <1>2, <1>3, <1>4

\* A message that is taken out: the others keep their order.
LEMMA RemoveFirstIs ==
  ASSUME NEW q, QueueOK(q), NEW m
  PROVE  /\ QueueOK(RemoveFirst(q, m))
         /\ Range(RemoveFirst(q, m)) = Range(q) \ {m}
         /\ \A a, b : a # m /\ b # m /\ Precedes(q, a, b) => Precedes(RemoveFirst(q, m), a, b)
<1>. DEFINE I == {i \in 1 .. Len(q) : q[i] = m}
            r == RemoveFirst(q, m)
<1>1. /\ q \in Seq(Messages) /\ IsInjective(q)
      /\ Len(q) \in Nat /\ DOMAIN q = 1 .. Len(q) /\ \A i \in 1 .. Len(q) : q[i] \in Messages
  BY SeqFacts DEF QueueOK
<1>2. CASE I = {}
  <2>1. r = q
    BY <1>2 DEF RemoveFirst
  <2>2. m \notin Range(q)
    BY <1>1, <1>2 DEF Range
  <2>. QED
    BY <2>1, <2>2
<1>3. CASE I # {}
  <2>. DEFINE k == SelectInSeq(q, LAMBDA v : v = m)
  <2>1. k \in 1 .. Len(q) /\ q[k] = m
    <3>1. I \subseteq Nat
      OBVIOUS
    <3>2. \E i \in I : \A j \in I : i <= j
      BY <1>3, <3>1, LeastNumber
    <3>3. k = Min(I)
      BY <1>3 DEF SelectInSeq
    <3>4. Min(I) \in I
      BY <3>2 DEF Min
    <3>. QED
      BY <3>3, <3>4
  <2>2. r = SubSeq(q, 1, k - 1) \o SubSeq(q, k + 1, Len(q))
    BY <1>3, Zenon DEF RemoveFirst, RemoveAt
  <2>. HIDE DEF k, r
  <2>. DEFINE front == SubSeq(q, 1, k - 1)  rest == SubSeq(q, k + 1, Len(q))
  <2>3. /\ front \in Seq(Messages) /\ Len(front) = k - 1
        /\ \A i \in 1 .. k - 1 : front[i] = q[i]
    BY <1>1, <2>1
  <2>4. /\ rest \in Seq(Messages) /\ Len(rest) = Len(q) - k
        /\ \A i \in 1 .. Len(q) - k : rest[i] = q[k + i]
    <3>1. k + 1 \in Int /\ Len(q) \in Int /\ \A i \in k + 1 .. Len(q) : q[i] \in Messages
      BY <1>1, <2>1
    <3>2. /\ rest \in Seq(Messages)
          /\ Len(rest) = (IF k + 1 <= Len(q) THEN Len(q) - (k + 1) + 1 ELSE 0)
          /\ \A i \in 1 .. Len(q) - (k + 1) + 1 : rest[i] = q[(k + 1) + i - 1]
      BY <3>1, SubSeqProperties
    <3>3. Len(q) - (k + 1) + 1 = Len(q) - k /\ \A i \in Int : (k + 1) + i - 1 = k + i
      BY <1>1, <2>1
    <3>. HIDE DEF rest
    <3>4. \A i \in 1 .. Len(q) - k : rest[i] = q[k + i]
      <4>. SUFFICES ASSUME NEW i \in 1 .. Len(q) - k PROVE rest[i] = q[k + i]
        OBVIOUS
      <4>1. i \in 1 .. Len(q) - (k + 1) + 1 /\ (k + 1) + i - 1 = k + i
        BY <3>3
      <4>2. rest[i] = q[(k + 1) + i - 1]
        BY <3>2, <4>1
      <4>. QED
        BY <4>1, <4>2
    <3>5. Len(rest) = Len(q) - k
      <4>1. Len(q) \in Int /\ k \in Int /\ k <= Len(q)
        BY <1>1, <2>1
      <4>. QED
        BY <4>1, <3>2
    <3>. QED
      BY <3>2, <3>4, <3>5
  <2>. HIDE DEF front, rest
  <2>5. /\ r \in Seq(Messages) /\ Len(r) = Len(q) - 1 /\ DOMAIN r = 1 .. Len(q) - 1
        /\ \A i \in 1 .. Len(q) - 1 : r[i] = IF i < k THEN q[i] ELSE q[i + 1]
    <3>1. r = front \o rest
      BY <2>2 DEF front, rest
    <3>2. r \in Seq(Messages) /\ Len(r) = Len(front) + Len(rest)
      BY <3>1, <2>3, <2>4, ConcatProperties
    <3>3. \A i \in 1 .. Len(q) - 1 : r[i] = IF i < k THEN q[i] ELSE q[i + 1]
      <4>. SUFFICES ASSUME NEW i \in 1 .. Len(q) - 1
                    PROVE  r[i] = IF i < k THEN q[i] ELSE q[i + 1]
        OBVIOUS
      <4>1. r[i] = IF i <= Len(front) THEN front[i] ELSE rest[i - Len(front)]
        BY <3>1, <2>3, <2>4, <1>1, <2>1
      <4>2. CASE i < k
        BY <4>1, <4>2, <2>3, <2>1, <1>1
      <4>3. CASE ~(i < k)
        <5>1. i - (k - 1) \in 1 .. Len(q) - k /\ k + (i - (k - 1)) = i + 1
          BY <4>3, <2>1, <1>1
        <5>. QED
          BY <4>1, <4>3, <5>1, <2>3, <2>4, <2>1, <1>1
      <4>. QED
        BY <4>2, <4>3
    <3>. QED
      BY <3>2, <3>3, <2>3, <2>4, <2>1, <1>1
  <2>. DEFINE up(n) == IF n < k THEN n ELSE n + 1
              down(n) == IF n < k THEN n ELSE n - 1
  <2>6. \A n \in DOMAIN r : up(n) \in DOMAIN q \ {k} /\ r[n] = q[up(n)]
    <3>. SUFFICES ASSUME NEW n \in 1 .. Len(q) - 1 PROVE up(n) \in DOMAIN q \ {k} /\ r[n] = q[up(n)]
      BY <2>5
    <3>1. up(n) \in 1 .. Len(q) /\ up(n) # k
      BY <1>1, <2>1
    <3>2. r[n] = q[up(n)]
      BY <2>5
    <3>. QED
      BY <3>1, <3>2, <1>1
  <2>7. \A n \in DOMAIN q : n # k => down(n) \in DOMAIN r /\ r[down(n)] = q[n]
    <3>. SUFFICES ASSUME NEW n \in 1 .. Len(q), n # k PROVE down(n) \in DOMAIN r /\ r[down(n)] = q[n]
      BY <1>1
    <3>1. CASE n < k
      BY <3>1, <2>5, <2>1, <1>1
    <3>2. CASE n > k
      <4>1. n - 1 \in 1 .. Len(q) - 1 /\ ~(n - 1 < k) /\ (n - 1) + 1 = n /\ ~(n < k)
        BY <3>2, <2>1, <1>1
      <4>2. r[n - 1] = q[n]
        BY <4>1, <2>5
      <4>. QED
        BY <4>1, <4>2, <2>5
    <3>. QED
      BY <3>1, <3>2, <2>1
  <2>8. \A n, o \in Int : /\ up(n) = up(o) => n = o
                          /\ n # k /\ o # k /\ n < o => down(n) < down(o)
    BY <2>1
  <2>9. k \in DOMAIN q /\ DOMAIN r \subseteq Int /\ DOMAIN q \subseteq Int
    BY <2>1, <2>5, <1>1
  <2>. HIDE DEF up, down
  <2>10. IsInjective(r)
    BY <1>1, <2>6, <2>8, <2>9 DEF IsInjective
  <2>11. Range(r) = Range(q) \ {m}
    <3>1. \A x \in Range(r) : x \in Range(q) /\ x # m
      BY <1>1, <2>1, <2>6, <2>9 DEF Range, IsInjective
    <3>2. \A x \in Range(q) : x # m => x \in Range(r)
      BY <2>1, <2>7 DEF Range
    <3>. QED
      BY <3>1, <3>2
  <2>12. ASSUME NEW a, NEW b, a # m, b # m, Precedes(q, a, b) PROVE Precedes(r, a, b)
    <3>1. PICK i \in DOMAIN q, j \in DOMAIN q : i < j /\ q[i] = a /\ q[j] = b
      BY <2>12 DEF Precedes
    <3>2. i # k /\ j # k
      BY <2>1, <2>12, <3>1
    <3>3. down(i) < down(j)
      BY <2>8, <2>9, <3>1, <3>2
    <3>. QED
      BY <2>7, <3>1, <3>2, <3>3 DEF Precedes
  <2>. QED
    BY <2>5, <2>10, <2>11, <2>12 DEF QueueOK, r
<1>. QED
  BY <1>2, <1>3

\* A message behind all others.
LEMMA AppendIs ==
  ASSUME NEW q, QueueOK(q), NEW m \in Messages, m \notin Range(q)
  PROVE  /\ QueueOK(Append(q, m))
         /\ Range(Append(q, m)) = Range(q) \cup {m}
         /\ \A a, b : Precedes(q, a, b) => Precedes(Append(q, m), a, b)
         /\ \A a \in Range(q) : Precedes(Append(q, m), a, m)
<1>. DEFINE r == Append(q, m)  n == Len(q) + 1
<1>1. /\ q \in Seq(Messages) /\ IsInjective(q)
      /\ Len(q) \in Nat /\ DOMAIN q = 1 .. Len(q)
  BY SeqFacts DEF QueueOK
<1>2. /\ r \in Seq(Messages) /\ DOMAIN r = 1 .. n /\ r[n] = m
      /\ \A i \in 1 .. Len(q) : r[i] = q[i]
  BY <1>1
<1>. HIDE DEF r
<1>3. \A i \in DOMAIN r : (i \in DOMAIN q /\ r[i] = q[i] /\ i < n) \/ (i = n /\ r[i] = m)
  BY <1>1, <1>2
<1>4. n \in DOMAIN r /\ \A i \in DOMAIN q : i \in DOMAIN r /\ i < n /\ r[i] = q[i] /\ q[i] # m
  BY <1>1, <1>2 DEF Range
<1>. HIDE DEF n
<1>5. IsInjective(r)
  BY <1>1, <1>3, <1>4 DEF IsInjective
<1>6. Range(r) = Range(q) \cup {m}
  <2>1. \A x \in Range(r) : x \in Range(q) \cup {m}
    BY <1>3 DEF Range
  <2>2. \A x \in Range(q) \cup {m} : x \in Range(r)
    BY <1>2, <1>4 DEF Range
  <2>. QED
    BY <2>1, <2>2
<1>7. \A a, b : Precedes(q, a, b) => Precedes(r, a, b)
  BY <1>4 DEF Precedes
<1>8. \A a \in Range(q) : Precedes(r, a, m)
  BY <1>2, <1>4 DEF Precedes, Range
<1>. QED
  BY <1>2, <1>5, <1>6, <1>7, <1>8 DEF QueueOK, r

\* A message that is scheduled anew is the last of all.
LEMMA RescheduleIs ==
  ASSUME NEW q, QueueOK(q), NEW m \in Messages
  PROVE  /\ QueueOK(Reschedule(q, m))
         /\ Range(Reschedule(q, m)) = Range(q) \cup {m}
         /\ \A a, b : a # m /\ Precedes(q, a, b) => Precedes(Reschedule(q, m), a, b)
         /\ \A a \in Range(q) : a # m => Precedes(Reschedule(q, m), a, m)
<1>. DEFINE r == RemoveFirst(q, m)
<1>1. /\ QueueOK(r) /\ Range(r) = Range(q) \ {m}
      /\ \A a, b : a # m /\ b # m /\ Precedes(q, a, b) => Precedes(r, a, b)
  BY RemoveFirstIs
<1>2. \A a, b : Precedes(q, a, b) => a \in Range(q)
  BY DEF Precedes, Range
<1>. HIDE DEF r
<1>3. /\ QueueOK(Append(r, m))
      /\ Range(Append(r, m)) = Range(r) \cup {m}
      /\ \A a, b : Precedes(r, a, b) => Precedes(Append(r, m), a, b)
      /\ \A a \in Range(r) : Precedes(Append(r, m), a, m)
  BY <1>1, AppendIs
<1>4. Reschedule(q, m) = Append(r, m)
  BY DEF Reschedule, r
<1>. QED
  BY <1>1, <1>2, <1>3, <1>4

\* The message that is handled is queued no more; none was before it.
LEMMA TailIs ==
  ASSUME NEW q, QueueOK(q), q # <<>>
  PROVE  /\ Head(q) \in Range(q)
         /\ QueueOK(Tail(q))
         /\ Range(Tail(q)) = Range(q) \ {Head(q)}
         /\ \A a, b : a # Head(q) /\ Precedes(q, a, b) => Precedes(Tail(q), a, b)
         /\ \A a : ~Precedes(q, a, Head(q))
<1>1. /\ q \in Seq(Messages) /\ IsInjective(q)
      /\ Len(q) \in Nat \ {0} /\ DOMAIN q = 1 .. Len(q) /\ Head(q) = q[1]
      /\ Tail(q) \in Seq(Messages) /\ DOMAIN Tail(q) = 1 .. Len(q) - 1
      /\ \A i \in 1 .. Len(q) - 1 : Tail(q)[i] = q[i + 1]
  BY DEF QueueOK
<1>. DEFINE t == Tail(q)  h == Head(q)
<1>2. /\ \A i \in DOMAIN t : i + 1 \in DOMAIN q /\ i + 1 # 1 /\ t[i] = q[i + 1] /\ i \in Int
      /\ \A i \in DOMAIN q : i # 1 => i - 1 \in DOMAIN t /\ t[i - 1] = q[i]
      /\ 1 \in DOMAIN q /\ \A i \in DOMAIN q : i \in Int /\ 1 <= i
  <2>1. \A i \in DOMAIN t : i + 1 \in DOMAIN q /\ i + 1 # 1 /\ t[i] = q[i + 1] /\ i \in Int
    BY <1>1
  <2>2. ASSUME NEW i \in DOMAIN q, i # 1 PROVE i - 1 \in DOMAIN t /\ t[i - 1] = q[i]
    <3>1. i - 1 \in 1 .. Len(q) - 1 /\ (i - 1) + 1 = i
      BY <1>1, <2>2
    <3>. QED
      BY <1>1, <3>1
  <2>3. 1 \in DOMAIN q /\ \A i \in DOMAIN q : i \in Int /\ 1 <= i
    BY <1>1
  <2>. QED
    BY <2>1, <2>2, <2>3
<1>. HIDE DEF t, h
<1>3. h = q[1]
  BY <1>1 DEF h
<1>4. IsInjective(t)
  <2>. SUFFICES ASSUME NEW i \in DOMAIN t, NEW j \in DOMAIN t, t[i] = t[j] PROVE i = j
    BY DEF IsInjective
  <2>1. i + 1 = j + 1
    BY <1>1, <1>2 DEF IsInjective
  <2>. QED
    BY <1>2, <2>1
<1>5. Range(t) = Range(q) \ {h}
  <2>1. \A x \in Range(t) : x \in Range(q) /\ x # h
    BY <1>1, <1>2, <1>3 DEF Range, IsInjective
  <2>2. \A x \in Range(q) : x # h => x \in Range(t)
    BY <1>2, <1>3 DEF Range
  <2>. QED
    BY <2>1, <2>2
<1>6. ASSUME NEW a, NEW b, a # h, Precedes(q, a, b) PROVE Precedes(t, a, b)
  <2>1. PICK i \in DOMAIN q, j \in DOMAIN q : i < j /\ q[i] = a /\ q[j] = b
    BY <1>6 DEF Precedes
  <2>2. i # 1 /\ j # 1 /\ i - 1 < j - 1
    BY <1>2, <1>3, <1>6, <2>1
  <2>. QED
    BY <1>2, <2>1, <2>2 DEF Precedes
<1>7. ASSUME NEW a, Precedes(q, a, h) PROVE FALSE
  <2>1. PICK i \in DOMAIN q, j \in DOMAIN q : i < j /\ q[i] = a /\ q[j] = h
    BY <1>7 DEF Precedes
  <2>2. j = 1
    BY <1>1, <1>2, <1>3, <2>1 DEF IsInjective
  <2>. QED
    BY <1>2, <2>1, <2>2
<1>. QED
  BY <1>1, <1>2, <1>3, <1>4, <1>5, <1>6, <1>7 DEF QueueOK, Range, t, h

-----------------------------------------------------------------------------
\* What a step does to the queue

\* The names of the messages are different.
LEMMA Names ==
  /\ CYCLE_TIMER # LIST_EXECUTE /\ CYCLE_TIMER # LIST_CONFIG /\ LIST_EXECUTE # LIST_CONFIG
  /\ Machines = {CYCLE_TIMER, LIST_EXECUTE, LIST_CONFIG}
  /\ TICK \notin Machines /\ START \notin Machines /\ STOP \notin Machines /\ SEND \notin Machines
  /\ TICK # START /\ TICK # STOP /\ TICK # SEND
  /\ START # STOP /\ START # SEND /\ STOP # SEND
  /\ Messages = {CYCLE_TIMER, LIST_EXECUTE, LIST_CONFIG, TICK, START, STOP, SEND}
BY DEF CYCLE_TIMER, LIST_EXECUTE, LIST_CONFIG, TICK, START, STOP, SEND, Machines, Messages

\* r is q without the messages in gone, and with those in back behind the others;
\* where the clock's event is now is said apart.
Effect(q, r, gone, back) ==
  /\ QueueOK(r)
  /\ \A x : x # TICK =>
       (x \in Range(r) <=> x \in back \/ (x \in Range(q) /\ x \notin gone))
  /\ \A a, b :
       /\ a \notin gone /\ a \notin back /\ a # TICK
       /\ b \in Range(r)
       /\ Precedes(q, a, b) \/ (a \in Range(q) /\ b \in back)
       => Precedes(r, a, b)

\* The clock's event is the last message, if it is one.
TickLast(r) ==
  \A a \in Range(r) : a # TICK /\ TICK \in Range(r) => Precedes(r, a, TICK)

Due(ts) == \E m \in Machines : ts[m] = 0

LEMMA InQueue ==
  ASSUME NEW q, NEW a, NEW b, Precedes(q, a, b)
  PROVE  a \in Range(q) /\ b \in Range(q)
BY DEF Precedes, Range

\* A call of the clock.
LEMMA ClockCalledIs ==
  ASSUME NEW q, QueueOK(q), NEW ts
  PROVE  /\ Effect(q, ClockCalled(q, ts), {}, {})
         /\ TICK \in Range(ClockCalled(q, ts)) <=> Due(ts)
         /\ TickLast(ClockCalled(q, ts))
<1>1. TICK \in Messages
  BY Names
<1>2. CASE Due(ts)
  <2>1. ClockCalled(q, ts) = Reschedule(q, TICK)
    BY <1>2 DEF ClockCalled, Due
  <2>. QED
    BY <1>1, <1>2, <2>1, RescheduleIs DEF Effect, TickLast
<1>3. CASE ~Due(ts)
  <2>1. ClockCalled(q, ts) = RemoveFirst(q, TICK)
    BY <1>3 DEF ClockCalled, Due
  <2>. QED
    BY <1>1, <1>3, <2>1, RemoveFirstIs DEF Effect, TickLast
<1>. QED
  BY <1>2, <1>3

\* The message of a machine is handled, and its timestamp given up.
LEMMA QueueWithoutIs ==
  ASSUME QueueOK(queue), QueueInv, NEW m \in Machines, Handles(m),
         timestamps \in [Machines -> Nat \cup {Never}]
  PROVE  /\ Effect(queue, QueueWithout(m), {m}, {})
         /\ TICK \in Range(QueueWithout(m)) <=> Due(TimestampsWithout(m))
         /\ In(m)
         /\ \A a : ~Before(a, m)
<1>1. queue # <<>> /\ Head(queue) = m /\ m # TICK
  BY Names DEF Handles
<1>2. /\ QueueOK(Tail(queue)) /\ Range(Tail(queue)) = Range(queue) \ {m} /\ m \in Range(queue)
      /\ \A a, b : a # m /\ Precedes(queue, a, b) => Precedes(Tail(queue), a, b)
      /\ \A a : ~Precedes(queue, a, m)
  BY <1>1, TailIs
<1>3. CASE m \in subscribed
  <2>1. QueueWithout(m) = ClockCalled(Tail(queue), TimestampsWithout(m))
    BY <1>3 DEF QueueWithout
  <2>2. /\ Effect(Tail(queue), QueueWithout(m), {}, {})
        /\ TICK \in Range(QueueWithout(m)) <=> Due(TimestampsWithout(m))
    BY <1>2, <2>1, ClockCalledIs
  <2>. QED
    BY <1>2, <2>2 DEF Effect, In, Before
<1>4. CASE m \notin subscribed
  <2>1. QueueWithout(m) = Tail(queue)
    BY <1>4 DEF QueueWithout
  <2>2. TimestampsWithout(m) = timestamps
    BY <1>4 DEF QueueInv, TimestampsWithout
  <2>3. TICK \in Range(queue) <=> Due(timestamps)
    BY DEF QueueInv, Due, In
  <2>. QED
    BY <1>1, <1>2, <2>1, <2>2, <2>3 DEF Effect, In, Before
<1>. QED
  BY <1>3, <1>4

\* A message is scheduled anew after that.
LEMMA RescheduleEffect ==
  ASSUME NEW q, NEW r, NEW gone, NEW back, Effect(q, r, gone, back),
         NEW m \in Messages, m # TICK
  PROVE  /\ Effect(q, Reschedule(r, m), gone, back \cup {m})
         /\ TICK \in Range(Reschedule(r, m)) <=> TICK \in Range(r)
         /\ \A a \in Range(r) : a # m => Precedes(Reschedule(r, m), a, m)
<1>1. QueueOK(r)
  BY DEF Effect
<1>. DEFINE n == Reschedule(r, m)
<1>2. /\ QueueOK(n)
      /\ Range(n) = Range(r) \cup {m}
      /\ \A a, b : a # m /\ Precedes(r, a, b) => Precedes(n, a, b)
      /\ \A a \in Range(r) : a # m => Precedes(n, a, m)
  BY <1>1, RescheduleIs
<1>. HIDE DEF n
<1>3. /\ \A x : x # TICK => (x \in Range(r) <=> x \in back \/ (x \in Range(q) /\ x \notin gone))
      /\ \A a, b :
           /\ a \notin gone /\ a \notin back /\ a # TICK
           /\ b \in Range(r)
           /\ Precedes(q, a, b) \/ (a \in Range(q) /\ b \in back)
           => Precedes(r, a, b)
  BY DEF Effect
<1>4. ASSUME NEW a, NEW b, a \notin gone, a \notin back \cup {m}, a # TICK, b \in Range(n),
             Precedes(q, a, b) \/ (a \in Range(q) /\ b \in back \cup {m})
      PROVE  Precedes(n, a, b)
  <2>1. a \in Range(q)
    BY <1>4, InQueue
  <2>2. a \in Range(r) /\ a # m
    BY <1>3, <1>4, <2>1
  <2>3. CASE b # m
    <3>1. Precedes(r, a, b)
      BY <1>2, <1>3, <1>4, <2>3
    <3>. QED
      BY <1>2, <2>2, <3>1
  <2>. QED
    BY <1>2, <2>2, <2>3
<1>5. \A x : x # TICK => (x \in Range(n) <=> x \in back \cup {m} \/ (x \in Range(q) /\ x \notin gone))
  BY <1>2, <1>3
<1>6. TICK \in Range(n) <=> TICK \in Range(r)
  BY <1>2
<1>. QED
  BY <1>2, <1>4, <1>5, <1>6 DEF Effect, n

\* The clock is called after that.
LEMMA ClockCalledEffect ==
  ASSUME NEW q, NEW r, NEW gone, NEW back, Effect(q, r, gone, back), TICK \notin back, NEW ts
  PROVE  /\ Effect(q, ClockCalled(r, ts), gone, back)
         /\ TICK \in Range(ClockCalled(r, ts)) <=> Due(ts)
         /\ TickLast(ClockCalled(r, ts))
<1>1. QueueOK(r)
  BY DEF Effect
<1>2. /\ Effect(r, ClockCalled(r, ts), {}, {})
      /\ TICK \in Range(ClockCalled(r, ts)) <=> Due(ts)
      /\ TickLast(ClockCalled(r, ts))
  BY <1>1, ClockCalledIs
<1>3. ASSUME NEW a, NEW b, a \notin gone, a \notin back, a # TICK,
             b \in Range(ClockCalled(r, ts)),
             Precedes(q, a, b) \/ (a \in Range(q) /\ b \in back)
      PROVE  Precedes(ClockCalled(r, ts), a, b)
  <2>1. a \in Range(ClockCalled(r, ts))
    BY <1>2, <1>3, InQueue DEF Effect
  <2>2. CASE b = TICK
    BY <1>2, <1>3, <2>1, <2>2 DEF TickLast
  <2>3. CASE b # TICK
    <3>1. b \in Range(r)
      BY <1>2, <1>3, <2>3 DEF Effect
    <3>2. Precedes(r, a, b)
      BY <1>3, <3>1 DEF Effect
    <3>. QED
      BY <1>2, <1>3, <3>2 DEF Effect
  <2>. QED
    BY <2>2, <2>3
<1>4. \A x : x # TICK => (x \in Range(ClockCalled(r, ts)) <=> x \in Range(r))
  BY <1>2 DEF Effect
<1>5. \A x : x # TICK => (x \in Range(r) <=> x \in back \/ (x \in Range(q) /\ x \notin gone))
  BY DEF Effect
<1>6. QueueOK(ClockCalled(r, ts))
  BY <1>2 DEF Effect
<1>. QED
  BY <1>2, <1>3, <1>4, <1>5, <1>6 DEF Effect

-----------------------------------------------------------------------------
\* What a step of a machine does to the queue and the timestamps

\* Machine m gives up its timestamp.
LEMMA GivenUp ==
  ASSUME timestamps \in [Machines -> Nat \cup {Never}], NEW m \in Machines
  PROVE  /\ TimestampsWithout(m) \in [Machines -> Nat \cup {Never}]
         /\ TimestampsWithout(m)[m] = Never
         /\ \A k \in Machines : k # m => TimestampsWithout(m)[k] = timestamps[k]
BY DEF TimestampsWithout, Never

\* A timestamp is due when one of the three is.
LEMMA DueIs ==
  ASSUME NEW ts
  PROVE  Due(ts) <=> ts[CYCLE_TIMER] = 0 \/ ts[LIST_EXECUTE] = 0 \/ ts[LIST_CONFIG] = 0
BY Names DEF Due

\* The invariant's view of the queue and the timestamps.
LEMMA InvIs ==
  ASSUME SenderInv
  PROVE  /\ timestamps \in [Machines -> Nat \cup {Never}] /\ QueueOK(queue)
         /\ In(TICK) <=> Due(timestamps)
BY DEF SenderInv, SenderTypeOK, TypeOK, QueueInv, QueueOK, Messages, Due

\* The timestamps of the others.
KeptBut(m, ts) ==
  /\ ts \in [Machines -> Nat \cup {Never}]
  /\ \A k \in Machines : k # m => ts[k] = timestamps[k]

\* The message of machine m is handled.
LEMMA HandledIs ==
  ASSUME SenderInv, NEW m \in Machines, Handles(m)
  PROVE  /\ Effect(queue, QueueWithout(m), {m}, {})
         /\ TICK \in Range(QueueWithout(m)) <=> Due(TimestampsWithout(m))
         /\ In(m) /\ \A a : ~Before(a, m)
         /\ KeptBut(m, TimestampsWithout(m)) /\ TimestampsWithout(m)[m] = Never
<1>1. QueueInv /\ QueueOK(queue) /\ timestamps \in [Machines -> Nat \cup {Never}]
  BY InvIs DEF SenderInv
<1>. QED
  BY <1>1, QueueWithoutIs, GivenUp DEF KeptBut

\* The machine does nothing more at this instant.
LEMMA LeavesIs ==
  ASSUME SenderInv, NEW m \in Machines, Handles(m), NoTimestamp(m), queue' = QueueWithout(m)
  PROVE  /\ Effect(queue, queue', {m}, {})
         /\ In(TICK)' <=> Due(timestamps')
         /\ In(m) /\ \A a : ~Before(a, m)
         /\ KeptBut(m, timestamps')
         /\ timestamps'[m] = Never
         /\ subscribed' = subscribed
BY HandledIs DEF NoTimestamp, In

\* The machine goes on at this instant.
LEMMA GoesOnIs ==
  ASSUME SenderInv, NEW m \in Machines, Handles(m), NoTimestamp(m),
         queue' = Reschedule(QueueWithout(m), m)
  PROVE  /\ Effect(queue, queue', {m}, {m})
         /\ In(TICK)' <=> Due(timestamps')
         /\ In(m) /\ \A a : ~Before(a, m)
         /\ KeptBut(m, timestamps')
         /\ timestamps'[m] = Never
         /\ subscribed' = subscribed
<1>1. m \in Messages /\ m # TICK
  BY Names
<1>2. /\ Effect(queue, queue', {m}, {} \cup {m})
      /\ TICK \in Range(queue') <=> TICK \in Range(QueueWithout(m))
  BY <1>1, HandledIs, RescheduleEffect
<1>. QED
  BY <1>2, HandledIs DEF NoTimestamp, In

\* The machine subscribes a timestamp; others are told by messages in back.
LEMMA SubscribeIs ==
  ASSUME SenderInv, NEW m \in Machines, NEW t \in Nat, NEW q, NEW back,
         Effect(queue, q, {m}, back), TICK \notin back, Subscribe(m, t, q)
  PROVE  /\ Effect(queue, queue', {m}, back)
         /\ In(TICK)' <=> Due(timestamps')
         /\ TickLast(queue')
         /\ KeptBut(m, timestamps')
         /\ timestamps'[m] = t
         /\ subscribed' = subscribed \cup {m}
<1>1. timestamps \in [Machines -> Nat \cup {Never}]
  BY InvIs
<1>2. KeptBut(m, timestamps') /\ timestamps'[m] = t
  BY <1>1 DEF KeptBut, Subscribe
<1>3. queue' = ClockCalled(q, timestamps')
  BY DEF Subscribe
<1>. QED
  BY <1>2, <1>3, ClockCalledEffect DEF Subscribe, In

\* A message is appended to what a step does.
LEMMA AppendEffect ==
  ASSUME NEW q, NEW r, NEW gone, NEW back, Effect(q, r, gone, back),
         NEW m \in Messages, m # TICK, m \notin Range(r)
  PROVE  /\ Effect(q, Append(r, m), gone, back \cup {m})
         /\ TICK \in Range(Append(r, m)) <=> TICK \in Range(r)
<1>. DEFINE n == Append(r, m)
<1>1. QueueOK(r)
  BY DEF Effect
<1>2. /\ QueueOK(n)
      /\ Range(n) = Range(r) \cup {m}
      /\ \A a, b : Precedes(r, a, b) => Precedes(n, a, b)
      /\ \A a \in Range(r) : Precedes(n, a, m)
  BY <1>1, AppendIs
<1>. HIDE DEF n
<1>3. /\ \A x : x # TICK => (x \in Range(r) <=> x \in back \/ (x \in Range(q) /\ x \notin gone))
      /\ \A a, b :
           /\ a \notin gone /\ a \notin back /\ a # TICK
           /\ b \in Range(r)
           /\ Precedes(q, a, b) \/ (a \in Range(q) /\ b \in back)
           => Precedes(r, a, b)
  BY DEF Effect
<1>4. ASSUME NEW a, NEW b, a \notin gone, a \notin back \cup {m}, a # TICK, b \in Range(n),
             Precedes(q, a, b) \/ (a \in Range(q) /\ b \in back \cup {m})
      PROVE  Precedes(n, a, b)
  <2>1. a \in Range(q)
    BY <1>4, InQueue
  <2>2. a \in Range(r)
    BY <1>3, <1>4, <2>1
  <2>3. CASE b # m
    <3>1. Precedes(r, a, b)
      BY <1>2, <1>3, <1>4, <2>3
    <3>. QED
      BY <1>2, <3>1
  <2>. QED
    BY <1>2, <2>2, <2>3
<1>5. \A x : x # TICK => (x \in Range(n) <=> x \in back \cup {m} \/ (x \in Range(q) /\ x \notin gone))
  BY <1>2, <1>3
<1>6. TICK \in Range(n) <=> TICK \in Range(r)
  BY <1>2
<1>. QED
  BY <1>2, <1>4, <1>5, <1>6 DEF Effect, n

\* A message is taken out after that.
LEMMA RemoveEffect ==
  ASSUME NEW q, NEW r, NEW gone, Effect(q, r, gone, {}), NEW m, m # TICK
  PROVE  /\ Effect(q, RemoveFirst(r, m), gone \cup {m}, {})
         /\ TICK \in Range(RemoveFirst(r, m)) <=> TICK \in Range(r)
<1>. DEFINE n == RemoveFirst(r, m)
<1>1. QueueOK(r)
  BY DEF Effect
<1>2. /\ QueueOK(n)
      /\ Range(n) = Range(r) \ {m}
      /\ \A a, b : a # m /\ b # m /\ Precedes(r, a, b) => Precedes(n, a, b)
  BY <1>1, RemoveFirstIs
<1>. HIDE DEF n
<1>3. /\ \A x : x # TICK => (x \in Range(r) <=> x \in Range(q) /\ x \notin gone)
      /\ \A a, b : a \notin gone /\ a # TICK /\ b \in Range(r) /\ Precedes(q, a, b)
                     => Precedes(r, a, b)
  BY DEF Effect
<1>4. ASSUME NEW a, NEW b, a \notin gone \cup {m}, a # TICK, b \in Range(n), Precedes(q, a, b)
      PROVE  Precedes(n, a, b)
  BY <1>2, <1>3, <1>4
<1>5. \A x : x # TICK => (x \in Range(n) <=> x \in Range(q) /\ x \notin gone \cup {m})
  BY <1>2, <1>3
<1>6. TICK \in Range(n) <=> TICK \in Range(r)
  BY <1>2
<1>. QED
  BY <1>2, <1>4, <1>5, <1>6 DEF Effect, n

\* Nothing happens to the queue, or its first message is handled.
LEMMA TailEffect ==
  ASSUME QueueOK(queue)
  PROVE  /\ Effect(queue, queue, {}, {})
         /\ queue # <<>> =>
              /\ Effect(queue, Tail(queue), {Head(queue)}, {})
              /\ TICK \in Range(Tail(queue)) <=> TICK \in Range(queue) /\ Head(queue) # TICK
              /\ In(Head(queue)) /\ \A a : ~Before(a, Head(queue))
BY TailIs DEF Effect, In, Before

\* The cycle timer's message to a manager that is disabled.
LEMMA CycleTimerDisabledStep ==
  ASSUME SenderInv, CycleTimerDisabled,
         ManagerStep
  PROVE  SenderInv'
<1>. USE DEF In, Before, adminVars, cycleTimerVars, listExecuteVars, listConfigVars, clockVars
<1>1. /\ SenderTypeOK /\ ~failed /\ Counted(adminSchedule) /\ Counted(operSchedule)
      /\ QueueInv /\ DisabledInv /\ OperatingInv /\ UpdateInv
  BY DEF SenderInv, CycleTimerDisabled, SenderTypeOK
<1>2. /\ Handles(CYCLE_TIMER)
      /\ ~enabled
      /\ cycleTimerState' = nextCycleTimerState
      /\ UNCHANGED <<enabled, nextCycleTimerState, cycleStartTime, adminVars,
                     listExecuteVars, listConfigVars, failed>>
      /\ operating' = operating /\ sent' \in Seq(States)
  BY <1>1 DEF CycleTimerDisabled, SenderTypeOK, ManagerStep
<1>3. /\ Effect(queue, queue', {CYCLE_TIMER}, {})
      /\ In(TICK)' <=> Due(timestamps')
      /\ In(TICK) <=> Due(timestamps)
      /\ In(CYCLE_TIMER) /\ \A a : ~Before(a, CYCLE_TIMER)
      /\ KeptBut(CYCLE_TIMER, timestamps')
      /\ timestamps'[CYCLE_TIMER] = Never
      /\ subscribed' = subscribed
  BY <1>2, LeavesIs, InvIs, Names DEF CycleTimerDisabled
<1>4. SenderTypeOK' /\ ~failed' /\ Counted(adminSchedule)' /\ Counted(operSchedule)'
  BY <1>1, <1>2, <1>3, Names DEF SenderTypeOK, TypeOK, Effect, QueueOK, KeptBut, Messages
<1>5. QueueInv'
  BY <1>1, <1>2, <1>3, Names DEF QueueInv, Effect, QueueOK, KeptBut, Due
<1>6. DisabledInv'
  BY <1>1, <1>2, <1>3, Names DEF DisabledInv, Effect, KeptBut
<1>7. OperatingInv'
  BY <1>1, <1>2, <1>3, Names DEF OperatingInv, Effect, KeptBut
<1>8. UpdateInv'
  BY <1>1, <1>2, <1>3, Names DEF UpdateInv, FirstSet, Effect, KeptBut, DisabledInv
<1>. QED
  BY <1>1, <1>2, <1>4, <1>5, <1>6, <1>7, <1>8 DEF SenderInv

\* The list machine's message to a manager that is disabled.
LEMMA ListExecuteDisabledStep ==
  ASSUME SenderInv, ListExecuteDisabled,
         ManagerStep
  PROVE  SenderInv'
<1>. USE DEF In, Before, adminVars, cycleTimerVars, listExecuteVars, listConfigVars, clockVars
<1>1. /\ SenderTypeOK /\ ~failed /\ Counted(adminSchedule) /\ Counted(operSchedule)
      /\ QueueInv /\ DisabledInv /\ OperatingInv /\ UpdateInv
  BY DEF SenderInv, ListExecuteDisabled, SenderTypeOK
<1>2. /\ Handles(LIST_EXECUTE)
      /\ ~enabled
      /\ listExecuteState' = nextListExecuteState
      /\ age' = Never
      /\ UNCHANGED <<nextListExecuteState, listPointer, operState, exitTimer,
                     adminVars, cycleTimerVars, listConfigVars, failed>>
      /\ operating' = operating /\ sent' \in Seq(States)
  BY <1>1 DEF ListExecuteDisabled, SenderTypeOK, ManagerStep
<1>3. /\ Effect(queue, queue', {LIST_EXECUTE}, {})
      /\ In(TICK)' <=> Due(timestamps')
      /\ In(TICK) <=> Due(timestamps)
      /\ In(LIST_EXECUTE) /\ \A a : ~Before(a, LIST_EXECUTE)
      /\ KeptBut(LIST_EXECUTE, timestamps')
      /\ timestamps'[LIST_EXECUTE] = Never
      /\ subscribed' = subscribed
  BY <1>2, LeavesIs, InvIs, Names DEF ListExecuteDisabled
<1>4. SenderTypeOK' /\ ~failed' /\ Counted(adminSchedule)' /\ Counted(operSchedule)'
  BY <1>1, <1>2, <1>3, Names DEF SenderTypeOK, TypeOK, Effect, QueueOK, KeptBut, Messages
<1>5. QueueInv'
  BY <1>1, <1>2, <1>3, Names DEF QueueInv, Effect, QueueOK, KeptBut, Due
<1>6. DisabledInv'
  BY <1>1, <1>2, <1>3, Names DEF DisabledInv, Effect, KeptBut
<1>7. OperatingInv'
  BY <1>1, <1>2, <1>3, Names DEF OperatingInv, Effect, KeptBut
<1>8. UpdateInv'
  BY <1>1, <1>2, <1>3, Names DEF UpdateInv, FirstSet, Effect, KeptBut, DisabledInv
<1>. QED
  BY <1>1, <1>2, <1>4, <1>5, <1>6, <1>7, <1>8 DEF SenderInv

\* The list config machine's message to a manager that is disabled.
LEMMA ListConfigDisabledStep ==
  ASSUME SenderInv, ListConfigDisabled,
         ManagerStep
  PROVE  SenderInv'
<1>. USE DEF In, Before, adminVars, cycleTimerVars, listExecuteVars, listConfigVars, clockVars
<1>1. /\ SenderTypeOK /\ ~failed /\ Counted(adminSchedule) /\ Counted(operSchedule)
      /\ QueueInv /\ DisabledInv /\ OperatingInv /\ UpdateInv
  BY DEF SenderInv, ListConfigDisabled, SenderTypeOK
<1>2. /\ Handles(LIST_CONFIG)
      /\ ~enabled
      /\ listConfigState' = nextListConfigState
      /\ UNCHANGED <<nextListConfigState, operSchedule, configPending,
                     configChangeTime, adminVars, cycleTimerVars, listExecuteVars,
                     failed>>
      /\ operating' = operating /\ sent' \in Seq(States)
  BY <1>1 DEF ListConfigDisabled, SenderTypeOK, ManagerStep
<1>3. /\ Effect(queue, queue', {LIST_CONFIG}, {})
      /\ In(TICK)' <=> Due(timestamps')
      /\ In(TICK) <=> Due(timestamps)
      /\ In(LIST_CONFIG) /\ \A a : ~Before(a, LIST_CONFIG)
      /\ KeptBut(LIST_CONFIG, timestamps')
      /\ timestamps'[LIST_CONFIG] = Never
      /\ subscribed' = subscribed
  BY <1>2, LeavesIs, InvIs, Names DEF ListConfigDisabled
<1>4. SenderTypeOK' /\ ~failed' /\ Counted(adminSchedule)' /\ Counted(operSchedule)'
  BY <1>1, <1>2, <1>3, Names DEF SenderTypeOK, TypeOK, Effect, QueueOK, KeptBut, Messages
<1>5. QueueInv'
  BY <1>1, <1>2, <1>3, Names DEF QueueInv, Effect, QueueOK, KeptBut, Due
<1>6. DisabledInv'
  BY <1>1, <1>2, <1>3, Names DEF DisabledInv, Effect, KeptBut
<1>7. OperatingInv'
  BY <1>1, <1>2, <1>3, Names DEF OperatingInv, Effect, KeptBut
<1>8. UpdateInv'
  BY <1>1, <1>2, <1>3, Names DEF UpdateInv, FirstSet, Effect, KeptBut, DisabledInv
<1>. QED
  BY <1>1, <1>2, <1>4, <1>5, <1>6, <1>7, <1>8 DEF SenderInv

\* The cycle timer starts, at the beginning or after an exchange.
LEMMA CycleIdleStep ==
  ASSUME SenderInv, CycleIdle,
         ManagerStep
  PROVE  SenderInv'
<1>. USE DEF In, Before, adminVars, cycleTimerVars, listExecuteVars, listConfigVars, clockVars
<1>1. /\ SenderTypeOK /\ ~failed /\ Counted(adminSchedule) /\ Counted(operSchedule)
      /\ QueueInv /\ OperatingInv /\ UpdateInv /\ StartInv /\ ConfigInv /\ TimerInv
      /\ RestartInv /\ OrderInv /\ ListInv /\ SendInv /\ PlaceInv
  BY DEF SenderInv, CycleIdle
<1>2. /\ Handles(CYCLE_TIMER)
      /\ enabled /\ nextCycleTimerState = "CYCLE_IDLE"
      /\ cycleTimerState' = "CYCLE_IDLE" /\ nextCycleTimerState' = "SET_CYCLE_START_TIME"
      /\ UNCHANGED <<cycleStartTime, adminVars, listExecuteVars, listConfigVars,
                     failed>>
      /\ operating' = operating /\ sent' = sent
  BY <1>1 DEF CycleIdle, ManagerStep, ListInv
<1>3. /\ Effect(queue, queue', {CYCLE_TIMER}, {CYCLE_TIMER})
      /\ In(TICK)' <=> Due(timestamps')
      /\ In(TICK) <=> Due(timestamps)
      /\ In(CYCLE_TIMER) /\ \A a : ~Before(a, CYCLE_TIMER)
      /\ KeptBut(CYCLE_TIMER, timestamps')
      /\ timestamps'[CYCLE_TIMER] = Never
      /\ subscribed' = subscribed
  BY <1>2, GoesOnIs, InvIs, Names DEF CycleIdle
<1>4. SenderTypeOK' /\ ~failed' /\ Counted(adminSchedule)' /\ Counted(operSchedule)'
  BY <1>1, <1>2, <1>3, Names DEF SenderTypeOK, TypeOK, Effect, QueueOK, KeptBut, Messages
<1>5. QueueInv'
  BY <1>1, <1>2, <1>3, Names DEF QueueInv, Effect, QueueOK, KeptBut, Due
<1>6. enabled' = enabled
  BY <1>2
<1>7. OperatingInv'
  BY <1>1, <1>2, <1>3, Names DEF OperatingInv, Effect, KeptBut
<1>8. UpdateInv'
  BY <1>1, <1>2, <1>3, Names DEF UpdateInv, FirstSet, Effect, KeptBut
<1>9. StartInv'
  BY <1>1, <1>2, <1>3, Names, InQueue DEF StartInv, ConfigInv, Effect, KeptBut
<1>10. ConfigInv'
  BY <1>1, <1>2, <1>3, Names DEF ConfigInv, TimerLives, AdminStart, Effect, KeptBut
<1>11. TimerInv'
  BY <1>1, <1>2, <1>3, Names DEF TimerInv, TimerLives, Effect, KeptBut
<1>12. RestartInv'
  BY <1>1, <1>2, <1>3, Names, DueIs, InQueue
    DEF RestartInv, FirstSet, OperStart, Never, Effect, KeptBut, UpdateInv
<1>13. OrderInv'
  BY <1>1, <1>2, <1>3, Names, DueIs DEF OrderInv, Never, Effect, KeptBut, RestartInv
<1>14. ListInv'
  BY <1>1, <1>2, <1>3, Names DEF ListInv, Effect, KeptBut
<1>15. SendInv'
  BY <1>1, <1>2, <1>3, Names DEF SendInv, Effect, KeptBut
<1>16. PlaceInv'
  BY <1>1, <1>2, <1>3, Names
    DEF PlaceInv, Restarting, SentFirst, SentOrSending, Executed, Effect, KeptBut
<1>. QED
  BY <1>1, <1>2, <1>4, <1>5, <1>6, <1>7, <1>8, <1>9, <1>10, <1>11, <1>12, <1>13, <1>14, <1>15,
     <1>16 DEF SenderInv, DisabledInv

\* The cycle timer plans the next cycle: setCycleStartTime finds a time that is not
\* past, within a cycle or at the change that is pending.
LEMMA SetCycleStartTimeStep ==
  ASSUME SenderInv, SetCycleStartTime,
         ManagerStep
  PROVE  SenderInv'
<1>. USE DEF In, Before, adminVars, cycleTimerVars, listExecuteVars, listConfigVars, clockVars
<1>1. /\ SenderTypeOK /\ ~failed /\ Counted(adminSchedule) /\ Counted(operSchedule)
      /\ QueueInv /\ OperatingInv /\ UpdateInv /\ StartInv /\ ConfigInv /\ TimerInv
      /\ RestartInv /\ OrderInv /\ ListInv /\ SendInv /\ PlaceInv
  BY DEF SenderInv, SetCycleStartTime
<1>2. /\ Handles(CYCLE_TIMER)
      /\ enabled /\ nextCycleTimerState = "SET_CYCLE_START_TIME"
      /\ cycleTimerState' = "SET_CYCLE_START_TIME" /\ nextCycleTimerState' = "START_CYCLE"
      /\ cycleStartTime' = CycleStartTime /\ CycleStartTime \in Nat
      /\ In(CYCLE_TIMER) /\ (\A a : ~Before(a, CYCLE_TIMER))
      /\ Subscribe(CYCLE_TIMER, CycleStartTime, QueueWithout(CYCLE_TIMER))
      /\ UNCHANGED <<adminVars, listExecuteVars, listConfigVars, failed>>
      /\ operating' = operating /\ sent' = sent
  <2>1. Handles(CYCLE_TIMER) /\ In(CYCLE_TIMER) /\ \A a : ~Before(a, CYCLE_TIMER)
    BY HandledIs, Names DEF SetCycleStartTime
  <2>2. NextMultiple(operSchedule.baseTime, operSchedule.cycleTime) \in Nat
    BY <1>1, NextMultipleIs DEF SenderTypeOK, TypeOK, Schedule
  <2>3. configPending => configChangeTime \in Nat
    BY <1>1, <2>1 DEF SenderTypeOK, TypeOK, ConfigInv, TimerLives
  <2>4. CycleStartTime \in Nat
    BY <2>2, <2>3 DEF CycleStartTime
  <2>5. ~(CycleStartTime < 0)
    BY <2>4
  <2>. QED
    BY <1>1, <2>1, <2>4, <2>5 DEF SetCycleStartTime, ManagerStep, ListInv
<1>3. /\ Effect(queue, queue', {CYCLE_TIMER}, {}) /\ TickLast(queue')
      /\ In(TICK)' <=> Due(timestamps')
      /\ In(TICK) <=> Due(timestamps)
      /\ In(CYCLE_TIMER) /\ \A a : ~Before(a, CYCLE_TIMER)
      /\ KeptBut(CYCLE_TIMER, timestamps')
      /\ timestamps'[CYCLE_TIMER] = CycleStartTime
      /\ subscribed' = subscribed \cup {CYCLE_TIMER}
  BY <1>2, HandledIs, SubscribeIs, InvIs, Names
<1>4. CycleStartTime = 0 \/ age = Never \/ (cycleTimerState = "START_CYCLE" /\ age = 1)
  <2>1. CASE cycleTimerState = "START_CYCLE"
    BY <1>1, <1>2, <2>1 DEF TimerInv
  <2>2. CASE cycleTimerState # "START_CYCLE" /\ age # Never
    <3>1. FirstSet
      BY <1>1, <1>2, <2>2 DEF TimerInv, FirstSet
    <3>2. OperStart = 0 /\ ~configPending
      BY <1>1, <1>2, <2>2, <3>1 DEF RestartInv, UpdateInv
    <3>. QED
      BY <3>2 DEF CycleStartTime, OperStart
  <2>. QED
    BY <2>1, <2>2
<1>5. \/ CycleStartTime < operSchedule.cycleTime
      \/ configPending /\ CycleStartTime <= operSchedule.cycleTime + operSchedule.cycleTimeExtension
  <2>1. /\ operSchedule.baseTime \in Int /\ operSchedule.cycleTime \in Nat \ {0}
        /\ operSchedule.baseTime < operSchedule.cycleTime
    BY <1>1 DEF SenderTypeOK, TypeOK, Schedule
  <2>. QED
    BY <2>1, NextMultipleIs DEF CycleStartTime
<1>6. operSchedule.cycleTime \in Nat /\ operSchedule.cycleTimeExtension \in Nat
  BY <1>1 DEF SenderTypeOK, TypeOK, Schedule

<1>7. SenderTypeOK' /\ ~failed' /\ Counted(adminSchedule)' /\ Counted(operSchedule)'
  BY <1>1, <1>2, <1>3, <1>4, <1>5, <1>6, Names
    DEF SenderTypeOK, TypeOK, Effect, QueueOK, KeptBut, Messages
<1>8. QueueInv'
  BY <1>1, <1>2, <1>3, <1>4, <1>5, <1>6, Names DEF QueueInv, Effect, QueueOK, KeptBut, Due
<1>9. enabled' = enabled
  BY <1>2
<1>10. OperatingInv'
  BY <1>1, <1>2, <1>3, <1>4, <1>5, <1>6, Names DEF OperatingInv, Effect, KeptBut
<1>11. UpdateInv'
  BY <1>1, <1>2, <1>3, <1>4, <1>5, <1>6, Names DEF UpdateInv, FirstSet, Effect, KeptBut
<1>12. StartInv'
  BY <1>1, <1>2, <1>3, <1>4, <1>5, <1>6, Names DEF StartInv, ConfigInv, Effect, KeptBut
<1>13. ConfigInv'
  BY <1>1, <1>2, <1>3, <1>4, <1>5, <1>6, Names
    DEF ConfigInv, TimerLives, AdminStart, Effect, KeptBut
<1>14. TimerInv'
  BY <1>1, <1>2, <1>3, <1>4, <1>5, <1>6, Names DEF TimerInv, TimerLives, Effect, KeptBut, Never
<1>15. RestartInv'
  BY <1>1, <1>2, <1>3, <1>4, <1>5, <1>6, Names, DueIs, InQueue
    DEF RestartInv, FirstSet, OperStart, Never, Effect, KeptBut
<1>16. OrderInv'
  BY <1>1, <1>2, <1>3, <1>4, <1>5, <1>6, Names, DueIs DEF OrderInv, Never, Effect, KeptBut
<1>17. ListInv'
  BY <1>1, <1>2, <1>3, <1>4, <1>5, <1>6, Names DEF ListInv, Effect, KeptBut
<1>18. SendInv'
  BY <1>1, <1>2, <1>3, <1>4, <1>5, <1>6, Names DEF SendInv, Effect, KeptBut
<1>19. PlaceInv'
  BY <1>1, <1>2, <1>3, <1>4, <1>5, <1>6, Names
    DEF PlaceInv, Restarting, SentFirst, SentOrSending, Executed, Effect, KeptBut, RestartInv
<1>. QED
  BY <1>1, <1>2, <1>7, <1>8, <1>9, <1>10, <1>11, <1>12, <1>13, <1>14, <1>15, <1>16, <1>17,
     <1>18, <1>19 DEF SenderInv, DisabledInv

\* A cycle starts: the list machine is told.
LEMMA StartCycleStep ==
  ASSUME SenderInv, StartCycle,
         ManagerStep
  PROVE  SenderInv'
<1>. USE DEF In, Before, adminVars, cycleTimerVars, listExecuteVars, listConfigVars, clockVars
<1>1. /\ SenderTypeOK /\ ~failed /\ Counted(adminSchedule) /\ Counted(operSchedule)
      /\ QueueInv /\ OperatingInv /\ UpdateInv /\ StartInv /\ ConfigInv /\ TimerInv
      /\ RestartInv /\ OrderInv /\ ListInv /\ SendInv /\ PlaceInv
  BY DEF SenderInv, StartCycle
<1>2. /\ Handles(CYCLE_TIMER)
      /\ enabled /\ nextCycleTimerState = "START_CYCLE"
      /\ cycleTimerState' = "START_CYCLE" /\ nextCycleTimerState' = "SET_CYCLE_START_TIME"
      /\ nextListExecuteState' = "NEW_CYCLE"
      /\ UNCHANGED <<cycleStartTime, adminVars, listExecuteState, listPointer,
                     operState, exitTimer, age, listConfigVars, failed>>
      /\ operating' = operating /\ sent' = (IF listExecuteState' = "NEW_CYCLE" THEN <<>> ELSE sent)
  BY <1>1 DEF StartCycle, ManagerStep
<1>3. /\ Effect(queue, queue', {CYCLE_TIMER}, {LIST_EXECUTE}) /\ TickLast(queue')
      /\ In(TICK)' <=> Due(timestamps')
      /\ In(TICK) <=> Due(timestamps)
      /\ In(CYCLE_TIMER) /\ \A a : ~Before(a, CYCLE_TIMER)
      /\ KeptBut(CYCLE_TIMER, timestamps') /\ timestamps'[CYCLE_TIMER] = 1
      /\ subscribed' = subscribed \cup {CYCLE_TIMER}
  <2>. DEFINE q == Reschedule(QueueWithout(CYCLE_TIMER), LIST_EXECUTE)
  <2>1. Effect(queue, q, {CYCLE_TIMER}, {} \cup {LIST_EXECUTE})
    BY <1>2, HandledIs, RescheduleEffect, Names
  <2>2. Effect(queue, q, {CYCLE_TIMER}, {LIST_EXECUTE}) /\ Subscribe(CYCLE_TIMER, 1, q)
    BY <2>1 DEF StartCycle
  <2>3. TICK \notin {LIST_EXECUTE} /\ CYCLE_TIMER \in Machines /\ 1 \in Nat
    BY Names
  <2>. HIDE DEF q
  <2>4. /\ Effect(queue, queue', {CYCLE_TIMER}, {LIST_EXECUTE}) /\ TickLast(queue')
        /\ In(TICK)' <=> Due(timestamps')
        /\ KeptBut(CYCLE_TIMER, timestamps') /\ timestamps'[CYCLE_TIMER] = 1
        /\ subscribed' = subscribed \cup {CYCLE_TIMER}
    BY <2>2, <2>3, SubscribeIs
  <2>. QED
    BY <1>2, <2>3, <2>4, HandledIs, InvIs
<1>4. sent' = sent /\ listExecuteState # "NEW_CYCLE"
  BY <1>1, <1>2, <1>3 DEF ListInv, OrderInv

<1>5. SenderTypeOK' /\ ~failed' /\ Counted(adminSchedule)' /\ Counted(operSchedule)'
  BY <1>1, <1>2, <1>3, <1>4, Names DEF SenderTypeOK, TypeOK, Effect, QueueOK, KeptBut, Messages
<1>6. QueueInv'
  BY <1>1, <1>2, <1>3, <1>4, Names DEF QueueInv, Effect, QueueOK, KeptBut, Due
<1>7. enabled' = enabled
  BY <1>2
<1>8. OperatingInv'
  BY <1>1, <1>2, <1>3, <1>4, Names DEF OperatingInv, Effect, KeptBut
<1>9. UpdateInv'
  BY <1>1, <1>2, <1>3, <1>4, Names DEF UpdateInv, FirstSet, Effect, KeptBut
<1>10. StartInv'
  BY <1>1, <1>2, <1>3, <1>4, Names DEF StartInv, ConfigInv, Effect, KeptBut
<1>11. ConfigInv'
  BY <1>1, <1>2, <1>3, <1>4, Names DEF ConfigInv, TimerLives, AdminStart, Effect, KeptBut
<1>12. TimerInv'
  BY <1>1, <1>2, <1>3, <1>4, Names DEF TimerInv, TimerLives, Effect, KeptBut, Never
<1>13. RestartInv'
  BY <1>1, <1>2, <1>3, <1>4, Names, DueIs, InQueue
    DEF RestartInv, FirstSet, OperStart, Never, Effect, KeptBut
<1>14. OrderInv'
  BY <1>1, <1>2, <1>3, <1>4, Names, DueIs
    DEF OrderInv, Never, Effect, KeptBut, TickLast, TimerInv
<1>15. ListInv'
  BY <1>1, <1>2, <1>3, <1>4, Names DEF ListInv, Effect, KeptBut
<1>16. SendInv'
  BY <1>1, <1>2, <1>3, <1>4, Names DEF SendInv, Effect, KeptBut
<1>17. PlaceInv'
  BY <1>1, <1>2, <1>3, <1>4, Names
    DEF PlaceInv, Restarting, SentFirst, SentOrSending, Executed, Effect, KeptBut
<1>. QED
  BY <1>1, <1>2, <1>5, <1>6, <1>7, <1>8, <1>9, <1>10, <1>11, <1>12, <1>13, <1>14, <1>15, <1>16,
     <1>17 DEF SenderInv, DisabledInv

\* The list machine is initialised.
LEMMA ListInitStep ==
  ASSUME SenderInv, ListInit,
         ManagerStep
  PROVE  SenderInv'
<1>. USE DEF In, Before, adminVars, cycleTimerVars, listExecuteVars, listConfigVars, clockVars
<1>1. /\ SenderTypeOK /\ ~failed /\ Counted(adminSchedule) /\ Counted(operSchedule)
      /\ QueueInv /\ OperatingInv /\ UpdateInv /\ StartInv /\ ConfigInv /\ TimerInv
      /\ RestartInv /\ OrderInv /\ ListInv /\ SendInv /\ PlaceInv
  BY DEF SenderInv, ListInit, ListExecuteGoesOn
<1>2. /\ Handles(LIST_EXECUTE)
      /\ enabled /\ nextListExecuteState = "INIT"
      /\ listExecuteState' = "INIT" /\ nextListExecuteState' = "END_OF_CYCLE"
      /\ operState' = adminState /\ exitTimer' = 0 /\ listPointer' = 0 /\ age' = Never
      /\ UNCHANGED <<adminVars, cycleTimerVars, listConfigVars, failed>>
      /\ operating' = operating /\ sent' = sent
  BY <1>1 DEF ListInit, ListExecuteGoesOn, ManagerStep, ListInv
<1>3. /\ Effect(queue, queue', {LIST_EXECUTE}, {LIST_EXECUTE})
      /\ In(TICK)' <=> Due(timestamps')
      /\ In(TICK) <=> Due(timestamps)
      /\ In(LIST_EXECUTE) /\ \A a : ~Before(a, LIST_EXECUTE)
      /\ KeptBut(LIST_EXECUTE, timestamps')
      /\ timestamps'[LIST_EXECUTE] = Never
      /\ subscribed' = subscribed
  <2>1. NoTimestamp(LIST_EXECUTE) /\ LIST_EXECUTE \in Machines
    BY Names DEF ListInit, ListExecuteGoesOn
  <2>2. queue' = Reschedule(QueueWithout(LIST_EXECUTE), LIST_EXECUTE)
    <3>1. QueueWithout(LIST_EXECUTE) \in Seq(Messages)
      BY <1>2, HandledIs, Names DEF Effect, QueueOK
    <3>2. QueueWithout(LIST_EXECUTE) \o <<>> = QueueWithout(LIST_EXECUTE)
      BY <3>1
    <3>. QED
      BY <3>2 DEF ListInit, ListExecuteGoesOn
  <2>. QED
    BY <1>2, <2>1, <2>2, GoesOnIs, InvIs
<1>4. SenderTypeOK' /\ ~failed' /\ Counted(adminSchedule)' /\ Counted(operSchedule)'
  BY <1>1, <1>2, <1>3, Names DEF SenderTypeOK, TypeOK, Effect, QueueOK, KeptBut, Messages
<1>5. QueueInv'
  BY <1>1, <1>2, <1>3, Names DEF QueueInv, Effect, QueueOK, KeptBut, Due
<1>6. enabled' = enabled
  BY <1>2
<1>7. OperatingInv'
  BY <1>1, <1>2, <1>3, Names DEF OperatingInv, Effect, KeptBut
<1>8. UpdateInv'
  BY <1>1, <1>2, <1>3, Names DEF UpdateInv, FirstSet, Effect, KeptBut
<1>9. StartInv'
  BY <1>1, <1>2, <1>3, Names, InQueue DEF StartInv, ConfigInv, Effect, KeptBut
<1>10. ConfigInv'
  BY <1>1, <1>2, <1>3, Names DEF ConfigInv, TimerLives, AdminStart, Effect, KeptBut
<1>11. TimerInv'
  BY <1>1, <1>2, <1>3, Names DEF TimerInv, TimerLives, Effect, KeptBut, ListInv, Never
<1>12. RestartInv'
  BY <1>1, <1>2, <1>3, Names, DueIs, InQueue
    DEF RestartInv, FirstSet, OperStart, Never, Effect, KeptBut
<1>13. OrderInv'
  BY <1>1, <1>2, <1>3, Names, DueIs DEF OrderInv, Never, Effect, KeptBut
<1>14. ListInv'
  BY <1>1, <1>2, <1>3, Names DEF ListInv, Effect, KeptBut
<1>15. SendInv'
  BY <1>1, <1>2, <1>3, Names DEF SendInv, Effect, KeptBut, OrderInv
<1>16. PlaceInv'
  BY <1>1, <1>2, <1>3, Names
    DEF PlaceInv, Restarting, SentFirst, SentOrSending, Executed, Effect, KeptBut
<1>. QED
  BY <1>1, <1>2, <1>4, <1>5, <1>6, <1>7, <1>8, <1>9, <1>10, <1>11, <1>12, <1>13, <1>14, <1>15,
     <1>16 DEF SenderInv, DisabledInv

\* A cycle of the list begins.
LEMMA NewCycleStep ==
  ASSUME SenderInv, NewCycle,
         ManagerStep
  PROVE  SenderInv'
<1>. USE DEF In, Before, adminVars, cycleTimerVars, listExecuteVars, listConfigVars, clockVars
<1>1. /\ SenderTypeOK /\ ~failed /\ Counted(adminSchedule) /\ Counted(operSchedule)
      /\ QueueInv /\ OperatingInv /\ UpdateInv /\ StartInv /\ ConfigInv /\ TimerInv
      /\ RestartInv /\ OrderInv /\ ListInv /\ SendInv /\ PlaceInv
  BY DEF SenderInv, NewCycle, ListExecuteGoesOn
<1>2. /\ Handles(LIST_EXECUTE)
      /\ enabled /\ nextListExecuteState = "NEW_CYCLE"
      /\ listExecuteState' = "NEW_CYCLE" /\ nextListExecuteState' = "EXECUTE_CYCLE"
      /\ listPointer' = 0 /\ age' = 0
      /\ UNCHANGED <<operState, exitTimer, adminVars, cycleTimerVars,
                     listConfigVars, failed>>
      /\ operating' = operating /\ sent' = <<>>
  BY <1>1 DEF NewCycle, ListExecuteGoesOn, ManagerStep
<1>3. /\ Effect(queue, queue', {LIST_EXECUTE}, {LIST_EXECUTE})
      /\ In(TICK)' <=> Due(timestamps')
      /\ In(TICK) <=> Due(timestamps)
      /\ In(LIST_EXECUTE) /\ \A a : ~Before(a, LIST_EXECUTE)
      /\ KeptBut(LIST_EXECUTE, timestamps')
      /\ timestamps'[LIST_EXECUTE] = Never
      /\ subscribed' = subscribed
  <2>1. NoTimestamp(LIST_EXECUTE) /\ LIST_EXECUTE \in Machines
    BY Names DEF NewCycle, ListExecuteGoesOn
  <2>2. queue' = Reschedule(QueueWithout(LIST_EXECUTE), LIST_EXECUTE)
    <3>1. QueueWithout(LIST_EXECUTE) \in Seq(Messages)
      BY <1>2, HandledIs, Names DEF Effect, QueueOK
    <3>2. QueueWithout(LIST_EXECUTE) \o <<>> = QueueWithout(LIST_EXECUTE)
      BY <3>1
    <3>. QED
      BY <3>2 DEF NewCycle, ListExecuteGoesOn
  <2>. QED
    BY <1>2, <2>1, <2>2, GoesOnIs, InvIs
<1>4. /\ ~In(CYCLE_TIMER) /\ nextCycleTimerState = "SET_CYCLE_START_TIME"
      /\ timestamps[CYCLE_TIMER] = 1 /\ ~In(SEND) /\ ~In(START)
      /\ In(LIST_CONFIG) => nextListConfigState # "UPDATE_CONFIG"
  BY <1>1, <1>2, <1>3 DEF OrderInv, SendInv, StartInv
<1>5. operSchedule.controlList \in Seq(Entry)
  BY <1>1 DEF SenderTypeOK, TypeOK, Schedule, Entry
<1>6. /\ Len(operSchedule.controlList) \in Nat /\ EndOf(operSchedule.controlList)[0] = 0
      /\ Len(operSchedule.controlList) = 0 => operSchedule.controlList = <<>>
  BY <1>5, EndsAreSums

<1>7. SenderTypeOK' /\ ~failed' /\ Counted(adminSchedule)' /\ Counted(operSchedule)'
  BY <1>1, <1>2, <1>3, <1>4, <1>5, <1>6, Names
    DEF SenderTypeOK, TypeOK, Effect, QueueOK, KeptBut, Messages
<1>8. QueueInv'
  BY <1>1, <1>2, <1>3, <1>4, <1>5, <1>6, Names DEF QueueInv, Effect, QueueOK, KeptBut, Due
<1>9. enabled' = enabled
  BY <1>2
<1>10. OperatingInv'
  BY <1>1, <1>2, <1>3, <1>4, <1>5, <1>6, Names DEF OperatingInv, Effect, KeptBut
<1>11. UpdateInv'
  BY <1>1, <1>2, <1>3, <1>4, <1>5, <1>6, Names DEF UpdateInv, FirstSet, Effect, KeptBut
<1>12. StartInv'
  BY <1>1, <1>2, <1>3, <1>4, <1>5, <1>6, Names DEF StartInv, ConfigInv, Effect, KeptBut
<1>13. ConfigInv'
  BY <1>1, <1>2, <1>3, <1>4, <1>5, <1>6, Names
    DEF ConfigInv, TimerLives, AdminStart, Effect, KeptBut
<1>14. TimerInv'
  BY <1>1, <1>2, <1>3, <1>4, <1>5, <1>6, Names DEF TimerInv, TimerLives, Effect, KeptBut, Never
<1>15. RestartInv'
  BY <1>1, <1>2, <1>3, <1>4, <1>5, <1>6, Names, DueIs, InQueue
    DEF RestartInv, FirstSet, OperStart, Never, Effect, KeptBut, TimerInv
<1>16. OrderInv'
  BY <1>1, <1>2, <1>3, <1>4, <1>5, <1>6, Names, DueIs DEF OrderInv, Never, Effect, KeptBut
<1>17. ListInv'
  BY <1>1, <1>2, <1>3, <1>4, <1>5, <1>6, Names DEF ListInv, Effect, KeptBut, Never
<1>18. SendInv'
  BY <1>1, <1>2, <1>3, <1>4, <1>5, <1>6, Names DEF SendInv, Effect, KeptBut
<1>19. PlaceInv'
  BY <1>1, <1>2, <1>3, <1>4, <1>5, <1>6, Names
    DEF PlaceInv, Restarting, SentFirst, SentOrSending, Executed, Effect, KeptBut
<1>. QED
  BY <1>1, <1>2, <1>7, <1>8, <1>9, <1>10, <1>11, <1>12, <1>13, <1>14, <1>15, <1>16, <1>17,
     <1>18, <1>19 DEF SenderInv, DisabledInv

\* An entry is executed, and the generator told.
LEMMA ExecuteCycleStep ==
  ASSUME SenderInv, ExecuteCycle,
         ManagerStep
  PROVE  SenderInv'
<1>. USE DEF In, Before, adminVars, cycleTimerVars, listExecuteVars, listConfigVars, clockVars
<1>1. /\ SenderTypeOK /\ ~failed /\ Counted(adminSchedule) /\ Counted(operSchedule)
      /\ QueueInv /\ OperatingInv /\ UpdateInv /\ StartInv /\ ConfigInv /\ TimerInv
      /\ RestartInv /\ OrderInv /\ ListInv /\ SendInv /\ PlaceInv
  <2>1. enabled
    BY DEF ExecuteCycle, ListExecuteGoesOn
  <2>. QED
    BY <2>1 DEF SenderInv
<1>2. /\ Handles(LIST_EXECUTE)
      /\ enabled /\ nextListExecuteState = "EXECUTE_CYCLE"
      /\ listExecuteState' = "EXECUTE_CYCLE"
      /\ nextListExecuteState' = StateAfterEntry(listPointer + 1)
      /\ listPointer' = listPointer + 1 /\ age' = age
      /\ operState' = IF ListLength = 0 THEN adminState
                      ELSE operSchedule.controlList[listPointer + 1].object
      /\ exitTimer' = IF ListLength = 0 THEN operSchedule.cycleTime
                      ELSE Interval(operSchedule.controlList[listPointer + 1])
      /\ UNCHANGED <<adminVars, cycleTimerVars, listConfigVars, failed>>
      /\ operating' = operating /\ sent' = sent
      /\ queue' = Reschedule(QueueWithout(LIST_EXECUTE) \o <<SEND>>, LIST_EXECUTE)
      /\ NoTimestamp(LIST_EXECUTE)
      /\ age # Never /\ (~Restarting)
      /\ In(LIST_EXECUTE) /\ (\A a : ~Before(a, LIST_EXECUTE))
      /\ (~In(SEND)) /\ (~In(START)) /\ (~In(STOP))
      /\ ListLength = 0 \/ listPointer < ListLength
  <2>1. /\ Handles(LIST_EXECUTE) /\ enabled
        /\ nextListExecuteState = "EXECUTE_CYCLE"
    BY DEF ExecuteCycle, ListExecuteGoesOn
  <2>2. In(LIST_EXECUTE) /\ \A a : ~Before(a, LIST_EXECUTE)
    BY <2>1, HandledIs, Names
  <2>3. age # Never /\ ~In(SEND) /\ ~In(START) /\ ~In(STOP) /\ ~Restarting
    BY <1>1, <2>1, <2>2 DEF ListInv, SendInv, StartInv, OperatingInv, OrderInv, Restarting
  <2>4. ListLength = 0 \/ listPointer < ListLength
    BY <1>1, <2>1, <2>2, <2>3 DEF PlaceInv, ListLength
  <2>5. \A kind \in {START, STOP, SEND} : ~Contains(queue, kind)
    <3>1. queue \in Seq(Messages)
      BY InvIs DEF QueueOK
    <3>. QED
      BY <2>3, <3>1, SeqFacts DEF Contains, Range
  <2>6. ~ExecuteFails
    <3>1. ListLength \in Nat /\ listPointer \in Nat
      BY <1>1 DEF SenderTypeOK, TypeOK, Schedule, ListLength
    <3>. QED
      BY <2>4, <2>5, <3>1 DEF ExecuteFails
  <2>. HIDE DEF In, Before
  <2>. QED
    BY <2>1, <2>2, <2>3, <2>4, <2>6
       DEF ExecuteCycle, ListExecuteGoesOn, NotifyStateChanged, ManagerStep
<1>3. /\ Effect(queue, queue', {LIST_EXECUTE}, {SEND, LIST_EXECUTE})
      /\ Before(SEND, LIST_EXECUTE)'
      /\ In(TICK)' <=> Due(timestamps')
      /\ In(TICK) <=> Due(timestamps)
      /\ KeptBut(LIST_EXECUTE, timestamps')
      /\ timestamps'[LIST_EXECUTE] = Never
      /\ subscribed' = subscribed
  <2>. DEFINE q == QueueWithout(LIST_EXECUTE)  r == Append(q, SEND)
  <2>1. /\ Effect(queue, q, {LIST_EXECUTE}, {}) /\ KeptBut(LIST_EXECUTE, timestamps')
        /\ TICK \in Range(q) <=> Due(timestamps')
        /\ timestamps'[LIST_EXECUTE] = Never /\ subscribed' = subscribed
    BY <1>2, HandledIs, Names DEF NoTimestamp
  <2>. HIDE DEF q
  <2>2. SEND \notin Range(q) /\ q \in Seq(Messages) /\ SEND \in Messages /\ SEND # TICK
    BY <1>2, <2>1, Names DEF Effect, QueueOK
  <2>3. q \o <<SEND>> = r
    BY <2>2
  <2>4. /\ Effect(queue, r, {LIST_EXECUTE}, {} \cup {SEND})
        /\ TICK \in Range(r) <=> TICK \in Range(q)
    BY <2>1, <2>2, AppendEffect
  <2>5. SEND \in Range(r)
    BY <2>4, Names DEF Effect
  <2>. HIDE DEF r
  <2>6. queue' = Reschedule(r, LIST_EXECUTE)
    BY <1>2, <2>3 DEF q
  <2>7. /\ Effect(queue, queue', {LIST_EXECUTE}, ({} \cup {SEND}) \cup {LIST_EXECUTE})
        /\ TICK \in Range(queue') <=> TICK \in Range(r)
        /\ \A a \in Range(r) : a # LIST_EXECUTE => Precedes(queue', a, LIST_EXECUTE)
    BY <2>4, <2>6, RescheduleEffect, Names
  <2>8. ({} \cup {SEND}) \cup {LIST_EXECUTE} = {SEND, LIST_EXECUTE}
    OBVIOUS
  <2>9. Precedes(queue', SEND, LIST_EXECUTE)
    BY <2>5, <2>7, Names
  <2>. QED
    BY <2>1, <2>4, <2>7, <2>8, <2>9, InvIs
<1>4. PICK l, p : l = operSchedule.controlList /\ p = listPointer
  OBVIOUS
<1>5. l \in Seq(Entry) /\ Len(l) \in Nat /\ p \in Nat /\ p + 1 \in Nat /\ age \in Nat
  BY <1>1, <1>2, <1>4 DEF SenderTypeOK, TypeOK, Schedule, Entry
<1>6. Len(l) # 0 =>
        /\ p < Len(l) /\ age = EndOf(l)[p] /\ SentFirst(p, l)
        /\ p + 1 \in 1 .. Len(l) /\ (p + 1) - 1 = p
        /\ l[p + 1] \in Entry /\ Interval(l[p + 1]) \in Nat /\ Interval(l[p + 1]) >= 1
        /\ EndOf(l)[p + 1] = EndOf(l)[p] + Interval(l[p + 1])
        /\ operState' = l[p + 1].object /\ exitTimer' = Interval(l[p + 1])
  <2>1. SUFFICES ASSUME Len(l) # 0 PROVE
        /\ p < Len(l) /\ age = EndOf(l)[p] /\ SentFirst(p, l)
        /\ p + 1 \in 1 .. Len(l) /\ (p + 1) - 1 = p
        /\ l[p + 1] \in Entry /\ Interval(l[p + 1]) \in Nat /\ Interval(l[p + 1]) >= 1
        /\ EndOf(l)[p + 1] = EndOf(l)[p] + Interval(l[p + 1])
        /\ operState' = l[p + 1].object /\ exitTimer' = Interval(l[p + 1])
    OBVIOUS
  <2>2. l # <<>>
    BY <2>1
  <2>3. p < Len(l) /\ age = EndOf(l)[p] /\ SentFirst(p, l)
    BY <1>1, <1>2, <1>4, <2>2 DEF PlaceInv
  <2>4. p + 1 \in 1 .. Len(l) /\ (p + 1) - 1 = p
    BY <1>5, <2>3
  <2>. QED
    BY <1>2, <1>4, <1>5, <2>1, <2>3, <2>4, EndsAreSums DEF ListLength
<1>7. /\ nextListExecuteState' \in {"DELAY", "END_OF_CYCLE"}
      /\ nextListExecuteState' = "DELAY" => Len(l) # 0 /\ p + 1 < Len(l)
      /\ nextListExecuteState' = "END_OF_CYCLE" => Len(l) = 0 \/ p + 1 = Len(l)
  BY <1>2, <1>4, <1>5, <1>6 DEF StateAfterEntry, ListLength
<1>8. operState' \in States /\ exitTimer' \in Nat
  BY <1>1, <1>2, <1>4, <1>6 DEF SenderTypeOK, TypeOK, Schedule, Entry, ListLength
<1>9. SentFirst(p, l) => SentFirst(p, l)'
  BY <1>2 DEF SentFirst
<1>10. Len(l) # 0 => Executed(p + 1, l)'
  <2>1. SUFFICES ASSUME Len(l) # 0 PROVE Executed(p + 1, l)'
    OBVIOUS
  <2>2. In(SEND)'
    BY <1>3, Names DEF Effect
  <2>3. SentOrSending(p + 1, l)'
    BY <1>6, <1>9, <2>1, <2>2 DEF SentOrSending
  <2>4. EndOf(l)[(p + 1) - 1] <= age'
    BY <1>2, <1>5, <1>6, <2>1
  <2>. QED
    BY <1>2, <1>6, <2>1, <2>3, <2>4 DEF Executed

<1>11. SenderTypeOK' /\ ~failed' /\ Counted(adminSchedule)' /\ Counted(operSchedule)'
  BY <1>1, <1>2, <1>3, <1>4, <1>5, <1>6, <1>7, <1>8, <1>9, <1>10, Names
    DEF SenderTypeOK, TypeOK, Effect, QueueOK, KeptBut, Messages
<1>12. QueueInv'
  BY <1>1, <1>2, <1>3, <1>4, <1>5, <1>6, <1>7, <1>8, <1>9, <1>10, Names
    DEF QueueInv, Effect, QueueOK, KeptBut, Due
<1>13. enabled' = enabled
  BY <1>2
<1>14. OperatingInv'
  BY <1>1, <1>2, <1>3, <1>4, <1>5, <1>6, <1>7, <1>8, <1>9, <1>10, Names
    DEF OperatingInv, Effect, KeptBut
<1>15. UpdateInv'
  BY <1>1, <1>2, <1>3, <1>4, <1>5, <1>6, <1>7, <1>8, <1>9, <1>10, Names
    DEF UpdateInv, FirstSet, Effect, KeptBut
<1>16. StartInv'
  BY <1>1, <1>2, <1>3, <1>4, <1>5, <1>6, <1>7, <1>8, <1>9, <1>10, Names
    DEF StartInv, ConfigInv, Effect, KeptBut
<1>17. ConfigInv'
  BY <1>1, <1>2, <1>3, <1>4, <1>5, <1>6, <1>7, <1>8, <1>9, <1>10, Names
    DEF ConfigInv, TimerLives, AdminStart, Effect, KeptBut
<1>18. TimerInv'
  BY <1>1, <1>2, <1>3, <1>4, <1>5, <1>6, <1>7, <1>8, <1>9, <1>10, Names
    DEF TimerInv, TimerLives, Effect, KeptBut, Never
<1>19. RestartInv'
  BY <1>1, <1>2, <1>3, <1>4, <1>5, <1>6, <1>7, <1>8, <1>9, <1>10, Names, DueIs, InQueue
    DEF RestartInv, FirstSet, OperStart, Never, Effect, KeptBut
<1>20. OrderInv'
  BY <1>1, <1>2, <1>3, <1>4, <1>5, <1>6, <1>7, <1>8, <1>9, <1>10, Names, DueIs
    DEF OrderInv, Never, Effect, KeptBut
<1>21. ListInv'
  BY <1>1, <1>2, <1>3, <1>4, <1>5, <1>6, <1>7, <1>8, <1>9, <1>10, Names
    DEF ListInv, Effect, KeptBut, Never
<1>22. SendInv'
  BY <1>1, <1>2, <1>3, <1>4, <1>5, <1>6, <1>7, <1>8, <1>9, <1>10, Names
    DEF SendInv, Effect, KeptBut
<1>23. PlaceInv'
  <2>1. /\ operSchedule'.controlList = l /\ listPointer' = p + 1 /\ age' = age
        /\ nextListExecuteState' # "EXECUTE_CYCLE"
    BY <1>2, <1>4, <1>7
  <2>2. nextListExecuteState' = "DELAY" => p + 1 < Len(l) /\ age' + exitTimer' = EndOf(l)[p + 1]
    BY <1>5, <1>6, <1>7, <2>1
  <2>3. nextListExecuteState' = "END_OF_CYCLE" => l = <<>> \/ p + 1 = Len(l)
    BY <1>5, <1>7
  <2>4. l # <<>> => Executed(p + 1, l)'
    BY <1>5, <1>10
  <2>. QED
    BY <1>7, <2>1, <2>2, <2>3, <2>4 DEF PlaceInv, Executed, SentOrSending, SentFirst
<1>. QED
  BY <1>1, <1>2, <1>11, <1>12, <1>13, <1>14, <1>15, <1>16, <1>17, <1>18, <1>19, <1>20, <1>21,
     <1>22, <1>23 DEF SenderInv, DisabledInv

\* The list machine waits for the end of the interval.
LEMMA DelayStep ==
  ASSUME SenderInv, Delay,
         ManagerStep
  PROVE  SenderInv'
<1>. USE DEF In, Before, adminVars, cycleTimerVars, listExecuteVars, listConfigVars, clockVars
<1>1. /\ SenderTypeOK /\ ~failed /\ Counted(adminSchedule) /\ Counted(operSchedule)
      /\ QueueInv /\ OperatingInv /\ UpdateInv /\ StartInv /\ ConfigInv /\ TimerInv
      /\ RestartInv /\ OrderInv /\ ListInv /\ SendInv /\ PlaceInv
  BY DEF SenderInv, Delay
<1>2. /\ Handles(LIST_EXECUTE)
      /\ enabled /\ nextListExecuteState = "DELAY"
      /\ listExecuteState' = "DELAY" /\ nextListExecuteState' = "EXECUTE_CYCLE"
      /\ exitTimer \in Nat /\ exitTimer >= 1 /\ age # Never
      /\ In(LIST_EXECUTE) /\ (\A a : ~Before(a, LIST_EXECUTE)) /\ (~In(SEND))
      /\ Subscribe(LIST_EXECUTE, exitTimer, QueueWithout(LIST_EXECUTE))
      /\ UNCHANGED <<listPointer, operState, exitTimer, age, adminVars,
                     cycleTimerVars, listConfigVars, failed>>
      /\ operating' = operating /\ sent' = sent
  <2>1. Handles(LIST_EXECUTE) /\ In(LIST_EXECUTE) /\ \A a : ~Before(a, LIST_EXECUTE)
    BY HandledIs, Names DEF Delay
  <2>2. ~In(SEND) /\ exitTimer \in Nat /\ exitTimer >= 1 /\ age # Never
    BY <1>1, <2>1 DEF SendInv, ListInv, Delay, SenderTypeOK, TypeOK
  <2>. QED
    BY <1>1, <2>1, <2>2 DEF Delay, ManagerStep
<1>3. /\ Effect(queue, queue', {LIST_EXECUTE}, {}) /\ TickLast(queue')
      /\ In(TICK)' <=> Due(timestamps')
      /\ In(TICK) <=> Due(timestamps)
      /\ In(LIST_EXECUTE) /\ \A a : ~Before(a, LIST_EXECUTE)
      /\ KeptBut(LIST_EXECUTE, timestamps')
      /\ timestamps'[LIST_EXECUTE] = exitTimer
      /\ subscribed' = subscribed \cup {LIST_EXECUTE}
  BY <1>2, HandledIs, SubscribeIs, InvIs, Names
<1>4. SenderTypeOK' /\ ~failed' /\ Counted(adminSchedule)' /\ Counted(operSchedule)'
  BY <1>1, <1>2, <1>3, Names DEF SenderTypeOK, TypeOK, Effect, QueueOK, KeptBut, Messages
<1>5. QueueInv'
  BY <1>1, <1>2, <1>3, Names DEF QueueInv, Effect, QueueOK, KeptBut, Due
<1>6. enabled' = enabled
  BY <1>2
<1>7. OperatingInv'
  BY <1>1, <1>2, <1>3, Names DEF OperatingInv, Effect, KeptBut
<1>8. UpdateInv'
  BY <1>1, <1>2, <1>3, Names DEF UpdateInv, FirstSet, Effect, KeptBut
<1>9. StartInv'
  BY <1>1, <1>2, <1>3, Names DEF StartInv, ConfigInv, Effect, KeptBut
<1>10. ConfigInv'
  BY <1>1, <1>2, <1>3, Names DEF ConfigInv, TimerLives, AdminStart, Effect, KeptBut
<1>11. TimerInv'
  BY <1>1, <1>2, <1>3, Names DEF TimerInv, TimerLives, Effect, KeptBut, Never
<1>12. RestartInv'
  BY <1>1, <1>2, <1>3, Names, DueIs, InQueue
    DEF RestartInv, FirstSet, OperStart, Never, Effect, KeptBut, ListInv
<1>13. OrderInv'
  BY <1>1, <1>2, <1>3, Names, DueIs DEF OrderInv, Never, Effect, KeptBut, TickLast, ListInv
<1>14. ListInv'
  BY <1>1, <1>2, <1>3, Names DEF ListInv, Effect, KeptBut, Never
<1>15. SendInv'
  BY <1>1, <1>2, <1>3, Names DEF SendInv, Effect, KeptBut
<1>16. PlaceInv'
  BY <1>1, <1>2, <1>3, Names
    DEF PlaceInv, Restarting, SentFirst, SentOrSending, Executed, Effect, KeptBut, Never
<1>. QED
  BY <1>1, <1>2, <1>4, <1>5, <1>6, <1>7, <1>8, <1>9, <1>10, <1>11, <1>12, <1>13, <1>14, <1>15,
     <1>16 DEF SenderInv, DisabledInv

\* The list is over.
LEMMA EndOfCycleStep ==
  ASSUME SenderInv, EndOfCycle,
         ManagerStep
  PROVE  SenderInv'
<1>. USE DEF In, Before, adminVars, cycleTimerVars, listExecuteVars, listConfigVars, clockVars
<1>1. /\ SenderTypeOK /\ ~failed /\ Counted(adminSchedule) /\ Counted(operSchedule)
      /\ QueueInv /\ OperatingInv /\ UpdateInv /\ StartInv /\ ConfigInv /\ TimerInv
      /\ RestartInv /\ OrderInv /\ ListInv /\ SendInv /\ PlaceInv
  BY DEF SenderInv, EndOfCycle
<1>2. /\ Handles(LIST_EXECUTE)
      /\ enabled /\ nextListExecuteState = "END_OF_CYCLE" /\ nextListExecuteState' = "END_OF_CYCLE"
      /\ listExecuteState' = "END_OF_CYCLE"
      /\ UNCHANGED <<listPointer, operState, exitTimer, age, adminVars,
                     cycleTimerVars, listConfigVars, failed>>
      /\ operating' = operating /\ sent' = sent
  BY <1>1 DEF EndOfCycle, ManagerStep, ListInv
<1>3. /\ Effect(queue, queue', {LIST_EXECUTE}, {})
      /\ In(TICK)' <=> Due(timestamps')
      /\ In(TICK) <=> Due(timestamps)
      /\ In(LIST_EXECUTE) /\ \A a : ~Before(a, LIST_EXECUTE)
      /\ KeptBut(LIST_EXECUTE, timestamps')
      /\ timestamps'[LIST_EXECUTE] = Never
      /\ subscribed' = subscribed
  BY <1>2, LeavesIs, InvIs, Names DEF EndOfCycle
<1>4. SenderTypeOK' /\ ~failed' /\ Counted(adminSchedule)' /\ Counted(operSchedule)'
  BY <1>1, <1>2, <1>3, Names DEF SenderTypeOK, TypeOK, Effect, QueueOK, KeptBut, Messages
<1>5. QueueInv'
  BY <1>1, <1>2, <1>3, Names DEF QueueInv, Effect, QueueOK, KeptBut, Due
<1>6. enabled' = enabled
  BY <1>2
<1>7. OperatingInv'
  BY <1>1, <1>2, <1>3, Names DEF OperatingInv, Effect, KeptBut
<1>8. UpdateInv'
  BY <1>1, <1>2, <1>3, Names DEF UpdateInv, FirstSet, Effect, KeptBut
<1>9. StartInv'
  BY <1>1, <1>2, <1>3, Names, InQueue DEF StartInv, ConfigInv, Effect, KeptBut
<1>10. ConfigInv'
  BY <1>1, <1>2, <1>3, Names DEF ConfigInv, TimerLives, AdminStart, Effect, KeptBut
<1>11. TimerInv'
  BY <1>1, <1>2, <1>3, Names DEF TimerInv, TimerLives, Effect, KeptBut, Never
<1>12. RestartInv'
  BY <1>1, <1>2, <1>3, Names, DueIs, InQueue
    DEF RestartInv, FirstSet, OperStart, Never, Effect, KeptBut
<1>13. OrderInv'
  BY <1>1, <1>2, <1>3, Names, DueIs DEF OrderInv, Never, Effect, KeptBut
<1>14. ListInv'
  BY <1>1, <1>2, <1>3, Names DEF ListInv, Effect, KeptBut
<1>15. SendInv'
  BY <1>1, <1>2, <1>3, Names DEF SendInv, Effect, KeptBut
<1>16. PlaceInv'
  BY <1>1, <1>2, <1>3, Names
    DEF PlaceInv, Restarting, SentFirst, SentOrSending, Executed, Effect, KeptBut, SendInv
<1>. QED
  BY <1>1, <1>2, <1>4, <1>5, <1>6, <1>7, <1>8, <1>9, <1>10, <1>11, <1>12, <1>13, <1>14, <1>15,
     <1>16 DEF SenderInv, DisabledInv

\* A change of the schedule is planned.
LEMMA ConfigPendingStep ==
  ASSUME SenderInv, ConfigPending,
         ManagerStep
  PROVE  SenderInv'
<1>. USE DEF In, Before, adminVars, cycleTimerVars, listExecuteVars, listConfigVars, clockVars
<1>1. /\ SenderTypeOK /\ ~failed /\ Counted(adminSchedule) /\ Counted(operSchedule)
      /\ QueueInv /\ OperatingInv /\ UpdateInv /\ StartInv /\ ConfigInv /\ TimerInv
      /\ RestartInv /\ OrderInv /\ ListInv /\ SendInv /\ PlaceInv
  BY DEF SenderInv, ConfigPending
<1>2. /\ Handles(LIST_CONFIG)
      /\ enabled /\ nextListConfigState = "CONFIG_PENDING"
      /\ listConfigState' = "CONFIG_PENDING" /\ nextListConfigState' = "UPDATE_CONFIG"
      /\ configPending' = TRUE /\ configChange' = FALSE
      /\ configChangeTime' = AdminStart /\ AdminStart \in Nat
      /\ In(LIST_CONFIG) /\ (\A a : ~Before(a, LIST_CONFIG))
      /\ Subscribe(LIST_CONFIG, AdminStart, QueueWithout(LIST_CONFIG))
      /\ UNCHANGED <<operSchedule, enabled, adminState, adminSchedule,
                     cycleTimerVars, listExecuteVars, failed>>
      /\ operating' = operating /\ sent' = sent
  <2>1. Handles(LIST_CONFIG) /\ In(LIST_CONFIG) /\ \A a : ~Before(a, LIST_CONFIG)
    BY HandledIs, Names DEF ConfigPending
  <2>2. AdminStart \in Nat
    BY <1>1, NextMultipleIs DEF SenderTypeOK, TypeOK, Schedule, AdminStart
  <2>. QED
    BY <1>1, <2>1, <2>2 DEF ConfigPending, ConfigChangeTime, AdminStart, ManagerStep, ListInv
<1>3. /\ Effect(queue, queue', {LIST_CONFIG}, {}) /\ TickLast(queue')
      /\ In(TICK)' <=> Due(timestamps')
      /\ In(TICK) <=> Due(timestamps)
      /\ In(LIST_CONFIG) /\ \A a : ~Before(a, LIST_CONFIG)
      /\ KeptBut(LIST_CONFIG, timestamps')
      /\ timestamps'[LIST_CONFIG] = AdminStart
      /\ subscribed' = subscribed \cup {LIST_CONFIG}
  BY <1>2, HandledIs, SubscribeIs, InvIs, Names
<1>4. ~In(START) /\ ~(nextCycleTimerState = "CYCLE_IDLE" /\ In(CYCLE_TIMER)) /\ (FirstSet => age = Never)
  BY <1>1, <1>2 DEF StartInv, RestartInv
<1>5. AdminStart' = AdminStart
  BY <1>2 DEF AdminStart

<1>6. SenderTypeOK' /\ ~failed' /\ Counted(adminSchedule)' /\ Counted(operSchedule)'
  <2>1. {configChange', configPending', failed'} \subseteq BOOLEAN
    BY <1>1, <1>2 DEF SenderTypeOK, TypeOK
  <2>2. {cycleStartTime', configChangeTime'} \subseteq Int
    BY <1>1, <1>2 DEF SenderTypeOK, TypeOK
  <2>3. Counted(adminSchedule)' /\ Counted(operSchedule)' /\ ~failed'
    BY <1>1, <1>2
  <2>4. /\ timestamps' \in [Machines -> Nat \cup {Never}] /\ subscribed' \subseteq Machines
        /\ queue' \in Seq(Machines \cup {TICK, START, STOP, SEND})
    BY <1>1, <1>3, Names DEF SenderTypeOK, TypeOK, Effect, QueueOK, KeptBut, Messages
  <2>. QED
    BY <1>1, <1>2, <2>1, <2>2, <2>3, <2>4 DEF SenderTypeOK, TypeOK
<1>7. QueueInv'
  BY <1>1, <1>2, <1>3, <1>4, <1>5, Names DEF QueueInv, Effect, QueueOK, KeptBut, Due
<1>8. enabled' = enabled
  BY <1>2
<1>9. OperatingInv'
  BY <1>1, <1>2, <1>3, <1>4, <1>5, Names DEF OperatingInv, Effect, KeptBut
<1>10. UpdateInv'
  BY <1>1, <1>2, <1>3, <1>4, <1>5, Names DEF UpdateInv, FirstSet, Effect, KeptBut
<1>11. StartInv'
  BY <1>1, <1>2, <1>3, <1>4, <1>5, Names DEF StartInv, ConfigInv, Effect, KeptBut
<1>12. ConfigInv'
  BY <1>1, <1>2, <1>3, <1>4, <1>5, Names DEF ConfigInv, TimerLives, AdminStart, Effect, KeptBut
<1>13. TimerInv'
  BY <1>1, <1>2, <1>3, <1>4, <1>5, Names DEF TimerInv, TimerLives, Effect, KeptBut, Never
<1>14. RestartInv'
  BY <1>1, <1>2, <1>3, <1>4, <1>5, Names, DueIs, InQueue
    DEF RestartInv, FirstSet, OperStart, Never, Effect, KeptBut
<1>15. OrderInv'
  BY <1>1, <1>2, <1>3, <1>4, <1>5, Names, DueIs DEF OrderInv, Never, Effect, KeptBut, TickLast
<1>16. ListInv'
  BY <1>1, <1>2, <1>3, <1>4, <1>5, Names DEF ListInv, Effect, KeptBut
<1>17. SendInv'
  BY <1>1, <1>2, <1>3, <1>4, <1>5, Names DEF SendInv, Effect, KeptBut
<1>18. PlaceInv'
  BY <1>1, <1>2, <1>3, <1>4, <1>5, Names
    DEF PlaceInv, Restarting, SentFirst, SentOrSending, Executed, Effect, KeptBut
<1>. QED
  BY <1>1, <1>2, <1>6, <1>7, <1>8, <1>9, <1>10, <1>11, <1>12, <1>13, <1>14, <1>15, <1>16,
     <1>17, <1>18 DEF SenderInv, DisabledInv

\* The schedule is exchanged, and the cycle timer told.
LEMMA UpdateConfigStep ==
  ASSUME SenderInv, UpdateConfig,
         ManagerStep
  PROVE  SenderInv'
<1>. USE DEF In, Before, adminVars, cycleTimerVars, listExecuteVars, listConfigVars, clockVars
<1>1. /\ SenderTypeOK /\ ~failed /\ Counted(adminSchedule) /\ Counted(operSchedule)
      /\ QueueInv /\ OperatingInv /\ UpdateInv /\ StartInv /\ ConfigInv /\ TimerInv
      /\ RestartInv /\ OrderInv /\ ListInv /\ SendInv /\ PlaceInv
  BY DEF SenderInv, UpdateConfig
<1>2. /\ Handles(LIST_CONFIG)
      /\ enabled /\ nextListConfigState = "UPDATE_CONFIG"
      /\ listConfigState' = "UPDATE_CONFIG" /\ nextListConfigState' = "CONFIG_IDLE"
      /\ operSchedule' = adminSchedule /\ nextCycleTimerState' = "CYCLE_IDLE"
      /\ UNCHANGED <<configPending, configChangeTime, adminVars, cycleTimerState,
                     cycleStartTime, listExecuteVars, failed>>
      /\ operating' = operating /\ sent' = sent
  BY <1>1 DEF UpdateConfig, ManagerStep, ListInv
<1>3. /\ Effect(queue, queue', {LIST_CONFIG}, {CYCLE_TIMER, LIST_CONFIG})
      /\ Before(CYCLE_TIMER, LIST_CONFIG)'
      /\ In(TICK)' <=> Due(timestamps')
      /\ In(TICK) <=> Due(timestamps)
      /\ In(LIST_CONFIG) /\ (\A a : ~Before(a, LIST_CONFIG))
      /\ KeptBut(LIST_CONFIG, timestamps')
      /\ timestamps'[LIST_CONFIG] = Never
      /\ subscribed' = subscribed
  <2>. DEFINE q == QueueWithout(LIST_CONFIG)  r == Reschedule(q, CYCLE_TIMER)
  <2>1. /\ Effect(queue, q, {LIST_CONFIG}, {}) /\ KeptBut(LIST_CONFIG, timestamps')
        /\ TICK \in Range(q) <=> Due(timestamps')
        /\ timestamps'[LIST_CONFIG] = Never /\ subscribed' = subscribed
        /\ In(LIST_CONFIG) /\ (\A a : ~Before(a, LIST_CONFIG))
    BY <1>2, HandledIs, Names DEF NoTimestamp, UpdateConfig
  <2>2. queue' = Reschedule(r, LIST_CONFIG)
    BY DEF UpdateConfig
  <2>. HIDE DEF q
  <2>3. /\ Effect(queue, r, {LIST_CONFIG}, {} \cup {CYCLE_TIMER})
        /\ TICK \in Range(r) <=> TICK \in Range(q)
    BY <2>1, RescheduleEffect, Names
  <2>4. CYCLE_TIMER \in Range(r)
    BY <2>3, Names DEF Effect
  <2>. HIDE DEF r
  <2>5. /\ Effect(queue, queue', {LIST_CONFIG}, ({} \cup {CYCLE_TIMER}) \cup {LIST_CONFIG})
        /\ TICK \in Range(queue') <=> TICK \in Range(r)
        /\ \A a \in Range(r) : a # LIST_CONFIG => Precedes(queue', a, LIST_CONFIG)
    BY <2>2, <2>3, RescheduleEffect, Names
  <2>6. ({} \cup {CYCLE_TIMER}) \cup {LIST_CONFIG} = {CYCLE_TIMER, LIST_CONFIG}
    OBVIOUS
  <2>7. Precedes(queue', CYCLE_TIMER, LIST_CONFIG)
    BY <2>4, <2>5, Names
  <2>. QED
    BY <2>1, <2>3, <2>5, <2>6, <2>7, InvIs
<1>4. /\ configPending /\ configChangeTime = 0 /\ AdminStart = 0
      /\ ~In(TICK) /\ ~In(CYCLE_TIMER) /\ ~In(START) /\ ~In(TICK)'
      /\ nextListExecuteState # "NEW_CYCLE"
      /\ ~(nextListExecuteState = "EXECUTE_CYCLE" /\ In(LIST_EXECUTE))
  <2>1. /\ configPending /\ configChangeTime = 0 /\ AdminStart = 0
        /\ ~In(TICK) /\ ~In(CYCLE_TIMER) /\ ~In(START)
        /\ nextListExecuteState # "NEW_CYCLE"
        /\ ~(nextListExecuteState = "EXECUTE_CYCLE" /\ In(LIST_EXECUTE))
    BY <1>1, <1>2, <1>3 DEF ConfigInv, OrderInv, StartInv
  <2>2. ~Due(timestamps')
    BY <1>3, <2>1, DueIs, Names DEF KeptBut, Never
  <2>. QED
    BY <1>3, <2>1, <2>2
<1>5. OperStart' = AdminStart
  BY <1>2 DEF OperStart, AdminStart

<1>6. SenderTypeOK' /\ ~failed' /\ Counted(adminSchedule)' /\ Counted(operSchedule)'
  BY <1>1, <1>2, <1>3, <1>4, <1>5, Names
    DEF SenderTypeOK, TypeOK, Effect, QueueOK, KeptBut, Messages
<1>7. QueueInv'
  BY <1>1, <1>2, <1>3, <1>4, <1>5, Names DEF QueueInv, Effect, QueueOK, KeptBut, Due
<1>8. enabled' = enabled
  BY <1>2
<1>9. OperatingInv'
  BY <1>1, <1>2, <1>3, <1>4, <1>5, Names DEF OperatingInv, Effect, KeptBut
<1>10. UpdateInv'
  BY <1>1, <1>2, <1>3, <1>4, <1>5, Names DEF UpdateInv, FirstSet, Effect, KeptBut
<1>11. StartInv'
  BY <1>1, <1>2, <1>3, <1>4, <1>5, Names DEF StartInv, ConfigInv, Effect, KeptBut
<1>12. ConfigInv'
  BY <1>1, <1>2, <1>3, <1>4, <1>5, Names DEF ConfigInv, TimerLives, AdminStart, Effect, KeptBut
<1>13. TimerInv'
  BY <1>1, <1>2, <1>3, <1>4, <1>5, Names DEF TimerInv, TimerLives, Effect, KeptBut, Never
<1>14. RestartInv'
  BY <1>1, <1>2, <1>3, <1>4, <1>5, Names, DueIs, InQueue
    DEF RestartInv, FirstSet, OperStart, Never, Effect, KeptBut
<1>15. OrderInv'
  BY <1>1, <1>2, <1>3, <1>4, <1>5, Names, DueIs DEF OrderInv, Never, Effect, KeptBut
<1>16. ListInv'
  BY <1>1, <1>2, <1>3, <1>4, <1>5, Names DEF ListInv, Effect, KeptBut
<1>17. SendInv'
  BY <1>1, <1>2, <1>3, <1>4, <1>5, Names DEF SendInv, Effect, KeptBut
<1>18. PlaceInv'
  BY <1>1, <1>2, <1>3, <1>4, <1>5, Names
    DEF PlaceInv, Restarting, SentFirst, SentOrSending, Executed, Effect, KeptBut
<1>. QED
  BY <1>1, <1>2, <1>6, <1>7, <1>8, <1>9, <1>10, <1>11, <1>12, <1>13, <1>14, <1>15, <1>16,
     <1>17, <1>18 DEF SenderInv, DisabledInv

\* The change is over.
LEMMA ConfigIdleStep ==
  ASSUME SenderInv, ConfigIdle,
         ManagerStep
  PROVE  SenderInv'
<1>. USE DEF In, Before, adminVars, cycleTimerVars, listExecuteVars, listConfigVars, clockVars
<1>1. /\ SenderTypeOK /\ ~failed /\ Counted(adminSchedule) /\ Counted(operSchedule)
      /\ QueueInv /\ OperatingInv /\ UpdateInv /\ StartInv /\ ConfigInv /\ TimerInv
      /\ RestartInv /\ OrderInv /\ ListInv /\ SendInv /\ PlaceInv
  BY DEF SenderInv, ConfigIdle
<1>2. /\ Handles(LIST_CONFIG)
      /\ enabled /\ nextListConfigState = "CONFIG_IDLE" /\ nextListConfigState' = "CONFIG_IDLE"
      /\ listConfigState' = "CONFIG_IDLE" /\ configPending' = FALSE
      /\ UNCHANGED <<operSchedule, configChangeTime, adminVars, cycleTimerVars,
                     listExecuteVars, failed>>
      /\ operating' = operating /\ sent' = sent
  BY <1>1 DEF ConfigIdle, ManagerStep, ListInv
<1>3. /\ Effect(queue, queue', {LIST_CONFIG}, {})
      /\ In(TICK)' <=> Due(timestamps')
      /\ In(TICK) <=> Due(timestamps)
      /\ In(LIST_CONFIG) /\ \A a : ~Before(a, LIST_CONFIG)
      /\ KeptBut(LIST_CONFIG, timestamps')
      /\ timestamps'[LIST_CONFIG] = Never
      /\ subscribed' = subscribed
  BY <1>2, LeavesIs, InvIs, Names DEF ConfigIdle
<1>4. SenderTypeOK' /\ ~failed' /\ Counted(adminSchedule)' /\ Counted(operSchedule)'
  BY <1>1, <1>2, <1>3, Names DEF SenderTypeOK, TypeOK, Effect, QueueOK, KeptBut, Messages
<1>5. QueueInv'
  BY <1>1, <1>2, <1>3, Names DEF QueueInv, Effect, QueueOK, KeptBut, Due
<1>6. enabled' = enabled
  BY <1>2
<1>7. OperatingInv'
  BY <1>1, <1>2, <1>3, Names DEF OperatingInv, Effect, KeptBut
<1>8. UpdateInv'
  BY <1>1, <1>2, <1>3, Names DEF UpdateInv, FirstSet, Effect, KeptBut
<1>9. StartInv'
  BY <1>1, <1>2, <1>3, Names, InQueue DEF StartInv, ConfigInv, Effect, KeptBut
<1>10. ConfigInv'
  BY <1>1, <1>2, <1>3, Names DEF ConfigInv, TimerLives, AdminStart, Effect, KeptBut
<1>11. TimerInv'
  BY <1>1, <1>2, <1>3, Names DEF TimerInv, TimerLives, Effect, KeptBut, ConfigInv, UpdateInv
<1>12. RestartInv'
  BY <1>1, <1>2, <1>3, Names, DueIs, InQueue
    DEF RestartInv, FirstSet, OperStart, Never, Effect, KeptBut
<1>13. OrderInv'
  BY <1>1, <1>2, <1>3, Names, DueIs DEF OrderInv, Never, Effect, KeptBut
<1>14. ListInv'
  BY <1>1, <1>2, <1>3, Names DEF ListInv, Effect, KeptBut
<1>15. SendInv'
  BY <1>1, <1>2, <1>3, Names DEF SendInv, Effect, KeptBut
<1>16. PlaceInv'
  BY <1>1, <1>2, <1>3, Names
    DEF PlaceInv, Restarting, SentFirst, SentOrSending, Executed, Effect, KeptBut
<1>. QED
  BY <1>1, <1>2, <1>4, <1>5, <1>6, <1>7, <1>8, <1>9, <1>10, <1>11, <1>12, <1>13, <1>14, <1>15,
     <1>16 DEF SenderInv, DisabledInv

\* A timestamp wakes its machine.
LEMMA OnTimestampStep ==
  ASSUME SenderInv, OnTimestamp,
         ManagerStep, enabled
  PROVE  SenderInv'
<1>. USE DEF In, Before, adminVars, cycleTimerVars, listExecuteVars, listConfigVars, clockVars
<1>1. /\ SenderTypeOK /\ ~failed /\ Counted(adminSchedule) /\ Counted(operSchedule)
      /\ QueueInv /\ OperatingInv /\ UpdateInv /\ StartInv /\ ConfigInv /\ TimerInv
      /\ RestartInv /\ OrderInv /\ ListInv /\ SendInv /\ PlaceInv
  BY DEF SenderInv
<1>2. /\ Handles(TICK) /\ enabled
      /\ UNCHANGED <<subscribed, adminVars, cycleTimerVars, listExecuteVars,
                     listConfigVars, failed>>
      /\ operating' = operating /\ sent' = sent
  BY <1>1 DEF OnTimestamp, ManagerStep, ListInv
<1>3. PICK d \in Machines :
        /\ timestamps[d] = 0
        /\ d # CYCLE_TIMER => timestamps[CYCLE_TIMER] # 0
        /\ d = LIST_CONFIG => timestamps[LIST_EXECUTE] # 0
        /\ Effect(queue, queue', {TICK}, {d}) /\ TickLast(queue')
        /\ In(TICK)' <=> Due(timestamps')
        /\ In(TICK) <=> Due(timestamps)
        /\ In(TICK) /\ (\A a : ~Before(a, TICK))
        /\ KeptBut(d, timestamps') /\ timestamps'[d] = Never
  <2>. DEFINE d == DueFirst  q == Reschedule(Tail(queue), d)
  <2>1. /\ QueueOK(queue) /\ queue # <<>> /\ Head(queue) = TICK
        /\ timestamps \in [Machines -> Nat \cup {Never}]
    BY <1>2, InvIs DEF Handles
  <2>2. /\ Effect(queue, Tail(queue), {TICK}, {})
        /\ In(TICK) /\ (\A a : ~Before(a, TICK))
    BY <2>1, TailEffect
  <2>3. /\ d \in Machines /\ timestamps[d] = 0
        /\ d # CYCLE_TIMER => timestamps[CYCLE_TIMER] # 0
        /\ d = LIST_CONFIG => timestamps[LIST_EXECUTE] # 0
    BY <2>2, InvIs, DueIs, Names DEF DueFirst
  <2>4. /\ timestamps' = [timestamps EXCEPT ![d] = Never]
        /\ queue' = ClockCalled(q, timestamps')
    BY DEF OnTimestamp
  <2>. HIDE DEF d
  <2>5. d \in Messages /\ d # TICK /\ TICK \notin {d}
    BY <2>3, Names DEF Messages
  <2>6. Effect(queue, q, {TICK}, {} \cup {d})
    BY <2>2, <2>5, RescheduleEffect
  <2>7. Effect(queue, q, {TICK}, {d})
    BY <2>6
  <2>. HIDE DEF q
  <2>8. /\ Effect(queue, queue', {TICK}, {d}) /\ TickLast(queue')
        /\ TICK \in Range(queue') <=> Due(timestamps')
    BY <2>4, <2>5, <2>7, ClockCalledEffect
  <2>9. KeptBut(d, timestamps') /\ timestamps'[d] = Never
    BY <2>1, <2>3, <2>4 DEF KeptBut, Never
  <2>. QED
    BY <2>2, <2>3, <2>8, <2>9, InvIs
<1>4. /\ d \in {CYCLE_TIMER, LIST_EXECUTE, LIST_CONFIG}
      /\ ~In(CYCLE_TIMER) /\ ~In(START)
      /\ nextListExecuteState # "NEW_CYCLE"
      /\ ~(In(LIST_CONFIG) /\ nextListConfigState = "UPDATE_CONFIG")
  BY <1>1, <1>2, <1>3, Names DEF OrderInv, StartInv, Never
<1>5. ~FirstSet
  BY <1>1, <1>4 DEF FirstSet, TimerInv
<1>6. ASSUME d = CYCLE_TIMER
      PROVE  /\ \/ /\ nextCycleTimerState = "SET_CYCLE_START_TIME"
                   /\ cycleTimerState = "START_CYCLE" /\ age = 1
                \/ /\ nextCycleTimerState = "START_CYCLE" /\ cycleTimerState = "SET_CYCLE_START_TIME"
                   /\ cycleStartTime = 0
             /\ ~(nextListExecuteState = "EXECUTE_CYCLE" /\ In(LIST_EXECUTE))
  <2>1. timestamps[CYCLE_TIMER] = 0
    BY <1>3, <1>6
  <2>2. nextCycleTimerState \in {"SET_CYCLE_START_TIME", "START_CYCLE"}
    BY <1>1, <1>4, <2>1 DEF TimerInv, TimerLives, SenderTypeOK, TypeOK, Never
  <2>3. age \in Int
    BY <1>1 DEF SenderTypeOK, TypeOK, Never
  <2>. QED
    BY <1>1, <1>4, <2>1, <2>2, <2>3 DEF TimerInv, OrderInv
<1>7. ASSUME d = LIST_EXECUTE
      PROVE  /\ nextListExecuteState = "EXECUTE_CYCLE" /\ ~In(LIST_EXECUTE) /\ ~In(SEND)
             /\ timestamps[LIST_EXECUTE] = 0 /\ timestamps[CYCLE_TIMER] # 0
  <2>1. timestamps[LIST_EXECUTE] = 0 /\ timestamps[CYCLE_TIMER] # 0
    BY <1>3, <1>7, Names
  <2>2. nextListExecuteState = "EXECUTE_CYCLE" /\ ~In(LIST_EXECUTE)
    BY <1>1, <1>4, <2>1 DEF ListInv, SenderTypeOK, TypeOK, Never
  <2>. QED
    BY <1>1, <2>1, <2>2 DEF SendInv

<1>8. SenderTypeOK' /\ ~failed' /\ Counted(adminSchedule)' /\ Counted(operSchedule)'
  BY <1>1, <1>2, <1>3, <1>4, <1>5, <1>6, <1>7, Names
    DEF SenderTypeOK, TypeOK, Effect, QueueOK, KeptBut, Messages
<1>9. QueueInv'
  BY <1>1, <1>2, <1>3, <1>4, <1>5, <1>6, <1>7, Names
    DEF QueueInv, Effect, QueueOK, KeptBut, Due, Never
<1>10. enabled' = enabled
  BY <1>2
<1>11. OperatingInv'
  BY <1>1, <1>2, <1>3, <1>4, <1>5, <1>6, <1>7, Names DEF OperatingInv, Effect, KeptBut
<1>12. UpdateInv'
  BY <1>1, <1>2, <1>3, <1>4, <1>5, <1>6, <1>7, Names
    DEF UpdateInv, FirstSet, Effect, KeptBut, Never
<1>13. StartInv'
  BY <1>1, <1>2, <1>3, <1>4, <1>5, <1>6, <1>7, Names DEF StartInv, ConfigInv, Effect, KeptBut
<1>14. ConfigInv'
  BY <1>1, <1>2, <1>3, <1>4, <1>5, <1>6, <1>7, Names
    DEF ConfigInv, TimerLives, AdminStart, Effect, KeptBut, Never
<1>15. TimerInv'
  <2>1. CASE d = CYCLE_TIMER
    BY <1>1, <1>2, <1>3, <1>4, <1>6, <2>1, Names
       DEF TimerInv, TimerLives, Effect, KeptBut, Never
  <2>2. CASE d = LIST_EXECUTE
    BY <1>1, <1>2, <1>3, <1>4, <1>7, <2>2, Names
       DEF TimerInv, TimerLives, Effect, KeptBut, Never
  <2>3. CASE d = LIST_CONFIG
    BY <1>1, <1>2, <1>3, <1>4, <2>3, Names
       DEF TimerInv, TimerLives, Effect, KeptBut, Never
  <2>. QED
    BY <1>4, <2>1, <2>2, <2>3
<1>16. RestartInv'
  BY <1>1, <1>2, <1>3, <1>4, <1>5, <1>6, <1>7, Names, DueIs, InQueue
    DEF RestartInv, FirstSet, OperStart, Never, Effect, KeptBut
<1>17. OrderInv'
  BY <1>1, <1>2, <1>3, <1>4, <1>5, <1>6, <1>7, Names, DueIs
    DEF OrderInv, Never, Effect, KeptBut, TickLast
<1>18. ListInv'
  BY <1>1, <1>2, <1>3, <1>4, <1>5, <1>6, <1>7, Names DEF ListInv, Effect, KeptBut, Never
<1>19. SendInv'
  BY <1>1, <1>2, <1>3, <1>4, <1>5, <1>6, <1>7, Names
    DEF SendInv, Effect, KeptBut, ListInv, Never
<1>20. PlaceInv'
  <2>1. UNCHANGED <<operSchedule, age, listPointer, operState, exitTimer, sent,
                    nextListExecuteState>>
    BY <1>2
  <2>2. In(SEND)' <=> In(SEND)
    BY <1>3, <1>4, Names DEF Effect
  <2>3. \A n, k : Executed(n, k)' <=> Executed(n, k)
    BY <2>1, <2>2 DEF Executed, SentOrSending, SentFirst
  <2>4. In(LIST_EXECUTE)' <=> In(LIST_EXECUTE) \/ d = LIST_EXECUTE
    BY <1>3, <1>4, Names DEF Effect
  <2>5. ~Restarting' => ~Restarting
    BY <1>2, <1>3, <1>4, <1>6, Names DEF Restarting, Effect, KeptBut
  <2>6. CASE d = LIST_EXECUTE
    <3>. DEFINE l == operSchedule.controlList
    <3>1. age # Never /\ ~Restarting =>
            /\ Executed(listPointer, l) /\ listPointer < Len(l)
            /\ age + 0 = EndOf(l)[listPointer]
      BY <1>1, <1>7, <2>6 DEF PlaceInv
    <3>2. age # Never /\ ~Restarting => SentFirst(listPointer, l) /\ age = EndOf(l)[listPointer]
      <4>1. age \in Int
        BY <1>1 DEF SenderTypeOK, TypeOK, Never
      <4>. QED
        BY <1>7, <2>6, <3>1, <4>1 DEF Executed, SentOrSending
    <3>3. nextListExecuteState = "EXECUTE_CYCLE"
      BY <1>7, <2>6
    <3>. QED
      BY <2>1, <2>4, <2>5, <2>6, <3>1, <3>2, <3>3 DEF PlaceInv, SentFirst
  <2>7. CASE d # LIST_EXECUTE
    <3>1. timestamps'[LIST_EXECUTE] = timestamps[LIST_EXECUTE]
      BY <1>3, <2>7, Names DEF KeptBut
    <3>. QED
      BY <1>1, <2>1, <2>2, <2>4, <2>5, <2>7, <3>1 DEF PlaceInv, Executed, SentOrSending, SentFirst
  <2>. QED
    BY <2>6, <2>7
<1>. QED
  BY <1>1, <1>2, <1>8, <1>9, <1>10, <1>11, <1>12, <1>13, <1>14, <1>15, <1>16, <1>17, <1>18,
     <1>19, <1>20 DEF SenderInv, DisabledInv

\* A timestamp wakes its machine, of a manager that is disabled.
LEMMA OnTimestampOffStep ==
  ASSUME SenderInv, OnTimestamp,
         ManagerStep, ~enabled
  PROVE  SenderInv'
<1>. USE DEF In, Before, adminVars, cycleTimerVars, listExecuteVars, listConfigVars, clockVars
<1>1. /\ SenderTypeOK /\ ~failed /\ Counted(adminSchedule) /\ Counted(operSchedule)
      /\ QueueInv /\ DisabledInv /\ OperatingInv /\ UpdateInv
  BY DEF SenderInv
<1>2. /\ Handles(TICK) /\ ~enabled
      /\ UNCHANGED <<subscribed, adminVars, cycleTimerVars, listExecuteVars,
                     listConfigVars, failed>>
      /\ operating' = operating /\ sent' \in Seq(States)
  BY <1>1 DEF OnTimestamp, ManagerStep, SenderTypeOK
<1>3. PICK d \in Machines :
        /\ timestamps[d] = 0
        /\ d # CYCLE_TIMER => timestamps[CYCLE_TIMER] # 0
        /\ d = LIST_CONFIG => timestamps[LIST_EXECUTE] # 0
        /\ Effect(queue, queue', {TICK}, {d}) /\ TickLast(queue')
        /\ In(TICK)' <=> Due(timestamps')
        /\ In(TICK) <=> Due(timestamps)
        /\ In(TICK) /\ (\A a : ~Before(a, TICK))
        /\ KeptBut(d, timestamps') /\ timestamps'[d] = Never
  <2>. DEFINE d == DueFirst  q == Reschedule(Tail(queue), d)
  <2>1. /\ QueueOK(queue) /\ queue # <<>> /\ Head(queue) = TICK
        /\ timestamps \in [Machines -> Nat \cup {Never}]
    BY <1>2, InvIs DEF Handles
  <2>2. /\ Effect(queue, Tail(queue), {TICK}, {})
        /\ In(TICK) /\ (\A a : ~Before(a, TICK))
    BY <2>1, TailEffect
  <2>3. /\ d \in Machines /\ timestamps[d] = 0
        /\ d # CYCLE_TIMER => timestamps[CYCLE_TIMER] # 0
        /\ d = LIST_CONFIG => timestamps[LIST_EXECUTE] # 0
    BY <2>2, InvIs, DueIs, Names DEF DueFirst
  <2>4. /\ timestamps' = [timestamps EXCEPT ![d] = Never]
        /\ queue' = ClockCalled(q, timestamps')
    BY DEF OnTimestamp
  <2>. HIDE DEF d
  <2>5. d \in Messages /\ d # TICK /\ TICK \notin {d}
    BY <2>3, Names DEF Messages
  <2>6. Effect(queue, q, {TICK}, {} \cup {d})
    BY <2>2, <2>5, RescheduleEffect
  <2>7. Effect(queue, q, {TICK}, {d})
    BY <2>6
  <2>. HIDE DEF q
  <2>8. /\ Effect(queue, queue', {TICK}, {d}) /\ TickLast(queue')
        /\ TICK \in Range(queue') <=> Due(timestamps')
    BY <2>4, <2>5, <2>7, ClockCalledEffect
  <2>9. KeptBut(d, timestamps') /\ timestamps'[d] = Never
    BY <2>1, <2>3, <2>4 DEF KeptBut, Never
  <2>. QED
    BY <2>2, <2>3, <2>8, <2>9, InvIs
<1>4. SenderTypeOK' /\ ~failed' /\ Counted(adminSchedule)' /\ Counted(operSchedule)'
  BY <1>1, <1>2, <1>3, Names DEF SenderTypeOK, TypeOK, Effect, QueueOK, KeptBut, Messages
<1>5. QueueInv'
  BY <1>1, <1>2, <1>3, Names DEF QueueInv, Effect, QueueOK, KeptBut, Due, Never
<1>6. DisabledInv'
  BY <1>1, <1>2, <1>3, Names DEF DisabledInv, Effect, KeptBut, Never
<1>7. OperatingInv'
  BY <1>1, <1>2, <1>3, Names DEF OperatingInv, Effect, KeptBut
<1>8. UpdateInv'
  BY <1>1, <1>2, <1>3, Names DEF UpdateInv, FirstSet, Effect, KeptBut, Never, DisabledInv
<1>. QED
  BY <1>1, <1>2, <1>4, <1>5, <1>6, <1>7, <1>8 DEF SenderInv

\* A datagram is sent.
LEMMA ProcessSendStep ==
  ASSUME SenderInv, ProcessSend
  PROVE  SenderInv'
<1>. USE DEF In, Before, adminVars, cycleTimerVars, listExecuteVars, listConfigVars, clockVars
<1>1. /\ SenderTypeOK /\ ~failed /\ Counted(adminSchedule) /\ Counted(operSchedule)
      /\ QueueInv /\ OperatingInv /\ UpdateInv /\ StartInv /\ ConfigInv /\ TimerInv
      /\ RestartInv /\ OrderInv /\ ListInv /\ SendInv /\ PlaceInv
  <2>1. In(SEND)
    BY InvIs, TailEffect DEF ProcessSend, Handles
  <2>2. enabled
    BY <2>1 DEF SenderInv, DisabledInv
  <2>. QED
    BY <2>2 DEF SenderInv
<1>2. /\ Handles(SEND) /\ enabled /\ In(SEND)
      /\ (\A a : ~Before(a, SEND))
      /\ UNCHANGED <<clockVars, adminVars, cycleTimerVars, listExecuteVars,
                     listConfigVars, failed>>
      /\ queue' = Tail(queue)
      /\ operating' = operating /\ sent' = Append(sent, operState)
  <2>1. Handles(SEND) /\ In(SEND) /\ (\A a : ~Before(a, SEND))
    BY InvIs, TailEffect DEF ProcessSend, Handles
  <2>2. enabled
    BY <2>1 DEF SenderInv, DisabledInv
  <2>3. operating
    BY <1>1, <2>2 DEF OperatingInv
  <2>. QED
    BY <2>1, <2>2, <2>3 DEF ProcessSend, managerState
<1>3. /\ Effect(queue, queue', {SEND}, {})
      /\ In(TICK)' <=> Due(timestamps')
      /\ In(TICK) <=> Due(timestamps)
      /\ timestamps' = timestamps
  BY <1>2, InvIs, TailEffect, Names DEF Handles
<1>4. /\ In(LIST_EXECUTE) /\ listExecuteState # "NEW_CYCLE"
      /\ nextListExecuteState \in {"NEW_CYCLE", "DELAY", "END_OF_CYCLE"}
  BY <1>1, <1>2 DEF SendInv, ListInv
<1>5. ~In(SEND)'
  BY <1>3, Names DEF Effect
<1>6. sent \in Seq(States) /\ operState \in States
  BY <1>1 DEF SenderTypeOK, TypeOK
<1>7. PICK l, n : l = operSchedule.controlList /\ n = listPointer
  OBVIOUS
<1>8. ASSUME n \in 1 .. Len(l), operState = l[n].object, SentOrSending(n, l)
      PROVE  SentOrSending(n, l)'
  <2>1. SentFirst(n - 1, l)
    BY <1>2, <1>8 DEF SentOrSending
  <2>2. n \in Nat /\ n \in 1 .. Len(l)
    BY <1>1, <1>7, <1>8 DEF SenderTypeOK, TypeOK
  <2>3. /\ Len(sent') = n /\ sent'[n] = l[n].object
        /\ \A i \in 1 .. n - 1 : sent'[i] = l[i].object
    BY <1>2, <1>6, <1>8, <2>1, <2>2 DEF SentFirst
  <2>4. \A i \in 1 .. n : i \in 1 .. n - 1 \/ i = n
    BY <2>2
  <2>5. SentFirst(n, l)'
    BY <2>3, <2>4 DEF SentFirst
  <2>. QED
    BY <1>5, <2>5 DEF SentOrSending
<1>9. Executed(n, l) => Executed(n, l)'
  BY <1>2, <1>8 DEF Executed

<1>10. SenderTypeOK' /\ ~failed' /\ Counted(adminSchedule)' /\ Counted(operSchedule)'
  BY <1>1, <1>2, <1>3, <1>6, Names DEF SenderTypeOK, TypeOK, Effect, QueueOK, KeptBut, Messages
<1>11. QueueInv'
  BY <1>1, <1>2, <1>3, <1>4, <1>5, <1>6, <1>7, <1>8, <1>9, Names
    DEF QueueInv, Effect, QueueOK, KeptBut, Due
<1>12. enabled' = enabled
  BY <1>2
<1>13. OperatingInv'
  BY <1>1, <1>2, <1>3, <1>4, <1>5, <1>6, <1>7, <1>8, <1>9, Names
    DEF OperatingInv, Effect, KeptBut
<1>14. UpdateInv'
  BY <1>1, <1>2, <1>3, <1>4, <1>5, <1>6, <1>7, <1>8, <1>9, Names
    DEF UpdateInv, FirstSet, Effect, KeptBut
<1>15. StartInv'
  BY <1>1, <1>2, <1>3, <1>4, <1>5, <1>6, <1>7, <1>8, <1>9, Names, InQueue
    DEF StartInv, ConfigInv, Effect, KeptBut
<1>16. ConfigInv'
  BY <1>1, <1>2, <1>3, <1>4, <1>5, <1>6, <1>7, <1>8, <1>9, Names
    DEF ConfigInv, TimerLives, AdminStart, Effect, KeptBut
<1>17. TimerInv'
  BY <1>1, <1>2, <1>3, <1>4, <1>5, <1>6, <1>7, <1>8, <1>9, Names
    DEF TimerInv, TimerLives, Effect, KeptBut
<1>18. RestartInv'
  BY <1>1, <1>2, <1>3, <1>4, <1>5, <1>6, <1>7, <1>8, <1>9, Names, DueIs, InQueue
    DEF RestartInv, FirstSet, OperStart, Never, Effect, KeptBut
<1>19. OrderInv'
  BY <1>1, <1>2, <1>3, <1>4, <1>5, <1>6, <1>7, <1>8, <1>9, Names, DueIs
    DEF OrderInv, Never, Effect, KeptBut
<1>20. ListInv'
  BY <1>1, <1>2, <1>3, <1>4, <1>5, <1>6, <1>7, <1>8, <1>9, Names DEF ListInv, Effect, KeptBut
<1>21. SendInv'
  BY <1>1, <1>2, <1>3, <1>4, <1>5, <1>6, <1>7, <1>8, <1>9, Names DEF SendInv, Effect, KeptBut
<1>22. PlaceInv'
  <2>1. /\ operSchedule'.controlList = l /\ listPointer' = n /\ age' = age /\ exitTimer' = exitTimer
        /\ nextListExecuteState' = nextListExecuteState
        /\ Restarting' <=> Restarting
    BY <1>2, <1>3, <1>7, Names DEF Effect, Restarting
  <2>2. age # Never /\ ~Restarting =>
          /\ nextListExecuteState = "DELAY" =>
               Executed(n, l)' /\ n < Len(l) /\ age + exitTimer = EndOf(l)[n]
          /\ nextListExecuteState = "END_OF_CYCLE" => l = <<>> \/ (n = Len(l) /\ Executed(n, l)')
    BY <1>1, <1>7, <1>9 DEF PlaceInv
  <2>. QED
    BY <1>4, <2>1, <2>2 DEF PlaceInv, Executed, SentOrSending, SentFirst
<1>. QED
  BY <1>1, <1>2, <1>10, <1>11, <1>12, <1>13, <1>14, <1>15, <1>16, <1>17, <1>18, <1>19, <1>20,
     <1>21, <1>22 DEF SenderInv, DisabledInv

\* The generator crashes: the manager is disabled.
LEMMA HandleCrashOperationStep ==
  ASSUME SenderInv, HandleCrashOperation
  PROVE  SenderInv'
<1>. USE DEF In, Before, adminVars, cycleTimerVars, listExecuteVars, listConfigVars, clockVars
<1>1. /\ SenderTypeOK /\ ~failed /\ Counted(adminSchedule) /\ Counted(operSchedule)
      /\ QueueInv /\ DisabledInv /\ OperatingInv /\ UpdateInv
  BY DEF SenderInv
<1>2. /\ operating /\ operating' = FALSE /\ sent' = <<>> /\ enabled' = FALSE
      /\ nextCycleTimerState' = "CYCLE_IDLE" /\ nextListExecuteState' = "INIT"
      /\ nextListConfigState' = "CONFIG_IDLE"
      /\ UNCHANGED <<adminState, adminSchedule, configChange, cycleTimerState, cycleStartTime,
                     listExecuteState, listPointer, operState, exitTimer, age, listConfigState,
                     operSchedule, configPending, configChangeTime, clockVars, failed>>
  BY DEF HandleCrashOperation, SetEnabled
<1>3. /\ Effect(queue, queue', {START, STOP, SEND}, Machines)
      /\ In(TICK)' <=> In(TICK)
      /\ In(TICK) <=> Due(timestamps)
  <2>. DEFINE c1 == RemoveFirst(queue, START)  c2 == RemoveFirst(c1, STOP)  c3 == RemoveFirst(c2, SEND)
              G == {START, STOP, SEND}  b == ({} \cup {CYCLE_TIMER}) \cup {LIST_EXECUTE}
              r1 == Reschedule(c3, CYCLE_TIMER)  r2 == Reschedule(r1, LIST_EXECUTE)
  <2>1. Effect(queue, queue, {}, {})
    BY InvIs, TailEffect
  <2>2. Effect(queue, c1, {} \cup {START}, {}) /\ (TICK \in Range(c1) <=> In(TICK))
    BY <2>1, RemoveEffect, Names
  <2>3. queue' = Reschedule(r2, LIST_CONFIG)
    BY DEF HandleCrashOperation, SetEnabled, Cancelled
  <2>. HIDE DEF c1
  <2>4. Effect(queue, c2, ({} \cup {START}) \cup {STOP}, {}) /\ (TICK \in Range(c2) <=> In(TICK))
    BY <2>2, RemoveEffect, Names
  <2>. HIDE DEF c2
  <2>5. /\ Effect(queue, c3, (({} \cup {START}) \cup {STOP}) \cup {SEND}, {})
        /\ TICK \in Range(c3) <=> In(TICK)
    BY <2>4, RemoveEffect, Names
  <2>6. (({} \cup {START}) \cup {STOP}) \cup {SEND} = {START, STOP, SEND}
    OBVIOUS
  <2>. HIDE DEF c3
  <2>7. Effect(queue, c3, G, {}) /\ (TICK \in Range(c3) <=> In(TICK))
    BY <2>5, <2>6
  <2>. HIDE DEF G
  <2>8. /\ Effect(queue, r1, G, {} \cup {CYCLE_TIMER})
        /\ TICK \in Range(r1) <=> In(TICK)
    BY <2>7, RescheduleEffect, Names
  <2>. HIDE DEF r1
  <2>9. /\ Effect(queue, r2, G, b)
        /\ TICK \in Range(r2) <=> In(TICK)
    BY <2>8, RescheduleEffect, Names
  <2>. HIDE DEF r2, b
  <2>10. /\ Effect(queue, queue', G, b \cup {LIST_CONFIG})
         /\ TICK \in Range(queue') <=> In(TICK)
    BY <2>3, <2>9, RescheduleEffect, Names
  <2>11. b \cup {LIST_CONFIG} = Machines
    BY Names DEF b
  <2>. QED
    BY <2>10, <2>11, InvIs DEF G
<1>4. SenderTypeOK' /\ ~failed' /\ Counted(adminSchedule)' /\ Counted(operSchedule)'
  <2>1. {enabled', operating', configChange', configPending', failed'} \subseteq BOOLEAN
    BY <1>1, <1>2 DEF SenderTypeOK, TypeOK
  <2>2. Counted(adminSchedule)' /\ Counted(operSchedule)' /\ ~failed' /\ sent' \in Seq(States)
    BY <1>1, <1>2
  <2>3. queue' \in Seq(Machines \cup {TICK, START, STOP, SEND})
    BY <1>3 DEF Effect, QueueOK, Messages
  <2>. QED
    BY <1>1, <1>2, <2>1, <2>2, <2>3 DEF SenderTypeOK, TypeOK
<1>5. QueueInv'
  BY <1>1, <1>2, <1>3, Names DEF QueueInv, Effect, QueueOK, KeptBut, Due
<1>6. DisabledInv'
  BY <1>1, <1>2, <1>3, Names DEF DisabledInv, Effect, KeptBut
<1>7. OperatingInv'
  BY <1>1, <1>2, <1>3, Names DEF OperatingInv, Effect, KeptBut
<1>8. UpdateInv'
  BY <1>1, <1>2, <1>3, Names DEF UpdateInv, FirstSet, Effect, KeptBut
<1>. QED
  BY <1>1, <1>2, <1>4, <1>5, <1>6, <1>7, <1>8 DEF SenderInv

\* The generator is started again.
LEMMA CarefulStartStep ==
  ASSUME SenderInv, CarefulStart
  PROVE  SenderInv'
<1>. USE DEF In, Before, adminVars, cycleTimerVars, listExecuteVars, listConfigVars, clockVars
<1>1. /\ SenderTypeOK /\ ~failed /\ Counted(adminSchedule) /\ Counted(operSchedule)
      /\ QueueInv /\ DisabledInv /\ OperatingInv /\ UpdateInv
  BY DEF SenderInv
<1>2. /\ queue = <<>> /\ ~operating /\ operating' = TRUE /\ ~enabled
      /\ UNCHANGED <<adminVars, cycleTimerVars, listExecuteVars, listConfigVars,
                     clockVars, failed, sent>>
  BY <1>1 DEF CarefulStart, HandleStartOperation, OperatingInv, managerState
<1>3. /\ QueueOK(queue') /\ Range(queue') = {START} /\ Range(queue) = {}
      /\ In(TICK) <=> Due(timestamps)
  <2>1. QueueOK(queue) /\ Range(queue) = {} /\ queue' = Append(queue, START)
    BY <1>2, InvIs, SeqFacts DEF QueueOK, CarefulStart, HandleStartOperation
  <2>2. START \in Messages /\ START \notin Range(queue)
    BY <2>1, Names
  <2>. QED
    BY <2>1, <2>2, AppendIs, InvIs
<1>4. SenderTypeOK' /\ ~failed' /\ Counted(adminSchedule)' /\ Counted(operSchedule)'
  BY <1>1, <1>2, <1>3, Names DEF SenderTypeOK, TypeOK, Effect, QueueOK, KeptBut, Messages
<1>5. QueueInv'
  BY <1>1, <1>2, <1>3, Names DEF QueueInv, Effect, QueueOK, KeptBut, Due
<1>6. DisabledInv'
  BY <1>1, <1>2, <1>3, Names DEF DisabledInv, Effect, KeptBut
<1>7. OperatingInv'
  BY <1>1, <1>2, <1>3, Names DEF OperatingInv, Effect, KeptBut
<1>8. UpdateInv'
  BY <1>1, <1>2, <1>3, Names DEF UpdateInv, FirstSet, Effect, KeptBut
<1>. QED
  BY <1>1, <1>2, <1>4, <1>5, <1>6, <1>7, <1>8 DEF SenderInv

\* The generator comes up: the manager is enabled.
LEMMA ProcessStartStep ==
  ASSUME SenderInv, ProcessStart,
         enabled
  PROVE  SenderInv'
<1>. USE DEF In, Before, adminVars, cycleTimerVars, listExecuteVars, listConfigVars, clockVars
<1>1. /\ SenderTypeOK /\ ~failed /\ Counted(adminSchedule) /\ Counted(operSchedule)
      /\ QueueInv /\ OperatingInv /\ UpdateInv /\ StartInv /\ ConfigInv /\ TimerInv
      /\ RestartInv /\ OrderInv /\ ListInv /\ SendInv /\ PlaceInv
  BY DEF SenderInv
<1>2. /\ Handles(START) /\ In(START) /\ enabled' = TRUE
      /\ nextListConfigState' = IF configChange THEN "CONFIG_PENDING" ELSE nextListConfigState
      /\ queue' = IF configChange THEN Reschedule(Tail(queue), LIST_CONFIG) ELSE Tail(queue)
      /\ UNCHANGED <<nextCycleTimerState, nextListExecuteState, adminState, adminSchedule, configChange,
                     cycleTimerState, cycleStartTime, listExecuteState, listPointer, operState,
                     exitTimer, age, listConfigState, operSchedule, configPending, configChangeTime,
                     clockVars, failed, operating, sent>>
  <2>1. Handles(START) /\ In(START)
    BY InvIs, TailEffect DEF ProcessStart, Handles
  <2>2. operating
    BY <1>1, <2>1 DEF OperatingInv
  <2>. QED
    BY <2>1, <2>2 DEF ProcessStart, SetEnabled
<1>3. PICK back :
        /\ back = IF configChange THEN {LIST_CONFIG} ELSE {}
        /\ Effect(queue, queue', {START}, back)
        /\ In(TICK)' <=> Due(timestamps')
        /\ In(TICK) <=> Due(timestamps)
        /\ \A a : ~Before(a, START)
  <2>1. /\ Effect(queue, Tail(queue), {START}, {})
        /\ TICK \in Range(Tail(queue)) <=> In(TICK)
        /\ \A a : ~Before(a, START)
    BY <1>2, InvIs, TailEffect, Names DEF Handles
  <2>2. CASE configChange
    <3>1. /\ Effect(queue, queue', {START}, {} \cup {LIST_CONFIG})
          /\ TICK \in Range(queue') <=> TICK \in Range(Tail(queue))
      BY <1>2, <2>1, <2>2, RescheduleEffect, Names
    <3>2. {} \cup {LIST_CONFIG} = {LIST_CONFIG}
      OBVIOUS
    <3>. QED
      BY <1>2, <2>1, <2>2, <3>1, <3>2, InvIs
  <2>3. CASE ~configChange
    BY <1>2, <2>1, <2>3, InvIs
  <2>. QED
    BY <2>2, <2>3
<1>4. SenderTypeOK' /\ ~failed' /\ Counted(adminSchedule)' /\ Counted(operSchedule)'
  BY <1>1, <1>2, <1>3, Names DEF SenderTypeOK, TypeOK, Effect, QueueOK, KeptBut, Messages
<1>5. QueueInv'
  BY <1>1, <1>2, <1>3, Names DEF QueueInv, Effect, QueueOK, KeptBut, Due
<1>6. enabled' = TRUE
  BY <1>2
<1>7. OperatingInv'
  BY <1>1, <1>2, <1>3, Names DEF OperatingInv, Effect, KeptBut
<1>8. UpdateInv'
  BY <1>1, <1>2, <1>3, Names DEF UpdateInv, FirstSet, Effect, KeptBut, StartInv
<1>9. StartInv'
  BY <1>1, <1>2, <1>3, Names DEF StartInv, ConfigInv, Effect, KeptBut
<1>10. ConfigInv'
  BY <1>1, <1>2, <1>3, Names DEF ConfigInv, TimerLives, AdminStart, Effect, KeptBut, StartInv
<1>11. TimerInv'
  BY <1>1, <1>2, <1>3, Names DEF TimerInv, TimerLives, Effect, KeptBut
<1>12. RestartInv'
  BY <1>1, <1>2, <1>3, Names, DueIs, InQueue
    DEF RestartInv, FirstSet, OperStart, Never, Effect, KeptBut, StartInv
<1>13. OrderInv'
  BY <1>1, <1>2, <1>3, Names, DueIs DEF OrderInv, Never, Effect, KeptBut, StartInv
<1>14. ListInv'
  BY <1>1, <1>2, <1>3, Names DEF ListInv, Effect, KeptBut
<1>15. SendInv'
  BY <1>1, <1>2, <1>3, Names DEF SendInv, Effect, KeptBut
<1>16. PlaceInv'
  BY <1>1, <1>2, <1>3, Names
    DEF PlaceInv, Restarting, SentFirst, SentOrSending, Executed, Effect, KeptBut
<1>. QED
  BY <1>1, <1>2, <1>4, <1>5, <1>6, <1>7, <1>8, <1>9, <1>10, <1>11, <1>12, <1>13, <1>14, <1>15,
     <1>16 DEF SenderInv, DisabledInv

\* The generator comes up: the manager is enabled, after it was disabled.
LEMMA ProcessStartOffStep ==
  ASSUME SenderInv, ProcessStart,
         ~enabled
  PROVE  SenderInv'
<1>. USE DEF In, Before, adminVars, cycleTimerVars, listExecuteVars, listConfigVars, clockVars
<1>1. /\ SenderTypeOK /\ ~failed /\ Counted(adminSchedule) /\ Counted(operSchedule)
      /\ QueueInv /\ DisabledInv /\ OperatingInv /\ UpdateInv
  BY DEF SenderInv
<1>2. /\ Handles(START) /\ In(START) /\ enabled' = TRUE
      /\ nextListConfigState' = IF configChange THEN "CONFIG_PENDING" ELSE nextListConfigState
      /\ queue' = IF configChange THEN Reschedule(Tail(queue), LIST_CONFIG) ELSE Tail(queue)
      /\ UNCHANGED <<nextCycleTimerState, nextListExecuteState, adminState, adminSchedule, configChange,
                     cycleTimerState, cycleStartTime, listExecuteState, listPointer, operState,
                     exitTimer, age, listConfigState, operSchedule, configPending, configChangeTime,
                     clockVars, failed, operating, sent>>
  <2>1. Handles(START) /\ In(START)
    BY InvIs, TailEffect DEF ProcessStart, Handles
  <2>2. operating
    BY <1>1, <2>1 DEF OperatingInv
  <2>. QED
    BY <2>1, <2>2 DEF ProcessStart, SetEnabled
<1>3. PICK back :
        /\ back = IF configChange THEN {LIST_CONFIG} ELSE {}
        /\ Effect(queue, queue', {START}, back)
        /\ In(TICK)' <=> Due(timestamps')
        /\ In(TICK) <=> Due(timestamps)
        /\ \A a : ~Before(a, START)
  <2>1. /\ Effect(queue, Tail(queue), {START}, {})
        /\ TICK \in Range(Tail(queue)) <=> In(TICK)
        /\ \A a : ~Before(a, START)
    BY <1>2, InvIs, TailEffect, Names DEF Handles
  <2>2. CASE configChange
    <3>1. /\ Effect(queue, queue', {START}, {} \cup {LIST_CONFIG})
          /\ TICK \in Range(queue') <=> TICK \in Range(Tail(queue))
      BY <1>2, <2>1, <2>2, RescheduleEffect, Names
    <3>2. {} \cup {LIST_CONFIG} = {LIST_CONFIG}
      OBVIOUS
    <3>. QED
      BY <1>2, <2>1, <2>2, <3>1, <3>2, InvIs
  <2>3. CASE ~configChange
    BY <1>2, <2>1, <2>3, InvIs
  <2>. QED
    BY <2>2, <2>3
<1>4. /\ nextCycleTimerState = "CYCLE_IDLE" /\ cycleTimerState = "CYCLE_IDLE"
      /\ nextListExecuteState = "INIT" /\ listExecuteState = "INIT" /\ age = Never
      /\ nextListConfigState = "CONFIG_IDLE" /\ ~enabled
      /\ Range(queue) = {START}
      /\ timestamps[CYCLE_TIMER] = Never /\ timestamps[LIST_EXECUTE] = Never
      /\ timestamps[LIST_CONFIG] = Never
  BY <1>1, <1>2, Names DEF DisabledInv
<1>5. /\ \A x : x # LIST_CONFIG /\ x # TICK => x \notin Range(queue')
      /\ LIST_CONFIG \in Range(queue') <=> configChange
      /\ ~In(TICK)'
  BY <1>2, <1>3, <1>4, DueIs, Names DEF Effect, Never

<1>6. SenderTypeOK' /\ ~failed' /\ Counted(adminSchedule)' /\ Counted(operSchedule)'
  BY <1>1, <1>2, <1>3, <1>4, <1>5, Names
    DEF SenderTypeOK, TypeOK, Effect, QueueOK, KeptBut, Messages
<1>7. QueueInv'
  BY <1>1, <1>2, <1>3, <1>4, <1>5, Names DEF QueueInv, Effect, QueueOK, KeptBut, Due
<1>8. DisabledInv'
  BY <1>2 DEF DisabledInv
<1>9. OperatingInv'
  BY <1>1, <1>2, <1>3, <1>4, <1>5, Names DEF OperatingInv, Effect, KeptBut
<1>10. UpdateInv'
  BY <1>1, <1>2, <1>3, <1>4, <1>5, Names DEF UpdateInv, FirstSet, Effect, KeptBut
<1>11. StartInv'
  BY <1>1, <1>2, <1>3, <1>4, <1>5, Names DEF StartInv, ConfigInv, Effect, KeptBut
<1>12. ConfigInv'
  BY <1>1, <1>2, <1>3, <1>4, <1>5, Names
    DEF ConfigInv, TimerLives, AdminStart, Effect, KeptBut, StartInv
<1>13. TimerInv'
  BY <1>1, <1>2, <1>3, <1>4, <1>5, Names DEF TimerInv, TimerLives, Effect, KeptBut
<1>14. RestartInv'
  BY <1>1, <1>2, <1>3, <1>4, <1>5, Names, DueIs, InQueue
    DEF RestartInv, FirstSet, OperStart, Never, Effect, KeptBut, StartInv
<1>15. OrderInv'
  BY <1>1, <1>2, <1>3, <1>4, <1>5, Names, DueIs DEF OrderInv, Never, Effect, KeptBut, StartInv
<1>16. ListInv'
  BY <1>1, <1>2, <1>3, <1>4, <1>5, Names DEF ListInv, Effect, KeptBut
<1>17. SendInv'
  BY <1>1, <1>2, <1>3, <1>4, <1>5, Names DEF SendInv, Effect, KeptBut
<1>18. PlaceInv'
  BY <1>1, <1>2, <1>3, <1>4, <1>5, Names
    DEF PlaceInv, Restarting, SentFirst, SentOrSending, Executed, Effect, KeptBut
<1>. QED
  BY <1>1, <1>2, <1>6, <1>7, <1>8, <1>9, <1>10, <1>11, <1>12, <1>13, <1>14, <1>15, <1>16,
     <1>17, <1>18 DEF SenderInv

\* A client sets a schedule.
LEMMA ReconfigureStep ==
  ASSUME SenderInv, NEW s \in AdminSchedules, Counted(s), Reconfigure(s),
         listConfigState # "UPDATE_CONFIG",
         UNCHANGED <<operating, sent>>, enabled
  PROVE  SenderInv'
<1>. USE DEF In, Before, adminVars, cycleTimerVars, listExecuteVars, listConfigVars, clockVars
<1>1. /\ SenderTypeOK /\ ~failed /\ Counted(adminSchedule) /\ Counted(operSchedule)
      /\ QueueInv /\ OperatingInv /\ UpdateInv /\ StartInv /\ ConfigInv /\ TimerInv
      /\ RestartInv /\ OrderInv /\ ListInv /\ SendInv /\ PlaceInv
  BY DEF SenderInv
<1>2. /\ configChange' = TRUE /\ adminSchedule' = s /\ s \in Schedule /\ Counted(s)
      /\ listConfigState # "UPDATE_CONFIG" /\ nextListConfigState' = "CONFIG_PENDING"
      /\ UNCHANGED <<enabled, adminState, cycleTimerVars, listExecuteVars, listConfigState,
                     operSchedule, configPending, configChangeTime, clockVars, failed, operating, sent>>
  BY ManagerAssumption DEF Reconfigure, RequestConfigChange
<1>3. /\ Effect(queue, queue', {}, {LIST_CONFIG})
      /\ In(TICK)' <=> Due(timestamps')
      /\ In(TICK) <=> Due(timestamps)
  <2>1. /\ Effect(queue, queue', {}, {} \cup {LIST_CONFIG})
        /\ TICK \in Range(queue') <=> In(TICK)
    <3>1. Effect(queue, queue, {}, {}) /\ queue' = Reschedule(queue, LIST_CONFIG)
      BY InvIs, TailEffect DEF Reconfigure, RequestConfigChange
    <3>. QED
      BY <3>1, RescheduleEffect, Names
  <2>2. {} \cup {LIST_CONFIG} = {LIST_CONFIG}
    OBVIOUS
  <2>. QED
    BY <1>2, <2>1, <2>2, InvIs
<1>4. SenderTypeOK' /\ ~failed' /\ Counted(adminSchedule)' /\ Counted(operSchedule)'
  BY <1>1, <1>2, <1>3, Names DEF SenderTypeOK, TypeOK, Effect, QueueOK, KeptBut, Messages
<1>5. QueueInv'
  BY <1>1, <1>2, <1>3, Names DEF QueueInv, Effect, QueueOK, KeptBut, Due
<1>6. enabled' = enabled
  BY <1>2
<1>7. OperatingInv'
  BY <1>1, <1>2, <1>3, Names DEF OperatingInv, Effect, KeptBut
<1>8. UpdateInv'
  BY <1>1, <1>2, <1>3, Names DEF UpdateInv, FirstSet, Effect, KeptBut
<1>9. StartInv'
  BY <1>1, <1>2, <1>3, Names DEF StartInv, ConfigInv, Effect, KeptBut
<1>10. ConfigInv'
  BY <1>1, <1>2, <1>3, Names DEF ConfigInv, TimerLives, AdminStart, Effect, KeptBut
<1>11. TimerInv'
  BY <1>1, <1>2, <1>3, Names DEF TimerInv, TimerLives, Effect, KeptBut
<1>12. RestartInv'
  BY <1>1, <1>2, <1>3, Names, DueIs, InQueue
    DEF RestartInv, FirstSet, OperStart, Never, Effect, KeptBut, TimerInv
<1>13. OrderInv'
  BY <1>1, <1>2, <1>3, Names, DueIs DEF OrderInv, Never, Effect, KeptBut
<1>14. ListInv'
  BY <1>1, <1>2, <1>3, Names DEF ListInv, Effect, KeptBut
<1>15. SendInv'
  BY <1>1, <1>2, <1>3, Names DEF SendInv, Effect, KeptBut
<1>16. PlaceInv'
  BY <1>1, <1>2, <1>3, Names
    DEF PlaceInv, Restarting, SentFirst, SentOrSending, Executed, Effect, KeptBut
<1>. QED
  BY <1>1, <1>2, <1>4, <1>5, <1>6, <1>7, <1>8, <1>9, <1>10, <1>11, <1>12, <1>13, <1>14, <1>15,
     <1>16 DEF SenderInv, DisabledInv

\* A client sets a schedule of a manager that is disabled.
LEMMA ReconfigureOffStep ==
  ASSUME SenderInv, NEW s \in AdminSchedules, Counted(s), Reconfigure(s),
         listConfigState # "UPDATE_CONFIG",
         UNCHANGED <<operating, sent>>, ~enabled
  PROVE  SenderInv'
<1>. USE DEF In, Before, adminVars, cycleTimerVars, listExecuteVars, listConfigVars, clockVars
<1>1. /\ SenderTypeOK /\ ~failed /\ Counted(adminSchedule) /\ Counted(operSchedule)
      /\ QueueInv /\ DisabledInv /\ OperatingInv /\ UpdateInv
  BY DEF SenderInv
<1>2. /\ configChange' = TRUE /\ adminSchedule' = s /\ s \in Schedule /\ Counted(s)
      /\ listConfigState # "UPDATE_CONFIG" /\ UNCHANGED <<nextListConfigState, queue>>
      /\ UNCHANGED <<enabled, adminState, cycleTimerVars, listExecuteVars, listConfigState,
                     operSchedule, configPending, configChangeTime, clockVars, failed, operating, sent>>
  BY ManagerAssumption DEF Reconfigure, RequestConfigChange
<1>3. /\ Effect(queue, queue', {}, {})
      /\ In(TICK)' <=> Due(timestamps')
      /\ In(TICK) <=> Due(timestamps)
  BY <1>2, InvIs, TailEffect
<1>4. SenderTypeOK' /\ ~failed' /\ Counted(adminSchedule)' /\ Counted(operSchedule)'
  BY <1>1, <1>2, <1>3, Names DEF SenderTypeOK, TypeOK, Effect, QueueOK, KeptBut, Messages
<1>5. QueueInv'
  BY <1>1, <1>2, <1>3, Names DEF QueueInv, Effect, QueueOK, KeptBut, Due
<1>6. DisabledInv'
  BY <1>1, <1>2, <1>3, Names DEF DisabledInv, Effect, KeptBut
<1>7. OperatingInv'
  BY <1>1, <1>2, <1>3, Names DEF OperatingInv, Effect, KeptBut
<1>8. UpdateInv'
  BY <1>1, <1>2, <1>3, Names DEF UpdateInv, FirstSet, Effect, KeptBut
<1>. QED
  BY <1>1, <1>2, <1>4, <1>5, <1>6, <1>7, <1>8 DEF SenderInv

\* Neither a call that sets adminState nor a stutter changes anything the invariant is about.
LEMMA SetAdminStateStep ==
  ASSUME SenderInv, adminState' \in States,
         UNCHANGED <<enabled, adminSchedule, configChange, cycleTimerVars, listExecuteVars,
                     listConfigVars, clockVars, queue, failed, operating, sent>>
  PROVE  SenderInv'
<1>. USE DEF cycleTimerVars, listExecuteVars, listConfigVars, clockVars
<1>1. SenderTypeOK'
  BY DEF SenderInv, SenderTypeOK, TypeOK
<1>2. (QueueInv' <=> QueueInv) /\ (DisabledInv' <=> DisabledInv) /\ (OperatingInv' <=> OperatingInv)
  BY DEF QueueInv, DisabledInv, OperatingInv, In
<1>3. (UpdateInv' <=> UpdateInv) /\ (StartInv' <=> StartInv) /\ (ConfigInv' <=> ConfigInv)
  BY DEF UpdateInv, StartInv, ConfigInv, FirstSet, TimerLives, AdminStart, In, Before
<1>4. (TimerInv' <=> TimerInv) /\ (RestartInv' <=> RestartInv) /\ (OrderInv' <=> OrderInv)
  BY DEF TimerInv, RestartInv, OrderInv, FirstSet, TimerLives, OperStart, In, Before
<1>5. (ListInv' <=> ListInv) /\ (SendInv' <=> SendInv) /\ (PlaceInv' <=> PlaceInv)
  BY DEF ListInv, SendInv, PlaceInv, Restarting, Executed, SentOrSending, SentFirst, In, Before
<1>. QED
  BY <1>1, <1>2, <1>3, <1>4, <1>5 DEF SenderInv

\* Time passes.
LEMMA ElapseStep ==
  ASSUME SenderInv, Elapse,
         ManagerStep, enabled
  PROVE  SenderInv'
<1>. USE DEF In, Before, adminVars, cycleTimerVars, listExecuteVars, listConfigVars, clockVars
<1>1. /\ SenderTypeOK /\ ~failed /\ Counted(adminSchedule) /\ Counted(operSchedule)
      /\ QueueInv /\ OperatingInv /\ UpdateInv /\ StartInv /\ ConfigInv /\ TimerInv
      /\ RestartInv /\ OrderInv /\ ListInv /\ SendInv /\ PlaceInv
  BY DEF SenderInv
<1>2. /\ queue = <<>> /\ enabled
      /\ timestamps' = [m \in Machines |-> Earlier(timestamps[m])]
      /\ queue' = ClockCalled(queue, timestamps')
      /\ adminSchedule' = Shifted(adminSchedule) /\ operSchedule' = Shifted(operSchedule)
      /\ cycleStartTime' = Earlier(cycleStartTime)
      /\ configChangeTime' = Earlier(configChangeTime)
      /\ age' = IF age \in 0 .. MaxAge - 1 THEN age + 1 ELSE age
      /\ UNCHANGED <<enabled, adminState, configChange, cycleTimerState, nextCycleTimerState,
                     listExecuteState, nextListExecuteState, listPointer, operState, exitTimer,
                     listConfigState, nextListConfigState, configPending, subscribed, failed, operating>>
      /\ sent' = sent
  BY <1>1 DEF Elapse, ManagerStep, ListInv
<1>3. /\ QueueOK(queue') /\ QueueOK(queue)
      /\ \A x : x \notin Range(queue) /\ (x # TICK => x \notin Range(queue'))
      /\ In(TICK)' <=> Due(timestamps')
      /\ ~Due(timestamps)
  <2>1. QueueOK(queue) /\ Range(queue) = {} /\ ~Due(timestamps)
    BY <1>2, InvIs, SeqFacts DEF QueueOK
  <2>2. /\ Effect(queue, queue', {}, {}) /\ (In(TICK)' <=> Due(timestamps'))
    BY <1>2, <2>1, ClockCalledIs
  <2>. QED
    BY <2>1, <2>2 DEF Effect
<1>4. /\ timestamps' \in [Machines -> Nat \cup {Never}]
      /\ \A m \in Machines :
           /\ timestamps[m] \in Nat \cup {Never} /\ timestamps[m] # 0
           /\ timestamps[m] = Never => timestamps'[m] = Never
           /\ timestamps[m] # Never => timestamps'[m] = timestamps[m] - 1 /\ timestamps'[m] \in Nat
  <2>1. timestamps \in [Machines -> Nat \cup {Never}] /\ \A m \in Machines : timestamps[m] # 0
    BY <1>3, InvIs DEF Due
  <2>2. \A m \in Machines : timestamps[m] \in Nat \cup {Never} /\ timestamps'[m] = Earlier(timestamps[m])
    BY <1>2, <2>1
  <2>3. \A t \in Nat \cup {Never} : t # 0 =>
          /\ Earlier(t) \in Nat \cup {Never}
          /\ t = Never => Earlier(t) = Never
          /\ t # Never => Earlier(t) = t - 1 /\ Earlier(t) \in Nat
    BY DEF Earlier, Never
  <2>. QED
    BY <1>2, <2>1, <2>2, <2>3
<1>5. /\ {adminSchedule, operSchedule} \subseteq Schedule
      /\ {adminSchedule', operSchedule'} \subseteq Schedule
      /\ Counted(adminSchedule') /\ Counted(operSchedule')
      /\ operSchedule'.controlList = operSchedule.controlList
      /\ operSchedule'.cycleTime = operSchedule.cycleTime
      /\ operSchedule'.cycleTimeExtension = operSchedule.cycleTimeExtension
      /\ operSchedule.cycleTime \in Nat \ {0} /\ operSchedule.cycleTimeExtension \in Nat
      /\ operSchedule.cycleTime + operSchedule.cycleTimeExtension < MaxAge /\ MaxAge \in Nat
      /\ AdminStart \in Nat
      /\ AdminStart > 0 => AdminStart' = AdminStart - 1
  <2>1. adminSchedule \in Schedule /\ operSchedule \in Schedule
    BY <1>1 DEF SenderTypeOK, TypeOK
  <2>2. /\ operSchedule.cycleTime \in Nat \ {0} /\ operSchedule.cycleTimeExtension \in Nat
        /\ adminSchedule.baseTime \in Int /\ adminSchedule.cycleTime \in Nat \ {0}
    BY <2>1 DEF Schedule
  <2>. QED
    BY <1>1, <1>2, <2>1, <2>2, NextMultipleComes, NextMultipleIs, ManagerAssumption
       DEF Counted, AdminStart
<1>6. age \in Nat \cup {Never} /\ age' \in Nat \cup {Never} /\ (age = Never <=> age' = Never)
  BY <1>1, <1>2, <1>5 DEF SenderTypeOK, TypeOK, Never
<1>7. cycleStartTime \in Int /\ configChangeTime \in Int /\ cycleStartTime' \in Int /\ configChangeTime' \in Int
  BY <1>1, <1>2 DEF SenderTypeOK, TypeOK, Earlier, Never
<1>8. nextCycleTimerState \in {"CYCLE_IDLE", "SET_CYCLE_START_TIME", "START_CYCLE"}
  BY <1>1 DEF SenderTypeOK, TypeOK
<1>9. /\ nextListExecuteState \notin {"NEW_CYCLE", "DELAY"}
      /\ nextListConfigState \notin {"CONFIG_PENDING", "UNDEFINED"}
      /\ listConfigState # "UPDATE_CONFIG" /\ ~FirstSet
  BY <1>1, <1>3 DEF OrderInv, ListInv, ConfigInv, UpdateInv, TimerInv, FirstSet
<1>10. /\ age # Never => age' = age + 1
       /\ age # Never => nextCycleTimerState # "CYCLE_IDLE"
  <2>1. CASE nextCycleTimerState = "CYCLE_IDLE"
    BY <1>1, <1>3, <2>1 DEF TimerInv, ListInv
  <2>2. CASE nextCycleTimerState = "SET_CYCLE_START_TIME"
    <3>1. timestamps[CYCLE_TIMER] = 1 /\ age + timestamps[CYCLE_TIMER] = 1
      BY <1>1, <1>3, <1>4, <1>9, <2>2, Names DEF TimerInv
    <3>2. age = 0
      BY <1>6, <3>1 DEF Never
    <3>. QED
      BY <1>2, <1>5, <2>2, <3>2
  <2>3. CASE nextCycleTimerState = "START_CYCLE" /\ age # Never
    <3>1. /\ timestamps[CYCLE_TIMER] = cycleStartTime
          /\ \/ cycleStartTime = 0
             \/ age + cycleStartTime <= operSchedule.cycleTime
             \/ age + cycleStartTime <= operSchedule.cycleTime + operSchedule.cycleTimeExtension + 1
      BY <1>1, <1>3, <2>3 DEF TimerInv
    <3>2. cycleStartTime # 0 /\ cycleStartTime \in Nat \cup {Never}
      BY <1>4, <3>1, Names
    <3>3. cycleStartTime # Never
      BY <1>1, <1>3, <2>3, <3>1 DEF TimerInv, TimerLives
    <3>4. age \in Nat /\ cycleStartTime \in Nat /\ cycleStartTime >= 1
      BY <1>6, <2>3, <3>2, <3>3
    <3>5. age < MaxAge
      BY <1>5, <3>1, <3>4
    <3>. QED
      BY <1>2, <1>5, <2>3, <3>4, <3>5
  <2>. QED
    BY <1>8, <2>1, <2>2, <2>3

<1>11. SenderTypeOK' /\ ~failed' /\ Counted(adminSchedule)' /\ Counted(operSchedule)'
  <2>1. /\ queue' \in Seq(Machines \cup {TICK, START, STOP, SEND})
        /\ {adminSchedule', operSchedule'} \subseteq Schedule
        /\ {cycleStartTime', configChangeTime'} \subseteq Int
    BY <1>3, <1>5, <1>7 DEF QueueOK, Messages
  <2>2. Counted(adminSchedule)' /\ Counted(operSchedule)' /\ ~failed'
    BY <1>1, <1>2, <1>5 DEF Counted
  <2>. QED
    BY <1>1, <1>2, <1>4, <1>6, <2>1, <2>2 DEF SenderTypeOK, TypeOK
<1>12. QueueInv'
  BY <1>1, <1>2, <1>3, <1>4, <1>5, <1>6, <1>7, <1>8, <1>9, <1>10, Names
    DEF QueueInv, Effect, QueueOK, KeptBut, Due, Never
<1>13. enabled' = enabled
  BY <1>2
<1>14. OperatingInv'
  BY <1>1, <1>2, <1>3, <1>4, <1>5, <1>6, <1>7, <1>8, <1>9, <1>10, Names
    DEF OperatingInv, Effect, KeptBut
<1>15. UpdateInv'
  BY <1>1, <1>2, <1>3, <1>4, <1>5, <1>6, <1>7, <1>8, <1>9, <1>10, Names
    DEF UpdateInv, FirstSet, Effect, KeptBut
<1>16. StartInv'
  BY <1>1, <1>2, <1>3, <1>4, <1>5, <1>6, <1>7, <1>8, <1>9, <1>10, Names
    DEF StartInv, ConfigInv, Effect, KeptBut
<1>17. ConfigInv'
  <2>1. TimerLives' <=> TimerLives
    BY <1>3, <1>4, Names DEF TimerLives, Never
  <2>2. CASE nextListConfigState = "UPDATE_CONFIG"
    <3>1. configPending /\ configChangeTime = AdminStart /\ timestamps[LIST_CONFIG] = configChangeTime
      BY <1>1, <1>3, <2>2 DEF ConfigInv
    <3>2. configChangeTime \in Nat /\ configChangeTime >= 1 /\ timestamps'[LIST_CONFIG] = configChangeTime - 1
      BY <1>4, <1>5, <3>1, Names DEF Never
    <3>3. configChangeTime' = configChangeTime - 1 /\ AdminStart' = configChangeTime'
      BY <1>2, <1>5, <3>1, <3>2 DEF Earlier, Never
    <3>4. nextListConfigState' = "UPDATE_CONFIG" /\ configPending'
      BY <1>2, <2>2, <3>1
    <3>5. ~In(LIST_CONFIG)'
      BY <1>3, Names
    <3>6. configChangeTime' >= 0 /\ timestamps'[LIST_CONFIG] = configChangeTime'
      BY <3>2, <3>3
    <3>. QED
      BY <3>3, <3>4, <3>5, <3>6 DEF ConfigInv
  <2>3. CASE nextListConfigState # "UPDATE_CONFIG"
    <3>1. nextListConfigState = "CONFIG_IDLE"
      BY <1>1, <1>9, <2>3 DEF SenderTypeOK, TypeOK
    <3>2. timestamps'[LIST_CONFIG] = Never /\ ~(configPending /\ TimerLives)
      BY <1>1, <1>4, <1>9, <3>1, Names DEF ConfigInv
    <3>. QED
      BY <1>2, <1>3, <2>1, <3>1, <3>2, Names DEF ConfigInv
  <2>. QED
    BY <2>2, <2>3
<1>18. TimerInv'
  <2>1. TimerLives' <=> TimerLives
    BY <1>3, <1>4, Names DEF TimerLives, Never
  <2>2. CASE nextCycleTimerState = "CYCLE_IDLE"
    BY <1>1, <1>2, <1>3, <2>1, <2>2, Names DEF TimerInv
  <2>3. CASE nextCycleTimerState = "SET_CYCLE_START_TIME"
    <3>1. /\ timestamps[CYCLE_TIMER] = 1 /\ age + timestamps[CYCLE_TIMER] = 1
          /\ cycleTimerState = "START_CYCLE" /\ TimerLives
      BY <1>1, <1>3, <1>4, <1>9, <2>3, Names DEF TimerInv, TimerLives, FirstSet
    <3>2. age = 0 /\ age' = 1 /\ timestamps'[CYCLE_TIMER] = 0
      BY <1>4, <1>6, <1>10, <3>1, Names DEF Never
    <3>3. TimerLives'
      BY <2>1, <3>1
    <3>4. ~In(CYCLE_TIMER)'
      BY <1>3, Names
    <3>5. nextCycleTimerState' = "SET_CYCLE_START_TIME" /\ cycleTimerState' = "START_CYCLE"
      BY <1>2, <2>3, <3>1
    <3>6. age' + timestamps'[CYCLE_TIMER] = 1
      BY <3>2
    <3>. QED
      BY <3>2, <3>3, <3>4, <3>5, <3>6 DEF TimerInv
  <2>4. CASE nextCycleTimerState = "START_CYCLE"
    <3>1. TimerLives /\ cycleTimerState = "SET_CYCLE_START_TIME"
      BY <1>1, <2>4 DEF TimerInv
    <3>2. /\ timestamps[CYCLE_TIMER] = cycleStartTime /\ cycleStartTime \in Nat /\ cycleStartTime >= 1
          /\ timestamps'[CYCLE_TIMER] = cycleStartTime - 1
      BY <1>1, <1>3, <1>4, <2>4, <3>1, Names DEF TimerInv, TimerLives
    <3>3. cycleStartTime' = cycleStartTime - 1
      BY <1>2, <3>2 DEF Earlier, Never
    <3>4. \/ age = Never
          \/ age + cycleStartTime <= operSchedule.cycleTime
          \/ /\ configPending
             /\ age + cycleStartTime <= operSchedule.cycleTime + operSchedule.cycleTimeExtension + 1
      BY <1>1, <1>3, <2>4, <3>2 DEF TimerInv
    <3>5. \/ age' = Never
          \/ age' + cycleStartTime' <= operSchedule'.cycleTime
          \/ /\ configPending'
             /\ age' + cycleStartTime' <= operSchedule'.cycleTime + operSchedule'.cycleTimeExtension + 1
      <4>1. CASE age = Never
        BY <1>6, <4>1
      <4>2. CASE age # Never
        <5>1. age \in Nat /\ age' = age + 1 /\ age' + cycleStartTime' = age + cycleStartTime
          BY <1>6, <1>10, <3>2, <3>3, <4>2
        <5>. QED
          BY <1>2, <1>5, <3>4, <4>2, <5>1
      <4>. QED
        BY <4>1, <4>2
    <3>. QED
      BY <1>2, <1>3, <2>1, <2>4, <3>1, <3>2, <3>3, <3>5, Names DEF TimerInv
  <2>. QED
    BY <1>8, <2>2, <2>3, <2>4
<1>19. RestartInv'
  BY <1>1, <1>2, <1>3, <1>4, <1>5, <1>6, <1>7, <1>8, <1>9, <1>10, Names, DueIs, InQueue
    DEF RestartInv, FirstSet, OperStart, Never, Effect, KeptBut
<1>20. OrderInv'
  BY <1>1, <1>2, <1>3, <1>4, <1>5, <1>6, <1>7, <1>8, <1>9, <1>10, Names, DueIs
    DEF OrderInv, Never, Effect, KeptBut
<1>21. ListInv'
  <2>1. ~In(LIST_EXECUTE) /\ ~In(LIST_EXECUTE)'
    BY <1>3, Names
  <2>2. /\ nextListExecuteState \in {"INIT", "END_OF_CYCLE"} => timestamps'[LIST_EXECUTE] = Never
        /\ nextListExecuteState = "EXECUTE_CYCLE" =>
             timestamps'[LIST_EXECUTE] # Never /\ listExecuteState = "DELAY"
    BY <1>1, <1>4, <2>1, Names DEF ListInv, Never
  <2>3. listExecuteState # "NEW_CYCLE" /\ nextListExecuteState # "UNDEFINED"
    BY <1>1, <2>1 DEF ListInv
  <2>4. UNCHANGED <<nextListExecuteState, listExecuteState>> /\ (age = Never <=> age' = Never)
    BY <1>2, <1>6
  <2>. QED
    BY <1>1, <1>9, <2>1, <2>2, <2>3, <2>4 DEF ListInv
<1>22. SendInv'
  BY <1>1, <1>2, <1>3, <1>4, <1>5, <1>6, <1>7, <1>8, <1>9, <1>10, Names
    DEF SendInv, Effect, KeptBut
<1>23. PlaceInv'
  <2>1. ~Restarting
    BY <1>3, <1>4, <1>9, Names DEF Restarting
  <2>2. \A x : x # TICK => (In(x)' <=> In(x))
    BY <1>3
  <2>3. age # Never => age \in Nat /\ age' = age + 1
    BY <1>6, <1>10
  <2>4. PICK l, n : l = operSchedule.controlList /\ n = listPointer
    OBVIOUS
  <2>5. l \in Seq(Entry)
    BY <1>5, <2>4 DEF Schedule, Entry
  <2>6. age # Never /\ Executed(n, l) => Executed(n, l)'
    <3>1. SUFFICES ASSUME age # Never, Executed(n, l) PROVE Executed(n, l)'
      OBVIOUS
    <3>2. n \in 1 .. Len(l) /\ n - 1 \in 0 .. Len(l)
      BY <2>5, <3>1 DEF Executed
    <3>3. EndOf(l)[n - 1] \in Nat
      BY <2>5, <3>2, EndsAreSums
    <3>4. EndOf(l)[n - 1] <= age'
      BY <2>3, <3>1, <3>3 DEF Executed
    <3>5. SentOrSending(n, l)'
      BY <1>2, <2>2, <3>1, Names DEF Executed, SentOrSending, SentFirst
    <3>. QED
      BY <1>2, <3>1, <3>4, <3>5 DEF Executed
  <2>7. age # Never /\ nextListExecuteState = "EXECUTE_CYCLE" =>
          age' + timestamps'[LIST_EXECUTE] = age + timestamps[LIST_EXECUTE]
    BY <1>1, <1>3, <1>4, <2>3, Names DEF ListInv, Never
  <2>8. age' # Never => age # Never
    BY <1>6
  <2>9. age # Never =>
          /\ nextListExecuteState = "EXECUTE_CYCLE" =>
               /\ Executed(n, l)' /\ n < Len(l)
               /\ age' + timestamps'[LIST_EXECUTE] = EndOf(l)[n]
          /\ nextListExecuteState = "END_OF_CYCLE" => l = <<>> \/ (n = Len(l) /\ Executed(n, l)')
    BY <1>1, <1>3, <2>1, <2>4, <2>6, <2>7 DEF PlaceInv
  <2>10. operSchedule'.controlList = l /\ listPointer' = n /\ nextListExecuteState' = nextListExecuteState
    BY <1>2, <1>5, <2>4
  <2>. QED
    BY <1>3, <1>9, <2>8, <2>9, <2>10, Names DEF PlaceInv, Executed, SentOrSending, SentFirst
<1>. QED
  BY <1>1, <1>2, <1>11, <1>12, <1>13, <1>14, <1>15, <1>16, <1>17, <1>18, <1>19, <1>20, <1>21,
     <1>22, <1>23 DEF SenderInv, DisabledInv

\* Time passes, while the manager is disabled.
LEMMA ElapseOffStep ==
  ASSUME SenderInv, Elapse,
         ManagerStep, ~enabled
  PROVE  SenderInv'
<1>. USE DEF In, Before, adminVars, cycleTimerVars, listExecuteVars, listConfigVars, clockVars
<1>1. /\ SenderTypeOK /\ ~failed /\ Counted(adminSchedule) /\ Counted(operSchedule)
      /\ QueueInv /\ DisabledInv /\ OperatingInv /\ UpdateInv
  BY DEF SenderInv
<1>2. /\ queue = <<>> /\ ~enabled
      /\ timestamps' = [m \in Machines |-> Earlier(timestamps[m])]
      /\ queue' = ClockCalled(queue, timestamps')
      /\ adminSchedule' = Shifted(adminSchedule) /\ operSchedule' = Shifted(operSchedule)
      /\ cycleStartTime' = Earlier(cycleStartTime)
      /\ configChangeTime' = Earlier(configChangeTime)
      /\ age' = IF age \in 0 .. MaxAge - 1 THEN age + 1 ELSE age
      /\ UNCHANGED <<enabled, adminState, configChange, cycleTimerState, nextCycleTimerState,
                     listExecuteState, nextListExecuteState, listPointer, operState, exitTimer,
                     listConfigState, nextListConfigState, configPending, subscribed, failed, operating>>
      /\ sent' \in Seq(States)
  BY <1>1 DEF Elapse, ManagerStep, SenderTypeOK
<1>3. /\ QueueOK(queue') /\ QueueOK(queue)
      /\ \A x : x \notin Range(queue) /\ (x # TICK => x \notin Range(queue'))
      /\ In(TICK)' <=> Due(timestamps')
      /\ ~Due(timestamps)
  <2>1. QueueOK(queue) /\ Range(queue) = {} /\ ~Due(timestamps)
    BY <1>2, InvIs, SeqFacts DEF QueueOK
  <2>2. /\ Effect(queue, queue', {}, {}) /\ (In(TICK)' <=> Due(timestamps'))
    BY <1>2, <2>1, ClockCalledIs
  <2>. QED
    BY <2>1, <2>2 DEF Effect
<1>4. /\ timestamps' \in [Machines -> Nat \cup {Never}]
      /\ \A m \in Machines :
           /\ timestamps[m] \in Nat \cup {Never} /\ timestamps[m] # 0
           /\ timestamps[m] = Never => timestamps'[m] = Never
           /\ timestamps[m] # Never => timestamps'[m] = timestamps[m] - 1 /\ timestamps'[m] \in Nat
  <2>1. timestamps \in [Machines -> Nat \cup {Never}] /\ \A m \in Machines : timestamps[m] # 0
    BY <1>3, InvIs DEF Due
  <2>2. \A m \in Machines : timestamps[m] \in Nat \cup {Never} /\ timestamps'[m] = Earlier(timestamps[m])
    BY <1>2, <2>1
  <2>3. \A t \in Nat \cup {Never} : t # 0 =>
          /\ Earlier(t) \in Nat \cup {Never}
          /\ t = Never => Earlier(t) = Never
          /\ t # Never => Earlier(t) = t - 1 /\ Earlier(t) \in Nat
    BY DEF Earlier, Never
  <2>. QED
    BY <1>2, <2>1, <2>2, <2>3
<1>5. /\ {adminSchedule, operSchedule} \subseteq Schedule
      /\ {adminSchedule', operSchedule'} \subseteq Schedule
      /\ Counted(adminSchedule') /\ Counted(operSchedule')
      /\ operSchedule'.controlList = operSchedule.controlList
      /\ operSchedule'.cycleTime = operSchedule.cycleTime
      /\ operSchedule'.cycleTimeExtension = operSchedule.cycleTimeExtension
      /\ operSchedule.cycleTime \in Nat \ {0} /\ operSchedule.cycleTimeExtension \in Nat
      /\ operSchedule.cycleTime + operSchedule.cycleTimeExtension < MaxAge /\ MaxAge \in Nat
      /\ AdminStart \in Nat
      /\ AdminStart > 0 => AdminStart' = AdminStart - 1
  <2>1. adminSchedule \in Schedule /\ operSchedule \in Schedule
    BY <1>1 DEF SenderTypeOK, TypeOK
  <2>2. /\ operSchedule.cycleTime \in Nat \ {0} /\ operSchedule.cycleTimeExtension \in Nat
        /\ adminSchedule.baseTime \in Int /\ adminSchedule.cycleTime \in Nat \ {0}
    BY <2>1 DEF Schedule
  <2>. QED
    BY <1>1, <1>2, <2>1, <2>2, NextMultipleComes, NextMultipleIs, ManagerAssumption
       DEF Counted, AdminStart
<1>6. age \in Nat \cup {Never} /\ age' \in Nat \cup {Never} /\ (age = Never <=> age' = Never)
  BY <1>1, <1>2, <1>5 DEF SenderTypeOK, TypeOK, Never
<1>7. cycleStartTime \in Int /\ configChangeTime \in Int /\ cycleStartTime' \in Int /\ configChangeTime' \in Int
  BY <1>1, <1>2 DEF SenderTypeOK, TypeOK, Earlier, Never

<1>8. SenderTypeOK' /\ ~failed' /\ Counted(adminSchedule)' /\ Counted(operSchedule)'
  <2>1. /\ queue' \in Seq(Machines \cup {TICK, START, STOP, SEND})
        /\ {adminSchedule', operSchedule'} \subseteq Schedule
        /\ {cycleStartTime', configChangeTime'} \subseteq Int
    BY <1>3, <1>5, <1>7 DEF QueueOK, Messages
  <2>2. Counted(adminSchedule)' /\ Counted(operSchedule)' /\ ~failed'
    BY <1>1, <1>2, <1>5 DEF Counted
  <2>. QED
    BY <1>1, <1>2, <1>4, <1>6, <2>1, <2>2 DEF SenderTypeOK, TypeOK
<1>9. QueueInv'
  BY <1>1, <1>2, <1>3, <1>4, <1>5, <1>6, <1>7, Names
    DEF QueueInv, Effect, QueueOK, KeptBut, Due, Never
<1>10. DisabledInv'
  BY <1>1, <1>2, <1>3, <1>4, <1>5, <1>6, <1>7, Names DEF DisabledInv, Effect, KeptBut, Never
<1>11. OperatingInv'
  BY <1>1, <1>2, <1>3, <1>4, <1>5, <1>6, <1>7, Names DEF OperatingInv, Effect, KeptBut
<1>12. UpdateInv'
  BY <1>1, <1>2, <1>3, <1>4, <1>5, <1>6, <1>7, Names
    DEF UpdateInv, FirstSet, Effect, KeptBut, DisabledInv
<1>. QED
  BY <1>1, <1>2, <1>8, <1>9, <1>10, <1>11, <1>12 DEF SenderInv

-----------------------------------------------------------------------------
\* The invariant holds

\* Every schedule and its extension end before the age of a cycle stops counting.
AgesAreCounted ==
  Counted(InitialAdminSchedule) /\ \A s \in AdminSchedules : Counted(s)

LEMMA StartHolds ==
  ASSUME SInit, AgesAreCounted
  PROVE  SenderInv
<1>1. /\ queue \in {<<CYCLE_TIMER, LIST_EXECUTE, LIST_CONFIG, START>>,
                    <<START, CYCLE_TIMER, LIST_EXECUTE, LIST_CONFIG>>}
      /\ enabled = TRUE /\ operating = TRUE /\ sent = <<>> /\ failed = FALSE /\ age = Never
      /\ timestamps = [m \in Machines |-> Never] /\ subscribed = {}
      /\ adminState = InitialAdminState /\ operState = InitialAdminState
      /\ adminSchedule = InitialAdminSchedule /\ operSchedule = InitialAdminSchedule
      /\ cycleTimerState = "UNDEFINED" /\ nextCycleTimerState = "CYCLE_IDLE" /\ cycleStartTime = 0
      /\ listExecuteState = "UNDEFINED" /\ nextListExecuteState = "INIT"
      /\ listPointer = 0 /\ exitTimer = 0
      /\ listConfigState = "UNDEFINED" /\ nextListConfigState = "CONFIG_IDLE"
      /\ configChange = FALSE /\ configPending = FALSE /\ configChangeTime = 0
  BY DEF SInit, Init
<1>2. /\ QueueOK(queue) /\ Range(queue) = {CYCLE_TIMER, LIST_EXECUTE, LIST_CONFIG, START}
      /\ Before(CYCLE_TIMER, LIST_CONFIG)
  <2>1. queue \in Seq(Messages) /\ DOMAIN queue = 1 .. 4
    <3>1. /\ CYCLE_TIMER \in Messages /\ LIST_EXECUTE \in Messages /\ LIST_CONFIG \in Messages
          /\ START \in Messages
      BY Names
    <3>2. CASE queue = <<CYCLE_TIMER, LIST_EXECUTE, LIST_CONFIG, START>>
      BY <3>1, <3>2
    <3>3. CASE queue = <<START, CYCLE_TIMER, LIST_EXECUTE, LIST_CONFIG>>
      BY <3>1, <3>3
    <3>. QED
      BY <1>1, <3>2, <3>3
  <2>2. CASE queue = <<CYCLE_TIMER, LIST_EXECUTE, LIST_CONFIG, START>>
    <3>1. /\ queue[1] = CYCLE_TIMER /\ queue[2] = LIST_EXECUTE /\ queue[3] = LIST_CONFIG
          /\ queue[4] = START
      BY <2>2
    <3>2. \A i \in DOMAIN queue : i = 1 \/ i = 2 \/ i = 3 \/ i = 4
      BY <2>1
    <3>3. 1 \in DOMAIN queue /\ 2 \in DOMAIN queue /\ 3 \in DOMAIN queue /\ 4 \in DOMAIN queue /\ 1 < 3
      BY <2>1
    <3>4. IsInjective(queue)
      BY <3>1, <3>2, Names DEF IsInjective
    <3>5. Range(queue) = {CYCLE_TIMER, LIST_EXECUTE, LIST_CONFIG, START}
      BY <3>1, <3>2, <3>3 DEF Range
    <3>. QED
      BY <2>1, <3>1, <3>3, <3>4, <3>5 DEF QueueOK, Before, Precedes
  <2>3. CASE queue = <<START, CYCLE_TIMER, LIST_EXECUTE, LIST_CONFIG>>
    <3>1. /\ queue[1] = START /\ queue[2] = CYCLE_TIMER /\ queue[3] = LIST_EXECUTE
          /\ queue[4] = LIST_CONFIG
      BY <2>3
    <3>2. \A i \in DOMAIN queue : i = 1 \/ i = 2 \/ i = 3 \/ i = 4
      BY <2>1
    <3>3. 1 \in DOMAIN queue /\ 2 \in DOMAIN queue /\ 3 \in DOMAIN queue /\ 4 \in DOMAIN queue /\ 2 < 4
      BY <2>1
    <3>4. IsInjective(queue)
      BY <3>1, <3>2, Names DEF IsInjective
    <3>5. Range(queue) = {CYCLE_TIMER, LIST_EXECUTE, LIST_CONFIG, START}
      BY <3>1, <3>2, <3>3 DEF Range
    <3>. QED
      BY <2>1, <3>1, <3>3, <3>4, <3>5 DEF QueueOK, Before, Precedes
  <2>. QED
    BY <1>1, <2>2, <2>3
<1>3. \A m \in Machines : timestamps[m] = Never /\ Never # 0
  BY <1>1 DEF Never
<1>4. SenderTypeOK
  <2>1. queue \in Seq(Machines \cup {TICK, START, STOP, SEND})
    BY <1>2 DEF QueueOK, Messages
  <2>2. timestamps \in [Machines -> Nat \cup {Never}] /\ subscribed \subseteq Machines
    BY <1>1
  <2>3. {enabled, operating, configChange, configPending, failed} \subseteq BOOLEAN
    BY <1>1
  <2>4. /\ {adminState, operState} \subseteq States
        /\ {adminSchedule, operSchedule} \subseteq Schedule
        /\ sent \in Seq(States) /\ age \in Nat \cup {Never}
        /\ {cycleStartTime, configChangeTime} \subseteq Int
        /\ listPointer \in Nat /\ exitTimer \in Nat
    BY <1>1, ManagerAssumption
  <2>. QED
    BY <1>1, <2>1, <2>2, <2>3, <2>4 DEF SenderTypeOK, TypeOK
<1>5. QueueInv
  BY <1>1, <1>2, <1>3, Names DEF QueueInv, QueueOK, In
<1>6. DisabledInv /\ OperatingInv /\ UpdateInv
  BY <1>1, <1>2, Names DEF DisabledInv, OperatingInv, UpdateInv, In
<1>7. StartInv /\ ConfigInv
  BY <1>1, <1>2, <1>3, Names DEF StartInv, ConfigInv, In
<1>8. TimerInv
  BY <1>1, <1>2, <1>3, Names DEF TimerInv, TimerLives, In
<1>9. RestartInv /\ OrderInv
  BY <1>1, <1>2, <1>3, Names DEF RestartInv, OrderInv, FirstSet, In
<1>10. ListInv /\ SendInv /\ PlaceInv
  BY <1>1, <1>2, <1>3, Names DEF ListInv, SendInv, PlaceInv, In
<1>11. Counted(adminSchedule) /\ Counted(operSchedule) /\ ~failed
  BY <1>1 DEF AgesAreCounted
<1>. QED
  BY <1>4, <1>5, <1>6, <1>7, <1>8, <1>9, <1>10, <1>11 DEF SenderInv

LEMMA NextHolds ==
  ASSUME SenderInv, AgesAreCounted, [Kernel \/ Operation \/ Call]_senderVars
  PROVE  SenderInv'
<1>1. CASE ManagerStep
  <2>1. ManagerNext
    BY <1>1 DEF ManagerStep
  <2>2. CASE CycleTimerDisabled
    BY <1>1, <2>2, CycleTimerDisabledStep
  <2>3. CASE CycleIdle
    BY <1>1, <2>3, CycleIdleStep
  <2>4. CASE SetCycleStartTime
    BY <1>1, <2>4, SetCycleStartTimeStep
  <2>5. CASE StartCycle
    BY <1>1, <2>5, StartCycleStep
  <2>6. CASE ListExecuteDisabled
    BY <1>1, <2>6, ListExecuteDisabledStep
  <2>7. CASE ListInit
    BY <1>1, <2>7, ListInitStep
  <2>8. CASE NewCycle
    BY <1>1, <2>8, NewCycleStep
  <2>9. CASE ExecuteCycle
    BY <1>1, <2>9, ExecuteCycleStep
  <2>10. CASE Delay
    BY <1>1, <2>10, DelayStep
  <2>11. CASE EndOfCycle
    BY <1>1, <2>11, EndOfCycleStep
  <2>12. CASE ListConfigDisabled
    BY <1>1, <2>12, ListConfigDisabledStep
  <2>13. CASE ConfigPending
    BY <1>1, <2>13, ConfigPendingStep
  <2>14. CASE UpdateConfig
    BY <1>1, <2>14, UpdateConfigStep
  <2>15. CASE ConfigIdle
    BY <1>1, <2>15, ConfigIdleStep
  <2>16. CASE OnTimestamp
    BY <1>1, <2>16, OnTimestampStep, OnTimestampOffStep
  <2>17. CASE Elapse
    BY <1>1, <2>17, ElapseStep, ElapseOffStep
  <2>. QED
    BY <2>1, <2>2, <2>3, <2>4, <2>5, <2>6, <2>7, <2>8, <2>9, <2>10, <2>11, <2>12, <2>13,
       <2>14, <2>15, <2>16, <2>17 DEF ManagerNext
<1>2. CASE ProcessStart
  BY <1>2, ProcessStartStep, ProcessStartOffStep
<1>3. CASE ProcessSend
  BY <1>3, ProcessSendStep
<1>4. CASE HandleCrashOperation
  BY <1>4, HandleCrashOperationStep
<1>5. CASE CarefulStart
  BY <1>5, CarefulStartStep
<1>6. CASE Call
  <2>1. UNCHANGED <<operating, sent>>
    BY <1>6 DEF Call
  <2>2. ASSUME NEW s \in AdminSchedules, listConfigState # "UPDATE_CONFIG", Reconfigure(s)
        PROVE  SenderInv'
    <3>1. Counted(s)
      BY DEF AgesAreCounted
    <3>. QED
      BY <2>1, <2>2, <3>1, ReconfigureStep, ReconfigureOffStep
  <2>3. ASSUME NEW state \in States, SetAdminState(state)
        PROVE  SenderInv'
    <3>1. /\ adminState' \in States
          /\ UNCHANGED <<enabled, adminSchedule, configChange, cycleTimerVars, listExecuteVars,
                         listConfigVars, clockVars, queue, failed, operating, sent>>
      BY <2>1, <2>3 DEF SetAdminState
    <3>. QED
      BY <3>1, SetAdminStateStep
  <2>. QED
    BY <1>6, <2>2, <2>3 DEF Call, CarefulCall
<1>7. CASE UNCHANGED senderVars
  <2>1. /\ adminState' \in States
        /\ UNCHANGED <<enabled, adminSchedule, configChange, cycleTimerVars, listExecuteVars,
                       listConfigVars, clockVars, queue, failed, operating, sent>>
    BY <1>7 DEF senderVars, vars, adminVars, SenderInv, SenderTypeOK, TypeOK
  <2>. QED
    BY <2>1, SetAdminStateStep
<1>. QED
  BY <1>1, <1>2, <1>3, <1>4, <1>5, <1>6, <1>7 DEF Kernel, Operation

-----------------------------------------------------------------------------
\* What follows from it

\* Between the instants of a running cycle the list machine waits or is done, and
\* the timer waits.
LEMMA RunningIs ==
  ASSUME SenderInv, Running
  PROVE  /\ \A x : ~In(x)
         /\ ~Restarting /\ age \in Nat
         /\ \A m \in Machines : timestamps[m] \in Nat \cup {Never} /\ timestamps[m] # 0
         /\ \/ nextListExecuteState = "EXECUTE_CYCLE" /\ timestamps[LIST_EXECUTE] >= 1
            \/ nextListExecuteState = "END_OF_CYCLE"
         /\ nextCycleTimerState \in {"SET_CYCLE_START_TIME", "START_CYCLE"}
         /\ TimerLives
<1>1. /\ SenderTypeOK /\ TimerInv /\ ListInv /\ OrderInv /\ queue = <<>> /\ age # Never
  BY DEF SenderInv, Running, Settled
<1>2. \A x : ~In(x)
  BY <1>1, InvIs, SeqFacts DEF QueueOK, In
<1>3. \A m \in Machines : timestamps[m] \in Nat \cup {Never} /\ timestamps[m] # 0
  BY <1>2, InvIs DEF Due
<1>4. nextListExecuteState \in {"EXECUTE_CYCLE", "END_OF_CYCLE"}
  BY <1>1, <1>2 DEF SenderTypeOK, TypeOK, ListInv, OrderInv
<1>5. nextListExecuteState = "EXECUTE_CYCLE" => timestamps[LIST_EXECUTE] >= 1
  <2>1. nextListExecuteState = "EXECUTE_CYCLE" => timestamps[LIST_EXECUTE] # Never
    BY <1>1, <1>2 DEF ListInv
  <2>. QED
    BY <1>3, <2>1, Names
<1>6. TimerLives
  BY <1>1, <1>4 DEF TimerInv
<1>7. nextCycleTimerState \in {"SET_CYCLE_START_TIME", "START_CYCLE"}
  BY <1>1, <1>2, <1>6 DEF TimerInv, SenderTypeOK, TypeOK
<1>8. ~Restarting
  BY <1>2, <1>3, <1>4, Names DEF Restarting
<1>9. age \in Nat
  BY <1>1 DEF SenderTypeOK, TypeOK
<1>. QED
  BY <1>2, <1>3, <1>4, <1>5, <1>6, <1>7, <1>8, <1>9

\* The entry executed last is the one at the pointer.
LEMMA PlaceIs ==
  ASSUME SenderInv, Running, ListLength > 0
  PROVE  LET l == operSchedule.controlList
         IN  /\ Executed(listPointer, l) /\ SentFirst(listPointer, l)
             /\ age < EndOf(l)[listPointer] \/ listPointer = Len(l)
<1>. DEFINE l == operSchedule.controlList
<1>1. PlaceInv /\ SenderTypeOK /\ age # Never
  BY DEF SenderInv, Running, Settled
<1>2. l \in Seq(Entry) /\ l # <<>>
  BY <1>1 DEF SenderTypeOK, TypeOK, Schedule, Entry, ListLength
<1>3. \/ /\ Executed(listPointer, l)
         /\ age + timestamps[LIST_EXECUTE] = EndOf(l)[listPointer] /\ timestamps[LIST_EXECUTE] >= 1
      \/ Executed(listPointer, l) /\ listPointer = Len(l)
  BY <1>1, <1>2, RunningIs DEF PlaceInv
<1>4. SentFirst(listPointer, l)
  BY <1>3, RunningIs DEF Executed, SentOrSending
<1>5. age \in Nat /\ timestamps[LIST_EXECUTE] \in Nat \cup {-1}
  BY RunningIs, Names DEF Never
<1>. QED
  BY <1>3, <1>4, <1>5

LEMMA GateMayAskHolds ==
  ASSUME SenderInv
  PROVE  GateMayAsk
<1>. SUFFICES ASSUME Settled, enabled, cycleTimerState # "CYCLE_IDLE"
              PROVE  CASE listExecuteState \in {"INIT", "END_OF_CYCLE"} -> cycleStartTime >= 0
                       [] listExecuteState = "EXECUTE_CYCLE" -> listPointer < ListLength
                       [] listExecuteState = "DELAY" ->
                            ListLength > 0 /\ timestamps["listExecute"] # Never
                       [] OTHER -> listExecuteState = "NEW_CYCLE"
  BY DEF GateMayAsk
<1>1. /\ SenderTypeOK /\ TimerInv /\ ListInv /\ OrderInv /\ PlaceInv /\ queue = <<>>
  BY DEF SenderInv, Settled
<1>2. \A x : ~In(x)
  BY <1>1, InvIs, SeqFacts DEF QueueOK, In
<1>3. \A m \in Machines : timestamps[m] \in Nat \cup {Never} /\ timestamps[m] # 0
  BY <1>2, InvIs DEF Due
<1>4. listExecuteState \in {"INIT", "DELAY", "END_OF_CYCLE"}
  BY <1>1, <1>2 DEF SenderTypeOK, TypeOK, ListInv, OrderInv
<1>5. cycleStartTime >= 0
  <2>1. timestamps[CYCLE_TIMER] # Never
    BY <1>1, <1>2 DEF TimerInv, TimerLives
  <2>2. nextCycleTimerState \in {"SET_CYCLE_START_TIME", "START_CYCLE"}
    BY <1>1, <1>2, <2>1 DEF TimerInv, TimerLives, SenderTypeOK, TypeOK
  <2>3. timestamps[CYCLE_TIMER] \in Nat /\ timestamps[CYCLE_TIMER] # 0
    BY <1>3, <2>1, Names
  <2>4. timestamps[CYCLE_TIMER] = cycleStartTime \/ cycleStartTime = 0
    BY <1>1, <1>2, <2>2, <2>3 DEF TimerInv
  <2>. QED
    BY <2>3, <2>4
<1>6. CASE listExecuteState = "DELAY"
  <2>1. nextListExecuteState = "EXECUTE_CYCLE"
    BY <1>1, <1>2, <1>6 DEF SenderTypeOK, TypeOK, ListInv, OrderInv
  <2>2. age # Never /\ timestamps[LIST_EXECUTE] # Never
    BY <1>1, <1>2, <2>1 DEF ListInv
  <2>3. ~Restarting
    BY <1>2, <1>3, <2>1, Names DEF Restarting
  <2>4. listPointer \in 1 .. ListLength
    BY <1>1, <1>2, <2>1, <2>2, <2>3 DEF PlaceInv, Executed, ListLength
  <2>. QED
    BY <1>1, <1>6, <2>2, <2>4 DEF LIST_EXECUTE, SenderTypeOK, TypeOK, Schedule, ListLength
<1>. QED
  BY <1>4, <1>5, <1>6

\* Every variable keeps its type, and no assertion of setCycleStartTime,
\* executeOperation or nextGateCloseEvent fails, no message is scheduled twice, and
\* none reaches a generator that is down, however updates, timestamps, calls of careful
\* clients, crashes and starts follow each other.
THEOREM SenderAssertionsHold ==
  ASSUME AgesAreCounted
  PROVE  CarefulSpec => []AssertionsHold
<1>1. SInit => SenderInv
  BY StartHolds
<1>2. SenderInv /\ [Kernel \/ Operation \/ Call]_senderVars => SenderInv'
  BY NextHolds
<1>3. SenderInv => AssertionsHold
  BY GateMayAskHolds DEF SenderInv, SenderTypeOK, AssertionsHold
<1>. QED
  BY <1>1, <1>2, <1>3, PTL DEF CarefulSpec

\* Between the instants operState is that of the entry that covers the elapsed time.
THEOREM OperStateIsTheEntrys ==
  ASSUME AgesAreCounted
  PROVE  CarefulSpec => []OperStateFollowsSchedule
<1>1. SInit => SenderInv
  BY StartHolds
<1>2. SenderInv /\ [Kernel \/ Operation \/ Call]_senderVars => SenderInv'
  BY NextHolds
<1>3. ASSUME SenderInv, Running, ListLength > 0
      PROVE  \E i \in 1 .. ListLength :
               /\ EndOfEntries(operSchedule)[i - 1] <= age
               /\ age < EndOfEntries(operSchedule)[i] \/ i = ListLength
               /\ operState = operSchedule.controlList[i].object
  <2>1. /\ listPointer \in 1 .. ListLength
        /\ EndOf(operSchedule.controlList)[listPointer - 1] <= age
        /\ operState = operSchedule.controlList[listPointer].object
        /\ age < EndOf(operSchedule.controlList)[listPointer] \/ listPointer = ListLength
    BY <1>3, PlaceIs DEF Executed, ListLength
  <2>2. EndOfEntries(operSchedule) = EndOf(operSchedule.controlList)
    BY EndsOfSchedule
  <2>. QED
    BY <2>1, <2>2
<1>4. SenderInv => OperStateFollowsSchedule
  BY <1>3 DEF OperStateFollowsSchedule
<1>. QED
  BY <1>1, <1>2, <1>4, PTL DEF CarefulSpec

\* A cycle lasts no longer than the cycle time, or the extension before a change.
THEOREM CyclesEndInTime ==
  ASSUME AgesAreCounted
  PROVE  CarefulSpec => []CycleEndsInTime
<1>1. SInit => SenderInv
  BY StartHolds
<1>2. SenderInv /\ [Kernel \/ Operation \/ Call]_senderVars => SenderInv'
  BY NextHolds
<1>3. ASSUME SenderInv, Running
      PROVE  \/ age < operSchedule.cycleTime
             \/ /\ configPending
                /\ age <= operSchedule.cycleTime + operSchedule.cycleTimeExtension
  <2>1. /\ SenderTypeOK /\ TimerInv /\ age # Never
    BY <1>3 DEF SenderInv, Running, Settled
  <2>2. operSchedule.cycleTime \in Nat \ {0} /\ operSchedule.cycleTimeExtension \in Nat
    BY <2>1 DEF SenderTypeOK, TypeOK, Schedule
  <2>3. /\ \A x : ~In(x)
        /\ age \in Nat /\ nextListExecuteState # "NEW_CYCLE"
        /\ timestamps[CYCLE_TIMER] \in Nat \cup {Never} /\ timestamps[CYCLE_TIMER] # 0
        /\ nextCycleTimerState \in {"SET_CYCLE_START_TIME", "START_CYCLE"}
        /\ timestamps[CYCLE_TIMER] # Never
    BY <1>3, RunningIs, Names DEF TimerLives
  <2>4. CASE nextCycleTimerState = "SET_CYCLE_START_TIME"
    <3>1. age + timestamps[CYCLE_TIMER] = 1 /\ timestamps[CYCLE_TIMER] = 1
      BY <2>1, <2>3, <2>4 DEF TimerInv
    <3>. QED
      BY <2>2, <2>3, <3>1
  <2>5. CASE nextCycleTimerState = "START_CYCLE"
    <3>1. /\ timestamps[CYCLE_TIMER] = cycleStartTime
          /\ \/ cycleStartTime = 0
             \/ age + cycleStartTime <= operSchedule.cycleTime
             \/ /\ configPending
                /\ age + cycleStartTime <= operSchedule.cycleTime + operSchedule.cycleTimeExtension + 1
      BY <2>1, <2>3, <2>5 DEF TimerInv
    <3>2. cycleStartTime \in Nat /\ cycleStartTime >= 1
      BY <2>3, <3>1
    <3>. QED
      BY <2>2, <2>3, <3>1, <3>2
  <2>. QED
    BY <2>3, <2>4, <2>5
<1>4. SenderInv => CycleEndsInTime
  BY <1>3 DEF CycleEndsInTime
<1>. QED
  BY <1>1, <1>2, <1>4, PTL DEF CarefulSpec

\* The datagrams of a cycle are those of the entries executed so far, in their order.
THEOREM DatagramsAreTheLists ==
  ASSUME AgesAreCounted
  PROVE  CarefulSpec => []DatagramsFollowList
<1>1. SInit => SenderInv
  BY StartHolds
<1>2. SenderInv /\ [Kernel \/ Operation \/ Call]_senderVars => SenderInv'
  BY NextHolds
<1>3. ASSUME SenderInv, Running, ListLength > 0
      PROVE  /\ Len(sent) = listPointer
             /\ \A i \in DOMAIN sent : sent[i] = operSchedule.controlList[i].object
  <2>1. SentFirst(listPointer, operSchedule.controlList)
    BY <1>3, PlaceIs
  <2>2. sent \in Seq(States)
    BY <1>3 DEF SenderInv, SenderTypeOK
  <2>. QED
    BY <2>1, <2>2 DEF SentFirst
<1>4. SenderInv => DatagramsFollowList
  BY <1>3 DEF DatagramsFollowList
<1>. QED
  BY <1>1, <1>2, <1>4, PTL DEF CarefulSpec

\* A schedule takes over at the start of one of its own cycles, when clients do not
\* set another one in the instant in which the change is carried out.
THEOREM SchedulesExchangedOnTime ==
  ASSUME AgesAreCounted
  PROVE  CarefulSpec => ExchangedOnTime
<1>1. SInit => SenderInv
  BY StartHolds
<1>2. SenderInv /\ [Kernel \/ Operation \/ Call]_senderVars => SenderInv'
  BY NextHolds
<1>. DEFINE OnTime == operSchedule.controlList # operSchedule'.controlList
                        => NextMultiple(operSchedule'.baseTime, operSchedule'.cycleTime) = 0
<1>3. ASSUME SenderInv, [Kernel \/ Operation \/ Call]_senderVars
      PROVE  [OnTime]_vars
  <2>1. CASE UpdateConfig
    <3>1. Handles(LIST_CONFIG) /\ enabled /\ nextListConfigState = "UPDATE_CONFIG" /\ operSchedule' = adminSchedule
      BY <2>1 DEF UpdateConfig
    <3>2. In(LIST_CONFIG)
      BY <1>3, <3>1, HandledIs, Names
    <3>3. AdminStart = 0
      BY <1>3, <3>1, <3>2 DEF SenderInv, ConfigInv
    <3>. QED
      BY <3>1, <3>3 DEF AdminStart
  <2>2. CASE Elapse
    <3>1. operSchedule' = Shifted(operSchedule) /\ operSchedule \in Schedule
      BY <1>3, <2>2 DEF Elapse, SenderInv, SenderTypeOK, TypeOK
    <3>. QED
      BY <3>1, NextMultipleComes
  <2>3. CASE operSchedule' = operSchedule
    BY <2>3
  <2>4. UpdateConfig \/ Elapse \/ operSchedule' = operSchedule
    <3>1. ManagerNext => UpdateConfig \/ Elapse \/ operSchedule' = operSchedule
      BY DEF ManagerNext, CycleTimerDisabled, CycleIdle, SetCycleStartTime, StartCycle,
             ListExecuteDisabled, ListInit, NewCycle, ExecuteCycle, Delay, EndOfCycle,
             ListExecuteGoesOn, ListConfigDisabled, ConfigPending, ConfigIdle, OnTimestamp,
             listConfigVars
    <3>2. ProcessStart \/ ProcessSend => operSchedule' = operSchedule
      BY DEF ProcessStart, ProcessSend, SetEnabled, FailsWhenDown, managerState, listConfigVars
    <3>3. Operation => operSchedule' = operSchedule
      BY DEF Operation, HandleCrashOperation, CarefulStart, HandleStartOperation, SetEnabled,
             managerState, listConfigVars
    <3>4. Call => operSchedule' = operSchedule
      BY DEF Call, CarefulCall, Reconfigure, RequestConfigChange, SetAdminState, listConfigVars
    <3>5. UNCHANGED senderVars => operSchedule' = operSchedule
      BY DEF senderVars, vars, listConfigVars
    <3>. QED
      BY <1>3, <3>1, <3>2, <3>3, <3>4, <3>5 DEF Kernel, ManagerStep
  <2>. QED
    BY <2>1, <2>2, <2>3, <2>4
<1>. QED
  BY <1>1, <1>2, <1>3, PTL DEF CarefulSpec, ExchangedOnTime
=============================================================================
