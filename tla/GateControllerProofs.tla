------------------------ MODULE GateControllerProofs ------------------------
(***************************************************************************)
(* What the sums over a control list are, for lists of every length, and   *)
(* where a lookahead of calculateMaxBit leaves the current schedule.       *)
(***************************************************************************)
EXTENDS GateController, WellFoundedInduction, TLAPS

\* A set of numbers has a least one.
LEMMA LeastNumber ==
  ASSUME NEW T, T \subseteq Nat, T # {}
  PROVE  \E n \in T : \A m \in T : n <= m
<1>. DEFINE R == OpToRel(<, Nat)
<1>1. IsWellFoundedOn(R, Nat)
  BY NatLessThanWellFounded
<1>2. PICK n \in T : \A m \in T : ~(<<m, n>> \in R)
  BY <1>1, WFMin
<1>3. \A m \in T : ~(m < n)
  BY <1>2 DEF OpToRel
<1>. QED
  BY <1>3

\* A set with 0 and with the successors of its numbers has all numbers.
LEMMA SetInduction ==
  ASSUME NEW T, 0 \in T, \A n \in Nat : n \in T => n + 1 \in T
  PROVE  Nat \subseteq T
<1>1. SUFFICES ASSUME Nat \ T # {} PROVE FALSE
  OBVIOUS
<1>2. PICK n \in Nat \ T : \A m \in Nat \ T : n <= m
  BY <1>1, LeastNumber
<1>3. n # 0 /\ n - 1 \in Nat
  OBVIOUS
<1>4. n - 1 \in T
  BY <1>2, <1>3
<1>. QED
  BY <1>3, <1>4

-----------------------------------------------------------------------------
\* The entries of a schedule have whole intervals.
LEMMA EntriesOfSchedule ==
  ASSUME NEW s \in Schedule
  PROVE  /\ s.controlList \in Seq(Entry) /\ Len(s.controlList) \in Nat /\ s.cycleTime \in Nat
         /\ \A n \in 1 .. Len(s.controlList) :
              s.controlList[n].timeInterval \in Int /\ s.controlList[n].gates \subseteq Gates
<1>1. s.controlList \in Seq(Entry) /\ s.cycleTime \in Nat
  BY DEF Schedule
<1>2. \A n \in 1 .. Len(s.controlList) : s.controlList[n] \in Entry
  BY <1>1
<1>. QED
  BY <1>1, <1>2 DEF Entry

\* There is a function that adds up the first entries of a list ...
LEMMA SumExists ==
  ASSUME NEW N \in Nat, NEW a, \A n \in 1 .. N : a[n].timeInterval \in Int
  PROVE  \E f \in [0 .. N -> Int] :
           f = [n \in 0 .. N |-> IF n = 0 THEN 0 ELSE f[n - 1] + a[n].timeInterval]
<1>. DEFINE Adds(f, m) == f[0] = 0 /\ \A k \in 1 .. m : f[k] = f[k - 1] + a[k].timeInterval
            T == {m \in Nat : m <= N => \E f \in [0 .. m -> Int] : Adds(f, m)}
<1>1. 0 \in T
  <2>1. [n \in 0 .. 0 |-> 0] \in [0 .. 0 -> Int] /\ Adds([n \in 0 .. 0 |-> 0], 0)
    OBVIOUS
  <2>. QED
    BY <2>1
<1>2. ASSUME NEW m \in Nat, m \in T PROVE m + 1 \in T
  <2>. SUFFICES ASSUME m + 1 <= N PROVE \E f \in [0 .. m + 1 -> Int] : Adds(f, m + 1)
    OBVIOUS
  <2>1. PICK f \in [0 .. m -> Int] : Adds(f, m)
    BY <1>2
  <2>. DEFINE g == [k \in 0 .. m + 1 |-> IF k = m + 1 THEN f[m] + a[m + 1].timeInterval ELSE f[k]]
  <2>2. m + 1 \in 1 .. N
    OBVIOUS
  <2>3. g \in [0 .. m + 1 -> Int]
    BY <2>2
  <2>4. g[0] = 0
    BY <2>1
  <2>5. \A k \in 1 .. m : g[k] = g[k - 1] + a[k].timeInterval
    BY <2>1
  <2>6. g[m + 1] = g[m] + a[m + 1].timeInterval
    OBVIOUS
  <2>. HIDE DEF g
  <2>7. (m + 1) - 1 = m /\ \A k \in 1 .. m + 1 : k \in 1 .. m \/ k = m + 1
    OBVIOUS
  <2>8. \A k \in 1 .. m + 1 : g[k] = g[k - 1] + a[k].timeInterval
    BY <2>5, <2>6, <2>7
  <2>9. Adds(g, m + 1)
    BY <2>4, <2>8
  <2>. HIDE DEF Adds
  <2>. QED
    BY <2>3, <2>9
<1>3. N \in T
  <2>. HIDE DEF T
  <2>. QED
    BY <1>1, <1>2, SetInduction
<1>4. PICK f \in [0 .. N -> Int] : Adds(f, N)
  BY <1>3
<1>5. f = [n \in 0 .. N |-> IF n = 0 THEN 0 ELSE f[n - 1] + a[n].timeInterval]
  BY <1>4
<1>. QED
  BY <1>5

\* ... and EndOfEntries is it.
LEMMA EndsAreSums ==
  ASSUME NEW s \in Schedule
  PROVE  /\ EndOfEntries(s)[0] = 0
         /\ \A n \in 0 .. Len(s.controlList) : EndOfEntries(s)[n] \in Int
         /\ \A n \in 1 .. Len(s.controlList) :
              EndOfEntries(s)[n] = EndOfEntries(s)[n - 1] + s.controlList[n].timeInterval
<1>. DEFINE l == s.controlList  N == Len(l)
            IsSum(f) == f = [n \in 0 .. N |-> IF n = 0 THEN 0 ELSE f[n - 1] + l[n].timeInterval]
<1>1. N \in Nat /\ \A n \in 1 .. N : l[n].timeInterval \in Int
  BY EntriesOfSchedule
<1>2. PICK g \in [0 .. N -> Int] : IsSum(g)
  <2>. HIDE DEF l, N
  <2>. QED
    BY <1>1, SumExists
<1>3. IsSum(EndOfEntries(s))
  BY <1>2, Zenon DEF EndOfEntries
<1>4. ASSUME NEW f, IsSum(f)
      PROVE  f[0] = 0 /\ \A n \in 1 .. N : f[n] = f[n - 1] + l[n].timeInterval
  <2>. DEFINE F(n) == IF n = 0 THEN 0 ELSE f[n - 1] + l[n].timeInterval
  <2>1. f = [n \in 0 .. N |-> F(n)]
    BY <1>4
  <2>. HIDE DEF F
  <2>2. \A n \in 0 .. N : f[n] = F(n)
    BY <2>1
  <2>3. 0 \in 0 .. N /\ \A n \in 1 .. N : n \in 0 .. N /\ n # 0
    BY <1>1
  <2>. QED
    BY <2>2, <2>3 DEF F
<1>. DEFINE e == EndOfEntries(s)
            T == {n \in Nat : n <= N => e[n] = g[n]}
<1>5. /\ e[0] = 0 /\ \A n \in 1 .. N : e[n] = e[n - 1] + l[n].timeInterval
      /\ g[0] = 0 /\ \A n \in 1 .. N : g[n] = g[n - 1] + l[n].timeInterval
  <2>. HIDE DEF IsSum, e
  <2>. QED
    BY <1>2, <1>3, <1>4 DEF e
<1>. HIDE DEF e, l, N
<1>6. Nat \subseteq T
  <2>1. 0 \in T
    BY <1>5
  <2>2. ASSUME NEW n \in Nat, n \in T PROVE n + 1 \in T
    <3>1. n + 1 <= N => n + 1 \in 1 .. N /\ (n + 1) - 1 = n
      BY <1>1
    <3>. QED
      BY <1>1, <1>5, <2>2, <3>1
  <2>. HIDE DEF T
  <2>. QED
    BY <2>1, <2>2, SetInduction
<1>7. \A n \in 0 .. N : e[n] = g[n]
  BY <1>1, <1>6
<1>8. \A n \in 0 .. N : e[n] \in Int
  BY <1>2, <1>7
<1>. QED
  BY <1>5, <1>8 DEF e, l, N

\* Without negative intervals the entries end one after the other.
LEMMA EndsAreOrdered ==
  ASSUME NEW s \in Schedule, ~CopyThrows(s),
         NEW m \in 0 .. Len(s.controlList), NEW n \in m .. Len(s.controlList)
  PROVE  EndOfEntries(s)[m] <= EndOfEntries(s)[n] /\ 0 <= EndOfEntries(s)[m]
<1>. DEFINE e == EndOfEntries(s)  N == Len(s.controlList)
            T == {k \in Nat : k <= N => \A j \in 0 .. k : e[j] <= e[k]}
<1>1. /\ e[0] = 0 /\ \A k \in 0 .. N : e[k] \in Int
      /\ \A k \in 1 .. N : e[k] = e[k - 1] + s.controlList[k].timeInterval
  BY EndsAreSums
<1>2. N \in Nat /\ \A k \in 1 .. N : s.controlList[k].timeInterval \in Nat
  BY EntriesOfSchedule DEF CopyThrows
<1>. HIDE DEF e, N
<1>3. ASSUME NEW k \in 1 .. N
      PROVE  e[k - 1] <= e[k]
  <2>1. k \in 0 .. N /\ k - 1 \in 0 .. N
    BY <1>2
  <2>2. e[k] \in Int /\ e[k - 1] \in Int
    BY <1>1, <2>1
  <2>3. e[k] = e[k - 1] + s.controlList[k].timeInterval /\ s.controlList[k].timeInterval \in Nat
    BY <1>1, <1>2
  <2>. QED
    BY <2>2, <2>3
<1>4. Nat \subseteq T
  <2>1. 0 \in T
    BY <1>1
  <2>2. ASSUME NEW k \in Nat, k \in T PROVE k + 1 \in T
    <3>. SUFFICES ASSUME k + 1 <= N, NEW j \in 0 .. k + 1 PROVE e[j] <= e[k + 1]
      OBVIOUS
    <3>1. e[k] <= e[k + 1] /\ e[k] \in Int /\ e[k + 1] \in Int /\ e[j] \in Int
      BY <1>1, <1>2, <1>3
    <3>2. CASE j \in 0 .. k
      BY <1>2, <2>2, <3>1, <3>2
    <3>3. CASE j = k + 1
      BY <3>1, <3>3
    <3>. QED
      BY <3>2, <3>3
  <2>. HIDE DEF T
  <2>. QED
    BY <2>1, <2>2, SetInduction
<1>5. e[m] <= e[n]
  BY <1>2, <1>4 DEF N
<1>6. e[0] <= e[m]
  BY <1>2, <1>4 DEF N
<1>. QED
  BY <1>1, <1>5, <1>6 DEF e, N

-----------------------------------------------------------------------------
\* A schedule that may be executed: a list that is not empty and was copied.
Executable(s) == s \in Schedule /\ Len(s.controlList) > 0 /\ ~CopyThrows(s)

\* Entries before and behind another in a list of n.
LEMMA AroundTheList ==
  ASSUME NEW n \in Nat \ {0}, NEW i \in 0 .. n - 1
  PROVE  /\ (i + 1) % n = IF i = n - 1 THEN 0 ELSE i + 1
         /\ (i + n - 1) % n = IF i = 0 THEN n - 1 ELSE i - 1
         /\ (i + 1) % n \in 0 .. n - 1 /\ (i + n - 1) % n \in 0 .. n - 1
<1>1. CASE i = n - 1
  <2>1. (i + 1) % n = 0
    BY <1>1
  <2>2. i # 0 => (i + n - 1) % n = i - 1
    BY <1>1
  <2>3. i = 0 => (i + n - 1) % n = n - 1
    BY <1>1
  <2>. QED
    BY <1>1, <2>1, <2>2, <2>3
<1>2. CASE i # n - 1
  <2>1. i + 1 \in 0 .. n - 1
    BY <1>2
  <2>2. (i + 1) % n = i + 1
    BY <2>1
  <2>3. CASE i = 0
    <3>1. i + n - 1 = n - 1 /\ (n - 1) % n = n - 1
      BY <2>3
    <3>. QED
      BY <1>2, <2>2, <2>3, <3>1
  <2>4. CASE i # 0
    <3>1. i - 1 \in 0 .. n - 1 /\ i + n - 1 = (i - 1) + n
      BY <2>4
    <3>2. ((i - 1) + n) % n = i - 1
      BY <3>1
    <3>. QED
      BY <1>2, <2>2, <2>4, <3>1, <3>2
  <2>. QED
    BY <2>3, <2>4
<1>. QED
  BY <1>1, <1>2

\* The entry before scheduleIndex runs.
LEMMA RunningEntryIs ==
  ASSUME Executable(currentSchedule), scheduleIndex \in 0 .. Len(currentSchedule.controlList) - 1
  PROVE  /\ RunningEntry \in 0 .. Len(currentSchedule.controlList) - 1
         /\ RunningEntry = IF scheduleIndex = 0 THEN Len(currentSchedule.controlList) - 1
                                                ELSE scheduleIndex - 1
<1>. DEFINE n == Len(currentSchedule.controlList)
<1>1. n \in Nat /\ n > 0
  BY EntriesOfSchedule DEF Executable
<1>2. RunningEntry = (scheduleIndex + n - 1) % n
  BY DEF RunningEntry, ControlListLength
<1>3. n \in Nat \ {0} /\ scheduleIndex \in 0 .. n - 1
  BY <1>1
<1>. HIDE DEF n
<1>4. RunningEntry \in 0 .. n - 1 /\ RunningEntry = IF scheduleIndex = 0 THEN n - 1 ELSE scheduleIndex - 1
  BY <1>2, <1>3, AroundTheList
<1>. QED
  BY <1>4 DEF n

\* The walk of calculateMaxBit through the current schedule ends, at an entry after
\* which no cycle is over that was not over before.
LEMMA LastEntryIs ==
  ASSUME Executable(currentSchedule), scheduleIndex \in 0 .. Len(currentSchedule.controlList) - 1
  PROVE  /\ LastEntryOfCycle \in RunningEntry .. Len(currentSchedule.controlList) - 1
         /\ HitsCycleEnd(LastEntryOfCycle)
              \/ LastEntryOfCycle = Len(currentSchedule.controlList) - 1
<1>. DEFINE n == Len(currentSchedule.controlList)
            Ends(i) == HitsCycleEnd(i) \/ i = n - 1
            S == {i \in RunningEntry .. n - 1 : Ends(i)}
<1>1. n \in Nat /\ n > 0 /\ RunningEntry \in 0 .. n - 1
  BY RunningEntryIs, EntriesOfSchedule DEF Executable
<1>. HIDE DEF n
<1>2. n - 1 \in S /\ S \subseteq Nat
  BY <1>1
<1>3. PICK i \in S : \A j \in S : i <= j
  BY <1>2, LeastNumber
<1>4. \A j \in RunningEntry .. i - 1 : ~HitsCycleEnd(j)
  <2>1. SUFFICES ASSUME NEW j \in RunningEntry .. i - 1, HitsCycleEnd(j) PROVE FALSE
    OBVIOUS
  <2>2. i \in Nat /\ i <= n - 1
    BY <1>1, <1>3
  <2>3. j \in RunningEntry .. n - 1
    BY <1>1, <2>2
  <2>4. j \in S
    BY <2>1, <2>3
  <2>. QED
    BY <1>1, <1>3, <2>2, <2>4
<1>5. \E k \in RunningEntry .. n - 1 :
        /\ HitsCycleEnd(k) \/ k = n - 1
        /\ \A j \in RunningEntry .. k - 1 : ~HitsCycleEnd(j)
  BY <1>3, <1>4
<1>6. LastEntryOfCycle =
        CHOOSE k \in RunningEntry .. n - 1 :
          /\ HitsCycleEnd(k) \/ k = n - 1
          /\ \A j \in RunningEntry .. k - 1 : ~HitsCycleEnd(j)
  BY DEF LastEntryOfCycle, ControlListLength, n
<1>7. LastEntryOfCycle \in RunningEntry .. n - 1
      /\ (HitsCycleEnd(LastEntryOfCycle) \/ LastEntryOfCycle = n - 1)
  BY <1>5, <1>6, Zenon
<1>. QED
  BY <1>7 DEF n

\* A lookahead never moves cycleStart back, and by one cycle if the list fills it.
LEMMA LookaheadMovesOn ==
  ASSUME Executable(currentSchedule), scheduleIndex \in 0 .. Len(currentSchedule.controlList) - 1
  PROVE  /\ EndOfCurrentCycle \in Nat
         /\ EndOfEntries(currentSchedule)[Len(currentSchedule.controlList)]
              = currentSchedule.cycleTime => EndOfCurrentCycle = currentSchedule.cycleTime
<1>. DEFINE n == Len(currentSchedule.controlList)  e == EndOfEntries(currentSchedule)
            i == LastEntryOfCycle
<1>1. /\ n \in Nat /\ n > 0 /\ RunningEntry \in 0 .. n - 1
      /\ i \in RunningEntry .. n - 1 /\ (HitsCycleEnd(i) \/ i = n - 1)
      /\ currentSchedule \in Schedule /\ ~CopyThrows(currentSchedule)
      /\ currentSchedule.cycleTime \in Nat
  BY RunningEntryIs, LastEntryIs, EntriesOfSchedule DEF Executable
<1>. HIDE DEF i
<1>2. i + 1 \in 0 .. n /\ n \in i + 1 .. n
  BY <1>1
<1>3. e[i + 1] \in Int /\ e[n] \in Int
  BY <1>1, <1>2, EndsAreSums
<1>4. 0 <= e[i + 1] /\ e[i + 1] <= e[n]
  BY <1>1, <1>2, EndsAreOrdered
<1>5. EndOfCurrentCycle = IF HitsCycleEnd(i) THEN currentSchedule.cycleTime ELSE e[i + 1]
  BY DEF EndOfCurrentCycle, i
<1>6. HitsCycleEnd(i) <=> e[i + 1] > currentSchedule.cycleTime
  BY DEF HitsCycleEnd
<1>. HIDE DEF e, n
<1>7. EndOfCurrentCycle \in Nat
  BY <1>1, <1>3, <1>4, <1>5
<1>8. e[n] = currentSchedule.cycleTime => EndOfCurrentCycle = currentSchedule.cycleTime
  BY <1>1, <1>3, <1>4, <1>5, <1>6
<1>. QED
  BY <1>7, <1>8 DEF e, n
=============================================================================
