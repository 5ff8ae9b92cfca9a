------------------------- MODULE GclAdaptiveProofs -------------------------
(***************************************************************************)
(* Theorems about the adaptive experiment with one switch, for every       *)
(* schedule, every set of delays and every setting of the control law that *)
(* meets the named hypotheses.                                             *)
(***************************************************************************)
EXTENDS GclAdaptive, GateControllerProofs

-----------------------------------------------------------------------------
\* The control law, for every setting of its parameters: what
\* trunc(SIMTIME_US) does to a length, and between which bounds the next TT
\* slot lies.

\* Whatever the arguments, the control law computes a truncated length.
LEMMA TargetIntervalType ==
  ASSUME NEW delay \in Nat, NEW cycle \in Nat, NEW cur \in Int, NEW nxt \in Int,
         NEW inc \in BOOLEAN, NEW used \in Int
  PROVE  /\ TargetInterval(delay, cycle, cur, nxt, inc, used) \in Int
         /\ TargetInterval(delay, cycle, cur, nxt, inc, used) \in {TruncUs(y) : y \in Int}
<1>1. IncreasedInterval(cycle, cur, nxt) \in Int
  BY ParameterAssumption DEF IncreasedInterval, NineTenths
<1>2. DecreasedInterval(cycle, cur, nxt) \in Int
  BY ParameterAssumption DEF DecreasedInterval, OneTenth
<1>3. ElevenTenths(used) \in Int
  BY DEF ElevenTenths
<1>4. \A t \in Int : TruncUs(t) \in Int
  BY ParameterAssumption DEF TruncUs
<1>5. \E y \in Int : TargetInterval(delay, cycle, cur, nxt, inc, used) = TruncUs(y)
  BY <1>1, <1>2, <1>3 DEF TargetInterval
<1>. QED
  BY <1>4, <1>5

\* Multiplication by a positive number keeps the order.
LEMMA TimesMonotone ==
  ASSUME NEW p \in Int, NEW q \in Int, NEW d \in Nat, p <= q
  PROVE  p * d <= q * d
OBVIOUS

\* Truncation yields a whole number of microseconds and takes away less than
\* one.
LEMMA TruncBounds ==
  ASSUME NEW t \in Nat
  PROVE  /\ TruncUs(t) \in Nat
         /\ TruncUs(t) <= t
         /\ t < TruncUs(t) + TicksPerUs
         /\ \E q \in Nat : TruncUs(t) = q * TicksPerUs
<1>. DEFINE q == t \div TicksPerUs
<1>1. q \in Nat /\ TruncUs(t) = q * TicksPerUs
  BY ParameterAssumption DEF TruncUs
<1>2. q * TicksPerUs \in Nat /\ q * TicksPerUs <= t /\ t < q * TicksPerUs + TicksPerUs
  BY ParameterAssumption
<1>. QED
  BY <1>1, <1>2

\* Truncation finds the largest multiple below a number.
LEMMA TruncLargest ==
  ASSUME NEW t \in Nat, NEW q \in Nat, q * TicksPerUs <= t
  PROVE  q * TicksPerUs <= TruncUs(t)
<1>. DEFINE r == t \div TicksPerUs
<1>1. r \in Nat /\ TruncUs(t) = r * TicksPerUs /\ t < (r + 1) * TicksPerUs
  BY ParameterAssumption DEF TruncUs
<1>2. q <= r
  <2>1. SUFFICES ASSUME r + 1 <= q PROVE FALSE
    BY <1>1
  <2>2. (r + 1) * TicksPerUs <= q * TicksPerUs
    BY <1>1, <2>1, TimesMonotone, ParameterAssumption
  <2>3. (r + 1) * TicksPerUs \in Int /\ q * TicksPerUs \in Int
    BY <1>1, ParameterAssumption
  <2>. QED
    BY <1>1, <2>2, <2>3
<1>. QED
  BY <1>1, <1>2, TimesMonotone, ParameterAssumption

\* Truncation is monotone.
LEMMA TruncMonotone ==
  ASSUME NEW t \in Nat, NEW u \in Nat, t <= u
  PROVE  TruncUs(t) <= TruncUs(u)
<1>1. PICK q \in Nat : TruncUs(t) = q * TicksPerUs
  BY TruncBounds
<1>2. q * TicksPerUs <= u
  BY <1>1, TruncBounds
<1>. QED
  BY <1>1, <1>2, TruncLargest

-----------------------------------------------------------------------------
\* A whole number of microseconds.
WholeUs(t) == \E q \in Nat : t = q * TicksPerUs

\* Truncation keeps whole numbers of microseconds and yields one, unless the
\* length is negative.
LEMMA TruncWhole ==
  ASSUME NEW t \in Int
  PROVE  /\ t >= 0 /\ WholeUs(t) => TruncUs(t) = t
         /\ TruncUs(t) >= 0 => WholeUs(TruncUs(t))
<1>1. CASE t >= 0
  <2>1. ASSUME WholeUs(t) PROVE TruncUs(t) = t
    <3>1. PICK q \in Nat : t = q * TicksPerUs
      BY <2>1 DEF WholeUs
    <3>2. t <= TruncUs(t)
      BY <1>1, <3>1, TruncLargest
    <3>. QED
      BY <1>1, <3>2, TruncBounds
  <2>2. WholeUs(TruncUs(t))
    BY <1>1, TruncBounds DEF WholeUs
  <2>. QED
    BY <2>1, <2>2
<1>2. CASE t < 0
  <2>. DEFINE r == ((-t) \div TicksPerUs) * TicksPerUs
  <2>1. TruncUs(t) = -r /\ r \in Nat
    BY <1>2, ParameterAssumption DEF TruncUs
  <2>. HIDE DEF r
  <2>2. TruncUs(t) >= 0 => TruncUs(t) = 0
    BY <2>1
  <2>3. WholeUs(0)
    BY ParameterAssumption DEF WholeUs
  <2>. QED
    BY <1>2, <2>2, <2>3
<1>. QED
  BY <1>1, <1>2

\* An increase by at least a microsecond survives the truncation: the new slot
\* is longer than the current one, or the longest there may be, whatever was
\* proposed before.
LEMMA IncreaseEnlarges ==
  ASSUME NEW cycle \in Nat, NEW cur \in Nat, NEW nxt \in Int, WholeUs(cur),
         TicksPerUs <= IncreaseStepLength, TicksPerUs <= MaxIncreaseStepLength
  PROVE  LET t == TruncUs(IncreasedInterval(cycle, cur, nxt))
         IN  t \in Nat /\ (t > cur \/ t = Longest(cycle))
<1>. DEFINE x == IncreasedInterval(cycle, cur, nxt)
<1>1. x = NineTenths(cycle) \/ (x \in Nat /\ x >= cur + TicksPerUs)
  BY ParameterAssumption DEF IncreasedInterval
<1>. HIDE DEF x
<1>2. CASE x = NineTenths(cycle)
  <2>1. NineTenths(cycle) \in Nat
    BY DEF NineTenths
  <2>. QED
    BY <1>2, <2>1, TruncBounds DEF Longest, x
<1>3. CASE x \in Nat /\ x >= cur + TicksPerUs
  <2>1. PICK q \in Nat : cur = q * TicksPerUs
    BY DEF WholeUs
  <2>2. (q + 1) * TicksPerUs = cur + TicksPerUs
    BY <2>1, ParameterAssumption
  <2>3. cur + TicksPerUs <= TruncUs(x)
    BY <1>3, <2>2, TruncLargest
  <2>. QED
    BY <1>3, <2>3, TruncBounds, ParameterAssumption DEF x
<1>. QED
  BY <1>1, <1>2, <1>3

\* A band the control law does not leave: floor is a whole number of
\* microseconds below the shortest slot, ceil lies above the longest.
Band(cycle, floor, ceil) ==
  /\ floor \in Nat /\ ceil \in Nat
  /\ WholeUs(floor)
  /\ floor <= Shortest(cycle)
  /\ NineTenths(cycle) <= ceil

\* Truncation stays in the band.
LEMMA TruncInBand ==
  ASSUME NEW cycle \in Nat, NEW floor, NEW ceil, Band(cycle, floor, ceil),
         NEW x \in floor .. ceil
  PROVE  TruncUs(x) \in floor .. ceil /\ TruncUs(x) <= x
<1>1. floor \in Nat /\ ceil \in Nat /\ x \in Nat
  BY DEF Band
<1>2. floor <= TruncUs(x)
  BY <1>1, TruncLargest DEF Band, WholeUs
<1>. QED
  BY <1>1, <1>2, TruncBounds

\* An increase stays in the band.
LEMMA IncreaseInBand ==
  ASSUME NEW cycle \in Nat, NEW floor, NEW ceil, Band(cycle, floor, ceil),
         NEW cur \in floor .. ceil, NEW nxt \in floor .. ceil
  PROVE  IncreasedInterval(cycle, cur, nxt) \in floor .. ceil
<1>1. floor \in Nat /\ ceil \in Nat
  BY DEF Band
<1>2. Shortest(cycle) <= OneTenth(cycle) /\ OneTenth(cycle) <= NineTenths(cycle)
  BY TruncBounds DEF Shortest, OneTenth, NineTenths
<1>3. NineTenths(cycle) \in floor .. ceil
  BY <1>1, <1>2, TruncBounds DEF Band, Shortest, OneTenth, NineTenths
<1>4. \A t \in Int : 10 * t < 9 * cycle => t <= NineTenths(cycle)
  BY DEF NineTenths
<1>. DEFINE x == IncreasedInterval(cycle, cur, nxt)
<1>5. x = NineTenths(cycle) \/ (x \in Int /\ cur <= x /\ 10 * x < 9 * cycle)
  BY <1>1, ParameterAssumption DEF IncreasedInterval
<1>. HIDE DEF x
<1>6. CASE x \in Int /\ cur <= x /\ 10 * x < 9 * cycle
  <2>1. x <= NineTenths(cycle)
    BY <1>4, <1>6
  <2>. QED
    BY <1>1, <1>3, <1>6, <2>1 DEF x
<1>. QED
  BY <1>3, <1>5, <1>6 DEF x

\* So does a decrease, as long as the proposal was not enlarged in this cycle.
LEMMA DecreaseInBand ==
  ASSUME NEW cycle \in Nat, NEW floor, NEW ceil, Band(cycle, floor, ceil),
         NEW cur \in floor .. ceil, NEW nxt \in floor .. ceil,
         nxt <= cur \/ nxt <= Shortest(cycle)
  PROVE  LET t == TruncUs(DecreasedInterval(cycle, cur, nxt))
         IN  t \in floor .. ceil /\ (t <= cur \/ t <= Shortest(cycle))
<1>. DEFINE x == DecreasedInterval(cycle, cur, nxt)
<1>1. floor \in Nat /\ ceil \in Nat /\ cur \in Nat /\ nxt \in Nat
  BY DEF Band
<1>2. OneTenth(cycle) \in Nat /\ NineTenths(cycle) \in Nat /\ Shortest(cycle) \in Nat
  BY TruncBounds DEF Shortest, OneTenth, NineTenths
<1>3. Shortest(cycle) <= OneTenth(cycle) /\ OneTenth(cycle) <= NineTenths(cycle)
  BY TruncBounds DEF Shortest, OneTenth, NineTenths
<1>4. \A t \in Int : 10 * t > cycle => t >= OneTenth(cycle)
  BY DEF OneTenth
<1>5. x = OneTenth(cycle) \/ (x \in OneTenth(cycle) .. cur)
  BY <1>1, <1>2, <1>3, <1>4, ParameterAssumption DEF DecreasedInterval
<1>6. x \in floor .. ceil
  BY <1>1, <1>2, <1>3, <1>5 DEF Band
<1>. HIDE DEF x
<1>7. TruncUs(x) <= cur \/ TruncUs(x) <= Shortest(cycle)
  <2>1. CASE x = OneTenth(cycle)
    BY <1>2, <2>1 DEF Shortest
  <2>2. CASE x \in OneTenth(cycle) .. cur
    BY <1>1, <1>6, <2>2, TruncInBand
  <2>. QED
    BY <1>5, <2>1, <2>2
<1>. QED
  BY <1>6, <1>7, TruncInBand DEF x

\* One packet, without autoIntervalDecrease: the next slot stays in the band,
\* and only a high delay makes it longer than the current one.
LEMMA TargetInBand ==
  ASSUME NEW delay \in Nat, NEW cycle \in Nat, NEW floor, NEW ceil,
         Band(cycle, floor, ceil), NEW cur \in floor .. ceil, NEW nxt \in floor .. ceil,
         NEW inc \in BOOLEAN, NEW used, ~AutoIntervalDecrease,
         ~inc => nxt <= cur \/ nxt <= Shortest(cycle)
  PROVE  LET t == TargetInterval(delay, cycle, cur, nxt, inc, used)
         IN  /\ t \in floor .. ceil
             /\ ~inc /\ ~High(delay) => t <= cur \/ t <= Shortest(cycle)
<1>. DEFINE t == TargetInterval(delay, cycle, cur, nxt, inc, used)
<1>1. CASE High(delay)
  <2>1. t = TruncUs(IncreasedInterval(cycle, cur, nxt))
    BY <1>1 DEF TargetInterval
  <2>. QED
    BY <1>1, <2>1, IncreaseInBand, TruncInBand
<1>2. CASE ~High(delay) /\ Low(delay) /\ ~inc
  <2>1. t = TruncUs(DecreasedInterval(cycle, cur, nxt))
    BY <1>2 DEF TargetInterval
  <2>. QED
    BY <1>2, <2>1, DecreaseInBand
<1>3. CASE ~High(delay) /\ ~(Low(delay) /\ ~inc)
  <2>1. t = TruncUs(nxt)
    BY <1>3 DEF TargetInterval
  <2>2. t \in floor .. ceil /\ t <= nxt
    BY <2>1, TruncInBand
  <2>3. floor \in Nat /\ ceil \in Nat /\ Shortest(cycle) \in Nat
    BY TruncBounds DEF Band, Shortest, OneTenth
  <2>4. ~inc => t <= cur \/ t <= Shortest(cycle)
    <3>. HIDE DEF t
    <3>. QED
      BY <2>2, <2>3
  <2>. QED
    BY <2>2, <2>4
<1>. QED
  BY <1>1, <1>2, <1>3

-----------------------------------------------------------------------------
\* How far a cycle may move the proposal away from the executed slot: upwards
\* in a cycle with a late packet, downwards in the others.
WithinIncrease(cycle, cur, nxt) ==
  nxt <= cur + MaxIncreaseStepLength \/ nxt = Longest(cycle)

WithinDecrease(cycle, cur, nxt) ==
  TruncUs(cur - MaxDecreaseStepLength) <= nxt \/ nxt = Shortest(cycle)

\* A negative length is truncated to one that is not positive.
LEMMA TruncNegative ==
  ASSUME NEW t \in Int, t < 0
  PROVE  TruncUs(t) \in Int /\ TruncUs(t) <= 0
<1>. DEFINE r == ((-t) \div TicksPerUs) * TicksPerUs
<1>1. TruncUs(t) = -r /\ r \in Nat
  BY ParameterAssumption DEF TruncUs
<1>. HIDE DEF r
<1>. QED
  BY <1>1

\* The ends of the cycle, as numbers.
LEMMA Ends ==
  ASSUME NEW cycle \in Nat
  PROVE  /\ NineTenths(cycle) \in Nat /\ OneTenth(cycle) \in Nat
         /\ Longest(cycle) \in Nat /\ Shortest(cycle) \in Nat
         /\ Longest(cycle) <= NineTenths(cycle)
         /\ NineTenths(cycle) < Longest(cycle) + TicksPerUs
         /\ Shortest(cycle) <= OneTenth(cycle)
         /\ OneTenth(cycle) <= NineTenths(cycle)
<1>1. NineTenths(cycle) \in Nat /\ OneTenth(cycle) \in Nat /\ OneTenth(cycle) <= NineTenths(cycle)
  BY DEF NineTenths, OneTenth
<1>. QED
  BY <1>1, TruncBounds DEF Longest, Shortest

\* A late packet does not take back what an earlier one of the cycle has given,
\* and does not move the proposal further than a cycle may.
LEMMA IncreaseKeeps ==
  ASSUME NEW cycle \in Nat, NEW cur \in Nat, NEW nxt \in Nat, WholeUs(nxt),
         TicksPerUs <= IncreaseStepLength
  PROVE  LET t == TruncUs(IncreasedInterval(cycle, cur, nxt))
         IN  /\ WithinIncrease(cycle, cur, t)
             /\ WithinIncrease(cycle, cur, nxt) /\ nxt <= Longest(cycle) => nxt <= t
<1>. DEFINE x == IncreasedInterval(cycle, cur, nxt)
            target == (IF nxt < cur THEN cur ELSE nxt) + IncreaseStepLength
<1>1. target \in Nat /\ nxt + TicksPerUs <= target /\ cur < target
  BY ParameterAssumption
<1>2. \/ 10 * target >= 9 * cycle /\ x = NineTenths(cycle)
      \/ 10 * target < 9 * cycle /\ x = cur + MaxIncreaseStepLength
      \/ /\ 10 * target < 9 * cycle
         /\ x = target /\ target < cur + MaxIncreaseStepLength
  BY <1>1, ParameterAssumption DEF IncreasedInterval
<1>. HIDE DEF x, target
<1>3. CASE x = NineTenths(cycle)
  BY <1>3 DEF WithinIncrease, Longest, x
<1>4. CASE 10 * target < 9 * cycle /\ x = cur + MaxIncreaseStepLength
  <2>. x \in Nat
    BY <1>4, ParameterAssumption
  <2>1. TruncUs(x) \in Nat /\ TruncUs(x) <= x
    BY TruncBounds
  <2>2. ASSUME nxt = Longest(cycle) PROVE FALSE
    <3>1. NineTenths(cycle) < target
      BY <1>1, <2>2, Ends, ParameterAssumption
    <3>. QED
      BY <1>1, <1>4, <3>1 DEF NineTenths
  <2>3. nxt <= x => nxt <= TruncUs(x)
    BY <2>1, TruncLargest DEF WholeUs
  <2>. QED
    BY <1>4, <2>1, <2>2, <2>3 DEF WithinIncrease, x
<1>5. CASE x = target /\ target < cur + MaxIncreaseStepLength
  <2>1. TruncUs(x) \in Nat /\ TruncUs(x) <= x
    BY <1>1, <1>5, TruncBounds
  <2>2. nxt <= TruncUs(x)
    BY <1>1, <1>5, TruncLargest, ParameterAssumption DEF WholeUs
  <2>. QED
    BY <1>1, <1>5, <2>1, <2>2, ParameterAssumption DEF WithinIncrease, x
<1>. QED
  BY <1>2, <1>3, <1>4, <1>5

\* An early packet in a cycle without a late one makes the proposal shorter,
\* and not shorter than a cycle may.
LEMMA DecreaseKeeps ==
  ASSUME NEW cycle \in Nat, NEW cur \in Nat, NEW nxt \in Nat,
         Shortest(cycle) <= nxt,
         nxt <= cur \/ nxt <= Shortest(cycle),
         WithinDecrease(cycle, cur, nxt)
  PROVE  LET t == TruncUs(DecreasedInterval(cycle, cur, nxt))
         IN  WithinDecrease(cycle, cur, t) /\ t <= nxt
<1>. DEFINE x == DecreasedInterval(cycle, cur, nxt)
            target == nxt - DecreaseStepLength
            least == cur - MaxDecreaseStepLength
<1>1. target \in Int /\ least \in Int /\ target < nxt
  BY ParameterAssumption
<1>2. nxt <= cur \/ 10 * target <= cycle
  BY <1>1, Ends DEF OneTenth
<1>3. \/ x = OneTenth(cycle)
      \/ 10 * target > cycle /\ x = least
      \/ 10 * target > cycle /\ x = target /\ least < target
  BY <1>1, <1>2, ParameterAssumption DEF DecreasedInterval
<1>. HIDE DEF x, target
<1>4. CASE x = OneTenth(cycle)
  BY <1>4 DEF WithinDecrease, Shortest, x
<1>5. CASE 10 * target > cycle /\ x = least
  <2>1. nxt # Shortest(cycle)
    BY <1>1, <1>5, Ends DEF OneTenth
  <2>2. TruncUs(least) <= nxt
    BY <2>1 DEF WithinDecrease
  <2>3. TruncUs(least) <= TruncUs(least)
    <3>. HIDE DEF least
    <3>. QED
      BY <1>1, TruncNegative, TruncBounds
  <2>. QED
    BY <1>5, <2>2, <2>3 DEF WithinDecrease, x
<1>6. CASE 10 * target > cycle /\ x = target /\ least < target
  <2>. HIDE DEF least
  <2>1. x \in Nat /\ TruncUs(x) \in Nat /\ TruncUs(x) <= x
    BY <1>1, <1>6, TruncBounds
  <2>2. TruncUs(least) <= TruncUs(x)
    <3>1. CASE least < 0
      BY <1>1, <2>1, <3>1, TruncNegative
    <3>2. CASE least >= 0
      BY <1>1, <1>6, <2>1, <3>2, TruncMonotone
    <3>. QED
      BY <1>1, <3>1, <3>2
  <2>. QED
    BY <1>1, <1>6, <2>1, <2>2 DEF WithinDecrease, x, least
<1>. QED
  BY <1>3, <1>4, <1>5, <1>6

\* The difference of whole numbers of microseconds is one.
LEMMA WholeDifference ==
  ASSUME NEW t \in Nat, NEW u \in Nat, WholeUs(t), WholeUs(u), u <= t
  PROVE  WholeUs(t - u)
<1>1. PICK p \in Nat : t = p * TicksPerUs
  BY DEF WholeUs
<1>2. PICK q \in Nat : u = q * TicksPerUs
  BY DEF WholeUs
<1>3. q <= p
  <2>1. SUFFICES ASSUME p + 1 <= q PROVE FALSE
    OBVIOUS
  <2>2. (p + 1) * TicksPerUs <= u
    BY <1>2, <2>1, TimesMonotone, ParameterAssumption
  <2>3. (p + 1) * TicksPerUs = t + TicksPerUs
    BY <1>1, ParameterAssumption
  <2>. QED
    BY <2>2, <2>3, ParameterAssumption
<1>4. t - u = (p - q) * TicksPerUs
  BY <1>1, <1>2, ParameterAssumption
<1>5. p - q \in Nat
  BY <1>3
<1>. QED
  BY <1>4, <1>5 DEF WholeUs

\* The clamp to nine tenths adds at most one step to what a cycle may see.
LEMMA IncreaseBounded ==
  ASSUME NEW cycle \in Nat, NEW cur \in Nat, NEW nxt \in Nat,
         WithinIncrease(cycle, cur, nxt) \/ nxt <= cur,
         nxt <= cur + MaxIncreaseStepLength + IncreaseStepLength
  PROVE  TruncUs(IncreasedInterval(cycle, cur, nxt))
           <= cur + MaxIncreaseStepLength + IncreaseStepLength
<1>. DEFINE x == IncreasedInterval(cycle, cur, nxt)
            target == (IF nxt < cur THEN cur ELSE nxt) + IncreaseStepLength
<1>1. target \in Nat
  BY ParameterAssumption
<1>2. \/ 10 * target >= 9 * cycle /\ x = NineTenths(cycle)
      \/ x = cur + MaxIncreaseStepLength
      \/ x = target /\ target < cur + MaxIncreaseStepLength
  BY <1>1, ParameterAssumption DEF IncreasedInterval
<1>3. nxt = Longest(cycle) \/ target <= cur + MaxIncreaseStepLength + IncreaseStepLength
  BY ParameterAssumption DEF WithinIncrease
<1>. HIDE DEF x, target
<1>4. CASE 10 * target >= 9 * cycle /\ x = NineTenths(cycle)
  <2>1. NineTenths(cycle) <= target
    BY <1>1, <1>4 DEF NineTenths
  <2>2. TruncUs(x) = Longest(cycle)
    BY <1>4 DEF Longest
  <2>. QED
    BY <1>1, <1>3, <2>1, <2>2, Ends, ParameterAssumption DEF x
<1>5. CASE x \in Nat /\ x <= cur + MaxIncreaseStepLength
  BY <1>5, TruncBounds, ParameterAssumption DEF x
<1>. QED
  BY <1>1, <1>2, <1>4, <1>5, ParameterAssumption

\* So does the clamp to a tenth, when the lengths are whole microseconds.
LEMMA DecreaseBounded ==
  ASSUME NEW cycle \in Nat, NEW cur \in Nat, NEW nxt \in Nat,
         WholeUs(cur), WholeUs(nxt),
         WholeUs(DecreaseStepLength), WholeUs(MaxDecreaseStepLength),
         nxt <= cur,
         WithinDecrease(cycle, cur, nxt),
         cur - nxt <= MaxDecreaseStepLength + DecreaseStepLength
  PROVE  cur - TruncUs(DecreasedInterval(cycle, cur, nxt))
           <= MaxDecreaseStepLength + DecreaseStepLength
<1>. DEFINE x == DecreasedInterval(cycle, cur, nxt)
            target == nxt - DecreaseStepLength
            least == cur - MaxDecreaseStepLength
<1>1. target \in Int /\ least \in Int /\ target < nxt
  BY ParameterAssumption
<1>2. /\ target >= 0 => WholeUs(target)
      /\ least >= 0 => WholeUs(least)
  BY <1>1, WholeDifference, ParameterAssumption
<1>3. \/ 10 * target <= cycle /\ x = OneTenth(cycle)
      \/ 10 * target > cycle /\ x = least /\ target <= least
      \/ 10 * target > cycle /\ x = target /\ least < target
  BY <1>1, ParameterAssumption DEF DecreasedInterval
<1>4. CASE 10 * target <= cycle /\ x = OneTenth(cycle)
  <2>1. TruncUs(x) = Shortest(cycle)
    BY <1>4 DEF Shortest
  <2>2. target <= Shortest(cycle)
    <3>1. CASE target < 0
      BY <1>1, <3>1, Ends
    <3>2. CASE target >= 0
      <4>1. target <= OneTenth(cycle)
        BY <1>1, <1>4 DEF OneTenth
      <4>2. target \in Nat /\ OneTenth(cycle) \in Nat /\ WholeUs(target)
        BY <1>1, <1>2, <3>2, Ends
      <4>. HIDE DEF target
      <4>. QED
        BY <4>1, <4>2, TruncLargest DEF WholeUs, Shortest
    <3>. QED
      BY <1>1, <3>1, <3>2
  <2>3. nxt = Shortest(cycle) \/ least - DecreaseStepLength <= target \/ least < 0
    <3>1. ASSUME least >= 0, TruncUs(least) <= nxt PROVE least <= nxt
      <4>. HIDE DEF least
      <4>. QED
        BY <1>1, <1>2, <3>1, TruncWhole
    <3>. QED
      BY <1>1, <3>1, ParameterAssumption DEF WithinDecrease
  <2>. QED
    BY <1>1, <2>1, <2>2, <2>3, Ends, ParameterAssumption DEF x
<1>5. CASE 10 * target > cycle /\ x = least /\ target <= least
  <2>1. least >= 0
    BY <1>1, <1>5
  <2>2. TruncUs(least) = least
    <3>. HIDE DEF least
    <3>. QED
      BY <1>1, <1>2, <2>1, TruncWhole
  <2>. QED
    BY <1>1, <1>5, <2>2, ParameterAssumption DEF x
<1>6. CASE 10 * target > cycle /\ x = target /\ least < target
  <2>1. target >= 0
    BY <1>1, <1>6
  <2>2. TruncUs(target) = target
    <3>. HIDE DEF target
    <3>. QED
      BY <1>1, <1>2, <2>1, TruncWhole
  <2>. QED
    BY <1>1, <1>6, <2>2, ParameterAssumption DEF x
<1>. QED
  BY <1>3, <1>4, <1>5, <1>6

-----------------------------------------------------------------------------
\* Shapes and types

\* A schedule with the cycle time and as many entries as the initial one.
SameShape(s) ==
  /\ s \in Schedule
  /\ Len(s.controlList) = Len(InitialSchedule.controlList)
  /\ s.cycleTime = InitialSchedule.cycleTime

\* s with a TT slot of t and a BE slot of u.
WithSlots(s, t, u) == [s EXCEPT !.controlList[1].timeInterval = t,
                                !.controlList[2].timeInterval = u]

\* setTimeInterval() of entries 0 and 1 changes nothing else.
LEMMA SlotsWritten ==
  ASSUME NEW s, SameShape(s), NEW t \in Int, NEW u \in Int
  PROVE  /\ SameShape(WithSlots(s, t, u))
         /\ TT(WithSlots(s, t, u)) = t
         /\ BE(WithSlots(s, t, u)) = u
         /\ \A i \in 3 .. Len(s.controlList) :
              WithSlots(s, t, u).controlList[i] = s.controlList[i]
<1>. DEFINE l == s.controlList
            e1 == [l[1] EXCEPT !.timeInterval = t]
            l1 == [l EXCEPT ![1] = e1]
            e2 == [l[2] EXCEPT !.timeInterval = u]
            l2 == [l1 EXCEPT ![2] = e2]
<1>1. l \in Seq(Entry) /\ Len(l) \in Nat /\ Len(l) >= 2
  BY SlotAssumption DEF SameShape, Schedule, ControlListLength
<1>2. l[1] \in Entry /\ l[2] \in Entry
  BY <1>1
<1>3. e1 \in Entry /\ e1.timeInterval = t /\ e2 \in Entry /\ e2.timeInterval = u
  BY <1>2 DEF Entry
<1>4. l1 \in Seq(Entry) /\ Len(l1) = Len(l) /\ l1[1] = e1 /\ l1[2] = l[2]
  BY <1>1, <1>3
<1>5. \A i \in 3 .. Len(l) : l1[i] = l[i]
  BY <1>1, <1>3
<1>6. l2 \in Seq(Entry) /\ Len(l2) = Len(l) /\ l2[1] = e1 /\ l2[2] = e2
  BY <1>1, <1>3, <1>4
<1>7. \A i \in 3 .. Len(l) : l2[i] = l[i]
  BY <1>1, <1>3, <1>4, <1>5
<1>. DEFINE r1 == [s EXCEPT !.controlList = l1]
            r2 == [r1 EXCEPT !.controlList = [r1.controlList EXCEPT
                     ![2] = [r1.controlList[2] EXCEPT !.timeInterval = u]]]
<1>8. WithSlots(s, t, u) = r2
  BY DEF WithSlots
<1>9. r1 \in Schedule /\ r1.controlList = l1 /\ r1.cycleTime = s.cycleTime
  BY <1>4 DEF SameShape, Schedule
<1>. HIDE DEF r1, l1
<1>10. [r1.controlList EXCEPT ![2] = [r1.controlList[2] EXCEPT !.timeInterval = u]] = l2
  BY <1>4, <1>9
<1>. HIDE DEF l2
<1>11. r2 \in Schedule /\ r2.controlList = l2 /\ r2.cycleTime = s.cycleTime
  BY <1>6, <1>9, <1>10 DEF Schedule
<1>. HIDE DEF r2, e1, e2
<1>12. SameShape(r2)
  BY <1>6, <1>11 DEF SameShape
<1>13. TT(r2) = t /\ BE(r2) = u
  BY <1>3, <1>6, <1>11 DEF TT, BE, TimeInterval
<1>. QED
  BY <1>7, <1>8, <1>11, <1>12, <1>13

\* What the other invariants take for granted about the schedules.
ShapeInv ==
  /\ ScheduleTypeOK
  /\ lastTT \in Int
  /\ transmitted \in BOOLEAN
  /\ seen \subseteq {"high", "mid", "low"}
  /\ SameShape(newSchedule)
  /\ Started => SameShape(currentSchedule) /\ ~CopyThrows(currentSchedule)
  /\ ~Started => scheduleIndex = 0

\* The schedule of the time before the first update is a schedule, and it has
\* a single entry: none of the shape of the initial schedule equals it.
LEMMA DefaultDiffers ==
  /\ DefaultSchedule \in Schedule
  /\ Len(DefaultSchedule.controlList) = 1
  /\ TT(DefaultSchedule) = DefaultInterval
  /\ \A s : SameShape(s) => s # DefaultSchedule
<1>. DEFINE e == [timeInterval |-> DefaultInterval, gates |-> Gates]
<1>1. e \in Entry /\ e.timeInterval = DefaultInterval
  BY TimeAssumption DEF Entry
<1>. HIDE DEF e
<1>2. <<e>> \in Seq(Entry) /\ Len(<<e>>) = 1 /\ <<e>>[1] = e
  BY <1>1
<1>3. DefaultSchedule = [cycleTime |-> 0, controlList |-> <<e>>]
  BY DEF DefaultSchedule, e
<1>4. DefaultSchedule \in Schedule /\ DefaultSchedule.controlList = <<e>>
  BY <1>2, <1>3 DEF Schedule
<1>5. TT(DefaultSchedule) = DefaultInterval
  BY <1>1, <1>2, <1>4 DEF TT, TimeInterval
<1>6. \A s : SameShape(s) => s # DefaultSchedule
  <2>1. Len(DefaultSchedule.controlList) = 1
    BY <1>2, <1>4
  <2>. DEFINE n == Len(InitialSchedule.controlList)
  <2>2. n \in Nat /\ n >= 2
    BY SlotAssumption, ScheduleAssumption DEF ControlListLength, Schedule
  <2>. HIDE DEF n
  <2>3. n # 1
    BY <2>2
  <2>. QED
    BY <2>1, <2>3 DEF SameShape, n
<1>. QED
  BY <1>2, <1>4, <1>5, <1>6

\* The slots of a schedule of this shape are times.
LEMMA ShapeSlots ==
  ASSUME NEW s, SameShape(s)
  PROVE  TT(s) \in Int /\ BE(s) \in Int
<1>. DEFINE l == s.controlList
<1>1. l \in Seq(Entry) /\ Len(l) \in Nat /\ Len(l) >= 2
  BY SlotAssumption DEF SameShape, Schedule, ControlListLength
<1>2. l[1] \in Entry /\ l[2] \in Entry
  BY <1>1
<1>. QED
  BY <1>2 DEF TT, BE, TimeInterval, Entry

\* So is the TT slot receivePacket() reads from the current schedule, also
\* before the first update.
LEMMA CurrentSlot ==
  ASSUME ShapeInv
  PROVE  TT(currentSchedule) \in Int
BY ShapeSlots, DefaultDiffers, TimeAssumption DEF ShapeInv, Started

\* The initial state has these shapes.
LEMMA ShapeInit == GInit => ShapeInv
<1>. SUFFICES ASSUME GInit PROVE ShapeInv
  OBVIOUS
<1>1. SameShape(newSchedule)
  BY ScheduleAssumption DEF GInit, Init, SameShape
<1>2. ScheduleTypeOK
  <2>1. 0 \in 0 .. ControlListLength(DefaultSchedule) - 1
    BY DefaultDiffers DEF ControlListLength
  <2>2. scheduleIndex \in 0 .. ControlListLength(currentSchedule) - 1
    BY <2>1 DEF GInit, Init
  <2>3. currentSchedule \in Schedule /\ newSchedule \in Schedule
    BY DefaultDiffers, ScheduleAssumption DEF GInit, Init
  <2>4. cycleStartAuto \in Int /\ lastChange \in Int /\ gateOpen \subseteq Gates
    BY DEF GInit, Init
  <2>. QED
    BY <2>2, <2>3, <2>4 DEF GInit, Init, ScheduleTypeOK
<1>3. transmitted \in BOOLEAN
  <2>1. transmitted = FALSE
    BY DEF GInit
  <2>. QED
    BY <2>1
<1>. QED
  BY <1>1, <1>2, <1>3 DEF GInit, Init, ShapeInv, Started

\* The schedule an update executes has the shape of the initial one, and so
\* the port has started.
LEMMA UpdateShape ==
  ASSUME ShapeInv, UpdateSchedule
  PROVE  /\ SameShape(currentSchedule') /\ ~CopyThrows(currentSchedule')
         /\ Started'
         /\ Loads => currentSchedule' = newSchedule
         /\ ~Loads => Started /\ currentSchedule' = currentSchedule
<1>1. CASE Loads
  <2>1. currentSchedule' = newSchedule /\ ~CopyThrows(newSchedule)
    BY <1>1 DEF UpdateSchedule, ScheduleInForce
  <2>. QED
    BY <1>1, <2>1, DefaultDiffers DEF ShapeInv, Started
<1>2. CASE ~Loads
  BY <1>2 DEF Loads, ShapeInv, UpdateSchedule, ScheduleInForce, Started
<1>. QED
  BY <1>1, <1>2

\* The entry an update executes is one of the list, and the index of the next
\* one stays within it.
LEMMA UpdateEntry ==
  ASSUME ShapeInv, UpdateSchedule
  PROVE  /\ EntryInForce \in 0 .. Len(currentSchedule'.controlList) - 1
         /\ scheduleIndex' \in 0 .. Len(currentSchedule'.controlList) - 1
         /\ gateOpen' \subseteq Gates
<1>. DEFINE l == currentSchedule'.controlList
<1>1. l \in Seq(Entry) /\ Len(l) \in Nat /\ Len(l) >= 2
  BY UpdateShape, SlotAssumption DEF SameShape, Schedule, ControlListLength
<1>2. scheduleIndex \in 0 .. Len(l) - 1
  BY <1>1, UpdateShape DEF Loads, ShapeInv, ScheduleTypeOK, ControlListLength
<1>3. EntryInForce \in 0 .. Len(l) - 1
  BY <1>1, <1>2 DEF EntryInForce
<1>4. ScheduleInForce.controlList = l
  BY DEF UpdateSchedule
<1>. DEFINE k == EntryInForce
<1>. HIDE DEF l, k
<1>5. scheduleIndex' = (k + 1) % Len(l) /\ gateOpen' = l[k + 1].gates
  BY <1>4 DEF UpdateSchedule, FollowingEntry, ControlListLength, ScheduledObject, k
<1>6. k \in 0 .. Len(l) - 1
  BY <1>3 DEF k
<1>7. (k + 1) % Len(l) \in 0 .. Len(l) - 1
  BY <1>1, <1>6
<1>8. l[k + 1].gates \subseteq Gates
  <2>1. l[k + 1] \in Entry
    BY <1>1, <1>6
  <2>. QED
    BY <2>1 DEF Entry
<1>. QED
  BY <1>3, <1>5, <1>7, <1>8 DEF l

\* receivePacket() writes the two slots; the lemma names what it writes.
LEMMA ReceivedSlot ==
  ASSUME ShapeInv, NEW delay \in Delays, ReceivePacket(delay)
  PROVE  LET cycle == InitialSchedule.cycleTime
             t == TargetInterval(delay, cycle, TT(currentSchedule), TT(newSchedule),
                                 isIncreased, lastTT - cycleStartAuto)
         IN  /\ t \in Int
             /\ SameShape(newSchedule')
             /\ TT(newSchedule') = t
             /\ BE(newSchedule') = cycle - t
             /\ \A i \in 3 .. Len(newSchedule.controlList) :
                  newSchedule'.controlList[i] = newSchedule.controlList[i]
<1>. DEFINE cycle == InitialSchedule.cycleTime
            t == TargetInterval(delay, cycle, TT(currentSchedule), TT(newSchedule),
                                isIncreased, lastTT - cycleStartAuto)
<1>1. cycle \in Nat /\ newSchedule.cycleTime = cycle /\ TT(newSchedule) \in Int
  BY ShapeSlots, ScheduleAssumption DEF ShapeInv, SameShape, Schedule
<1>2. TT(currentSchedule) \in Int
  BY CurrentSlot
<1>3. isIncreased \in BOOLEAN /\ lastTT - cycleStartAuto \in Int
  BY DEF ShapeInv, ScheduleTypeOK
<1>4. t \in Int
  BY <1>1, <1>2, <1>3, TargetIntervalType, DelayAssumption
<1>5. newSchedule' = WithSlots(newSchedule, t, cycle - t)
  BY <1>1 DEF ReceivePacket, WithSlots
<1>. HIDE DEF t, cycle
<1>. QED
  BY <1>1, <1>4, <1>5, SlotsWritten DEF ShapeInv, t, cycle

\* Every step keeps them.
LEMMA ShapeStep == ShapeInv /\ [Next]_vars => ShapeInv'
<1>. SUFFICES ASSUME ShapeInv, [Next]_vars PROVE ShapeInv'
  OBVIOUS
<1>1. ASSUME NEW delay \in Delays, ReceivePacket(delay) PROVE ShapeInv'
  <2>3. SameShape(newSchedule')
    BY <1>1, ReceivedSlot
  <2>4. isIncreased' \in BOOLEAN
    BY <1>1 DEF ReceivePacket
  <2>5. seen' \subseteq {"high", "mid", "low"}
    BY <1>1 DEF ReceivePacket, Kind, ShapeInv
  <2>. QED
    BY <1>1, <2>3, <2>4, <2>5
    DEF ReceivePacket, ShapeInv, ScheduleTypeOK, SameShape, Started
<1>2. CASE TransmitTT
  BY <1>2 DEF TransmitTT, gcVars, ShapeInv, ScheduleTypeOK, Started
<1>3. CASE Wait
  BY <1>3 DEF Wait, Elapse, ShapeInv, ScheduleTypeOK, Started
<1>4. CASE GUpdateSchedule
  <2>. UpdateSchedule
    BY <1>4 DEF GUpdateSchedule
  <2>1. ScheduleTypeOK'
    <3>1. currentSchedule' \in Schedule /\ newSchedule' \in Schedule
      BY UpdateShape DEF SameShape, UpdateSchedule, ShapeInv, ScheduleTypeOK
    <3>2. isIncreased' \in BOOLEAN /\ isSelected' \in BOOLEAN
      BY DEF UpdateSchedule, FlagAfterUpdate
    <3>3. cycleStartAuto' \in Int /\ lastChange' \in Int
      BY DEF UpdateSchedule, ShapeInv, ScheduleTypeOK
    <3>. QED
      BY <3>1, <3>2, <3>3, UpdateEntry
      DEF UpdateSchedule, ShapeInv, ScheduleTypeOK, ControlListLength
  <2>. QED
    BY <1>4, <2>1, UpdateShape DEF GUpdateSchedule, UpdateSchedule, ShapeInv
<1>5. CASE Tick /\ UNCHANGED <<lastTT, transmitted, seen>>
  BY <1>5 DEF Tick, ShapeInv, ScheduleTypeOK, Started
<1>6. CASE UpdateScheduleThrows /\ UNCHANGED <<lastTT, transmitted, seen>>
  BY <1>6 DEF UpdateScheduleThrows, ShapeInv, ScheduleTypeOK, Started
<1>7. ASSUME NEW g \in LengthAwareGates, CalculateMaxBit(g),
             UNCHANGED <<lastTT, transmitted, seen>>
      PROVE  ShapeInv'
  BY <1>7 DEF CalculateMaxBit, ShapeInv, ScheduleTypeOK, Started
<1>8. CASE UNCHANGED vars
  BY <1>8 DEF vars, gcVars, ShapeInv, ScheduleTypeOK, Started
<1>. QED
  BY <1>1, <1>2, <1>3, <1>4, <1>5, <1>6, <1>7, <1>8 DEF Next

\* Schedules keep the number of entries and the cycle time they were read with,
\* and only schedules without negative intervals are executed.
THEOREM ShapeInvariant == Spec => []ShapeInv
BY ShapeInit, ShapeStep, PTL DEF Spec

-----------------------------------------------------------------------------
\* Times

\* The next tick comes before the end of the running cycle.
TimeInv ==
  /\ TimeTypeOK
  /\ tick >= 0
  /\ updateScheduleMsg => tick = 0
  /\ Started => tick <= cycleStart + currentSchedule.cycleTime

\* An update subscribes a tick that lies neither in the past nor beyond the
\* end of the cycle.
LEMMA UpdateTick ==
  ASSUME ShapeInv, TimeInv, UpdateSchedule
  PROVE  TimeInv'
<1>. DEFINE sched == currentSchedule'
            k == EntryInForce
            cycle == sched.cycleTime
            start == IF k = 0 THEN 0 ELSE cycleStart
            interval == sched.controlList[k + 1].timeInterval
<1>1. sched.controlList \in Seq(Entry) /\ cycle \in Nat
  BY UpdateShape DEF SameShape, Schedule
<1>2. k \in 0 .. Len(sched.controlList) - 1
  BY UpdateEntry
<1>3. interval \in Nat
  <2>. HIDE DEF k, sched
  <2>1. Len(sched.controlList) \in Nat
    BY <1>1
  <2>2. k + 1 \in 1 .. Len(sched.controlList)
    BY <1>2, <2>1
  <2>3. sched.controlList[k + 1] \in Entry
    BY <1>1, <2>2
  <2>4. ~CopyThrows(sched)
    BY UpdateShape DEF sched
  <2>. QED
    BY <2>2, <2>3, <2>4 DEF Entry, CopyThrows
<1>4. start \in Int /\ start + cycle >= 0
  <2>1. CASE k = 0
    BY <1>1, <2>1
  <2>2. CASE k # 0
    <3>1. ~Loads
      BY <2>2 DEF EntryInForce, Loads
    <3>2. Started /\ cycle = currentSchedule.cycleTime
      BY <3>1, UpdateShape
    <3>3. tick = 0 /\ cycleStart \in Int
      BY DEF UpdateSchedule, TimeInv, TimeTypeOK
    <3>. QED
      BY <1>1, <2>2, <3>2, <3>3 DEF TimeInv
  <2>. QED
    BY <2>1, <2>2
<1>5. /\ tick' = IF interval > start + cycle THEN start + cycle ELSE interval
      /\ cycleStart' = start
      /\ updateScheduleMsg' = FALSE
  BY DEF UpdateSchedule, ScheduleNextTickEvent, TimeInterval
<1>. HIDE DEF start, interval
<1>. QED
  BY <1>1, <1>3, <1>4, <1>5 DEF TimeInv, TimeTypeOK

\* What is executed may be walked through.
LEMMA CurrentIsExecutable ==
  ASSUME ShapeInv
  PROVE  /\ Executable(currentSchedule)
         /\ scheduleIndex \in 0 .. Len(currentSchedule.controlList) - 1
<1>1. scheduleIndex \in 0 .. Len(currentSchedule.controlList) - 1
  BY DEF ShapeInv, ScheduleTypeOK, ControlListLength
<1>2. ASSUME Started PROVE Executable(currentSchedule)
  <2>1. SameShape(currentSchedule) /\ ~CopyThrows(currentSchedule)
    BY <1>2 DEF ShapeInv
  <2>2. Len(currentSchedule.controlList) >= 2
    BY <2>1, SlotAssumption DEF SameShape, ControlListLength
  <2>. QED
    BY <2>1, <2>2 DEF SameShape, Executable
<1>3. ASSUME ~Started PROVE Executable(currentSchedule)
  <2>1. DefaultSchedule.controlList[1].timeInterval \in Nat
    BY DefaultDiffers, TimeAssumption DEF TT, TimeInterval
  <2>2. ~CopyThrows(DefaultSchedule)
    <3>1. \A e \in 1 .. Len(DefaultSchedule.controlList) : e = 1
      BY DefaultDiffers
    <3>. QED
      BY <2>1, <3>1 DEF CopyThrows
  <2>. QED
    BY <1>3, <2>2, DefaultDiffers DEF Started, Executable
<1>. QED
  BY <1>1, <1>2, <1>3

\* The subscribed tick never lies in the past: the number of ticks handed to
\* subscribeTick() is not negative, whatever the receiver writes into newSchedule
\* and however often calculateMaxBit() moves the cycleStart it is computed with. A
\* lookahead only ever moves it forward.
THEOREM TicksAreSound == Spec => [](GTypeOK /\ TickNotInThePast)
<1>1. GInit => TimeInv
  BY TimeAssumption DEF GInit, Init, TimeInv, TimeTypeOK, Started
<1>2. ShapeInv /\ TimeInv /\ [Next]_vars => TimeInv'
  <2>. SUFFICES ASSUME ShapeInv, TimeInv, [Next]_vars PROVE TimeInv'
    OBVIOUS
  <2>1. ASSUME NEW delay \in Delays, ReceivePacket(delay) PROVE TimeInv'
    BY <2>1 DEF ReceivePacket, TimeInv, TimeTypeOK, Started
  <2>2. CASE TransmitTT
    BY <2>2 DEF TransmitTT, gcVars, TimeInv, TimeTypeOK, Started
  <2>3. CASE Wait
    <3>1. currentSchedule.cycleTime \in Nat
      BY DEF ShapeInv, ScheduleTypeOK, Schedule
    <3>. QED
      BY <2>3, <3>1 DEF Wait, Elapse, TimeInv, TimeTypeOK, Started
  <2>4. CASE GUpdateSchedule
    BY <2>4, UpdateTick DEF GUpdateSchedule
  <2>5. CASE Tick
    BY <2>5 DEF Tick, TimeInv, TimeTypeOK, Started
  <2>6. CASE UpdateScheduleThrows
    BY <2>6 DEF UpdateScheduleThrows, TimeInv, TimeTypeOK, Started
  <2>7. ASSUME NEW g \in LengthAwareGates, CalculateMaxBit(g) PROVE TimeInv'
    <3>1. /\ UNCHANGED <<currentSchedule, tick, updateScheduleMsg>>
          /\ cycleStart' = cycleStart + EndOfCurrentCycle
      BY <2>7 DEF CalculateMaxBit
    <3>2. EndOfCurrentCycle \in Nat
      BY CurrentIsExecutable, LookaheadMovesOn
    <3>3. currentSchedule.cycleTime \in Nat
      BY DEF ShapeInv, ScheduleTypeOK, Schedule
    <3>. QED
      BY <3>1, <3>2, <3>3 DEF TimeInv, TimeTypeOK, Started
  <2>8. CASE UNCHANGED vars
    BY <2>8 DEF vars, gcVars, TimeInv, TimeTypeOK, Started
  <2>. QED
    BY <2>1, <2>2, <2>3, <2>4, <2>5, <2>6, <2>7, <2>8 DEF Next
<1>3. ShapeInv /\ TimeInv => GTypeOK /\ TickNotInThePast
  BY DEF ShapeInv, TimeInv, GTypeOK, TypeOK, TickNotInThePast
<1>. QED
  BY <1>1, <1>2, <1>3, ShapeInvariant, PTL DEF Spec

-----------------------------------------------------------------------------
\* Overload

\* Slots are counted in microseconds and a step is at least one.
WholeMicroseconds ==
  /\ WholeUs(InitialTT)
  /\ TicksPerUs <= IncreaseStepLength
  /\ TicksPerUs <= MaxIncreaseStepLength

(***************************************************************************)
(* isIncreased remembers whether a late packet was seen, and OverloadEn-   *)
(* larges holds while it is set.  That later packets of the cycle leave    *)
(* the proposal alone needs that slots are whole microseconds: otherwise   *)
(* trunc() would shorten it again.                                         *)
(***************************************************************************)
EnlargeInv ==
  /\ (isIncreased <=> "high" \in seen)
  /\ TT(newSchedule) >= 0 => WholeUs(TT(newSchedule))
  /\ Started => WholeUs(TT(currentSchedule))
  /\ OverloadEnlarges

\* The slots of an executed schedule are not negative.
LEMMA ExecutedNotNegative ==
  ASSUME NEW s, SameShape(s), ~CopyThrows(s)
  PROVE  TT(s) \in Nat /\ BE(s) \in Nat
<1>1. 1 \in 1 .. Len(s.controlList) /\ 2 \in 1 .. Len(s.controlList)
  BY SlotAssumption DEF SameShape, ControlListLength
<1>. QED
  BY <1>1, ShapeSlots DEF CopyThrows, TT, BE, TimeInterval

\* Each step keeps the promise to a late packet.
LEMMA EnlargeStep ==
  ASSUME WholeMicroseconds, ShapeInv, EnlargeInv, [Next]_vars
  PROVE  EnlargeInv'
<1>. DEFINE cycle == InitialSchedule.cycleTime
            cur == TT(currentSchedule)
            nxt == TT(newSchedule)
<1>1. ASSUME NEW delay \in Delays, ReceivePacket(delay) PROVE EnlargeInv'
  <2>. DEFINE used == lastTT - cycleStartAuto
              t == TargetInterval(delay, cycle, cur, nxt, isIncreased, used)
  <2>1. t \in Int /\ TT(newSchedule') = t
    BY <1>1, ReceivedSlot
  <2>2. cycle \in Nat /\ nxt \in Int /\ delay \in Nat /\ isIncreased \in BOOLEAN
    BY ShapeSlots, ScheduleAssumption, DelayAssumption
    DEF ShapeInv, SameShape, Schedule, ScheduleTypeOK
  <2>3. Started => cur \in Nat /\ WholeUs(cur)
    BY ExecutedNotNegative DEF ShapeInv, EnlargeInv
  <2>4. t >= 0 => WholeUs(t)
    <3>1. cur \in Int /\ used \in Int
      BY CurrentSlot DEF ShapeInv, ScheduleTypeOK
    <3>. HIDE DEF cycle, cur, nxt, used
    <3>2. t \in {TruncUs(y) : y \in Int}
      BY <2>2, <3>1, TargetIntervalType
    <3>. QED
      BY <3>2, TruncWhole
  <2>5. ASSUME Started, High(delay) PROVE t > cur \/ t = Longest(cycle)
    <3>1. t = TruncUs(IncreasedInterval(cycle, cur, nxt))
      BY <2>5 DEF TargetInterval
    <3>. QED
      BY <2>2, <2>3, <2>5, <3>1, IncreaseEnlarges DEF WholeMicroseconds
  <2>6. ASSUME Started, ~High(delay), isIncreased PROVE t > cur \/ t = Longest(cycle)
    <3>1. t = TruncUs(nxt)
      BY <2>6 DEF TargetInterval
    <3>2. nxt > cur \/ nxt = Longest(cycle)
      BY <2>6 DEF EnlargeInv, OverloadEnlarges
    <3>3. Longest(cycle) \in Nat
      BY <2>2, TruncBounds DEF Longest, NineTenths
    <3>4. nxt >= 0
      BY <2>2, <2>3, <2>6, <3>2, <3>3
    <3>5. TruncUs(nxt) = nxt
      BY <2>2, <3>4, TruncWhole DEF EnlargeInv
    <3>. QED
      BY <3>1, <3>2, <3>5
  <2>7. isIncreased' = (isIncreased \/ High(delay)) /\ UNCHANGED currentSchedule
    BY <1>1 DEF ReceivePacket
  <2>8. (isIncreased' <=> "high" \in seen')
    <3>1. High(delay) => Kind(delay) = "high"
      BY DEF Kind
    <3>2. ~High(delay) => Kind(delay) # "high"
      BY DEF Kind
    <3>3. seen' = seen \cup {Kind(delay)} /\ (isIncreased <=> "high" \in seen)
      BY <1>1 DEF ReceivePacket, EnlargeInv
    <3>. QED
      BY <2>7, <3>1, <3>2, <3>3
  <2>. HIDE DEF t
  <2>9. OverloadEnlarges'
    BY <2>1, <2>5, <2>6, <2>7, <2>8 DEF OverloadEnlarges, Started
  <2>. QED
    BY <2>1, <2>4, <2>7, <2>8, <2>9 DEF EnlargeInv, Started
<1>2. CASE TransmitTT
  BY <1>2 DEF TransmitTT, gcVars, EnlargeInv, OverloadEnlarges, Started
<1>3. CASE Wait
  BY <1>3 DEF Wait, Elapse, EnlargeInv, OverloadEnlarges, Started
<1>4. CASE GUpdateSchedule
  <2>1. UpdateSchedule /\ newSchedule' = newSchedule
    BY <1>4 DEF GUpdateSchedule, UpdateSchedule
  <2>2. CASE Loads
    <3>1. currentSchedule' = newSchedule
      BY <2>1, <2>2, UpdateShape
    <3>2. WholeUs(TT(currentSchedule'))
      BY <2>1, <3>1, UpdateShape, ExecutedNotNegative DEF EnlargeInv
    <3>3. isIncreased' = FALSE /\ seen' = {}
      BY <1>4, <2>2 DEF GUpdateSchedule, UpdateSchedule, FlagAfterUpdate
    <3>4. (isIncreased' <=> "high" \in seen')
      BY <3>3
    <3>5. OverloadEnlarges'
      BY <3>3 DEF OverloadEnlarges
    <3>. QED
      BY <2>1, <3>2, <3>4, <3>5 DEF EnlargeInv
  <2>3. CASE ~Loads
    <3>1. UNCHANGED <<currentSchedule, newSchedule, isIncreased, seen>>
      BY <1>4, <2>1, <2>3, UpdateShape
      DEF GUpdateSchedule, UpdateSchedule, FlagAfterUpdate, ShapeInv, ScheduleTypeOK
    <3>. QED
      BY <3>1 DEF EnlargeInv, OverloadEnlarges, Started
  <2>. QED
    BY <2>2, <2>3
<1>5. CASE Tick /\ UNCHANGED <<lastTT, transmitted, seen>>
  BY <1>5 DEF Tick, EnlargeInv, OverloadEnlarges, Started
<1>6. CASE UpdateScheduleThrows /\ UNCHANGED <<lastTT, transmitted, seen>>
  BY <1>6 DEF UpdateScheduleThrows, EnlargeInv, OverloadEnlarges, Started
<1>7. ASSUME NEW g \in LengthAwareGates, CalculateMaxBit(g),
             UNCHANGED <<lastTT, transmitted, seen>>
      PROVE  EnlargeInv'
  BY <1>7 DEF CalculateMaxBit, EnlargeInv, OverloadEnlarges, Started
<1>8. CASE UNCHANGED vars
  BY <1>8 DEF vars, gcVars, EnlargeInv, OverloadEnlarges, Started
<1>. QED
  BY <1>1, <1>2, <1>3, <1>4, <1>5, <1>6, <1>7, <1>8 DEF Next

\* Whatever the delays, the base time, autoIntervalDecrease and the lookaheads
\* of the gates: after a late packet the next TT slot is longer than the
\* executed one, or the longest.
THEOREM LatePacketEnlarges ==
  ASSUME WholeMicroseconds
  PROVE  Spec => []OverloadEnlarges
<1>1. GInit => EnlargeInv
  <2>. SUFFICES ASSUME GInit PROVE EnlargeInv
    OBVIOUS
  <2>1. (isIncreased <=> "high" \in seen) /\ OverloadEnlarges
    BY DEF GInit, Init, OverloadEnlarges
  <2>2. WholeUs(TT(newSchedule)) /\ ~Started
    BY DEF GInit, Init, WholeMicroseconds, InitialTT, Started
  <2>. QED
    BY <2>1, <2>2 DEF EnlargeInv
<1>2. ShapeInv /\ EnlargeInv /\ [Next]_vars => EnlargeInv'
  BY EnlargeStep
<1>3. EnlargeInv => OverloadEnlarges
  BY DEF EnlargeInv
<1>. QED
  BY <1>1, <1>2, <1>3, ShapeInvariant, PTL DEF Spec

-----------------------------------------------------------------------------
\* The reserved share

\* The setting of the experiments: the port starts at time 0, decreases are
\* made by steps, and the initial TT and BE slots, in whole microseconds, fill
\* the cycle.
Reserving ==
  /\ BaseTime = 0
  /\ ~AutoIntervalDecrease
  /\ WholeUs(InitialTT)
  /\ BE(InitialSchedule) = InitialSchedule.cycleTime - InitialTT

(***************************************************************************)
(* ReservedShare is not inductive: a decrease looks at the distance to the *)
(* current slot in both directions and would subtract the maximum from it  *)
(* if the proposal were above.  The proposal is above only after an        *)
(* increase, and then isIncreased forbids a decrease.  Before the first    *)
(* update nothing is received, because no time has passed.                 *)
(***************************************************************************)
BandInv ==
  /\ ReservedShare
  /\ Started /\ ~isIncreased =>
       \/ TT(newSchedule) <= TT(currentSchedule)
       \/ TT(newSchedule) <= Shortest(InitialSchedule.cycleTime)
  /\ \A i \in 3 .. Len(newSchedule.controlList) :
       newSchedule.controlList[i].timeInterval >= 0
  /\ ~Started => newSchedule = InitialSchedule /\ tick = 0 /\ lastChange = 0
  /\ ~failed

\* Floor and Ceiling are a band of the control law.
LEMMA FloorCeiling ==
  ASSUME Reserving
  PROVE  /\ Band(InitialSchedule.cycleTime, Floor, Ceiling)
         /\ InitialTT \in Floor .. Ceiling
         /\ Ceiling <= InitialSchedule.cycleTime
<1>. DEFINE cycle == InitialSchedule.cycleTime
<1>1. cycle \in Nat /\ SameShape(InitialSchedule)
  BY ScheduleAssumption DEF SameShape, Schedule
<1>2. InitialTT \in Nat /\ InitialTT <= cycle
  BY <1>1, ExecutedNotNegative, ScheduleAssumption DEF Reserving, InitialTT
<1>3. Shortest(cycle) \in Nat /\ WholeUs(Shortest(cycle))
  BY <1>1, TruncBounds DEF Shortest, OneTenth, WholeUs
<1>4. NineTenths(cycle) \in Nat /\ NineTenths(cycle) <= cycle
  BY <1>1 DEF NineTenths
<1>5. Floor \in Nat /\ Floor <= Shortest(cycle) /\ Floor <= InitialTT /\ WholeUs(Floor)
  BY <1>2, <1>3 DEF Floor, AtMost, Reserving
<1>6. Ceiling \in Nat /\ NineTenths(cycle) <= Ceiling /\ InitialTT <= Ceiling /\ Ceiling <= cycle
  BY <1>1, <1>2, <1>4 DEF Ceiling, AtLeast
<1>. QED
  BY <1>2, <1>5, <1>6 DEF Band

\* A proposal in the band can be copied.
LEMMA BandCanBeCopied ==
  ASSUME Reserving, ShapeInv, BandInv
  PROVE  ~CopyThrows(newSchedule)
<1>. DEFINE l == newSchedule.controlList
<1>1. Len(l) \in Nat /\ newSchedule.cycleTime = InitialSchedule.cycleTime
  BY DEF ShapeInv, SameShape, Schedule
<1>2. l[1].timeInterval \in Int /\ l[2].timeInterval \in Int
  BY ShapeSlots DEF ShapeInv, TT, BE, TimeInterval
<1>3. /\ Floor <= l[1].timeInterval
      /\ l[1].timeInterval <= Ceiling
      /\ l[2].timeInterval = InitialSchedule.cycleTime - l[1].timeInterval
  BY <1>1 DEF BandInv, ReservedShare, InBand, TT, BE, TimeInterval
<1>4. Floor \in Nat /\ Ceiling \in Nat /\ Ceiling <= InitialSchedule.cycleTime
  BY FloorCeiling DEF Band
<1>5. InitialSchedule.cycleTime \in Nat
  BY ScheduleAssumption DEF Schedule
<1>6. l[1].timeInterval >= 0 /\ l[2].timeInterval >= 0
  BY <1>2, <1>3, <1>4, <1>5
<1>7. ASSUME NEW i \in 1 .. Len(l) PROVE ~(l[i].timeInterval < 0)
  <2>1. i = 1 \/ i = 2 \/ i \in 3 .. Len(l)
    BY <1>1
  <2>2. l[i] \in Entry
    BY DEF ShapeInv, SameShape, Schedule
  <2>3. l[i].timeInterval \in Int
    BY <2>2 DEF Entry
  <2>4. l[i].timeInterval >= 0
    BY <1>6, <2>1 DEF BandInv
  <2>. QED
    BY <2>3, <2>4
<1>. QED
  BY <1>7 DEF CopyThrows

\* A packet keeps the proposal in the band.
LEMMA BandReceive ==
  ASSUME Reserving, ShapeInv, BandInv, NEW delay \in Delays, ReceivePacket(delay)
  PROVE  BandInv'
<1>. DEFINE cycle == InitialSchedule.cycleTime
            cur == TT(currentSchedule)
            nxt == TT(newSchedule)
            used == lastTT - cycleStartAuto
            t == TargetInterval(delay, cycle, cur, nxt, isIncreased, used)
<1>1. /\ UNCHANGED <<currentSchedule, tick, lastChange, failed>>
      /\ isIncreased' = (isIncreased \/ High(delay))
      /\ Started \/ delay <= -lastChange
  BY DEF ReceivePacket
<1>2. delay \in Nat /\ delay > 0 /\ cycle \in Nat /\ isIncreased \in BOOLEAN
  BY DelayAssumption, ScheduleAssumption DEF Schedule, ShapeInv, ScheduleTypeOK
<1>3. Started
  <2>1. ASSUME ~Started PROVE FALSE
    BY <1>1, <1>2, <2>1 DEF BandInv
  <2>. QED
    BY <2>1
<1>4. /\ t \in Int /\ SameShape(newSchedule') /\ TT(newSchedule') = t
      /\ BE(newSchedule') = cycle - t
      /\ \A i \in 3 .. Len(newSchedule.controlList) :
           newSchedule'.controlList[i] = newSchedule.controlList[i]
  BY ReceivedSlot
<1>5. Band(cycle, Floor, Ceiling) /\ Floor \in Nat /\ Ceiling \in Nat
  BY FloorCeiling DEF Band
<1>6. cur \in Int /\ nxt \in Int
  BY CurrentSlot, ShapeSlots DEF ShapeInv
<1>7. cur \in Floor .. Ceiling /\ nxt \in Floor .. Ceiling
  BY <1>3, <1>5, <1>6 DEF BandInv, ReservedShare, InBand
<1>8. ~isIncreased => nxt <= cur \/ nxt <= Shortest(cycle)
  BY <1>3 DEF BandInv
<1>9. /\ t \in Floor .. Ceiling
      /\ ~isIncreased /\ ~High(delay) => t <= cur \/ t <= Shortest(cycle)
  <2>. HIDE DEF cycle, cur, nxt, used
  <2>. QED
    BY <1>2, <1>5, <1>7, <1>8, TargetInBand DEF Reserving
<1>. HIDE DEF t
<1>10. ReservedShare'
  <2>1. newSchedule'.cycleTime = cycle
    BY <1>4 DEF SameShape
  <2>2. InBand(newSchedule)'
    BY <1>4, <1>5, <1>9, <2>1 DEF InBand
  <2>3. Started' /\ InBand(currentSchedule)'
    BY <1>1, <1>3 DEF BandInv, ReservedShare, InBand, Started
  <2>. QED
    BY <2>2, <2>3 DEF ReservedShare
<1>11. \A i \in 3 .. Len(newSchedule'.controlList) :
         newSchedule'.controlList[i].timeInterval >= 0
  <2>1. Len(newSchedule'.controlList) = Len(newSchedule.controlList)
    BY <1>4 DEF SameShape, ShapeInv
  <2>. QED
    BY <1>4, <2>1 DEF BandInv
<1>12. ~isIncreased' => TT(newSchedule') <= TT(currentSchedule') \/ TT(newSchedule') <= Shortest(cycle)
  BY <1>1, <1>4, <1>9
<1>. QED
  BY <1>1, <1>3, <1>10, <1>11, <1>12 DEF BandInv, Started

\* Every step keeps the band.
LEMMA BandStep ==
  ASSUME Reserving, ShapeInv, BandInv, [Next]_vars
  PROVE  BandInv'
<1>. DEFINE Same == UNCHANGED <<currentSchedule, newSchedule, isIncreased, failed>>
<1>1. ASSUME Same, UNCHANGED <<tick, lastChange>> PROVE BandInv'
  BY <1>1 DEF BandInv, ReservedShare, InBand, Started
<1>2. ASSUME NEW delay \in Delays, ReceivePacket(delay) PROVE BandInv'
  BY <1>2, BandReceive
<1>3. CASE TransmitTT
  BY <1>1, <1>3 DEF TransmitTT, gcVars
<1>4. CASE Wait
  <2>1. tick >= 1
    BY <1>4 DEF Wait, Elapse
  <2>2. Started
    BY <2>1 DEF BandInv
  <2>3. Same
    BY <1>4 DEF Wait, Elapse
  <2>. QED
    BY <2>2, <2>3 DEF BandInv, ReservedShare, InBand, Started
<1>5. CASE GUpdateSchedule
  <2>1. UpdateSchedule /\ UNCHANGED <<newSchedule, failed>>
    BY <1>5 DEF GUpdateSchedule, UpdateSchedule
  <2>2. Started'
    BY <2>1, UpdateShape
  <2>3. CASE Loads
    <3>1. currentSchedule' = newSchedule
      BY <2>1, <2>3, UpdateShape
    <3>2. TT(newSchedule) \in Int
      BY ShapeSlots DEF ShapeInv
    <3>. QED
      BY <2>1, <2>2, <3>1, <3>2 DEF BandInv, ReservedShare, InBand
  <2>4. CASE ~Loads
    <3>1. Same /\ Started
      BY <1>5, <2>1, <2>4, UpdateShape
      DEF UpdateSchedule, FlagAfterUpdate, ShapeInv, ScheduleTypeOK
    <3>. QED
      BY <3>1 DEF BandInv, ReservedShare, InBand, Started
  <2>. QED
    BY <2>3, <2>4
<1>6. CASE Tick
  BY <1>1, <1>6 DEF Tick
<1>7. CASE UpdateScheduleThrows
  BY <1>7, BandCanBeCopied DEF UpdateScheduleThrows
<1>8. ASSUME NEW g \in LengthAwareGates, CalculateMaxBit(g) PROVE BandInv'
  BY <1>1, <1>8 DEF CalculateMaxBit
<1>9. CASE UNCHANGED vars
  BY <1>1, <1>9 DEF vars, gcVars
<1>. QED
  BY <1>2, <1>3, <1>4, <1>5, <1>6, <1>7, <1>8, <1>9 DEF Next

\* The initial schedule is in the band.
LEMMA BandInit == Reserving /\ GInit => BandInv
<1>. SUFFICES ASSUME Reserving, GInit PROVE BandInv
  OBVIOUS
<1>. USE DEF GInit, Init
<1>1. newSchedule = InitialSchedule /\ ~Started /\ tick = 0 /\ lastChange = 0 /\ ~failed
  BY DEF Started, Reserving
<1>2. InBand(InitialSchedule)
  BY FloorCeiling DEF InBand, InitialTT, Reserving, Band
<1>3. \A i \in 3 .. Len(InitialSchedule.controlList) :
        InitialSchedule.controlList[i].timeInterval >= 0
  <2>. DEFINE l == InitialSchedule.controlList
  <2>1. l \in Seq(Entry) /\ ~CopyThrows(InitialSchedule)
    BY ScheduleAssumption DEF Schedule
  <2>2. ASSUME NEW i \in 3 .. Len(l) PROVE l[i].timeInterval >= 0
    <3>1. i \in 1 .. Len(l)
      BY <2>1
    <3>2. l[i] \in Entry /\ ~(l[i].timeInterval < 0)
      BY <2>1, <3>1 DEF CopyThrows
    <3>. QED
      BY <3>2 DEF Entry
  <2>. QED
    BY <2>2
<1>. QED
  BY <1>1, <1>2, <1>3 DEF BandInv, ReservedShare

\* For every cycle time, every set of delays, every step length and limit, and
\* with lookaheads or without: the receiver never takes the reserved share of
\* the cycle, and never proposes a schedule the controller cannot copy.
THEOREM ShareStaysReserved ==
  ASSUME Reserving
  PROVE  Spec => [](ReservedShare /\ NeverThrows)
<1>1. GInit => BandInv
  BY BandInit
<1>2. ShapeInv /\ BandInv /\ [Next]_vars => BandInv'
  BY BandStep
<1>3. BandInv => ReservedShare /\ NeverThrows
  BY DEF BandInv, NeverThrows
<1>. QED
  BY <1>1, <1>2, <1>3, ShapeInvariant, PTL DEF Spec

\* The setting of the experiments, with lookaheads or without: nothing leaves its
\* type and no exception ends the simulation.
THEOREM ExperimentNeverFails ==
  ASSUME Reserving
  PROVE  Spec => []AssertionsHold
<1>1. GTypeOK /\ NeverThrows => AssertionsHold
  BY DEF AssertionsHold
<1>. QED
  BY <1>1, TicksAreSound, ShareStaysReserved, PTL

-----------------------------------------------------------------------------
(***************************************************************************)
(* The port with its receiver implements SlotPromise: every step of the    *)
(* controller, the receiver and the transmission selection is an Enlarge,  *)
(* a Shrink or a Load, or changes nothing of the two slots and the flag.   *)
(***************************************************************************)
\* The setting of the experiments: the initial TT slot leaves a tenth of the
\* cycle at both ends alone.
Experiment ==
  /\ Reserving
  /\ WholeMicroseconds
  /\ Shortest(InitialSchedule.cycleTime) <= InitialTT
  /\ InitialTT <= Longest(InitialSchedule.cycleTime)

(***************************************************************************)
(* The promise alone is not inductive.  That a second late packet takes    *)
(* nothing back needs that the first one has not left the distance a cycle *)
(* may see; that an early packet does not enlarge needs the same below.    *)
(***************************************************************************)
PaceInv ==
  Started =>
    IF isIncreased
    THEN WithinIncrease(InitialSchedule.cycleTime, TT(currentSchedule), TT(newSchedule))
    ELSE WithinDecrease(InitialSchedule.cycleTime, TT(currentSchedule), TT(newSchedule))

PromiseInv == ShapeInv /\ EnlargeInv /\ BandInv /\ PaceInv

\* Then the band of the control law lies between the tenths.
LEMMA ExperimentBand ==
  ASSUME Experiment
  PROVE  LET cycle == InitialSchedule.cycleTime
         IN  Floor = Shortest(cycle) /\ Ceiling = NineTenths(cycle)
<1>. DEFINE cycle == InitialSchedule.cycleTime
<1>1. cycle \in Nat /\ InitialTT \in Int
  BY ScheduleAssumption, FloorCeiling DEF Schedule, Experiment, Band
<1>2. Longest(cycle) \in Nat /\ Shortest(cycle) \in Nat /\ Longest(cycle) <= NineTenths(cycle)
      /\ NineTenths(cycle) \in Nat
  BY <1>1, Ends
<1>. QED
  BY <1>1, <1>2 DEF Experiment, Floor, Ceiling, AtMost, AtLeast

\* In that setting the proposal is one of the slots of the promise, and so is
\* the executed slot.
LEMMA SlotsInRange ==
  ASSUME Experiment, PromiseInv
  PROVE  LET cycle == InitialSchedule.cycleTime
         IN  /\ TT(newSchedule) \in Shortest(cycle) .. Longest(cycle)
             /\ WholeUs(TT(newSchedule))
             /\ Started => TT(currentSchedule) \in Shortest(cycle) .. Longest(cycle)
<1>. DEFINE cycle == InitialSchedule.cycleTime
<1>1. cycle \in Nat
  BY ScheduleAssumption DEF Schedule
<1>2. Longest(cycle) \in Nat /\ Shortest(cycle) \in Nat /\ NineTenths(cycle) \in Nat
  BY <1>1, Ends
<1>3. Floor = Shortest(cycle) /\ Ceiling = NineTenths(cycle)
  BY ExperimentBand
<1>4. ASSUME NEW s, SameShape(s), InBand(s), TT(s) >= 0 => WholeUs(TT(s))
      PROVE  TT(s) \in Shortest(cycle) .. Longest(cycle) /\ WholeUs(TT(s))
  <2>1. TT(s) \in Int /\ Shortest(cycle) <= TT(s) /\ TT(s) <= NineTenths(cycle)
    BY <1>3, <1>4, ShapeSlots DEF InBand
  <2>2. TT(s) \in Nat /\ WholeUs(TT(s))
    BY <1>2, <1>4, <2>1
  <2>3. TT(s) <= Longest(cycle)
    BY <1>2, <2>1, <2>2, TruncLargest DEF WholeUs, Longest
  <2>. QED
    BY <1>2, <2>1, <2>2, <2>3
<1>5. SameShape(newSchedule) /\ InBand(newSchedule)
      /\ (TT(newSchedule) >= 0 => WholeUs(TT(newSchedule)))
  BY DEF PromiseInv, ShapeInv, EnlargeInv, BandInv, ReservedShare
<1>6. Started => SameShape(currentSchedule) /\ InBand(currentSchedule)
                 /\ WholeUs(TT(currentSchedule))
  BY DEF PromiseInv, ShapeInv, EnlargeInv, BandInv, ReservedShare
<1>. QED
  BY <1>4, <1>5, <1>6

\* A received packet is an Enlarge, a Shrink or a stutter.
LEMMA ReceiveKeepsPromise ==
  ASSUME Experiment, PromiseInv, NEW delay \in Delays, ReceivePacket(delay)
  PROVE  PaceInv' /\ [Promise!Next]_(Promise!promiseVars)
<1>. DEFINE cycle == InitialSchedule.cycleTime
            cur == TT(currentSchedule)
            nxt == TT(newSchedule)
            used == lastTT - cycleStartAuto
            t == TargetInterval(delay, cycle, cur, nxt, isIncreased, used)
<1>1. /\ UNCHANGED currentSchedule
      /\ isIncreased' = (isIncreased \/ High(delay))
  BY DEF ReceivePacket
<1>2. Started /\ Started'
  <2>1. BandInv'
    BY BandReceive DEF Experiment, PromiseInv
  <2>2. ASSUME ~Started PROVE FALSE
    BY <2>2, DelayAssumption DEF ReceivePacket, PromiseInv, BandInv
  <2>. QED
    BY <1>1, <2>2 DEF Started
<1>3. t \in Int /\ TT(newSchedule') = t
  BY ReceivedSlot DEF PromiseInv
<1>4. /\ cycle \in Nat /\ isIncreased \in BOOLEAN
      /\ Longest(cycle) \in Nat /\ Shortest(cycle) \in Nat
  BY ScheduleAssumption, Ends DEF Schedule, PromiseInv, ShapeInv, ScheduleTypeOK
<1>5. /\ nxt \in Shortest(cycle) .. Longest(cycle) /\ WholeUs(nxt)
      /\ cur \in Shortest(cycle) .. Longest(cycle)
  BY <1>2, SlotsInRange
<1>6. nxt \in Nat /\ cur \in Nat
  BY <1>4, <1>5
<1>7. t \in Shortest(cycle) .. Longest(cycle)
  <2>1. EnlargeInv' /\ ShapeInv' /\ BandInv'
    BY EnlargeStep, ShapeStep, BandReceive DEF Experiment, PromiseInv, Next
  <2>2. t >= 0 => WholeUs(t)
    BY <1>3, <2>1 DEF EnlargeInv
  <2>3. Floor <= t /\ t <= Ceiling
    BY <1>3, <2>1 DEF BandInv, ReservedShare, InBand
  <2>4. Floor = Shortest(cycle) /\ Ceiling = NineTenths(cycle) /\ NineTenths(cycle) \in Nat
    BY <1>4, ExperimentBand, Ends
  <2>. HIDE DEF t
  <2>5. t \in Nat
    BY <1>3, <1>4, <2>3, <2>4
  <2>6. t <= Longest(cycle)
    BY <2>2, <2>3, <2>4, <2>5, TruncLargest DEF WholeUs, Longest
  <2>. QED
    BY <1>3, <2>3, <2>4, <2>6
<1>8. CASE High(delay)
  <2>1. t = TruncUs(IncreasedInterval(cycle, cur, nxt))
    BY <1>8 DEF TargetInterval
  <2>2. WithinIncrease(cycle, cur, t)
    BY <1>4, <1>5, <1>6, <2>1, IncreaseKeeps DEF Experiment, WholeMicroseconds
  <2>3. isIncreased => nxt <= t
    <3>1. isIncreased => WithinIncrease(cycle, cur, nxt)
      BY <1>2 DEF PromiseInv, PaceInv
    <3>2. nxt <= Longest(cycle)
      BY <1>5, <1>4
    <3>. QED
      BY <1>4, <1>5, <1>6, <2>1, <3>1, <3>2, IncreaseKeeps DEF Experiment, WholeMicroseconds
  <2>4. t > cur \/ t = Longest(cycle)
    <3>1. WholeUs(cur)
      BY <1>2 DEF PromiseInv, EnlargeInv
    <3>2. TicksPerUs <= IncreaseStepLength /\ TicksPerUs <= MaxIncreaseStepLength
      BY DEF Experiment, WholeMicroseconds
    <3>3. cycle \in Nat /\ cur \in Nat /\ nxt \in Int
      BY <1>4, <1>6
    <3>. HIDE DEF cycle, cur, nxt, t
    <3>. QED
      BY <2>1, <3>1, <3>2, <3>3, IncreaseEnlarges
  <2>. HIDE DEF t
  <2>5. PaceInv'
    BY <1>1, <1>2, <1>3, <1>8, <2>2 DEF PaceInv
  <2>6. Promise!Enlarge
    <3>1. (IF Started THEN cur ELSE NoSlot) = cur /\ cur # NoSlot
      BY <1>2, <1>6 DEF NoSlot
    <3>2. UNCHANGED (IF Started THEN cur ELSE NoSlot)
      BY <1>1, <1>2
    <3>3. isIncreased' = TRUE
      BY <1>1, <1>8
    <3>4. t \in {u \in Promise!Slots : u > cur \/ u = Longest(cycle)}
      BY <1>7, <2>4 DEF Promise!Slots
    <3>5. isIncreased => t >= nxt
      BY <1>3, <1>6, <2>3
    <3>. QED
      BY <1>3, <3>1, <3>2, <3>3, <3>4, <3>5 DEF Promise!Enlarge
  <2>. QED
    BY <2>5, <2>6 DEF Promise!Next
<1>9. CASE ~High(delay) /\ Low(delay) /\ ~isIncreased
  <2>1. t = TruncUs(DecreasedInterval(cycle, cur, nxt))
    BY <1>9 DEF TargetInterval, Experiment, Reserving
  <2>2. WithinDecrease(cycle, cur, t) /\ t <= nxt
    <3>1. WithinDecrease(cycle, cur, nxt)
      BY <1>2, <1>9 DEF PromiseInv, PaceInv
    <3>2. nxt <= cur \/ nxt <= Shortest(cycle)
      BY <1>2, <1>9 DEF PromiseInv, BandInv
    <3>3. Shortest(cycle) <= nxt
      BY <1>4, <1>5
    <3>. QED
      BY <1>4, <1>6, <2>1, <3>1, <3>2, <3>3, DecreaseKeeps
  <2>. HIDE DEF t
  <2>3. ~isIncreased' /\ (isIncreased' <=> isIncreased)
    BY <1>1, <1>9
  <2>4. PaceInv'
    BY <1>1, <1>2, <1>3, <2>2, <2>3 DEF PaceInv
  <2>5. Promise!Shrink
    BY <1>1, <1>2, <1>3, <1>4, <1>6, <1>7, <1>9, <2>2
    DEF Promise!Shrink, Promise!Slots, NoSlot
  <2>. QED
    BY <2>4, <2>5 DEF Promise!Next
<1>10. CASE ~High(delay) /\ ~(Low(delay) /\ ~isIncreased)
  <2>1. t = TruncUs(nxt)
    BY <1>10 DEF TargetInterval, Experiment, Reserving
  <2>2. t = nxt
    BY <1>5, <1>6, <2>1, TruncWhole
  <2>. HIDE DEF t
  <2>3. isIncreased' = isIncreased
    BY <1>1, <1>4, <1>10
  <2>4. PaceInv'
    BY <1>1, <1>2, <1>3, <2>2, <2>3 DEF PromiseInv, PaceInv
  <2>5. UNCHANGED Promise!promiseVars
    BY <1>1, <1>2, <1>3, <2>2, <2>3 DEF Promise!promiseVars
  <2>. QED
    BY <2>4, <2>5
<1>. QED
  BY <1>8, <1>9, <1>10

\* Every step keeps the promise.
LEMMA PromiseStep ==
  ASSUME Experiment, PromiseInv, [Next]_vars
  PROVE  PaceInv' /\ [Promise!Next]_(Promise!promiseVars)
<1>. DEFINE Same == UNCHANGED <<currentSchedule, newSchedule, isIncreased>>
<1>1. ASSUME Same PROVE PaceInv' /\ UNCHANGED Promise!promiseVars
  BY <1>1 DEF PromiseInv, PaceInv, Started, Promise!promiseVars
<1>2. ASSUME NEW delay \in Delays, ReceivePacket(delay)
      PROVE  PaceInv' /\ [Promise!Next]_(Promise!promiseVars)
  BY <1>2, ReceiveKeepsPromise
<1>3. CASE TransmitTT
  BY <1>1, <1>3 DEF TransmitTT, gcVars
<1>4. CASE Wait
  BY <1>1, <1>4 DEF Wait, Elapse
<1>5. CASE GUpdateSchedule
  <2>1. UpdateSchedule /\ UNCHANGED newSchedule
    BY <1>5 DEF GUpdateSchedule, UpdateSchedule
  <2>2. CASE Loads
    <3>1. currentSchedule' = newSchedule /\ Started'
      BY <2>1, <2>2, UpdateShape DEF PromiseInv
    <3>2. isIncreased' = FALSE
      BY <2>1, <2>2 DEF UpdateSchedule, FlagAfterUpdate
    <3>3. Promise!Load
      BY <2>1, <3>1, <3>2 DEF Promise!Load
    <3>4. PaceInv'
      <4>. DEFINE nxt == TT(newSchedule)
      <4>1. nxt \in Nat
        <5>1. Shortest(InitialSchedule.cycleTime) \in Nat
              /\ Longest(InitialSchedule.cycleTime) \in Nat
          BY ScheduleAssumption, Ends DEF Schedule
        <5>. QED
          BY <5>1, SlotsInRange
      <4>. HIDE DEF nxt
      <4>2. TruncUs(nxt - MaxDecreaseStepLength) <= nxt
        <5>. DEFINE x == nxt - MaxDecreaseStepLength
        <5>1. x \in Int /\ x < nxt
          BY <4>1, ParameterAssumption
        <5>. HIDE DEF x
        <5>2. TruncUs(x) <= nxt
          BY <4>1, <5>1, TruncNegative, TruncBounds
        <5>. QED
          BY <5>2 DEF x
      <4>. QED
        BY <2>1, <3>1, <3>2, <4>2 DEF PaceInv, WithinDecrease, nxt
    <3>. QED
      BY <3>3, <3>4 DEF Promise!Next
  <2>3. CASE ~Loads
    <3>1. Same
      BY <1>5, <2>1, <2>3, UpdateShape
      DEF UpdateSchedule, FlagAfterUpdate, PromiseInv, ShapeInv, ScheduleTypeOK
    <3>. QED
      BY <1>1, <3>1
  <2>. QED
    BY <2>2, <2>3
<1>6. CASE Tick
  BY <1>1, <1>6 DEF Tick
<1>7. CASE UpdateScheduleThrows
  BY <1>7, BandCanBeCopied DEF UpdateScheduleThrows, Experiment, PromiseInv
<1>8. ASSUME NEW g \in LengthAwareGates, CalculateMaxBit(g)
      PROVE  PaceInv' /\ [Promise!Next]_(Promise!promiseVars)
  BY <1>1, <1>8 DEF CalculateMaxBit
<1>9. CASE UNCHANGED vars
  BY <1>1, <1>9 DEF vars, gcVars
<1>. QED
  BY <1>2, <1>3, <1>4, <1>5, <1>6, <1>7, <1>8, <1>9 DEF Next

\* The initial states keep the promise.
LEMMA PromiseInit == Experiment /\ GInit => EnlargeInv /\ BandInv /\ PaceInv /\ Promise!Init
<1>. SUFFICES ASSUME Experiment, GInit PROVE EnlargeInv /\ BandInv /\ PaceInv /\ Promise!Init
  OBVIOUS
<1>1. ~Started /\ newSchedule = InitialSchedule /\ isIncreased = FALSE
  BY DEF GInit, Init, Started
<1>2. EnlargeInv
  BY <1>1 DEF GInit, EnlargeInv, OverloadEnlarges, Experiment, WholeMicroseconds, InitialTT
<1>3. BandInv
  BY BandInit DEF Experiment
<1>4. PaceInv
  BY <1>1 DEF PaceInv
<1>5. Promise!Init
  <2>1. ShapeInv
    BY ShapeInit
  <2>2. TT(newSchedule) \in Shortest(InitialSchedule.cycleTime) .. Longest(InitialSchedule.cycleTime)
    BY <1>2, <1>3, <1>4, <2>1, SlotsInRange DEF PromiseInv
  <2>. QED
    BY <1>1, <2>2 DEF Promise!Init, Promise!Slots, NoSlot
<1>. QED
  BY <1>2, <1>3, <1>4, <1>5

\* For every schedule, every set of delays and every step length and limit of
\* the experiments' setting, the detailed model implements SlotPromise: a late
\* packet enlarges the slot that is executed next, nothing takes that back
\* before it is executed, and what is executed is what was proposed last.
THEOREM PromiseIsKept ==
  ASSUME Experiment
  PROVE  Spec => KeepsPromise
<1>1. GInit => EnlargeInv /\ BandInv /\ PaceInv /\ Promise!Init
  BY PromiseInit
<1>2. ShapeInv /\ EnlargeInv /\ BandInv /\ PaceInv /\ [Next]_vars
        => EnlargeInv' /\ BandInv' /\ PaceInv'
  BY EnlargeStep, BandStep, PromiseStep DEF Experiment, PromiseInv
<1>3. ShapeInv /\ EnlargeInv /\ BandInv /\ PaceInv /\ [Next]_vars
        => [Promise!Next]_(Promise!promiseVars)
  BY PromiseStep DEF PromiseInv
<1>. QED
  BY <1>1, <1>2, <1>3, ShapeInvariant, PTL DEF Spec, KeepsPromise, Promise!Spec

-----------------------------------------------------------------------------
\* The slots of the promise are numbers.
LEMMA SlotsAreNumbers ==
  ASSUME Experiment, PromiseInv
  PROVE  LET cycle == InitialSchedule.cycleTime
             cur == TT(currentSchedule)
             nxt == TT(newSchedule)
         IN  /\ cycle \in Nat /\ nxt \in Nat /\ nxt <= Longest(cycle)
             /\ Started => /\ cur \in Nat /\ WholeUs(cur)
                           /\ Shortest(cycle) <= cur /\ cur <= Longest(cycle)
<1>. DEFINE cycle == InitialSchedule.cycleTime
<1>1. cycle \in Nat
  BY ScheduleAssumption DEF Schedule
<1>2. Shortest(cycle) \in Nat /\ Longest(cycle) \in Nat
  BY <1>1, Ends
<1>3. Started => WholeUs(TT(currentSchedule))
  BY DEF PromiseInv, EnlargeInv
<1>. QED
  BY <1>1, <1>2, <1>3, SlotsInRange

\* How far the proposal is from the executed slot: what SlotChangeBounded says
\* once the proposal is executed.
BoundInv ==
  Started =>
    /\ TT(newSchedule) - TT(currentSchedule) <= MaxIncreaseStepLength + IncreaseStepLength
    /\ TT(currentSchedule) - TT(newSchedule) <= MaxDecreaseStepLength + DecreaseStepLength

\* Decreases are made in whole microseconds too.
WholeDecreases == WholeUs(DecreaseStepLength) /\ WholeUs(MaxDecreaseStepLength)

\* A packet keeps the distance.
LEMMA ReceiveKeepsBound ==
  ASSUME Experiment, WholeDecreases, PromiseInv, BoundInv,
         NEW delay \in Delays, ReceivePacket(delay)
  PROVE  BoundInv'
<1>. DEFINE cycle == InitialSchedule.cycleTime
            cur == TT(currentSchedule)
            nxt == TT(newSchedule)
            used == lastTT - cycleStartAuto
            t == TargetInterval(delay, cycle, cur, nxt, isIncreased, used)
            up == MaxIncreaseStepLength + IncreaseStepLength
            down == MaxDecreaseStepLength + DecreaseStepLength
<1>1. UNCHANGED currentSchedule
  BY DEF ReceivePacket
<1>2. SUFFICES ASSUME Started PROVE t - cur <= up /\ cur - t <= down
  BY <1>1, ReceivedSlot DEF BoundInv, PromiseInv, Started
<1>3. up \in Nat /\ down \in Nat
  BY ParameterAssumption
<1>4. /\ cycle \in Nat /\ nxt \in Nat /\ cur \in Nat /\ WholeUs(cur)
      /\ cur <= Longest(cycle) /\ Shortest(cycle) <= cur
  BY <1>2, SlotsAreNumbers
<1>5. WholeUs(nxt) /\ isIncreased \in BOOLEAN /\ Longest(cycle) \in Nat /\ Shortest(cycle) \in Nat
  BY <1>4, SlotsInRange, Ends DEF PromiseInv, ShapeInv, ScheduleTypeOK
<1>6. nxt - cur <= up /\ cur - nxt <= down
  BY <1>2 DEF BoundInv
<1>7. /\ isIncreased => WithinIncrease(cycle, cur, nxt)
      /\ ~isIncreased => WithinDecrease(cycle, cur, nxt)
  BY <1>2 DEF PromiseInv, PaceInv
<1>8. ~isIncreased => nxt <= cur
  <2>1. ~isIncreased => nxt <= cur \/ nxt <= Shortest(cycle)
    BY <1>2 DEF PromiseInv, BandInv
  <2>. QED
    BY <1>4, <1>5, <2>1
<1>9. CASE High(delay)
  <2>1. t = TruncUs(IncreasedInterval(cycle, cur, nxt))
    BY <1>9 DEF TargetInterval
  <2>2. t \in Nat /\ (t > cur \/ t = Longest(cycle))
    <3>1. TicksPerUs <= IncreaseStepLength /\ TicksPerUs <= MaxIncreaseStepLength
      BY DEF Experiment, WholeMicroseconds
    <3>. HIDE DEF cycle, cur, nxt, t
    <3>. QED
      BY <1>4, <2>1, <3>1, IncreaseEnlarges
  <2>3. t <= cur + up
    <3>1. nxt <= cur + MaxIncreaseStepLength + IncreaseStepLength
      BY <1>4, <1>6, ParameterAssumption
    <3>2. WithinIncrease(cycle, cur, nxt) \/ nxt <= cur
      BY <1>5, <1>7, <1>8
    <3>. HIDE DEF cycle, cur, nxt, t
    <3>3. t <= cur + MaxIncreaseStepLength + IncreaseStepLength
      BY <1>4, <2>1, <3>1, <3>2, IncreaseBounded
    <3>. QED
      BY <1>4, <3>3, ParameterAssumption
  <2>. HIDE DEF t, cycle, cur, up, down
  <2>. QED
    BY <1>3, <1>4, <2>2, <2>3
<1>10. CASE ~High(delay) /\ Low(delay) /\ ~isIncreased
  <2>1. t = TruncUs(DecreasedInterval(cycle, cur, nxt))
    BY <1>10 DEF TargetInterval, Experiment, Reserving
  <2>2. WithinDecrease(cycle, cur, nxt) /\ nxt <= cur
    BY <1>7, <1>8, <1>10
  <2>3. cur - t <= down
    <3>. HIDE DEF cycle, cur, nxt, t
    <3>. QED
      BY <1>4, <1>5, <1>6, <2>1, <2>2, DecreaseBounded DEF WholeDecreases
  <2>4. t \in Int /\ t <= nxt
    <3>1. t \in Int
      BY ReceivedSlot DEF PromiseInv
    <3>2. Shortest(cycle) <= nxt
      BY <1>5, SlotsInRange
    <3>. HIDE DEF cycle, cur, nxt, t
    <3>. QED
      BY <1>4, <2>1, <2>2, <3>1, <3>2, DecreaseKeeps
  <2>. HIDE DEF t, cur, nxt, up, down
  <2>. QED
    BY <1>3, <1>4, <2>2, <2>3, <2>4
<1>11. CASE ~High(delay) /\ ~(Low(delay) /\ ~isIncreased)
  <2>1. t = TruncUs(nxt)
    BY <1>11 DEF TargetInterval, Experiment, Reserving
  <2>2. t = nxt
    BY <1>4, <1>5, <2>1, TruncWhole
  <2>. QED
    BY <1>6, <2>2
<1>. QED
  BY <1>9, <1>10, <1>11

\* Every step keeps the distance, and an update changes the executed slot by it.
LEMMA BoundStep ==
  ASSUME Experiment, WholeDecreases, PromiseInv, BoundInv, [Next]_vars
  PROVE  /\ BoundInv'
         /\ Started => /\ SlotChange <= MaxIncreaseStepLength + IncreaseStepLength
                       /\ -SlotChange <= MaxDecreaseStepLength + DecreaseStepLength
<1>. DEFINE Changes == Started => /\ SlotChange <= MaxIncreaseStepLength + IncreaseStepLength
                                  /\ -SlotChange <= MaxDecreaseStepLength + DecreaseStepLength
<1>1. ASSUME UNCHANGED currentSchedule PROVE Changes
  <2>1. Started => TT(currentSchedule) \in Nat
    BY SlotsAreNumbers
  <2>2. TT(currentSchedule') = TT(currentSchedule)
    BY <1>1
  <2>. QED
    BY <2>1, <2>2, ParameterAssumption DEF SlotChange
<1>2. ASSUME UNCHANGED <<currentSchedule, newSchedule>> PROVE BoundInv' /\ Changes
  BY <1>1, <1>2 DEF BoundInv, Started
<1>3. ASSUME NEW delay \in Delays, ReceivePacket(delay) PROVE BoundInv' /\ Changes
  BY <1>1, <1>3, ReceiveKeepsBound DEF ReceivePacket
<1>4. CASE TransmitTT
  BY <1>2, <1>4 DEF TransmitTT, gcVars
<1>5. CASE Wait
  BY <1>2, <1>5 DEF Wait, Elapse
<1>6. CASE GUpdateSchedule
  <2>1. UpdateSchedule /\ UNCHANGED newSchedule
    BY <1>6 DEF GUpdateSchedule, UpdateSchedule
  <2>2. CASE Loads
    <3>1. currentSchedule' = newSchedule
      BY <2>1, <2>2, UpdateShape DEF PromiseInv
    <3>2. TT(newSchedule) \in Nat /\ (Started => TT(currentSchedule) \in Nat)
      BY SlotsAreNumbers
    <3>3. BoundInv'
      BY <2>1, <3>1, <3>2, ParameterAssumption DEF BoundInv
    <3>4. Changes
      BY <3>1, <3>2 DEF BoundInv, SlotChange
    <3>. QED
      BY <3>3, <3>4
  <2>3. CASE ~Loads
    <3>1. UNCHANGED <<currentSchedule, newSchedule>>
      BY <2>1, <2>3, UpdateShape DEF PromiseInv
    <3>. QED
      BY <1>2, <3>1
  <2>. QED
    BY <2>2, <2>3
<1>7. CASE Tick
  BY <1>2, <1>7 DEF Tick
<1>8. CASE UpdateScheduleThrows
  BY <1>8, BandCanBeCopied DEF UpdateScheduleThrows, Experiment, PromiseInv
<1>9. ASSUME NEW g \in LengthAwareGates, CalculateMaxBit(g) PROVE BoundInv' /\ Changes
  BY <1>2, <1>9 DEF CalculateMaxBit
<1>10. CASE UNCHANGED vars
  BY <1>2, <1>10 DEF vars, gcVars
<1>. QED
  BY <1>3, <1>4, <1>5, <1>6, <1>7, <1>8, <1>9, <1>10 DEF Next

\* However many packets a cycle sees, from one cycle to the next the TT slot
\* changes by at most the maximum of a cycle and one step: receivePacket()
\* clamps to nine tenths and to a tenth before it looks at the maximum.
THEOREM SlotChangesAreBounded ==
  ASSUME Experiment, WholeDecreases
  PROVE  Spec => SlotChangeBounded
<1>1. GInit => EnlargeInv /\ BandInv /\ PaceInv /\ BoundInv
  <2>1. GInit => ~Started
    BY DEF GInit, Init, Started
  <2>. QED
    BY <2>1, PromiseInit DEF PaceInv, BoundInv
<1>2. ShapeInv /\ EnlargeInv /\ BandInv /\ PaceInv /\ BoundInv /\ [Next]_vars
        => EnlargeInv' /\ BandInv' /\ PaceInv' /\ BoundInv'
  BY EnlargeStep, BandStep, PromiseStep, BoundStep DEF Experiment, PromiseInv
<1>3. ShapeInv /\ EnlargeInv /\ BandInv /\ PaceInv /\ BoundInv /\ [Next]_vars
        => (Started => /\ SlotChange <= MaxIncreaseStepLength + IncreaseStepLength
                       /\ -SlotChange <= MaxDecreaseStepLength + DecreaseStepLength)
  BY BoundStep DEF PromiseInv
<1>. QED
  BY <1>1, <1>2, <1>3, ShapeInvariant, PTL DEF Spec, SlotChangeBounded
=============================================================================
