--------------------------- MODULE IntervalControl ---------------------------
(***************************************************************************)
(* The control law of the adaptive receivers: receivePacket() of           *)
(* VlanEtherTrafGenGCL and of VlanEtherTrafGenGCL2 compute the next length *)
(* of the TT entry from the delay of a TT packet, from the length the      *)
(* controller executes now (current) and from the length already proposed  *)
(* for the next cycle (next).  The BE entry gets the rest of the cycle.    *)
(*                                                                         *)
(* Times count clock ticks.  A factor 0.9, 0.1 or 1.1 may leave a fraction *)
(* of a tick; trunc(SIMTIME_US) drops it, so the fraction is dropped here  *)
(* at once and comparisons with it are multiplied out.                     *)
(***************************************************************************)
EXTENDS Integers

CONSTANTS
  TicksPerUs,             \* clock ticks in a microsecond
  IncreaseStepLength,     \* change one packet may cause
  DecreaseStepLength,
  MaxIncreaseStepLength,  \* change a cycle may see
  MaxDecreaseStepLength,
  UpperLimitTime,         \* a higher delay enlarges the TT entry
  LowerLimitTime,         \* a delay up to it shrinks the TT entry
  AutoIntervalDecrease    \* shrink by the last TT transmission instead

\* What initialize() accepts.
ASSUME ParameterAssumption ==
  /\ TicksPerUs \in Nat \ {0}
  /\ IncreaseStepLength \in Nat \ {0}
  /\ DecreaseStepLength \in Nat \ {0}
  /\ MaxIncreaseStepLength \in Nat \ {0}
  /\ MaxDecreaseStepLength \in Nat \ {0}
  /\ UpperLimitTime \in Nat \ {0}
  /\ LowerLimitTime \in Nat \ {0}
  /\ LowerLimitTime <= UpperLimitTime
  /\ AutoIntervalDecrease \in BOOLEAN

\* SimTime::trunc(SIMTIME_US): towards zero, to a whole microsecond.
TruncUs(t) ==
  IF t >= 0 THEN (t \div TicksPerUs) * TicksPerUs
            ELSE -(((-t) \div TicksPerUs) * TicksPerUs)

\* SimTime * 0.9, SimTime * 0.1 and SimTime * 1.1
NineTenths(t) == (9 * t) \div 10
OneTenth(t) == t \div 10
ElevenTenths(t) == IF t >= 0 THEN (11 * t) \div 10 ELSE -((11 * (-t)) \div 10)

\* The lengths the two ends of the cycle leave to the TT entry.
Longest(cycle) == TruncUs(NineTenths(cycle))
Shortest(cycle) == TruncUs(OneTenth(cycle))

High(delay) == delay > UpperLimitTime
Low(delay) == delay <= LowerLimitTime

\* Mutants: what the cycle has taken away is not given back; the result is
\* not held below 90%; an increase that would reach 90% is refused.
IncreasedFromNext(cycle, current, next) ==
  LET target == next + IncreaseStepLength
  IN  IF 10 * target >= 9 * cycle THEN NineTenths(cycle)
      ELSE IF target - current >= MaxIncreaseStepLength
           THEN current + MaxIncreaseStepLength
           ELSE target

IncreasedUnclamped(cycle, current, next) ==
  LET target == (IF next < current THEN current ELSE next) + IncreaseStepLength
  IN  IF target - current >= MaxIncreaseStepLength
      THEN current + MaxIncreaseStepLength
      ELSE target

IncreaseRefusedAtTop(cycle, current, next) ==
  IF 10 * (next + IncreaseStepLength) >= 9 * cycle
  THEN next
  ELSE next + IncreaseStepLength

\* A delay above the upper limit: what the cycle has taken away so far is
\* given back first.
IncreasedInterval(cycle, current, next) ==
  LET target == (IF next < current THEN current ELSE next) + IncreaseStepLength
  IN  IF 10 * target >= 9 * cycle THEN NineTenths(cycle)
      ELSE IF \/ target - current >= MaxIncreaseStepLength
              \/ current - target >= MaxIncreaseStepLength
           THEN current + MaxIncreaseStepLength
           ELSE target

\* Mutants: the result is not held above 10%; the maximum of a cycle is not
\* looked at.
DecreasedUnclamped(cycle, current, next) ==
  LET target == next - DecreaseStepLength
  IN  IF current - target >= MaxDecreaseStepLength
      THEN current - MaxDecreaseStepLength
      ELSE target

DecreasedUnlimited(cycle, current, next) ==
  LET target == next - DecreaseStepLength
  IN  IF 10 * target <= cycle THEN OneTenth(cycle) ELSE target

\* A delay up to the lower limit.
DecreasedInterval(cycle, current, next) ==
  LET target == next - DecreaseStepLength
  IN  IF 10 * target <= cycle THEN OneTenth(cycle)
      ELSE IF \/ target - current >= MaxDecreaseStepLength
              \/ current - target >= MaxDecreaseStepLength
           THEN current - MaxDecreaseStepLength
           ELSE target

\* Mutant: isIncreased is not looked at.
TargetIgnoresIncrease(delay, cycle, current, next, increased, used) ==
  TruncUs(
    IF High(delay) THEN IncreasedInterval(cycle, current, next)
    ELSE IF AutoIntervalDecrease THEN ElevenTenths(used)
    ELSE IF Low(delay) THEN DecreasedInterval(cycle, current, next)
    ELSE next)

\* The length of the TT entry after a TT packet with this delay.  used is the
\* time from the start of the cycle to the last TT transmission.
TargetInterval(delay, cycle, current, next, increased, used) ==
  TruncUs(
    IF High(delay) THEN IncreasedInterval(cycle, current, next)
    ELSE IF AutoIntervalDecrease /\ ~increased THEN ElevenTenths(used)
    ELSE IF Low(delay) /\ ~increased THEN DecreasedInterval(cycle, current, next)
    ELSE next)
=============================================================================
