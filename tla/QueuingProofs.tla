---------------------------- MODULE QueuingProofs ----------------------------
(***************************************************************************)
(* What holds in the queuing network of every port, with any number of     *)
(* classes, any control list and frames of any lengths.                    *)
(***************************************************************************)
EXTENDS Queuing, FiniteSetTheorems, SequenceTheorems, WellFoundedInduction, TLAPS

-----------------------------------------------------------------------------
\* Numbers

\* A set of numbers has a least one.
LEMMA LeastNumber ==
  ASSUME NEW T, T \subseteq Nat, T # {}
  PROVE  \E n \in T : \A m \in T : n <= m
<1>. DEFINE R == OpToRel(<, Nat)
<1>1. IsWellFoundedOn(R, Nat)
  BY NatLessThanWellFounded
<1>2. PICK n \in T : \A m \in T : ~(<<m, n>> \in R)
  BY <1>1, WFMin
<1>3. \A m \in T : ~(m < n)
  BY <1>2 DEF OpToRel
<1>. QED
  BY <1>3

\* A set with 0 and with the successors of its numbers has all numbers.
LEMMA SetInduction ==
  ASSUME NEW T, 0 \in T, \A n \in Nat : n \in T => n + 1 \in T
  PROVE  Nat \subseteq T
<1>1. SUFFICES ASSUME Nat \ T # {} PROVE FALSE
  OBVIOUS
<1>2. PICK n \in Nat \ T : \A m \in Nat \ T : n <= m
  BY <1>1, LeastNumber
<1>3. n # 0 /\ n - 1 \in Nat
  OBVIOUS
<1>4. n - 1 \in T
  BY <1>2, <1>3
<1>. QED
  BY <1>3, <1>4

\* Min and Max are what they are called.
LEMMA MinIs ==
  ASSUME NEW T, T \subseteq Nat, T # {}
  PROVE  Min(T) \in T /\ \A n \in T : Min(T) <= n
BY LeastNumber DEF Min

LEMMA MinOfTwo ==
  ASSUME NEW a \in Int, NEW b \in Int
  PROVE  Min({a, b}) \in {a, b} /\ Min({a, b}) <= a /\ Min({a, b}) <= b
<1>1. \E n \in {a, b} : \A m \in {a, b} : n <= m
  BY a <= b \/ b <= a
<1>. QED
  BY <1>1 DEF Min

LEMMA MaxIs ==
  ASSUME NEW T, T \subseteq Nat, T # {}, IsFiniteSet(T)
  PROVE  Max(T) \in T /\ \A n \in T : n <= Max(T)
<1>. DEFINE HasMax(S) == \E n \in S : \A m \in S : n >= m
            C == {n \in Nat : \A S \in SUBSET Nat :
                    IsFiniteSet(S) /\ S # {} /\ Cardinality(S) = n => HasMax(S)}
<1>1. 0 \in C
  BY FS_EmptySet
<1>2. ASSUME NEW n \in Nat, n \in C PROVE n + 1 \in C
  <2>. SUFFICES ASSUME NEW S \in SUBSET Nat, IsFiniteSet(S), S # {}, Cardinality(S) = n + 1
                PROVE  HasMax(S)
    OBVIOUS
  <2>1. PICK x \in S : TRUE
    OBVIOUS
  <2>2. IsFiniteSet(S \ {x}) /\ Cardinality(S \ {x}) = n
    <3>1. Cardinality(S \ {x}) = Cardinality(S) - 1
      BY <2>1, FS_RemoveElement
    <3>. QED
      BY <3>1, FS_RemoveElement
  <2>3. CASE S \ {x} = {}
    <3>1. \A m \in S : x >= m
      BY <2>1, <2>3
    <3>. QED
      BY <2>1, <3>1
  <2>4. CASE S \ {x} # {}
    <3>1. PICK y \in S \ {x} : \A m \in S \ {x} : y >= m
      BY <1>2, <2>2, <2>4
    <3>2. x \in Nat /\ y \in Nat /\ (x >= y \/ y >= x)
      BY <2>1
    <3>3. CASE x >= y
      <4>1. \A m \in S : x >= m
        BY <3>1, <3>2, <3>3
      <4>. QED
        BY <2>1, <4>1
    <3>4. CASE y >= x
      <4>1. \A m \in S : y >= m
        BY <3>1, <3>2, <3>4
      <4>. QED
        BY <4>1
    <3>. QED
      BY <3>2, <3>3, <3>4
  <2>. QED
    BY <2>3, <2>4
<1>3. Nat \subseteq C
  <2>. HIDE DEF C
  <2>. QED
    BY <1>1, <1>2, SetInduction
<1>4. Cardinality(T) \in C
  BY <1>3, FS_CardinalityType
<1>5. \E n \in T : \A m \in T : n >= m
  BY <1>4
<1>. QED
  BY <1>5 DEF Max

-----------------------------------------------------------------------------
\* The event queue

\* What is in r is in s, in the same order, but what is m.
InOrder(r, s, m) ==
  \A i, j \in 1 .. Len(r) : i < j =>
    r[j] = m \/ \E a, b \in 1 .. Len(s) : a < b /\ r[i] = s[a] /\ r[j] = s[b]

\* A message that is scheduled anew is queued once, as the last of all.
LEMMA RescheduleIs ==
  ASSUME NEW M, NEW s \in Seq(M), NEW m \in M, IsInjective(s)
  PROVE  /\ Reschedule(s, m) \in Seq(M)
         /\ IsInjective(Reschedule(s, m))
         /\ Range(Reschedule(s, m)) = Range(s) \cup {m}
         /\ Reschedule(s, m) # <<>>
         /\ InOrder(Reschedule(s, m), s, m)
<1>. DEFINE I == {i \in 1 .. Len(s) : s[i] = m}
            r == RemoveFirst(s, m)
<1>1. Len(s) \in Nat /\ DOMAIN s = 1 .. Len(s) /\ \A i \in 1 .. Len(s) : s[i] \in M
  OBVIOUS
<1>2. r \in Seq(M) /\ IsInjective(r) /\ Range(r) = Range(s) \ {m} /\ InOrder(r, s, m)
  <2>1. CASE I = {}
    <3>1. r = s
      BY <2>1 DEF RemoveFirst
    <3>. QED
      BY <2>1, <3>1, <1>1 DEF Range, InOrder
  <2>2. CASE I # {}
    <3>. DEFINE k == Min(I)
    <3>1. k \in 1 .. Len(s) /\ s[k] = m
      <4>1. I \subseteq Nat /\ I # {}
        BY <2>2
      <4>2. k \in I
        BY <4>1, MinIs
      <4>. QED
        BY <4>2
    <3>2. r = SubSeq(s, 1, k - 1) \o SubSeq(s, k + 1, Len(s))
      BY <2>2, Zenon DEF RemoveFirst, RemoveAt, SelectInSeq
    <3>. HIDE DEF k, r
    <3>. DEFINE front == SubSeq(s, 1, k - 1)  rest == SubSeq(s, k + 1, Len(s))
    <3>3. /\ front \in Seq(M) /\ Len(front) = k - 1
          /\ \A i \in 1 .. k - 1 : front[i] = s[i]
      BY <1>1, <3>1
    <3>4. /\ rest \in Seq(M) /\ Len(rest) = Len(s) - k
          /\ \A i \in 1 .. Len(s) - k : rest[i] = s[k + i]
      <4>1. k + 1 \in Int /\ Len(s) \in Int /\ \A i \in k + 1 .. Len(s) : s[i] \in M
        BY <1>1, <3>1
      <4>2. /\ rest \in Seq(M) /\ Len(rest) = (IF k + 1 <= Len(s) THEN Len(s) - (k + 1) + 1 ELSE 0)
            /\ \A i \in 1 .. Len(s) - (k + 1) + 1 : rest[i] = s[(k + 1) + i - 1]
        BY <4>1, SubSeqProperties
      <4>3. Len(s) - (k + 1) + 1 = Len(s) - k /\ \A i \in Int : (k + 1) + i - 1 = k + i
        BY <1>1, <3>1
      <4>. HIDE DEF rest
      <4>4. \A i \in 1 .. Len(s) - k : rest[i] = s[k + i]
        <5>. SUFFICES ASSUME NEW i \in 1 .. Len(s) - k PROVE rest[i] = s[k + i]
          OBVIOUS
        <5>1. i \in 1 .. Len(s) - (k + 1) + 1 /\ (k + 1) + i - 1 = k + i
          BY <4>3
        <5>2. rest[i] = s[(k + 1) + i - 1]
          BY <4>2, <5>1
        <5>. QED
          BY <5>1, <5>2
      <4>5. Len(rest) = Len(s) - k
        <5>1. Len(s) \in Int /\ k \in Int /\ k <= Len(s)
          BY <1>1, <3>1
        <5>. QED
          BY <5>1, <4>2
      <4>. QED
        BY <4>2, <4>4, <4>5
    <3>. HIDE DEF front, rest
    <3>5. /\ r \in Seq(M) /\ Len(r) = Len(s) - 1
          /\ \A i \in 1 .. Len(s) - 1 : r[i] = IF i < k THEN s[i] ELSE s[i + 1]
      <4>1. r = front \o rest
        BY <3>2 DEF front, rest
      <4>2. r \in Seq(M) /\ Len(r) = Len(front) + Len(rest)
        BY <4>1, <3>3, <3>4, ConcatProperties
      <4>3. \A i \in 1 .. Len(s) - 1 : r[i] = IF i < k THEN s[i] ELSE s[i + 1]
        <5>. SUFFICES ASSUME NEW i \in 1 .. Len(s) - 1
                      PROVE  r[i] = IF i < k THEN s[i] ELSE s[i + 1]
          OBVIOUS
        <5>1. r[i] = IF i <= Len(front) THEN front[i] ELSE rest[i - Len(front)]
          BY <4>1, <3>3, <3>4, <1>1, <3>1
        <5>2. CASE i < k
          BY <5>1, <5>2, <3>3, <3>1, <1>1
        <5>3. CASE ~(i < k)
          <6>1. i - (k - 1) \in 1 .. Len(s) - k /\ k + (i - (k - 1)) = i + 1
            BY <5>3, <3>1, <1>1
          <6>. QED
            BY <5>1, <5>3, <6>1, <3>3, <3>4, <3>1, <1>1
        <5>. QED
          BY <5>2, <5>3
      <4>. QED
        BY <4>2, <4>3, <3>3, <3>4, <3>1, <1>1
    <3>6. DOMAIN r = 1 .. Len(s) - 1
      BY <3>5
    <3>7. IsInjective(r)
      <4>. SUFFICES ASSUME NEW i \in 1 .. Len(s) - 1, NEW j \in 1 .. Len(s) - 1, r[i] = r[j]
                    PROVE  i = j
        BY <3>6 DEF IsInjective
      <4>. DEFINE o(n) == IF n < k THEN n ELSE n + 1
      <4>1. o(i) \in DOMAIN s /\ o(j) \in DOMAIN s /\ s[o(i)] = s[o(j)]
        <5>1. ASSUME NEW n \in 1 .. Len(s) - 1
              PROVE  o(n) \in 1 .. Len(s) /\ r[n] = s[o(n)]
          <6>1. o(n) \in 1 .. Len(s)
            BY <1>1
          <6>2. r[n] = s[o(n)]
            BY <3>5
          <6>. QED
            BY <6>1, <6>2
        <5>. HIDE DEF o
        <5>2. r[i] = s[o(i)] /\ r[j] = s[o(j)] /\ o(i) \in 1 .. Len(s) /\ o(j) \in 1 .. Len(s)
          BY <5>1
        <5>3. DOMAIN s = 1 .. Len(s)
          BY <1>1
        <5>. QED
          BY <5>2, <5>3
      <4>2. o(i) = o(j)
        BY <4>1 DEF IsInjective
      <4>. QED
        BY <4>2, <3>1, <1>1
    <3>8. Range(r) = Range(s) \ {m}
      <4>1. ASSUME NEW i \in 1 .. Len(s) - 1 PROVE r[i] \in Range(s) \ {m}
        <5>. DEFINE n == IF i < k THEN i ELSE i + 1
        <5>1. n \in DOMAIN s /\ n # k /\ k \in DOMAIN s /\ r[i] = s[n]
          BY <3>1, <3>5, <1>1
        <5>2. s[n] # s[k]
          BY <5>1 DEF IsInjective
        <5>. QED
          BY <5>1, <5>2, <3>1 DEF Range
      <4>2. ASSUME NEW n \in 1 .. Len(s), s[n] # m PROVE \E i \in 1 .. Len(s) - 1 : r[i] = s[n]
        <5>1. n # k
          BY <4>2, <3>1
        <5>2. CASE n < k
          BY <5>2, <3>5, <3>1, <1>1
        <5>3. CASE n > k
          <6>1. n - 1 \in 1 .. Len(s) - 1 /\ ~(n - 1 < k) /\ (n - 1) + 1 = n
            BY <5>3, <3>1, <1>1
          <6>2. r[n - 1] = s[n]
            BY <6>1, <3>5
          <6>. QED
            BY <6>1, <6>2
        <5>. QED
          BY <5>1, <5>2, <5>3, <3>1, <1>1
      <4>3. ASSUME NEW x \in Range(r) PROVE x \in Range(s) \ {m}
        BY <4>1, <3>6 DEF Range
      <4>4. ASSUME NEW x \in Range(s) \ {m} PROVE x \in Range(r)
        <5>1. PICK n \in 1 .. Len(s) : s[n] = x
          BY <1>1 DEF Range
        <5>2. PICK i \in 1 .. Len(s) - 1 : r[i] = x
          BY <5>1, <4>2
        <5>. QED
          BY <5>2, <3>6 DEF Range
      <4>. QED
        BY <4>3, <4>4
    <3>9. InOrder(r, s, m)
      <4>. SUFFICES ASSUME NEW i \in 1 .. Len(s) - 1, NEW j \in 1 .. Len(s) - 1, i < j
                    PROVE  \E a, b \in 1 .. Len(s) : a < b /\ r[i] = s[a] /\ r[j] = s[b]
        BY <3>5 DEF InOrder
      <4>. DEFINE o(n) == IF n < k THEN n ELSE n + 1
      <4>1. o(i) \in 1 .. Len(s) /\ o(j) \in 1 .. Len(s) /\ o(i) < o(j)
        BY <3>1, <1>1
      <4>2. r[i] = s[o(i)] /\ r[j] = s[o(j)]
        BY <3>5
      <4>. HIDE DEF o
      <4>. QED
        BY <4>1, <4>2
    <3>. QED
      BY <3>5, <3>7, <3>8, <3>9
  <2>. QED
    BY <2>1, <2>2
<1>. HIDE DEF r
<1>3. Reschedule(s, m) = Append(r, m)
  BY DEF Reschedule, r
<1>4. /\ Append(r, m) \in Seq(M) /\ Append(r, m) # <<>>
      /\ DOMAIN Append(r, m) = 1 .. Len(r) + 1 /\ Append(r, m)[Len(r) + 1] = m
      /\ \A i \in 1 .. Len(r) : Append(r, m)[i] = r[i]
      /\ DOMAIN r = 1 .. Len(r) /\ Len(r) \in Nat
  BY <1>2
<1>5. \A i \in 1 .. Len(r) : r[i] # m
  BY <1>2, <1>4 DEF Range
<1>6. IsInjective(Append(r, m))
  BY <1>2, <1>4, <1>5 DEF IsInjective
<1>7. Range(Append(r, m)) = Range(r) \cup {m}
  <2>1. \A i \in 1 .. Len(r) + 1 : Append(r, m)[i] \in Range(r) \cup {m}
    BY <1>4 DEF Range
  <2>2. \A x \in Range(r) \cup {m} : \E i \in 1 .. Len(r) + 1 : Append(r, m)[i] = x
    BY <1>4 DEF Range
  <2>. QED
    BY <2>1, <2>2, <1>4 DEF Range
<1>8. InOrder(Append(r, m), s, m)
  <2>. DEFINE t == Append(r, m)
  <2>1. Len(t) = Len(r) + 1 /\ t[Len(r) + 1] = m /\ \A i \in 1 .. Len(r) : t[i] = r[i] /\ r[i] # m
    BY <1>2, <1>4, <1>5
  <2>. HIDE DEF t
  <2>2. ASSUME NEW i \in 1 .. Len(t), NEW j \in 1 .. Len(t), i < j, t[j] # m
        PROVE  \E a, b \in 1 .. Len(s) : a < b /\ t[i] = s[a] /\ t[j] = s[b]
    <3>1. j # Len(r) + 1
      BY <2>1, <2>2
    <3>2. i \in 1 .. Len(r) /\ j \in 1 .. Len(r)
      BY <1>4, <2>1, <2>2, <3>1
    <3>3. t[i] = r[i] /\ t[j] = r[j] /\ r[j] # m
      BY <2>1, <3>2
    <3>4. \E a, b \in 1 .. Len(s) : a < b /\ r[i] = s[a] /\ r[j] = s[b]
      BY <1>2, <2>2, <3>2, <3>3 DEF InOrder
    <3>. QED
      BY <3>3, <3>4
  <2>3. InOrder(t, s, m)
    BY <2>2 DEF InOrder
  <2>. QED
    BY <2>3 DEF t
<1>. QED
  BY <1>2, <1>3, <1>4, <1>6, <1>7, <1>8

\* The message that is handled is queued no more.
LEMMA TailIs ==
  ASSUME NEW M, NEW s \in Seq(M), s # <<>>, IsInjective(s)
  PROVE  /\ Head(s) \in Range(s) /\ Head(s) \in M
         /\ Tail(s) \in Seq(M)
         /\ IsInjective(Tail(s))
         /\ Range(Tail(s)) = Range(s) \ {Head(s)}
         /\ \A m : InOrder(Tail(s), s, m)
<1>1. /\ Len(s) \in Nat \ {0} /\ DOMAIN s = 1 .. Len(s) /\ Head(s) = s[1]
      /\ Tail(s) \in Seq(M) /\ Len(Tail(s)) = Len(s) - 1 /\ DOMAIN Tail(s) = 1 .. Len(s) - 1
      /\ \A i \in 1 .. Len(s) - 1 : Tail(s)[i] = s[i + 1]
  OBVIOUS
<1>2. IsInjective(Tail(s))
  <2>. SUFFICES ASSUME NEW i \in 1 .. Len(s) - 1, NEW j \in 1 .. Len(s) - 1, Tail(s)[i] = Tail(s)[j]
                PROVE  i = j
    BY <1>1 DEF IsInjective
  <2>1. i + 1 \in DOMAIN s /\ j + 1 \in DOMAIN s /\ s[i + 1] = s[j + 1]
    BY <1>1
  <2>. QED
    BY <2>1 DEF IsInjective
<1>3. \A i \in 1 .. Len(s) - 1 : Tail(s)[i] \in Range(s) \ {Head(s)}
  <2>. SUFFICES ASSUME NEW i \in 1 .. Len(s) - 1 PROVE s[i + 1] \in Range(s) \ {s[1]}
    BY <1>1
  <2>1. i + 1 \in DOMAIN s /\ 1 \in DOMAIN s /\ i + 1 # 1
    BY <1>1
  <2>. QED
    BY <2>1 DEF IsInjective, Range
<1>4. \A n \in 1 .. Len(s) : s[n] # s[1] => \E i \in 1 .. Len(s) - 1 : Tail(s)[i] = s[n]
  <2>. SUFFICES ASSUME NEW n \in 1 .. Len(s), s[n] # s[1] PROVE \E i \in 1 .. Len(s) - 1 : Tail(s)[i] = s[n]
    OBVIOUS
  <2>1. n - 1 \in 1 .. Len(s) - 1 /\ (n - 1) + 1 = n
    BY <1>1
  <2>2. Tail(s)[n - 1] = s[n]
    BY <1>1, <2>1
  <2>. QED
    BY <2>1, <2>2
<1>5. Range(Tail(s)) = Range(s) \ {Head(s)}
  <2>1. ASSUME NEW x \in Range(Tail(s)) PROVE x \in Range(s) \ {Head(s)}
    BY <2>1, <1>1, <1>3 DEF Range
  <2>2. ASSUME NEW x \in Range(s) \ {Head(s)} PROVE x \in Range(Tail(s))
    <3>1. PICK n \in 1 .. Len(s) : s[n] = x
      BY <1>1 DEF Range
    <3>2. PICK i \in 1 .. Len(s) - 1 : Tail(s)[i] = x
      BY <3>1, <1>1, <1>4
    <3>. QED
      BY <3>2, <1>1 DEF Range
  <2>. QED
    BY <2>1, <2>2
<1>6. s[1] \in Range(s) /\ s[1] \in M
  BY <1>1 DEF Range
<1>7. ASSUME NEW i \in 1 .. Len(Tail(s)), NEW j \in 1 .. Len(Tail(s)), i < j
      PROVE  \E a, b \in 1 .. Len(s) : a < b /\ Tail(s)[i] = s[a] /\ Tail(s)[j] = s[b]
  <2>1. i + 1 \in 1 .. Len(s) /\ j + 1 \in 1 .. Len(s) /\ i + 1 < j + 1
    BY <1>1, <1>7
  <2>2. Tail(s)[i] = s[i + 1] /\ Tail(s)[j] = s[j + 1]
    BY <1>1, <1>7
  <2>. QED
    BY <2>1, <2>2
<1>8. \A m : InOrder(Tail(s), s, m)
  BY <1>7 DEF InOrder
<1>. QED
  BY <1>1, <1>2, <1>5, <1>6, <1>8

\* The order is kept by one step after the other.
LEMMA InOrderThrough ==
  ASSUME NEW s, NEW t, NEW r, NEW m, InOrder(r, t, m), InOrder(t, s, m)
  PROVE  InOrder(r, s, m)
<1>. SUFFICES ASSUME NEW i \in 1 .. Len(r), NEW j \in 1 .. Len(r), i < j, r[j] # m
              PROVE  \E a, b \in 1 .. Len(s) : a < b /\ r[i] = s[a] /\ r[j] = s[b]
  BY DEF InOrder
<1>1. PICK c \in 1 .. Len(t), d \in 1 .. Len(t) : c < d /\ r[i] = t[c] /\ r[j] = t[d]
  BY DEF InOrder
<1>. QED
  BY <1>1 DEF InOrder

\* A message that is alone.
LEMMA OnlyMessage ==
  ASSUME NEW m
  PROVE  /\ Head(<<m>>) = m /\ Tail(<<m>>) = <<>>
         /\ Range(<<m>>) = {m} /\ IsInjective(<<m>>)
         /\ Reschedule(<<>>, m) = <<m>>
         /\ Range(<<>>) = {} /\ IsInjective(<<>>)
<1>1. Reschedule(<<>>, m) = <<m>>
  <2>1. RemoveFirst(<<>>, m) = <<>>
    BY DEF RemoveFirst
  <2>2. Append(<<>>, m) = <<m>>
    OBVIOUS
  <2>. QED
    BY <2>1, <2>2, Zenon DEF Reschedule
<1>2. Range(<<m>>) = {m}
  <2>1. DOMAIN <<m>> = {1} /\ <<m>>[1] = m
    OBVIOUS
  <2>. QED
    BY <2>1 DEF Range
<1>3. IsInjective(<<m>>)
  BY DEF IsInjective
<1>4. Range(<<>>) = {} /\ IsInjective(<<>>)
  BY DEF Range, IsInjective
<1>. QED
  BY <1>1, <1>2, <1>3, <1>4

\* Messages that are sent one after the other.
LEMMA AppendedMessages ==
  ASSUME NEW M, NEW s \in Seq(M), NEW t \in Seq(M), IsInjective(s), IsInjective(t),
         Range(s) \cap Range(t) = {}
  PROVE  s \o t \in Seq(M) /\ IsInjective(s \o t) /\ Range(s \o t) = Range(s) \cup Range(t)
<1>. DEFINE u == s \o t
<1>1. /\ Len(s) \in Nat /\ DOMAIN s = 1 .. Len(s)
      /\ Len(t) \in Nat /\ DOMAIN t = 1 .. Len(t)
  OBVIOUS
<1>2. /\ u \in Seq(M) /\ Len(u) = Len(s) + Len(t) /\ DOMAIN u = 1 .. Len(s) + Len(t)
      /\ \A i \in 1 .. Len(s) + Len(t) : u[i] = IF i <= Len(s) THEN s[i] ELSE t[i - Len(s)]
  BY ConcatProperties
<1>. HIDE DEF u
<1>3. /\ \A i \in 1 .. Len(s) : i \in DOMAIN u /\ u[i] = s[i]
      /\ \A i \in 1 .. Len(t) : Len(s) + i \in DOMAIN u /\ u[Len(s) + i] = t[i]
  <2>1. \A i \in 1 .. Len(s) : i \in DOMAIN u /\ u[i] = s[i]
    BY <1>1, <1>2
  <2>2. ASSUME NEW i \in 1 .. Len(t) PROVE Len(s) + i \in DOMAIN u /\ u[Len(s) + i] = t[i]
    <3>1. Len(s) + i \in 1 .. Len(s) + Len(t) /\ ~(Len(s) + i <= Len(s)) /\ (Len(s) + i) - Len(s) = i
      BY <1>1
    <3>2. u[Len(s) + i] = t[(Len(s) + i) - Len(s)]
      BY <1>2, <3>1
    <3>. QED
      BY <1>2, <3>1, <3>2
  <2>. QED
    BY <2>1, <2>2
<1>4. \A i \in DOMAIN u :
        \/ i \in DOMAIN s /\ u[i] = s[i]
        \/ i - Len(s) \in DOMAIN t /\ u[i] = t[i - Len(s)]
  BY <1>1, <1>2
<1>5. IsInjective(u)
  <2>. SUFFICES ASSUME NEW i \in DOMAIN u, NEW j \in DOMAIN u, u[i] = u[j] PROVE i = j
    BY DEF IsInjective
  <2>1. i \in Int /\ j \in Int
    BY <1>2
  <2>2. CASE i \in DOMAIN s /\ u[i] = s[i] /\ j \in DOMAIN s /\ u[j] = s[j]
    BY <2>2 DEF IsInjective
  <2>3. CASE /\ i - Len(s) \in DOMAIN t /\ u[i] = t[i - Len(s)]
             /\ j - Len(s) \in DOMAIN t /\ u[j] = t[j - Len(s)]
    <3>1. i - Len(s) = j - Len(s)
      BY <2>3 DEF IsInjective
    <3>. QED
      BY <3>1, <2>1, <1>1
  <2>4. \A x \in DOMAIN s, y \in DOMAIN t : s[x] # t[y]
    BY DEF Range
  <2>. QED
    BY <2>2, <2>3, <2>4, <1>4
<1>6. ASSUME NEW x \in Range(u) PROVE x \in Range(s) \cup Range(t)
  BY <1>4 DEF Range
<1>7. ASSUME NEW x \in Range(s) \cup Range(t) PROVE x \in Range(u)
  <2>1. CASE x \in Range(s)
    BY <2>1, <1>1, <1>3 DEF Range
  <2>2. CASE x \in Range(t)
    BY <2>2, <1>1, <1>3 DEF Range
  <2>. QED
    BY <2>1, <2>2
<1>. QED
  BY <1>2, <1>5, <1>6, <1>7 DEF u

\* Every element of a finite set of numbers has a place of its own in their order.
LEMMA PlacesInOrder ==
  ASSUME NEW S \in SUBSET Nat, IsFiniteSet(S)
  PROVE  LET Place(q) == Cardinality({r \in S : r <= q})
         IN  /\ \A q \in S : Place(q) \in 1 .. Cardinality(S)
             /\ \A q, r \in S : Place(q) = Place(r) => q = r
             /\ \A n \in 1 .. Cardinality(S) : \E q \in S : Place(q) = n
<1>. DEFINE UpTo(q) == {r \in S : r <= q}
            Place(q) == Cardinality(UpTo(q))
<1>1. \A q \in S : IsFiniteSet(UpTo(q)) /\ Place(q) <= Cardinality(S) /\ Place(q) \in Nat
  BY FS_Subset, FS_CardinalityType
<1>2. \A q \in S : Place(q) # 0
  <2>1. \A q \in S : q \in UpTo(q)
    OBVIOUS
  <2>. HIDE DEF UpTo
  <2>. QED
    BY <1>1, <2>1, FS_EmptySet
<1>3. Cardinality(S) \in Nat
  BY FS_CardinalityType
<1>4. \A q, r \in S : Place(q) = Place(r) => q = r
  <2>. \A x \in S : x \in Nat
    OBVIOUS
  <2>1. ASSUME NEW q \in S, NEW r \in S, q < r PROVE Place(q) # Place(r)
    <3>1. UpTo(q) \in SUBSET UpTo(r) /\ r \in UpTo(r) /\ r \notin UpTo(q)
      <4>1. q \in Nat /\ r \in Nat /\ ~(r <= q) /\ r <= r
        BY <2>1
      <4>2. \A x \in S : x <= q => x <= r
        BY <2>1
      <4>. QED
        BY <4>1, <4>2
    <3>. HIDE DEF UpTo
    <3>. QED
      BY <1>1, <3>1, FS_Subset
  <2>. QED
    BY <2>1
<1>5. \A n \in 1 .. Cardinality(S) : \E q \in S : Place(q) = n
  <2>. DEFINE T == {n \in Nat : n + 1 <= Cardinality(S) => \E q \in S : Place(q) = n + 1}
  <2>1. ASSUME NEW n \in Nat, n + 1 <= Cardinality(S), NEW L \in SUBSET S,
               Cardinality(L) = n, \A x \in L, y \in S \ L : x <= y
        PROVE  \E q \in S : Place(q) = n + 1
    <3>1. IsFiniteSet(L) /\ S \ L # {} /\ S \ L \subseteq Nat
      <4>1. L # S
        BY <2>1, <1>3
      <4>. QED
        BY <4>1, <2>1, FS_Subset
    <3>2. PICK p \in S \ L : \A y \in S \ L : p <= y
      BY <3>1, LeastNumber
    <3>3. \A r \in S : r <= p <=> r \in L \cup {p}
      <4>1. \A r \in L : r <= p
        BY <2>1, <3>2
      <4>2. \A r \in S : r \notin L /\ r <= p => r = p
        BY <3>2
      <4>. QED
        BY <4>1, <4>2, <3>2
    <3>4. UpTo(p) = L \cup {p}
      BY <3>3, <3>2
    <3>5. Cardinality(L \cup {p}) = n + 1
      BY <3>1, <3>2, <2>1, FS_AddElement
    <3>. QED
      BY <3>2, <3>4, <3>5
  <2>2. 0 \in T
    BY <2>1, FS_EmptySet
  <2>3. ASSUME NEW n \in Nat, n \in T PROVE n + 1 \in T
    <3>. SUFFICES ASSUME (n + 1) + 1 <= Cardinality(S)
                  PROVE  \E q \in S : Place(q) = (n + 1) + 1
      OBVIOUS
    <3>1. PICK q \in S : Place(q) = n + 1
      BY <2>3, <1>3
    <3>2. \A x \in UpTo(q), y \in S \ UpTo(q) : x <= y
      OBVIOUS
    <3>3. UpTo(q) \in SUBSET S
      OBVIOUS
    <3>. HIDE DEF UpTo
    <3>. QED
      BY <2>1, <3>1, <3>2, <3>3
  <2>4. Nat \subseteq T
    <3>. HIDE DEF T
    <3>. QED
      BY <2>2, <2>3, SetInduction
  <2>. SUFFICES ASSUME NEW n \in 1 .. Cardinality(S) PROVE \E q \in S : Place(q) = n
    OBVIOUS
  <2>5. n - 1 \in T /\ (n - 1) + 1 = n /\ n <= Cardinality(S)
    BY <2>4, <1>3
  <2>. HIDE DEF Place
  <2>. QED
    BY <2>5
<1>6. \A q \in S : Place(q) \in 1 .. Cardinality(S)
  BY <1>1, <1>2, <1>3
<1>. QED
  BY <1>4, <1>5, <1>6

\* The messages of the gates that change: one for each of them.
LEMMA ChangesAre ==
  ASSUME NEW old \in SUBSET Queues, NEW new \in SUBSET Queues
  PROVE  LET told == {Message("gate.stateChanged", q) : q \in SymDiff(old, new)}
         IN  /\ Changes(old, new) \in Seq(told)
             /\ IsInjective(Changes(old, new))
             /\ Range(Changes(old, new)) = told
<1>. DEFINE S == SymDiff(old, new)
            Place(q) == Cardinality({r \in S : r <= q})
            told == {Message("gate.stateChanged", q) : q \in S}
            At(n) == CHOOSE q \in S : Place(q) = n
            c == [n \in 1 .. Cardinality(S) |-> Message("gate.stateChanged", At(n))]
<1>1. S \in SUBSET Nat /\ IsFiniteSet(S)
  BY QueuingAssumption, FS_Subset DEF SymDiff
<1>2. Changes(old, new) = c
  BY DEF Changes
<1>3. Cardinality(S) \in Nat
  BY <1>1, FS_CardinalityType
<1>. HIDE DEF S
<1>4. /\ \A q \in S : Place(q) \in 1 .. Cardinality(S)
      /\ \A q, r \in S : Place(q) = Place(r) => q = r
      /\ \A n \in 1 .. Cardinality(S) : \E q \in S : Place(q) = n
  BY <1>1, PlacesInOrder
<1>. HIDE DEF Place
<1>5. \A n \in 1 .. Cardinality(S) : At(n) \in S /\ Place(At(n)) = n
  BY <1>4
<1>6. \A q \in S : At(Place(q)) = q
  BY <1>4, <1>5
<1>. HIDE DEF At
<1>7. c \in Seq(told) /\ DOMAIN c = 1 .. Cardinality(S)
  BY <1>3, <1>5
<1>8. \A q, r : Message("gate.stateChanged", q) = Message("gate.stateChanged", r) => q = r
  BY DEF Message
<1>9. IsInjective(c)
  <2>. SUFFICES ASSUME NEW i \in 1 .. Cardinality(S), NEW j \in 1 .. Cardinality(S), c[i] = c[j]
                PROVE  i = j
    BY <1>7 DEF IsInjective
  <2>1. At(i) = At(j)
    BY <1>8
  <2>. QED
    BY <2>1, <1>5
<1>10. ASSUME NEW m \in told PROVE m \in Range(c)
  <2>1. PICK q \in S : m = Message("gate.stateChanged", q)
    OBVIOUS
  <2>2. Place(q) \in 1 .. Cardinality(S) /\ c[Place(q)] = m
    BY <2>1, <1>4, <1>6
  <2>. QED
    BY <2>2, <1>7 DEF Range
<1>11. ASSUME NEW m \in Range(c) PROVE m \in told
  BY <1>5, <1>7 DEF Range
<1>. HIDE DEF c, told
<1>12. Range(c) = told
  BY <1>10, <1>11
<1>. QED
  BY <1>2, <1>7, <1>9, <1>12 DEF told, S

-----------------------------------------------------------------------------
\* The way of calculateMaxBit through the control list

\* Places of the list: the next one, and once around.
LEMMA PlacesOfTheList ==
  ASSUME NEW e \in 1 .. Len(ControlList)
  PROVE  /\ Len(ControlList) \in Nat \ {0}
         /\ \A n \in 0 .. Len(ControlList) :
              NextIndex(e, n) = IF e + n <= Len(ControlList) THEN e + n ELSE e + n - Len(ControlList)
         /\ \A n \in 0 .. Len(ControlList) : NextIndex(e, n) \in 1 .. Len(ControlList)
         /\ \A n \in 0 .. Len(ControlList) - 1 :
              NextIndex(NextIndex(e, 1), n) = NextIndex(e, n + 1)
         /\ NextIndex(e, 0) = e /\ NextIndex(e, Len(ControlList)) = e
<1>. DEFINE N == Len(ControlList)
<1>1. N \in Nat \ {0}
  BY QueuingAssumption
<1>. HIDE DEF N
<1>2. \A i \in 1 .. N, n \in 0 .. N :
        NextIndex(i, n) = IF i + n <= N THEN i + n ELSE i + n - N
  <2>. SUFFICES ASSUME NEW i \in 1 .. N, NEW n \in 0 .. N
                PROVE  ((i + n - 1) % N) + 1 = IF i + n <= N THEN i + n ELSE i + n - N
    BY DEF NextIndex, N
  <2>1. CASE i + n <= N
    <3>1. i + n - 1 \in 0 .. N - 1
      BY <1>1, <2>1
    <3>2. (i + n - 1) % N = i + n - 1
      BY <1>1, <3>1
    <3>. QED
      BY <1>1, <2>1, <3>2
  <2>2. CASE ~(i + n <= N)
    <3>1. i + n - 1 - N \in 0 .. N - 1 /\ i + n - 1 = (i + n - 1 - N) + N
      BY <1>1, <2>2
    <3>2. (i + n - 1) % N = i + n - 1 - N
      BY <1>1, <3>1
    <3>. QED
      BY <1>1, <2>2, <3>2
  <2>. QED
    BY <2>1, <2>2
<1>3. \A n \in 0 .. N : NextIndex(e, n) \in 1 .. N
  BY <1>1, <1>2 DEF N
<1>4. \A n \in 0 .. N - 1 : NextIndex(NextIndex(e, 1), n) = NextIndex(e, n + 1)
  <2>. SUFFICES ASSUME NEW n \in 0 .. N - 1 PROVE NextIndex(NextIndex(e, 1), n) = NextIndex(e, n + 1)
    OBVIOUS
  <2>1. 1 \in 0 .. N /\ n \in 0 .. N /\ n + 1 \in 0 .. N /\ e \in 1 .. N
    BY <1>1 DEF N
  <2>2. NextIndex(e, 1) \in 1 .. N
    BY <1>3, <2>1
  <2>3. NextIndex(e, 1) = (IF e + 1 <= N THEN e + 1 ELSE e + 1 - N)
    BY <1>2, <2>1
  <2>4. NextIndex(e, n + 1) = (IF e + (n + 1) <= N THEN e + (n + 1) ELSE e + (n + 1) - N)
    BY <1>2, <2>1
  <2>5. NextIndex(NextIndex(e, 1), n) = (IF NextIndex(e, 1) + n <= N THEN NextIndex(e, 1) + n
                                                                    ELSE NextIndex(e, 1) + n - N)
    BY <1>2, <2>1, <2>2
  <2>. QED
    BY <1>1, <2>1, <2>3, <2>4, <2>5
<1>5. NextIndex(e, 0) = e /\ NextIndex(e, N) = e
  <2>1. 0 \in 0 .. N /\ N \in 0 .. N /\ e \in 1 .. N
    BY <1>1 DEF N
  <2>. QED
    BY <1>1, <1>2, <2>1
<1>. QED
  BY <1>1, <1>2, <1>3, <1>4, <1>5 DEF N

\* Every entry is a slot.
LEMMA EntriesAreSlots ==
  /\ Len(ControlList) \in Nat \ {0}
  /\ \A i \in 1 .. Len(ControlList) :
       ControlList[i].timeInterval \in Nat \ {0} /\ ControlList[i].gates \in SUBSET Queues
<1>1. \A i \in 1 .. Len(ControlList) : ControlList[i] \in Slot
  BY QueuingAssumption
<1>2. Len(ControlList) \in Nat \ {0}
  BY QueuingAssumption
<1>. QED
  BY <1>1, <1>2 DEF Slot

\* TimeUntilEntry in a state where entry e is executed and the tick is t away.
IsUntil(f, e, first) ==
  f = [n \in 0 .. Len(ControlList) |->
         CASE n = 0 -> 0
           [] n = 1 -> first
           [] OTHER -> f[n - 1] + ControlList[NextIndex(e, n - 1)].timeInterval]

UntilNext(t) == IF t = Never THEN 0 ELSE t

UntilFrom(e, t) == CHOOSE f : IsUntil(f, e, UntilNext(t))

Ticks == Nat \cup {Never}

LEMMA UntilIs ==
  ASSUME NEW e \in 1 .. Len(ControlList), NEW t \in Ticks
  PROVE  /\ UntilFrom(e, t)[0] = 0
         /\ UntilFrom(e, t)[1] = UntilNext(t)
         /\ \A n \in 2 .. Len(ControlList) :
              UntilFrom(e, t)[n] = UntilFrom(e, t)[n - 1] + ControlList[NextIndex(e, n - 1)].timeInterval
         /\ \A n \in 0 .. Len(ControlList) : UntilFrom(e, t)[n] \in Nat
<1>. DEFINE N == Len(ControlList)
            a == UntilNext(t)
            d(n) == ControlList[NextIndex(e, n)].timeInterval
            Adds(f, m) == f[0] = 0 /\ (m >= 1 => f[1] = a) /\ \A k \in 2 .. m : f[k] = f[k - 1] + d(k - 1)
            T == {m \in Nat : m <= N => \E f \in [0 .. m -> Nat] : Adds(f, m)}
<1>1. N \in Nat \ {0} /\ a \in Nat /\ \A n \in 0 .. N : d(n) \in Nat
  BY EntriesAreSlots, PlacesOfTheList DEF Ticks, Never, UntilNext
<1>. HIDE DEF N, a, d
<1>2. 0 \in T
  <2>1. [n \in 0 .. 0 |-> 0] \in [0 .. 0 -> Nat] /\ Adds([n \in 0 .. 0 |-> 0], 0)
    OBVIOUS
  <2>. QED
    BY <2>1
<1>3. ASSUME NEW m \in Nat, m \in T PROVE m + 1 \in T
  <2>. SUFFICES ASSUME m + 1 <= N PROVE \E f \in [0 .. m + 1 -> Nat] : Adds(f, m + 1)
    OBVIOUS
  <2>1. PICK f \in [0 .. m -> Nat] : Adds(f, m)
    BY <1>1, <1>3
  <2>. DEFINE g == [k \in 0 .. m + 1 |->
                      IF k = m + 1 THEN (IF m = 0 THEN a ELSE f[m] + d(m)) ELSE f[k]]
  <2>2. g \in [0 .. m + 1 -> Nat]
    BY <1>1
  <2>3. g[0] = 0 /\ (m + 1 >= 1 => g[1] = a)
    BY <2>1
  <2>4. \A k \in 2 .. m : g[k] = g[k - 1] + d(k - 1)
    BY <2>1
  <2>5. m + 1 \in 2 .. m + 1 => g[m + 1] = g[m] + d(m)
    OBVIOUS
  <2>. HIDE DEF g
  <2>6. (m + 1) - 1 = m /\ \A k \in 2 .. m + 1 : k \in 2 .. m \/ k = m + 1
    OBVIOUS
  <2>7. \A k \in 2 .. m + 1 : g[k] = g[k - 1] + d(k - 1)
    BY <2>4, <2>5, <2>6
  <2>8. Adds(g, m + 1)
    BY <2>3, <2>7
  <2>. HIDE DEF Adds
  <2>. QED
    BY <2>2, <2>8
<1>4. N \in T
  <2>. HIDE DEF T
  <2>. QED
    BY <1>1, <1>2, <1>3, SetInduction
<1>5. PICK g \in [0 .. N -> Nat] : Adds(g, N)
  <2>1. N <= N
    BY <1>1
  <2>. HIDE DEF Adds
  <2>. QED
    BY <1>4, <2>1
<1>6. IsUntil(g, e, a)
  <2>. DEFINE F(n) == CASE n = 0 -> 0 [] n = 1 -> a [] OTHER -> g[n - 1] + d(n - 1)
  <2>1. \A n \in 0 .. N : g[n] = F(n)
    <3>1. \A n \in 0 .. N : n = 0 \/ n = 1 \/ n \in 2 .. N
      BY <1>1
    <3>. QED
      BY <1>1, <1>5, <3>1
  <2>. HIDE DEF F
  <2>2. g = [n \in 0 .. N |-> F(n)]
    BY <2>1
  <2>. QED
    BY <2>2 DEF F, IsUntil, N, a, d
<1>. DEFINE u == UntilFrom(e, t)
<1>7. IsUntil(u, e, a)
  BY <1>6 DEF UntilFrom, a
<1>. HIDE DEF u
<1>8. Adds(u, N)
  <2>. DEFINE F(n) == CASE n = 0 -> 0 [] n = 1 -> a [] OTHER -> u[n - 1] + d(n - 1)
  <2>1. u = [n \in 0 .. N |-> F(n)]
    BY <1>7 DEF IsUntil, N, a, d
  <2>. HIDE DEF F
  <2>2. \A n \in 0 .. N : u[n] = F(n)
    BY <2>1
  <2>3. 0 \in 0 .. N /\ 1 \in 0 .. N /\ \A n \in 2 .. N : n \in 0 .. N /\ n # 0 /\ n # 1
    BY <1>1
  <2>. QED
    BY <2>2, <2>3 DEF F
<1>9. \A n \in 0 .. N : u[n] \in Nat
  <2>. DEFINE W == {n \in Nat : n <= N => u[n] \in Nat}
  <2>1. 0 \in W
    BY <1>8
  <2>2. ASSUME NEW n \in Nat, n \in W PROVE n + 1 \in W
    <3>1. CASE n = 0
      BY <3>1, <1>1, <1>8
    <3>2. CASE n # 0
      <4>. SUFFICES ASSUME n + 1 <= N PROVE u[n + 1] \in Nat
        OBVIOUS
      <4>1. n + 1 \in 2 .. N /\ n \in 0 .. N /\ (n + 1) - 1 = n
        BY <1>1, <3>2
      <4>2. u[n + 1] = u[n] + d(n)
        BY <1>8, <4>1
      <4>3. u[n] \in Nat /\ d(n) \in Nat
        BY <1>1, <2>2, <4>1
      <4>. HIDE DEF d
      <4>. QED
        BY <4>2, <4>3
    <3>. QED
      BY <3>1, <3>2
  <2>3. Nat \subseteq W
    <3>. HIDE DEF W
    <3>. QED
      BY <2>1, <2>2, SetInduction
  <2>. QED
    BY <1>1, <2>3
<1>. QED
  BY <1>1, <1>8, <1>9 DEF u, N, a, d

LEMMA TimeUntilEntryIs == TimeUntilEntry = UntilFrom(entry, tick)
BY Zenon DEF TimeUntilEntry, UntilFrom, IsUntil, UntilNext

LEMMA TimeUntilEntryIsNext == TimeUntilEntry' = UntilFrom(entry', tick')
BY Zenon DEF TimeUntilEntry, UntilFrom, IsUntil, UntilNext

\* A later entry begins later.
LEMMA UntilGrows ==
  ASSUME NEW e \in 1 .. Len(ControlList), NEW t \in Ticks,
         NEW m \in 0 .. Len(ControlList), NEW n \in 0 .. Len(ControlList), m <= n
  PROVE  UntilFrom(e, t)[m] <= UntilFrom(e, t)[n]
<1>. DEFINE N == Len(ControlList)
            u == UntilFrom(e, t)
            T == {k \in Nat : m + k <= N => u[m] <= u[m + k]}
<1>1. N \in Nat /\ \A k \in 0 .. N : u[k] \in Nat
  BY UntilIs, EntriesAreSlots
<1>2. \A k \in 0 .. N - 1 : u[k] <= u[k + 1]
  <2>. SUFFICES ASSUME NEW k \in 0 .. N - 1 PROVE u[k] <= u[k + 1]
    OBVIOUS
  <2>1. CASE k = 0
    <3>1. u[k] = 0 /\ u[k + 1] \in Nat
      BY <2>1, <1>1, UntilIs
    <3>. QED
      BY <3>1
  <2>2. CASE k # 0
    <3>1. k + 1 \in 2 .. N /\ (k + 1) - 1 = k /\ k \in 0 .. N
      BY <1>1, <2>2
    <3>2. u[k + 1] = u[k] + ControlList[NextIndex(e, k)].timeInterval
      <4>1. u[k + 1] = u[(k + 1) - 1] + ControlList[NextIndex(e, (k + 1) - 1)].timeInterval
        BY <3>1, UntilIs
      <4>. QED
        BY <4>1, <3>1
    <3>3. ControlList[NextIndex(e, k)].timeInterval \in Nat
      BY <3>1, PlacesOfTheList, EntriesAreSlots
    <3>. QED
      BY <3>1, <3>2, <3>3, <1>1
  <2>. QED
    BY <2>1, <2>2
<1>. HIDE DEF N, u
<1>3. m \in 0 .. N /\ n \in 0 .. N
  BY DEF N
<1>4. 0 \in T
  BY <1>1, <1>3
<1>5. ASSUME NEW k \in Nat, k \in T PROVE k + 1 \in T
  <2>. SUFFICES ASSUME m + (k + 1) <= N PROVE u[m] <= u[m + (k + 1)]
    OBVIOUS
  <2>1. m + k \in 0 .. N - 1 /\ (m + k) + 1 = m + (k + 1) /\ m + k \in 0 .. N /\ m + (k + 1) \in 0 .. N
    BY <1>1, <1>3
  <2>2. u[m] <= u[m + k] /\ u[m + k] <= u[m + (k + 1)]
    BY <1>2, <1>5, <2>1
  <2>. QED
    BY <2>1, <2>2, <1>1, <1>3
<1>6. n - m \in T
  <2>1. n - m \in Nat
    BY <1>3
  <2>. HIDE DEF T
  <2>. QED
    BY <2>1, <1>4, <1>5, SetInduction
<1>7. m + (n - m) = n
  BY <1>3
<1>. QED
  BY <1>3, <1>6, <1>7 DEF u, N

\* When the list advances, entries come one place nearer and begin at the same time.
LEMMA UntilAfterUpdate ==
  ASSUME NEW e \in 1 .. Len(ControlList), NEW n \in 0 .. Len(ControlList) - 1
  PROVE  UntilFrom(NextIndex(e, 1), ControlList[NextIndex(e, 1)].timeInterval)[n]
           = UntilFrom(e, Never)[n + 1]
<1>. DEFINE N == Len(ControlList)
            i == NextIndex(e, 1)
            t == ControlList[i].timeInterval
            u == UntilFrom(i, t)
            v == UntilFrom(e, Never)
            d(k) == ControlList[k].timeInterval
            T == {k \in Nat : k <= N - 1 => u[k] = v[k + 1]}
<1>1. N \in Nat \ {0} /\ i \in 1 .. N /\ t \in Ticks /\ t # Never /\ Never \in Ticks /\ t \in Nat
  <2>1. N \in Nat \ {0} /\ i \in 1 .. N
    <3>1. N \in Nat \ {0} /\ 1 \in 0 .. N
      BY PlacesOfTheList
    <3>. QED
      BY <3>1, PlacesOfTheList
  <2>. HIDE DEF i
  <2>2. t \in Nat
    BY <2>1, EntriesAreSlots
  <2>. QED
    BY <2>1, <2>2 DEF Ticks, Never
<1>2. u[0] = 0 /\ v[0 + 1] = 0
  <2>1. 0 + 1 = 1
    OBVIOUS
  <2>. QED
    BY <1>1, <2>1, UntilIs DEF UntilNext
<1>3. \A k \in 1 .. N - 1 : u[k] = (IF k = 1 THEN t ELSE u[k - 1] + d(NextIndex(i, k - 1)))
  <2>. SUFFICES ASSUME NEW k \in 1 .. N - 1
                PROVE  u[k] = (IF k = 1 THEN t ELSE u[k - 1] + d(NextIndex(i, k - 1)))
    OBVIOUS
  <2>1. k = 1 \/ k \in 2 .. N
    BY <1>1
  <2>2. u[1] = t
    BY <1>1, UntilIs DEF UntilNext
  <2>3. k \in 2 .. N => u[k] = u[k - 1] + d(NextIndex(i, k - 1))
    BY <1>1, UntilIs
  <2>. QED
    BY <2>1, <2>2, <2>3
<1>4. \A k \in 1 .. N - 1 : v[k + 1] = v[k] + d(NextIndex(e, k))
  <2>. SUFFICES ASSUME NEW k \in 1 .. N - 1 PROVE v[k + 1] = v[k] + d(NextIndex(e, k))
    OBVIOUS
  <2>1. k + 1 \in 2 .. N /\ (k + 1) - 1 = k
    BY <1>1
  <2>2. v[k + 1] = v[(k + 1) - 1] + d(NextIndex(e, (k + 1) - 1))
    BY <1>1, <2>1, UntilIs
  <2>. QED
    BY <2>1, <2>2
<1>5. \A k \in 2 .. N - 1 : NextIndex(i, k - 1) = NextIndex(e, k)
  <2>. SUFFICES ASSUME NEW k \in 2 .. N - 1 PROVE NextIndex(i, k - 1) = NextIndex(e, k)
    OBVIOUS
  <2>1. k - 1 \in 0 .. N - 1 /\ (k - 1) + 1 = k
    BY <1>1
  <2>. QED
    BY <2>1, PlacesOfTheList
<1>6. N >= 2 => v[1] = 0 /\ v[2] = t
  <2>. SUFFICES ASSUME N >= 2 PROVE v[1] = 0 /\ v[2] = t
    OBVIOUS
  <2>1. v[1] = 0
    BY <1>1, UntilIs DEF UntilNext
  <2>2. 1 \in 1 .. N - 1 /\ 1 + 1 = 2
    BY <1>1
  <2>3. v[2] = v[1] + d(NextIndex(e, 1))
    BY <1>4, <2>2
  <2>. QED
    BY <2>1, <2>3, <1>1
<1>. HIDE DEF N, i, t, u, v, d
<1>7. 0 \in T
  BY <1>2
<1>8. ASSUME NEW k \in Nat, k \in T PROVE k + 1 \in T
  <2>. SUFFICES ASSUME k + 1 <= N - 1 PROVE u[k + 1] = v[(k + 1) + 1]
    OBVIOUS
  <2>1. k + 1 \in 1 .. N - 1 /\ (k + 1) - 1 = k /\ (k + 1) + 1 = k + 2
    BY <1>1
  <2>2. CASE k = 0
    <3>1. k + 1 = 1 /\ (k + 1) + 1 = 2 /\ N >= 2
      BY <2>1, <2>2, <1>1
    <3>2. u[1] = t
      BY <1>3, <2>1, <3>1
    <3>. QED
      BY <3>1, <3>2, <1>6
  <2>3. CASE k # 0
    <3>1. k + 1 \in 2 .. N - 1 /\ k + 1 # 1
      BY <2>1, <2>3, <1>1
    <3>2. u[k + 1] = u[k] + d(NextIndex(i, k))
      BY <1>3, <2>1, <3>1
    <3>3. NextIndex(i, k) = NextIndex(e, k + 1)
      BY <1>5, <2>1, <3>1
    <3>4. v[(k + 1) + 1] = v[k + 1] + d(NextIndex(e, k + 1))
      BY <1>4, <2>1
    <3>5. u[k] = v[k + 1]
      BY <1>1, <1>8, <2>1
    <3>. QED
      BY <3>2, <3>3, <3>4, <3>5
  <2>. QED
    BY <2>2, <2>3
<1>9. n \in T
  <2>1. n \in Nat
    BY <1>1 DEF N
  <2>. HIDE DEF T
  <2>. QED
    BY <2>1, <1>7, <1>8, SetInduction
<1>10. n \in Nat /\ n <= N - 1
  BY <1>1 DEF N
<1>. QED
  BY <1>9, <1>10 DEF u, v, t, i

\* As time passes, all entries but the running one come nearer.
LEMMA UntilLater ==
  ASSUME NEW e \in 1 .. Len(ControlList), NEW t \in Nat \ {0}, NEW n \in 1 .. Len(ControlList)
  PROVE  UntilFrom(e, t - 1)[n] = UntilFrom(e, t)[n] - 1
<1>. DEFINE N == Len(ControlList)
            u == UntilFrom(e, t - 1)
            v == UntilFrom(e, t)
            d(k) == ControlList[NextIndex(e, k)].timeInterval
            T == {k \in Nat : k + 1 <= N => u[k + 1] = v[k + 1] - 1}
<1>1. N \in Nat \ {0} /\ t - 1 \in Ticks /\ t \in Ticks /\ t # Never /\ t - 1 # Never
  BY EntriesAreSlots DEF Ticks, Never
<1>2. u[1] = v[1] - 1
  BY <1>1, UntilIs DEF UntilNext
<1>3. \A k \in 2 .. N : /\ u[k] = u[k - 1] + d(k - 1) /\ v[k] = v[k - 1] + d(k - 1)
                       /\ u[k - 1] \in Nat /\ v[k - 1] \in Nat /\ d(k - 1) \in Nat
  <2>. SUFFICES ASSUME NEW k \in 2 .. N
                PROVE  /\ u[k] = u[k - 1] + d(k - 1) /\ v[k] = v[k - 1] + d(k - 1)
                       /\ u[k - 1] \in Nat /\ v[k - 1] \in Nat /\ d(k - 1) \in Nat
    OBVIOUS
  <2>1. k - 1 \in 0 .. N
    BY <1>1
  <2>2. d(k - 1) \in Nat
    BY <2>1, PlacesOfTheList, EntriesAreSlots
  <2>. QED
    BY <1>1, <2>1, <2>2, UntilIs
<1>. HIDE DEF N, u, v, d
<1>4. 0 \in T
  BY <1>2
<1>5. ASSUME NEW k \in Nat, k \in T PROVE k + 1 \in T
  <2>. SUFFICES ASSUME (k + 1) + 1 <= N PROVE u[(k + 1) + 1] = v[(k + 1) + 1] - 1
    OBVIOUS
  <2>1. (k + 1) + 1 \in 2 .. N /\ ((k + 1) + 1) - 1 = k + 1 /\ k + 1 <= N
    BY <1>1
  <2>2. /\ u[(k + 1) + 1] = u[k + 1] + d(k + 1) /\ v[(k + 1) + 1] = v[k + 1] + d(k + 1)
        /\ u[k + 1] \in Nat /\ v[k + 1] \in Nat /\ d(k + 1) \in Nat
    BY <1>3, <2>1
  <2>. QED
    BY <1>5, <2>1, <2>2
<1>6. n - 1 \in T /\ (n - 1) + 1 = n /\ n <= N
  <2>1. n - 1 \in Nat /\ (n - 1) + 1 = n /\ n <= N
    BY <1>1 DEF N
  <2>. HIDE DEF T
  <2>. QED
    BY <2>1, <1>4, <1>5, SetInduction
<1>. QED
  BY <1>6 DEF u, v

\* calculateMaxBit in a state where entry e is executed and the tick is t away.
BitsFrom(q, e, t) ==
  LET closing == {n \in 0 .. Len(ControlList) - 1 : q \notin ControlList[NextIndex(e, n)].gates}
  IN  IF closing = {} THEN MtuTime ELSE Min({UntilFrom(e, t)[Min(closing)], MtuTime})

LEMMA CalculateMaxBitIs == \A q : CalculateMaxBit(q) = BitsFrom(q, entry, tick)
BY TimeUntilEntryIs, Zenon DEF CalculateMaxBit, BitsFrom

\* No gate is promised more than an MTU, nor more than there is time for until the
\* first entry, or any other, that closes it.
LEMMA BitsEndInSlot ==
  ASSUME NEW e \in 1 .. Len(ControlList), NEW t \in Ticks, NEW q
  PROVE  /\ BitsFrom(q, e, t) \in Nat /\ BitsFrom(q, e, t) <= MtuTime
         /\ \A n \in 0 .. Len(ControlList) - 1 :
              q \notin ControlList[NextIndex(e, n)].gates => BitsFrom(q, e, t) <= UntilFrom(e, t)[n]
<1>. DEFINE closing == {n \in 0 .. Len(ControlList) - 1 : q \notin ControlList[NextIndex(e, n)].gates}
<1>1. MtuTime \in Nat
  BY QueuingAssumption
<1>2. CASE closing = {}
  BY <1>1, <1>2 DEF BitsFrom
<1>3. CASE closing # {}
  <2>. DEFINE k == Min(closing)
  <2>1. closing \subseteq Nat
    OBVIOUS
  <2>2. k \in closing /\ \A n \in closing : k <= n
    <3>. HIDE DEF closing
    <3>. QED
      BY <1>3, <2>1, MinIs
  <2>3. BitsFrom(q, e, t) = Min({UntilFrom(e, t)[k], MtuTime})
    BY <1>3 DEF BitsFrom
  <2>. HIDE DEF k
  <2>4. k \in 0 .. Len(ControlList) /\ \A n \in closing : n \in 0 .. Len(ControlList)
    BY <2>2, EntriesAreSlots
  <2>5. UntilFrom(e, t)[k] \in Nat
    BY <2>4, UntilIs
  <2>6. /\ BitsFrom(q, e, t) \in Nat /\ BitsFrom(q, e, t) <= MtuTime
        /\ BitsFrom(q, e, t) <= UntilFrom(e, t)[k]
    <3>. DEFINE u == UntilFrom(e, t)[k]
    <3>1. u \in Nat /\ MtuTime \in Nat /\ BitsFrom(q, e, t) = Min({u, MtuTime})
      BY <1>1, <2>3, <2>5
    <3>. HIDE DEF u
    <3>2. Min({u, MtuTime}) \in {u, MtuTime} /\ Min({u, MtuTime}) <= u /\ Min({u, MtuTime}) <= MtuTime
      BY <3>1, MinOfTwo
    <3>. QED
      BY <3>1, <3>2 DEF u
  <2>7. \A n \in closing : UntilFrom(e, t)[k] <= UntilFrom(e, t)[n] /\ UntilFrom(e, t)[n] \in Nat
    BY <2>2, <2>4, UntilGrows, UntilIs
  <2>8. \A n \in closing : BitsFrom(q, e, t) <= UntilFrom(e, t)[n]
    BY <2>5, <2>6, <2>7
  <2>. QED
    BY <2>6, <2>8
<1>. QED
  BY <1>2, <1>3

-----------------------------------------------------------------------------
\* The shapes of the variables

ChangeKinds == {"gate.stateChanged", "algorithm.gateStateChanged"}
RequestKinds == {"gate.requestPacket", "algorithm.requestPacket", "queue.requestPacket"}
PacketKinds == {"algorithm.packet", "gate.packet", "selection.packet", "mac.packet"}

\* The messages by which a request travels down and its frame comes back.
ChainKinds == RequestKinds \cup PacketKinds

Update == Message("gateController.updateSchedule", None)

Notices ==
  [what : {"algorithm.packetEnqueued", "gate.packetEnqueued", "gate.stateChanged"},
   class : Queues, length : {0}]
    \cup [what : {"algorithm.gateStateChanged"}, class : ShapedQueues, length : {0}]
    \cup {Update}

Chains == [what : ChainKinds, class : Queues, length : Nat]

ShaperStates ==
  [state : {"kIdle", "kEarnCredit", "kSpendCredit"}, credit : Int, age : Nat, timer : Ticks]

OwnKinds == {"requestPacket", "packetEnqueued"}

PortTypes ==
  /\ queue \in [Queues -> Seq(Lengths)]
  /\ gateOpen \in SUBSET Queues
  /\ entry \in 1 .. Len(ControlList)
  /\ tick \in Ticks
  /\ packetRequestedFromUs \in BOOLEAN
  /\ packetRequestedFromInputs \in BOOLEAN
  /\ shaper \in [ShapedQueues -> ShaperStates]
  /\ transmitState \in {"TX_IDLE_STATE", "TRANSMITTING_STATE", "WAIT_IFG_STATE"}
  /\ macTimer \in Ticks
  /\ sending \in Queues \cup {None}
  /\ messages \in Seq(Notices \cup Chains) /\ IsInjective(messages)
  /\ tsMessages \in Seq(OwnKinds) /\ IsInjective(tsMessages)
  /\ arrivals \in 0 .. MaxArrivals

\* A request is answered, or waits for a frame: the transmission selection never
\* forgets one and never has two.
RequestInv ==
  /\ packetRequestedFromInputs => packetRequestedFromUs
  /\ packetRequestedFromUs =>
       /\ transmitState = "TX_IDLE_STATE"
       /\ packetRequestedFromInputs \/ \E m \in Range(messages) : m.what \in ChainKinds
  /\ "requestPacket" \in Range(tsMessages) =>
       transmitState = "TX_IDLE_STATE" /\ ~packetRequestedFromUs
  /\ transmitState = "TX_IDLE_STATE" =>
       \/ packetRequestedFromUs
       \/ "requestPacket" \in Range(tsMessages)
       \/ \E m \in Range(messages) : m.what = "mac.packet"

\* Class q is preferred to r: by an express queue, else by its number.
Precedes(q, r) ==
  \/ q \in ExpressQueues /\ (r \in ExpressQueues => r <= q)
  \/ {q, r} \cap ExpressQueues = {} /\ r <= q

\* What a request that travels as m was promised, and still gets: the port stands
\* still until its frame is at the MAC.
StandsStillFor(m) ==
  /\ messages = <<m>>
  /\ arrivals = 0
  /\ ~TimerIsDue
  /\ transmitState = "TX_IDLE_STATE"
  /\ ~packetRequestedFromInputs
  /\ packetRequestedFromUs <=> m.what # "mac.packet"
  /\ "requestPacket" \notin Range(tsMessages)

IsPromised(m) ==
  /\ m.what \in RequestKinds => m.class \in Ready
  /\ m.what \in {"algorithm.requestPacket", "queue.requestPacket"} =>
       m.length = MaxTransferableBits(m.class)
  /\ m.what \in PacketKinds => m.length \in Lengths /\ Fits(m.length, MaxTransferableBits(m.class))
  /\ \A r \in Ready : r # m.class => Precedes(m.class, r)

ChainInv ==
  \A m \in Range(messages) : m.what \in ChainKinds => StandsStillFor(m) /\ IsPromised(m)

MacInv ==
  /\ transmitState = "TX_IDLE_STATE" <=> macTimer = Never
  /\ sending # None => transmitState = "TRANSMITTING_STATE"

\* The list advances once per tick, and the gates are told before the next one.
GateInv ==
  /\ tick = Never <=> Update \in Range(messages)
  /\ (\E m \in Range(messages) : m.what \in ChangeKinds) => tick \notin {0, Never} /\ ~EarlierIsDue
  /\ gateOpen \in {Queues, ControlList[entry].gates}

\* The frame on the link ends before its gate closes.
SlotInv ==
  sending \in LengthAwareGates =>
    \A n \in 0 .. Len(ControlList) - 1 :
      sending \notin ControlList[NextIndex(entry, n)].gates => macTimer <= TimeUntilEntry[n]

PortInv == PortTypes /\ RequestInv /\ ChainInv /\ MacInv /\ GateInv /\ SlotInv

AnyArrival == \E q \in Queues, length \in Lengths : Arrive(q, length)

-----------------------------------------------------------------------------
\* What the handlers do to the event queue

Events == Notices \cup Chains

LEMMA EventsAre ==
  /\ \A m \in Notices : m.what \notin ChainKinds
  /\ \A m \in Chains : m.what \in ChainKinds /\ m.what \notin ChangeKinds /\ m # Update
                     /\ m.class \in Queues /\ m.length \in Nat
  /\ \A m \in Notices : m.what \in ChangeKinds \/ m.what \in {"algorithm.packetEnqueued", "gate.packetEnqueued"}
                       => m # Update /\ m.class \in Queues /\ m = Message(m.what, m.class)
  /\ Update \in Notices /\ Update.what \notin ChangeKinds
  /\ \A m \in Notices : m.what = "gateController.updateSchedule" => m = Update
  /\ \A q \in Queues : /\ Message("algorithm.packetEnqueued", q) \in Notices
                       /\ Message("gate.packetEnqueued", q) \in Notices
                       /\ Message("gate.stateChanged", q) \in Notices
  /\ \A q \in ShapedQueues : Message("algorithm.gateStateChanged", q) \in Notices
  /\ \A w \in ChainKinds, q \in Queues, l \in Nat : Frame(w, q, l) \in Chains
  /\ \A q \in Queues : Message("gate.requestPacket", q) \in Chains
<1>1. Update = [what |-> "gateController.updateSchedule", class |-> None, length |-> 0]
  BY DEF Update, Message
<1>2. ASSUME NEW m \in Notices
      PROVE  /\ m.what \notin ChainKinds
             /\ m.what \in ChangeKinds \/ m.what \in {"algorithm.packetEnqueued", "gate.packetEnqueued"}
                  => m # Update /\ m.class \in Queues /\ m = Message(m.what, m.class)
             /\ m.what = "gateController.updateSchedule" => m = Update
  <2>1. CASE m = Update
    BY <1>1, <2>1 DEF ChainKinds, RequestKinds, PacketKinds, ChangeKinds
  <2>2. CASE m \in [what : {"algorithm.packetEnqueued", "gate.packetEnqueued", "gate.stateChanged"},
                    class : Queues, length : {0}]
    <3>1. m = Message(m.what, m.class) /\ m.class \in Queues
      BY <2>2 DEF Message
    <3>2. m.what \in {"algorithm.packetEnqueued", "gate.packetEnqueued", "gate.stateChanged"}
      BY <2>2
    <3>3. m.what # Update.what
      BY <1>1, <3>2
    <3>4. m.what \notin ChainKinds
      BY <3>2 DEF ChainKinds, RequestKinds, PacketKinds
    <3>. QED
      BY <1>1, <3>1, <3>2, <3>3, <3>4
  <2>3. CASE m \in [what : {"algorithm.gateStateChanged"}, class : ShapedQueues, length : {0}]
    <3>1. m = Message(m.what, m.class) /\ m.class \in Queues
      BY <2>3, QueuingAssumption DEF Message
    <3>2. m.what = "algorithm.gateStateChanged"
      BY <2>3
    <3>3. m.what # Update.what
      BY <1>1, <3>2
    <3>4. m.what \notin ChainKinds
      BY <3>2 DEF ChainKinds, RequestKinds, PacketKinds
    <3>. QED
      BY <1>1, <3>1, <3>2, <3>3, <3>4
  <2>. QED
    BY <2>1, <2>2, <2>3 DEF Notices
<1>3. \A m \in Chains : m.what \in ChainKinds /\ m.what \notin ChangeKinds /\ m # Update
                     /\ m.class \in Queues /\ m.length \in Nat
  BY <1>1 DEF Chains, ChainKinds, RequestKinds, PacketKinds, ChangeKinds
<1>4. Update \in Notices /\ Update.what \notin ChangeKinds
  BY <1>1 DEF Notices, ChangeKinds
<1>5. \A q \in Queues : /\ Message("algorithm.packetEnqueued", q) \in Notices
                       /\ Message("gate.packetEnqueued", q) \in Notices
                       /\ Message("gate.stateChanged", q) \in Notices
  BY DEF Notices, Message
<1>6. \A q \in ShapedQueues : Message("algorithm.gateStateChanged", q) \in Notices
  BY DEF Notices, Message
<1>7. \A w \in ChainKinds, q \in Queues, l \in Nat : Frame(w, q, l) \in Chains
  BY DEF Chains, Frame
<1>8. \A q \in Queues : Message("gate.requestPacket", q) \in Chains
  BY DEF Chains, Message, ChainKinds, RequestKinds
<1>. QED
  BY <1>2, <1>3, <1>4, <1>5, <1>6, <1>7, <1>8

LEMMA HandledIs ==
  ASSUME PortTypes, NEW what, NEW q, Handles(what, q)
  PROVE  /\ ~EarlierIsDue
         /\ messages # <<>>
         /\ Head(messages) \in Range(messages) /\ Head(messages) \in Events
         /\ Head(messages).what = what /\ Head(messages).class = q
         /\ Tail(messages) \in Seq(Events) /\ IsInjective(Tail(messages))
         /\ Range(Tail(messages)) = Range(messages) \ {Head(messages)}
         /\ \A m : InOrder(Tail(messages), messages, m)
<1>1. messages \in Seq(Events) /\ IsInjective(messages)
  BY DEF PortTypes, Events
<1>2. /\ ~EarlierIsDue /\ messages # <<>>
      /\ Head(messages).what = what /\ Head(messages).class = q
  BY DEF Handles
<1>. QED
  BY <1>1, <1>2, TailIs

LEMMA BecomesIs ==
  ASSUME PortTypes, NEW what, NEW q, Handles(what, q), NEW m \in Events, Becomes(m)
  PROVE  /\ messages' \in Seq(Events) /\ IsInjective(messages')
         /\ Range(messages') = (Range(messages) \ {Head(messages)}) \cup {m}
         /\ tsMessages' = tsMessages
         /\ InOrder(messages', messages, m)
<1>1. /\ Tail(messages) \in Seq(Events) /\ IsInjective(Tail(messages))
      /\ Range(Tail(messages)) = Range(messages) \ {Head(messages)}
      /\ InOrder(Tail(messages), messages, m)
  BY HandledIs
<1>. DEFINE t == Tail(messages)
<1>2. messages' = Reschedule(t, m) /\ tsMessages' = tsMessages
  BY DEF Becomes
<1>3. /\ t \in Seq(Events) /\ IsInjective(t) /\ Range(t) = Range(messages) \ {Head(messages)}
      /\ InOrder(t, messages, m)
  BY <1>1
<1>. HIDE DEF t
<1>4. ASSUME NEW s \in Seq(Events), IsInjective(s)
      PROVE  /\ Reschedule(s, m) \in Seq(Events) /\ IsInjective(Reschedule(s, m))
             /\ Range(Reschedule(s, m)) = Range(s) \cup {m}
             /\ InOrder(Reschedule(s, m), s, m)
  BY <1>4, RescheduleIs
<1>5. InOrder(Reschedule(t, m), messages, m)
  BY <1>3, <1>4, InOrderThrough
<1>. QED
  BY <1>2, <1>3, <1>4, <1>5

LEMMA EndsIs ==
  ASSUME PortTypes, NEW what, NEW q, Handles(what, q), Ends
  PROVE  /\ messages' \in Seq(Events) /\ IsInjective(messages')
         /\ Range(messages') = Range(messages) \ {Head(messages)}
         /\ tsMessages' = tsMessages
         /\ \A m : InOrder(messages', messages, m)
BY HandledIs DEF Ends

LEMMA NotifyIs ==
  ASSUME PortTypes, NEW what, NEW q, Handles(what, q), Notify("packetEnqueued")
  PROVE  /\ messages' \in Seq(Events) /\ IsInjective(messages')
         /\ Range(messages') = Range(messages) \ {Head(messages)}
         /\ tsMessages' \in Seq(OwnKinds) /\ IsInjective(tsMessages')
         /\ Range(tsMessages') = Range(tsMessages) \cup {"packetEnqueued"}
         /\ \A m : InOrder(messages', messages, m)
<1>1. tsMessages \in Seq(OwnKinds) /\ IsInjective(tsMessages) /\ "packetEnqueued" \in OwnKinds
  BY DEF PortTypes, OwnKinds
<1>2. messages' = Tail(messages) /\ tsMessages' = Reschedule(tsMessages, "packetEnqueued")
  BY DEF Notify
<1>3. /\ tsMessages' \in Seq(OwnKinds) /\ IsInjective(tsMessages')
      /\ Range(tsMessages') = Range(tsMessages) \cup {"packetEnqueued"}
  BY <1>1, <1>2, RescheduleIs
<1>. QED
  BY <1>2, <1>3, HandledIs

LEMMA ToSelfIs ==
  ASSUME PortTypes, NEW m \in Events, ToSelf(m)
  PROVE  /\ messages' \in Seq(Events) /\ IsInjective(messages')
         /\ Range(messages') = Range(messages) \cup {m}
         /\ tsMessages' = tsMessages
         /\ InOrder(messages', messages, m)
<1>1. messages \in Seq(Events) /\ IsInjective(messages)
  BY DEF PortTypes, Events
<1>. QED
  BY <1>1, RescheduleIs DEF ToSelf

\* The transmission selection handles its own messages when there are no others.
LEMMA HandledOwnIs ==
  ASSUME PortTypes, NEW kind, HandlesOwn(kind)
  PROVE  /\ ~TimerIsDue /\ messages = <<>> /\ Range(messages) = {}
         /\ kind \in Range(tsMessages)
         /\ Tail(tsMessages) \in Seq(OwnKinds) /\ IsInjective(Tail(tsMessages))
         /\ Range(Tail(tsMessages)) = Range(tsMessages) \ {kind}
<1>1. tsMessages \in Seq(OwnKinds) /\ IsInjective(tsMessages)
  BY DEF PortTypes
<1>2. ~TimerIsDue /\ messages = <<>> /\ tsMessages # <<>> /\ Head(tsMessages) = kind
  BY DEF HandlesOwn
<1>. QED
  BY <1>1, <1>2, TailIs, OnlyMessage

-----------------------------------------------------------------------------
\* What the handlers do to a shaper

LEMMA NewShaperStates ==
  /\ \A c \in Int : Idle(c) \in ShaperStates /\ Idle(c).timer # 0
  /\ \A c \in Int : Earning(c) \in ShaperStates /\ Earning(c).timer # 0
  /\ \A c \in Int, t \in Nat \ {0} : Spending(c, t) \in ShaperStates /\ Spending(c, t).timer # 0
BY DEF Idle, Earning, Spending, ShaperStates, Ticks, Never

LEMMA CreditIs ==
  ASSUME PortTypes, NEW q \in ShapedQueues
  PROVE  /\ shaper[q] \in ShaperStates /\ shaper[q].credit \in Int /\ shaper[q].age \in Nat
         /\ shaper[q].timer \in Ticks
         /\ CreditOf(q) \in Int /\ CreditOf(q) <= shaper[q].credit + shaper[q].age
<1>1. shaper[q] \in ShaperStates
  BY DEF PortTypes
<1>2. shaper[q].credit \in Int /\ shaper[q].age \in Nat /\ shaper[q].timer \in Ticks
  BY <1>1 DEF ShaperStates
<1>3. MaxCredit \in Int
  BY QueuingAssumption
<1>. DEFINE c == shaper[q].credit + shaper[q].age
<1>4. c \in Int
  BY <1>2
<1>5. CreditOf(q) = Min({c, MaxCredit})
  BY DEF CreditOf
<1>. HIDE DEF c
<1>6. CreditOf(q) \in Int /\ CreditOf(q) <= c
  BY <1>3, <1>4, <1>5, MinOfTwo
<1>. QED
  BY <1>1, <1>2, <1>6 DEF c

LEMMA ShaperBecomesIs ==
  ASSUME PortTypes, NEW q \in ShapedQueues, NEW s \in ShaperStates, ShaperBecomes(q, s)
  PROVE  /\ shaper' \in [ShapedQueues -> ShaperStates]
         /\ shaper'[q] = s
         /\ \A r \in ShapedQueues : r # q => shaper'[r] = shaper[r]
BY DEF PortTypes, ShaperBecomes

\* A new state of a shaper is never due at once.
LEMMA NothingElseIsDue ==
  ASSUME PortTypes, NEW q \in ShapedQueues, NEW s \in ShaperStates, ShaperBecomes(q, s),
         s.timer # 0, UNCHANGED macVars
  PROVE  EarlierIsDue' => EarlierIsDue
<1>1. /\ shaper'[q].timer # 0
      /\ \A r \in ShapedQueues : r # q => shaper'[r] = shaper[r]
  BY ShaperBecomesIs
<1>. QED
  BY <1>1 DEF EarlierIsDue, macVars

-----------------------------------------------------------------------------
\* What a request was promised stays true as long as nothing it rests on changes.

LEMMA BitsNext ==
  ASSUME UNCHANGED gateVars
  PROVE  /\ TimeUntilEntry' = TimeUntilEntry
         /\ \A q : MaxTransferableBits(q)' = MaxTransferableBits(q)
<1>1. entry' = entry /\ tick' = tick
  BY DEF gateVars
<1>2. TimeUntilEntry' = TimeUntilEntry
  BY <1>1, TimeUntilEntryIs, TimeUntilEntryIsNext
<1>3. \A q : CalculateMaxBit(q)' = CalculateMaxBit(q)
  BY <1>1, <1>2 DEF CalculateMaxBit
<1>. QED
  BY <1>2, <1>3 DEF MaxTransferableBits

LEMMA ReadyNext ==
  ASSUME UNCHANGED gateVars, NEW c,
         \A r \in Queues : r # c => queue'[r] = queue[r],
         \A r \in ShapedQueues : r # c => shaper'[r] = shaper[r]
  PROVE  \A r : r # c => (r \in Ready' <=> r \in Ready)
<1>. SUFFICES ASSUME NEW r, r # c, r \in Queues PROVE IsEmpty(r)' <=> IsEmpty(r)
  BY DEF Ready
<1>1. MaxTransferableBits(r)' = MaxTransferableBits(r) /\ gateOpen' = gateOpen
  BY BitsNext DEF gateVars
<1>2. queue'[r] = queue[r] /\ (r \in ShapedQueues => shaper'[r] = shaper[r])
  OBVIOUS
<1>. QED
  BY <1>1, <1>2 DEF IsEmpty, AlgorithmIsEmpty, InDebt, QueueIsEmpty

LEMMA BitsAre ==
  ASSUME PortTypes, NEW q
  PROVE  /\ MaxTransferableBits(q) \in Nat /\ MaxTransferableBits(q) <= MtuTime
         /\ q \in LengthAwareGates =>
              \A n \in 0 .. Len(ControlList) - 1 :
                q \notin ControlList[NextIndex(entry, n)].gates
                  => MaxTransferableBits(q) <= TimeUntilEntry[n]
<1>1. entry \in 1 .. Len(ControlList) /\ tick \in Ticks /\ MtuTime \in Nat
  BY QueuingAssumption DEF PortTypes
<1>2. CalculateMaxBit(q) = BitsFrom(q, entry, tick) /\ TimeUntilEntry = UntilFrom(entry, tick)
  BY CalculateMaxBitIs, TimeUntilEntryIs
<1>. QED
  BY <1>1, <1>2, BitsEndInSlot DEF MaxTransferableBits

LEMMA ChosenIs ==
  ASSUME Ready # {}
  PROVE  Chosen \in Ready /\ \A r \in Ready : Precedes(Chosen, r)
<1>1. Ready \subseteq Queues /\ Queues \subseteq Nat /\ IsFiniteSet(Queues)
  BY QueuingAssumption DEF Ready
<1>. DEFINE express == Ready \cap ExpressQueues
<1>2. /\ Ready \subseteq Nat /\ IsFiniteSet(Ready)
      /\ express \subseteq Nat /\ IsFiniteSet(express)
  BY <1>1, FS_Subset
<1>3. CASE express # {}
  <2>1. Chosen = Max(express)
    BY <1>3 DEF Chosen
  <2>. HIDE DEF express
  <2>2. Chosen \in express /\ \A r \in express : r <= Chosen
    BY <1>2, <1>3, <2>1, MaxIs
  <2>. QED
    BY <2>2 DEF express, Precedes
<1>4. CASE express = {}
  <2>1. Chosen = Max(Ready)
    BY <1>4 DEF Chosen
  <2>2. Chosen \in Ready /\ \A r \in Ready : r <= Chosen
    BY <1>2, <2>1, MaxIs
  <2>. QED
    BY <1>4, <2>2 DEF Precedes
<1>. QED
  BY <1>3, <1>4

-----------------------------------------------------------------------------
\* Two kinds of steps

NothingTravels == \A m \in Range(messages) : m.what \notin ChainKinds

\* While a request travels, nothing else is pending.
LEMMA TravelsAlone ==
  ASSUME PortInv
  PROVE  /\ messages # <<>> /\ Head(messages).what \notin ChainKinds => NothingTravels
         /\ arrivals > 0 \/ TimerIsDue \/ messages = <<>> => NothingTravels
         /\ messages # <<>> /\ Head(messages).what \in ChainKinds =>
              /\ Head(messages) \in Chains /\ messages = <<Head(messages)>>
              /\ StandsStillFor(Head(messages)) /\ IsPromised(Head(messages))
<1>1. messages \in Seq(Events) /\ IsInjective(messages)
  BY DEF PortInv, PortTypes, Events
<1>2. ASSUME NEW m \in Range(messages), m.what \in ChainKinds
      PROVE  messages = <<m>> /\ StandsStillFor(m) /\ IsPromised(m)
  BY <1>2 DEF PortInv, ChainInv, StandsStillFor
<1>3. messages # <<>> /\ Head(messages).what \notin ChainKinds => NothingTravels
  BY <1>2, OnlyMessage DEF NothingTravels
<1>4. arrivals > 0 \/ TimerIsDue \/ messages = <<>> => NothingTravels
  BY <1>2, OnlyMessage DEF NothingTravels, StandsStillFor
<1>5. messages # <<>> => Head(messages) \in Range(messages) /\ Head(messages) \in Events
  BY <1>1, TailIs
<1>6. \A m \in Events : m.what \in ChainKinds => m \in Chains
  BY EventsAre DEF Events
<1>. QED
  BY <1>2, <1>3, <1>4, <1>5, <1>6

\* A step that only passes on a notice keeps everything.
LEMMA NoticeStep ==
  ASSUME PortInv, NothingTravels,
         UNCHANGED <<gateVars, tsVars, macVars>>,
         queue' \in [Queues -> Seq(Lengths)],
         shaper' \in [ShapedQueues -> ShaperStates],
         arrivals' \in 0 .. MaxArrivals,
         messages' \in Seq(Events), IsInjective(messages'),
         tsMessages' \in Seq(OwnKinds), IsInjective(tsMessages'),
         "requestPacket" \in Range(tsMessages') <=> "requestPacket" \in Range(tsMessages),
         \A m \in Range(messages') : m \notin Range(messages) =>
           /\ m \in Notices /\ m # Update
           /\ m.what \in ChangeKinds => \E n \in Range(messages) : n.what \in ChangeKinds,
         Update \in Range(messages) => Update \in Range(messages'),
         EarlierIsDue' => EarlierIsDue
  PROVE  PortInv'
<1>1. /\ gateOpen' = gateOpen /\ entry' = entry /\ tick' = tick
      /\ packetRequestedFromUs' = packetRequestedFromUs
      /\ packetRequestedFromInputs' = packetRequestedFromInputs
      /\ transmitState' = transmitState /\ macTimer' = macTimer /\ sending' = sending
  BY DEF gateVars, tsVars, macVars
<1>2. PortTypes /\ RequestInv /\ ChainInv /\ MacInv /\ GateInv /\ SlotInv
  BY DEF PortInv
<1>3. PortTypes'
  BY <1>1, <1>2 DEF PortTypes, Events
<1>4. \A m \in Range(messages') : m.what \notin ChainKinds
  BY EventsAre DEF NothingTravels
<1>5. ChainInv'
  BY <1>4 DEF ChainInv
<1>6. MacInv'
  BY <1>1, <1>2 DEF MacInv
<1>7. \A m \in Range(messages) : m.what # "mac.packet"
  BY DEF NothingTravels, ChainKinds, PacketKinds
<1>8. RequestInv'
  BY <1>1, <1>2, <1>4, <1>7 DEF RequestInv, NothingTravels
<1>9. GateInv'
  <2>1. Update \in Range(messages') <=> Update \in Range(messages)
    OBVIOUS
  <2>2. (\E m \in Range(messages') : m.what \in ChangeKinds)
          => \E m \in Range(messages) : m.what \in ChangeKinds
    OBVIOUS
  <2>. QED
    BY <1>1, <1>2, <2>1, <2>2 DEF GateInv
<1>10. SlotInv'
  BY <1>1, <1>2, BitsNext DEF SlotInv
<1>. QED
  BY <1>3, <1>5, <1>6, <1>8, <1>9, <1>10 DEF PortInv

\* So does a step that carries a request, or its frame, from one module to the next.
LEMMA ChainStep ==
  ASSUME PortInv, NEW m \in Chains, messages = <<m>>, StandsStillFor(m),
         NEW n \in Chains, messages' = <<n>>, IsPromised(n)',
         UNCHANGED <<gateVars, macVars, tsMessages, arrivals, packetRequestedFromInputs>>,
         packetRequestedFromUs' = (n.what # "mac.packet"),
         queue' \in [Queues -> Seq(Lengths)],
         shaper' \in [ShapedQueues -> ShaperStates],
         ~EarlierIsDue'
  PROVE  PortInv'
<1>1. /\ gateOpen' = gateOpen /\ entry' = entry /\ tick' = tick
      /\ packetRequestedFromInputs' = packetRequestedFromInputs
      /\ transmitState' = transmitState /\ macTimer' = macTimer /\ sending' = sending
      /\ tsMessages' = tsMessages /\ arrivals' = arrivals
  BY DEF gateVars, macVars
<1>2. PortTypes /\ RequestInv /\ ChainInv /\ MacInv /\ GateInv /\ SlotInv
  BY DEF PortInv
<1>3. /\ Range(messages) = {m} /\ Range(messages') = {n} /\ IsInjective(messages')
      /\ m # Update /\ n # Update /\ n.what \in ChainKinds /\ n.what \notin ChangeKinds
  BY OnlyMessage, EventsAre
<1>4. PortTypes'
  <2>1. messages' \in Seq(Notices \cup Chains)
    OBVIOUS
  <2>2. packetRequestedFromUs' \in BOOLEAN
    OBVIOUS
  <2>. QED
    BY <1>1, <1>2, <1>3, <2>1, <2>2 DEF PortTypes
<1>5. StandsStillFor(n)'
  <2>1. /\ arrivals = 0 /\ tick # 0 /\ transmitState = "TX_IDLE_STATE"
        /\ ~packetRequestedFromInputs /\ "requestPacket" \notin Range(tsMessages)
    BY DEF StandsStillFor, TimerIsDue
  <2>2. ~TimerIsDue'
    BY <1>1, <2>1 DEF TimerIsDue
  <2>3. packetRequestedFromUs' <=> n.what # "mac.packet"
    OBVIOUS
  <2>. QED
    BY <1>1, <2>1, <2>2, <2>3 DEF StandsStillFor
<1>6. ChainInv'
  BY <1>3, <1>5 DEF ChainInv
<1>7. RequestInv'
  <2>1. /\ transmitState' = "TX_IDLE_STATE" /\ ~packetRequestedFromInputs'
        /\ "requestPacket" \notin Range(tsMessages')
        /\ packetRequestedFromUs' <=> n.what # "mac.packet"
    BY <1>5 DEF StandsStillFor
  <2>. QED
    BY <1>3, <2>1 DEF RequestInv
<1>8. MacInv'
  BY <1>1, <1>2 DEF MacInv
<1>9. GateInv'
  BY <1>1, <1>2, <1>3 DEF GateInv
<1>10. SlotInv'
  BY <1>1, <1>2, BitsNext DEF SlotInv
<1>. QED
  BY <1>4, <1>6, <1>7, <1>8, <1>9, <1>10 DEF PortInv

\* A handler that fails changes nothing else.
LEMMA NothingChanges ==
  ASSUME PortInv,
         UNCHANGED <<queue, gateVars, tsVars, shaper, macVars, messageVars, arrivals>>
  PROVE  PortInv'
<1>1. /\ queue' = queue /\ shaper' = shaper /\ arrivals' = arrivals
      /\ messages' = messages /\ tsMessages' = tsMessages
      /\ UNCHANGED gateVars /\ UNCHANGED tsVars /\ UNCHANGED macVars
  BY DEF messageVars
<1>2. /\ queue \in [Queues -> Seq(Lengths)] /\ shaper \in [ShapedQueues -> ShaperStates]
      /\ arrivals \in 0 .. MaxArrivals /\ messages \in Seq(Events) /\ IsInjective(messages)
      /\ tsMessages \in Seq(OwnKinds) /\ IsInjective(tsMessages)
  BY DEF PortInv, PortTypes, Events
<1>3. EarlierIsDue' <=> EarlierIsDue
  BY <1>1 DEF EarlierIsDue, macVars
<1>4. CASE NothingTravels
  BY <1>1, <1>2, <1>3, <1>4, NoticeStep
<1>5. CASE ~NothingTravels
  <2>1. messages # <<>> /\ Head(messages).what \in ChainKinds
    BY <1>5, TravelsAlone
  <2>2. PICK m \in Chains : messages = <<m>> /\ StandsStillFor(m) /\ IsPromised(m)
    BY <2>1, TravelsAlone
  <2>3. Ready' = Ready
    <3>1. \A r \in Queues : IsEmpty(r)' <=> IsEmpty(r)
      BY <1>1, BitsNext DEF IsEmpty, AlgorithmIsEmpty, InDebt, QueueIsEmpty, gateVars
    <3>. QED
      BY <3>1 DEF Ready
  <2>4. IsPromised(m)'
    BY <1>1, <2>2, <2>3, BitsNext DEF IsPromised
  <2>5. packetRequestedFromUs' = (m.what # "mac.packet") /\ ~EarlierIsDue'
    <3>1. packetRequestedFromUs \in BOOLEAN /\ packetRequestedFromUs' = packetRequestedFromUs
      BY <1>1 DEF PortInv, PortTypes, tsVars
    <3>2. ~EarlierIsDue /\ (packetRequestedFromUs <=> m.what # "mac.packet")
      BY <2>2 DEF StandsStillFor, TimerIsDue
    <3>. QED
      BY <1>3, <3>1, <3>2
  <2>6. messages' = <<m>> /\ UNCHANGED <<gateVars, macVars, tsMessages, arrivals, packetRequestedFromInputs>>
    BY <1>1, <2>2 DEF tsVars
  <2>. QED
    BY <1>1, <1>2, <2>2, <2>4, <2>5, <2>6, ChainStep
<1>. QED
  BY <1>4, <1>5

-----------------------------------------------------------------------------
\* Steps of notices

LEMMA ArriveKeeps ==
  ASSUME PortInv, NEW q \in Queues, NEW length \in Lengths, Arrive(q, length)
  PROVE  PortInv'
<1>. DEFINE m == Message("algorithm.packetEnqueued", q)
<1>1. PortTypes
  BY DEF PortInv
<1>2. /\ arrivals > 0 /\ arrivals' = arrivals - 1
      /\ queue' = (IF HasRoom(q, length) THEN [queue EXCEPT ![q] = Append(@, length)] ELSE queue)
      /\ ToSelf(m)
      /\ UNCHANGED <<gateVars, tsVars, shaper, macVars, failed>>
  BY DEF Arrive
<1>3. m \in Notices /\ m \in Events /\ m # Update /\ m.what \notin ChangeKinds
  BY EventsAre DEF Events, Message, ChangeKinds
<1>. HIDE DEF m
<1>4. NothingTravels
  BY <1>2, TravelsAlone
<1>5. queue' \in [Queues -> Seq(Lengths)] /\ arrivals' \in 0 .. MaxArrivals
  <2>1. arrivals' \in 0 .. MaxArrivals
    BY <1>1, <1>2, QueuingAssumption DEF PortTypes
  <2>2. queue \in [Queues -> Seq(Lengths)] /\ Append(queue[q], length) \in Seq(Lengths)
    BY <1>1 DEF PortTypes
  <2>. QED
    BY <1>2, <2>1, <2>2
<1>6. EarlierIsDue' <=> EarlierIsDue
  BY <1>2 DEF EarlierIsDue, macVars
<1>7. /\ messages' \in Seq(Events) /\ IsInjective(messages')
      /\ Range(messages') = Range(messages) \cup {m} /\ tsMessages' = tsMessages
  BY <1>1, <1>2, <1>3, ToSelfIs
<1>8. /\ UNCHANGED <<gateVars, tsVars, macVars>> /\ shaper' \in [ShapedQueues -> ShaperStates]
      /\ tsMessages' \in Seq(OwnKinds) /\ IsInjective(tsMessages')
  BY <1>1, <1>2, <1>7 DEF PortTypes
<1>. QED
  BY <1>3, <1>4, <1>5, <1>6, <1>7, <1>8, NoticeStep

\* A handler of a notice that sends a notice, or none, and perhaps notifies the
\* transmission selection.
LEMMA NoticeHandler ==
  ASSUME PortInv, NEW what, NEW q, Handles(what, q), what \notin ChainKinds,
         what # "gateController.updateSchedule",
         \A m \in Range(messages') : m \notin Range(messages) =>
           m \in Notices /\ m # Update /\ (m.what \in ChangeKinds => what \in ChangeKinds),
         \A m \in Range(messages) : m # Head(messages) => m \in Range(messages'),
         messages' \in Seq(Events), IsInjective(messages'),
         tsMessages' \in Seq(OwnKinds), IsInjective(tsMessages'),
         Range(tsMessages') \ {"packetEnqueued"} = Range(tsMessages) \ {"packetEnqueued"},
         UNCHANGED <<queue, gateVars, tsVars, macVars, arrivals>>,
         shaper' \in [ShapedQueues -> ShaperStates], EarlierIsDue' => EarlierIsDue
  PROVE  PortInv'
<1>1. PortTypes
  BY DEF PortInv
<1>2. /\ Head(messages) \in Range(messages) /\ Head(messages).what = what
      /\ messages # <<>> /\ Head(messages) # Update
  <2>1. Update.what = "gateController.updateSchedule"
    BY DEF Update, Message
  <2>. QED
    BY <1>1, <2>1, HandledIs
<1>3. NothingTravels
  BY <1>2, TravelsAlone
<1>4. "requestPacket" \in Range(tsMessages') <=> "requestPacket" \in Range(tsMessages)
  <2>1. "requestPacket" # "packetEnqueued"
    OBVIOUS
  <2>. QED
    BY <2>1
<1>5. \A m \in Range(messages') : m \notin Range(messages) =>
        /\ m \in Notices /\ m # Update
        /\ m.what \in ChangeKinds => \E n \in Range(messages) : n.what \in ChangeKinds
  BY <1>2
<1>6. Update \in Range(messages) => Update \in Range(messages')
  BY <1>2
<1>7. queue' \in [Queues -> Seq(Lengths)] /\ arrivals' \in 0 .. MaxArrivals
  BY <1>1 DEF PortTypes
<1>8. UNCHANGED <<gateVars, tsVars, macVars>>
  OBVIOUS
<1>. QED
  BY <1>3, <1>4, <1>5, <1>6, <1>7, <1>8, NoticeStep

LEMMA AlgorithmPacketEnqueuedKeeps ==
  ASSUME PortInv, NEW q \in Queues, AlgorithmPacketEnqueued(q)
  PROVE  PortInv'
<1>. DEFINE m == Message("gate.packetEnqueued", q)
<1>1. /\ Handles("algorithm.packetEnqueued", q) /\ Becomes(m)
      /\ UNCHANGED <<queue, gateVars, tsVars, shaper, macVars, arrivals>>
  BY DEF AlgorithmPacketEnqueued
<1>2. m \in Notices /\ m \in Events /\ m # Update /\ m.what \notin ChangeKinds
  BY EventsAre DEF Events, Message, ChangeKinds
<1>. HIDE DEF m
<1>3. PortTypes /\ "algorithm.packetEnqueued" \notin ChainKinds
  BY DEF PortInv, ChainKinds, RequestKinds, PacketKinds
<1>4. /\ messages' \in Seq(Events) /\ IsInjective(messages')
      /\ \A n \in Range(messages') : n \notin Range(messages) => n = m
      /\ \A n \in Range(messages) : n # Head(messages) => n \in Range(messages')
      /\ tsMessages' = tsMessages
  BY <1>1, <1>2, <1>3, BecomesIs
<1>5. /\ tsMessages' \in Seq(OwnKinds) /\ IsInjective(tsMessages')
      /\ shaper' \in [ShapedQueues -> ShaperStates] /\ (EarlierIsDue' <=> EarlierIsDue)
  BY <1>1, <1>3, <1>4 DEF PortTypes, EarlierIsDue, macVars
<1>. QED
  BY <1>1, <1>2, <1>3, <1>4, <1>5, NoticeHandler

LEMMA GatePacketEnqueuedKeeps ==
  ASSUME PortInv, NEW q \in Queues, GatePacketEnqueued(q)
  PROVE  PortInv'
<1>1. /\ Handles("gate.packetEnqueued", q)
      /\ Notify("packetEnqueued") \/ Ends
      /\ UNCHANGED <<queue, gateVars, tsVars, shaper, macVars, arrivals>>
  BY DEF GatePacketEnqueued
<1>2. PortTypes /\ "gate.packetEnqueued" \notin ChainKinds
  BY DEF PortInv, ChainKinds, RequestKinds, PacketKinds
<1>3. tsMessages \in Seq(OwnKinds) /\ IsInjective(tsMessages)
  BY <1>2 DEF PortTypes
<1>4. /\ messages' \in Seq(Events) /\ IsInjective(messages')
      /\ Range(messages') = Range(messages) \ {Head(messages)}
      /\ tsMessages' \in Seq(OwnKinds) /\ IsInjective(tsMessages')
      /\ Range(tsMessages') \ {"packetEnqueued"} = Range(tsMessages) \ {"packetEnqueued"}
  <2>1. CASE Notify("packetEnqueued")
    BY <1>1, <1>2, <2>1, NotifyIs
  <2>2. CASE Ends
    BY <1>1, <1>2, <1>3, <2>2, EndsIs
  <2>. QED
    BY <1>1, <2>1, <2>2
<1>5. shaper' \in [ShapedQueues -> ShaperStates] /\ (EarlierIsDue' <=> EarlierIsDue)
  BY <1>1, <1>2 DEF PortTypes, EarlierIsDue, macVars
<1>. QED
  BY <1>1, <1>2, <1>4, <1>5, NoticeHandler

LEMMA GateStateChangedKeeps ==
  ASSUME PortInv, NEW q \in Queues, GateStateChanged(q)
  PROVE  PortInv'
<1>. DEFINE m == Message("algorithm.gateStateChanged", q)
<1>1. /\ Handles("gate.stateChanged", q)
      /\ tsMessages' \in {tsMessages, Reschedule(tsMessages, "packetEnqueued")}
      /\ messages' = IF q \in ShapedQueues THEN Reschedule(Tail(messages), m) ELSE Tail(messages)
      /\ UNCHANGED <<queue, gateVars, tsVars, shaper, macVars, arrivals>>
  BY DEF GateStateChanged
<1>2. PortTypes /\ "gate.stateChanged" \notin ChainKinds /\ "gate.stateChanged" \in ChangeKinds
  BY DEF PortInv, ChainKinds, RequestKinds, PacketKinds, ChangeKinds
<1>3. q \in ShapedQueues => m \in Notices /\ m \in Events /\ m # Update
  <2>1. m.what = "algorithm.gateStateChanged"
    BY DEF Message
  <2>2. m.what # Update.what
    BY <2>1 DEF Update, Message
  <2>. QED
    BY <2>2, EventsAre DEF Events
<1>. HIDE DEF m
<1>4. tsMessages \in Seq(OwnKinds) /\ IsInjective(tsMessages) /\ "packetEnqueued" \in OwnKinds
  BY <1>2 DEF PortTypes, OwnKinds
<1>5. /\ tsMessages' \in Seq(OwnKinds) /\ IsInjective(tsMessages')
      /\ Range(tsMessages') \ {"packetEnqueued"} = Range(tsMessages) \ {"packetEnqueued"}
  <2>1. ASSUME NEW s \in Seq(OwnKinds), IsInjective(s)
        PROVE  /\ Reschedule(s, "packetEnqueued") \in Seq(OwnKinds)
               /\ IsInjective(Reschedule(s, "packetEnqueued"))
               /\ Range(Reschedule(s, "packetEnqueued")) = Range(s) \cup {"packetEnqueued"}
    BY <1>4, <2>1, RescheduleIs
  <2>2. CASE tsMessages' = tsMessages
    BY <1>4, <2>2
  <2>3. CASE tsMessages' = Reschedule(tsMessages, "packetEnqueued")
    BY <1>4, <2>1, <2>3
  <2>. QED
    BY <1>1, <2>2, <2>3
<1>6. /\ messages' \in Seq(Events) /\ IsInjective(messages')
      /\ \A n \in Range(messages') : n \notin Range(messages) => q \in ShapedQueues /\ n = m
      /\ \A n \in Range(messages) : n # Head(messages) => n \in Range(messages')
  <2>1. /\ Tail(messages) \in Seq(Events) /\ IsInjective(Tail(messages))
        /\ Range(Tail(messages)) = Range(messages) \ {Head(messages)}
    BY <1>1, <1>2, HandledIs
  <2>2. ASSUME NEW s \in Seq(Events), IsInjective(s), m \in Events
        PROVE  /\ Reschedule(s, m) \in Seq(Events) /\ IsInjective(Reschedule(s, m))
               /\ Range(Reschedule(s, m)) = Range(s) \cup {m}
    BY <2>2, RescheduleIs
  <2>3. CASE q \in ShapedQueues
    BY <1>1, <1>3, <2>1, <2>2, <2>3
  <2>4. CASE q \notin ShapedQueues
    BY <1>1, <2>1, <2>4
  <2>. QED
    BY <2>3, <2>4
<1>7. shaper' \in [ShapedQueues -> ShaperStates] /\ (EarlierIsDue' <=> EarlierIsDue)
  BY <1>1, <1>2 DEF PortTypes, EarlierIsDue, macVars
<1>. QED
  BY <1>1, <1>2, <1>3, <1>5, <1>6, <1>7, NoticeHandler

LEMMA ShaperPacketEnqueuedKeeps ==
  ASSUME PortInv, NEW q \in ShapedQueues, ShaperPacketEnqueued(q)
  PROVE  PortInv'
<1>. DEFINE m == Message("gate.packetEnqueued", q)
            starts == shaper[q].state = "kIdle" /\ q \in gateOpen
            s == Earning(shaper[q].credit)
<1>1. Handles("algorithm.packetEnqueued", q)
  BY DEF ShaperPacketEnqueued
<1>2. PortTypes /\ "algorithm.packetEnqueued" \notin ChainKinds /\ q \in Queues
  BY QueuingAssumption DEF PortInv, ChainKinds, RequestKinds, PacketKinds
<1>3. m \in Notices /\ m \in Events /\ m # Update /\ m.what \notin ChangeKinds
  BY <1>2, EventsAre DEF Events, Message, ChangeKinds
<1>4. s \in ShaperStates /\ s.timer # 0
  BY <1>2, CreditIs, NewShaperStates
<1>5. CASE Fail
  BY <1>5, NothingChanges DEF Fail
<1>6. CASE ~Fail
  <2>1. UNCHANGED <<queue, gateVars, tsVars, macVars, arrivals>>
    BY <1>6 DEF ShaperPacketEnqueued
  <2>2. (ShaperBecomes(q, s) /\ Becomes(m)) \/ (Ends /\ UNCHANGED shaper)
    BY <1>6 DEF ShaperPacketEnqueued
  <2>. HIDE DEF m, s
  <2>3. CASE ShaperBecomes(q, s) /\ Becomes(m)
    <3>1. /\ messages' \in Seq(Events) /\ IsInjective(messages')
          /\ \A n \in Range(messages') : n \notin Range(messages) => n = m
          /\ \A n \in Range(messages) : n # Head(messages) => n \in Range(messages')
          /\ tsMessages' = tsMessages
      BY <1>1, <1>2, <1>3, <2>3, BecomesIs
    <3>2. /\ tsMessages' \in Seq(OwnKinds) /\ IsInjective(tsMessages')
      BY <1>2, <3>1 DEF PortTypes
    <3>3. shaper' \in [ShapedQueues -> ShaperStates] /\ (EarlierIsDue' => EarlierIsDue)
      BY <1>2, <1>4, <2>1, <2>3, ShaperBecomesIs, NothingElseIsDue
    <3>. QED
      BY <1>1, <1>2, <1>3, <2>1, <3>1, <3>2, <3>3, NoticeHandler
  <2>4. CASE Ends /\ UNCHANGED shaper
    <3>1. /\ messages' \in Seq(Events) /\ IsInjective(messages')
          /\ Range(messages') = Range(messages) \ {Head(messages)}
          /\ tsMessages' = tsMessages
      BY <1>1, <1>2, <2>4, EndsIs
    <3>2. /\ tsMessages' \in Seq(OwnKinds) /\ IsInjective(tsMessages')
          /\ shaper' \in [ShapedQueues -> ShaperStates] /\ (EarlierIsDue' <=> EarlierIsDue)
      BY <1>2, <2>1, <2>4, <3>1 DEF PortTypes, EarlierIsDue, macVars
    <3>. QED
      BY <1>1, <1>2, <2>1, <3>1, <3>2, NoticeHandler
  <2>. QED
    BY <2>2, <2>3, <2>4
<1>. QED
  BY <1>5, <1>6

LEMMA ShaperGateStateChangedKeeps ==
  ASSUME PortInv, NEW q \in ShapedQueues, ShaperGateStateChanged(q)
  PROVE  PortInv'
<1>1. Handles("algorithm.gateStateChanged", q)
  BY DEF ShaperGateStateChanged
<1>2. PortTypes /\ "algorithm.gateStateChanged" \notin ChainKinds
  BY DEF PortInv, ChainKinds, RequestKinds, PacketKinds
<1>3. CASE Fail
  BY <1>3, NothingChanges DEF Fail
<1>4. CASE ~Fail
  <2>1. Ends /\ UNCHANGED <<queue, gateVars, tsVars, macVars, arrivals>>
    BY <1>4 DEF ShaperGateStateChanged
  <2>2. \/ ShaperBecomes(q, Earning(shaper[q].credit))
        \/ ShaperBecomes(q, Idle(CreditOf(q)))
        \/ UNCHANGED shaper
    BY <1>4 DEF ShaperGateStateChanged
  <2>3. /\ Earning(shaper[q].credit) \in ShaperStates /\ Earning(shaper[q].credit).timer # 0
        /\ Idle(CreditOf(q)) \in ShaperStates /\ Idle(CreditOf(q)).timer # 0
    BY <1>2, CreditIs, NewShaperStates
  <2>4. shaper' \in [ShapedQueues -> ShaperStates] /\ (EarlierIsDue' => EarlierIsDue)
    <3>1. CASE UNCHANGED shaper
      BY <1>2, <2>1, <3>1 DEF PortTypes, EarlierIsDue, macVars
    <3>2. CASE ShaperBecomes(q, Earning(shaper[q].credit))
      BY <1>2, <2>1, <2>3, <3>2, ShaperBecomesIs, NothingElseIsDue
    <3>3. CASE ShaperBecomes(q, Idle(CreditOf(q)))
      BY <1>2, <2>1, <2>3, <3>3, ShaperBecomesIs, NothingElseIsDue
    <3>. QED
      BY <2>2, <3>1, <3>2, <3>3
  <2>5. /\ messages' \in Seq(Events) /\ IsInjective(messages')
        /\ Range(messages') = Range(messages) \ {Head(messages)}
        /\ tsMessages' = tsMessages
    BY <1>1, <1>2, <2>1, EndsIs
  <2>6. tsMessages' \in Seq(OwnKinds) /\ IsInjective(tsMessages')
    BY <1>2, <2>5 DEF PortTypes
  <2>. QED
    BY <1>1, <1>2, <2>1, <2>4, <2>5, <2>6, NoticeHandler
<1>. QED
  BY <1>3, <1>4

\* The timers of a shaper.
LEMMA ShaperTimerKeeps ==
  ASSUME PortInv, NEW q \in ShapedQueues, EndSpendingCredit(q) \/ ZeroCreditReached(q)
  PROVE  PortInv'
<1>. DEFINE m == Message("gate.packetEnqueued", q)
<1>1. PortTypes /\ q \in Queues
  BY QueuingAssumption DEF PortInv
<1>2. m \in Notices /\ m \in Events /\ m # Update /\ m.what \notin ChangeKinds
  BY <1>1, EventsAre DEF Events, Message, ChangeKinds
<1>3. shaper[q].timer = 0 /\ shaper[q].credit \in Int /\ NothingTravels
  <2>1. shaper[q].timer = 0
    BY DEF EndSpendingCredit, ZeroCreditReached
  <2>2. TimerIsDue
    BY <2>1 DEF TimerIsDue, EarlierIsDue
  <2>. QED
    BY <1>1, <2>1, <2>2, CreditIs, TravelsAlone
<1>4. CASE Fail
  BY <1>4, NothingChanges DEF Fail
<1>5. CASE ~Fail
  <2>1. UNCHANGED <<queue, gateVars, tsVars, macVars, arrivals>>
    BY <1>5 DEF EndSpendingCredit, ZeroCreditReached
  <2>2. \E s \in ShaperStates : s.timer # 0 /\ ShaperBecomes(q, s) /\ (ToSelf(m) \/ UNCHANGED messageVars)
    <3>1. /\ \A c \in Int : Earning(c) \in ShaperStates /\ Earning(c).timer # 0
          /\ \A c \in Int : Idle(c) \in ShaperStates /\ Idle(c).timer # 0
      BY NewShaperStates
    <3>2. \A c \in Int : OfferNext(q, c) =>
            \E s \in ShaperStates : s.timer # 0 /\ ShaperBecomes(q, s) /\ (ToSelf(m) \/ UNCHANGED messageVars)
      BY <3>1 DEF OfferNext
    <3>3. CASE EndSpendingCredit(q)
      <4>1. CASE q \in gateOpen /\ ~InDebt(q)
        BY <1>3, <3>2, <3>3, <4>1 DEF EndSpendingCredit
      <4>2. CASE ~(q \in gateOpen /\ ~InDebt(q))
        <5>1. UNCHANGED messageVars /\ ShaperBecomes(q, IF q \in gateOpen THEN Earning(shaper[q].credit)
                                                                         ELSE Idle(shaper[q].credit))
          BY <3>3, <4>2 DEF EndSpendingCredit
        <5>. QED
          BY <1>3, <3>1, <5>1
      <4>. QED
        BY <4>1, <4>2
    <3>4. CASE ZeroCreditReached(q)
      BY <1>5, <3>2, <3>4 DEF ZeroCreditReached
    <3>. QED
      BY <3>3, <3>4
  <2>. HIDE DEF m
  <2>3. PICK s \in ShaperStates : s.timer # 0 /\ ShaperBecomes(q, s) /\ (ToSelf(m) \/ UNCHANGED messageVars)
    BY <2>2
  <2>4. shaper' \in [ShapedQueues -> ShaperStates] /\ (EarlierIsDue' => EarlierIsDue)
    BY <1>1, <2>1, <2>3, ShaperBecomesIs, NothingElseIsDue
  <2>5. /\ messages' \in Seq(Events) /\ IsInjective(messages')
        /\ Range(messages') \in {Range(messages), Range(messages) \cup {m}} /\ tsMessages' = tsMessages
    <3>1. CASE ToSelf(m)
      BY <1>1, <1>2, <3>1, ToSelfIs
    <3>2. CASE UNCHANGED messageVars
      BY <1>1, <3>2 DEF PortTypes, messageVars, Events
    <3>. QED
      BY <2>3, <3>1, <3>2
  <2>6. /\ tsMessages' \in Seq(OwnKinds) /\ IsInjective(tsMessages')
        /\ queue' \in [Queues -> Seq(Lengths)] /\ arrivals' \in 0 .. MaxArrivals
    BY <1>1, <2>1, <2>5 DEF PortTypes
  <2>7. \A n \in Range(messages') : n \notin Range(messages) => n = m
    BY <2>5
  <2>8. UNCHANGED <<gateVars, tsVars, macVars>> /\ (Update \in Range(messages) => Update \in Range(messages'))
    BY <2>1, <2>5
  <2>. QED
    BY <1>2, <1>3, <2>4, <2>5, <2>6, <2>7, <2>8, NoticeStep
<1>. QED
  BY <1>4, <1>5

-----------------------------------------------------------------------------
\* Steps of a request and its frame

\* A step of the chain in which class c alone, if any, changes: what m was promised
\* is promised to n.
LEMMA PromiseStep ==
  ASSUME PortInv, NEW m \in Chains, IsPromised(m), NEW n \in Chains, n.class = m.class,
         UNCHANGED gateVars,
         \A r \in Queues : r # m.class => queue'[r] = queue[r],
         \A r \in ShapedQueues : r # m.class => shaper'[r] = shaper[r],
         n.what \in RequestKinds => m.class \in Ready',
         n.what \in {"algorithm.requestPacket", "queue.requestPacket"} =>
           n.length = MaxTransferableBits(m.class),
         n.what \in PacketKinds => n.length \in Lengths /\ Fits(n.length, MaxTransferableBits(m.class))
  PROVE  IsPromised(n)'
<1>1. MaxTransferableBits(m.class)' = MaxTransferableBits(m.class)
  BY BitsNext
<1>2. \A r : r # m.class => (r \in Ready' <=> r \in Ready)
  BY ReadyNext
<1>3. \A r \in Ready' : r # m.class => Precedes(m.class, r)
  BY <1>2 DEF IsPromised
<1>. QED
  BY <1>1, <1>3 DEF IsPromised, Fits

LEMMA ChainHandledIs ==
  ASSUME PortInv, NEW what \in ChainKinds, NEW q, Handles(what, q)
  PROVE  \E m \in Chains : /\ messages = <<m>> /\ m = Head(messages) /\ m.what = what /\ m.class = q
                           /\ StandsStillFor(m) /\ IsPromised(m)
                           /\ q \in Queues /\ m.length \in Nat
<1>1. PortTypes
  BY DEF PortInv
<1>2. messages # <<>> /\ Head(messages).what = what /\ Head(messages).class = q
  BY <1>1, HandledIs
<1>3. /\ Head(messages) \in Chains /\ messages = <<Head(messages)>>
      /\ StandsStillFor(Head(messages)) /\ IsPromised(Head(messages))
  BY <1>2, TravelsAlone
<1>4. Head(messages).class \in Queues /\ Head(messages).length \in Nat
  BY <1>3, EventsAre
<1>. QED
  BY <1>2, <1>3, <1>4

\* The only message is handled and sends another one.
LEMMA PassedOn ==
  ASSUME NEW m, messages = <<m>>, NEW n, Becomes(n)
  PROVE  messages' = <<n>> /\ UNCHANGED tsMessages
BY OnlyMessage DEF Becomes

\* A handler that changes no queue and no shaper.
LEMMA PassStep ==
  ASSUME PortInv, NEW m \in Chains, messages = <<m>>, StandsStillFor(m), IsPromised(m),
         NEW n \in Chains, Becomes(n), n.class = m.class,
         UNCHANGED <<queue, gateVars, packetRequestedFromInputs, shaper, macVars, arrivals>>,
         packetRequestedFromUs' = (n.what # "mac.packet"),
         n.what \in RequestKinds => m.class \in Ready,
         n.what \in {"algorithm.requestPacket", "queue.requestPacket"} =>
           n.length = MaxTransferableBits(m.class),
         n.what \in PacketKinds => n.length \in Lengths /\ Fits(n.length, MaxTransferableBits(m.class))
  PROVE  PortInv'
<1>1. messages' = <<n>> /\ UNCHANGED tsMessages
  BY PassedOn
<1>2. Ready' = Ready
  <2>1. \A r \in Queues : IsEmpty(r)' <=> IsEmpty(r)
    BY BitsNext DEF IsEmpty, AlgorithmIsEmpty, InDebt, QueueIsEmpty, gateVars
  <2>. QED
    BY <2>1 DEF Ready
<1>3. IsPromised(n)'
  BY <1>2, PromiseStep
<1>4. queue' \in [Queues -> Seq(Lengths)] /\ shaper' \in [ShapedQueues -> ShaperStates]
  BY DEF PortInv, PortTypes
<1>5. ~EarlierIsDue'
  BY DEF StandsStillFor, TimerIsDue, EarlierIsDue, macVars
<1>6. UNCHANGED <<gateVars, macVars, tsMessages, arrivals, packetRequestedFromInputs>>
  BY <1>1
<1>. QED
  BY <1>1, <1>3, <1>4, <1>5, <1>6, ChainStep

LEMMA GateRequestPacketKeeps ==
  ASSUME PortInv, NEW q \in Queues, GateRequestPacket(q)
  PROVE  PortInv'
<1>1. "gate.requestPacket" \in ChainKinds /\ Handles("gate.requestPacket", q)
  BY DEF GateRequestPacket, ChainKinds, RequestKinds
<1>2. PICK m \in Chains : /\ messages = <<m>> /\ m.what = "gate.requestPacket" /\ m.class = q
                          /\ StandsStillFor(m) /\ IsPromised(m)
  BY <1>1, ChainHandledIs
<1>3. q \in Ready
  BY <1>2 DEF IsPromised, RequestKinds
<1>. DEFINE n == Frame("algorithm.requestPacket", q, MaxTransferableBits(q))
<1>4. ~IsEmpty(q)
  BY <1>3 DEF Ready
<1>5. /\ Becomes(n)
      /\ UNCHANGED <<queue, gateVars, tsVars, shaper, macVars, arrivals>>
  BY <1>4 DEF GateRequestPacket
<1>6. MaxTransferableBits(q) \in Nat
  BY BitsAre DEF PortInv
<1>7. PICK b \in Nat : b = MaxTransferableBits(q)
  BY <1>6
<1>. DEFINE o == Frame("algorithm.requestPacket", q, b)
<1>8. /\ o \in Chains /\ o.what = "algorithm.requestPacket" /\ o.class = q /\ o.length = b
      /\ o.what \notin PacketKinds /\ o.what # "mac.packet"
  BY EventsAre DEF Frame, ChainKinds, RequestKinds, PacketKinds
<1>9. packetRequestedFromUs' = (o.what # "mac.packet")
  BY <1>2, <1>5, <1>8 DEF StandsStillFor, tsVars, PortInv, PortTypes
<1>10. Becomes(o) /\ UNCHANGED <<queue, gateVars, packetRequestedFromInputs, shaper, macVars, arrivals>>
  BY <1>5, <1>7 DEF tsVars
<1>. HIDE DEF o
<1>. QED
  BY <1>2, <1>3, <1>7, <1>8, <1>9, <1>10, PassStep

LEMMA AlgorithmRequestPacketKeeps ==
  ASSUME PortInv, NEW q \in Queues, AlgorithmRequestPacket(q)
  PROVE  PortInv'
<1>1. "algorithm.requestPacket" \in ChainKinds /\ Handles("algorithm.requestPacket", q)
  BY DEF AlgorithmRequestPacket, ChainKinds, RequestKinds
<1>2. PICK m \in Chains : /\ messages = <<m>> /\ m = Head(messages)
                          /\ m.what = "algorithm.requestPacket" /\ m.class = q /\ m.length \in Nat
                          /\ StandsStillFor(m) /\ IsPromised(m)
  BY <1>1, ChainHandledIs
<1>3. q \in Ready /\ m.length = MaxTransferableBits(q)
  BY <1>2 DEF IsPromised, RequestKinds
<1>. DEFINE n == Frame("queue.requestPacket", q, m.length)
<1>4. /\ Becomes(n)
      /\ UNCHANGED <<queue, gateVars, tsVars, shaper, macVars, arrivals>>
  BY <1>2 DEF AlgorithmRequestPacket
<1>5. /\ n \in Chains /\ n.what = "queue.requestPacket" /\ n.class = q /\ n.length = m.length
      /\ n.what \notin PacketKinds /\ n.what # "mac.packet"
  BY <1>2, EventsAre DEF Frame, ChainKinds, RequestKinds, PacketKinds
<1>. HIDE DEF n
<1>6. packetRequestedFromUs' = (n.what # "mac.packet")
  BY <1>2, <1>4, <1>5 DEF StandsStillFor, tsVars, PortInv, PortTypes
<1>7. UNCHANGED <<queue, gateVars, packetRequestedFromInputs, shaper, macVars, arrivals>>
  BY <1>4 DEF tsVars
<1>. QED
  BY <1>2, <1>3, <1>4, <1>5, <1>6, <1>7, PassStep

\* The frame a request gets is one that fits in what was promised.
LEMMA QueueRequestPacketKeeps ==
  ASSUME PortInv, NEW q \in Queues, QueueRequestPacket(q)
  PROVE  PortInv'
<1>1. "queue.requestPacket" \in ChainKinds /\ Handles("queue.requestPacket", q)
  BY DEF QueueRequestPacket, ChainKinds, RequestKinds
<1>2. PICK m \in Chains : /\ messages = <<m>> /\ m = Head(messages)
                          /\ m.what = "queue.requestPacket" /\ m.class = q
                          /\ StandsStillFor(m) /\ IsPromised(m)
  BY <1>1, ChainHandledIs
<1>3. q \in Ready /\ m.length = MaxTransferableBits(q)
  BY <1>2 DEF IsPromised, RequestKinds
<1>4. ~QueueIsEmpty(q, m.length)
  BY <1>3 DEF Ready, IsEmpty, AlgorithmIsEmpty
<1>5. /\ queue' = [queue EXCEPT ![q] = Tail(@)]
      /\ Becomes(Frame("algorithm.packet", q, Head(queue[q])))
      /\ UNCHANGED <<gateVars, tsVars, shaper, macVars, arrivals>>
  BY <1>2, <1>4 DEF QueueRequestPacket
<1>6. queue[q] # <<>> /\ Fits(Head(queue[q]), m.length)
  BY <1>4 DEF QueueIsEmpty
<1>7. queue \in [Queues -> Seq(Lengths)] /\ queue[q] \in Seq(Lengths)
  BY DEF PortInv, PortTypes
<1>8. PICK l \in Lengths : l = Head(queue[q])
  BY <1>6, <1>7
<1>. DEFINE n == Frame("algorithm.packet", q, l)
<1>9. l \in Nat
  BY QueuingAssumption
<1>10. /\ n \in Chains /\ n.what = "algorithm.packet" /\ n.class = q /\ n.length = l
       /\ n.what \notin RequestKinds /\ n.what # "mac.packet"
       /\ n.what \notin {"algorithm.requestPacket", "queue.requestPacket"}
  BY <1>9, EventsAre DEF Frame, ChainKinds, RequestKinds, PacketKinds
<1>11. Becomes(n)
  BY <1>5, <1>8
<1>. HIDE DEF n
<1>12. messages' = <<n>> /\ UNCHANGED tsMessages
  BY <1>2, <1>11, PassedOn
<1>13. /\ queue' \in [Queues -> Seq(Lengths)]
       /\ \A r \in Queues : r # q => queue'[r] = queue[r]
  BY <1>5, <1>6, <1>7
<1>14. /\ shaper' = shaper /\ shaper' \in [ShapedQueues -> ShaperStates]
       /\ UNCHANGED <<gateVars, macVars, tsMessages, arrivals, packetRequestedFromInputs>>
       /\ UNCHANGED gateVars
  BY <1>5, <1>12 DEF tsVars, PortInv, PortTypes
<1>15. IsPromised(n)'
  <2>1. n.length \in Lengths /\ Fits(n.length, MaxTransferableBits(m.class))
    BY <1>2, <1>3, <1>6, <1>8, <1>10
  <2>2. /\ \A r \in Queues : r # m.class => queue'[r] = queue[r]
        /\ \A r \in ShapedQueues : r # m.class => shaper'[r] = shaper[r]
        /\ n.class = m.class
    BY <1>2, <1>10, <1>13, <1>14
  <2>. QED
    BY <1>2, <1>10, <1>14, <2>1, <2>2, PromiseStep
<1>16. packetRequestedFromUs' = (n.what # "mac.packet")
  BY <1>2, <1>5, <1>10 DEF StandsStillFor, tsVars, PortInv, PortTypes
<1>17. ~EarlierIsDue'
  BY <1>2, <1>5 DEF StandsStillFor, TimerIsDue, EarlierIsDue, macVars
<1>. QED
  BY <1>2, <1>10, <1>12, <1>13, <1>14, <1>15, <1>16, <1>17, ChainStep

\* The frame on its way up.
LEMMA FramePassedOn ==
  ASSUME PortInv, NEW q, NEW m \in Chains, messages = <<m>>, StandsStillFor(m), IsPromised(m),
         m.class = q, m.what \in PacketKinds,
         NEW what \in PacketKinds, Becomes(Frame(what, q, m.length)),
         UNCHANGED <<queue, gateVars, packetRequestedFromInputs, shaper, macVars, arrivals>>,
         packetRequestedFromUs' = (what # "mac.packet")
  PROVE  PortInv'
<1>. DEFINE n == Frame(what, q, m.length)
<1>1. q \in Queues /\ m.length \in Nat /\ what \in ChainKinds
  BY EventsAre DEF ChainKinds
<1>2. n \in Chains
  BY <1>1, EventsAre
<1>3. n.what = what /\ n.class = q /\ n.length = m.length
  BY DEF Frame
<1>4. /\ n.what \notin RequestKinds
      /\ n.what \notin {"algorithm.requestPacket", "queue.requestPacket"}
  BY <1>3 DEF RequestKinds, PacketKinds
<1>5. n.length \in Lengths /\ Fits(n.length, MaxTransferableBits(m.class))
  BY <1>3 DEF IsPromised
<1>6. Becomes(n) /\ packetRequestedFromUs' = (n.what # "mac.packet")
  BY <1>3
<1>. HIDE DEF n
<1>. QED
  BY <1>2, <1>3, <1>4, <1>5, <1>6, PassStep

LEMMA FrameStepKeeps ==
  ASSUME PortInv, NEW q \in Queues,
         AlgorithmPacket(q) \/ GatePacket(q) \/ SelectionPacket(q)
  PROVE  PortInv'
<1>1. /\ "algorithm.packet" \in ChainKinds /\ "gate.packet" \in ChainKinds
      /\ "selection.packet" \in ChainKinds
      /\ "algorithm.packet" \in PacketKinds /\ "gate.packet" \in PacketKinds
      /\ "selection.packet" \in PacketKinds /\ "mac.packet" \in PacketKinds
  BY DEF ChainKinds, PacketKinds
<1>2. packetRequestedFromUs \in BOOLEAN
  BY DEF PortInv, PortTypes
<1>3. CASE AlgorithmPacket(q)
  <2>1. Handles("algorithm.packet", q)
    BY <1>3 DEF AlgorithmPacket
  <2>2. PICK m \in Chains : /\ messages = <<m>> /\ m = Head(messages)
                            /\ m.what = "algorithm.packet" /\ m.class = q
                            /\ StandsStillFor(m) /\ IsPromised(m)
    BY <1>1, <2>1, ChainHandledIs
  <2>3. Becomes(Frame("gate.packet", q, m.length))
    BY <1>3, <2>2 DEF AlgorithmPacket
  <2>4. /\ UNCHANGED <<queue, gateVars, packetRequestedFromInputs, shaper, macVars, arrivals>>
        /\ packetRequestedFromUs' = packetRequestedFromUs
    BY <1>3 DEF AlgorithmPacket, tsVars
  <2>5. packetRequestedFromUs' = ("gate.packet" # "mac.packet")
    BY <1>2, <2>2, <2>4 DEF StandsStillFor
  <2>. QED
    BY <1>1, <2>2, <2>3, <2>4, <2>5, FramePassedOn
<1>4. CASE GatePacket(q)
  <2>1. Handles("gate.packet", q)
    BY <1>4 DEF GatePacket
  <2>2. PICK m \in Chains : /\ messages = <<m>> /\ m = Head(messages)
                            /\ m.what = "gate.packet" /\ m.class = q
                            /\ StandsStillFor(m) /\ IsPromised(m)
    BY <1>1, <2>1, ChainHandledIs
  <2>3. Becomes(Frame("selection.packet", q, m.length))
    BY <1>4, <2>2 DEF GatePacket
  <2>4. /\ UNCHANGED <<queue, gateVars, packetRequestedFromInputs, shaper, macVars, arrivals>>
        /\ packetRequestedFromUs' = packetRequestedFromUs
    BY <1>4 DEF GatePacket, tsVars
  <2>5. packetRequestedFromUs' = ("selection.packet" # "mac.packet")
    BY <1>2, <2>2, <2>4 DEF StandsStillFor
  <2>. QED
    BY <1>1, <2>2, <2>3, <2>4, <2>5, FramePassedOn
<1>5. CASE SelectionPacket(q)
  <2>1. Handles("selection.packet", q)
    BY <1>5 DEF SelectionPacket
  <2>2. PICK m \in Chains : /\ messages = <<m>> /\ m = Head(messages)
                            /\ m.what = "selection.packet" /\ m.class = q
                            /\ StandsStillFor(m) /\ IsPromised(m)
    BY <1>1, <2>1, ChainHandledIs
  <2>3. packetRequestedFromUs
    BY <2>2 DEF StandsStillFor
  <2>4. /\ Becomes(Frame("mac.packet", q, m.length))
        /\ UNCHANGED <<queue, gateVars, packetRequestedFromInputs, shaper, macVars, arrivals>>
        /\ packetRequestedFromUs' = FALSE
    BY <1>5, <2>2, <2>3 DEF SelectionPacket
  <2>5. packetRequestedFromUs' = ("mac.packet" # "mac.packet")
    BY <2>4
  <2>. QED
    BY <1>1, <2>2, <2>4, <2>5, FramePassedOn
<1>. QED
  BY <1>3, <1>4, <1>5

\* The shaper spends the credit of the frame it sends, and only of that one.
LEMMA ShaperSendPacketKeeps ==
  ASSUME PortInv, NEW q \in ShapedQueues, ShaperSendPacket(q)
  PROVE  PortInv'
<1>1. "algorithm.packet" \in ChainKinds /\ Handles("algorithm.packet", q)
  BY DEF ShaperSendPacket, ChainKinds, PacketKinds
<1>2. PICK m \in Chains : /\ messages = <<m>> /\ m = Head(messages)
                          /\ m.what = "algorithm.packet" /\ m.class = q /\ m.length \in Nat
                          /\ StandsStillFor(m) /\ IsPromised(m)
  BY <1>1, ChainHandledIs
<1>3. CASE Fail
  BY <1>3, NothingChanges DEF Fail
<1>4. CASE ~Fail
  <2>. DEFINE time == m.length + ShaperOverhead
              s == Spending(CreditAfterSend(q, time), time)
              n == Frame("gate.packet", q, m.length)
  <2>1. /\ ShaperBecomes(q, s) /\ Becomes(n)
        /\ UNCHANGED <<queue, gateVars, tsVars, macVars, arrivals>>
    BY <1>2, <1>4 DEF ShaperSendPacket
  <2>2. PortTypes
    BY DEF PortInv
  <2>3. time \in Nat \ {0} /\ CreditAfterSend(q, time) \in Int
    <3>1. SendSlope \in Nat /\ ShaperOverhead \in Nat \ {0} /\ CreditOf(q) \in Int
      BY <2>2, CreditIs, QueuingAssumption
    <3>2. time \in Nat \ {0}
      BY <1>2, <3>1
    <3>. HIDE DEF time
    <3>3. SendSlope * time \in Int
      BY <3>1, <3>2
    <3>. QED
      BY <3>1, <3>2, <3>3 DEF CreditAfterSend
  <2>. HIDE DEF time
  <2>4. s \in ShaperStates /\ s.timer # 0
    BY <2>3, NewShaperStates
  <2>. HIDE DEF s
  <2>5. /\ n \in Chains /\ n.what = "gate.packet" /\ n.class = q /\ n.length = m.length
        /\ n.what \notin RequestKinds /\ n.what # "mac.packet"
        /\ n.what \notin {"algorithm.requestPacket", "queue.requestPacket"}
    <3>1. q \in Queues /\ "gate.packet" \in ChainKinds
      BY QueuingAssumption DEF ChainKinds, PacketKinds
    <3>. QED
      BY <1>2, <3>1, EventsAre DEF Frame, RequestKinds
  <2>. HIDE DEF n
  <2>6. messages' = <<n>> /\ UNCHANGED tsMessages
    BY <1>2, <2>1, PassedOn
  <2>7. /\ shaper' \in [ShapedQueues -> ShaperStates]
        /\ \A r \in ShapedQueues : r # q => shaper'[r] = shaper[r]
        /\ (EarlierIsDue' => EarlierIsDue)
    BY <2>1, <2>2, <2>4, ShaperBecomesIs, NothingElseIsDue
  <2>8. ~EarlierIsDue'
    BY <1>2, <2>7 DEF StandsStillFor, TimerIsDue
  <2>9. /\ queue' = queue /\ queue' \in [Queues -> Seq(Lengths)]
        /\ UNCHANGED <<gateVars, macVars, tsMessages, arrivals, packetRequestedFromInputs>>
        /\ UNCHANGED gateVars
        /\ packetRequestedFromUs' = packetRequestedFromUs
    BY <2>1, <2>2, <2>6 DEF tsVars, PortTypes
  <2>10. packetRequestedFromUs' = (n.what # "mac.packet")
    BY <1>2, <2>2, <2>5, <2>9 DEF StandsStillFor, PortTypes
  <2>11. IsPromised(n)'
    <3>1. n.length \in Lengths /\ Fits(n.length, MaxTransferableBits(m.class))
      BY <1>2, <2>5 DEF IsPromised, PacketKinds
    <3>2. /\ \A r \in Queues : r # m.class => queue'[r] = queue[r]
          /\ \A r \in ShapedQueues : r # m.class => shaper'[r] = shaper[r]
          /\ n.class = m.class
      BY <1>2, <2>5, <2>7, <2>9
    <3>. QED
      BY <1>2, <2>5, <2>9, <3>1, <3>2, PromiseStep
  <2>. QED
    BY <1>2, <2>5, <2>6, <2>7, <2>8, <2>9, <2>10, <2>11, ChainStep
<1>. QED
  BY <1>3, <1>4

-----------------------------------------------------------------------------
\* Steps of the transmission selection

\* A request is sent down for the chosen frame, or waits when there is none.
LEMMA ScheduleStep ==
  ASSUME PortInv, messages = <<>>, ~TimerIsDue, transmitState = "TX_IDLE_STATE",
         SchedulePacket, packetRequestedFromUs' = TRUE, packetRequestedFromInputs' = (Ready = {}),
         tsMessages' \in Seq(OwnKinds), IsInjective(tsMessages'),
         "requestPacket" \notin Range(tsMessages'), arrivals' = 0,
         UNCHANGED <<queue, gateVars, shaper, macVars>>
  PROVE  PortInv'
<1>1. /\ gateOpen' = gateOpen /\ entry' = entry /\ tick' = tick /\ shaper' = shaper
      /\ transmitState' = transmitState /\ macTimer' = macTimer /\ sending' = sending
      /\ UNCHANGED gateVars /\ queue' = queue
  BY DEF gateVars, macVars
<1>2. PortTypes /\ RequestInv /\ ChainInv /\ MacInv /\ GateInv /\ SlotInv
  BY DEF PortInv
<1>3. Range(<<>>) = {} /\ IsInjective(<<>>)
  BY OnlyMessage
<1>4. tick # Never
  BY <1>2, <1>3 DEF GateInv
<1>5. Ready' = Ready
  <2>1. \A r \in Queues : IsEmpty(r)' <=> IsEmpty(r)
    BY <1>1, BitsNext DEF IsEmpty, AlgorithmIsEmpty, InDebt, QueueIsEmpty, gateVars
  <2>. QED
    BY <2>1 DEF Ready
<1>6. arrivals' \in 0 .. MaxArrivals
  BY QueuingAssumption
<1>7. ~TimerIsDue'
  BY <1>1 DEF TimerIsDue, EarlierIsDue
<1>8. MacInv' /\ SlotInv'
  BY <1>1, <1>2, BitsNext DEF MacInv, SlotInv
<1>9. CASE Ready = {}
  <2>1. messages' = <<>> /\ Range(messages') = {} /\ IsInjective(messages')
    BY <1>3, <1>9 DEF SchedulePacket
  <2>2. messages' \in Seq(Notices \cup Chains) /\ packetRequestedFromInputs' = TRUE
    <3>1. messages' \in Seq(Notices \cup Chains)
      BY <2>1
    <3>2. packetRequestedFromInputs' = TRUE
      BY <1>9, Zenon
    <3>. QED
      BY <3>1, <3>2
  <2>3. PortTypes'
    BY <1>1, <1>2, <1>6, <2>1, <2>2 DEF PortTypes
  <2>4. RequestInv'
    BY <1>1, <2>2 DEF RequestInv
  <2>5. ChainInv' /\ GateInv'
    BY <1>1, <1>2, <1>4, <2>1 DEF ChainInv, GateInv
  <2>. QED
    BY <1>8, <2>3, <2>4, <2>5 DEF PortInv
<1>10. CASE Ready # {}
  <2>1. Chosen \in Ready /\ (\A r \in Ready : Precedes(Chosen, r)) /\ Chosen \in Queues
    BY <1>10, ChosenIs DEF Ready
  <2>2. PICK q \in Queues : q = Chosen
    BY <2>1
  <2>. DEFINE n == Message("gate.requestPacket", q)
  <2>3. /\ n \in Chains /\ n.what = "gate.requestPacket" /\ n.class = q
        /\ n.what \notin PacketKinds /\ n.what # "mac.packet" /\ n.what \in ChainKinds
        /\ n.what \notin {"algorithm.requestPacket", "queue.requestPacket"}
        /\ n.what \notin ChangeKinds /\ n # Update
    BY EventsAre DEF Message, PacketKinds
  <2>4. messages' = Reschedule(<<>>, n)
    BY <1>10, <2>2 DEF SchedulePacket
  <2>. HIDE DEF n
  <2>5. messages' = <<n>> /\ Range(messages') = {n} /\ IsInjective(messages')
    BY <2>4, OnlyMessage
  <2>6. messages' \in Seq(Notices \cup Chains) /\ packetRequestedFromInputs' = FALSE
    <3>1. messages' \in Seq(Notices \cup Chains)
      BY <2>3, <2>5
    <3>2. packetRequestedFromInputs' = FALSE
      BY <1>10, Zenon
    <3>. QED
      BY <3>1, <3>2
  <2>7. PortTypes'
    BY <1>1, <1>2, <1>6, <2>5, <2>6 DEF PortTypes
  <2>8. RequestInv'
    BY <1>1, <2>3, <2>5, <2>6 DEF RequestInv
  <2>9. StandsStillFor(n)'
    BY <1>1, <1>7, <2>3, <2>5, <2>6 DEF StandsStillFor
  <2>10. IsPromised(n)'
    BY <1>5, <2>1, <2>2, <2>3 DEF IsPromised
  <2>11. ChainInv'
    BY <2>5, <2>9, <2>10 DEF ChainInv
  <2>12. GateInv'
    BY <1>1, <1>2, <1>4, <2>3, <2>5 DEF GateInv
  <2>. QED
    BY <1>8, <2>7, <2>8, <2>11, <2>12 DEF PortInv
<1>. QED
  BY <1>9, <1>10

LEMMA SelectionKeeps ==
  ASSUME PortInv, TSRequestPacket \/ TSPacketEnqueued
  PROVE  PortInv'
<1>1. PortTypes /\ RequestInv
  BY DEF PortInv
<1>2. tsMessages \in Seq(OwnKinds) /\ IsInjective(tsMessages)
  BY <1>1 DEF PortTypes
<1>3. CASE TSRequestPacket
  <2>1. HandlesOwn("requestPacket")
    BY <1>3 DEF TSRequestPacket
  <2>2. /\ ~TimerIsDue /\ messages = <<>> /\ "requestPacket" \in Range(tsMessages)
        /\ Tail(tsMessages) \in Seq(OwnKinds) /\ IsInjective(Tail(tsMessages))
        /\ Range(Tail(tsMessages)) = Range(tsMessages) \ {"requestPacket"}
    BY <1>1, <2>1, HandledOwnIs
  <2>3. transmitState = "TX_IDLE_STATE" /\ ~packetRequestedFromUs /\ ~packetRequestedFromInputs
    BY <1>1, <2>2 DEF RequestInv
  <2>4. /\ packetRequestedFromUs' = TRUE /\ packetRequestedFromInputs' = (Ready = {})
        /\ SchedulePacket /\ tsMessages' = Tail(tsMessages) /\ arrivals' = 0
        /\ UNCHANGED <<queue, gateVars, shaper, macVars>>
    BY <1>3, <2>3 DEF TSRequestPacket
  <2>5. /\ tsMessages' \in Seq(OwnKinds) /\ IsInjective(tsMessages')
        /\ "requestPacket" \notin Range(tsMessages')
    BY <2>2, <2>4
  <2>. QED
    BY <2>2, <2>3, <2>4, <2>5, ScheduleStep
<1>4. CASE TSPacketEnqueued
  <2>1. HandlesOwn("packetEnqueued")
    BY <1>4 DEF TSPacketEnqueued
  <2>2. /\ ~TimerIsDue /\ messages = <<>>
        /\ Tail(tsMessages) \in Seq(OwnKinds) /\ IsInjective(Tail(tsMessages))
        /\ Range(Tail(tsMessages)) = Range(tsMessages) \ {"packetEnqueued"}
    BY <1>1, <2>1, HandledOwnIs
  <2>3. /\ tsMessages' = Tail(tsMessages) /\ arrivals' = 0
        /\ UNCHANGED <<queue, gateVars, packetRequestedFromUs, shaper, macVars>>
    BY <1>4 DEF TSPacketEnqueued
  <2>4. CASE packetRequestedFromInputs
    <3>1. /\ SchedulePacket /\ packetRequestedFromInputs' = (Ready = {})
      BY <1>4, <2>4 DEF TSPacketEnqueued
    <3>2. transmitState = "TX_IDLE_STATE" /\ packetRequestedFromUs = TRUE
          /\ "requestPacket" \notin Range(tsMessages)
      BY <1>1, <2>4 DEF RequestInv, PortTypes
    <3>3. packetRequestedFromUs' = TRUE /\ "requestPacket" \notin Range(tsMessages')
      BY <2>2, <2>3, <3>2
    <3>4. tsMessages' \in Seq(OwnKinds) /\ IsInjective(tsMessages')
          /\ UNCHANGED <<queue, gateVars, shaper, macVars>> /\ arrivals' = 0
      BY <2>2, <2>3
    <3>. QED
      BY <2>2, <3>1, <3>2, <3>3, <3>4, ScheduleStep
  <2>5. CASE ~packetRequestedFromInputs
    <3>1. messages' = messages /\ packetRequestedFromInputs' = packetRequestedFromInputs
      BY <1>4, <2>5 DEF TSPacketEnqueued
    <3>2. NothingTravels
      BY <2>2, TravelsAlone
    <3>3. "requestPacket" \in Range(tsMessages') <=> "requestPacket" \in Range(tsMessages)
      <4>1. "requestPacket" # "packetEnqueued"
        OBVIOUS
      <4>. QED
        BY <2>2, <2>3, <4>1
    <3>4. UNCHANGED <<gateVars, tsVars, macVars>>
      BY <2>3, <3>1 DEF tsVars
    <3>5. /\ queue' \in [Queues -> Seq(Lengths)] /\ shaper' \in [ShapedQueues -> ShaperStates]
          /\ arrivals' \in 0 .. MaxArrivals
          /\ messages' \in Seq(Events) /\ IsInjective(messages')
      BY <1>1, <2>3, <3>1, QueuingAssumption DEF PortTypes, Events
    <3>6. EarlierIsDue' <=> EarlierIsDue
      BY <2>3 DEF EarlierIsDue, macVars
    <3>7. tsMessages' \in Seq(OwnKinds) /\ IsInjective(tsMessages')
      BY <2>2, <2>3
    <3>. QED
      BY <3>1, <3>2, <3>3, <3>4, <3>5, <3>6, <3>7, NoticeStep
  <2>. QED
    BY <2>4, <2>5
<1>. QED
  BY <1>3, <1>4

-----------------------------------------------------------------------------
\* The beginning, and steps of the gate controller

LEMMA InitKeeps == Init => PortInv
<1>. SUFFICES ASSUME Init PROVE PortInv
  OBVIOUS
<1>1. /\ messages = <<>> /\ Range(messages) = {} /\ IsInjective(messages)
      /\ tsMessages = <<"requestPacket">> /\ Range(tsMessages) = {"requestPacket"}
      /\ IsInjective(tsMessages)
  BY OnlyMessage DEF Init
<1>2. Len(ControlList) \in 1 .. Len(ControlList) /\ MaxArrivals \in 0 .. MaxArrivals
  BY EntriesAreSlots, QueuingAssumption
<1>3. PortTypes
  <2>1. queue \in [Queues -> Seq(Lengths)] /\ tsMessages \in Seq(OwnKinds)
    BY <1>1 DEF Init, OwnKinds
  <2>2. shaper \in [ShapedQueues -> ShaperStates]
    BY NewShaperStates DEF Init
  <2>3. messages \in Seq(Notices \cup Chains)
    BY <1>1
  <2>. QED
    BY <1>1, <1>2, <2>1, <2>2, <2>3 DEF Init, PortTypes, Ticks, Never, None
<1>4. RequestInv /\ ChainInv /\ MacInv /\ GateInv /\ SlotInv
  <2>1. sending \notin Queues /\ LengthAwareGates \subseteq Queues
    BY QueuingAssumption DEF Init, None
  <2>. QED
    BY <1>1, <2>1, QueuingAssumption
    DEF Init, RequestInv, ChainInv, MacInv, GateInv, SlotInv, Never, None
<1>. QED
  BY <1>3, <1>4 DEF PortInv

LEMMA TickKeeps ==
  ASSUME PortInv, Tick
  PROVE  PortInv'
<1>1. PortTypes /\ RequestInv /\ MacInv /\ GateInv /\ SlotInv
  BY DEF PortInv
<1>2. /\ tick = 0 /\ tick' = Never /\ ToSelf(Update)
      /\ UNCHANGED <<queue, gateOpen, entry, tsVars, shaper, macVars, arrivals>>
  BY DEF Tick, Update
<1>3. Update \in Events /\ Update \in Notices /\ Update.what \notin ChangeKinds
      /\ Update.what \notin ChainKinds
  BY EventsAre DEF Events
<1>4. /\ messages' \in Seq(Events) /\ IsInjective(messages')
      /\ Range(messages') = Range(messages) \cup {Update} /\ tsMessages' = tsMessages
  BY <1>1, <1>2, <1>3, ToSelfIs
<1>5. NothingTravels
  BY <1>2, TravelsAlone DEF TimerIsDue
<1>6. PortTypes'
  BY <1>1, <1>2, <1>4 DEF PortTypes, Events, Ticks, tsVars, macVars
<1>7. RequestInv'
  <2>1. \A m \in Range(messages) : m.what \notin ChainKinds /\ m.what # "mac.packet"
    BY <1>5 DEF NothingTravels, ChainKinds, PacketKinds
  <2>. QED
    BY <1>1, <1>2, <1>4, <2>1 DEF RequestInv, tsVars, macVars
<1>8. ChainInv'
  BY <1>3, <1>4, <1>5 DEF ChainInv, NothingTravels
<1>9. MacInv'
  BY <1>1, <1>2 DEF MacInv, macVars
<1>10. GateInv'
  <2>1. \A m \in Range(messages') : m.what \notin ChangeKinds
    BY <1>1, <1>2, <1>3, <1>4 DEF GateInv
  <2>. QED
    BY <1>1, <1>2, <1>4, <2>1 DEF GateInv
<1>11. SlotInv'
  <2>1. UntilNext(Never) = UntilNext(0)
    BY DEF UntilNext, Never
  <2>2. UntilFrom(entry, Never) = UntilFrom(entry, 0)
    BY <2>1 DEF UntilFrom
  <2>3. TimeUntilEntry' = TimeUntilEntry
    BY <1>2, <2>2, TimeUntilEntryIs, TimeUntilEntryIsNext
  <2>. QED
    BY <1>1, <1>2, <2>3 DEF SlotInv, macVars
<1>. QED
  BY <1>6, <1>7, <1>8, <1>9, <1>10, <1>11 DEF PortInv

\* The entry of the list that is executed next, and what its gates are told.
Upcoming == NextIndex(entry, 1)

Told == {Message("gate.stateChanged", q) : q \in SymDiff(gateOpen, ControlList[Upcoming].gates)}

\* The gates are told of their changes at once, behind everything that is queued.
LEMMA UpdateIs ==
  ASSUME PortInv, UpdateSchedule
  PROVE  /\ ~EarlierIsDue /\ messages # <<>> /\ Head(messages) = Update /\ NothingTravels
         /\ tick = Never /\ \A m \in Range(messages) : m.what \notin ChangeKinds
         /\ entry \in 1 .. Len(ControlList) /\ Upcoming \in 1 .. Len(ControlList)
         /\ gateOpen \in SUBSET Queues /\ ControlList[Upcoming].gates \in SUBSET Queues
         /\ ControlList[Upcoming].timeInterval \in Nat \ {0}
         /\ \A m \in Told : m \in Notices /\ m \in Events /\ m # Update /\ m.what = "gate.stateChanged"
         /\ messages' \in Seq(Events) /\ IsInjective(messages')
         /\ Range(messages') = (Range(messages) \ {Update}) \cup Told
<1>. DEFINE next == NextIndex(entry, 1)
            new == ControlList[next].gates
            told == {Message("gate.stateChanged", q) : q \in SymDiff(gateOpen, new)}
<1>1. PortTypes /\ GateInv
  BY DEF PortInv
<1>2. /\ Handles("gateController.updateSchedule", None)
      /\ entry' = next /\ gateOpen' = new /\ tick' = ControlList[next].timeInterval
      /\ messages' = Tail(messages) \o Changes(gateOpen, new)
      /\ UNCHANGED <<queue, tsVars, shaper, macVars, tsMessages, arrivals>>
  BY DEF UpdateSchedule
<1>3. /\ ~EarlierIsDue /\ messages # <<>>
      /\ Head(messages) \in Range(messages) /\ Head(messages) \in Events
      /\ Head(messages).what = "gateController.updateSchedule"
      /\ Tail(messages) \in Seq(Events) /\ IsInjective(Tail(messages))
      /\ Range(Tail(messages)) = Range(messages) \ {Head(messages)}
  BY <1>1, <1>2, HandledIs
<1>4. "gateController.updateSchedule" \notin ChainKinds
  BY DEF ChainKinds, RequestKinds, PacketKinds
<1>5. Head(messages) = Update /\ NothingTravels
  <2>1. Head(messages) \in Notices
    BY <1>3, <1>4, EventsAre DEF Events
  <2>. QED
    BY <1>3, <1>4, <2>1, EventsAre, TravelsAlone
<1>6. tick = Never /\ \A m \in Range(messages) : m.what \notin ChangeKinds
  BY <1>1, <1>3, <1>5 DEF GateInv
<1>7. /\ entry \in 1 .. Len(ControlList) /\ next \in 1 .. Len(ControlList)
      /\ gateOpen \in SUBSET Queues /\ new \in SUBSET Queues
      /\ ControlList[next].timeInterval \in Nat \ {0}
  <2>1. entry \in 1 .. Len(ControlList) /\ gateOpen \in SUBSET Queues
    BY <1>1 DEF PortTypes
  <2>2. Len(ControlList) \in Nat \ {0}
    BY EntriesAreSlots
  <2>3. 1 \in 0 .. Len(ControlList)
    BY <2>2
  <2>4. next \in 1 .. Len(ControlList)
    BY <2>1, <2>3, PlacesOfTheList
  <2>. QED
    BY <2>1, <2>4, EntriesAreSlots
<1>8. /\ Changes(gateOpen, new) \in Seq(told) /\ IsInjective(Changes(gateOpen, new))
      /\ Range(Changes(gateOpen, new)) = told
  <2>1. ASSUME NEW a \in SUBSET Queues, NEW b \in SUBSET Queues
        PROVE  LET t == {Message("gate.stateChanged", q) : q \in SymDiff(a, b)}
               IN  Changes(a, b) \in Seq(t) /\ IsInjective(Changes(a, b)) /\ Range(Changes(a, b)) = t
    BY ChangesAre
  <2>. HIDE DEF new
  <2>. QED
    BY <1>7, <2>1
<1>9. \A m \in told : /\ m \in Notices /\ m \in Events /\ m # Update /\ m.what = "gate.stateChanged"
                      /\ m.what \in ChangeKinds
  <2>1. ASSUME NEW q \in Queues
        PROVE  LET m == Message("gate.stateChanged", q)
               IN  /\ m \in Notices /\ m \in Events /\ m # Update /\ m.what = "gate.stateChanged"
                   /\ m.what \in ChangeKinds
    BY EventsAre DEF Message, ChangeKinds, Events
  <2>2. SymDiff(gateOpen, new) \subseteq Queues
    BY <1>7 DEF SymDiff
  <2>. HIDE DEF new
  <2>. QED
    BY <2>1, <2>2
<1>. HIDE DEF told, new, next
<1>10. /\ messages' \in Seq(Events) /\ IsInjective(messages')
       /\ Range(messages') = (Range(messages) \ {Update}) \cup told
  <2>1. ASSUME NEW s \in Seq(Events), NEW t \in Seq(Events), IsInjective(s), IsInjective(t),
               Range(s) \cap Range(t) = {}
        PROVE  s \o t \in Seq(Events) /\ IsInjective(s \o t) /\ Range(s \o t) = Range(s) \cup Range(t)
    BY <2>1, AppendedMessages
  <2>2. Changes(gateOpen, new) \in Seq(Events)
    <3>1. told \subseteq Events
      BY <1>9
    <3>. QED
      BY <1>8, <3>1
  <2>3. Range(Tail(messages)) \cap Range(Changes(gateOpen, new)) = {}
    BY <1>3, <1>6, <1>8, <1>9
  <2>. DEFINE s == Tail(messages)
              t == Changes(gateOpen, new)
  <2>4. /\ s \in Seq(Events) /\ t \in Seq(Events) /\ IsInjective(s) /\ IsInjective(t)
        /\ Range(s) \cap Range(t) = {} /\ messages' = s \o t
        /\ Range(s) = Range(messages) \ {Update} /\ Range(t) = told
    BY <1>2, <1>3, <1>5, <1>8, <2>2, <2>3
  <2>. HIDE DEF s, t
  <2>. QED
    BY <2>1, <2>4
<1>. QED
  BY <1>3, <1>5, <1>6, <1>7, <1>9, <1>10 DEF Told, Upcoming, told, new, next

LEMMA UpdateScheduleKeeps ==
  ASSUME PortInv, UpdateSchedule
  PROVE  PortInv'
<1>. DEFINE next == Upcoming
            new == ControlList[next].gates
<1>1. PortTypes /\ RequestInv /\ MacInv /\ GateInv /\ SlotInv
  BY DEF PortInv
<1>2. /\ entry' = next /\ gateOpen' = new /\ tick' = ControlList[next].timeInterval
      /\ UNCHANGED <<queue, tsVars, shaper, macVars, tsMessages, arrivals>>
  BY DEF UpdateSchedule, Upcoming
<1>3. ~EarlierIsDue
  BY UpdateIs
<1>5. NothingTravels
  BY UpdateIs
<1>6. tick = Never
  BY UpdateIs
<1>7. /\ entry \in 1 .. Len(ControlList) /\ next \in 1 .. Len(ControlList)
      /\ gateOpen \in SUBSET Queues /\ new \in SUBSET Queues
      /\ ControlList[next].timeInterval \in Nat \ {0}
  BY UpdateIs
<1>9. \A m \in Told : m \in Notices /\ m # Update
  BY UpdateIs
<1>10. /\ messages' \in Seq(Events) /\ IsInjective(messages')
       /\ Range(messages') = (Range(messages) \ {Update}) \cup Told
  BY UpdateIs
<1>. HIDE DEF next, new
<1>11. PortTypes'
  BY <1>1, <1>2, <1>7, <1>10 DEF PortTypes, Events, Ticks, tsVars, macVars
<1>12. \A m \in Range(messages') : m.what \notin ChainKinds
  BY <1>5, <1>9, <1>10, EventsAre DEF NothingTravels
<1>13. RequestInv'
  <2>1. \A m \in Range(messages) : m.what \notin ChainKinds /\ m.what # "mac.packet"
    BY <1>5 DEF NothingTravels, ChainKinds, PacketKinds
  <2>. QED
    BY <1>1, <1>2, <2>1 DEF RequestInv, tsVars, macVars
<1>14. ChainInv' /\ MacInv'
  BY <1>1, <1>2, <1>12 DEF ChainInv, MacInv, macVars
<1>15. GateInv'
  <2>1. tick' \notin {0, Never} /\ ~EarlierIsDue'
    BY <1>2, <1>3, <1>7 DEF Never, EarlierIsDue, macVars
  <2>2. Update \notin Range(messages')
    BY <1>9, <1>10
  <2>3. gateOpen' = ControlList[entry'].gates
    BY <1>2 DEF new
  <2>. QED
    BY <2>1, <2>2, <2>3 DEF GateInv
<1>16. SlotInv'
  <2>. SUFFICES ASSUME sending \in LengthAwareGates, NEW n \in 0 .. Len(ControlList) - 1,
                       sending \notin ControlList[NextIndex(next, n)].gates
                PROVE  macTimer <= TimeUntilEntry'[n]
    BY <1>2 DEF SlotInv, macVars
  <2>. DEFINE u == UntilFrom(entry, Never)
  <2>1. TimeUntilEntry = u /\ TimeUntilEntry' = UntilFrom(next, ControlList[next].timeInterval)
    BY <1>2, <1>6, TimeUntilEntryIs, TimeUntilEntryIsNext
  <2>2. TimeUntilEntry'[n] = u[n + 1]
    BY <1>7, <2>1, UntilAfterUpdate DEF next, Upcoming
  <2>3. NextIndex(next, n) = NextIndex(entry, n + 1)
    BY <1>7, PlacesOfTheList DEF next, Upcoming
  <2>4. Len(ControlList) \in Nat \ {0} /\ macTimer \in Ticks
    BY <1>1, EntriesAreSlots DEF PortTypes
  <2>5. CASE n + 1 <= Len(ControlList) - 1
    <3>1. n + 1 \in 0 .. Len(ControlList) - 1
      BY <2>4, <2>5
    <3>2. macTimer <= u[n + 1]
      BY <1>1, <2>1, <2>3, <3>1 DEF SlotInv
    <3>. QED
      BY <2>2, <3>2
  <2>6. CASE n + 1 = Len(ControlList)
    <3>1. NextIndex(entry, n + 1) = NextIndex(entry, 0) /\ 0 \in 0 .. Len(ControlList) - 1
          /\ n + 1 \in 0 .. Len(ControlList)
      <4>1. NextIndex(entry, Len(ControlList)) = entry /\ NextIndex(entry, 0) = entry
        BY <1>7, PlacesOfTheList
      <4>. QED
        BY <2>4, <2>6, <4>1
    <3>2. macTimer <= u[0]
      BY <1>1, <2>1, <2>3, <3>1 DEF SlotInv
    <3>3. u[0] = 0 /\ u[n + 1] \in Nat
      BY <1>7, <3>1, UntilIs DEF Ticks
    <3>. QED
      BY <2>2, <2>4, <3>2, <3>3 DEF Ticks, Never
  <2>. QED
    BY <2>4, <2>5, <2>6
<1>. QED
  BY <1>11, <1>13, <1>14, <1>15, <1>16 DEF PortInv

-----------------------------------------------------------------------------
\* Steps of the MAC, and time

\* The frame on the link was promised the time it takes.
LEMMA MacPacketKeeps ==
  ASSUME PortInv, NEW q \in Queues, MacPacket(q)
  PROVE  PortInv'
<1>1. PortTypes /\ RequestInv /\ MacInv /\ GateInv /\ SlotInv
  BY DEF PortInv
<1>2. "mac.packet" \in ChainKinds /\ Handles("mac.packet", q)
  BY DEF MacPacket, ChainKinds, PacketKinds
<1>3. PICK m \in Chains : /\ messages = <<m>> /\ m = Head(messages)
                          /\ m.what = "mac.packet" /\ m.class = q
                          /\ StandsStillFor(m) /\ IsPromised(m)
  BY <1>2, ChainHandledIs
<1>4. /\ transmitState = "TX_IDLE_STATE" /\ arrivals = 0 /\ ~TimerIsDue
      /\ ~packetRequestedFromUs /\ ~packetRequestedFromInputs
      /\ "requestPacket" \notin Range(tsMessages)
  BY <1>3 DEF StandsStillFor
<1>5. m.length \in Nat \ {0} /\ Fits(m.length, MaxTransferableBits(q)) /\ m # Update
  BY <1>3, EventsAre, QueuingAssumption DEF IsPromised, PacketKinds
<1>6. /\ transmitState' = "TRANSMITTING_STATE" /\ macTimer' = m.length + PreambleSize
      /\ sending' = q /\ messages' = <<>> /\ tsMessages' = tsMessages
      /\ UNCHANGED <<queue, gateVars, tsVars, shaper, arrivals>>
  BY <1>3, <1>4, OnlyMessage DEF MacPacket, Ends
<1>7. /\ Range(messages') = {} /\ IsInjective(messages') /\ Range(messages) = {m}
      /\ UNCHANGED gateVars
  BY <1>3, <1>6, OnlyMessage
<1>8. macTimer' \in Nat \ {0}
  BY <1>5, <1>6, QueuingAssumption
<1>9. PortTypes'
  <2>1. messages' \in Seq(Notices \cup Chains)
    BY <1>6
  <2>. QED
    BY <1>1, <1>6, <1>7, <1>8, <2>1 DEF PortTypes, gateVars, tsVars, Ticks
<1>10. RequestInv'
  BY <1>4, <1>6 DEF RequestInv, tsVars
<1>11. ChainInv' /\ MacInv'
  BY <1>6, <1>7, <1>8 DEF ChainInv, MacInv, Never
<1>12. GateInv'
  BY <1>1, <1>5, <1>6, <1>7 DEF GateInv, gateVars
<1>13. SlotInv'
  <2>. SUFFICES ASSUME q \in LengthAwareGates, NEW n \in 0 .. Len(ControlList) - 1,
                       q \notin ControlList[NextIndex(entry, n)].gates
                PROVE  m.length + PreambleSize <= TimeUntilEntry[n]
    BY <1>6, <1>7, BitsNext DEF SlotInv, gateVars
  <2>1. /\ MaxTransferableBits(q) \in Nat /\ MaxTransferableBits(q) <= TimeUntilEntry[n]
        /\ m.length + PreambleSize <= MaxTransferableBits(q)
    BY <1>1, <1>5, BitsAre DEF Fits
  <2>2. n \in 0 .. Len(ControlList)
    BY EntriesAreSlots
  <2>3. entry \in 1 .. Len(ControlList) /\ tick \in Ticks
    BY <1>1 DEF PortTypes
  <2>4. TimeUntilEntry[n] \in Nat
    BY <2>2, <2>3, TimeUntilEntryIs, UntilIs
  <2>. QED
    BY <1>5, <2>1, <2>4, QueuingAssumption
<1>. QED
  BY <1>9, <1>10, <1>11, <1>12, <1>13 DEF PortInv

LEMMA EndTxKeeps ==
  ASSUME PortInv, EndTx
  PROVE  PortInv'
<1>1. PortTypes /\ RequestInv /\ MacInv /\ GateInv
  BY DEF PortInv
<1>2. /\ macTimer = 0 /\ transmitState = "TRANSMITTING_STATE"
      /\ transmitState' = "WAIT_IFG_STATE" /\ macTimer' = InterFrameGap /\ sending' = None
      /\ UNCHANGED <<queue, gateVars, tsVars, shaper, messageVars, arrivals>>
  BY DEF EndTx
<1>3. EarlierIsDue /\ NothingTravels
  BY <1>2, TravelsAlone DEF EarlierIsDue, TimerIsDue
<1>4. macTimer' \in Nat \ {0} /\ None \notin LengthAwareGates
  BY <1>2, QueuingAssumption DEF None
<1>5. PortTypes'
  BY <1>1, <1>2, <1>4 DEF PortTypes, gateVars, tsVars, messageVars, Ticks
<1>6. RequestInv'
  BY <1>1, <1>2 DEF RequestInv, tsVars, messageVars
<1>7. ChainInv'
  BY <1>2, <1>3 DEF ChainInv, NothingTravels, messageVars
<1>8. MacInv'
  BY <1>2, <1>4 DEF MacInv, Never
<1>9. GateInv'
  BY <1>1, <1>2, <1>3 DEF GateInv, gateVars, messageVars
<1>10. SlotInv'
  BY <1>2, <1>4 DEF SlotInv
<1>. QED
  BY <1>5, <1>6, <1>7, <1>8, <1>9, <1>10 DEF PortInv

LEMMA EndIFGKeeps ==
  ASSUME PortInv, EndIFG
  PROVE  PortInv'
<1>1. PortTypes /\ RequestInv /\ MacInv /\ GateInv
  BY DEF PortInv
<1>2. macTimer = 0 /\ transmitState = "WAIT_IFG_STATE"
  BY DEF EndIFG
<1>3. EarlierIsDue /\ NothingTravels
  BY <1>2, TravelsAlone DEF EarlierIsDue, TimerIsDue
<1>4. ~packetRequestedFromUs /\ ~packetRequestedFromInputs /\ sending = None
  BY <1>1, <1>2 DEF RequestInv, MacInv
<1>5. /\ transmitState' = "TX_IDLE_STATE" /\ macTimer' = Never
      /\ tsMessages' = Reschedule(tsMessages, "requestPacket")
      /\ UNCHANGED <<queue, gateVars, tsVars, shaper, sending, messages, arrivals>>
  BY <1>4 DEF EndIFG
<1>6. /\ tsMessages' \in Seq(OwnKinds) /\ IsInjective(tsMessages')
      /\ Range(tsMessages') = Range(tsMessages) \cup {"requestPacket"}
  <2>1. tsMessages \in Seq(OwnKinds) /\ IsInjective(tsMessages) /\ "requestPacket" \in OwnKinds
    BY <1>1 DEF PortTypes, OwnKinds
  <2>. QED
    BY <1>5, <2>1, RescheduleIs
<1>7. PortTypes'
  BY <1>1, <1>5, <1>6 DEF PortTypes, gateVars, tsVars, Ticks
<1>8. RequestInv'
  BY <1>4, <1>5, <1>6 DEF RequestInv, tsVars
<1>9. ChainInv'
  BY <1>3, <1>5 DEF ChainInv, NothingTravels
<1>10. MacInv'
  BY <1>4, <1>5 DEF MacInv
<1>11. GateInv'
  BY <1>1, <1>3, <1>5 DEF GateInv, gateVars
<1>12. SlotInv'
  <2>1. None \notin LengthAwareGates
    BY QueuingAssumption DEF None
  <2>. QED
    BY <1>4, <1>5, <2>1 DEF SlotInv
<1>. QED
  BY <1>7, <1>8, <1>9, <1>10, <1>11, <1>12 DEF PortInv

\* Time passes only when nothing is left to do, and brings the end of the frame on
\* the link as near as the end of its slot.
LEMMA ElapseKeeps ==
  ASSUME PortInv, Elapse
  PROVE  PortInv'
<1>1. PortTypes /\ RequestInv /\ MacInv /\ GateInv /\ SlotInv
  BY DEF PortInv
<1>2. /\ messages = <<>> /\ ~TimerIsDue
      /\ tick' = tick - 1 /\ macTimer' = IF macTimer = Never THEN Never ELSE macTimer - 1
      /\ shaper' = [q \in ShapedQueues |-> Aged(shaper[q])] /\ arrivals' = MaxArrivals
      /\ UNCHANGED <<queue, gateOpen, entry, tsVars, transmitState, sending, messageVars>>
  BY DEF Elapse, Settled
<1>3. /\ Range(messages) = {} /\ IsInjective(messages)
      /\ Range(messages') = {} /\ IsInjective(messages')
  BY <1>2, OnlyMessage DEF messageVars
<1>4. /\ tick \in Nat \ {0} /\ macTimer \in (Nat \ {0}) \cup {Never}
      /\ \A q \in ShapedQueues : shaper[q].timer # 0
  BY <1>1, <1>2, <1>3 DEF PortTypes, GateInv, TimerIsDue, EarlierIsDue, Ticks
<1>5. /\ tick' \in Nat /\ macTimer' \in Ticks /\ (macTimer' = Never <=> macTimer = Never)
  BY <1>2, <1>4 DEF Ticks, Never
<1>6. shaper' \in [ShapedQueues -> ShaperStates]
  <2>. SUFFICES ASSUME NEW q \in ShapedQueues PROVE Aged(shaper[q]) \in ShaperStates
    BY <1>2
  <2>1. shaper[q] \in ShaperStates /\ shaper[q].timer # 0
    BY <1>1, <1>4 DEF PortTypes
  <2>2. PICK s \in ShaperStates : s = shaper[q]
    BY <2>1
  <2>. DEFINE a == IF s.state = "kEarnCredit" /\ s.credit + s.age < MaxCredit THEN s.age + 1 ELSE s.age
              t == IF s.timer = Never THEN Never ELSE s.timer - 1
  <2>3. Aged(s) = [s EXCEPT !.age = a, !.timer = t]
    BY DEF Aged
  <2>4. a \in Nat
    BY DEF ShaperStates
  <2>5. t \in Ticks
    <3>1. s.timer \in Ticks /\ s.timer # 0
      BY <2>1, <2>2 DEF ShaperStates
    <3>. QED
      BY <3>1 DEF Ticks, Never
  <2>. HIDE DEF a, t
  <2>. QED
    BY <2>2, <2>3, <2>4, <2>5 DEF ShaperStates
<1>7. PortTypes'
  BY <1>1, <1>2, <1>3, <1>5, <1>6, QueuingAssumption DEF PortTypes, tsVars, messageVars, Ticks
<1>8. RequestInv' /\ ChainInv'
  BY <1>1, <1>2, <1>3 DEF RequestInv, ChainInv, tsVars, messageVars
<1>9. MacInv'
  BY <1>1, <1>2, <1>5 DEF MacInv
<1>10. GateInv'
  BY <1>1, <1>2, <1>3, <1>5 DEF GateInv, Never
<1>11. SlotInv'
  <2>. SUFFICES ASSUME sending \in LengthAwareGates, NEW n \in 0 .. Len(ControlList) - 1,
                       sending \notin ControlList[NextIndex(entry, n)].gates
                PROVE  macTimer' <= TimeUntilEntry'[n]
    BY <1>2 DEF SlotInv
  <2>1. macTimer <= TimeUntilEntry[n]
    BY <1>1 DEF SlotInv
  <2>2. entry \in 1 .. Len(ControlList) /\ tick \in Ticks
    BY <1>1 DEF PortTypes
  <2>3. macTimer \in Nat \ {0} /\ macTimer' = macTimer - 1
    <3>1. sending # None
      BY QueuingAssumption DEF None
    <3>2. macTimer # Never
      BY <1>1, <3>1 DEF MacInv
    <3>. QED
      BY <1>2, <1>4, <3>2
  <2>4. n # 0
    <3>1. TimeUntilEntry[0] = 0
      BY <2>2, TimeUntilEntryIs, UntilIs
    <3>. QED
      BY <2>1, <2>3, <3>1
  <2>5. n \in 1 .. Len(ControlList) /\ n \in 0 .. Len(ControlList)
    BY <2>4, EntriesAreSlots
  <2>6. TimeUntilEntry'[n] = TimeUntilEntry[n] - 1
    BY <1>2, <1>4, <2>2, <2>5, TimeUntilEntryIs, TimeUntilEntryIsNext, UntilLater
  <2>7. TimeUntilEntry[n] \in Nat
    BY <2>2, <2>5, TimeUntilEntryIs, UntilIs
  <2>. QED
    BY <2>1, <2>3, <2>6, <2>7
<1>. QED
  BY <1>7, <1>8, <1>9, <1>10, <1>11 DEF PortInv

-----------------------------------------------------------------------------
\* What always holds

LEMMA NothingElseChanges == UNCHANGED vars =>
  UNCHANGED <<queue, gateVars, tsVars, shaper, macVars, messageVars, arrivals>>
BY DEF vars, gateVars, tsVars, macVars, messageVars

LEMMA NextKeeps == PortInv /\ [Kernel \/ AnyArrival]_vars => PortInv'
<1>. SUFFICES ASSUME PortInv, [Kernel \/ AnyArrival]_vars PROVE PortInv'
  OBVIOUS
<1>1. CASE UNCHANGED vars
  BY <1>1, NothingElseChanges, NothingChanges
<1>2. CASE AnyArrival
  BY <1>2, ArriveKeeps DEF AnyArrival
<1>3. ASSUME Fail PROVE PortInv'
  BY <1>3, NothingChanges DEF Fail
<1>4. ASSUME NEW q \in Queues, HandleClass(q) PROVE PortInv'
  <2>1. CASE AlgorithmPacketEnqueued(q) \/ GatePacketEnqueued(q) \/ GateStateChanged(q)
    BY <2>1, AlgorithmPacketEnqueuedKeeps, GatePacketEnqueuedKeeps, GateStateChangedKeeps
  <2>2. CASE GateRequestPacket(q) \/ AlgorithmRequestPacket(q) \/ QueueRequestPacket(q)
    BY <2>2, GateRequestPacketKeeps, AlgorithmRequestPacketKeeps, QueueRequestPacketKeeps
  <2>3. CASE AlgorithmPacket(q) \/ GatePacket(q) \/ SelectionPacket(q)
    BY <2>3, FrameStepKeeps
  <2>4. CASE MacPacket(q)
    BY <2>4, MacPacketKeeps
  <2>. QED
    BY <1>4, <2>1, <2>2, <2>3, <2>4 DEF HandleClass
<1>5. ASSUME NEW q \in ShapedQueues, HandleShaper(q) PROVE PortInv'
  BY <1>5, ShaperPacketEnqueuedKeeps, ShaperGateStateChangedKeeps, ShaperSendPacketKeeps,
     ShaperTimerKeeps DEF HandleShaper
<1>6. CASE Tick \/ UpdateSchedule
  BY <1>6, TickKeeps, UpdateScheduleKeeps
<1>7. CASE TSRequestPacket \/ TSPacketEnqueued
  BY <1>7, SelectionKeeps
<1>8. CASE EndTx \/ EndIFG \/ Elapse
  BY <1>8, EndTxKeeps, EndIFGKeeps, ElapseKeeps
<1>. QED
  BY <1>1, <1>2, <1>4, <1>5, <1>6, <1>7, <1>8 DEF Kernel

\* A frame that arrives with care arrives.
LEMMA CarefulIsNext == [CarefulNext]_vars => [Next]_vars
BY DEF CarefulNext, Next, CarefulArrive

LEMMA CarefulIsSpec == CarefulSpec => Spec
BY CarefulIsNext, PTL DEF CarefulSpec, Spec

LEMMA PortInvAlways == Spec => []PortInv
<1>1. [Next]_vars => [Kernel \/ AnyArrival]_vars
  BY DEF Next, AnyArrival
<1>. QED
  BY <1>1, InitKeeps, NextKeeps, PTL DEF Spec

\* A frame of a length-aware gate is never on the link while the gate is closed: it
\* was chosen, at the latest in the instant the gate closed, with the time it takes
\* in mind, and neither the list nor the clock went on before the MAC had it.
THEOREM FramesStayInSlot == Spec => []TransmissionInSlot
<1>1. PortInv => TransmissionInSlot
  <2>. SUFFICES ASSUME PortInv, Settled, sending \in LengthAwareGates, sending \notin gateOpen
                PROVE  FALSE
    BY DEF TransmissionInSlot
  <2>1. PortTypes /\ MacInv /\ GateInv /\ SlotInv
    BY DEF PortInv
  <2>2. entry \in 1 .. Len(ControlList) /\ tick \in Ticks /\ macTimer \in Ticks
    BY <2>1 DEF PortTypes
  <2>3. macTimer \in Nat \ {0}
    <3>1. sending # None /\ macTimer # 0
      BY QueuingAssumption DEF None, Settled, TimerIsDue, EarlierIsDue
    <3>. QED
      BY <2>1, <2>2, <3>1 DEF MacInv, Ticks
  <2>4. sending \notin ControlList[entry].gates
    BY <2>1, QueuingAssumption DEF GateInv
  <2>5. NextIndex(entry, 0) = entry /\ TimeUntilEntry[0] = 0 /\ 0 \in 0 .. Len(ControlList) - 1
    <3>1. NextIndex(entry, 0) = entry
      BY <2>2, PlacesOfTheList
    <3>2. TimeUntilEntry[0] = 0
      BY <2>2, TimeUntilEntryIs, UntilIs
    <3>. QED
      BY <3>1, <3>2, EntriesAreSlots
  <2>6. macTimer <= TimeUntilEntry[0]
    BY <2>1, <2>4, <2>5 DEF SlotInv
  <2>. QED
    BY <2>3, <2>5, <2>6
<1>. QED
  BY <1>1, PortInvAlways, PTL

\* Every frame that starts is one of the highest class that has a frame ready, at
\* the moment it starts and not only when it was chosen: express queues first.
THEOREM HighestStarts == Spec => StartsHighest
<1>. DEFINE Highest == \A q \in Queues : MacPacket(q) =>
                         \A r \in Ready : \/ q \in ExpressQueues /\ (r \in ExpressQueues => r <= q)
                                          \/ {q, r} \cap ExpressQueues = {} /\ r <= q
<1>1. PortInv => Highest
  <2>. SUFFICES ASSUME PortInv, NEW q \in Queues, MacPacket(q), NEW r \in Ready
                PROVE  Precedes(q, r)
    BY DEF Precedes
  <2>1. "mac.packet" \in ChainKinds /\ Handles("mac.packet", q)
    BY DEF MacPacket, ChainKinds, PacketKinds
  <2>2. PICK m \in Chains : m.class = q /\ IsPromised(m)
    BY <2>1, ChainHandledIs
  <2>3. q \in Nat
    BY QueuingAssumption
  <2>4. r # q => Precedes(q, r)
    BY <2>2 DEF IsPromised
  <2>5. r = q => Precedes(q, r)
    BY <2>3 DEF Precedes
  <2>. QED
    BY <2>4, <2>5
<1>2. Spec => [][Highest]_vars
  <2>1. PortInv => [Highest]_vars
    BY <1>1
  <2>. QED
    BY <2>1, PortInvAlways, PTL
<1>. QED
  BY <1>2 DEF StartsHighest

-----------------------------------------------------------------------------
\* The shaper's promises.  From here on every frame fits in the buffer and in an
\* MTU, no credit pays for two frames, and frames for a shaper arrive with care.

FramesFit == \A length \in Lengths : length <= BufferCapacity /\ Fits(length, MtuTime)

Pending(what, q) == Message(what, q) \in Range(messages)

\* The gate has changed, and the shaper will hear of it.
Changing(q) == Pending("gate.stateChanged", q) \/ Pending("algorithm.gateStateChanged", q)

\* The frame of a request is about to reach its algorithm.
FrameWaits(q) == \E m \in Range(messages) : m.what = "algorithm.packet" /\ m.class = q

Earns(q) == shaper[q].state = "kEarnCredit"
IsIdle(q) == shaper[q].state = "kIdle"
Spends(q) == shaper[q].state = "kSpendCredit"

\* Credit is earned while the gate is open, or was until now: without debt while
\* there is a frame to send, and in debt with a timer for the time it is paid.
EarnsWithCause(q) ==
  Earns(q) =>
    /\ q \in gateOpen <=> ~Changing(q)
    /\ shaper[q].credit < 0 =>
         shaper[q].timer # Never /\ shaper[q].credit + shaper[q].age + shaper[q].timer = 0
    /\ shaper[q].credit >= 0 =>
         shaper[q].timer = Never /\ (IsPacketReadyForTransmission(q) \/ FrameWaits(q))

\* An idle shaper that has something to do is about to hear of it.
IdlesWithCause(q) ==
  IsIdle(q) /\ q \in gateOpen /\ (InDebt(q) \/ IsPacketReadyForTransmission(q)) =>
    Changing(q) \/ (~InDebt(q) /\ Pending("algorithm.packetEnqueued", q))

SpendsInDebt(q) == Spends(q) => shaper[q].timer # Never /\ shaper[q].credit < 0

\* What a shaper hears of is still so.
HearsInTime(q) ==
  /\ ~(Pending("gate.stateChanged", q) /\ Pending("algorithm.gateStateChanged", q))
  /\ Pending("algorithm.packetEnqueued", q) => IsPacketReadyForTransmission(q) /\ ~Changing(q)
  /\ FrameWaits(q) => Earns(q) /\ shaper[q].credit >= 0

Watches(q) == EarnsWithCause(q) /\ IdlesWithCause(q) /\ SpendsInDebt(q) /\ HearsInTime(q)

ShaperInv == \A q \in ShapedQueues : Watches(q)

\* No frame for a shaper arrives between the tick and the change of its gate.
Late(m) == \E q \in ShapedQueues : m = Message("algorithm.packetEnqueued", q)

OrderInv ==
  \A i, j \in 1 .. Len(messages) : i < j /\ messages[i] = Update => ~Late(messages[j])

\* The gates are those of the list, but before the first tick.
ListInv ==
  gateOpen # ControlList[entry].gates => tick \in {0, Never} /\ ~packetRequestedFromInputs

Noticed(q) ==
  \/ "packetEnqueued" \in Range(tsMessages)
  \/ Pending("gate.packetEnqueued", q) \/ Pending("gate.stateChanged", q)
  \/ Pending("algorithm.packetEnqueued", q) /\ (q \in ShapedQueues => IsIdle(q))

\* While the MAC waits for a frame, the transmission selection is about to hear of
\* every frame it could have.
WorkInv == packetRequestedFromInputs => \A q \in Ready : Noticed(q)

BufferInv == \A q \in Queues : BufferUsed(q) \in Nat /\ BufferUsed(q) <= BufferCapacity

CarefulInv == ShaperInv /\ OrderInv /\ ListInv /\ WorkInv /\ BufferInv /\ failed = FALSE

-----------------------------------------------------------------------------
\* The order of the messages

LEMMA OtherKinds ==
  /\ ~Late(Update)
  /\ \A what, q : what # "algorithm.packetEnqueued" => ~Late(Message(what, q))
  /\ \A what, q, length : what # "algorithm.packetEnqueued" => ~Late(Frame(what, q, length))
  /\ \A q : q \notin ShapedQueues => ~Late(Message("algorithm.packetEnqueued", q))
  /\ \A what, q : Message(what, q).what = what /\ Message(what, q).class = q
  /\ \A what, q, length : Frame(what, q, length).what = what /\ Frame(what, q, length).class = q
                       /\ Frame(what, q, length).length = length
BY DEF Late, Update, Message, Frame

LEMMA SameOrder == \A s, m : InOrder(s, s, m)
BY DEF InOrder

\* Handlers of class q send other messages than that of an arrival.
LEMMA ClassInOrder ==
  ASSUME PortInv, NEW q \in Queues, HandleClass(q)
  PROVE  \E n : ~Late(n) /\ InOrder(messages', messages, n)
<1>1. PortTypes
  BY DEF PortInv
<1>2. ASSUME messages' = messages PROVE \E n : ~Late(n) /\ InOrder(messages', messages, n)
  BY <1>2, SameOrder, OtherKinds
<1>3. ASSUME NEW what, Handles(what, q), messages' = Tail(messages)
      PROVE  \E n : ~Late(n) /\ InOrder(messages', messages, n)
  BY <1>1, <1>3, HandledIs, OtherKinds
<1>4. ASSUME NEW what, Handles(what, q), NEW n \in Events, Becomes(n), ~Late(n)
      PROVE  \E m : ~Late(m) /\ InOrder(messages', messages, m)
  BY <1>1, <1>4, BecomesIs
<1>5. CASE AlgorithmPacketEnqueued(q)
  <2>1. /\ Handles("algorithm.packetEnqueued", q) /\ Becomes(Message("gate.packetEnqueued", q))
    BY <1>5 DEF AlgorithmPacketEnqueued
  <2>2. Message("gate.packetEnqueued", q) \in Events /\ ~Late(Message("gate.packetEnqueued", q))
    BY EventsAre, OtherKinds DEF Events
  <2>. QED
    BY <1>4, <2>1, <2>2
<1>6. CASE GatePacketEnqueued(q)
  BY <1>3, <1>6 DEF GatePacketEnqueued, Notify, Ends
<1>7. CASE GateStateChanged(q)
  <2>. DEFINE n == Message("algorithm.gateStateChanged", q)
  <2>1. /\ Handles("gate.stateChanged", q)
        /\ messages' = IF q \in ShapedQueues THEN Reschedule(Tail(messages), n) ELSE Tail(messages)
    BY <1>7 DEF GateStateChanged
  <2>2. q \in ShapedQueues => n \in Events
    BY EventsAre DEF Events
  <2>3. ~Late(n)
    BY OtherKinds
  <2>. HIDE DEF n
  <2>4. CASE q \in ShapedQueues
    <3>. DEFINE t == Tail(messages)
    <3>1. t \in Seq(Events) /\ IsInjective(t) /\ InOrder(t, messages, n)
      BY <1>1, <2>1, HandledIs
    <3>2. messages' = Reschedule(t, n)
      BY <2>1, <2>4
    <3>. HIDE DEF t
    <3>3. InOrder(Reschedule(t, n), t, n)
      BY <2>2, <2>4, <3>1, RescheduleIs
    <3>4. InOrder(messages', messages, n)
      BY <3>1, <3>2, <3>3, InOrderThrough
    <3>. QED
      BY <2>3, <3>4
  <2>5. CASE q \notin ShapedQueues
    BY <1>3, <2>1, <2>5
  <2>. QED
    BY <2>4, <2>5
<1>8. ASSUME NEW what \in ChainKinds, Handles(what, q)
      PROVE  /\ messages = <<Head(messages)>>
             /\ \A n : Becomes(n) => messages' = <<n>>
             /\ \A n, m : messages' = <<n>> => InOrder(messages', messages, m)
  <2>1. PICK m \in Chains : messages = <<m>> /\ m = Head(messages)
    BY <1>8, ChainHandledIs
  <2>2. \A n : Becomes(n) => messages' = <<n>>
    BY <2>1, PassedOn
  <2>3. \A n, o : messages' = <<n>> => InOrder(messages', messages, o)
    BY DEF InOrder
  <2>. QED
    BY <2>1, <2>2, <2>3
<1>9. CASE GateRequestPacket(q) \/ AlgorithmRequestPacket(q) \/ QueueRequestPacket(q)
  <2>1. \E what \in ChainKinds : Handles(what, q)
    BY <1>9 DEF GateRequestPacket, AlgorithmRequestPacket, QueueRequestPacket, ChainKinds, RequestKinds
  <2>2. (\E n : Becomes(n)) \/ messages' = messages
    BY <1>9 DEF GateRequestPacket, AlgorithmRequestPacket, QueueRequestPacket, Fail, messageVars
  <2>. QED
    BY <1>2, <1>8, <2>1, <2>2, OtherKinds
<1>10. CASE AlgorithmPacket(q) \/ GatePacket(q) \/ SelectionPacket(q)
  <2>1. \E what \in ChainKinds : Handles(what, q)
    BY <1>10 DEF AlgorithmPacket, GatePacket, SelectionPacket, ChainKinds, PacketKinds
  <2>2. (\E n : Becomes(n)) \/ messages' = messages
    BY <1>10 DEF AlgorithmPacket, GatePacket, SelectionPacket, Fail, messageVars
  <2>. QED
    BY <1>2, <1>8, <2>1, <2>2, OtherKinds
<1>11. CASE MacPacket(q)
  BY <1>2, <1>3, <1>11 DEF MacPacket, Ends, Fail, messageVars
<1>. QED
  BY <1>5, <1>6, <1>7, <1>9, <1>10, <1>11 DEF HandleClass

LEMMA ShaperInOrder ==
  ASSUME PortInv, NEW q \in ShapedQueues, HandleShaper(q)
  PROVE  \E n : ~Late(n) /\ InOrder(messages', messages, n)
<1>. DEFINE m == Message("gate.packetEnqueued", q)
<1>1. PortTypes /\ q \in Queues
  BY QueuingAssumption DEF PortInv
<1>2. m \in Events /\ ~Late(m)
  BY <1>1, EventsAre, OtherKinds DEF Events
<1>. HIDE DEF m
<1>3. ASSUME messages' = messages PROVE \E n : ~Late(n) /\ InOrder(messages', messages, n)
  BY <1>3, SameOrder, OtherKinds
<1>4. ASSUME NEW what, Handles(what, q), Ends \/ Becomes(m)
      PROVE  \E n : ~Late(n) /\ InOrder(messages', messages, n)
  BY <1>1, <1>2, <1>4, EndsIs, BecomesIs
<1>5. CASE ShaperPacketEnqueued(q)
  <2>1. messages' = messages \/ (Handles("algorithm.packetEnqueued", q) /\ (Ends \/ Becomes(m)))
    BY <1>5 DEF ShaperPacketEnqueued, Fail, messageVars, m
  <2>. QED
    BY <1>3, <1>4, <2>1
<1>6. CASE ShaperGateStateChanged(q)
  <2>1. messages' = messages \/ (Handles("algorithm.gateStateChanged", q) /\ Ends)
    BY <1>6 DEF ShaperGateStateChanged, Fail, messageVars
  <2>. QED
    BY <1>3, <1>4, <2>1
<1>7. CASE ShaperSendPacket(q)
  <2>1. "algorithm.packet" \in ChainKinds /\ Handles("algorithm.packet", q)
    BY <1>7 DEF ShaperSendPacket, ChainKinds, PacketKinds
  <2>2. PICK h : messages = <<h>>
    BY <2>1, ChainHandledIs
  <2>3. (\E n : Becomes(n)) \/ messages' = messages
    BY <1>7 DEF ShaperSendPacket, Fail, messageVars
  <2>4. \A n, o : messages' = <<n>> => InOrder(messages', messages, o)
    BY DEF InOrder
  <2>. QED
    BY <1>3, <2>2, <2>3, <2>4, PassedOn, OtherKinds
<1>8. CASE EndSpendingCredit(q) \/ ZeroCreditReached(q)
  <2>1. ToSelf(m) \/ messages' = messages
    BY <1>8 DEF EndSpendingCredit, ZeroCreditReached, OfferNext, Fail, messageVars, m
  <2>. QED
    BY <1>1, <1>2, <1>3, <2>1, ToSelfIs
<1>. QED
  BY <1>5, <1>6, <1>7, <1>8 DEF HandleShaper

LEMMA NextInOrder ==
  ASSUME PortInv, PortInv', OrderInv, CarefulNext
  PROVE  OrderInv'
<1>1. PortTypes /\ PortTypes'
  BY DEF PortInv
<1>2. ASSUME NEW n, ~Late(n), InOrder(messages', messages, n) PROVE OrderInv'
  <2>. SUFFICES ASSUME NEW i \in 1 .. Len(messages'), NEW j \in 1 .. Len(messages'), i < j,
                       messages'[i] = Update, messages'[j] # n
                PROVE  ~Late(messages'[j])
    BY <1>2 DEF OrderInv
  <2>1. PICK a \in 1 .. Len(messages), b \in 1 .. Len(messages) :
          a < b /\ messages'[i] = messages[a] /\ messages'[j] = messages[b]
    BY <1>2 DEF InOrder
  <2>. QED
    BY <2>1 DEF OrderInv
<1>3. ASSUME Update \notin Range(messages') PROVE OrderInv'
  <2>1. \A i \in 1 .. Len(messages') : messages'[i] \in Range(messages')
    BY <1>1 DEF PortTypes, Range
  <2>. QED
    BY <1>3, <2>1 DEF OrderInv
<1>4. ASSUME messages' = messages PROVE OrderInv'
  BY <1>2, <1>4, SameOrder, OtherKinds
<1>5. ASSUME NEW q \in Queues, HandleClass(q) PROVE OrderInv'
  BY <1>2, <1>5, ClassInOrder
<1>6. ASSUME NEW q \in ShapedQueues, HandleShaper(q) PROVE OrderInv'
  BY <1>2, <1>6, ShaperInOrder
<1>7. CASE Tick
  <2>1. ToSelf(Update) /\ Update \in Events
    BY <1>7, EventsAre DEF Tick, Update, Events
  <2>. QED
    BY <1>1, <1>2, <2>1, ToSelfIs, OtherKinds
<1>8. CASE UpdateSchedule
  <2>1. tick' = ControlList[NextIndex(entry, 1)].timeInterval /\ entry \in 1 .. Len(ControlList)
    BY <1>1, <1>8 DEF UpdateSchedule, PortTypes
  <2>2. tick' # Never
    <3>1. 1 \in 0 .. Len(ControlList)
      BY EntriesAreSlots
    <3>2. NextIndex(entry, 1) \in 1 .. Len(ControlList)
      BY <2>1, <3>1, PlacesOfTheList
    <3>. QED
      BY <2>1, <3>2, EntriesAreSlots DEF Never
  <2>. QED
    BY <1>3, <2>2 DEF PortInv, GateInv
<1>9. CASE TSRequestPacket \/ TSPacketEnqueued
  <2>1. messages' = messages \/ (messages = <<>> /\ SchedulePacket)
    BY <1>9 DEF TSRequestPacket, TSPacketEnqueued, HandlesOwn, Fail, messageVars
  <2>2. messages = <<>> /\ SchedulePacket => messages' = <<>> \/ \E m : messages' = <<m>>
    BY OnlyMessage DEF SchedulePacket
  <2>3. messages' = <<>> \/ (\E m : messages' = <<m>>) => \A n : InOrder(messages', messages, n)
    BY DEF InOrder
  <2>. QED
    BY <1>2, <1>4, <2>1, <2>2, <2>3, OtherKinds
<1>10. CASE EndTx \/ EndIFG \/ Elapse
  BY <1>4, <1>10 DEF EndTx, EndIFG, Elapse, messageVars
<1>11. ASSUME NEW q \in Queues, NEW length \in Lengths, CarefulArrive(q, length) PROVE OrderInv'
  <2>. DEFINE m == Message("algorithm.packetEnqueued", q)
  <2>1. ToSelf(m) /\ m \in Events
    BY <1>11, EventsAre DEF CarefulArrive, Arrive, Events
  <2>2. InOrder(messages', messages, m) /\ Range(messages') = Range(messages) \cup {m}
    <3>. HIDE DEF m
    <3>. QED
      BY <1>1, <2>1, ToSelfIs
  <2>3. CASE q \notin ShapedQueues
    BY <1>2, <2>2, <2>3, OtherKinds
  <2>4. CASE q \in ShapedQueues
    <3>1. ~GateIsChanging(q)
      BY <1>11, <2>4 DEF CarefulArrive
    <3>2. Update.what = "gateController.updateSchedule" /\ m # Update
      BY DEF Update, Message
    <3>3. \A i \in 1 .. Len(messages) : messages[i] # Update
      BY <3>1, <3>2 DEF GateIsChanging
    <3>4. Update \notin Range(messages)
      BY <1>1, <3>3 DEF PortTypes, Range
    <3>. QED
      BY <1>3, <2>2, <3>2, <3>4
  <2>. QED
    BY <2>3, <2>4
<1>. QED
  BY <1>5, <1>6, <1>7, <1>8, <1>9, <1>10, <1>11 DEF CarefulNext, Kernel

-----------------------------------------------------------------------------
\* The gates and the list

LEMMA NextInList ==
  ASSUME PortInv, ListInv, CarefulNext
  PROVE  ListInv'
<1>1. ASSUME UNCHANGED gateVars, packetRequestedFromInputs' = packetRequestedFromInputs
      PROVE  ListInv'
  BY <1>1 DEF ListInv, gateVars
<1>2. ASSUME NEW q \in Queues, HandleClass(q) PROVE ListInv'
  <2>1. CASE AlgorithmPacketEnqueued(q) \/ GatePacketEnqueued(q) \/ GateStateChanged(q)
    BY <1>1, <2>1 DEF AlgorithmPacketEnqueued, GatePacketEnqueued, GateStateChanged, tsVars
  <2>2. CASE GateRequestPacket(q) \/ AlgorithmRequestPacket(q) \/ QueueRequestPacket(q)
    BY <1>1, <2>2 DEF GateRequestPacket, AlgorithmRequestPacket, QueueRequestPacket, Fail, tsVars
  <2>3. CASE AlgorithmPacket(q) \/ GatePacket(q) \/ SelectionPacket(q) \/ MacPacket(q)
    BY <1>1, <2>3 DEF AlgorithmPacket, GatePacket, SelectionPacket, MacPacket, Fail, tsVars
  <2>. QED
    BY <1>2, <2>1, <2>2, <2>3 DEF HandleClass
<1>3. ASSUME NEW q \in ShapedQueues, HandleShaper(q) PROVE ListInv'
  BY <1>1, <1>3 DEF HandleShaper, ShaperPacketEnqueued, ShaperGateStateChanged, ShaperSendPacket,
     EndSpendingCredit, ZeroCreditReached, Fail, tsVars
<1>4. CASE Tick
  BY <1>4 DEF ListInv, Tick, Never, tsVars
<1>5. CASE UpdateSchedule
  BY <1>5 DEF ListInv, UpdateSchedule
<1>6. CASE TSRequestPacket \/ TSPacketEnqueued
  <2>1. CASE Fail
    BY <1>1, <2>1 DEF Fail, tsVars
  <2>2. CASE ~Fail
    <3>1. messages = <<>> /\ ~TimerIsDue
      BY <1>6 DEF TSRequestPacket, TSPacketEnqueued, HandlesOwn
    <3>2. tick \notin {0, Never}
      BY <3>1, OnlyMessage DEF PortInv, GateInv, TimerIsDue
    <3>3. UNCHANGED gateVars
      BY <1>6, <2>2 DEF TSRequestPacket, TSPacketEnqueued
    <3>. QED
      BY <3>2, <3>3 DEF ListInv, gateVars
  <2>. QED
    BY <2>1, <2>2
<1>7. CASE EndTx \/ EndIFG
  BY <1>1, <1>7 DEF EndTx, EndIFG, tsVars
<1>8. CASE Elapse
  <2>1. messages = <<>> /\ ~TimerIsDue
    BY <1>8 DEF Elapse, Settled
  <2>2. tick \notin {0, Never}
    BY <2>1, OnlyMessage DEF PortInv, GateInv, TimerIsDue
  <2>3. gateOpen' = gateOpen /\ entry' = entry
    BY <1>8 DEF Elapse
  <2>. QED
    BY <2>2, <2>3 DEF ListInv
<1>9. ASSUME NEW q \in Queues, NEW length \in Lengths, CarefulArrive(q, length) PROVE ListInv'
  BY <1>1, <1>9 DEF CarefulArrive, Arrive, tsVars
<1>. QED
  BY <1>2, <1>3, <1>4, <1>5, <1>6, <1>7, <1>8, <1>9 DEF CarefulNext, Kernel

-----------------------------------------------------------------------------
\* The buffers

IsUsed(f, s) == f = [n \in 0 .. Len(s) |-> IF n = 0 THEN 0 ELSE f[n - 1] + s[n]]

UsedOf(s) == (CHOOSE f : IsUsed(f, s))[Len(s)]

LEMMA BufferUsedIs == \A q : BufferUsed(q) = UsedOf(queue[q])
BY Zenon DEF BufferUsed, UsedOf, IsUsed

LEMMA BufferUsedIsNext == \A q : BufferUsed(q)' = UsedOf(queue'[q])
BY Zenon DEF BufferUsed, UsedOf, IsUsed

\* f sums up the first lengths of s.
Sums(f, s) == f[0] = 0 /\ \A k \in 1 .. Len(s) : f[k] = f[k - 1] + s[k]

LEMMA SumsExist ==
  ASSUME NEW s \in Seq(Nat)
  PROVE  \E f \in [0 .. Len(s) -> Nat] : Sums(f, s)
<1>. DEFINE N == Len(s)
            Adds(f, m) == f[0] = 0 /\ \A k \in 1 .. m : f[k] = f[k - 1] + s[k]
            Exists(m) == \E f \in [0 .. m -> Nat] : Adds(f, m)
            T == {m \in Nat : m <= N => Exists(m)}
<1>1. N \in Nat /\ \A n \in 1 .. N : s[n] \in Nat
  OBVIOUS
<1>. HIDE DEF N
<1>2. 0 \in T
  <2>1. [n \in 0 .. 0 |-> 0] \in [0 .. 0 -> Nat] /\ Adds([n \in 0 .. 0 |-> 0], 0)
    OBVIOUS
  <2>. QED
    BY <2>1
<1>3. ASSUME NEW m \in Nat, m \in T PROVE m + 1 \in T
  <2>. SUFFICES ASSUME m + 1 <= N PROVE Exists(m + 1)
    <3>. HIDE DEF Exists
    <3>. QED
      OBVIOUS
  <2>1. PICK f \in [0 .. m -> Nat] : Adds(f, m)
    BY <1>1, <1>3
  <2>. DEFINE g == [k \in 0 .. m + 1 |-> IF k = m + 1 THEN f[m] + s[m + 1] ELSE f[k]]
  <2>2. g \in [0 .. m + 1 -> Nat]
    BY <1>1
  <2>3. g[0] = 0 /\ \A k \in 1 .. m : g[k] = g[k - 1] + s[k]
    BY <2>1
  <2>4. g[m + 1] = g[m] + s[m + 1]
    OBVIOUS
  <2>. HIDE DEF g
  <2>5. (m + 1) - 1 = m /\ \A k \in 1 .. m + 1 : k \in 1 .. m \/ k = m + 1
    OBVIOUS
  <2>6. Adds(g, m + 1)
    BY <2>3, <2>4, <2>5
  <2>. HIDE DEF Adds
  <2>. QED
    BY <2>2, <2>6
<1>4. N \in T
  <2>. HIDE DEF T
  <2>. QED
    BY <1>1, <1>2, <1>3, SetInduction
<1>. QED
  BY <1>1, <1>4 DEF Sums, N

LEMMA SumsAreUsed ==
  ASSUME NEW s \in Seq(Nat), NEW f, Sums(f, s)
  PROVE  UsedOf(s) = f[Len(s)] /\ UsedOf(s) \in Nat
<1>. DEFINE N == Len(s)
            u == CHOOSE g : IsUsed(g, s)
<1>1. N \in Nat /\ \A n \in 1 .. N : s[n] \in Nat
  OBVIOUS
<1>2. PICK g \in [0 .. N -> Nat] : Sums(g, s)
  BY SumsExist
<1>3. IsUsed(g, s)
  <2>. DEFINE F(n) == IF n = 0 THEN 0 ELSE g[n - 1] + s[n]
  <2>1. \A n \in 0 .. N : g[n] = F(n)
    BY <1>1, <1>2 DEF Sums
  <2>. HIDE DEF F
  <2>2. g = [n \in 0 .. N |-> F(n)]
    BY <2>1
  <2>. QED
    BY <2>2 DEF F, IsUsed
<1>4. IsUsed(u, s)
  BY <1>3
<1>. HIDE DEF u
<1>5. Sums(u, s)
  <2>. DEFINE F(n) == IF n = 0 THEN 0 ELSE u[n - 1] + s[n]
  <2>1. u = [n \in 0 .. N |-> F(n)]
    BY <1>4 DEF IsUsed
  <2>. HIDE DEF F
  <2>2. \A n \in 0 .. N : u[n] = F(n)
    BY <2>1
  <2>3. 0 \in 0 .. N /\ \A n \in 1 .. N : n \in 0 .. N /\ n # 0
    BY <1>1
  <2>. QED
    BY <2>2, <2>3 DEF F, Sums
<1>6. ASSUME NEW a, Sums(a, s) PROVE a[N] = g[N]
  <2>. DEFINE T == {n \in Nat : n <= N => a[n] = g[n]}
  <2>1. 0 \in T
    BY <1>2, <1>6 DEF Sums
  <2>2. ASSUME NEW n \in Nat, n \in T PROVE n + 1 \in T
    <3>. SUFFICES ASSUME n + 1 <= N PROVE a[n + 1] = g[n + 1]
      OBVIOUS
    <3>1. n + 1 \in 1 .. N /\ (n + 1) - 1 = n /\ n <= N
      BY <1>1
    <3>2. a[n + 1] = a[n] + s[n + 1] /\ g[n + 1] = g[n] + s[n + 1]
      BY <1>2, <1>6, <3>1 DEF Sums
    <3>. QED
      BY <2>2, <3>1, <3>2
  <2>3. Nat \subseteq T
    <3>. HIDE DEF T
    <3>. QED
      BY <2>1, <2>2, SetInduction
  <2>. QED
    BY <1>1, <2>3
<1>7. u[N] = g[N] /\ f[N] = g[N] /\ g[N] \in Nat
  BY <1>1, <1>5, <1>6
<1>. QED
  BY <1>7 DEF UsedOf, u

LEMMA UsedOfAppend ==
  ASSUME NEW s \in Seq(Nat), NEW l \in Nat
  PROVE  UsedOf(Append(s, l)) = UsedOf(s) + l /\ UsedOf(s) \in Nat
<1>. DEFINE t == Append(s, l)
            N == Len(s)
<1>1. /\ t \in Seq(Nat) /\ Len(t) = N + 1 /\ t[N + 1] = l /\ \A i \in 1 .. N : t[i] = s[i]
      /\ N \in Nat
  OBVIOUS
<1>. HIDE DEF t
<1>2. PICK f \in [0 .. N -> Nat] : Sums(f, s)
  BY SumsExist
<1>. DEFINE g == [k \in 0 .. N + 1 |-> IF k = N + 1 THEN f[N] + l ELSE f[k]]
<1>3. g[0] = 0 /\ (\A k \in 1 .. N : g[k] = g[k - 1] + t[k]) /\ g[N + 1] = g[N] + t[N + 1]
  BY <1>1, <1>2 DEF Sums
<1>4. g[N + 1] = f[N] + l
  BY <1>1
<1>. HIDE DEF g
<1>5. (N + 1) - 1 = N /\ \A k \in 1 .. N + 1 : k \in 1 .. N \/ k = N + 1
  BY <1>1
<1>6. Sums(g, t)
  BY <1>1, <1>3, <1>5 DEF Sums
<1>7. UsedOf(t) = g[N + 1] /\ UsedOf(s) = f[N] /\ UsedOf(s) \in Nat
  BY <1>1, <1>2, <1>6, SumsAreUsed
<1>. QED
  BY <1>4, <1>7 DEF t

LEMMA UsedOfTail ==
  ASSUME NEW s \in Seq(Nat), s # <<>>
  PROVE  UsedOf(s) = Head(s) + UsedOf(Tail(s)) /\ UsedOf(Tail(s)) \in Nat
<1>. DEFINE t == Tail(s)
            N == Len(t)
<1>1. /\ t \in Seq(Nat) /\ Len(s) = N + 1 /\ s[1] = Head(s) /\ \A i \in 1 .. N : t[i] = s[i + 1]
      /\ N \in Nat /\ Head(s) \in Nat /\ \A k \in 1 .. N + 1 : s[k] \in Nat
  <2>1. /\ t \in Seq(Nat) /\ Len(s) = N + 1 /\ s[1] = Head(s) /\ \A i \in 1 .. N : t[i] = s[i + 1]
        /\ N \in Nat /\ Head(s) \in Nat
    OBVIOUS
  <2>2. \A k \in 1 .. Len(s) : s[k] \in Nat
    OBVIOUS
  <2>. QED
    BY <2>1, <2>2
<1>. HIDE DEF t
<1>2. PICK f \in [0 .. N -> Nat] : Sums(f, t)
  BY <1>1, SumsExist
<1>. DEFINE g == [k \in 0 .. N + 1 |-> IF k = 0 THEN 0 ELSE Head(s) + f[k - 1]]
<1>3. g[0] = 0
  BY <1>1
<1>4. ASSUME NEW k \in 1 .. N + 1 PROVE g[k] = g[k - 1] + s[k]
  <2>1. CASE k = 1
    BY <1>1, <1>2, <2>1 DEF Sums
  <2>2. CASE k # 1
    <3>1. k - 1 \in 1 .. N /\ (k - 1) + 1 = k
      BY <1>1, <2>2
    <3>2. f[k - 1] = f[(k - 1) - 1] + t[k - 1] /\ t[k - 1] = s[k]
      BY <1>1, <1>2, <3>1 DEF Sums
    <3>3. (k - 1) - 1 \in 0 .. N /\ s[k] \in Nat
      BY <1>1, <3>1
    <3>4. f[(k - 1) - 1] \in Nat
      BY <3>3
    <3>5. g[k] = Head(s) + f[k - 1] /\ g[k - 1] = Head(s) + f[(k - 1) - 1]
      BY <1>1, <3>1
    <3>. QED
      BY <1>1, <3>2, <3>3, <3>4, <3>5
  <2>. QED
    BY <2>1, <2>2
<1>5. g[N + 1] = Head(s) + f[N]
  BY <1>1
<1>. HIDE DEF g
<1>6. Sums(g, s)
  BY <1>1, <1>3, <1>4 DEF Sums
<1>7. UsedOf(s) = g[N + 1] /\ UsedOf(t) = f[N] /\ UsedOf(t) \in Nat
  BY <1>1, <1>2, <1>6, SumsAreUsed
<1>. QED
  BY <1>5, <1>7 DEF t

\* Frames enter a buffer that has room for them, and leave one by one.
LEMMA NextInBuffer ==
  ASSUME PortInv, BufferInv, CarefulNext
  PROVE  BufferInv'
<1>1. /\ queue \in [Queues -> Seq(Lengths)] /\ Lengths \subseteq Nat
      /\ \A q \in Queues : queue[q] \in Seq(Nat)
  <2>1. queue \in [Queues -> Seq(Lengths)] /\ Lengths \subseteq Nat
    BY QueuingAssumption DEF PortInv, PortTypes
  <2>2. ASSUME NEW s \in Seq(Lengths) PROVE s \in Seq(Nat)
    <3>1. Len(s) \in Nat /\ s = [i \in 1 .. Len(s) |-> s[i]] /\ \A i \in 1 .. Len(s) : s[i] \in Lengths
      OBVIOUS
    <3>2. \A i \in 1 .. Len(s) : s[i] \in Nat
      BY <2>1, <3>1
    <3>. QED
      BY <3>1, <3>2
  <2>3. \A q \in Queues : queue[q] \in Seq(Lengths)
    BY <2>1
  <2>. QED
    BY <2>1, <2>2, <2>3
<1>2. \A q \in Queues : UsedOf(queue[q]) \in Nat /\ UsedOf(queue[q]) <= BufferCapacity
  BY BufferUsedIs DEF BufferInv
<1>3. ASSUME \A q \in Queues : UsedOf(queue'[q]) \in Nat /\ UsedOf(queue'[q]) <= BufferCapacity
      PROVE  BufferInv'
  BY <1>3, BufferUsedIsNext DEF BufferInv
<1>4. ASSUME queue' = queue PROVE BufferInv'
  BY <1>2, <1>3, <1>4
<1>5. ASSUME NEW q \in Queues, HandleClass(q) PROVE BufferInv'
  <2>1. CASE QueueRequestPacket(q) /\ ~Fail
    <3>1. queue' = [queue EXCEPT ![q] = Tail(@)] /\ queue[q] # <<>>
      BY <2>1 DEF QueueRequestPacket, QueueIsEmpty
    <3>2. queue'[q] = Tail(queue[q]) /\ \A r \in Queues : r # q => queue'[r] = queue[r]
      BY <1>1, <3>1
    <3>3. /\ UsedOf(queue[q]) = Head(queue[q]) + UsedOf(Tail(queue[q]))
          /\ UsedOf(Tail(queue[q])) \in Nat /\ Head(queue[q]) \in Nat
      BY <1>1, <3>1, UsedOfTail
    <3>4. UsedOf(queue'[q]) \in Nat /\ UsedOf(queue'[q]) <= BufferCapacity
      BY <1>2, <3>2, <3>3, QueuingAssumption
    <3>. QED
      BY <1>2, <1>3, <3>2, <3>4
  <2>2. CASE Fail
    BY <1>4, <2>2 DEF Fail
  <2>3. CASE AlgorithmPacketEnqueued(q) \/ GatePacketEnqueued(q) \/ GateStateChanged(q)
    BY <1>4, <2>3 DEF AlgorithmPacketEnqueued, GatePacketEnqueued, GateStateChanged
  <2>4. CASE GateRequestPacket(q) \/ AlgorithmRequestPacket(q)
    BY <1>4, <2>2, <2>4 DEF GateRequestPacket, AlgorithmRequestPacket
  <2>5. CASE AlgorithmPacket(q) \/ GatePacket(q) \/ SelectionPacket(q) \/ MacPacket(q)
    BY <1>4, <2>2, <2>5 DEF AlgorithmPacket, GatePacket, SelectionPacket, MacPacket
  <2>. QED
    BY <1>5, <2>1, <2>2, <2>3, <2>4, <2>5 DEF HandleClass
<1>6. ASSUME NEW q \in ShapedQueues, HandleShaper(q) PROVE BufferInv'
  BY <1>4, <1>6 DEF HandleShaper, ShaperPacketEnqueued, ShaperGateStateChanged, ShaperSendPacket,
     EndSpendingCredit, ZeroCreditReached, Fail
<1>7. CASE Tick \/ UpdateSchedule
  BY <1>4, <1>7 DEF Tick, UpdateSchedule
<1>8. CASE TSRequestPacket \/ TSPacketEnqueued
  BY <1>4, <1>8 DEF TSRequestPacket, TSPacketEnqueued, Fail
<1>9. CASE EndTx \/ EndIFG \/ Elapse
  BY <1>4, <1>9 DEF EndTx, EndIFG, Elapse
<1>10. ASSUME NEW q \in Queues, NEW length \in Lengths, CarefulArrive(q, length) PROVE BufferInv'
  <2>1. queue' = IF HasRoom(q, length) THEN [queue EXCEPT ![q] = Append(@, length)] ELSE queue
    BY <1>10 DEF CarefulArrive, Arrive
  <2>2. CASE HasRoom(q, length)
    <3>1. queue'[q] = Append(queue[q], length) /\ \A r \in Queues : r # q => queue'[r] = queue[r]
      BY <1>1, <2>1, <2>2
    <3>2. UsedOf(queue[q]) + length <= BufferCapacity
      BY <2>2, BufferUsedIs DEF HasRoom
    <3>3. UsedOf(queue'[q]) = UsedOf(queue[q]) + length /\ length \in Nat
      BY <1>1, <3>1, UsedOfAppend
    <3>4. UsedOf(queue'[q]) \in Nat /\ UsedOf(queue'[q]) <= BufferCapacity
      BY <1>2, <3>2, <3>3
    <3>. QED
      BY <1>2, <1>3, <3>1, <3>4
  <2>3. CASE ~HasRoom(q, length)
    BY <1>4, <2>1, <2>3
  <2>. QED
    BY <2>2, <2>3
<1>. QED
  BY <1>5, <1>6, <1>7, <1>8, <1>9, <1>10 DEF CarefulNext, Kernel

\* A frame that fits in an empty buffer is there when its algorithm hears of it.
LEMMA ArrivedFrame ==
  ASSUME PortInv, FramesFit, NEW q \in Queues, NEW length \in Lengths,
         queue' = IF HasRoom(q, length) THEN [queue EXCEPT ![q] = Append(@, length)] ELSE queue
  PROVE  /\ IsPacketReadyForTransmission(q)'
         /\ queue[q] # <<>> => queue'[q] # <<>> /\ Head(queue'[q]) = Head(queue[q])
<1>1. /\ queue \in [Queues -> Seq(Lengths)] /\ queue[q] \in Seq(Lengths) /\ length \in Nat
  BY QueuingAssumption DEF PortInv, PortTypes
<1>2. queue'[q] = IF HasRoom(q, length) THEN Append(queue[q], length) ELSE queue[q]
  BY <1>1
<1>3. queue[q] = <<>> => HasRoom(q, length)
  <2>. SUFFICES ASSUME queue[q] = <<>> PROVE UsedOf(queue[q]) + length <= BufferCapacity
    BY BufferUsedIs DEF HasRoom
  <2>1. <<>> \in Seq(Nat) /\ Len(<<>>) = 0 /\ Sums([n \in 0 .. 0 |-> 0], <<>>)
    BY DEF Sums
  <2>2. UsedOf(<<>>) = 0
    BY <2>1, SumsAreUsed
  <2>. QED
    BY <1>1, <2>2 DEF FramesFit
<1>4. queue'[q] # <<>> /\ queue'[q] \in Seq(Lengths)
      /\ (queue[q] # <<>> => Head(queue'[q]) = Head(queue[q]))
  <2>. DEFINE s == queue[q]
  <2>1. s \in Seq(Lengths) /\ queue'[q] = (IF HasRoom(q, length) THEN Append(s, length) ELSE s)
        /\ (s = <<>> => HasRoom(q, length))
    BY <1>1, <1>2, <1>3
  <2>. HIDE DEF s
  <2>2. /\ Append(s, length) # <<>> /\ Append(s, length) \in Seq(Lengths)
        /\ (s # <<>> => Head(Append(s, length)) = Head(s))
    BY <2>1
  <2>. QED
    BY <2>1, <2>2 DEF s
<1>5. Head(queue'[q]) \in Lengths
  <2>. DEFINE s == queue'[q]
  <2>1. s \in Seq(Lengths) /\ s # <<>>
    BY <1>4
  <2>. HIDE DEF s
  <2>2. Head(s) \in Lengths
    BY <2>1
  <2>. QED
    BY <2>2 DEF s
<1>. QED
  BY <1>4, <1>5 DEF IsPacketReadyForTransmission, QueueIsEmpty, Fits, FramesFit

-----------------------------------------------------------------------------
\* Steps a shaper has no part in

\* The messages that the promises of class q are about.
IsAbout(m, q) ==
  /\ m.class = q
  /\ m.what \in {"gate.stateChanged", "algorithm.gateStateChanged", "algorithm.packetEnqueued",
                 "algorithm.packet"}

LEMMA AboutMessages ==
  /\ \A what, q, r : what \in {"gate.stateChanged", "algorithm.gateStateChanged", "algorithm.packetEnqueued"}
       => (IsAbout(Message(what, q), r) <=> q = r)
  /\ \A what, q, r : what \notin {"gate.stateChanged", "algorithm.gateStateChanged", "algorithm.packetEnqueued",
                                  "algorithm.packet"}
       => ~IsAbout(Message(what, q), r)
  /\ \A q \in ShapedQueues : ~IsAbout(Update, q)
<1>1. \A q \in ShapedQueues : q # None
  BY QueuingAssumption DEF None
<1>. QED
  BY <1>1 DEF IsAbout, Message, Update

LEMMA Unconcerned ==
  ASSUME NEW q, Watches(q), queue'[q] = queue[q], shaper'[q] = shaper[q],
         q \in gateOpen' <=> q \in gateOpen,
         \A m : IsAbout(m, q) => (m \in Range(messages') <=> m \in Range(messages))
  PROVE  Watches(q)'
<1>1. \A what \in {"gate.stateChanged", "algorithm.gateStateChanged", "algorithm.packetEnqueued"} :
        Pending(what, q)' <=> Pending(what, q)
  BY AboutMessages DEF Pending
<1>2. Changing(q)' <=> Changing(q)
  BY <1>1 DEF Changing
<1>3. FrameWaits(q)' <=> FrameWaits(q)
  BY DEF FrameWaits, IsAbout
<1>4. /\ IsPacketReadyForTransmission(q)' <=> IsPacketReadyForTransmission(q)
      /\ InDebt(q)' <=> InDebt(q)
      /\ Earns(q)' <=> Earns(q)
      /\ IsIdle(q)' <=> IsIdle(q)
      /\ Spends(q)' <=> Spends(q)
  BY DEF IsPacketReadyForTransmission, QueueIsEmpty, InDebt, Earns, IsIdle, Spends
<1>5. EarnsWithCause(q)'
  BY <1>2, <1>3, <1>4 DEF Watches, EarnsWithCause
<1>6. IdlesWithCause(q)'
  BY <1>1, <1>2, <1>4 DEF Watches, IdlesWithCause
<1>7. SpendsInDebt(q)'
  BY <1>4 DEF Watches, SpendsInDebt
<1>8. HearsInTime(q)'
  BY <1>1, <1>2, <1>3, <1>4 DEF Watches, HearsInTime
<1>. QED
  BY <1>5, <1>6, <1>7, <1>8 DEF Watches

LEMMA QuietStep ==
  ASSUME ShaperInv, gateOpen' = gateOpen, shaper' = shaper,
         \A q \in ShapedQueues : queue'[q] = queue[q],
         \A m \in Range(messages') : m \in Range(messages) \/ \A q \in ShapedQueues : ~IsAbout(m, q),
         \A m \in Range(messages) : m \in Range(messages') \/ \A q \in ShapedQueues : ~IsAbout(m, q)
  PROVE  ShaperInv'
<1>. SUFFICES ASSUME NEW q \in ShapedQueues PROVE Watches(q)'
  BY DEF ShaperInv
<1>1. Watches(q)
  BY DEF ShaperInv
<1>. QED
  BY <1>1, Unconcerned

\* A handler of a message that is about no shaper and sends no such message.
LEMMA QuietHandler ==
  ASSUME PortInv, ShaperInv, NEW what, NEW q, Handles(what, q),
         q \notin ShapedQueues \/ \A m : m.what = what => \A r \in ShapedQueues : ~IsAbout(m, r),
         gateOpen' = gateOpen, shaper' = shaper, \A r \in ShapedQueues : queue'[r] = queue[r],
         \A m \in Range(messages') : m \in Range(messages) \/ \A r \in ShapedQueues : ~IsAbout(m, r),
         \A m \in Range(messages) : m # Head(messages) => m \in Range(messages')
  PROVE  ShaperInv'
<1>1. Head(messages).what = what /\ Head(messages).class = q
  BY HandledIs DEF PortInv
<1>2. \A r \in ShapedQueues : ~IsAbout(Head(messages), r)
  BY <1>1 DEF IsAbout
<1>. QED
  BY <1>2, QuietStep

\* What a handler of class q does to the messages about the others.
LEMMA ConcernsOne ==
  ASSUME ShaperInv, NEW q, gateOpen' = gateOpen,
         \A r \in ShapedQueues : r # q => queue'[r] = queue[r] /\ shaper'[r] = shaper[r],
         \A m \in Range(messages') : m \in Range(messages) \/ m.class = q,
         \A m \in Range(messages) : m \in Range(messages') \/ m.class = q,
         q \in ShapedQueues => Watches(q)'
  PROVE  ShaperInv'
<1>. SUFFICES ASSUME NEW r \in ShapedQueues, r # q PROVE Watches(r)'
  BY DEF ShaperInv
<1>1. Watches(r)
  BY DEF ShaperInv
<1>2. \A m : IsAbout(m, r) => (m \in Range(messages') <=> m \in Range(messages))
  BY DEF IsAbout
<1>. QED
  BY <1>1, <1>2, Unconcerned

LEMMA ClassIsQuiet ==
  ASSUME PortInv, ShaperInv, NEW q \in Queues,
         \/ AlgorithmPacketEnqueued(q) \/ GatePacketEnqueued(q)
         \/ q \notin ShapedQueues /\ GateStateChanged(q)
         \/ GateRequestPacket(q) \/ AlgorithmRequestPacket(q)
         \/ q \notin ShapedQueues /\ QueueRequestPacket(q)
         \/ AlgorithmPacket(q) \/ GatePacket(q) \/ SelectionPacket(q) \/ MacPacket(q)
  PROVE  ShaperInv'
<1>1. PortTypes
  BY DEF PortInv
<1>2. CASE Fail
  BY <1>2, QuietStep DEF Fail, gateVars, messageVars
<1>3. CASE AlgorithmPacketEnqueued(q)
  <2>. DEFINE n == Message("gate.packetEnqueued", q)
  <2>1. /\ q \notin ShapedQueues /\ Handles("algorithm.packetEnqueued", q) /\ Becomes(n)
        /\ gateOpen' = gateOpen /\ shaper' = shaper /\ queue' = queue
    BY <1>3 DEF AlgorithmPacketEnqueued, gateVars
  <2>2. n \in Events /\ \A r \in ShapedQueues : ~IsAbout(n, r)
    BY EventsAre, AboutMessages DEF Events
  <2>. HIDE DEF n
  <2>3. Range(messages') = (Range(messages) \ {Head(messages)}) \cup {n}
    BY <1>1, <2>1, <2>2, BecomesIs
  <2>. QED
    BY <2>1, <2>2, <2>3, QuietHandler
<1>4. CASE GatePacketEnqueued(q)
  <2>1. /\ Handles("gate.packetEnqueued", q) /\ messages' = Tail(messages)
        /\ gateOpen' = gateOpen /\ shaper' = shaper /\ queue' = queue
    BY <1>4 DEF GatePacketEnqueued, Notify, Ends, gateVars
  <2>2. Range(messages') = Range(messages) \ {Head(messages)}
    BY <1>1, <2>1, HandledIs
  <2>3. \A m : m.what = "gate.packetEnqueued" => \A r \in ShapedQueues : ~IsAbout(m, r)
    BY DEF IsAbout
  <2>. QED
    BY <2>1, <2>2, <2>3, QuietHandler
<1>5. CASE q \notin ShapedQueues /\ GateStateChanged(q)
  <2>1. /\ Handles("gate.stateChanged", q) /\ messages' = Tail(messages)
        /\ gateOpen' = gateOpen /\ shaper' = shaper /\ queue' = queue
    BY <1>5 DEF GateStateChanged, gateVars
  <2>2. Range(messages') = Range(messages) \ {Head(messages)}
    BY <1>1, <2>1, HandledIs
  <2>. QED
    BY <1>5, <2>1, <2>2, QuietHandler
<1>6. ASSUME NEW what, NEW new, NEW l, what \in ChainKinds, Handles(what, q), Becomes(Frame(new, q, l)),
             q \notin ShapedQueues \/ {what, new} \cap {"algorithm.packet"} = {},
             new \in ChainKinds,
             gateOpen' = gateOpen, shaper' = shaper, \A r \in ShapedQueues : queue'[r] = queue[r]
      PROVE  ShaperInv'
  <2>. DEFINE n == Frame(new, q, l)
  <2>1. PICK m \in Chains : messages = <<m>> /\ m.what = what /\ m.class = q
    BY <1>6, ChainHandledIs
  <2>2. n.what = new /\ n.class = q /\ Becomes(n)
    BY <1>6, OtherKinds
  <2>. HIDE DEF n
  <2>3. messages' = <<n>>
    BY <2>1, <2>2, PassedOn
  <2>4. Range(messages) = {m} /\ Range(messages') = {n}
    BY <2>1, <2>3, OnlyMessage
  <2>5. \A r \in ShapedQueues : ~IsAbout(m, r) /\ ~IsAbout(n, r)
    BY <1>6, <2>1, <2>2 DEF IsAbout, ChainKinds, RequestKinds, PacketKinds
  <2>. QED
    BY <1>6, <2>4, <2>5, QuietStep
<1>7. CASE GateRequestPacket(q) \/ AlgorithmRequestPacket(q)
  <2>1. CASE GateRequestPacket(q) /\ ~Fail
    <3>1. /\ "gate.requestPacket" \in ChainKinds /\ Handles("gate.requestPacket", q)
          /\ Becomes(Frame("algorithm.requestPacket", q, MaxTransferableBits(q)))
          /\ "algorithm.requestPacket" \in ChainKinds
          /\ UNCHANGED <<queue, shaper, gateOpen>>
      BY <2>1 DEF GateRequestPacket, ChainKinds, RequestKinds, gateVars
    <3>. QED
      BY <1>6, <3>1
  <2>2. CASE AlgorithmRequestPacket(q)
    <3>1. /\ "algorithm.requestPacket" \in ChainKinds /\ Handles("algorithm.requestPacket", q)
          /\ Becomes(Frame("queue.requestPacket", q, Head(messages).length))
          /\ "queue.requestPacket" \in ChainKinds
          /\ UNCHANGED <<queue, shaper, gateOpen>>
      BY <2>2 DEF AlgorithmRequestPacket, ChainKinds, RequestKinds, gateVars
    <3>. QED
      BY <1>6, <3>1
  <2>. QED
    BY <1>2, <1>7, <2>1, <2>2
<1>8. CASE q \notin ShapedQueues /\ QueueRequestPacket(q) /\ ~Fail
  <2>1. /\ "queue.requestPacket" \in ChainKinds /\ Handles("queue.requestPacket", q)
        /\ Becomes(Frame("algorithm.packet", q, Head(queue[q])))
        /\ "algorithm.packet" \in ChainKinds
        /\ queue' = [queue EXCEPT ![q] = Tail(@)]
        /\ shaper' = shaper /\ gateOpen' = gateOpen
    BY <1>8 DEF QueueRequestPacket, ChainKinds, RequestKinds, PacketKinds, gateVars
  <2>2. \A r \in ShapedQueues : queue'[r] = queue[r]
    BY <1>1, <1>8, <2>1, QueuingAssumption DEF PortTypes
  <2>. QED
    BY <1>6, <1>8, <2>1, <2>2
<1>9. CASE (AlgorithmPacket(q) \/ GatePacket(q) \/ SelectionPacket(q)) /\ ~Fail
  <2>1. \E what, new \in PacketKinds :
          /\ Handles(what, q) /\ Becomes(Frame(new, q, Head(messages).length))
          /\ q \notin ShapedQueues \/ {what, new} \cap {"algorithm.packet"} = {}
    BY <1>9 DEF AlgorithmPacket, GatePacket, SelectionPacket, PacketKinds
  <2>2. UNCHANGED <<queue, shaper, gateOpen>>
    BY <1>9 DEF AlgorithmPacket, GatePacket, SelectionPacket, gateVars
  <2>3. PacketKinds \subseteq ChainKinds
    BY DEF ChainKinds
  <2>. QED
    BY <1>6, <2>1, <2>2, <2>3
<1>10. CASE MacPacket(q) /\ ~Fail
  <2>1. /\ Handles("mac.packet", q) /\ messages' = Tail(messages)
        /\ gateOpen' = gateOpen /\ shaper' = shaper /\ queue' = queue
    BY <1>10 DEF MacPacket, Ends, gateVars
  <2>2. Range(messages') = Range(messages) \ {Head(messages)}
    BY <1>1, <2>1, HandledIs
  <2>3. \A m : m.what = "mac.packet" => \A r \in ShapedQueues : ~IsAbout(m, r)
    BY DEF IsAbout
  <2>. QED
    BY <2>1, <2>2, <2>3, QuietHandler
<1>. QED
  BY <1>2, <1>3, <1>4, <1>5, <1>7, <1>8, <1>9, <1>10

-----------------------------------------------------------------------------
\* Steps of a shaper

LEMMA ShaperIs ==
  ASSUME PortInv, NEW q \in ShapedQueues
  PROVE  /\ shaper[q] \in ShaperStates
         /\ Earns(q) \/ IsIdle(q) \/ Spends(q)
         /\ ~(Earns(q) /\ IsIdle(q)) /\ ~(Earns(q) /\ Spends(q)) /\ ~(IsIdle(q) /\ Spends(q))
         /\ InDebt(q) <=> shaper[q].credit < 0
         /\ shaper[q].credit \in Int /\ shaper[q].age \in Nat /\ shaper[q].timer \in Ticks
         /\ q \in Queues
<1>1. shaper[q] \in ShaperStates
  BY DEF PortInv, PortTypes
<1>2. shaper[q].state \in {"kIdle", "kEarnCredit", "kSpendCredit"}
  BY <1>1 DEF ShaperStates
<1>3. shaper[q].credit \in Int /\ shaper[q].age \in Nat /\ shaper[q].timer \in Ticks
  BY <1>1 DEF ShaperStates
<1>. QED
  BY <1>1, <1>2, <1>3, QueuingAssumption DEF Earns, IsIdle, Spends, InDebt

\* The state a shaper has next.
LEMMA NewShaperIs ==
  ASSUME NEW q \in ShapedQueues, NEW c \in Int
  PROVE  /\ shaper'[q] = Earning(c) =>
              /\ Earns(q)' /\ ~IsIdle(q)' /\ ~Spends(q)'
              /\ shaper'[q].credit = c /\ shaper'[q].age = 0
              /\ c < 0 => shaper'[q].timer # Never /\ c + shaper'[q].timer = 0
              /\ c >= 0 => shaper'[q].timer = Never
         /\ shaper'[q] = Idle(c) =>
              ~Earns(q)' /\ IsIdle(q)' /\ ~Spends(q)' /\ (InDebt(q)' <=> c < 0)
         /\ \A t : shaper'[q] = Spending(c, t) =>
              /\ ~Earns(q)' /\ ~IsIdle(q)' /\ Spends(q)'
              /\ shaper'[q].credit = c /\ shaper'[q].timer = t
BY DEF Earning, Idle, Spending, Earns, IsIdle, Spends, InDebt, Never

\* A message that is not part of the way of a request waits alone with others of its kind.
LEMMA NoFrameWaits ==
  ASSUME NothingTravels, \A m \in Range(messages') : m \in Range(messages) \/ m.what \notin ChainKinds
  PROVE  \A q : ~FrameWaits(q) /\ ~FrameWaits(q)'
<1>1. "algorithm.packet" \in ChainKinds
  BY DEF ChainKinds, PacketKinds
<1>. QED
  BY <1>1 DEF NothingTravels, FrameWaits

LEMMA ShaperHearsOfArrival ==
  ASSUME PortInv, ShaperInv, FramesFit, NEW q \in ShapedQueues, NEW length \in Lengths,
         CarefulArrive(q, length)
  PROVE  ShaperInv'
<1>. DEFINE m == Message("algorithm.packetEnqueued", q)
<1>1. PortTypes /\ q \in Queues /\ Watches(q)
  BY QueuingAssumption DEF PortInv, ShaperInv
<1>2. /\ arrivals > 0 /\ ToSelf(m) /\ gateOpen' = gateOpen /\ shaper' = shaper
      /\ queue' = (IF HasRoom(q, length) THEN [queue EXCEPT ![q] = Append(@, length)] ELSE queue)
      /\ ~GateIsChanging(q)
  BY DEF CarefulArrive, Arrive, gateVars
<1>3. m \in Events /\ m.what = "algorithm.packetEnqueued" /\ m.class = q /\ m.what \notin ChainKinds
  BY <1>1, EventsAre DEF Events, Message
<1>. HIDE DEF m
<1>4. Range(messages') = Range(messages) \cup {m}
  BY <1>1, <1>2, <1>3, ToSelfIs
<1>5. ~FrameWaits(q) /\ ~FrameWaits(q)'
  <2>1. NothingTravels
    BY <1>2, TravelsAlone
  <2>. QED
    BY <1>3, <1>4, <2>1, NoFrameWaits
<1>6. ~Changing(q)
  <2>1. \A i \in 1 .. Len(messages) : messages[i] # Message("gate.stateChanged", q)
                                   /\ messages[i] # Message("algorithm.gateStateChanged", q)
    BY <1>2, OtherKinds DEF GateIsChanging
  <2>. QED
    BY <1>1, <2>1 DEF Changing, Pending, PortTypes, Range
<1>7. /\ Pending("gate.stateChanged", q)' <=> Pending("gate.stateChanged", q)
      /\ Pending("algorithm.gateStateChanged", q)' <=> Pending("algorithm.gateStateChanged", q)
      /\ Pending("algorithm.packetEnqueued", q)'
  BY <1>3, <1>4, OtherKinds DEF Pending, m
<1>8. ~Changing(q)'
  BY <1>6, <1>7 DEF Changing
<1>9. IsPacketReadyForTransmission(q)'
  BY <1>1, <1>2, ArrivedFrame
<1>10. /\ Earns(q)' <=> Earns(q)
       /\ IsIdle(q)' <=> IsIdle(q)
       /\ Spends(q)' <=> Spends(q)
       /\ InDebt(q)' <=> InDebt(q)
  BY <1>2 DEF Earns, IsIdle, Spends, InDebt
<1>11. EarnsWithCause(q)'
  BY <1>1, <1>2, <1>6, <1>8, <1>9, <1>10 DEF Watches, EarnsWithCause
<1>12. IdlesWithCause(q)'
  BY <1>1, <1>2, <1>6, <1>7, <1>10 DEF Watches, IdlesWithCause
<1>13. SpendsInDebt(q)'
  BY <1>1, <1>2, <1>10 DEF Watches, SpendsInDebt
<1>14. HearsInTime(q)'
  BY <1>5, <1>7, <1>8, <1>9 DEF HearsInTime, Changing
<1>15. Watches(q)'
  BY <1>11, <1>12, <1>13, <1>14 DEF Watches
<1>16. \A r \in ShapedQueues : r # q => queue'[r] = queue[r] /\ shaper'[r] = shaper[r]
  BY <1>1, <1>2, QueuingAssumption DEF PortTypes
<1>. QED
  BY <1>2, <1>3, <1>4, <1>15, <1>16, ConcernsOne

\* A shaper hears of a frame only while it is there, and is out of debt if it waited.
LEMMA ShaperHearsOfPacket ==
  ASSUME PortInv, ShaperInv, NEW q \in ShapedQueues, ShaperPacketEnqueued(q)
  PROVE  ShaperInv' /\ failed' = failed
<1>. DEFINE h == Head(messages)
            n == Message("gate.packetEnqueued", q)
            starts == IsIdle(q) /\ q \in gateOpen
<1>1. PortTypes /\ Watches(q) /\ q \in Queues
  BY QueuingAssumption DEF PortInv, ShaperInv
<1>2. Handles("algorithm.packetEnqueued", q)
  BY DEF ShaperPacketEnqueued
<1>3. h = Message("algorithm.packetEnqueued", q) /\ h \in Range(messages) /\ NothingTravels
  <2>1. h \in Range(messages) /\ h \in Events /\ h.what = "algorithm.packetEnqueued" /\ h.class = q
        /\ messages # <<>>
    BY <1>1, <1>2, HandledIs
  <2>2. h.what \notin ChainKinds
    BY <2>1 DEF ChainKinds, RequestKinds, PacketKinds
  <2>. QED
    BY <2>1, <2>2, EventsAre, TravelsAlone DEF Events
<1>4. IsPacketReadyForTransmission(q) /\ ~Changing(q)
  BY <1>1, <1>3 DEF Watches, HearsInTime, Pending
<1>5. starts => ~InDebt(q)
  BY <1>1, <1>4 DEF Watches, IdlesWithCause
<1>6. /\ starts => ShaperBecomes(q, Earning(shaper[q].credit)) /\ Becomes(n)
      /\ ~starts => Ends /\ shaper' = shaper
      /\ UNCHANGED <<queue, gateVars, failed>>
  BY <1>4, <1>5 DEF ShaperPacketEnqueued, IsIdle
<1>7. n \in Events /\ n.what = "gate.packetEnqueued" /\ n.class = q /\ n.what \notin ChainKinds
      /\ n.what \notin {"gate.stateChanged", "algorithm.gateStateChanged", "algorithm.packetEnqueued"}
  BY <1>1, EventsAre DEF Events, Message
<1>. HIDE DEF n
<1>8. Range(messages') \in {Range(messages) \ {h}, (Range(messages) \ {h}) \cup {n}}
  <2>1. CASE starts
    BY <1>1, <1>2, <1>6, <1>7, <2>1, BecomesIs
  <2>2. CASE ~starts
    BY <1>1, <1>2, <1>6, <2>2, EndsIs
  <2>. QED
    BY <2>1, <2>2
<1>9. /\ \A m \in Range(messages') : m \in Range(messages) \/ m.class = q
      /\ \A m \in Range(messages) : m \in Range(messages') \/ m.class = q
      /\ \A m \in Range(messages') : m \in Range(messages) \/ m.what \notin ChainKinds
  BY <1>3, <1>7, <1>8, OtherKinds
<1>10. /\ ~FrameWaits(q)' /\ ~FrameWaits(q)
       /\ Pending("gate.stateChanged", q)' => Pending("gate.stateChanged", q)
       /\ Pending("algorithm.gateStateChanged", q)' => Pending("algorithm.gateStateChanged", q)
  BY <1>3, <1>7, <1>8, <1>9, NoFrameWaits, OtherKinds DEF Pending
<1>11. ~Changing(q)'
  BY <1>4, <1>10 DEF Changing
<1>12. IsPacketReadyForTransmission(q)' /\ gateOpen' = gateOpen /\ queue' = queue
  BY <1>4, <1>6 DEF IsPacketReadyForTransmission, QueueIsEmpty, gateVars
<1>13. HearsInTime(q)'
  BY <1>10, <1>11, <1>12 DEF HearsInTime, Changing
<1>14. Watches(q)'
  <2>1. CASE starts
    <3>1. shaper[q].credit \in Int /\ shaper[q].credit >= 0
      BY <1>5, <2>1, ShaperIs
    <3>2. PICK c \in Int : c = shaper[q].credit
      BY <3>1
    <3>3. Earning(c) \in ShaperStates
      BY NewShaperStates
    <3>4. shaper'[q] = Earning(c)
      BY <1>1, <1>6, <2>1, <3>2, <3>3, ShaperBecomesIs
    <3>5. Earns(q)' /\ ~IsIdle(q)' /\ ~Spends(q)' /\ shaper'[q].credit >= 0 /\ shaper'[q].timer = Never
          /\ shaper'[q].credit \in Int
      BY <3>1, <3>2, <3>4, NewShaperIs
    <3>6. EarnsWithCause(q)'
      BY <1>11, <1>12, <2>1, <3>5 DEF EarnsWithCause
    <3>. QED
      BY <1>13, <3>5, <3>6 DEF Watches, IdlesWithCause, SpendsInDebt
  <2>2. CASE ~starts
    <3>1. shaper' = shaper
      BY <1>6, <2>2
    <3>2. /\ Earns(q)' <=> Earns(q)
          /\ IsIdle(q)' <=> IsIdle(q)
          /\ Spends(q)' <=> Spends(q)
      BY <3>1 DEF Earns, IsIdle, Spends
    <3>3. EarnsWithCause(q)'
      BY <1>1, <1>4, <1>11, <1>12, <3>1, <3>2 DEF Watches, EarnsWithCause
    <3>4. IdlesWithCause(q)'
      BY <1>12, <2>2, <3>2 DEF IdlesWithCause
    <3>5. SpendsInDebt(q)'
      BY <1>1, <3>1, <3>2 DEF Watches, SpendsInDebt
    <3>. QED
      BY <1>13, <3>3, <3>4, <3>5 DEF Watches
  <2>. QED
    BY <2>1, <2>2
<1>15. \A r \in ShapedQueues : r # q => queue'[r] = queue[r] /\ shaper'[r] = shaper[r]
  <2>1. starts => \A r \in ShapedQueues : r # q => shaper'[r] = shaper[r]
    BY <1>1, <1>6 DEF ShaperBecomes, PortTypes
  <2>. QED
    BY <1>6, <1>12, <2>1
<1>16. ShaperInv'
  BY <1>9, <1>12, <1>14, <1>15, ConcernsOne
<1>. QED
  BY <1>6, <1>16

\* A gate tells its shaper of its change.
LEMMA GateTellsShaper ==
  ASSUME PortInv, ShaperInv, NEW q \in ShapedQueues, GateStateChanged(q)
  PROVE  ShaperInv'
<1>. DEFINE h == Head(messages)
            n == Message("algorithm.gateStateChanged", q)
<1>1. PortTypes /\ Watches(q) /\ q \in Queues
  BY QueuingAssumption DEF PortInv, ShaperInv
<1>2. /\ Handles("gate.stateChanged", q) /\ messages' = Reschedule(Tail(messages), n)
      /\ queue' = queue /\ gateOpen' = gateOpen /\ shaper' = shaper
  BY DEF GateStateChanged, gateVars
<1>3. h = Message("gate.stateChanged", q) /\ h \in Range(messages) /\ NothingTravels
      /\ h.what = "gate.stateChanged" /\ h.class = q
  <2>1. h \in Range(messages) /\ h \in Events /\ h.what = "gate.stateChanged" /\ h.class = q
        /\ messages # <<>>
    BY <1>1, <1>2, HandledIs
  <2>2. h.what \notin ChainKinds /\ h.what \in ChangeKinds
    BY <2>1 DEF ChainKinds, RequestKinds, PacketKinds, ChangeKinds
  <2>. QED
    BY <2>1, <2>2, EventsAre, TravelsAlone DEF Events
<1>4. n \in Events /\ n.what = "algorithm.gateStateChanged" /\ n.class = q /\ n.what \notin ChainKinds
  BY EventsAre DEF Events, Message, ChainKinds, RequestKinds, PacketKinds
<1>. HIDE DEF n
<1>5. Range(messages') = (Range(messages) \ {h}) \cup {n}
  <2>. DEFINE t == Tail(messages)
  <2>1. t \in Seq(Events) /\ IsInjective(t) /\ Range(t) = Range(messages) \ {h}
    BY <1>1, <1>2, HandledIs
  <2>2. messages' = Reschedule(t, n)
    BY <1>2
  <2>3. ASSUME NEW s \in Seq(Events), IsInjective(s)
        PROVE  Range(Reschedule(s, n)) = Range(s) \cup {n}
    BY <1>4, <2>3, RescheduleIs
  <2>4. Range(Reschedule(t, n)) = Range(t) \cup {n}
    <3>. HIDE DEF t
    <3>. QED
      BY <2>1, <2>3
  <2>. QED
    BY <2>1, <2>2, <2>4
<1>6. Changing(q) /\ ~Pending("algorithm.packetEnqueued", q)
  BY <1>1, <1>3 DEF Changing, Pending, Watches, HearsInTime
<1>7. /\ ~FrameWaits(q)' /\ ~FrameWaits(q)
      /\ ~Pending("gate.stateChanged", q)' /\ Changing(q)'
      /\ ~Pending("algorithm.packetEnqueued", q)'
  <2>1. ~FrameWaits(q)' /\ ~FrameWaits(q)
    BY <1>3, <1>4, <1>5, NoFrameWaits
  <2>2. n # h /\ n # Message("algorithm.packetEnqueued", q)
    BY <1>3, <1>4, OtherKinds
  <2>3. ~Pending("gate.stateChanged", q)' /\ Changing(q)'
    BY <1>3, <1>5, <2>2 DEF Pending, Changing, n
  <2>4. ~Pending("algorithm.packetEnqueued", q)'
    BY <1>5, <1>6, <2>2 DEF Pending
  <2>. QED
    BY <2>1, <2>3, <2>4
<1>8. HearsInTime(q)'
  BY <1>7 DEF HearsInTime
<1>9. /\ Earns(q)' <=> Earns(q)
      /\ IsIdle(q)' <=> IsIdle(q)
      /\ Spends(q)' <=> Spends(q)
      /\ IsPacketReadyForTransmission(q)' <=> IsPacketReadyForTransmission(q)
  BY <1>2 DEF Earns, IsIdle, Spends, IsPacketReadyForTransmission, QueueIsEmpty
<1>10. EarnsWithCause(q)'
  BY <1>1, <1>2, <1>6, <1>7, <1>9 DEF Watches, EarnsWithCause
<1>11. IdlesWithCause(q)' /\ SpendsInDebt(q)'
  BY <1>1, <1>2, <1>7, <1>9 DEF Watches, IdlesWithCause, SpendsInDebt
<1>12. Watches(q)'
  BY <1>8, <1>10, <1>11 DEF Watches
<1>. QED
  BY <1>2, <1>3, <1>4, <1>5, <1>12, ConcernsOne

\* A shaper that hears of a change of its gate is not ahead of it.
LEMMA ShaperHearsOfGate ==
  ASSUME PortInv, ShaperInv, NEW q \in ShapedQueues, ShaperGateStateChanged(q)
  PROVE  ShaperInv' /\ failed' = failed
<1>. DEFINE h == Head(messages)
            starts == q \in gateOpen /\ IsIdle(q) /\ (InDebt(q) \/ IsPacketReadyForTransmission(q))
            stops == q \notin gateOpen /\ Earns(q)
<1>1. PortTypes /\ Watches(q) /\ q \in Queues
  BY QueuingAssumption DEF PortInv, ShaperInv
<1>2. Handles("algorithm.gateStateChanged", q)
  BY DEF ShaperGateStateChanged
<1>3. h = Message("algorithm.gateStateChanged", q) /\ h \in Range(messages) /\ NothingTravels
      /\ h.what = "algorithm.gateStateChanged" /\ h.class = q
  <2>1. h \in Range(messages) /\ h \in Events /\ h.what = "algorithm.gateStateChanged" /\ h.class = q
        /\ messages # <<>>
    BY <1>1, <1>2, HandledIs
  <2>2. h.what \notin ChainKinds /\ h.what \in ChangeKinds
    BY <2>1 DEF ChainKinds, RequestKinds, PacketKinds, ChangeKinds
  <2>. QED
    BY <2>1, <2>2, EventsAre, TravelsAlone DEF Events
<1>4. /\ Changing(q) /\ ~Pending("algorithm.packetEnqueued", q) /\ ~Pending("gate.stateChanged", q)
  BY <1>1, <1>3 DEF Changing, Pending, Watches, HearsInTime
<1>5. ~(q \in gateOpen /\ Earns(q))
  BY <1>1, <1>4 DEF Watches, EarnsWithCause
<1>6. /\ starts => ShaperBecomes(q, Earning(shaper[q].credit))
      /\ stops => ShaperBecomes(q, Idle(CreditOf(q)))
      /\ ~starts /\ ~stops => shaper' = shaper
      /\ Ends /\ UNCHANGED <<queue, gateVars, failed>>
  <2>1. ~(starts /\ stops)
    OBVIOUS
  <2>. QED
    BY <1>5, <2>1 DEF ShaperGateStateChanged, StartsWhenOpened, IsIdle, Earns
<1>7. Range(messages') = Range(messages) \ {h} /\ gateOpen' = gateOpen /\ queue' = queue
  BY <1>1, <1>2, <1>6, EndsIs DEF gateVars
<1>8. /\ ~FrameWaits(q)' /\ ~FrameWaits(q) /\ ~Changing(q)'
      /\ ~Pending("gate.stateChanged", q)'
      /\ ~Pending("algorithm.packetEnqueued", q)'
  BY <1>3, <1>4, <1>7, NoFrameWaits DEF Changing, Pending
<1>9. HearsInTime(q)'
  BY <1>8 DEF HearsInTime
<1>10. IsPacketReadyForTransmission(q)' <=> IsPacketReadyForTransmission(q)
  BY <1>7 DEF IsPacketReadyForTransmission, QueueIsEmpty
<1>11. /\ InDebt(q) <=> shaper[q].credit < 0
       /\ shaper[q].credit \in Int /\ CreditOf(q) \in Int
       /\ Earns(q) \/ IsIdle(q) \/ Spends(q)
       /\ ~(Earns(q) /\ IsIdle(q))
  BY <1>1, ShaperIs, CreditIs
<1>12. Watches(q)'
  <2>1. CASE starts
    <3>1. PICK c \in Int : c = shaper[q].credit
      BY <1>11
    <3>2. Earning(c) \in ShaperStates
      BY NewShaperStates
    <3>3. shaper'[q] = Earning(c)
      BY <1>1, <1>6, <2>1, <3>1, <3>2, ShaperBecomesIs
    <3>4. /\ Earns(q)' /\ ~IsIdle(q)' /\ ~Spends(q)' /\ shaper'[q].credit = c /\ shaper'[q].age = 0
          /\ c < 0 => shaper'[q].timer # Never /\ c + shaper'[q].timer = 0
          /\ c >= 0 => shaper'[q].timer = Never
      BY <3>3, NewShaperIs
    <3>5. c >= 0 => IsPacketReadyForTransmission(q)'
      BY <1>10, <1>11, <2>1, <3>1
    <3>6. c < 0 => c + 0 + shaper'[q].timer = 0
      <4>1. c + 0 = c
        OBVIOUS
      <4>. QED
        BY <3>4, <4>1
    <3>7. EarnsWithCause(q)'
      BY <1>7, <1>8, <2>1, <3>4, <3>5, <3>6 DEF EarnsWithCause
    <3>. QED
      BY <1>9, <3>4, <3>7 DEF Watches, IdlesWithCause, SpendsInDebt
  <2>2. CASE stops
    <3>1. PICK c \in Int : c = CreditOf(q)
      BY <1>11
    <3>2. Idle(c) \in ShaperStates
      BY NewShaperStates
    <3>3. shaper'[q] = Idle(c)
      BY <1>1, <1>6, <2>2, <3>1, <3>2, ShaperBecomesIs
    <3>4. ~Earns(q)' /\ ~Spends(q)'
      BY <3>3, NewShaperIs
    <3>. QED
      BY <1>7, <1>9, <2>2, <3>4 DEF Watches, EarnsWithCause, IdlesWithCause, SpendsInDebt
  <2>3. CASE ~starts /\ ~stops
    <3>1. shaper' = shaper
      BY <1>6, <2>3
    <3>2. /\ Earns(q)' <=> Earns(q)
          /\ IsIdle(q)' <=> IsIdle(q)
          /\ Spends(q)' <=> Spends(q)
          /\ InDebt(q)' <=> InDebt(q)
      BY <3>1 DEF Earns, IsIdle, Spends, InDebt
    <3>3. ~Earns(q)'
      BY <1>5, <2>3, <3>2
    <3>4. IdlesWithCause(q)'
      BY <1>7, <1>10, <2>3, <3>2 DEF IdlesWithCause
    <3>5. SpendsInDebt(q)'
      BY <1>1, <3>1, <3>2 DEF Watches, SpendsInDebt
    <3>. QED
      BY <1>9, <3>3, <3>4, <3>5 DEF Watches, EarnsWithCause
  <2>. QED
    BY <2>1, <2>2, <2>3
<1>13. \A r \in ShapedQueues : r # q => queue'[r] = queue[r] /\ shaper'[r] = shaper[r]
  BY <1>1, <1>6, <1>7 DEF ShaperBecomes, PortTypes
<1>14. ShaperInv'
  BY <1>3, <1>7, <1>12, <1>13, ConcernsOne
<1>. QED
  BY <1>6, <1>14

\* A gate that changes will tell its shaper, which had nothing else to hear of.
LEMMA UpdateTellsShapers ==
  ASSUME PortInv, ShaperInv, OrderInv, UpdateSchedule
  PROVE  ShaperInv'
<1>. DEFINE new == ControlList[Upcoming].gates
<1>1. gateOpen' = new /\ UNCHANGED <<queue, shaper>>
  BY DEF UpdateSchedule, Upcoming
<1>2. /\ messages # <<>> /\ Head(messages) = Update /\ NothingTravels
      /\ \A m \in Range(messages) : m.what \notin ChangeKinds
      /\ gateOpen \in SUBSET Queues /\ new \in SUBSET Queues
      /\ \A m \in Told : m \in Notices /\ m.what = "gate.stateChanged"
      /\ Range(messages') = (Range(messages) \ {Update}) \cup Told
  BY UpdateIs
<1>. SUFFICES ASSUME NEW q \in ShapedQueues
              PROVE  Watches(q)'
  BY DEF ShaperInv
<1>3. Watches(q) /\ q \in Queues
  BY QueuingAssumption DEF ShaperInv
<1>4. ~Pending("algorithm.packetEnqueued", q)
  <2>. DEFINE m == Message("algorithm.packetEnqueued", q)
  <2>1. m # Update /\ Late(m)
    BY OtherKinds DEF Late
  <2>. SUFFICES ASSUME m \in Range(messages)
                PROVE  FALSE
    BY DEF Pending
  <2>2. messages \in Seq(Events)
    BY DEF PortInv, PortTypes, Events
  <2>. HIDE DEF m
  <2>3. PICK j \in 1 .. Len(messages) : messages[j] = m
    BY <2>2 DEF Range
  <2>4. messages[1] = Update /\ 1 \in 1 .. Len(messages)
    BY <1>2, <2>2
  <2>5. 1 < j
    BY <2>1, <2>2, <2>3, <2>4
  <2>. QED
    BY <2>1, <2>3, <2>4, <2>5 DEF OrderInv
<1>5. /\ ~Pending("gate.stateChanged", q) /\ ~Pending("algorithm.gateStateChanged", q)
      /\ ~Changing(q)
  BY <1>2, OtherKinds DEF Pending, Changing, ChangeKinds
<1>6. Message("gate.stateChanged", q) \in Told <=> q \in SymDiff(gateOpen, new)
  BY OtherKinds DEF Told
<1>7. Pending("gate.stateChanged", q)' <=> q \in SymDiff(gateOpen, new)
  BY <1>2, <1>5, <1>6 DEF Pending
<1>8. ~Pending("algorithm.gateStateChanged", q)' /\ ~Pending("algorithm.packetEnqueued", q)'
  BY <1>2, <1>4, <1>5, OtherKinds DEF Pending
<1>9. Changing(q)' <=> q \in SymDiff(gateOpen, new)
  BY <1>7, <1>8 DEF Changing
<1>10. ~FrameWaits(q) /\ ~FrameWaits(q)'
  <2>1. \A m \in Range(messages') : m \in Range(messages) \/ m.what \notin ChainKinds
    BY <1>2, EventsAre
  <2>. QED
    BY <1>2, <2>1, NoFrameWaits
<1>11. HearsInTime(q)'
  BY <1>8, <1>10 DEF HearsInTime
<1>12. /\ Earns(q)' <=> Earns(q)
       /\ IsIdle(q)' <=> IsIdle(q)
       /\ Spends(q)' <=> Spends(q)
       /\ InDebt(q)' <=> InDebt(q)
       /\ IsPacketReadyForTransmission(q)' <=> IsPacketReadyForTransmission(q)
  BY <1>1 DEF Earns, IsIdle, Spends, InDebt, IsPacketReadyForTransmission, QueueIsEmpty
<1>13. q \in new <=> ~(q \in gateOpen <=> q \in SymDiff(gateOpen, new))
  BY DEF SymDiff
<1>14. EarnsWithCause(q)'
  <2>1. Earns(q) => q \in gateOpen
    BY <1>3, <1>5 DEF Watches, EarnsWithCause
  <2>2. Earns(q) => (q \in gateOpen' <=> ~Changing(q)')
    BY <1>1, <1>9, <1>13, <2>1
  <2>. QED
    BY <1>1, <1>3, <1>10, <1>12, <2>2 DEF Watches, EarnsWithCause
<1>15. IdlesWithCause(q)'
  <2>1. q \in gateOpen' /\ ~Changing(q)' => q \in gateOpen
    BY <1>1, <1>9, <1>13
  <2>. QED
    BY <1>3, <1>4, <1>5, <1>12, <2>1 DEF Watches, IdlesWithCause
<1>16. SpendsInDebt(q)'
  BY <1>1, <1>3, <1>12 DEF Watches, SpendsInDebt
<1>. QED
  BY <1>11, <1>14, <1>15, <1>16 DEF Watches

\* A shaper whose frame is requested waits for it without debt.
LEMMA ShaperIsAsked ==
  ASSUME PortInv, ShaperInv, FramesFit, NEW q \in ShapedQueues, QueueRequestPacket(q)
  PROVE  ShaperInv'
<1>1. "queue.requestPacket" \in ChainKinds /\ Handles("queue.requestPacket", q) /\ q \in Queues
  BY QueuingAssumption DEF QueueRequestPacket, ChainKinds, RequestKinds
<1>2. PICK m \in Chains : /\ messages = <<m>> /\ m = Head(messages)
                          /\ m.what = "queue.requestPacket" /\ m.class = q
                          /\ StandsStillFor(m) /\ IsPromised(m)
  BY <1>1, ChainHandledIs
<1>3. q \in Ready /\ m.length = MaxTransferableBits(q) /\ PortTypes /\ Watches(q)
  BY <1>2 DEF IsPromised, RequestKinds, PortInv, ShaperInv
<1>4. q \in gateOpen /\ ~InDebt(q) /\ ~QueueIsEmpty(q, m.length)
  BY <1>3 DEF Ready, IsEmpty, AlgorithmIsEmpty
<1>5. IsPacketReadyForTransmission(q)
  <2>1. queue[q] # <<>> /\ Fits(Head(queue[q]), m.length) /\ queue[q] \in Seq(Lengths)
    BY <1>1, <1>3, <1>4 DEF QueueIsEmpty, PortTypes
  <2>2. Head(queue[q]) \in Lengths
    BY <2>1
  <2>. QED
    BY <2>1, <2>2 DEF IsPacketReadyForTransmission, QueueIsEmpty, FramesFit
<1>6. /\ queue' = [queue EXCEPT ![q] = Tail(@)]
      /\ Becomes(Frame("algorithm.packet", q, Head(queue[q])))
      /\ gateOpen' = gateOpen /\ shaper' = shaper
  BY <1>2, <1>4 DEF QueueRequestPacket, gateVars
<1>7. PICK n : n = Frame("algorithm.packet", q, Head(queue[q]))
  OBVIOUS
<1>8. n.what = "algorithm.packet" /\ n.class = q /\ messages' = <<n>>
  BY <1>2, <1>6, <1>7, OtherKinds, PassedOn
<1>9. Range(messages) = {m} /\ Range(messages') = {n}
  BY <1>2, <1>8, OnlyMessage
<1>10. /\ \A what \in ChangeKinds \cup {"algorithm.packetEnqueued"} :
            ~Pending(what, q) /\ ~Pending(what, q)'
       /\ FrameWaits(q)'
  BY <1>2, <1>8, <1>9, OtherKinds DEF Pending, FrameWaits, ChangeKinds
<1>11. ~Changing(q) /\ ~Changing(q)' /\ ~Pending("algorithm.packetEnqueued", q)
       /\ ~Pending("algorithm.packetEnqueued", q)' /\ ~Pending("gate.stateChanged", q)'
  BY <1>10 DEF Changing, ChangeKinds
<1>12. ~IsIdle(q) /\ ~Spends(q) /\ Earns(q) /\ shaper[q].credit >= 0
  <2>1. ~IsIdle(q)
    BY <1>3, <1>4, <1>5, <1>11 DEF Watches, IdlesWithCause
  <2>2. ~Spends(q)
    BY <1>3, <1>4 DEF Watches, SpendsInDebt, InDebt
  <2>. QED
    BY <1>4, <2>1, <2>2, ShaperIs
<1>13. /\ Earns(q)' /\ ~IsIdle(q)' /\ ~Spends(q)'
  BY <1>6, <1>12 DEF Earns, IsIdle, Spends
<1>14. EarnsWithCause(q)'
  BY <1>3, <1>4, <1>6, <1>10, <1>11, <1>12, <1>13 DEF Watches, EarnsWithCause
<1>15. HearsInTime(q)'
  BY <1>6, <1>11, <1>12, <1>13 DEF HearsInTime
<1>16. Watches(q)'
  BY <1>13, <1>14, <1>15 DEF Watches, IdlesWithCause, SpendsInDebt
<1>17. \A r \in ShapedQueues : r # q => queue'[r] = queue[r] /\ shaper'[r] = shaper[r]
  BY <1>3, <1>6, QueuingAssumption DEF PortTypes
<1>. QED
  BY <1>2, <1>6, <1>8, <1>9, <1>16, <1>17, ConcernsOne

\* A frame leaves its shaper in debt.
LEMMA ShaperSends ==
  ASSUME PortInv, ShaperInv, PaysForOneFrame, NEW q \in ShapedQueues, ShaperSendPacket(q)
  PROVE  ShaperInv' /\ failed' = failed
<1>1. "algorithm.packet" \in ChainKinds /\ Handles("algorithm.packet", q)
  BY DEF ShaperSendPacket, ChainKinds, PacketKinds
<1>2. PICK m \in Chains : /\ messages = <<m>> /\ m = Head(messages)
                          /\ m.what = "algorithm.packet" /\ m.class = q /\ m.length \in Nat
                          /\ StandsStillFor(m) /\ IsPromised(m)
  BY <1>1, ChainHandledIs
<1>3. m.length \in Lengths /\ PortTypes /\ Watches(q)
  BY <1>2 DEF IsPromised, PacketKinds, PortInv, ShaperInv
<1>4. Range(messages) = {m}
  BY <1>2, OnlyMessage
<1>5. Earns(q) /\ shaper[q].credit >= 0 /\ shaper[q].timer = Never /\ ~InDebt(q)
  <2>1. FrameWaits(q)
    BY <1>2, <1>4 DEF FrameWaits
  <2>2. Earns(q) /\ shaper[q].credit >= 0
    BY <1>3, <2>1 DEF Watches, HearsInTime
  <2>3. ~InDebt(q)
    BY <2>2, ShaperIs
  <2>. QED
    BY <1>3, <2>2, <2>3 DEF Watches, EarnsWithCause
<1>. DEFINE time == m.length + ShaperOverhead
            c == CreditAfterSend(q, time)
            n == Frame("gate.packet", q, m.length)
<1>6. /\ ShaperBecomes(q, Spending(c, time)) /\ Becomes(n)
      /\ UNCHANGED <<queue, gateOpen, failed>>
  BY <1>2, <1>5 DEF ShaperSendPacket, Earns, gateVars
<1>7. time \in Nat \ {0} /\ c \in Int /\ c < 0
  <2>1. /\ SendSlope \in Nat /\ ShaperOverhead \in Nat \ {0}
        /\ Lengths \subseteq Nat /\ Lengths # {}
    BY <1>3, QueuingAssumption
  <2>2. CreditOf(q) \in Int /\ CreditOf(q) < SendSlope * (Min(Lengths) + ShaperOverhead)
    BY <1>3, CreditIs DEF PaysForOneFrame
  <2>3. Min(Lengths) \in Nat /\ Min(Lengths) <= m.length
    BY <1>3, <2>1, MinIs
  <2>4. PICK a \in Nat : a = Min(Lengths) + ShaperOverhead
    BY <2>1, <2>3
  <2>5. time \in Nat \ {0} /\ a <= time
    BY <1>2, <2>1, <2>3, <2>4
  <2>6. c = CreditOf(q) - SendSlope * time
    BY DEF CreditAfterSend
  <2>. HIDE DEF c, time
  <2>7. SendSlope * a \in Int /\ SendSlope * time \in Int /\ SendSlope * a <= SendSlope * time
    <3>1. ASSUME NEW k \in Nat, NEW x \in Nat, NEW y \in Nat, x <= y
          PROVE  k * x \in Int /\ k * y \in Int /\ k * x <= k * y
      BY <3>1
    <3>. QED
      BY <2>1, <2>4, <2>5, <3>1
  <2>. QED
    BY <2>2, <2>4, <2>5, <2>6, <2>7
<1>. HIDE DEF c, time
<1>8. Spending(c, time) \in ShaperStates
  BY <1>7, NewShaperStates
<1>9. /\ shaper'[q] = Spending(c, time)
      /\ \A r \in ShapedQueues : r # q => shaper'[r] = shaper[r]
  BY <1>3, <1>6, <1>8, ShaperBecomesIs
<1>10. /\ ~Earns(q)' /\ ~IsIdle(q)' /\ Spends(q)' /\ shaper'[q].credit < 0 /\ shaper'[q].timer # Never
  <2>1. /\ ~Earns(q)' /\ ~IsIdle(q)' /\ Spends(q)'
        /\ shaper'[q].credit = c /\ shaper'[q].timer = time
    BY <1>7, <1>9, NewShaperIs
  <2>. QED
    BY <1>7, <2>1 DEF Never
<1>11. n.what = "gate.packet" /\ n.class = q
  BY OtherKinds
<1>. HIDE DEF n
<1>12. Range(messages') = {n}
  <2>1. messages' = <<n>>
    BY <1>2, <1>6, PassedOn
  <2>. QED
    BY <2>1, OnlyMessage
<1>13. /\ ~Pending("gate.stateChanged", q)' /\ ~Pending("algorithm.packetEnqueued", q)'
       /\ ~FrameWaits(q)'
  BY <1>11, <1>12, OtherKinds DEF Pending, FrameWaits
<1>14. Watches(q)'
  BY <1>10, <1>13 DEF Watches, EarnsWithCause, IdlesWithCause, SpendsInDebt, HearsInTime
<1>. QED
  BY <1>2, <1>4, <1>6, <1>9, <1>11, <1>12, <1>14, ConcernsOne

\* An event of a shaper: a gate that is open is not changing, and the next frame is
\* offered, or there is none, or there is debt to be paid.
LEMMA ShaperTimerFires ==
  ASSUME PortInv, ShaperInv, NEW q \in ShapedQueues, EndSpendingCredit(q) \/ ZeroCreditReached(q)
  PROVE  /\ ShaperInv' /\ failed' = failed
         /\ ~IsIdle(q) /\ Range(messages) \subseteq Range(messages')
         /\ InDebt(q)' \/ ~IsPacketReadyForTransmission(q)' \/ Pending("gate.packetEnqueued", q)'
<1>. DEFINE m == Message("gate.packetEnqueued", q)
            offers == q \in gateOpen /\ (ZeroCreditReached(q) \/ ~InDebt(q))
<1>1. PortTypes /\ q \in Queues /\ Watches(q)
  BY QueuingAssumption DEF PortInv, ShaperInv
<1>2. m \in Events /\ m.what = "gate.packetEnqueued" /\ m.class = q
  BY <1>1, EventsAre, OtherKinds DEF Events
<1>3. shaper[q].timer = 0 /\ shaper[q].credit \in Int /\ EarlierIsDue /\ NothingTravels
  <2>1. shaper[q].timer = 0
    BY DEF EndSpendingCredit, ZeroCreditReached
  <2>2. EarlierIsDue
    BY <2>1 DEF EarlierIsDue
  <2>. QED
    BY <1>1, <2>1, <2>2, CreditIs, TravelsAlone DEF TimerIsDue
<1>4. /\ ~Pending("gate.stateChanged", q) /\ ~Pending("algorithm.gateStateChanged", q) /\ ~Changing(q)
  BY <1>3, OtherKinds DEF PortInv, GateInv, Pending, Changing, ChangeKinds
<1>5. shaper[q].credit < 0 /\ InDebt(q)
  <2>1. Spends(q) \/ Earns(q)
    BY DEF EndSpendingCredit, ZeroCreditReached, Spends, Earns
  <2>2. shaper[q].timer # Never
    BY <1>3 DEF Never
  <2>3. shaper[q].credit < 0
    BY <1>1, <1>3, <2>1, <2>2 DEF Watches, SpendsInDebt, EarnsWithCause
  <2>. QED
    BY <2>3, ShaperIs
<1>6. /\ ~IsIdle(q)
      /\ \/ ShaperBecomes(q, Earning(shaper[q].credit)) /\ q \in gateOpen /\ UNCHANGED messageVars
         \/ ShaperBecomes(q, Idle(shaper[q].credit)) /\ q \notin gateOpen /\ UNCHANGED messageVars
         \/ OfferNext(q, 0) /\ q \in gateOpen
      /\ UNCHANGED <<queue, gateOpen, failed>>
  <2>1. CASE EndSpendingCredit(q)
    BY <1>5, <2>1 DEF EndSpendingCredit, IsIdle, gateVars
  <2>2. CASE ZeroCreditReached(q)
    <3>1. Earns(q)
      BY <2>2 DEF ZeroCreditReached, Earns
    <3>2. q \in gateOpen
      BY <1>1, <1>4, <3>1 DEF Watches, EarnsWithCause
    <3>3. shaper[q].credit + shaper[q].age = 0
      <4>1. shaper[q].credit + shaper[q].age + 0 = 0
        BY <1>1, <1>3, <1>5, <3>1 DEF Watches, EarnsWithCause
      <4>2. shaper[q].age \in Nat
        BY <1>1, CreditIs
      <4>. QED
        BY <1>3, <4>1, <4>2
    <3>4. CreditOf(q) >= 0
      <4>1. MaxCredit \in Nat
        BY QueuingAssumption
      <4>2. Min({0, MaxCredit}) \in {0, MaxCredit}
        BY <4>1, MinOfTwo
      <4>. QED
        BY <3>3, <4>1, <4>2 DEF CreditOf
    <3>5. ~(CreditOf(q) < 0)
      BY <1>1, <3>4, CreditIs
    <3>. QED
      BY <2>2, <3>1, <3>2, <3>5 DEF ZeroCreditReached, IsIdle, Earns, gateVars
  <2>. QED
    BY <2>1, <2>2
<1>7. /\ IsPacketReadyForTransmission(q)' <=> IsPacketReadyForTransmission(q)
      /\ \A r \in ShapedQueues : r # q => queue'[r] = queue[r]
  BY <1>6 DEF IsPacketReadyForTransmission, QueueIsEmpty
<1>8. /\ \A c \in Int : Idle(c) \in ShaperStates
      /\ \A c \in Int : Earning(c) \in ShaperStates
  BY NewShaperStates
<1>9. \A s \in ShaperStates : ShaperBecomes(q, s) =>
        shaper'[q] = s /\ \A r \in ShapedQueues : r # q => shaper'[r] = shaper[r]
  BY <1>1, ShaperBecomesIs
<1>. HIDE DEF m
<1>10. Range(messages') \in {Range(messages), Range(messages) \cup {m}}
  <2>1. ToSelf(m) => Range(messages') = Range(messages) \cup {m}
    BY <1>1, <1>2, ToSelfIs
  <2>. QED
    BY <1>6, <2>1 DEF OfferNext, messageVars, m
<1>11. /\ ~Pending("gate.stateChanged", q)' /\ ~Pending("algorithm.gateStateChanged", q)'
       /\ Pending("algorithm.packetEnqueued", q)' => Pending("algorithm.packetEnqueued", q)
       /\ ~FrameWaits(q)' /\ ~Changing(q)'
  <2>1. m.what \notin ChainKinds
    BY <1>2 DEF ChainKinds, RequestKinds, PacketKinds
  <2>2. \A n \in Range(messages') : n \in Range(messages) \/ n.what \notin ChainKinds
    BY <1>10, <2>1
  <2>3. ~FrameWaits(q)'
    BY <1>3, <2>2, NoFrameWaits
  <2>. QED
    BY <1>2, <1>4, <1>10, <2>3, OtherKinds DEF Pending, Changing
<1>12. HearsInTime(q)'
  BY <1>1, <1>7, <1>11 DEF Watches, HearsInTime
<1>13. Watches(q)' /\ (\A r \in ShapedQueues : r # q => shaper'[r] = shaper[r])
       /\ (InDebt(q)' \/ ~IsPacketReadyForTransmission(q)' \/ Pending("gate.packetEnqueued", q)')
  <2>1. CASE ShaperBecomes(q, Earning(shaper[q].credit)) /\ q \in gateOpen
    <3>1. PICK c \in Int : c = shaper[q].credit
      BY <1>3
    <3>2. shaper'[q] = Earning(c)
      BY <1>8, <1>9, <2>1, <3>1
    <3>3. /\ Earns(q)' /\ ~IsIdle(q)' /\ ~Spends(q)' /\ shaper'[q].credit = c /\ shaper'[q].age = 0
          /\ shaper'[q].timer # Never /\ c + shaper'[q].timer = 0
      BY <1>5, <3>1, <3>2, NewShaperIs
    <3>4. c + 0 + shaper'[q].timer = 0 /\ ~(c >= 0) /\ c < 0
      BY <1>5, <3>1, <3>3
    <3>5. EarnsWithCause(q)'
      BY <1>6, <1>11, <2>1, <3>3, <3>4 DEF EarnsWithCause
    <3>6. InDebt(q)'
      BY <3>3, <3>4 DEF InDebt
    <3>. QED
      BY <1>8, <1>9, <1>12, <2>1, <3>1, <3>3, <3>5, <3>6 DEF Watches, IdlesWithCause, SpendsInDebt
  <2>2. CASE ShaperBecomes(q, Idle(shaper[q].credit)) /\ q \notin gateOpen
    <3>1. PICK c \in Int : c = shaper[q].credit
      BY <1>3
    <3>2. shaper'[q] = Idle(c)
      BY <1>8, <1>9, <2>2, <3>1
    <3>3. ~Earns(q)' /\ ~Spends(q)' /\ InDebt(q)'
      BY <1>5, <3>1, <3>2, NewShaperIs
    <3>. QED
      BY <1>6, <1>8, <1>9, <1>12, <2>2, <3>1, <3>3 DEF Watches, EarnsWithCause, IdlesWithCause, SpendsInDebt
  <2>3. CASE OfferNext(q, 0) /\ q \in gateOpen /\ IsPacketReadyForTransmission(q)
    <3>1. ShaperBecomes(q, Earning(0)) /\ ToSelf(m)
      BY <2>3 DEF OfferNext, m
    <3>2. shaper'[q] = Earning(0) /\ \A r \in ShapedQueues : r # q => shaper'[r] = shaper[r]
      BY <1>8, <1>9, <3>1
    <3>3. /\ Earns(q)' /\ ~IsIdle(q)' /\ ~Spends(q)' /\ shaper'[q].credit = 0 /\ shaper'[q].timer = Never
      BY <3>2, NewShaperIs
    <3>4. EarnsWithCause(q)'
      BY <1>6, <1>7, <1>11, <2>3, <3>3 DEF EarnsWithCause
    <3>5. Pending("gate.packetEnqueued", q)'
      BY <1>1, <1>2, <3>1, ToSelfIs DEF Pending, m
    <3>. QED
      BY <1>12, <3>2, <3>3, <3>4, <3>5 DEF Watches, IdlesWithCause, SpendsInDebt
  <2>4. CASE OfferNext(q, 0) /\ ~IsPacketReadyForTransmission(q)
    <3>1. ShaperBecomes(q, Idle(0))
      BY <2>4 DEF OfferNext
    <3>2. shaper'[q] = Idle(0) /\ \A r \in ShapedQueues : r # q => shaper'[r] = shaper[r]
      BY <1>8, <1>9, <3>1
    <3>3. ~Earns(q)' /\ IsIdle(q)' /\ ~Spends(q)' /\ ~InDebt(q)'
      BY <3>2, NewShaperIs
    <3>. QED
      BY <1>7, <1>12, <2>4, <3>2, <3>3 DEF Watches, EarnsWithCause, IdlesWithCause, SpendsInDebt
  <2>. QED
    BY <1>6, <2>1, <2>2, <2>3, <2>4
<1>14. /\ \A n \in Range(messages') : n \in Range(messages) \/ n.class = q
       /\ Range(messages) \subseteq Range(messages')
  BY <1>2, <1>10
<1>15. ShaperInv'
  BY <1>6, <1>7, <1>13, <1>14, ConcernsOne
<1>. QED
  BY <1>6, <1>13, <1>14, <1>15

\* Time passes alike for credit and for the timer that waits for it.
LEMMA ShapersAge ==
  ASSUME PortInv, ShaperInv, Elapse
  PROVE  /\ ShaperInv'
         /\ \A q \in ShapedQueues : /\ shaper'[q].credit = shaper[q].credit
                                    /\ IsIdle(q)' <=> IsIdle(q)
<1>1. PortTypes
  BY DEF PortInv
<1>2. /\ messages = <<>> /\ ~TimerIsDue
      /\ shaper' = [q \in ShapedQueues |-> Aged(shaper[q])]
      /\ UNCHANGED <<queue, gateOpen, messages>>
  BY DEF Elapse, Settled, messageVars
<1>3. Range(messages) = {} /\ Range(messages') = {}
  BY <1>2, OnlyMessage
<1>4. ASSUME NEW q \in ShapedQueues
      PROVE  Watches(q)' /\ shaper'[q].credit = shaper[q].credit /\ (IsIdle(q)' <=> IsIdle(q))
  <2>1. PICK s \in ShaperStates : s = shaper[q] /\ s.timer # 0
    BY <1>1, <1>2 DEF PortTypes, TimerIsDue, EarlierIsDue
  <2>2. s.credit \in Int /\ s.age \in Nat /\ s.timer \in (Nat \ {0}) \cup {Never}
    BY <2>1 DEF ShaperStates, Ticks
  <2>3. shaper'[q] = Aged(s)
    BY <1>2, <2>1
  <2>4. /\ Aged(s).state = s.state /\ Aged(s).credit = s.credit
        /\ s.state = "kEarnCredit" /\ s.credit + s.age < MaxCredit => Aged(s).age = s.age + 1
        /\ s.timer = Never => Aged(s).timer = Never
        /\ s.timer # Never => Aged(s).timer = s.timer - 1
    BY <2>1 DEF Aged, ShaperStates
  <2>5. s.timer # Never => Aged(s).timer # Never
    BY <2>2, <2>4 DEF Never
  <2>6. /\ Earns(q)' <=> Earns(q)
        /\ IsIdle(q)' <=> IsIdle(q)
        /\ Spends(q)' <=> Spends(q)
        /\ InDebt(q)' <=> InDebt(q)
        /\ shaper'[q].credit = shaper[q].credit
    BY <2>1, <2>3, <2>4 DEF Earns, IsIdle, Spends, InDebt
  <2>7. /\ IsPacketReadyForTransmission(q)' <=> IsPacketReadyForTransmission(q)
        /\ gateOpen' = gateOpen
    BY <1>2 DEF IsPacketReadyForTransmission, QueueIsEmpty
  <2>8. /\ \A what : ~Pending(what, q) /\ ~Pending(what, q)'
        /\ ~FrameWaits(q) /\ ~FrameWaits(q)'
    BY <1>3 DEF Pending, FrameWaits
  <2>9. ~Changing(q) /\ ~Changing(q)'
    BY <1>3 DEF Changing, Pending
  <2>10. Watches(q)
    BY DEF ShaperInv
  <2>11. Earns(q) /\ s.credit < 0 =>
           Aged(s).timer # Never /\ Aged(s).credit + Aged(s).age + Aged(s).timer = 0
    <3>. SUFFICES ASSUME Earns(q), s.credit < 0
                  PROVE  Aged(s).timer # Never /\ Aged(s).credit + Aged(s).age + Aged(s).timer = 0
      OBVIOUS
    <3>1. s.timer # Never /\ s.credit + s.age + s.timer = 0
      BY <2>1, <2>10 DEF Watches, EarnsWithCause
    <3>2. s.timer \in Nat \ {0}
      BY <2>2, <3>1
    <3>3. s.credit + s.age < MaxCredit
      BY <2>2, <3>1, <3>2, QueuingAssumption
    <3>4. Aged(s).age = s.age + 1
      BY <2>1, <2>4, <3>3 DEF Earns
    <3>5. Aged(s).timer = s.timer - 1
      BY <2>4, <3>1
    <3>. QED
      BY <2>2, <2>4, <2>5, <3>1, <3>2, <3>4, <3>5
  <2>12. EarnsWithCause(q)'
    BY <2>1, <2>3, <2>4, <2>6, <2>7, <2>8, <2>9, <2>10, <2>11 DEF Watches, EarnsWithCause
  <2>13. IdlesWithCause(q)'
    <3>1. ~Pending("algorithm.packetEnqueued", q)
      BY <2>8
    <3>. QED
      BY <2>6, <2>7, <2>9, <2>10, <3>1 DEF Watches, IdlesWithCause
  <2>14. SpendsInDebt(q)'
    BY <2>1, <2>3, <2>4, <2>5, <2>6, <2>10 DEF Watches, SpendsInDebt
  <2>15. HearsInTime(q)'
    BY <1>3 DEF HearsInTime, Pending, FrameWaits
  <2>. QED
    BY <2>6, <2>12, <2>13, <2>14, <2>15 DEF Watches
<1>. QED
  BY <1>4 DEF ShaperInv

-----------------------------------------------------------------------------
\* No assertion fails

\* A frame that was promised is still there, and the MAC takes it.
LEMMA ClassDoesNotFail ==
  ASSUME PortInv, NEW q \in Queues, HandleClass(q)
  PROVE  failed' = failed
<1>1. CASE GateRequestPacket(q) \/ QueueRequestPacket(q) \/ SelectionPacket(q) \/ MacPacket(q)
  <2>1. PICK what \in {"gate.requestPacket", "queue.requestPacket", "selection.packet", "mac.packet"} :
          /\ Handles(what, q)
          /\ \/ what = "gate.requestPacket" /\ GateRequestPacket(q)
             \/ what = "queue.requestPacket" /\ QueueRequestPacket(q)
             \/ what = "selection.packet" /\ SelectionPacket(q)
             \/ what = "mac.packet" /\ MacPacket(q)
    BY <1>1 DEF GateRequestPacket, QueueRequestPacket, SelectionPacket, MacPacket
  <2>2. what \in ChainKinds
    BY DEF ChainKinds, RequestKinds, PacketKinds
  <2>3. PICK m \in Chains : /\ messages = <<m>> /\ m = Head(messages) /\ m.what = what /\ m.class = q
                            /\ StandsStillFor(m) /\ IsPromised(m)
    BY <2>1, <2>2, ChainHandledIs
  <2>4. CASE what \in {"gate.requestPacket", "queue.requestPacket"}
    <3>1. q \in Ready /\ (what = "queue.requestPacket" => m.length = MaxTransferableBits(q))
      BY <2>3, <2>4 DEF IsPromised, RequestKinds
    <3>2. ~IsEmpty(q) /\ ~QueueIsEmpty(q, MaxTransferableBits(q))
      BY <3>1 DEF Ready, IsEmpty, AlgorithmIsEmpty
    <3>. QED
      BY <2>1, <2>3, <2>4, <3>1, <3>2 DEF GateRequestPacket, QueueRequestPacket
  <2>5. CASE what = "selection.packet"
    <3>1. packetRequestedFromUs
      BY <2>3, <2>5 DEF StandsStillFor
    <3>. QED
      BY <2>1, <2>5, <3>1 DEF SelectionPacket
  <2>6. CASE what = "mac.packet"
    BY <2>1, <2>3, <2>6 DEF MacPacket, StandsStillFor
  <2>. QED
    BY <2>4, <2>5, <2>6
<1>2. CASE ~(GateRequestPacket(q) \/ QueueRequestPacket(q) \/ SelectionPacket(q) \/ MacPacket(q))
  BY <1>2 DEF HandleClass, AlgorithmPacketEnqueued, GatePacketEnqueued, GateStateChanged,
              AlgorithmRequestPacket, AlgorithmPacket, GatePacket
<1>. QED
  BY <1>1, <1>2

\* The MAC asks once at a time, and a request of its is sent to a gate or waits.
LEMMA SelectionIsQuiet ==
  ASSUME PortInv, ShaperInv, TSRequestPacket \/ TSPacketEnqueued
  PROVE  ShaperInv' /\ failed' = failed
<1>1. PortTypes /\ RequestInv
  BY DEF PortInv
<1>2. CASE Fail
  <2>1. TSRequestPacket /\ (packetRequestedFromUs \/ packetRequestedFromInputs)
    BY <1>2 DEF TSRequestPacket, TSPacketEnqueued, Fail, HandlesOwn
  <2>2. "requestPacket" \in Range(tsMessages)
    BY <1>1, <2>1, HandledOwnIs DEF TSRequestPacket
  <2>. QED
    BY <1>1, <2>1, <2>2 DEF RequestInv
<1>3. CASE ~Fail
  <2>1. /\ messages = <<>>
        /\ SchedulePacket \/ messages' = messages
        /\ UNCHANGED <<queue, gateVars, shaper, failed>>
    BY <1>3 DEF TSRequestPacket, TSPacketEnqueued, HandlesOwn
  <2>2. \/ messages' = <<>>
        \/ messages' = <<Message("gate.requestPacket", Chosen)>>
    BY <2>1, OnlyMessage DEF SchedulePacket
  <2>3. PICK m : m = Message("gate.requestPacket", Chosen)
    OBVIOUS
  <2>4. Range(messages) = {} /\ Range(messages') \subseteq {m}
    BY <2>1, <2>2, <2>3, OnlyMessage
  <2>5. \A q : ~IsAbout(m, q)
    BY <2>3, AboutMessages
  <2>6. \A n \in Range(messages') : n \in Range(messages) \/ \A q \in ShapedQueues : ~IsAbout(n, q)
    BY <2>4, <2>5
  <2>7. \A n \in Range(messages) : n \in Range(messages') \/ \A q \in ShapedQueues : ~IsAbout(n, q)
    BY <2>4
  <2>8. gateOpen' = gateOpen /\ shaper' = shaper /\ \A q \in ShapedQueues : queue'[q] = queue[q]
    BY <2>1 DEF gateVars
  <2>. QED
    BY <2>1, <2>6, <2>7, <2>8, QuietStep
<1>. QED
  BY <1>2, <1>3

\* What every step keeps of the promises of the shapers.
LEMMA NextKeepsWatch ==
  ASSUME PortInv, ShaperInv, OrderInv, FramesFit, PaysForOneFrame, CarefulNext
  PROVE  ShaperInv' /\ failed' = failed
<1>1. PortTypes
  BY DEF PortInv
<1>2. ASSUME NEW q \in Queues, HandleClass(q)
      PROVE  ShaperInv' /\ failed' = failed
  <2>1. failed' = failed
    BY <1>2, ClassDoesNotFail
  <2>2. CASE q \in ShapedQueues /\ GateStateChanged(q)
    BY <2>1, <2>2, GateTellsShaper
  <2>3. CASE q \in ShapedQueues /\ QueueRequestPacket(q)
    BY <2>1, <2>3, ShaperIsAsked
  <2>4. CASE ~(q \in ShapedQueues /\ (GateStateChanged(q) \/ QueueRequestPacket(q)))
    <3>1. \/ AlgorithmPacketEnqueued(q) \/ GatePacketEnqueued(q)
          \/ q \notin ShapedQueues /\ GateStateChanged(q)
          \/ GateRequestPacket(q) \/ AlgorithmRequestPacket(q)
          \/ q \notin ShapedQueues /\ QueueRequestPacket(q)
          \/ AlgorithmPacket(q) \/ GatePacket(q) \/ SelectionPacket(q) \/ MacPacket(q)
      BY <1>2, <2>4 DEF HandleClass
    <3>. QED
      BY <2>1, <3>1, ClassIsQuiet
  <2>. QED
    BY <2>2, <2>3, <2>4
<1>3. ASSUME NEW q \in ShapedQueues, HandleShaper(q)
      PROVE  ShaperInv' /\ failed' = failed
  BY <1>3, ShaperHearsOfPacket, ShaperHearsOfGate, ShaperSends, ShaperTimerFires DEF HandleShaper
<1>4. CASE Tick
  <2>1. ToSelf(Update) /\ Update \in Events
    BY <1>4, EventsAre DEF Tick, Update, Events
  <2>2. Range(messages') = Range(messages) \cup {Update}
    BY <1>1, <2>1, ToSelfIs
  <2>3. \A m \in Range(messages') : m \in Range(messages) \/ \A q \in ShapedQueues : ~IsAbout(m, q)
    BY <2>2, AboutMessages
  <2>4. \A m \in Range(messages) : m \in Range(messages')
    BY <2>2
  <2>5. /\ gateOpen' = gateOpen /\ shaper' = shaper /\ \A q \in ShapedQueues : queue'[q] = queue[q]
        /\ failed' = failed
    BY <1>4 DEF Tick
  <2>. QED
    BY <2>3, <2>4, <2>5, QuietStep
<1>5. CASE UpdateSchedule
  BY <1>5, UpdateTellsShapers DEF UpdateSchedule
<1>6. CASE TSRequestPacket \/ TSPacketEnqueued
  BY <1>6, SelectionIsQuiet
<1>7. CASE EndTx \/ EndIFG
  <2>1. /\ gateOpen' = gateOpen /\ shaper' = shaper /\ queue' = queue /\ messages' = messages
        /\ failed' = failed
    BY <1>7 DEF EndTx, EndIFG, gateVars, messageVars
  <2>2. Range(messages') = Range(messages)
    BY <2>1
  <2>. QED
    BY <2>1, <2>2, QuietStep
<1>8. CASE Elapse
  BY <1>8, ShapersAge DEF Elapse
<1>9. ASSUME NEW q \in Queues, NEW length \in Lengths, CarefulArrive(q, length)
      PROVE  ShaperInv' /\ failed' = failed
  <2>1. Arrive(q, length) /\ failed' = failed
    BY <1>9 DEF CarefulArrive, Arrive
  <2>2. CASE q \in ShapedQueues
    BY <1>9, <2>1, <2>2, ShaperHearsOfArrival
  <2>3. CASE q \notin ShapedQueues
    <3>1. PICK m : m = Message("algorithm.packetEnqueued", q)
      OBVIOUS
    <3>2. m \in Events /\ ToSelf(m)
      BY <2>1, <3>1, EventsAre DEF Events, Arrive
    <3>3. Range(messages') = Range(messages) \cup {m}
      BY <1>1, <3>2, ToSelfIs
    <3>4. \A r \in ShapedQueues : ~IsAbout(m, r)
      BY <2>3, <3>1, AboutMessages
    <3>5. \A n \in Range(messages') : n \in Range(messages) \/ \A r \in ShapedQueues : ~IsAbout(n, r)
      BY <3>3, <3>4
    <3>6. \A n \in Range(messages) : n \in Range(messages')
      BY <3>3
    <3>7. gateOpen' = gateOpen /\ shaper' = shaper
      BY <2>1 DEF Arrive, gateVars
    <3>8. \A r \in ShapedQueues : queue'[r] = queue[r]
      BY <1>1, <2>1, <2>3 DEF Arrive, PortTypes
    <3>. QED
      BY <2>1, <3>5, <3>6, <3>7, <3>8, QuietStep
  <2>. QED
    BY <2>2, <2>3
<1>. QED
  BY <1>2, <1>3, <1>4, <1>5, <1>6, <1>7, <1>8, <1>9 DEF CarefulNext, Kernel

-----------------------------------------------------------------------------
\* No frame is forgotten

\* The time a gate stays open is told alike before and after the list advances.
LEMMA BitsAfterUpdate ==
  ASSUME NEW e \in 1 .. Len(ControlList), NEW q, q \in ControlList[e].gates
  PROVE  BitsFrom(q, NextIndex(e, 1), ControlList[NextIndex(e, 1)].timeInterval) = BitsFrom(q, e, Never)
<1>. DEFINE N == Len(ControlList)
            d == NextIndex(e, 1)
            t == ControlList[d].timeInterval
            before == {n \in 0 .. N - 1 : q \notin ControlList[NextIndex(e, n)].gates}
            after == {n \in 0 .. N - 1 : q \notin ControlList[NextIndex(d, n)].gates}
<1>1. /\ N \in Nat \ {0}
      /\ \A n \in 0 .. N - 1 : NextIndex(d, n) = NextIndex(e, n + 1)
      /\ NextIndex(e, 0) = e /\ NextIndex(e, N) = e
  BY PlacesOfTheList
<1>2. /\ BitsFrom(q, d, t) = IF after = {} THEN MtuTime ELSE Min({UntilFrom(d, t)[Min(after)], MtuTime})
      /\ BitsFrom(q, e, Never) =
           IF before = {} THEN MtuTime ELSE Min({UntilFrom(e, Never)[Min(before)], MtuTime})
  BY DEF BitsFrom
<1>3. \A n \in 0 .. N - 1 : UntilFrom(d, t)[n] = UntilFrom(e, Never)[n + 1]
  BY UntilAfterUpdate
<1>4. \A n \in before : n - 1 \in after
  <2>. SUFFICES ASSUME NEW n \in before PROVE n - 1 \in after
    OBVIOUS
  <2>1. n \in 0 .. N - 1 /\ q \notin ControlList[NextIndex(e, n)].gates
    OBVIOUS
  <2>2. n # 0
    BY <1>1, <2>1
  <2>3. n - 1 \in 0 .. N - 1 /\ (n - 1) + 1 = n
    BY <1>1, <2>1, <2>2
  <2>4. NextIndex(d, n - 1) = NextIndex(e, (n - 1) + 1)
    BY <1>1, <2>3
  <2>. QED
    BY <2>1, <2>3, <2>4
<1>5. \A n \in after : n + 1 \in before
  <2>. SUFFICES ASSUME NEW n \in after PROVE n + 1 \in before
    OBVIOUS
  <2>1. n \in 0 .. N - 1 /\ q \notin ControlList[NextIndex(e, n + 1)].gates
    BY <1>1
  <2>2. n + 1 # N
    BY <1>1, <2>1
  <2>3. n + 1 \in 0 .. N - 1
    BY <1>1, <2>1, <2>2
  <2>. QED
    BY <2>1, <2>3
<1>6. before \subseteq Nat /\ after \subseteq 0 .. N - 1 /\ after \subseteq Nat
  BY <1>1
<1>. HIDE DEF before, after, N, t, d
<1>7. CASE after = {}
  <2>1. before = {}
    BY <1>4, <1>7
  <2>. QED
    BY <1>2, <1>7, <2>1 DEF d, t
<1>8. CASE after # {}
  <2>1. before # {}
    BY <1>5, <1>8
  <2>2. PICK a \in after : a = Min(after) /\ \A n \in after : a <= n
    BY <1>6, <1>8, MinIs
  <2>3. PICK b \in before : b = Min(before) /\ \A n \in before : b <= n
    BY <1>6, <2>1, MinIs
  <2>4. a \in Nat /\ b \in Nat /\ b <= a + 1 /\ a <= b - 1
    BY <1>4, <1>5, <1>6, <2>2, <2>3
  <2>5. b = a + 1
    BY <2>4
  <2>6. UntilFrom(d, t)[a] = UntilFrom(e, Never)[b]
    BY <1>3, <1>6, <2>5
  <2>. QED
    BY <1>2, <1>8, <2>1, <2>2, <2>3, <2>6 DEF d, t
<1>. QED
  BY <1>7, <1>8

\* The later, the less time there is until a gate closes.
LEMMA BitsLater ==
  ASSUME NEW e \in 1 .. Len(ControlList), NEW t \in Nat \ {0}, NEW q
  PROVE  BitsFrom(q, e, t - 1) <= BitsFrom(q, e, t)
<1>. DEFINE N == Len(ControlList)
            closing == {n \in 0 .. N - 1 : q \notin ControlList[NextIndex(e, n)].gates}
<1>1. N \in Nat \ {0} /\ MtuTime \in Nat
  BY EntriesAreSlots, QueuingAssumption
<1>2. \A s \in Ticks : BitsFrom(q, e, s) =
        IF closing = {} THEN MtuTime ELSE Min({UntilFrom(e, s)[Min(closing)], MtuTime})
  BY DEF BitsFrom
<1>3. t - 1 \in Ticks /\ t \in Ticks
  BY DEF Ticks
<1>4. closing \subseteq 0 .. N - 1 /\ closing \subseteq Nat
  BY <1>1
<1>. HIDE DEF closing
<1>5. CASE closing = {}
  BY <1>1, <1>2, <1>3, <1>5
<1>6. CASE closing # {}
  <2>1. PICK n \in closing : n = Min(closing)
    BY <1>4, <1>6, MinIs
  <2>2. n \in 0 .. Len(ControlList)
    BY <1>1, <1>4
  <2>3. UntilFrom(e, t)[n] \in Nat /\ UntilFrom(e, t - 1)[n] \in Nat
    BY <1>3, <2>2, UntilIs
  <2>4. UntilFrom(e, t - 1)[n] <= UntilFrom(e, t)[n]
    <3>1. CASE n = 0
      BY <1>3, <3>1, UntilIs
    <3>2. CASE n # 0
      <4>1. n \in 1 .. Len(ControlList)
        BY <2>2, <3>2
      <4>. QED
        BY <2>3, <4>1, UntilLater
    <3>. QED
      BY <3>1, <3>2
  <2>5. \A a \in Nat, b \in Nat : a <= b => Min({a, MtuTime}) <= Min({b, MtuTime})
    <3>. SUFFICES ASSUME NEW a \in Nat, NEW b \in Nat, a <= b
                  PROVE  Min({a, MtuTime}) <= Min({b, MtuTime})
      OBVIOUS
    <3>1. a \in Int /\ b \in Int /\ MtuTime \in Int
      BY <1>1
    <3>2. Min({a, MtuTime}) <= a /\ Min({a, MtuTime}) <= MtuTime /\ Min({a, MtuTime}) \in {a, MtuTime}
      BY <3>1, MinOfTwo
    <3>3. Min({b, MtuTime}) \in {b, MtuTime}
      BY <3>1, MinOfTwo
    <3>. QED
      BY <1>1, <3>2, <3>3
  <2>. QED
    BY <1>2, <1>3, <1>6, <2>1, <2>3, <2>4, <2>5
<1>. QED
  BY <1>5, <1>6

\* What a step keeps of the notices of the other classes, and what remains to be
\* shown of the one it handles.
LEMMA NoticedElsewhere ==
  ASSUME WorkInv, UNCHANGED gateVars, packetRequestedFromInputs' = packetRequestedFromInputs,
         NEW c,
         \A r \in Queues : r # c => queue'[r] = queue[r],
         \A r \in ShapedQueues : r # c => shaper'[r] = shaper[r],
         \A m \in Range(messages) : m \in Range(messages') \/ m.class = c,
         Range(tsMessages) \subseteq Range(tsMessages'),
         c \in Ready' => Noticed(c)' \/ (c \in Ready /\ (Noticed(c) => Noticed(c)'))
  PROVE  WorkInv'
<1>. SUFFICES ASSUME packetRequestedFromInputs, NEW r \in Ready', r # c
              PROVE  Noticed(r)'
  BY DEF WorkInv
<1>1. r \in Ready
  BY ReadyNext
<1>2. Noticed(r)
  BY <1>1 DEF WorkInv
<1>3. \A what : Pending(what, r) => Pending(what, r)'
  BY OtherKinds DEF Pending
<1>4. r \in ShapedQueues => (IsIdle(r)' <=> IsIdle(r))
  BY DEF IsIdle
<1>. QED
  BY <1>2, <1>3, <1>4 DEF Noticed

\* Nothing is forgotten when nothing but the messages changes, and none is lost.
LEMMA NoticedStill ==
  ASSUME WorkInv, UNCHANGED <<gateVars, queue, shaper>>,
         packetRequestedFromInputs' = packetRequestedFromInputs,
         Range(messages) \subseteq Range(messages'),
         Range(tsMessages) \subseteq Range(tsMessages')
  PROVE  WorkInv'
<1>. SUFFICES ASSUME packetRequestedFromInputs, NEW r \in Ready'
              PROVE  Noticed(r)'
  BY DEF WorkInv
<1>1. r \in Ready
  <2>1. r # None
    BY QueuingAssumption DEF Ready, None
  <2>. QED
    BY <2>1, ReadyNext
<1>2. Noticed(r)
  BY <1>1 DEF WorkInv
<1>3. \A what : Pending(what, r) => Pending(what, r)'
  BY DEF Pending
<1>. QED
  BY <1>2, <1>3 DEF Noticed, IsIdle

\* A class that becomes ready does so with credit, an open gate, and a frame.
LEMMA ReadyIs ==
  ASSUME PortInv, NEW q \in Ready
  PROVE  q \in Queues /\ q \in gateOpen /\ ~InDebt(q) /\ queue[q] # <<>>
         /\ IsPacketReadyForTransmission(q)
<1>1. PortTypes
  BY DEF PortInv
<1>2. /\ q \in Queues /\ q \in gateOpen /\ ~InDebt(q)
      /\ queue[q] # <<>> /\ Fits(Head(queue[q]), MaxTransferableBits(q))
  BY DEF Ready, IsEmpty, AlgorithmIsEmpty, QueueIsEmpty
<1>3. MaxTransferableBits(q) \in Nat /\ MaxTransferableBits(q) <= MtuTime
  BY <1>1, BitsAre
<1>4. Head(queue[q]) \in Nat /\ PreambleSize \in Nat /\ MtuTime \in Nat
  <2>1. queue[q] \in Seq(Lengths) /\ queue[q] # <<>>
    BY <1>1, <1>2 DEF PortTypes
  <2>2. Head(queue[q]) \in Lengths
    BY <2>1
  <2>. QED
    BY <2>2, QueuingAssumption
<1>. QED
  BY <1>2, <1>3, <1>4 DEF IsPacketReadyForTransmission, QueueIsEmpty, Fits

\* A frame that arrives is told of; behind another one it changes nothing.
LEMMA ArrivalIsNoticed ==
  ASSUME PortInv, ShaperInv, WorkInv, FramesFit, NEW q \in Queues, NEW length \in Lengths,
         Arrive(q, length)
  PROVE  WorkInv'
<1>. DEFINE m == Message("algorithm.packetEnqueued", q)
<1>1. PortTypes
  BY DEF PortInv
<1>2. /\ arrivals > 0 /\ ToSelf(m) /\ UNCHANGED <<gateVars, tsVars, shaper>>
      /\ queue' = (IF HasRoom(q, length) THEN [queue EXCEPT ![q] = Append(@, length)] ELSE queue)
  BY DEF Arrive
<1>3. m \in Events /\ m.class = q
  BY EventsAre, OtherKinds DEF Events
<1>4. Range(messages') = Range(messages) \cup {m} /\ tsMessages' = tsMessages
  <2>. HIDE DEF m
  <2>. QED
    BY <1>1, <1>2, <1>3, ToSelfIs
<1>5. /\ \A r \in Queues : r # q => queue'[r] = queue[r]
      /\ \A r \in ShapedQueues : r # q => shaper'[r] = shaper[r]
      /\ packetRequestedFromInputs' = packetRequestedFromInputs
  BY <1>1, <1>2 DEF PortTypes, tsVars
<1>6. Pending("algorithm.packetEnqueued", q)' /\ (IsIdle(q)' <=> IsIdle(q))
  BY <1>2, <1>4 DEF Pending, IsIdle
<1>7. q \in Ready' => Noticed(q)' \/ (q \in Ready /\ (Noticed(q) => Noticed(q)'))
  <2>1. CASE q \notin ShapedQueues \/ IsIdle(q)
    BY <1>6, <2>1 DEF Noticed
  <2>2. CASE q \in ShapedQueues /\ ~IsIdle(q)
    <3>. SUFFICES ASSUME q \in Ready'
                  PROVE  q \in Ready /\ (Noticed(q) => Noticed(q)')
      OBVIOUS
    <3>1. Noticed(q) => Noticed(q)'
      BY <1>4, <1>6 DEF Noticed, Pending
    <3>2. /\ MaxTransferableBits(q)' = MaxTransferableBits(q) /\ gateOpen' = gateOpen
          /\ InDebt(q)' <=> InDebt(q)
      BY <1>2, BitsNext DEF gateVars, InDebt
    <3>3. q \in gateOpen /\ ~InDebt(q)
          /\ queue'[q] # <<>> /\ Fits(Head(queue'[q]), MaxTransferableBits(q))
      BY <3>2 DEF Ready, IsEmpty, AlgorithmIsEmpty, QueueIsEmpty
    <3>4. queue[q] # <<>> => Head(queue'[q]) = Head(queue[q])
      BY <1>2, ArrivedFrame
    <3>5. queue[q] # <<>>
      <4>1. shaper[q].credit \in Int /\ ~(shaper[q].credit < 0) /\ shaper[q].credit >= 0
        BY <2>2, <3>3, ShaperIs
      <4>2. ~Spends(q)
        BY <2>2, <4>1 DEF ShaperInv, Watches, SpendsInDebt
      <4>3. Earns(q)
        BY <2>2, <4>2, ShaperIs
      <4>4. ~FrameWaits(q)
        <5>1. NothingTravels
          BY <1>2, TravelsAlone
        <5>. QED
          BY <5>1 DEF NothingTravels, FrameWaits, ChainKinds, PacketKinds
      <4>5. IsPacketReadyForTransmission(q)
        BY <2>2, <4>1, <4>3, <4>4 DEF ShaperInv, Watches, EarnsWithCause
      <4>. QED
        BY <4>5 DEF IsPacketReadyForTransmission, QueueIsEmpty
    <3>6. q \in Ready
      BY <3>3, <3>4, <3>5 DEF Ready, IsEmpty, AlgorithmIsEmpty, QueueIsEmpty
    <3>. QED
      BY <3>1, <3>6
  <2>. QED
    BY <2>1, <2>2
<1>8. /\ \A n \in Range(messages) : n \in Range(messages') \/ n.class = q
      /\ Range(tsMessages) \subseteq Range(tsMessages')
  BY <1>4
<1>. QED
  BY <1>2, <1>5, <1>7, <1>8, NoticedElsewhere

\* A notice is passed on, from the algorithm to the gate and from there to the
\* transmission selection, unless the gate is closed or no frame fits.
LEMMA NoticePassed ==
  ASSUME PortInv, WorkInv, NEW q \in Queues,
         AlgorithmPacketEnqueued(q) \/ GatePacketEnqueued(q) \/ GateStateChanged(q)
  PROVE  WorkInv'
<1>1. PortTypes
  BY DEF PortInv
<1>2. /\ UNCHANGED <<queue, gateVars, shaper>> /\ packetRequestedFromInputs' = packetRequestedFromInputs
      /\ \A r \in Queues : r # q => queue'[r] = queue[r]
      /\ \A r \in ShapedQueues : r # q => shaper'[r] = shaper[r]
  BY DEF AlgorithmPacketEnqueued, GatePacketEnqueued, GateStateChanged, tsVars
<1>3. q \in Ready' => q \in Ready
  <2>1. /\ MaxTransferableBits(q)' = MaxTransferableBits(q) /\ gateOpen' = gateOpen
    BY <1>2, BitsNext DEF gateVars
  <2>. QED
    BY <1>2, <2>1 DEF Ready, IsEmpty, AlgorithmIsEmpty, InDebt, QueueIsEmpty
<1>4. IsIdle(q)' <=> IsIdle(q)
  BY <1>2 DEF IsIdle
<1>5. CASE AlgorithmPacketEnqueued(q)
  <2>1. Handles("algorithm.packetEnqueued", q) /\ Becomes(Message("gate.packetEnqueued", q))
    BY <1>5 DEF AlgorithmPacketEnqueued
  <2>2. PICK n \in Events : n = Message("gate.packetEnqueued", q)
    BY EventsAre DEF Events
  <2>3. /\ Range(messages') = (Range(messages) \ {Head(messages)}) \cup {n}
        /\ tsMessages' = tsMessages
    BY <1>1, <2>1, <2>2, BecomesIs
  <2>4. Head(messages).class = q
    BY <1>1, <2>1, HandledIs
  <2>5. Noticed(q)'
    BY <2>2, <2>3 DEF Noticed, Pending
  <2>6. \A m \in Range(messages) : m \in Range(messages') \/ m.class = q
    BY <2>3, <2>4
  <2>7. Range(tsMessages) \subseteq Range(tsMessages')
    BY <2>3
  <2>. QED
    BY <1>2, <2>5, <2>6, <2>7, NoticedElsewhere
<1>6. CASE GatePacketEnqueued(q)
  <2>1. Handles("gate.packetEnqueued", q)
        /\ (q \in gateOpen => Notify("packetEnqueued")) /\ (q \notin gateOpen => Ends)
    BY <1>6 DEF GatePacketEnqueued
  <2>2. Head(messages).class = q
    BY <1>1, <2>1, HandledIs
  <2>3. /\ Range(messages') = Range(messages) \ {Head(messages)}
        /\ Range(tsMessages) \subseteq Range(tsMessages')
        /\ q \in gateOpen => "packetEnqueued" \in Range(tsMessages')
    BY <1>1, <2>1, EndsIs, NotifyIs
  <2>4. q \in Ready' => Noticed(q)'
    BY <1>3, <2>3 DEF Ready, IsEmpty, Noticed
  <2>5. \A m \in Range(messages) : m \in Range(messages') \/ m.class = q
    BY <2>2, <2>3
  <2>. QED
    BY <1>2, <2>3, <2>4, <2>5, NoticedElsewhere
<1>7. CASE GateStateChanged(q)
  <2>1. /\ Handles("gate.stateChanged", q)
        /\ tsMessages' = IF OpensWithFrame(q) THEN Reschedule(tsMessages, "packetEnqueued") ELSE tsMessages
        /\ messages' = IF q \in ShapedQueues
                         THEN Reschedule(Tail(messages), Message("algorithm.gateStateChanged", q))
                         ELSE Tail(messages)
    BY <1>7 DEF GateStateChanged
  <2>2. /\ Head(messages).class = q
        /\ Tail(messages) \in Seq(Events) /\ IsInjective(Tail(messages))
        /\ Range(Tail(messages)) = Range(messages) \ {Head(messages)}
    BY <1>1, <2>1, HandledIs
  <2>3. Range(messages) \ {Head(messages)} \subseteq Range(messages')
    <3>1. CASE q \in ShapedQueues
      <4>1. PICK n \in Events : n = Message("algorithm.gateStateChanged", q)
        BY <3>1, EventsAre DEF Events
      <4>2. ASSUME NEW s \in Seq(Events), IsInjective(s)
            PROVE  Range(Reschedule(s, n)) = Range(s) \cup {n}
        BY <4>2, RescheduleIs
      <4>. DEFINE t == Tail(messages)
      <4>3. messages' = Reschedule(t, n) /\ t \in Seq(Events) /\ IsInjective(t)
            /\ Range(t) = Range(messages) \ {Head(messages)}
        BY <2>1, <2>2, <3>1, <4>1
      <4>. HIDE DEF t
      <4>4. Range(Reschedule(t, n)) = Range(t) \cup {n}
        BY <4>2, <4>3
      <4>. QED
        BY <4>3, <4>4
    <3>2. CASE q \notin ShapedQueues
      BY <2>1, <2>2, <3>2
    <3>. QED
      BY <3>1, <3>2
  <2>4. /\ Range(tsMessages) \subseteq Range(tsMessages')
        /\ OpensWithFrame(q) => "packetEnqueued" \in Range(tsMessages')
    <3>1. tsMessages \in Seq(OwnKinds) /\ IsInjective(tsMessages) /\ "packetEnqueued" \in OwnKinds
      BY <1>1 DEF PortTypes, OwnKinds
    <3>2. Range(Reschedule(tsMessages, "packetEnqueued")) = Range(tsMessages) \cup {"packetEnqueued"}
      BY <3>1, RescheduleIs
    <3>. QED
      BY <2>1, <3>2
  <2>5. q \in Ready' => Noticed(q)'
    BY <1>3, <2>4 DEF Ready, IsEmpty, OpensWithFrame, Noticed
  <2>6. \A m \in Range(messages) : m \in Range(messages') \/ m.class = q
    BY <2>2, <2>3
  <2>. QED
    BY <1>2, <2>4, <2>5, <2>6, NoticedElsewhere
<1>. QED
  BY <1>5, <1>6, <1>7

\* A shaper passes a notice on, or has no use for it.
LEMMA ShaperNotices ==
  ASSUME PortInv, ShaperInv, WorkInv, NEW q \in ShapedQueues,
         ShaperPacketEnqueued(q) \/ ShaperGateStateChanged(q)
  PROVE  WorkInv'
<1>1. PortTypes /\ q \in Queues /\ Watches(q)
  BY QueuingAssumption DEF PortInv, ShaperInv
<1>2. failed' = failed
  BY ShaperHearsOfPacket, ShaperHearsOfGate
<1>3. PICK c \in Int : c = shaper[q].credit
  BY ShaperIs
<1>4. Earning(c) \in ShaperStates /\ \A k \in Int : Idle(k) \in ShaperStates
  BY NewShaperStates
<1>5. CASE ShaperPacketEnqueued(q)
  <2>. DEFINE starts == IsIdle(q) /\ q \in gateOpen
  <2>1. Handles("algorithm.packetEnqueued", q) /\ ~failed
    BY <1>5 DEF ShaperPacketEnqueued, Handles
  <2>2. /\ starts => ShaperBecomes(q, Earning(c)) /\ Becomes(Message("gate.packetEnqueued", q))
        /\ ~starts => Ends /\ shaper' = shaper
        /\ UNCHANGED <<queue, gateVars>> /\ packetRequestedFromInputs' = packetRequestedFromInputs
    BY <1>2, <1>3, <1>5, <2>1 DEF ShaperPacketEnqueued, Fail, IsIdle, tsVars
  <2>3. Head(messages) = Message("algorithm.packetEnqueued", q) /\ Head(messages).class = q
    <3>1. Head(messages).what = "algorithm.packetEnqueued" /\ Head(messages).class = q
          /\ Head(messages) \in Events
      BY <1>1, <2>1, HandledIs
    <3>2. Head(messages) \in Notices
      BY <3>1, EventsAre DEF Events, ChainKinds, RequestKinds, PacketKinds
    <3>. QED
      BY <3>1, <3>2, EventsAre
  <2>4. CASE starts
    <3>1. PICK n \in Events : n = Message("gate.packetEnqueued", q)
      BY <1>1, EventsAre DEF Events
    <3>2. /\ Range(messages') = (Range(messages) \ {Head(messages)}) \cup {n}
          /\ tsMessages' = tsMessages
      BY <1>1, <2>1, <2>2, <2>4, <3>1, BecomesIs
    <3>3. \A r \in ShapedQueues : r # q => shaper'[r] = shaper[r]
      BY <1>1, <1>4, <2>2, <2>4, ShaperBecomesIs
    <3>4. Noticed(q)'
      BY <3>1, <3>2 DEF Noticed, Pending
    <3>5. \A m \in Range(messages) : m \in Range(messages') \/ m.class = q
      BY <2>3, <3>2
    <3>6. (\A r \in Queues : r # q => queue'[r] = queue[r]) /\ Range(tsMessages) \subseteq Range(tsMessages')
      BY <2>2, <3>2
    <3>. QED
      BY <2>2, <3>3, <3>4, <3>5, <3>6, NoticedElsewhere
  <2>5. CASE ~starts
    <3>1. /\ Range(messages') = Range(messages) \ {Head(messages)}
          /\ tsMessages' = tsMessages /\ shaper' = shaper
      BY <1>1, <2>1, <2>2, <2>5, EndsIs
    <3>2. q \in Ready' => q \in Ready /\ (Noticed(q) => Noticed(q)')
      <4>1. q \in Ready' => q \in Ready /\ q \in gateOpen
        <5>1. /\ MaxTransferableBits(q)' = MaxTransferableBits(q) /\ gateOpen' = gateOpen
          BY <2>2, BitsNext DEF gateVars
        <5>. QED
          BY <2>2, <3>1, <5>1 DEF Ready, IsEmpty, AlgorithmIsEmpty, InDebt, QueueIsEmpty
      <4>2. q \in gateOpen => ~IsIdle(q)
        BY <2>5
      <4>3. \A what : what # "algorithm.packetEnqueued" /\ Pending(what, q) => Pending(what, q)'
        BY <2>3, <3>1, OtherKinds DEF Pending
      <4>. QED
        BY <3>1, <4>1, <4>2, <4>3 DEF Noticed
    <3>3. \A m \in Range(messages) : m \in Range(messages') \/ m.class = q
      BY <2>3, <3>1
    <3>4. /\ \A r \in Queues : r # q => queue'[r] = queue[r]
          /\ \A r \in ShapedQueues : r # q => shaper'[r] = shaper[r]
          /\ Range(tsMessages) \subseteq Range(tsMessages')
      BY <2>2, <3>1
    <3>. QED
      BY <2>2, <3>2, <3>3, <3>4, NoticedElsewhere
  <2>. QED
    BY <2>4, <2>5
<1>6. CASE ShaperGateStateChanged(q)
  <2>. DEFINE starts == q \in gateOpen /\ IsIdle(q) /\ StartsWhenOpened(q)
              stops == q \notin gateOpen /\ Earns(q)
  <2>1. Handles("algorithm.gateStateChanged", q) /\ ~failed
    BY <1>6 DEF ShaperGateStateChanged, Handles
  <2>2. /\ Ends /\ UNCHANGED <<queue, gateVars>>
        /\ packetRequestedFromInputs' = packetRequestedFromInputs
        /\ starts => ShaperBecomes(q, Earning(c))
        /\ stops => ShaperBecomes(q, Idle(CreditOf(q)))
        /\ ~starts /\ ~stops => shaper' = shaper
    <3>1. ~(q \in gateOpen /\ Earns(q)) /\ ~(starts /\ stops)
      BY <1>2, <1>6, <2>1 DEF ShaperGateStateChanged, Fail, Earns
    <3>. QED
      BY <1>3, <1>6, <3>1 DEF ShaperGateStateChanged, IsIdle, Earns, tsVars
  <2>3. Head(messages) = Message("algorithm.gateStateChanged", q) /\ Head(messages).class = q
        /\ Head(messages) \in Range(messages)
    <3>1. Head(messages).what = "algorithm.gateStateChanged" /\ Head(messages).class = q
          /\ Head(messages) \in Events /\ Head(messages) \in Range(messages)
      BY <1>1, <2>1, HandledIs
    <3>2. Head(messages) \in Notices
      BY <3>1, EventsAre DEF Events, ChainKinds, RequestKinds, PacketKinds
    <3>. QED
      BY <3>1, <3>2, EventsAre DEF ChangeKinds
  <2>4. ~Pending("algorithm.packetEnqueued", q)
    BY <1>1, <2>3 DEF Watches, HearsInTime, Pending, Changing
  <2>5. /\ Range(messages') = Range(messages) \ {Head(messages)}
        /\ tsMessages' = tsMessages
    BY <1>1, <2>1, <2>2, EndsIs
  <2>6. \A what : what # "algorithm.gateStateChanged" /\ Pending(what, q) => Pending(what, q)'
    BY <2>3, <2>5, OtherKinds DEF Pending
  <2>7. Noticed(q) => Noticed(q)'
    BY <2>4, <2>5, <2>6 DEF Noticed
  <2>8. CreditOf(q) \in Int
    BY <1>1, CreditIs
  <2>9. \A r \in ShapedQueues : r # q => shaper'[r] = shaper[r]
    BY <1>1, <1>4, <2>2, <2>8, ShaperBecomesIs
  <2>10. q \in Ready' => q \in Ready
    <3>. SUFFICES ASSUME q \in Ready' PROVE q \in Ready
      OBVIOUS
    <3>1. /\ MaxTransferableBits(q)' = MaxTransferableBits(q) /\ gateOpen' = gateOpen
      BY <2>2, BitsNext DEF gateVars
    <3>2. q \in gateOpen /\ ~InDebt(q)' /\ ~QueueIsEmpty(q, MaxTransferableBits(q))
      BY <2>2, <3>1 DEF Ready, IsEmpty, AlgorithmIsEmpty, QueueIsEmpty
    <3>3. shaper'[q].credit = c
      <4>1. CASE starts
        BY <1>1, <1>3, <1>4, <2>2, <4>1, ShaperBecomesIs DEF Earning
      <4>2. CASE ~starts
        BY <1>3, <2>2, <3>2, <4>2
      <4>. QED
        BY <4>1, <4>2
    <3>4. ~InDebt(q)
      BY <1>3, <3>2, <3>3 DEF InDebt
    <3>. QED
      BY <1>1, <3>2, <3>4 DEF Ready, IsEmpty, AlgorithmIsEmpty
  <2>11. /\ \A m \in Range(messages) : m \in Range(messages') \/ m.class = q
         /\ \A r \in Queues : r # q => queue'[r] = queue[r]
         /\ Range(tsMessages) \subseteq Range(tsMessages')
    BY <2>2, <2>3, <2>5
  <2>. QED
    BY <2>2, <2>7, <2>9, <2>10, <2>11, NoticedElsewhere
<1>. QED
  BY <1>5, <1>6

\* A shaper that has paid its debt offers its frame.
LEMMA ShaperOffers ==
  ASSUME PortInv, PortInv', ShaperInv, WorkInv, NEW q \in ShapedQueues,
         EndSpendingCredit(q) \/ ZeroCreditReached(q)
  PROVE  WorkInv'
<1>1. PortTypes /\ PortTypes' /\ q \in Queues
  BY QueuingAssumption DEF PortInv
<1>2. /\ failed' = failed /\ Range(messages) \subseteq Range(messages')
      /\ InDebt(q)' \/ ~IsPacketReadyForTransmission(q)' \/ Pending("gate.packetEnqueued", q)'
  BY ShaperTimerFires
<1>3. ~failed
  BY DEF EndSpendingCredit, ZeroCreditReached
<1>4. /\ UNCHANGED <<queue, gateVars>> /\ packetRequestedFromInputs' = packetRequestedFromInputs
      /\ tsMessages' = tsMessages /\ \A r \in ShapedQueues : r # q => shaper'[r] = shaper[r]
  <2>1. \A s : ShaperBecomes(q, s) => \A r \in ShapedQueues : r # q => shaper'[r] = shaper[r]
    BY <1>1 DEF ShaperBecomes, PortTypes
  <2>2. \A k : OfferNext(q, k) =>
          tsMessages' = tsMessages /\ \A r \in ShapedQueues : r # q => shaper'[r] = shaper[r]
    BY <2>1 DEF OfferNext, ToSelf, messageVars
  <2>3. CASE EndSpendingCredit(q)
    BY <2>1, <2>2, <2>3 DEF EndSpendingCredit, messageVars, tsVars
  <2>4. CASE ZeroCreditReached(q)
    BY <1>2, <1>3, <2>2, <2>4 DEF ZeroCreditReached, Fail, tsVars
  <2>. QED
    BY <2>3, <2>4
<1>5. q \in Ready' => Noticed(q)'
  <2>. SUFFICES ASSUME q \in Ready' PROVE Noticed(q)'
    OBVIOUS
  <2>1. ~InDebt(q)' /\ queue[q] # <<>> /\ Fits(Head(queue[q]), MaxTransferableBits(q)')
    BY <1>4 DEF Ready, IsEmpty, AlgorithmIsEmpty, QueueIsEmpty
  <2>2. MaxTransferableBits(q)' = MaxTransferableBits(q)
    BY <1>4, BitsNext
  <2>3. MaxTransferableBits(q) \in Nat /\ MaxTransferableBits(q) <= MtuTime
    BY <1>1, BitsAre
  <2>4. queue[q] \in Seq(Lengths)
    BY <1>1 DEF PortTypes
  <2>5. Head(queue[q]) \in Nat /\ PreambleSize \in Nat /\ MtuTime \in Nat
    <3>1. Head(queue[q]) \in Lengths
      BY <2>1, <2>4
    <3>. QED
      BY <3>1, QueuingAssumption
  <2>6. IsPacketReadyForTransmission(q)'
    BY <1>4, <2>1, <2>2, <2>3, <2>5 DEF IsPacketReadyForTransmission, QueueIsEmpty, Fits
  <2>. QED
    BY <1>2, <2>1, <2>6 DEF Noticed
<1>6. /\ \A m \in Range(messages) : m \in Range(messages') \/ m.class = q
      /\ \A r \in Queues : r # q => queue'[r] = queue[r]
      /\ Range(tsMessages) \subseteq Range(tsMessages')
  BY <1>2, <1>4
<1>. QED
  BY <1>4, <1>5, <1>6, NoticedElsewhere

\* While a request or its frame travels, the transmission selection does not wait.
LEMMA ChainIsAwaited ==
  ASSUME PortInv, NEW what \in ChainKinds, NEW q, Handles(what, q),
         packetRequestedFromInputs' = packetRequestedFromInputs
  PROVE  WorkInv'
<1>1. PICK m \in Chains : StandsStillFor(m)
  BY ChainHandledIs
<1>. QED
  BY <1>1 DEF StandsStillFor, WorkInv

\* The gates that open tell of it, and the others are as open as before.
LEMMA UpdateIsNoticed ==
  ASSUME PortInv, ListInv, WorkInv, UpdateSchedule
  PROVE  WorkInv'
<1>. DEFINE new == ControlList[Upcoming].gates
            t == ControlList[Upcoming].timeInterval
<1>1. /\ gateOpen' = new /\ entry' = Upcoming /\ tick' = t
      /\ UNCHANGED <<queue, shaper, tsMessages>> /\ packetRequestedFromInputs' = packetRequestedFromInputs
  BY DEF UpdateSchedule, Upcoming, tsVars
<1>2. /\ tick = Never /\ entry \in 1 .. Len(ControlList) /\ gateOpen \in SUBSET Queues
      /\ Range(messages') = (Range(messages) \ {Update}) \cup Told
  BY UpdateIs
<1>. SUFFICES ASSUME packetRequestedFromInputs, NEW q \in Ready'
              PROVE  Noticed(q)'
  BY <1>1 DEF WorkInv
<1>3. /\ q \in Queues /\ q \in new /\ ~InDebt(q)'
      /\ queue[q] # <<>> /\ Fits(Head(queue[q]), MaxTransferableBits(q)')
  BY <1>1 DEF Ready, IsEmpty, AlgorithmIsEmpty, QueueIsEmpty
<1>4. CASE q \notin gateOpen
  <2>1. Message("gate.stateChanged", q) \in Told
    BY <1>3, <1>4 DEF Told, SymDiff
  <2>. QED
    BY <1>2, <2>1 DEF Noticed, Pending
<1>5. CASE q \in gateOpen
  <2>1. q \in ControlList[entry].gates
    BY <1>5 DEF ListInv
  <2>2. MaxTransferableBits(q)' = MaxTransferableBits(q)
    <3>1. CalculateMaxBit(q) = BitsFrom(q, entry, Never)
      BY <1>2, CalculateMaxBitIs
    <3>2. CalculateMaxBit(q)' = BitsFrom(q, Upcoming, t)
      <4>1. CalculateMaxBit(q)' = BitsFrom(q, entry', tick')
        BY TimeUntilEntryIsNext, Zenon DEF CalculateMaxBit, BitsFrom
      <4>. QED
        BY <1>1, <4>1
    <3>3. BitsFrom(q, Upcoming, t) = BitsFrom(q, entry, Never)
      BY <1>2, <2>1, BitsAfterUpdate DEF Upcoming
    <3>. QED
      BY <3>1, <3>2, <3>3 DEF MaxTransferableBits
  <2>3. ~InDebt(q)
    BY <1>1, <1>3 DEF InDebt
  <2>4. q \in Ready
    BY <1>3, <1>5, <2>2, <2>3 DEF Ready, IsEmpty, AlgorithmIsEmpty, QueueIsEmpty
  <2>5. Noticed(q)
    BY <2>4 DEF WorkInv
  <2>6. \A what : what # "gateController.updateSchedule" /\ Pending(what, q) => Pending(what, q)'
    BY <1>2, OtherKinds DEF Pending, Update
  <2>7. IsIdle(q)' <=> IsIdle(q)
    BY <1>1 DEF IsIdle
  <2>. QED
    BY <1>1, <2>5, <2>6, <2>7 DEF Noticed
<1>. QED
  BY <1>4, <1>5

\* A tick that was handled leaves the gate as much time as one that is due.
LEMMA TickIsNoticed ==
  ASSUME PortInv, WorkInv, Tick
  PROVE  WorkInv'
<1>1. PortTypes
  BY DEF PortInv
<1>2. /\ tick = 0 /\ tick' = Never /\ ToSelf(Update) /\ UNCHANGED <<queue, gateOpen, entry, shaper>>
      /\ packetRequestedFromInputs' = packetRequestedFromInputs
  BY DEF Tick, Update, tsVars
<1>3. Range(messages') = Range(messages) \cup {Update} /\ tsMessages' = tsMessages
  BY <1>1, <1>2, EventsAre, ToSelfIs DEF Events
<1>. SUFFICES ASSUME packetRequestedFromInputs, NEW q \in Ready'
              PROVE  Noticed(q)'
  BY <1>2 DEF WorkInv
<1>4. MaxTransferableBits(q)' = MaxTransferableBits(q)
  <2>1. UntilNext(tick) = 0 /\ UntilNext(tick') = 0
    BY <1>2 DEF UntilNext, Never
  <2>2. TimeUntilEntry' = TimeUntilEntry
    BY <1>2, <2>1, TimeUntilEntryIs, TimeUntilEntryIsNext DEF UntilFrom
  <2>3. CalculateMaxBit(q)' = CalculateMaxBit(q)
    BY <1>2, <2>2 DEF CalculateMaxBit
  <2>. QED
    BY <2>3 DEF MaxTransferableBits
<1>5. q \in Ready
  BY <1>2, <1>4 DEF Ready, IsEmpty, AlgorithmIsEmpty, InDebt, QueueIsEmpty
<1>6. Noticed(q)
  BY <1>5 DEF WorkInv
<1>7. (\A what : Pending(what, q) => Pending(what, q)') /\ (IsIdle(q)' <=> IsIdle(q))
  BY <1>2, <1>3 DEF Pending, IsIdle
<1>. QED
  BY <1>3, <1>6, <1>7 DEF Noticed

\* The transmission selection looks at all gates before it waits.
LEMMA SelectionWaits ==
  ASSUME PortInv, ShaperInv, WorkInv, TSRequestPacket \/ TSPacketEnqueued
  PROVE  WorkInv'
<1>1. /\ failed' = failed /\ ~failed
  BY SelectionIsQuiet DEF TSRequestPacket, TSPacketEnqueued, HandlesOwn
<1>2. /\ packetRequestedFromInputs' = (Ready = {}) \/ ~packetRequestedFromInputs'
      /\ UNCHANGED <<queue, gateVars, shaper>>
  BY <1>1 DEF TSRequestPacket, TSPacketEnqueued, Fail, PortInv, PortTypes
<1>. SUFFICES ASSUME packetRequestedFromInputs', NEW q \in Ready'
              PROVE  FALSE
  BY DEF WorkInv
<1>3. MaxTransferableBits(q)' = MaxTransferableBits(q) /\ gateOpen' = gateOpen
  BY <1>2, BitsNext DEF gateVars
<1>4. q \in Ready
  BY <1>2, <1>3 DEF Ready, IsEmpty, AlgorithmIsEmpty, InDebt, QueueIsEmpty
<1>. QED
  BY <1>2, <1>4

\* Time passes only when no frame can be sent, and it lets no frame fit.
LEMMA ElapseIsNoticed ==
  ASSUME PortInv, ShaperInv, WorkInv, Elapse
  PROVE  WorkInv'
<1>1. /\ Settled /\ tick' = tick - 1 /\ UNCHANGED <<queue, gateOpen, entry>>
      /\ packetRequestedFromInputs' = packetRequestedFromInputs
  BY DEF Elapse, tsVars
<1>2. PortTypes /\ GateInv /\ messages = <<>> /\ tsMessages = <<>> /\ tick # 0
  BY <1>1 DEF PortInv, Settled, TimerIsDue
<1>3. Range(messages) = {} /\ Range(tsMessages) = {}
  BY <1>2, OnlyMessage
<1>4. tick \in Nat \ {0} /\ entry \in 1 .. Len(ControlList) /\ entry' = entry
  BY <1>1, <1>2, <1>3 DEF GateInv, PortTypes, Ticks
<1>. SUFFICES ASSUME packetRequestedFromInputs, NEW q \in Ready'
              PROVE  FALSE
  BY <1>1 DEF WorkInv
<1>5. /\ q \in Queues /\ q \in gateOpen /\ ~InDebt(q)'
      /\ queue[q] # <<>> /\ Fits(Head(queue[q]), MaxTransferableBits(q)')
  BY <1>1 DEF Ready, IsEmpty, AlgorithmIsEmpty, QueueIsEmpty
<1>6. ~InDebt(q)
  BY <1>5, ShapersAge DEF InDebt
<1>7. /\ MaxTransferableBits(q)' <= MaxTransferableBits(q)
      /\ MaxTransferableBits(q)' \in Nat /\ MaxTransferableBits(q) \in Nat
  <2>1. CalculateMaxBit(q) = BitsFrom(q, entry, tick)
    BY CalculateMaxBitIs
  <2>2. CalculateMaxBit(q)' = BitsFrom(q, entry, tick - 1)
    <3>1. CalculateMaxBit(q)' = BitsFrom(q, entry', tick')
      BY TimeUntilEntryIsNext, Zenon DEF CalculateMaxBit, BitsFrom
    <3>. QED
      BY <1>1, <3>1
  <2>3. /\ BitsFrom(q, entry, tick - 1) <= BitsFrom(q, entry, tick)
    BY <1>4, BitsLater
  <2>4. tick - 1 \in Ticks /\ tick \in Ticks
    BY <1>4 DEF Ticks
  <2>5. BitsFrom(q, entry, tick - 1) \in Nat /\ BitsFrom(q, entry, tick) \in Nat
    BY <1>4, <2>4, BitsEndInSlot
  <2>6. MtuTime \in Nat
    BY QueuingAssumption
  <2>. QED
    BY <2>1, <2>2, <2>3, <2>5, <2>6 DEF MaxTransferableBits
<1>8. Head(queue[q]) \in Nat /\ PreambleSize \in Nat
  <2>1. queue[q] \in Seq(Lengths)
    BY <1>2, <1>5 DEF PortTypes
  <2>2. Head(queue[q]) \in Lengths
    BY <1>5, <2>1
  <2>. QED
    BY <2>2, QueuingAssumption
<1>9. q \in Ready
  BY <1>5, <1>6, <1>7, <1>8 DEF Ready, IsEmpty, AlgorithmIsEmpty, QueueIsEmpty, Fits
<1>10. ~Noticed(q)
  BY <1>3 DEF Noticed, Pending
<1>. QED
  BY <1>9, <1>10 DEF WorkInv

LEMMA NextIsNoticed ==
  ASSUME PortInv, PortInv', ShaperInv, ListInv, WorkInv, FramesFit, CarefulNext
  PROVE  WorkInv'
<1>1. PortTypes
  BY DEF PortInv
<1>2. ASSUME NEW q \in Queues, HandleClass(q)
      PROVE  WorkInv'
  <2>1. CASE AlgorithmPacketEnqueued(q) \/ GatePacketEnqueued(q) \/ GateStateChanged(q)
    BY <2>1, NoticePassed
  <2>2. CASE \/ GateRequestPacket(q) \/ AlgorithmRequestPacket(q) \/ QueueRequestPacket(q)
             \/ AlgorithmPacket(q) \/ GatePacket(q) \/ SelectionPacket(q) \/ MacPacket(q)
    <3>1. \E what \in ChainKinds : Handles(what, q)
      BY <2>2 DEF GateRequestPacket, AlgorithmRequestPacket, QueueRequestPacket, AlgorithmPacket,
                  GatePacket, SelectionPacket, MacPacket, ChainKinds, RequestKinds, PacketKinds
    <3>2. packetRequestedFromInputs' = packetRequestedFromInputs
      BY <2>2 DEF GateRequestPacket, AlgorithmRequestPacket, QueueRequestPacket, AlgorithmPacket,
                  GatePacket, SelectionPacket, MacPacket, Fail, tsVars
    <3>. QED
      BY <3>1, <3>2, ChainIsAwaited
  <2>. QED
    BY <1>2, <2>1, <2>2 DEF HandleClass
<1>3. ASSUME NEW q \in ShapedQueues, HandleShaper(q)
      PROVE  WorkInv'
  <2>1. CASE ShaperPacketEnqueued(q) \/ ShaperGateStateChanged(q)
    BY <2>1, ShaperNotices
  <2>2. CASE ShaperSendPacket(q)
    <3>1. Handles("algorithm.packet", q) /\ "algorithm.packet" \in ChainKinds
      BY <2>2 DEF ShaperSendPacket, ChainKinds, PacketKinds
    <3>2. packetRequestedFromInputs' = packetRequestedFromInputs
      BY <2>2 DEF ShaperSendPacket, Fail, tsVars
    <3>. QED
      BY <3>1, <3>2, ChainIsAwaited
  <2>3. CASE EndSpendingCredit(q) \/ ZeroCreditReached(q)
    BY <2>3, ShaperOffers
  <2>. QED
    BY <1>3, <2>1, <2>2, <2>3 DEF HandleShaper
<1>4. CASE EndTx \/ EndIFG
  <2>1. /\ UNCHANGED <<gateVars, queue, shaper>> /\ messages' = messages
        /\ packetRequestedFromInputs' = packetRequestedFromInputs
        /\ tsMessages' \in {tsMessages, Reschedule(tsMessages, "requestPacket")}
    BY <1>4 DEF EndTx, EndIFG, messageVars, tsVars
  <2>2. Range(Reschedule(tsMessages, "requestPacket")) = Range(tsMessages) \cup {"requestPacket"}
    <3>1. tsMessages \in Seq(OwnKinds) /\ IsInjective(tsMessages) /\ "requestPacket" \in OwnKinds
      BY <1>1 DEF PortTypes, OwnKinds
    <3>. QED
      BY <3>1, RescheduleIs
  <2>3. Range(messages) \subseteq Range(messages') /\ Range(tsMessages) \subseteq Range(tsMessages')
    BY <2>1, <2>2
  <2>. QED
    BY <2>1, <2>3, NoticedStill
<1>5. CASE UpdateSchedule
  BY <1>5, UpdateIsNoticed
<1>6. CASE Tick
  BY <1>6, TickIsNoticed
<1>7. CASE TSRequestPacket \/ TSPacketEnqueued
  BY <1>7, SelectionWaits
<1>8. CASE Elapse
  BY <1>8, ElapseIsNoticed
<1>9. ASSUME NEW q \in Queues, NEW length \in Lengths, CarefulArrive(q, length)
      PROVE  WorkInv'
  BY <1>9, ArrivalIsNoticed DEF CarefulArrive
<1>. QED
  BY <1>2, <1>3, <1>4, <1>5, <1>6, <1>7, <1>8, <1>9 DEF CarefulNext, Kernel

-----------------------------------------------------------------------------
\* The conditional results

LEMMA InitIsCareful == Init => CarefulInv
<1>. SUFFICES ASSUME Init PROVE CarefulInv
  OBVIOUS
<1>1. /\ queue = [q \in Queues |-> <<>>] /\ shaper = [q \in ShapedQueues |-> Idle(0)]
      /\ messages = <<>> /\ tick = 0 /\ ~packetRequestedFromInputs /\ failed = FALSE
  BY DEF Init
<1>2. Range(messages) = {}
  BY <1>1, OnlyMessage
<1>3. ShaperInv
  <2>. SUFFICES ASSUME NEW q \in ShapedQueues PROVE Watches(q)
    BY DEF ShaperInv
  <2>1. /\ shaper[q].state = "kIdle" /\ shaper[q].credit = 0 /\ queue[q] = <<>>
    BY <1>1, QueuingAssumption DEF Idle
  <2>2. ~Earns(q) /\ ~Spends(q) /\ ~InDebt(q) /\ ~IsPacketReadyForTransmission(q)
    BY <2>1 DEF Earns, Spends, InDebt, IsPacketReadyForTransmission, QueueIsEmpty
  <2>. QED
    BY <1>2, <2>2 DEF Watches, EarnsWithCause, IdlesWithCause, SpendsInDebt, HearsInTime, Pending, FrameWaits
<1>4. OrderInv /\ ListInv /\ WorkInv
  BY <1>1 DEF OrderInv, ListInv, WorkInv
<1>5. BufferInv
  <2>1. <<>> \in Seq(Nat) /\ Len(<<>>) = 0
    OBVIOUS
  <2>2. PICK f : Sums(f, <<>>)
    BY <2>1, SumsExist
  <2>3. UsedOf(<<>>) = 0
    BY <2>1, <2>2, SumsAreUsed DEF Sums
  <2>. QED
    BY <1>1, <2>3, BufferUsedIs, QueuingAssumption DEF BufferInv
<1>. QED
  BY <1>1, <1>3, <1>4, <1>5 DEF CarefulInv

\* One step, with the invariant of the port before and after it.
LEMMA NextIsCareful ==
  ASSUME FramesFit, PortInv, PortInv', CarefulInv, PaysForOneFrame, [CarefulNext]_vars
  PROVE  CarefulInv'
<1>1. ShaperInv /\ OrderInv /\ ListInv /\ WorkInv /\ BufferInv /\ failed = FALSE
  BY DEF CarefulInv
<1>2. CASE CarefulNext
  <2>1. ShaperInv' /\ failed' = failed
    BY <1>1, <1>2, NextKeepsWatch
  <2>2. OrderInv' /\ ListInv' /\ BufferInv'
    BY <1>1, <1>2, NextInOrder, NextInList, NextInBuffer
  <2>3. WorkInv'
    BY <1>1, <1>2, NextIsNoticed
  <2>. QED
    BY <1>1, <2>1, <2>2, <2>3 DEF CarefulInv
<1>3. CASE UNCHANGED vars
  <2>1. /\ UNCHANGED <<gateVars, queue, shaper>> /\ messages' = messages /\ tsMessages' = tsMessages
        /\ packetRequestedFromInputs' = packetRequestedFromInputs /\ failed' = failed
        /\ gateOpen' = gateOpen /\ entry' = entry /\ tick' = tick
    BY <1>3 DEF vars, gateVars, tsVars, messageVars
  <2>2. ShaperInv'
    BY <1>1, <2>1, QuietStep
  <2>3. WorkInv'
    BY <1>1, <2>1, NoticedStill
  <2>4. OrderInv' /\ ListInv'
    BY <1>1, <2>1 DEF OrderInv, ListInv
  <2>5. BufferInv'
    BY <1>1, <2>1, BufferUsedIs, BufferUsedIsNext DEF BufferInv
  <2>. QED
    BY <1>1, <2>1, <2>2, <2>3, <2>4, <2>5 DEF CarefulInv
<1>. QED
  BY <1>2, <1>3

LEMMA CarefulAlways ==
  ASSUME FramesFit
  PROVE  CarefulSpec /\ []PaysForOneFrame => []CarefulInv
<1>1. FramesFit /\ PortInv /\ PortInv' /\ CarefulInv /\ PaysForOneFrame /\ [CarefulNext]_vars => CarefulInv'
  BY NextIsCareful
<1>2. FramesFit
  OBVIOUS
<1>3. PortInv /\ PortInv' /\ CarefulInv /\ PaysForOneFrame /\ [CarefulNext]_vars => CarefulInv'
  BY <1>1, <1>2
<1>. QED
  BY <1>3, InitIsCareful, PortInvAlways, CarefulIsSpec, PTL DEF CarefulSpec

\* The modules of the pipeline keep their types and none of their assertions fails,
\* whatever the schedule is and whenever frames arrive, except that none may arrive
\* for a shaper between a tick and the change of its gate (CarefulSpec): a promise
\* made to a request holds until the frame is at the MAC
\* (TransmissionGate::handleRequestPacketEvent,
\* CreditBasedShaper::handleSendPacketEvent).  Every frame has to fit in an MTU and
\* in the buffer, and no credit may pay for two frames.
THEOREM NoAssertionFails ==
  ASSUME FramesFit
  PROVE  CarefulSpec /\ []PaysForOneFrame => []AssertionsHold
<1>1. PortInv /\ CarefulInv => AssertionsHold
  <2>. SUFFICES ASSUME PortInv, CarefulInv PROVE AssertionsHold
    OBVIOUS
  <2>1. PortTypes /\ BufferInv /\ failed = FALSE
    BY DEF PortInv, CarefulInv
  <2>2. \A q \in ShapedQueues :
          /\ shaper[q].state \in {"kIdle", "kEarnCredit", "kSpendCredit"}
          /\ shaper[q].credit \in Int
          /\ {shaper[q].age, shaper[q].timer} \subseteq Nat \cup {Never}
    BY <2>1 DEF PortTypes, ShaperStates, Ticks
  <2>3. \A i \in 1 .. Len(messages) : messages[i].class \in Queues \cup {None}
    <3>1. \A m \in Events : m.class \in Queues \cup {None}
      <4>1. Update.class = None
        BY DEF Update, Message
      <4>2. \A m \in Notices \ {Update} : m.class \in Queues
        BY QueuingAssumption DEF Notices
      <4>3. \A m \in Chains : m.class \in Queues
        BY DEF Chains
      <4>. QED
        BY <4>1, <4>2, <4>3 DEF Events
    <3>. QED
      BY <2>1, <3>1 DEF PortTypes, Events
  <2>4. {packetRequestedFromUs, packetRequestedFromInputs, failed} \subseteq BOOLEAN
    BY <2>1 DEF PortTypes
  <2>5. TypeOK
    BY <2>1, <2>2, <2>3, <2>4 DEF TypeOK, PortTypes, BufferInv, Ticks, OwnKinds
  <2>. QED
    BY <2>1, <2>5 DEF AssertionsHold
<1>. QED
  BY <1>1, PortInvAlways, CarefulIsSpec, CarefulAlways, PTL

\* The MAC is never idle between two instants while a frame could be sent: of an
\* arrival (LengthAwareQueue::enqueue), a gate that opens
\* (TransmissionGate::handleGateStateChangedEvent) and a debt that is paid
\* (CreditBasedShaper::handleZeroCreditReachedEvent) the transmission selection hears.
\* Arrivals are those of CarefulSpec.
THEOREM NoFrameIsForgotten ==
  ASSUME FramesFit
  PROVE  CarefulSpec /\ []PaysForOneFrame => []WorkConserving
<1>1. PortInv /\ CarefulInv => WorkConserving
  <2>. SUFFICES ASSUME PortInv, CarefulInv, Settled, transmitState = "TX_IDLE_STATE"
                PROVE  Ready = {}
    BY DEF WorkConserving
  <2>1. Range(messages) = {} /\ Range(tsMessages) = {}
    BY OnlyMessage DEF Settled
  <2>2. packetRequestedFromInputs
    BY <2>1 DEF PortInv, RequestInv
  <2>3. \A q \in Ready : Noticed(q)
    BY <2>2 DEF CarefulInv, WorkInv
  <2>. QED
    BY <2>1, <2>3 DEF Noticed, Pending
<1>. QED
  BY <1>1, PortInvAlways, CarefulIsSpec, CarefulAlways, PTL

\* A shaper whose gate is open is on its way to its next frame (CreditBasedShaper):
\* idle only without debt and without a frame, in debt with a timer for the time it
\* is paid, and else with a frame to send.  Arrivals are those of CarefulSpec.
THEOREM ShapersKeepWatch ==
  ASSUME FramesFit
  PROVE  CarefulSpec /\ []PaysForOneFrame => []ShaperKeepsWatch
<1>1. PortInv /\ CarefulInv => ShaperKeepsWatch
  <2>. SUFFICES ASSUME PortInv, CarefulInv, Settled, NEW q \in ShapedQueues, q \in gateOpen
                PROVE  /\ IsIdle(q) => ~InDebt(q) /\ ~IsPacketReadyForTransmission(q)
                       /\ Spends(q) => shaper[q].timer # Never
                       /\ Earns(q) /\ InDebt(q) => shaper[q].credit + shaper[q].age + shaper[q].timer = 0
                       /\ Earns(q) /\ ~InDebt(q) => IsPacketReadyForTransmission(q)
    BY DEF ShaperKeepsWatch, IsIdle, Spends, Earns
  <2>1. Range(messages) = {}
    BY OnlyMessage DEF Settled
  <2>2. Watches(q)
    BY DEF CarefulInv, ShaperInv
  <2>3. (\A what : ~Pending(what, q)) /\ ~Changing(q) /\ ~FrameWaits(q)
    BY <2>1 DEF Pending, Changing, FrameWaits
  <2>4. /\ InDebt(q) <=> shaper[q].credit < 0
        /\ ~InDebt(q) => shaper[q].credit >= 0
    BY ShaperIs
  <2>. QED
    BY <2>2, <2>3, <2>4 DEF Watches, EarnsWithCause, IdlesWithCause, SpendsInDebt
<1>. QED
  BY <1>1, PortInvAlways, CarefulIsSpec, CarefulAlways, PTL
=============================================================================
