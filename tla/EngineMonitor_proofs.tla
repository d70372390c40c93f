------------------------ MODULE EngineMonitor_proofs ------------------------
(***************************************************************************)
(* For every length of the filter, table of amplifiers, scene and request: *)
(* the filter follows the samples, a confirmed write is in the EEPROM, the *)
(* amplifiers run with the offsets of the last start, and what the         *)
(* receiver shows is of one pass.                                          *)
(***************************************************************************)
EXTENDS EngineMonitor, FiniteSetTheorems, WellFoundedInduction, SequenceTheorems, TLAPS

----------------------------------------------------------------------------
(***************************************************************************)
(* Induction on a set of numbers, and sums by it.                          *)
(***************************************************************************)

\* The intervals 0 .. n of the numbers not in T have a smallest one, whose end would follow a
\* number of T.
LEMMA ReachesAll ==
  ASSUME NEW T \in SUBSET Nat, 0 \in T, \A n \in T : n + 1 \in T
  PROVE  T = Nat
<1> SUFFICES ASSUME Nat \ T # {}
             PROVE  FALSE
  OBVIOUS
<1> DEFINE U == {0 .. n : n \in Nat \ T}
<1>1. IsWellFoundedOn(StrictSubsetOrdering(Nat), FiniteSubsetsOf(Nat))
  BY FS_StrictSubsetOrderingWellFounded
<1>2. U \subseteq FiniteSubsetsOf(Nat)
  <2>1. ASSUME NEW n \in Nat PROVE 0 .. n \in FiniteSubsetsOf(Nat)
    <3>1. IsFiniteSet(0 .. n) /\ 0 .. n \subseteq Nat
      BY FS_Interval
    <3>2. QED
      BY <3>1 DEF FiniteSubsetsOf
  <2>2. QED
    BY <2>1
<1>3. \E x \in U : \A y \in U : ~ (<<y, x>> \in StrictSubsetOrdering(Nat))
  <2>1. U # {}
    OBVIOUS
  <2> HIDE DEF U
  <2>2. QED
    BY <1>1, <1>2, <2>1, WFMin
<1>4. PICK n \in Nat \ T : \A m \in Nat \ T : ~ (<<0 .. m, 0 .. n>> \in StrictSubsetOrdering(Nat))
  BY <1>3
<1>5. n - 1 \in Nat \ T /\ n - 1 < n
  OBVIOUS
<1>6. <<0 .. n - 1, 0 .. n>> \in StrictSubsetOrdering(Nat)
  <2>1. 0 .. n - 1 \in SUBSET (0 .. n)
    BY <1>5
  <2>2. n \in 0 .. n /\ n \notin 0 .. n - 1
    OBVIOUS
  <2>3. 0 .. n - 1 # 0 .. n
    BY <2>2
  <2>4. 0 .. n - 1 \in SUBSET Nat /\ 0 .. n \in SUBSET Nat
    OBVIOUS
  <2>5. QED
    BY <2>1, <2>3, <2>4 DEF StrictSubsetOrdering
<1>7. QED
  BY <1>4, <1>5, <1>6

\* s adds up n values of f from first on.
AddsUp(s, f, first, n) ==
  s = [k \in 0..n |-> IF k = 0 THEN 0 ELSE s[k - 1] + f[first + k - 1]]

LEMMA SumExists ==
  ASSUME NEW f, NEW first \in Int
  PROVE  \A n \in Nat : \E s : AddsUp(s, f, first, n)
<1> DEFINE T == {n \in Nat : \E s : AddsUp(s, f, first, n)}
<1>1. 0 \in T
  <2> DEFINE s == [k \in 0..0 |-> 0]
  <2>1. AddsUp(s, f, first, 0)
    BY DEF AddsUp
  <2>2. QED
    BY <2>1
<1>2. ASSUME NEW n \in T
      PROVE  n + 1 \in T
  <2>1. PICK r : AddsUp(r, f, first, n)
    OBVIOUS
  <2> DEFINE s == [k \in 0..(n + 1) |-> IF k <= n THEN r[k] ELSE r[n] + f[first + (n + 1) - 1]]
  <2>2. \A k \in 0..n : r[k] = IF k = 0 THEN 0 ELSE r[k - 1] + f[first + k - 1]
    BY <2>1 DEF AddsUp
  <2>3. \A k \in 0..n : s[k] = r[k]
    OBVIOUS
  <2>4. s[n + 1] = r[n] + f[first + (n + 1) - 1] /\ s = [k \in 0..(n + 1) |-> s[k]]
    OBVIOUS
  <2> HIDE DEF s
  <2>5. \A k \in 0..(n + 1) : s[k] = IF k = 0 THEN 0 ELSE s[k - 1] + f[first + k - 1]
    <3> TAKE k \in 0..(n + 1)
    <3>1. CASE k = n + 1
      <4>1. k # 0 /\ k - 1 = n /\ n \in 0..n
        BY <3>1
      <4>2. QED
        BY <2>3, <2>4, <3>1, <4>1
    <3>2. CASE k \in 1..n
      <4>1. k # 0 /\ k \in 0..n /\ k - 1 \in 0..n
        BY <3>2
      <4>2. QED
        BY <2>2, <2>3, <4>1
    <3>3. CASE k = 0
      <4>1. 0 \in 0..n
        OBVIOUS
      <4>2. QED
        BY <2>2, <2>3, <3>3, <4>1
    <3>4. QED
      BY <3>1, <3>2, <3>3
  <2>6. AddsUp(s, f, first, n + 1)
    BY <2>4, <2>5 DEF AddsUp
  <2>7. QED
    BY <2>6
<1> HIDE DEF T
<1>3. T = Nat
  BY <1>1, <1>2, ReachesAll DEF T
<1>4. QED
  BY <1>3 DEF T

\* Two sums of the same values agree as far as both go.
LEMMA SumsAgree ==
  ASSUME NEW f, NEW first \in Int, NEW n \in Nat, NEW m \in Nat, NEW r, NEW s,
         AddsUp(r, f, first, n), AddsUp(s, f, first, m)
  PROVE  \A k \in 0..n : k <= m => r[k] = s[k]
<1> DEFINE T == {k \in Nat : k <= n /\ k <= m => r[k] = s[k]}
<1>1. 0 \in T
  BY DEF AddsUp
<1>2. ASSUME NEW k \in T
      PROVE  k + 1 \in T
  <2> SUFFICES ASSUME k + 1 <= n, k + 1 <= m
               PROVE  r[k + 1] = s[k + 1]
    OBVIOUS
  <2>1. r[k] = s[k]
    OBVIOUS
  <2>2. r[k + 1] = r[k] + f[first + (k + 1) - 1]
    BY DEF AddsUp
  <2>3. s[k + 1] = s[k] + f[first + (k + 1) - 1]
    BY DEF AddsUp
  <2>4. QED
    BY <2>1, <2>2, <2>3
<1> HIDE DEF T
<1>3. T = Nat
  BY <1>1, <1>2, ReachesAll DEF T
<1>4. QED
  BY <1>3 DEF T

LEMMA TotalSteps ==
  ASSUME NEW f, NEW first \in Int
  PROVE  /\ Total(f, first, 0) = 0
         /\ \A n \in Nat : Total(f, first, n + 1) = Total(f, first, n) + f[first + n]
<1> DEFINE sum(n) == CHOOSE s : AddsUp(s, f, first, n)
<1>1. \A n \in Nat : AddsUp(sum(n), f, first, n)
  BY SumExists
<1>2. \A n \in Nat : Total(f, first, n) = sum(n)[n]
  BY DEF Total, AddsUp
<1> HIDE DEF sum
<1>3. Total(f, first, 0) = 0
  <2>1. AddsUp(sum(0), f, first, 0) /\ Total(f, first, 0) = sum(0)[0]
    BY <1>1, <1>2
  <2>2. QED
    BY <2>1 DEF AddsUp
<1>4. ASSUME NEW n \in Nat
      PROVE  Total(f, first, n + 1) = Total(f, first, n) + f[first + n]
  <2>1. AddsUp(sum(n), f, first, n) /\ AddsUp(sum(n + 1), f, first, n + 1)
    BY <1>1
  <2>2. Total(f, first, n) = sum(n)[n] /\ Total(f, first, n + 1) = sum(n + 1)[n + 1]
    BY <1>2
  <2>3. sum(n)[n] = sum(n + 1)[n]
    <3>1. \A k \in 0..n : k <= n + 1 => sum(n)[k] = sum(n + 1)[k]
      BY <2>1, SumsAgree, n + 1 \in Nat
    <3>2. QED
      BY <3>1
  <2>4. sum(n + 1)[n + 1] = sum(n + 1)[n] + f[first + n]
    BY <2>1 DEF AddsUp
  <2>5. QED
    BY <2>2, <2>3, <2>4
<1>5. QED
  BY <1>3, <1>4

LEMMA TotalStep ==
  ASSUME NEW f, NEW first \in Int, NEW n \in Nat
  PROVE  Total(f, first, n + 1) = Total(f, first, n) + f[first + n]
BY TotalSteps

\* The n values of f from first on are numbers.
Numbers(f, first, n) == \A k \in 0..(n - 1) : f[first + k] \in Int

\* A sum of values within bounds: of numbers it is one, of numbers not below c (below c) it is
\* not below (is below) as many times c.
LEMMA TotalBounds ==
  ASSUME NEW f, NEW first \in Int, NEW n \in Nat, Numbers(f, first, n)
  PROVE  /\ Total(f, first, n) \in Int
         /\ \A c \in Int : (\A k \in 0..(n - 1) : f[first + k] >= c) => Total(f, first, n) >= c * n
         /\ \A c \in Int : n > 0 /\ (\A k \in 0..(n - 1) : f[first + k] < c)
                              => Total(f, first, n) < c * n
<1> DEFINE total(k) == Total(f, first, k)
           T == {k \in Nat : k <= n => total(k) \in Int}
<1>0. total(0) = 0 /\ \A k \in Nat : total(k + 1) = total(k) + f[first + k]
  BY TotalSteps
<1> HIDE DEF total
<1> USE DEF Numbers
<1>1. T = Nat
  <2>1. 0 \in T
    BY <1>0
  <2>2. ASSUME NEW k \in T PROVE k + 1 \in T
    BY <1>0
  <2> HIDE DEF T
  <2>3. QED
    BY <2>1, <2>2, ReachesAll DEF T
<1>2. \A k \in 0..n : total(k) \in Int
  BY <1>1
<1>3. ASSUME NEW c \in Int, \A k \in 0..(n - 1) : f[first + k] >= c
      PROVE  total(n) >= c * n
  <2> DEFINE S == {k \in Nat : k <= n => total(k) >= c * k}
  <2>1. 0 \in S
    BY <1>0
  <2>2. ASSUME NEW k \in S PROVE k + 1 \in S
    <3> SUFFICES ASSUME k + 1 <= n
                 PROVE  total(k + 1) >= c * (k + 1)
      OBVIOUS
    <3>1. /\ total(k) >= c * k /\ total(k) \in Int /\ f[first + k] \in Int /\ f[first + k] >= c
          /\ c * k \in Int /\ c * (k + 1) = c * k + c
      BY <1>2, <1>3
    <3>2. QED
      BY <1>0, <3>1
  <2> HIDE DEF S
  <2>3. S = Nat
    BY <2>1, <2>2, ReachesAll DEF S
  <2>4. QED
    BY <2>3 DEF S
<1>4. ASSUME NEW c \in Int, n > 0, \A k \in 0..(n - 1) : f[first + k] < c
      PROVE  total(n) < c * n
  <2> DEFINE S == {k \in Nat : k <= n /\ k > 0 => total(k) < c * k}
  <2>1. 0 \in S
    OBVIOUS
  <2>2. ASSUME NEW k \in S PROVE k + 1 \in S
    <3> SUFFICES ASSUME k + 1 <= n
                 PROVE  total(k + 1) < c * (k + 1)
      OBVIOUS
    <3>1. /\ total(k) <= c * k /\ total(k) \in Int /\ f[first + k] \in Int /\ f[first + k] < c
          /\ c * k \in Int /\ c * (k + 1) = c * k + c
      BY <1>0, <1>2, <1>4
    <3>2. QED
      BY <1>0, <3>1
  <2> HIDE DEF S
  <2>3. S = Nat
    BY <2>1, <2>2, ReachesAll DEF S
  <2>4. QED
    BY <1>4, <2>3 DEF S
<1>5. QED
  BY <1>2, <1>3, <1>4 DEF total

\* Sums of the same values, of all but the first value, and with one value put in another's place.
LEMMA TotalSame ==
  ASSUME NEW f, NEW g, NEW first \in Int, NEW other \in Int, NEW n \in Nat,
         \A k \in 0..(n - 1) : f[first + k] = g[other + k]
  PROVE  Total(f, first, n) = Total(g, other, n)
<1> DEFINE T == {k \in Nat : k <= n => Total(f, first, k) = Total(g, other, k)}
<1>1. 0 \in T
  BY TotalSteps
<1>2. ASSUME NEW k \in T PROVE k + 1 \in T
  <2>1. Total(f, first, k + 1) = Total(f, first, k) + f[first + k]
    BY TotalSteps
  <2>2. Total(g, other, k + 1) = Total(g, other, k) + g[other + k]
    BY TotalSteps
  <2>3. QED
    BY <2>1, <2>2
<1> HIDE DEF T
<1>3. T = Nat
  BY <1>1, <1>2, ReachesAll DEF T
<1>4. QED
  BY <1>3 DEF T

LEMMA TotalTail ==
  ASSUME NEW f, NEW first \in Int, NEW n \in Nat, Numbers(f, first, n + 1)
  PROVE  Total(f, first + 1, n) = Total(f, first, n + 1) - f[first]
<1> DEFINE T == {k \in Nat : k <= n => Total(f, first + 1, k) = Total(f, first, k + 1) - f[first]}
<1>0. ASSUME NEW k \in 0..(n + 1)
      PROVE  Total(f, first, k) \in Int
  <2>1. Numbers(f, first, k)
    BY DEF Numbers
  <2>2. QED
    BY <2>1, TotalBounds
<1>1. 0 \in T
  <2>1. Total(f, first + 1, 0) = 0
    BY TotalSteps
  <2>2. Total(f, first, 0 + 1) = Total(f, first, 0) + f[first + 0] /\ Total(f, first, 0) = 0
    BY TotalSteps
  <2>3. first + 0 = first /\ 0 \in 0..n
    OBVIOUS
  <2>4. f[first] \in Int
    BY <2>3 DEF Numbers
  <2>5. QED
    BY <2>1, <2>2, <2>3, <2>4
<1>2. ASSUME NEW k \in T PROVE k + 1 \in T
  <2> SUFFICES ASSUME k + 1 <= n
               PROVE  Total(f, first + 1, k + 1) = Total(f, first, (k + 1) + 1) - f[first]
    OBVIOUS
  <2>1. Total(f, first + 1, k + 1) = Total(f, first + 1, k) + f[(first + 1) + k]
    BY TotalSteps, first + 1 \in Int
  <2>2. Total(f, first, (k + 1) + 1) = Total(f, first, k + 1) + f[first + (k + 1)]
    BY TotalSteps, k + 1 \in Nat
  <2>3. /\ Total(f, first + 1, k) = Total(f, first, k + 1) - f[first]
        /\ (first + 1) + k = first + (k + 1) /\ first + 0 = first
        /\ 0 \in 0..n /\ k + 1 \in 0..n /\ k + 1 \in 0..(n + 1)
    OBVIOUS
  <2>4. Total(f, first, k + 1) \in Int /\ f[first] \in Int /\ f[first + (k + 1)] \in Int
    BY <1>0, <2>3 DEF Numbers
  <2>5. QED
    BY <2>1, <2>2, <2>3, <2>4
<1> HIDE DEF T
<1>3. T = Nat
  BY <1>1, <1>2, ReachesAll DEF T
<1>4. QED
  BY <1>3 DEF T

LEMMA TotalReplaced ==
  ASSUME NEW f, NEW g, NEW first \in Int, NEW n \in Nat, NEW j \in 0..(n - 1),
         Numbers(f, first, n), g[first + j] \in Int,
         \A k \in 0..(n - 1) : k # j => g[first + k] = f[first + k]
  PROVE  Total(g, first, n) = Total(f, first, n) - f[first + j] + g[first + j]
<1> DEFINE T == {k \in Nat : k <= n => Total(g, first, k) = IF k <= j THEN Total(f, first, k)
                                       ELSE Total(f, first, k) - f[first + j] + g[first + j]}
<1>0. ASSUME NEW k \in 0..n
      PROVE  Total(f, first, k) \in Int
  <2>1. Numbers(f, first, k)
    BY DEF Numbers
  <2>2. QED
    BY <2>1, TotalBounds
<1>1. 0 \in T
  BY TotalSteps
<1>2. ASSUME NEW k \in T PROVE k + 1 \in T
  <2> SUFFICES ASSUME k + 1 <= n
               PROVE  Total(g, first, k + 1) = IF k + 1 <= j THEN Total(f, first, k + 1)
                        ELSE Total(f, first, k + 1) - f[first + j] + g[first + j]
    OBVIOUS
  <2>1. /\ Total(g, first, k + 1) = Total(g, first, k) + g[first + k]
        /\ Total(f, first, k + 1) = Total(f, first, k) + f[first + k]
    BY TotalSteps
  <2>2. /\ Total(f, first, k) \in Int /\ f[first + k] \in Int /\ f[first + j] \in Int
        /\ g[first + j] \in Int
    BY <1>0 DEF Numbers
  <2>3. Total(g, first, k) = IF k <= j THEN Total(f, first, k)
                             ELSE Total(f, first, k) - f[first + j] + g[first + j]
    OBVIOUS
  <2>4. g[first + k] = IF k = j THEN g[first + j] ELSE f[first + k]
    OBVIOUS
  <2>5. QED
    BY <2>1, <2>2, <2>3, <2>4
<1> HIDE DEF T
<1>3. T = Nat
  BY <1>1, <1>2, ReachesAll DEF T
<1>4. QED
  BY <1>3 DEF T

----------------------------------------------------------------------------
(***************************************************************************)
(* The filter of the oil pressure.                                         *)
(***************************************************************************)
LEMMA ModSmall ==
  ASSUME NEW n \in Nat \ {0}, NEW x \in 0 .. n - 1
  PROVE  x % n = x
OBVIOUS

LEMMA ModMinus ==
  ASSUME NEW n \in Nat \ {0}, NEW x \in -n .. -1
  PROVE  x % n = x + n
OBVIOUS

LEMMA ModSelf ==
  ASSUME NEW n \in Nat \ {0}
  PROVE  n % n = 0
OBVIOUS

\* The slot k places behind i, and the one after it.
Behind(i, k) == (i - k) % FILTER_SAMPLES
After(i)     == (i + 1) % FILTER_SAMPLES

LEMMA BehindIs ==
  ASSUME NEW i \in Slots, NEW k \in 1..FILTER_SAMPLES
  PROVE  /\ Behind(i, k) \in Slots
         /\ Behind(i, k) = IF k <= i THEN i - k ELSE i - k + FILTER_SAMPLES
<1> USE FilterAssumption DEF FilterAssumption, Slots, Behind
<1>1. CASE k <= i
  <2>1. i - k \in 0..(FILTER_SAMPLES - 1)
    BY <1>1
  <2>2. QED
    BY <1>1, <2>1, ModSmall
<1>2. CASE k > i
  <2>1. i - k \in -FILTER_SAMPLES .. -1
    BY <1>2
  <2>2. QED
    BY <1>2, <2>1, ModMinus
<1>3. QED
  BY <1>1, <1>2

LEMMA AfterIs ==
  ASSUME NEW i \in Slots
  PROVE  /\ After(i) \in Slots
         /\ After(i) = IF i + 1 = FILTER_SAMPLES THEN 0 ELSE i + 1
<1> USE FilterAssumption DEF FilterAssumption, Slots, After
<1>1. CASE i + 1 = FILTER_SAMPLES
  BY <1>1, ModSelf
<1>2. CASE i + 1 # FILTER_SAMPLES
  <2>1. i + 1 \in 0..(FILTER_SAMPLES - 1)
    BY <1>2
  <2>2. QED
    BY <1>2, <2>1, ModSmall
<1>3. QED
  BY <1>1, <1>2

LEMMA BehindAfter ==
  ASSUME NEW i \in Slots
  PROVE  /\ Behind(After(i), 1) = i /\ Behind(i, FILTER_SAMPLES) = i
         /\ \A k \in 1..(FILTER_SAMPLES - 1) : /\ Behind(After(i), k + 1) = Behind(i, k)
                                               /\ Behind(i, k) # i
<1> USE FilterAssumption DEF FilterAssumption, Slots
<1>1. After(i) \in Slots /\ After(i) = IF i + 1 = FILTER_SAMPLES THEN 0 ELSE i + 1
  BY AfterIs
<1>2. 1 \in 1..FILTER_SAMPLES /\ FILTER_SAMPLES \in 1..FILTER_SAMPLES
  OBVIOUS
<1>3. Behind(After(i), 1) = i /\ Behind(i, FILTER_SAMPLES) = i
  BY <1>1, <1>2, BehindIs
<1>4. ASSUME NEW k \in 1..(FILTER_SAMPLES - 1)
      PROVE  Behind(After(i), k + 1) = Behind(i, k) /\ Behind(i, k) # i
  <2>1. k \in 1..FILTER_SAMPLES /\ k + 1 \in 1..FILTER_SAMPLES
    OBVIOUS
  <2>2. Behind(i, k) = IF k <= i THEN i - k ELSE i - k + FILTER_SAMPLES
    BY <2>1, BehindIs
  <2>3. Behind(After(i), k + 1) = IF k + 1 <= After(i) THEN After(i) - (k + 1)
                                  ELSE After(i) - (k + 1) + FILTER_SAMPLES
    BY <1>1, <2>1, BehindIs
  <2>4. QED
    BY <1>1, <2>2, <2>3
<1>5. QED
  BY <1>3, <1>4

Pressures == 0..PRESSURE_MAX
OilTypeOK ==
  /\ oilInit \in BOOLEAN /\ oilStatus \in Statuses /\ recent \in Seq(Pressures)
  /\ buffer \in [Slots -> Pressures] /\ bufferIndex \in Slots /\ bufferFilled \in BOOLEAN

\* The ring adds up to what the pressures of the history do.
RingAddsUp == Total(buffer, 0, InUse) = Total(recent, 1, Len(recent))
\* Before the first pressure the average is that of one pressure of nothing.
FirstAverage == recent = <<>> => average = [sum |-> 0, n |-> 1]

OilInv == /\ OilTypeOK /\ RingHoldsRecent /\ RingAddsUp /\ FirstAverage /\ AverageIsOfSamples
          /\ WarningIsOfSamples

LEMMA PressuresAreNumbers == Pressures \subseteq Nat /\ \A p \in Pressures : p \in Int /\ p < 1001
BY DEF Pressures, PRESSURE_MAX

LEMMA PressureType ==
  ASSUME NEW m \in Measurements, CircuitFault(m) = "OK"
  PROVE  currentToPressure(m.current, m.voltage) \in Pressures
<1>1. m.current \in Nat /\ m.voltage \in Nat
  BY MeasurementAssumption DEF MeasurementAssumption
<1>2. m.current > 0
  BY <1>1 DEF CircuitFault, CURRENT_MIN_VALID
<1> DEFINE sensor == (10000 * m.voltage) \div m.current - 1001
           r == IF sensor < 100 THEN 100 ELSE IF sensor > 1840 THEN 1840 ELSE sensor
<1>3. sensor \in Int
  BY <1>1, <1>2
<1> HIDE DEF sensor
<1>4. r \in 100..1840
  BY <1>3
<1>5. currentToPressure(m.current, m.voltage) = ((r - 100) * PRESSURE_MAX) \div 1740
  BY DEF currentToPressure, sensor
<1> HIDE DEF r
<1>6. ((r - 100) * 1000) \div 1740 \in 0..1000
  BY <1>4
<1>7. QED
  BY <1>5, <1>6 DEF Pressures, PRESSURE_MAX

\* What a pressure accepted does to the history.
LEMMA Remembered ==
  ASSUME OilTypeOK, RingHoldsRecent, NEW p \in Pressures, Remember(p)
  PROVE  /\ recent' \in Seq(Pressures)
         /\ Len(recent) \in 0..FILTER_SAMPLES
         /\ Len(recent') = IF Len(recent) < FILTER_SAMPLES THEN Len(recent) + 1 ELSE FILTER_SAMPLES
         /\ recent'[Len(recent')] = p /\ Len(recent') >= 1
         /\ \A k \in 1..(Len(recent') - 1) :
              recent'[k] = IF Len(recent) < FILTER_SAMPLES THEN recent[k] ELSE recent[k + 1]
<1>1. Len(recent) \in 0..FILTER_SAMPLES
  BY FilterAssumption DEF FilterAssumption, OilTypeOK, RingHoldsRecent, InUse, Slots
<1>2. CASE Len(recent) < FILTER_SAMPLES
  <2>1. recent' = Append(recent, p)
    BY <1>2 DEF Remember
  <2>2. QED
    BY <1>1, <1>2, <2>1, AppendProperties DEF OilTypeOK
<1>3. CASE Len(recent) = FILTER_SAMPLES
  <2>1. recent' = Append(Tail(recent), p)
    BY <1>3, FilterAssumption DEF Remember, FilterAssumption
  <2>2. recent # <<>> /\ recent \in Seq(Pressures)
    BY <1>3, FilterAssumption DEF FilterAssumption, OilTypeOK
  <2>3. /\ Tail(recent) \in Seq(Pressures) /\ Len(Tail(recent)) = Len(recent) - 1
        /\ \A k \in 1..(Len(recent) - 1) : Tail(recent)[k] = recent[k + 1]
    BY <2>2, HeadTailProperties
  <2>4. QED
    BY <1>1, <1>3, <2>1, <2>3, AppendProperties, FilterAssumption DEF FilterAssumption
<1>4. QED
  BY <1>1, <1>2, <1>3, FilterAssumption DEF FilterAssumption

\* A pressure accepted goes to the slot the index is at, in the ring as in the history.
LEMMA Filtered ==
  ASSUME OilInv, NEW p \in Pressures, applyFilter(p), Remember(p)
  PROVE  /\ bufferIndex' = After(bufferIndex) /\ bufferIndex' \in Slots
         /\ bufferFilled' \in BOOLEAN /\ buffer' \in [Slots -> Pressures]
         /\ Len(recent') = InUse' /\ RingHoldsRecent'
<1> USE FilterAssumption DEF FilterAssumption
<1>1. /\ bufferIndex \in Slots /\ bufferFilled \in BOOLEAN /\ buffer \in [Slots -> Pressures]
      /\ buffer' = [buffer EXCEPT ![bufferIndex] = p]
      /\ bufferFilled' = (bufferFilled \/ bufferIndex' = 0)
  BY DEF OilInv, OilTypeOK, applyFilter
<1>2. bufferIndex' = After(bufferIndex)
  BY DEF applyFilter, After
<1>3. bufferIndex' \in Slots
  BY <1>1, <1>2, AfterIs
<1>4. bufferIndex' = IF bufferIndex + 1 = FILTER_SAMPLES THEN 0 ELSE bufferIndex + 1
  BY <1>1, <1>2, AfterIs
<1>5. buffer' \in [Slots -> Pressures]
  BY <1>1
<1>6. /\ Len(recent) \in 0..FILTER_SAMPLES
      /\ Len(recent') = IF Len(recent) < FILTER_SAMPLES THEN Len(recent) + 1 ELSE FILTER_SAMPLES
      /\ recent'[Len(recent')] = p
      /\ \A k \in 1..(Len(recent') - 1) :
           recent'[k] = IF Len(recent) < FILTER_SAMPLES THEN recent[k] ELSE recent[k + 1]
  BY Remembered DEF OilInv
<1>7. Len(recent') = InUse'
  <2>1. Len(recent) = IF bufferFilled THEN FILTER_SAMPLES ELSE bufferIndex
    BY DEF OilInv, RingHoldsRecent, InUse
  <2>2. InUse' = IF bufferFilled' THEN FILTER_SAMPLES ELSE bufferIndex'
    BY DEF InUse
  <2>3. QED
    <3>1. CASE bufferFilled
      <4>1. bufferFilled'
        BY <1>1, <3>1
      <4>2. InUse' = FILTER_SAMPLES /\ Len(recent) = FILTER_SAMPLES
        BY <2>1, <2>2, <3>1, <4>1
      <4>3. QED
        BY <1>6, <4>2
    <3>2. CASE ~bufferFilled /\ bufferIndex + 1 = FILTER_SAMPLES
      <4>1. Len(recent) < FILTER_SAMPLES /\ Len(recent') = FILTER_SAMPLES
        BY <1>1, <1>6, <2>1, <3>2 DEF Slots
      <4>2. QED
        BY <1>1, <1>4, <2>2, <3>2, <4>1
    <3>3. CASE ~bufferFilled /\ bufferIndex + 1 # FILTER_SAMPLES
      <4>1. Len(recent) < FILTER_SAMPLES /\ Len(recent') = bufferIndex + 1
        BY <1>1, <1>6, <2>1, <3>3 DEF Slots
      <4>2. bufferIndex' = bufferIndex + 1 /\ bufferIndex' # 0 /\ ~bufferFilled'
        BY <1>1, <1>4, <3>3 DEF Slots
      <4>3. QED
        BY <2>2, <4>1, <4>2
    <3>4. QED
      BY <1>1, <3>1, <3>2, <3>3
<1>8. ASSUME NEW k \in 1..Len(recent')
      PROVE  buffer'[Behind(bufferIndex', k)] = recent'[Len(recent') + 1 - k]
  <2>1. CASE k = 1
    <3>1. Behind(bufferIndex', k) = bufferIndex
      BY <1>1, <1>2, <2>1, BehindAfter
    <3>2. Len(recent') + 1 - k = Len(recent')
      BY <1>6, <2>1
    <3>3. QED
      BY <1>1, <1>6, <3>1, <3>2
  <2>2. CASE k # 1
    <3> DEFINE j == k - 1
    <3>1. j \in 1..(FILTER_SAMPLES - 1) /\ j \in 1..Len(recent) /\ k = j + 1
      BY <1>6, <2>2
    <3> HIDE DEF j
    <3>2. Behind(bufferIndex', k) = Behind(bufferIndex, j) /\ Behind(bufferIndex, j) # bufferIndex
      BY <1>1, <1>2, <3>1, BehindAfter
    <3>3. Behind(bufferIndex, j) \in Slots
      <4>1. j \in 1..FILTER_SAMPLES
        BY <3>1
      <4>2. QED
        BY <1>1, <4>1, BehindIs
    <3>4. buffer'[Behind(bufferIndex', k)] = buffer[Behind(bufferIndex, j)]
      BY <1>1, <3>2, <3>3
    <3>5. buffer[Behind(bufferIndex, j)] = recent[Len(recent) + 1 - j]
      BY <3>1 DEF OilInv, RingHoldsRecent, Behind
    <3>6. recent'[Len(recent') + 1 - k] = recent[Len(recent) + 1 - j]
      <4>1. Len(recent') + 1 - k \in 1..(Len(recent') - 1)
        BY <2>2, <1>6
      <4>2. Len(recent') + 1 - k = IF Len(recent) < FILTER_SAMPLES THEN Len(recent) + 1 - j
                                   ELSE Len(recent) - j
        <5>1. CASE Len(recent) < FILTER_SAMPLES
          BY <1>6, <3>1, <5>1
        <5>2. CASE Len(recent) = FILTER_SAMPLES
          BY <1>6, <3>1, <5>2
        <5>3. QED
          BY <1>6, <5>1, <5>2
      <4>3. Len(recent) - j + 1 = Len(recent) + 1 - j
        BY <1>6, <3>1
      <4>4. QED
        BY <1>6, <4>1, <4>2, <4>3
    <3>7. QED
      BY <3>4, <3>5, <3>6
  <2>3. QED
    BY <2>1, <2>2
<1>9. RingHoldsRecent'
  BY <1>7, <1>8 DEF RingHoldsRecent, Behind
<1>10. QED
  BY <1>1, <1>2, <1>3, <1>5, <1>7, <1>9

\* A ring not yet full adds the pressure, a full one puts it in the place of the oldest.
LEMMA SumsFollow ==
  ASSUME OilInv, NEW p \in Pressures, applyFilter(p), Remember(p)
  PROVE  RingAddsUp'
<1> USE FilterAssumption DEF FilterAssumption
<1> DEFINE n == Len(recent)
           i == bufferIndex
<1>1. /\ i \in Slots /\ bufferFilled \in BOOLEAN /\ buffer \in [Slots -> Pressures]
      /\ buffer' = [buffer EXCEPT ![i] = p] /\ recent \in Seq(Pressures)
      /\ n = InUse
      /\ Total(buffer, 0, n) = Total(recent, 1, n)
  BY DEF OilInv, OilTypeOK, applyFilter, RingHoldsRecent, RingAddsUp
<1>2. /\ recent' \in Seq(Pressures) /\ n \in 0..FILTER_SAMPLES
      /\ Len(recent') = IF n < FILTER_SAMPLES THEN n + 1 ELSE FILTER_SAMPLES
      /\ recent'[Len(recent')] = p
      /\ \A k \in 1..(Len(recent') - 1) :
           recent'[k] = IF n < FILTER_SAMPLES THEN recent[k] ELSE recent[k + 1]
  BY Remembered DEF OilInv
<1>3. Len(recent') = InUse' /\ buffer' \in [Slots -> Pressures]
  BY Filtered
<1>4. \A k \in 1..n : recent[k] \in Pressures
  BY <1>1
<1> HIDE DEF n, i
<1>5. CASE n < FILTER_SAMPLES
  <2>1. i = n
    BY <1>1, <1>5 DEF InUse, i
  <2>2. Total(buffer', 0, n + 1) = Total(buffer', 0, n) + buffer'[0 + n]
    BY <1>2, TotalStep
  <2>3. Total(recent', 1, n + 1) = Total(recent', 1, n) + recent'[1 + n]
    BY <1>2, TotalStep
  <2>4. Total(buffer', 0, n) = Total(buffer, 0, n)
    <3>1. \A k \in 0..(n - 1) : buffer'[0 + k] = buffer[0 + k]
      BY <1>1, <1>2, <2>1 DEF Slots
    <3>2. QED
      BY <1>2, <3>1, TotalSame
  <2>5. Total(recent', 1, n) = Total(recent, 1, n)
    <3>1. \A k \in 0..(n - 1) : recent'[1 + k] = recent[1 + k]
      BY <1>2, <1>5
    <3>2. QED
      BY <1>2, <3>1, TotalSame
  <2>6. buffer'[0 + n] = p
    <3>1. 0 + n = i
      BY <1>2, <2>1
    <3>2. QED
      BY <1>1, <3>1
  <2>7. recent'[1 + n] = p /\ Len(recent') = n + 1
    BY <1>2, <1>5
  <2>8. QED
    BY <1>1, <1>3, <2>2, <2>3, <2>4, <2>5, <2>6, <2>7 DEF RingAddsUp
<1>6. CASE n = FILTER_SAMPLES
  <2> DEFINE m == n - 1
  <2>0. m \in Nat /\ n = m + 1 /\ n \in Nat /\ n # 0
    BY <1>6
  <2> HIDE DEF m
  <2>1. buffer[i] = recent[1]
    <3>1. n \in 1..n /\ n + 1 - n = 1
      BY <2>0
    <3>2. buffer[Behind(i, n)] = recent[1]
      BY <3>1 DEF OilInv, RingHoldsRecent, Behind, i, n
    <3>3. QED
      BY <1>1, <1>6, <3>2, BehindAfter
  <2>2. Total(buffer', 0, n) = Total(buffer, 0, n) - buffer[0 + i] + buffer'[0 + i]
    <3>1. i \in 0..(n - 1) /\ 0 + i = i
      BY <1>1, <1>6 DEF Slots
    <3>2. Numbers(buffer, 0, n)
      <4>1. \A k \in 0..(n - 1) : 0 + k \in Slots
        BY <1>6 DEF Slots
      <4>2. \A k \in Slots : buffer[k] \in Int
        BY <1>1, PressuresAreNumbers
      <4>3. QED
        BY <4>1, <4>2 DEF Numbers
    <3>3. \A k \in 0..(n - 1) : k # i => buffer'[0 + k] = buffer[0 + k]
      BY <1>1, <1>6 DEF Slots
    <3>4. buffer'[0 + i] \in Int
      BY <1>1, <3>1 DEF Pressures, PRESSURE_MAX
    <3>5. QED
      BY <2>0, <3>1, <3>2, <3>3, <3>4, TotalReplaced
  <2>3. Total(recent', 1, n) = Total(recent', 1, m) + recent'[1 + m]
    BY <2>0, TotalStep
  <2>4. Total(recent', 1, m) = Total(recent, 2, m)
    <3>1. \A k \in 0..(m - 1) : recent'[1 + k] = recent[2 + k]
      BY <1>2, <1>6, <2>0
    <3>2. QED
      BY <2>0, <3>1, TotalSame
  <2>5. Total(recent, 2, m) = Total(recent, 1, n) - recent[1]
    <3>1. Numbers(recent, 1, m + 1)
      <4>1. \A k \in 0..((m + 1) - 1) : 1 + k \in 1..n
        BY <2>0
      <4>2. \A k \in 1..n : recent[k] \in Int
        BY <1>4, PressuresAreNumbers
      <4>3. QED
        BY <4>1, <4>2 DEF Numbers
    <3>2. Total(recent, 1 + 1, m) = Total(recent, 1, m + 1) - recent[1]
      BY <2>0, <3>1, TotalTail
    <3>3. QED
      BY <2>0, <3>2
  <2>6. buffer'[i] = p /\ recent'[n] = p /\ Len(recent') = n /\ 0 + i = i /\ 1 + m = n
    BY <1>1, <1>2, <1>6, <2>0 DEF Slots
  <2>7. QED
    BY <1>1, <1>3, <2>1, <2>2, <2>3, <2>4, <2>5, <2>6 DEF RingAddsUp
<1>7. QED
  BY <1>2, <1>5, <1>6

\* The warning of a reading whose average is that of the samples.
LEMMA WarningFollows ==
  ASSUME NEW seq \in Seq(Pressures), Len(seq) > 0, NEW avg,
         avg = [sum |-> Total(seq, 1, Len(seq)), n |-> Len(seq)]
  PROVE  /\ avg.sum \in Nat /\ avg.sum < 1001 * avg.n /\ avg.n \in Nat \ {0}
         /\ (\A k \in DOMAIN seq : seq[k] < PRESSURE_WARNING) => isUnderPressure(StatusOf(avg))
         /\ isUnderPressure(StatusOf(avg)) => \E k \in DOMAIN seq : seq[k] < PRESSURE_WARNING
         /\ StatusOf(avg) \in {"OK", "WARNING", "CRITICAL"}
<1> DEFINE n == Len(seq)
           sum == Total(seq, 1, n)
<1>1. n \in Nat /\ n > 0 /\ DOMAIN seq = 1..n /\ \A k \in 1..n : seq[k] \in Pressures
  OBVIOUS
<1> HIDE DEF n
<1>2. \A k \in 0..(n - 1) : 1 + k \in 1..n
  BY <1>1
<1>3. Numbers(seq, 1, n)
  BY <1>1, <1>2, PressuresAreNumbers DEF Numbers
<1>4. /\ sum \in Int
      /\ \A c \in Int : (\A k \in 0..(n - 1) : seq[1 + k] >= c) => sum >= c * n
      /\ \A c \in Int : (\A k \in 0..(n - 1) : seq[1 + k] < c) => sum < c * n
  <2>1. 1 \in Int /\ n \in Nat /\ n > 0
    BY <1>1
  <2>2. sum \in Int
    BY <1>3, <2>1, TotalBounds
  <2>3. ASSUME NEW c \in Int, \A k \in 0..(n - 1) : seq[1 + k] >= c
        PROVE  sum >= c * n
    BY <1>3, <2>1, <2>3, TotalBounds
  <2>4. ASSUME NEW c \in Int, \A k \in 0..(n - 1) : seq[1 + k] < c
        PROVE  sum < c * n
    BY <1>3, <2>1, <2>4, TotalBounds
  <2>5. QED
    BY <2>2, <2>3, <2>4
<1> HIDE DEF sum
<1>5. sum >= 0 * n /\ sum < 1001 * n
  <2>1. \A k \in 0..(n - 1) : seq[1 + k] \in Pressures
    BY <1>1, <1>2
  <2>2. ASSUME NEW k \in 0..(n - 1)
        PROVE  seq[1 + k] >= 0 /\ seq[1 + k] < 1001
    <3> DEFINE p == seq[1 + k]
    <3>1. p \in Pressures
      BY <2>1
    <3> HIDE DEF p
    <3>2. p >= 0 /\ p < 1001
      BY <3>1 DEF Pressures, PRESSURE_MAX
    <3>3. QED
      BY <3>2 DEF p
  <2>3. QED
    BY <1>4, <2>2, 0 \in Int, 1001 \in Int
<1>6. avg.sum = sum /\ avg.n = n
  BY DEF sum, n
<1>7. ASSUME \A k \in DOMAIN seq : seq[k] < 150
      PROVE  sum < 150 * n
  BY <1>1, <1>2, <1>4, <1>7
<1>8. ASSUME \A k \in DOMAIN seq : ~ (seq[k] < 150)
      PROVE  ~ (sum < 150 * n)
  <2>1. ASSUME NEW k \in 0..(n - 1)
        PROVE  seq[1 + k] >= 150
    <3> DEFINE p == seq[1 + k]
    <3>1. p \in Pressures /\ ~ (p < 150)
      BY <1>1, <1>2, <1>8
    <3> HIDE DEF p
    <3>2. p >= 150
      BY <3>1 DEF Pressures, PRESSURE_MAX
    <3>3. QED
      BY <3>2 DEF p
  <2>2. sum >= 150 * n
    BY <1>4, <2>1, 150 \in Int
  <2>3. QED
    BY <1>1, <1>4, <2>2
<1>9. isUnderPressure(StatusOf(avg)) <=> sum < 150 * n
  <2>1. sum < 80 * n => sum < 150 * n
    BY <1>1, <1>4
  <2>2. QED
    BY <1>6, <2>1 DEF isUnderPressure, StatusOf, PRESSURE_WARNING, PRESSURE_CRITICAL
<1>10. StatusOf(avg) \in {"OK", "WARNING", "CRITICAL"}
  BY DEF StatusOf
<1>11. avg.sum \in Nat /\ avg.sum < 1001 * avg.n /\ avg.n \in Nat \ {0}
  BY <1>1, <1>4, <1>5, <1>6
<1>12. QED
  BY <1>7, <1>8, <1>9, <1>10, <1>11 DEF PRESSURE_WARNING

LEMMA OilCleared ==
  ASSUME NEW status \in Statuses, OilClear(status), oilInit' \in BOOLEAN
  PROVE  OilInv'
<1> USE FilterAssumption DEF FilterAssumption
<1>1. /\ oilStatus' = status /\ average' = [sum |-> 0, n |-> 1] /\ buffer' = [i \in Slots |-> 0]
      /\ bufferIndex' = 0 /\ bufferFilled' = FALSE /\ oilReading' = NoReading /\ recent' = <<>>
  BY DEF OilClear
<1>2. OilTypeOK'
  <2>1. 0 \in Slots /\ 0 \in Pressures
    BY DEF Slots, Pressures, PRESSURE_MAX
  <2>2. buffer' \in [Slots -> Pressures]
    BY <1>1, <2>1
  <2>3. recent' \in Seq(Pressures)
    BY <1>1
  <2>4. QED
    BY <1>1, <2>1, <2>2, <2>3 DEF OilTypeOK
<1>3. Len(recent') = 0 /\ InUse' = 0
  BY <1>1 DEF InUse
<1>4. RingHoldsRecent'
  BY <1>3 DEF RingHoldsRecent
<1>5. RingAddsUp'
  <2>1. Total(buffer', 0, 0) = 0
    BY TotalSteps
  <2>2. Total(recent', 1, 0) = 0
    BY TotalSteps
  <2>3. QED
    BY <1>3, <2>1, <2>2 DEF RingAddsUp
<1>6. FirstAverage' /\ AverageIsOfSamples' /\ WarningIsOfSamples'
  BY <1>1 DEF FirstAverage, AverageIsOfSamples, WarningIsOfSamples
<1>7. QED
  BY <1>2, <1>4, <1>5, <1>6 DEF OilInv

LEMMA PressureRead ==
  ASSUME OilInv, NEW m \in Measurements, ReadPressure(m)
  PROVE  OilInv'
<1> DEFINE p == currentToPressure(m.current, m.voltage)
<1>1. /\ p \in Pressures /\ applyFilter(p) /\ Remember(p) /\ oilInit' = oilInit
      /\ oilStatus' = StatusOf(average') /\ Populate(oilStatus', average')
  BY PressureType DEF ReadPressure
<1> HIDE DEF p
<1>2. /\ bufferIndex' \in Slots /\ bufferFilled' \in BOOLEAN /\ buffer' \in [Slots -> Pressures]
      /\ Len(recent') = InUse' /\ RingHoldsRecent'
  BY <1>1, Filtered
<1>3. recent' \in Seq(Pressures) /\ Len(recent') >= 1
  BY <1>1, Remembered DEF OilInv
<1>4. RingAddsUp'
  BY <1>1, SumsFollow
<1>5. average' = [sum |-> Total(recent', 1, Len(recent')), n |-> Len(recent')]
  <2>1. average' = [sum |-> Total(buffer', 0, InUse'), n |-> InUse']
    BY <1>1 DEF applyFilter, RingSum, InUse
  <2>2. QED
    BY <1>2, <1>4, <2>1 DEF RingAddsUp
<1>6. recent' # <<>> /\ Len(recent') > 0
  BY <1>3
<1>7. /\ (\A k \in DOMAIN recent' : recent'[k] < PRESSURE_WARNING) => isUnderPressure(StatusOf(average'))
      /\ isUnderPressure(StatusOf(average')) => \E k \in DOMAIN recent' : recent'[k] < PRESSURE_WARNING
      /\ StatusOf(average') \in {"OK", "WARNING", "CRITICAL"}
  BY <1>3, <1>5, <1>6, WarningFollows
<1>8. OilTypeOK'
  BY <1>1, <1>2, <1>3, <1>7 DEF OilTypeOK, OilInv, Statuses
<1>9. FirstAverage' /\ AverageIsOfSamples'
  BY <1>5, <1>6 DEF FirstAverage, AverageIsOfSamples
<1>10. oilReading'.warning = isUnderPressure(StatusOf(average'))
  BY <1>1 DEF Populate
<1>11. WarningIsOfSamples'
  BY <1>7, <1>10 DEF WarningIsOfSamples
<1>12. QED
  BY <1>2, <1>4, <1>8, <1>9, <1>11 DEF OilInv

LEMMA OilStep ==
  ASSUME OilInv, [OilNext]_oilVars
  PROVE  OilInv'
<1>1. CASE OilBegin
  <2>1. PICK ok \in BOOLEAN : oilInit' = ok /\ OilClear(IF ok THEN "OK" ELSE "ERROR")
    BY <1>1 DEF OilBegin
  <2>2. (IF ok THEN "OK" ELSE "ERROR") \in Statuses
    BY DEF Statuses
  <2>3. QED
    BY <2>1, <2>2, OilCleared
<1>2. CASE OilPowerLoss
  <2>1. "NOT_INIT" \in Statuses
    BY DEF Statuses
  <2>2. QED
    BY <1>2, <2>1, OilCleared DEF OilPowerLoss
<1>3. ASSUME NEW m \in Measurements, OilRead(m)
      PROVE  OilInv'
  <2>1. CASE ReadPressure(m)
    BY <2>1, PressureRead
  <2>2. CASE ReadUninitialised \/ ReadFault(m)
    <3>1. UNCHANGED <<oilInit, average, buffer, bufferIndex, bufferFilled, recent>>
      BY <2>2 DEF ReadUninitialised, ReadFault
    <3>2. oilStatus' \in Statuses
      BY <2>2 DEF ReadUninitialised, ReadFault, CircuitFault, Statuses, OilInv, OilTypeOK
    <3>3. OilTypeOK' /\ RingHoldsRecent' /\ RingAddsUp' /\ FirstAverage' /\ AverageIsOfSamples'
      BY <3>1, <3>2 DEF OilInv, OilTypeOK, RingHoldsRecent, RingAddsUp, FirstAverage,
                        AverageIsOfSamples, InUse
    <3>4. oilReading'.status \notin {"OK", "WARNING", "CRITICAL"}
      <4>1. CASE ReadUninitialised
        BY <4>1 DEF ReadUninitialised, NotInit
      <4>2. CASE ReadFault(m)
        <5>1. oilReading'.status = CircuitFault(m) /\ CircuitFault(m) # "OK"
          BY <4>2 DEF ReadFault, Populate
        <5>2. QED
          BY <5>1 DEF CircuitFault
      <4>3. QED
        BY <2>2, <4>1, <4>2
    <3>5. WarningIsOfSamples'
      BY <3>4 DEF WarningIsOfSamples
    <3>6. QED
      BY <3>3, <3>5 DEF OilInv
  <2>3. QED
    BY <1>3, <2>1, <2>2 DEF OilRead
<1>4. CASE UNCHANGED oilVars
  BY <1>4 DEF oilVars, OilInv, OilTypeOK, RingHoldsRecent, RingAddsUp, FirstAverage,
              AverageIsOfSamples, WarningIsOfSamples, InUse
<1>5. QED
  BY <1>1, <1>2, <1>3, <1>4 DEF OilNext

\* The engine monitor does to its oil pressure sensor what the sensor's own specification allows.
LEMMA SensorRuns ==
  ASSUME [Next]_vars
  PROVE  [OilNext]_oilVars
<1> USE DEF oilVars
<1>1. CASE Handle
  BY <1>1 DEF Handle, Ignore, WriteHigh, SendReply, handleSetByte, handleSetWord, handleGetByte,
              handleGetWord, LoopVars
<1>2. CASE SetupDone
  BY <1>2 DEF SetupDone, OilNext
<1>3. CASE ConfigDone \/ Send
  BY <1>3 DEF ConfigDone, Send
<1>4. ASSUME NEW scene \in Scenes, SetupSensor(scene) \/ Sense(scene)
      PROVE  [OilNext]_oilVars
  <2>1. scene.oil \in Measurements
    BY SceneAssumption DEF SceneAssumption
  <2>2. QED
    BY <1>4, <2>1 DEF SetupSensor, Sense, OilNext
<1>5. CASE PowerLoss
  BY <1>5 DEF PowerLoss, OilNext
<1>6. CASE Receiver
  BY <1>6 DEF Receiver, receiveMessage, Shown, engineVars
<1>7. ASSUME NEW f \in Requests, Request(f)
      PROVE  [OilNext]_oilVars
  BY <1>7 DEF Request
<1>8. CASE UNCHANGED vars
  BY <1>8 DEF vars
<1>9. QED
  BY <1>1, <1>2, <1>3, <1>4, <1>5, <1>6, <1>7, <1>8 DEF Next, Loop

LEMMA OilStarts == OilInit => OilInv
<1> SUFFICES ASSUME OilInit
             PROVE  OilInv
  OBVIOUS
<1> USE FilterAssumption DEF FilterAssumption
<1>1. OilTypeOK
  <2>1. 0 \in Slots /\ 0 \in Pressures /\ "NOT_INIT" \in Statuses
    BY DEF Slots, Pressures, PRESSURE_MAX, Statuses
  <2>2. buffer \in [Slots -> Pressures]
    BY <2>1 DEF OilInit
  <2>3. recent \in Seq(Pressures)
    BY DEF OilInit
  <2>4. QED
    BY <2>1, <2>2, <2>3 DEF OilInit, OilTypeOK
<1>2. Len(recent) = 0 /\ InUse = 0
  BY DEF OilInit, InUse
<1>3. Total(buffer, 0, 0) = 0 /\ Total(recent, 1, 0) = 0
  <2>1. Total(buffer, 0, 0) = 0
    BY TotalSteps
  <2>2. Total(recent, 1, 0) = 0
    BY TotalSteps
  <2>3. QED
    BY <2>1, <2>2
<1>4. RingHoldsRecent /\ RingAddsUp
  BY <1>2, <1>3 DEF RingHoldsRecent, RingAddsUp
<1>5. FirstAverage /\ AverageIsOfSamples /\ WarningIsOfSamples
  BY DEF OilInit, FirstAverage, AverageIsOfSamples, WarningIsOfSamples
<1>6. QED
  BY <1>1, <1>4, <1>5 DEF OilInv

----------------------------------------------------------------------------
(***************************************************************************)
(* Configuration: what a request to write has stored so far.               *)
(***************************************************************************)
Bytes == 0..255
Holds(a, v) == Cell(a) \in CalibrationCells => eeprom[Cell(a)] = v

ConfigTypeOK ==
  /\ pc \in {"boot", "config", "sense", "send"} /\ rx \in Seq(Requests)
  /\ eeprom \in [CalibrationCells -> Bytes]
  /\ task # NoTask =>
       /\ pc = "config"
       /\ task = [step |-> task.step, id |-> task.id, addr |-> task.addr, lo |-> task.lo, hi |-> task.hi]
       /\ task.step \in {"high", "confirm", "answer"} /\ task.id \in {"BYTE_VALUE", "WORD_VALUE"}
       /\ task.addr \in Nat /\ (task.step = "high" => task.id = "WORD_VALUE" /\ task.hi \in Bytes)

\* A request under way has stored its first byte, and both bytes when its confirmation is due.
TaskIsStored ==
  task.step \in {"high", "confirm"} =>
    /\ Holds(task.addr, task.lo)
    /\ task.step = "confirm" /\ task.id = "WORD_VALUE" => Holds(task.addr + 1, task.hi)

ConfigInv == ConfigTypeOK /\ TaskIsStored /\ ConfirmedIsStored

LEMMA NextCell ==
  ASSUME NEW a \in Nat
  PROVE  Cell(a) # Cell(a + 1)
BY DEF Cell

LEMMA Written ==
  ASSUME ConfigTypeOK, NEW a \in Nat, NEW v \in Bytes, Write(a, v)
  PROVE  /\ eeprom' \in [CalibrationCells -> Bytes] /\ Holds(a, v)'
         /\ \A c \in CalibrationCells : c # Cell(a) => eeprom'[c] = eeprom[c]
<1>1. eeprom' = [c \in CalibrationCells |-> IF c = Cell(a) THEN v ELSE eeprom[c]]
  BY DEF Write, ConfigTypeOK
<1>2. \A c \in CalibrationCells : eeprom[c] \in Bytes
  BY DEF ConfigTypeOK
<1>3. QED
  BY <1>1, <1>2 DEF Holds

LEMMA RequestTypes ==
  ASSUME NEW f \in Requests
  PROVE  f.addr \in Nat /\ f.lo \in Bytes /\ f.hi \in Bytes /\ f.id # "ENGINE_DATA_1"
BY RequestAssumption DEF RequestAssumption, Bytes

\* The task of a request that the loop has taken.
TaskOf(step, id, addr, lo, hi) == [step |-> step, id |-> id, addr |-> addr, lo |-> lo, hi |-> hi]

LEMMA WriteRequest ==
  ASSUME ConfigInv, NEW f \in Requests, NEW step \in {"high", "confirm"},
         NEW id \in {"BYTE_VALUE", "WORD_VALUE"}, NEW hi \in Bytes,
         step = "high" => id = "WORD_VALUE", step = "confirm" => id = "BYTE_VALUE",
         Take(f), Write(f.addr, f.lo), task' = TaskOf(step, id, f.addr, f.lo, hi),
         confirmed' = NoWrite, pc' = pc
  PROVE  ConfigInv'
<1>1. rx' \in Seq(Requests)
  BY HeadTailProperties DEF Take, messageAvailable, ConfigInv, ConfigTypeOK
<1>2. /\ task'.step = step /\ task'.id = id /\ task'.addr = f.addr /\ task'.lo = f.lo /\ task'.hi = hi
      /\ task' = TaskOf(task'.step, task'.id, task'.addr, task'.lo, task'.hi)
  BY DEF TaskOf
<1>3. f.addr \in Nat /\ f.lo \in Bytes
  BY RequestTypes
<1>4. eeprom' \in [CalibrationCells -> Bytes] /\ Holds(f.addr, f.lo)'
  BY <1>3, Written DEF ConfigInv
<1>5. ConfigTypeOK'
  <2>1. pc' = "config"
    BY DEF Take
  <2>2. QED
    BY <1>1, <1>2, <1>3, <1>4, <2>1 DEF ConfigTypeOK, TaskOf
<1>6. TaskIsStored'
  <2>1. Holds(task.addr, task.lo)'
    BY <1>2, <1>4 DEF Holds
  <2>2. ~ (task'.step = "confirm" /\ task'.id = "WORD_VALUE")
    BY <1>2
  <2>3. QED
    BY <2>1, <2>2 DEF TaskIsStored
<1>7. ConfirmedIsStored'
  BY DEF ConfirmedIsStored
<1>8. QED
  BY <1>5, <1>6, <1>7 DEF ConfigInv

LEMMA ReadRequest ==
  ASSUME ConfigInv, NEW f \in Requests, NEW id \in {"BYTE_VALUE", "WORD_VALUE"}, NEW lo, NEW hi,
         Take(f), task' = TaskOf("answer", id, f.addr, lo, hi), UNCHANGED <<eeprom, confirmed, pc>>
  PROVE  ConfigInv'
<1>1. rx' \in Seq(Requests)
  BY HeadTailProperties DEF Take, messageAvailable, ConfigInv, ConfigTypeOK
<1>2. /\ task'.step = "answer" /\ task'.id = id /\ task'.addr = f.addr
      /\ task' = TaskOf(task'.step, task'.id, task'.addr, task'.lo, task'.hi)
  BY DEF TaskOf
<1>3. f.addr \in Nat
  BY RequestTypes
<1>4. ConfigTypeOK'
  <2>1. pc' = "config"
    BY DEF Take
  <2>2. QED
    BY <1>1, <1>2, <1>3, <2>1 DEF ConfigInv, ConfigTypeOK, TaskOf
<1>5. TaskIsStored'
  BY <1>2 DEF TaskIsStored
<1>6. ConfirmedIsStored'
  BY DEF ConfigInv, ConfirmedIsStored
<1>7. QED
  BY <1>4, <1>5, <1>6 DEF ConfigInv

\* Steps that neither write nor answer.
LEMMA ConfigIdles ==
  ASSUME ConfigInv, UNCHANGED <<eeprom, confirmed>>, pc' \in {"boot", "config", "sense", "send"},
         rx' \in Seq(Requests), task' = NoTask \/ (task' = task /\ pc' = pc)
  PROVE  ConfigInv'
<1>1. NoTask.step = "idle"
  BY DEF NoTask
<1>2. ConfigTypeOK'
  BY DEF ConfigInv, ConfigTypeOK
<1>3. TaskIsStored'
  BY <1>1 DEF ConfigInv, TaskIsStored, Holds
<1>4. ConfirmedIsStored'
  BY DEF ConfigInv, ConfirmedIsStored
<1>5. QED
  BY <1>2, <1>3, <1>4 DEF ConfigInv

LEMMA HighWritten ==
  ASSUME ConfigInv, WriteHigh
  PROVE  ConfigInv'
<1>1. /\ task.step = "high" /\ Write(task.addr + 1, task.hi) /\ task' = [task EXCEPT !.step = "confirm"]
      /\ confirmed' = NoWrite /\ rx' = rx /\ pc' = pc
  BY DEF WriteHigh, LoopVars
<1>2. task # NoTask
  BY <1>1 DEF NoTask
<1>3. /\ task = TaskOf(task.step, task.id, task.addr, task.lo, task.hi) /\ pc = "config"
      /\ task.id = "WORD_VALUE" /\ task.addr \in Nat /\ task.hi \in Bytes
  BY <1>1, <1>2 DEF ConfigInv, ConfigTypeOK, TaskOf
<1>4. task' = TaskOf("confirm", task.id, task.addr, task.lo, task.hi)
  BY <1>1, <1>3 DEF TaskOf
<1>5. /\ task'.step = "confirm" /\ task'.id = task.id /\ task'.addr = task.addr
      /\ task'.lo = task.lo /\ task'.hi = task.hi
  BY <1>4 DEF TaskOf
<1>6. /\ eeprom' \in [CalibrationCells -> Bytes] /\ Holds(task.addr + 1, task.hi)'
      /\ \A c \in CalibrationCells : c # Cell(task.addr + 1) => eeprom'[c] = eeprom[c]
  <2>1. task.addr + 1 \in Nat /\ ConfigTypeOK
    BY <1>3 DEF ConfigInv
  <2>2. eeprom' \in [CalibrationCells -> Bytes]
    BY <1>1, <1>3, <2>1, Written
  <2>3. \A c \in CalibrationCells : c # Cell(task.addr + 1) => eeprom'[c] = eeprom[c]
    BY <1>1, <1>3, <2>1, Written
  <2>4. Cell(task.addr + 1) \in CalibrationCells => eeprom'[Cell(task.addr + 1)] = task.hi
    BY <1>1, <2>1 DEF Write, ConfigTypeOK
  <2>5. QED
    BY <1>5, <2>2, <2>3, <2>4 DEF Holds
<1>7. TaskIsStored'
  <2>1. Holds(task.addr, task.lo)
    BY <1>1 DEF ConfigInv, TaskIsStored
  <2>2. Holds(task.addr, task.lo)'
    BY <1>3, <1>5, <1>6, <2>1, NextCell DEF Holds
  <2>3. Holds(task.addr + 1, task.hi)'
    BY <1>5, <1>6 DEF Holds
  <2>4. QED
    BY <2>2, <2>3 DEF TaskIsStored
<1>8. ConfigTypeOK'
  <2>1. task' = TaskOf(task'.step, task'.id, task'.addr, task'.lo, task'.hi)
    BY <1>4, <1>5
  <2>2. rx' \in Seq(Requests) /\ pc' = "config"
    BY <1>1, <1>3 DEF ConfigInv, ConfigTypeOK
  <2>3. QED
    BY <1>3, <1>5, <1>6, <2>1, <2>2 DEF ConfigTypeOK, TaskOf
<1>9. ConfirmedIsStored'
  BY <1>1 DEF ConfirmedIsStored
<1>10. QED
  BY <1>7, <1>8, <1>9 DEF ConfigInv

LEMMA Replied ==
  ASSUME ConfigInv, SendReply
  PROVE  ConfigInv'
<1>1. /\ task.step \in {"confirm", "answer"} /\ task' = NoTask /\ UNCHANGED <<pc, rx, eeprom>>
  BY DEF SendReply, LoopVars
<1>2. PICK sent \in BOOLEAN :
        confirmed' = IF sent /\ task.step = "confirm"
                     THEN [addr |-> task.addr, word |-> task.id = "WORD_VALUE",
                           lo |-> task.lo, hi |-> task.hi]
                     ELSE confirmed
  BY DEF SendReply
<1>3. ConfirmedIsStored'
  <2>1. CASE sent /\ task.step = "confirm"
    <3>1. /\ confirmed'.addr = task.addr /\ confirmed'.word = (task.id = "WORD_VALUE")
          /\ confirmed'.lo = task.lo /\ confirmed'.hi = task.hi
      BY <1>2, <2>1
    <3>2. Holds(task.addr, task.lo) /\ (task.id = "WORD_VALUE" => Holds(task.addr + 1, task.hi))
      BY <2>1 DEF ConfigInv, TaskIsStored
    <3>3. QED
      BY <1>1, <3>1, <3>2 DEF ConfirmedIsStored, Holds
  <2>2. CASE ~ (sent /\ task.step = "confirm")
    BY <1>1, <1>2, <2>2 DEF ConfigInv, ConfirmedIsStored
  <2>3. QED
    BY <2>1, <2>2
<1>4. NoTask.step = "idle"
  BY DEF NoTask
<1>5. ConfigTypeOK' /\ TaskIsStored'
  BY <1>1, <1>4 DEF ConfigInv, ConfigTypeOK, TaskIsStored
<1>6. QED
  BY <1>3, <1>5 DEF ConfigInv

LEMMA RequestHandled ==
  ASSUME ConfigInv, NEW f \in Requests,
         handleSetByte(f) \/ handleSetWord(f) \/ handleGetByte(f) \/ handleGetWord(f)
  PROVE  ConfigInv'
<1> USE RequestTypes
<1>1. CASE handleSetByte(f)
  <2>1. 0 \in Bytes
    BY DEF Bytes
  <2>2. task' = TaskOf("confirm", "BYTE_VALUE", f.addr, f.lo, 0)
    BY <1>1 DEF handleSetByte, TaskOf
  <2>3. Take(f) /\ Write(f.addr, f.lo) /\ confirmed' = NoWrite /\ pc' = pc
    BY <1>1 DEF handleSetByte, LoopVars
  <2>4. QED
    BY <2>1, <2>2, <2>3, WriteRequest
<1>2. CASE handleSetWord(f)
  <2>1. f.hi \in Bytes
    OBVIOUS
  <2>2. task' = TaskOf("high", "WORD_VALUE", f.addr, f.lo, f.hi)
    BY <1>2 DEF handleSetWord, TaskOf
  <2>3. Take(f) /\ Write(f.addr, f.lo) /\ confirmed' = NoWrite /\ pc' = pc
    BY <1>2 DEF handleSetWord, LoopVars
  <2>4. QED
    BY <2>1, <2>2, <2>3, WriteRequest
<1>3. CASE handleGetByte(f)
  <2>1. task' = TaskOf("answer", "BYTE_VALUE", f.addr, eeprom[Cell(f.addr)], 0)
    BY <1>3 DEF handleGetByte, TaskOf
  <2>2. Take(f) /\ UNCHANGED <<eeprom, confirmed, pc>>
    BY <1>3 DEF handleGetByte, LoopVars
  <2>3. QED
    BY <2>1, <2>2, ReadRequest
<1>4. CASE handleGetWord(f)
  <2>1. task' = TaskOf("answer", "WORD_VALUE", f.addr, eeprom[Cell(f.addr)], eeprom[Cell(f.addr + 1)])
    BY <1>4 DEF handleGetWord, TaskOf
  <2>2. Take(f) /\ UNCHANGED <<eeprom, confirmed, pc>>
    BY <1>4 DEF handleGetWord, LoopVars
  <2>3. QED
    BY <2>1, <2>2, ReadRequest
<1>5. QED
  BY <1>1, <1>2, <1>3, <1>4

LEMMA ConfigStep ==
  ASSUME ConfigInv, [Next]_vars
  PROVE  ConfigInv'
<1>0. rx \in Seq(Requests) /\ pc \in {"boot", "config", "sense", "send"}
  BY DEF ConfigInv, ConfigTypeOK
<1>1. CASE Ignore
  <2>1. rx' \in Seq(Requests)
    BY <1>0, <1>1, HeadTailProperties DEF Ignore, Take
  <2>2. QED
    BY <1>0, <1>1, <2>1, ConfigIdles DEF Ignore, LoopVars
<1>2. CASE WriteHigh
  BY <1>2, HighWritten
<1>3. CASE SendReply
  BY <1>3, Replied
<1>4. ASSUME NEW f \in Requests,
             handleSetByte(f) \/ handleSetWord(f) \/ handleGetByte(f) \/ handleGetWord(f)
      PROVE  ConfigInv'
  BY <1>4, RequestHandled
<1>5. ASSUME NEW scene \in Scenes, SetupSensor(scene) \/ Sense(scene)
      PROVE  ConfigInv'
  <2>1. UNCHANGED <<eeprom, confirmed, rx, task>> /\ (pc' = pc \/ (pc = "sense" /\ pc' = "send"))
    BY <1>5 DEF SetupSensor, Sense, configVars
  <2>2. pc = "sense" => task = NoTask
    BY DEF ConfigInv, ConfigTypeOK
  <2>3. QED
    BY <1>0, <2>1, <2>2, ConfigIdles
<1>6. CASE SetupDone \/ ConfigDone \/ Send
  <2>1. UNCHANGED <<eeprom, confirmed, rx, task>> /\ pc' \in {"config", "sense"}
    BY <1>6 DEF SetupDone, ConfigDone, Send, configVars
  <2>2. task = NoTask
    BY <1>6 DEF SetupDone, ConfigDone, Send, ConfigInv, ConfigTypeOK
  <2>3. QED
    BY <1>0, <2>1, <2>2, ConfigIdles
<1>7. CASE PowerLoss
  <2>1. /\ UNCHANGED <<eeprom, confirmed>> /\ rx' = <<>> /\ task' = NoTask /\ pc' = "boot"
        /\ <<>> \in Seq(Requests)
    BY <1>7 DEF PowerLoss
  <2>2. QED
    BY <2>1, ConfigIdles
<1>8. CASE Receiver
  <2>1. UNCHANGED <<eeprom, confirmed, rx, task, pc>>
    BY <1>8 DEF Receiver, receiveMessage, Shown, engineVars, configVars
  <2>2. QED
    BY <1>0, <2>1, ConfigIdles
<1>9. ASSUME NEW f \in Requests, Request(f)
      PROVE  ConfigInv'
  <2>1. UNCHANGED <<eeprom, confirmed, task, pc>>
    BY <1>9 DEF Request
  <2>2. rx' = Append(rx, f) \/ rx' = rx
    BY <1>9 DEF Request
  <2>3. rx' \in Seq(Requests)
    BY <1>0, <2>2, AppendProperties
  <2>4. QED
    BY <1>0, <2>1, <2>3, ConfigIdles
<1>10. CASE UNCHANGED vars
  <2>1. UNCHANGED <<eeprom, confirmed, rx, task, pc>>
    BY <1>10 DEF vars, configVars
  <2>2. QED
    BY <1>0, <2>1, ConfigIdles
<1>11. QED
  BY <1>1, <1>2, <1>3, <1>4, <1>5, <1>6, <1>7, <1>8, <1>9, <1>10 DEF Next, Loop, Handle

LEMMA ConfigStarts == Init => ConfigInv
<1> SUFFICES ASSUME Init
             PROVE  ConfigInv
  OBVIOUS
<1>1. eeprom \in [CalibrationCells -> Bytes]
  BY DEF Init, Bytes
<1>2. NoTask.step = "idle" /\ <<>> \in Seq(Requests)
  BY DEF NoTask
<1>3. QED
  BY <1>1, <1>2 DEF Init, ConfigInv, ConfigTypeOK, TaskIsStored, ConfirmedIsStored

\* A confirmation on the bus says that the EEPROM holds what was asked for, both bytes of a word,
\* in whatever order requests, lost replies and losses of power come (EepromConfigure::setWord).
THEOREM ConfirmedWritesAreStored == Spec => []ConfirmedIsStored
<1>1. Init => ConfigInv
  BY ConfigStarts
<1>2. ConfigInv => ConfirmedIsStored
  BY DEF ConfigInv
<1>3. QED
  BY <1>1, <1>2, ConfigStep, PTL DEF Spec

\* The sensor in its monitor behaves as the sensor's specification says: no step of the loop, of the
\* bus or of the receiver touches it otherwise.
THEOREM MonitorRunsTheSensor == Spec => OilSpec
<1>1. Init => OilInit
  BY DEF Init
<1>2. QED
  BY <1>1, SensorRuns, PTL DEF Spec, OilSpec

\* Ring, average and warning are those of the pressures accepted, for a filter of any length
\* (OilPressureSensor.h:88).
THEOREM SensorFollowsSamples == OilSpec => []FilterFollowsSamples
<1>1. OilInv => FilterFollowsSamples
  BY DEF OilInv, FilterFollowsSamples
<1>2. QED
  BY <1>1, OilStarts, OilStep, PTL DEF OilSpec

\* So they are in the engine monitor.
THEOREM FilterIsOfSamples == Spec => []FilterFollowsSamples
BY MonitorRunsTheSensor, SensorFollowsSamples, PTL

----------------------------------------------------------------------------
(***************************************************************************)
(* The table of amplifiers: one for each sensor, in the order of the       *)
(* sensors, with the offset read when it was begun.                        *)
(***************************************************************************)
Amplifiers == [pin : Nat, offset : Int, instance : Int, overTempWarning : {OVER_TEMPERATURE},
               status : Nat, lastValue : Int]
Sensors == DOMAIN sensorConfigs

TableIsOfSensors ==
  /\ configured \in 0..Len(sensorConfigs) /\ Len(sensors) = configured /\ sensors \in Seq(Amplifiers)
  /\ \A i \in 1..configured : /\ sensors[i].pin = sensorConfigs[i].pin
                              /\ sensors[i].instance = sensors[i].offset
  /\ pc # "boot" => configured = Len(sensorConfigs)

\* No byte written since: every offset is still the one stored.
OffsetsAreStored ==
  ~dirty => \A i \in 1..configured :
              sensors[i].instance = readOffsetFromEeprom(eeprom, sensorConfigs[i].id)

TableInv == TableIsOfSensors /\ OffsetsAreStored /\ dirty \in BOOLEAN

LEMMA ConfigTable ==
  /\ sensorConfigs \in Seq([id : STRING, pin : Nat]) /\ Sensors = 1..Len(sensorConfigs)
  /\ Len(sensorConfigs) \in Nat /\ Len(sensorConfigs) < MAX_SENSORS /\ MAX_SENSORS \in Nat
  /\ \A i \in Sensors : sensorConfigs[i].pin \in Nat
<1>1. sensorConfigs \in Seq([id : STRING, pin : Nat])
  BY TableAssumption DEF TableAssumption
<1>2. Sensors = 1..Len(sensorConfigs) /\ Len(sensorConfigs) \in Nat
  BY <1>1 DEF Sensors
<1> DEFINE Config == [id : STRING, pin : Nat]
<1>3. \A c \in Config : c.pin \in Nat
  OBVIOUS
<1> HIDE DEF Config
<1>4. \A i \in Sensors : sensorConfigs[i].pin \in Nat
  <2>1. sensorConfigs \in Seq(Config)
    BY <1>1 DEF Config
  <2>2. QED
    BY <1>2, <1>3, <2>1
<1>5. Len(sensorConfigs) < MAX_SENSORS /\ MAX_SENSORS \in Nat
  BY ReadingsAssumption, TableAssumption DEF ReadingsAssumption, TableAssumption
<1>6. QED
  BY <1>1, <1>2, <1>4, <1>5

LEMMA AddressIs ==
  ASSUME NEW i \in Sensors
  PROVE  getCalibrationAddress(sensorConfigs[i].id) \in 337..349
<1>1. getCalibrationAddress(sensorConfigs[i].id) # 0
  BY SceneAssumption DEF SceneAssumption, Sensors
<1>2. QED
  BY <1>1 DEF getCalibrationAddress

LEMMA WordIsNumber ==
  ASSUME NEW lo \in 0..255, NEW hi \in 0..255
  PROVE  Int16(lo + 256 * hi) \in Int
BY DEF Int16

LEMMA OffsetIs ==
  ASSUME ConfigTypeOK, NEW i \in Sensors
  PROVE  /\ readOffsetFromEeprom(eeprom, sensorConfigs[i].id)
              = Int16(WordAt(getCalibrationAddress(sensorConfigs[i].id)))
         /\ readOffsetFromEeprom(eeprom, sensorConfigs[i].id) \in Int
<1> DEFINE a == getCalibrationAddress(sensorConfigs[i].id)
<1>1. a \in 337..349
  BY AddressIs
<1>2. readOffsetFromEeprom(eeprom, sensorConfigs[i].id) = Int16(eeprom[a] + 256 * eeprom[a + 1])
  BY <1>1 DEF readOffsetFromEeprom
<1>3. WordAt(a) = eeprom[Cell(a)] + 256 * eeprom[Cell(a + 1)]
  BY DEF WordAt
<1> HIDE DEF a
<1>4. Cell(a) = a /\ Cell(a + 1) = a + 1 /\ a \in CalibrationCells /\ a + 1 \in CalibrationCells
  BY <1>1 DEF Cell, CalibrationCells
<1>5. eeprom[a] \in 0..255 /\ eeprom[a + 1] \in 0..255
  BY <1>4 DEF ConfigTypeOK, Bytes
<1> DEFINE lo == eeprom[a]
           hi == eeprom[a + 1]
<1>6. /\ WordAt(a) = lo + 256 * hi
      /\ readOffsetFromEeprom(eeprom, sensorConfigs[i].id) = Int16(lo + 256 * hi)
  BY <1>2, <1>3, <1>4
<1>7. lo \in 0..255 /\ hi \in 0..255
  BY <1>5
<1> HIDE DEF lo, hi
<1>8. Int16(lo + 256 * hi) \in Int
  BY <1>7, WordIsNumber
<1>9. QED
  BY <1>6, <1>8 DEF a

LEMMA SceneTypes ==
  ASSUME NEW scene \in Scenes, NEW i \in Sensors
  PROVE  /\ scene.chip[sensorConfigs[i].pin].status \in Nat
         /\ scene.chip[sensorConfigs[i].pin].temp \in ChipTemps
BY SceneAssumption DEF SceneAssumption, Sensors

\* The place of a sensor's pin in the table is the place of the sensor.
LEMMA FoundAtItsPlace ==
  ASSUME NEW table, NEW n \in 0..Len(sensorConfigs), DOMAIN table = 1..n,
         \A k \in 1..n : table[k].pin = sensorConfigs[k].pin, NEW i \in Sensors
  PROVE  findSensor(table, sensorConfigs[i].pin) = IF i \in DOMAIN table THEN i ELSE 0
<1>1. \A k \in DOMAIN table : k \in Sensors /\ (table[k].pin = sensorConfigs[i].pin <=> k = i)
  <2>1. \A k \in DOMAIN table : k \in Sensors
    BY ConfigTable
  <2>2. \A k \in Sensors : sensorConfigs[k].pin = sensorConfigs[i].pin <=> k = i
    BY TableAssumption DEF TableAssumption, Sensors
  <2>3. QED
    BY <2>1, <2>2
<1>2. CASE i \in DOMAIN table
  <2>1. \A j \in 1..(i - 1) : j \in DOMAIN table /\ j # i
    BY <1>2
  <2> DEFINE P(k) == /\ table[k].pin = sensorConfigs[i].pin
                     /\ \A j \in 1..(k - 1) : table[j].pin # sensorConfigs[i].pin
  <2>2. findSensor(table, sensorConfigs[i].pin) = CHOOSE k \in DOMAIN table : P(k)
    BY <1>1, <1>2 DEF findSensor
  <2>3. ASSUME NEW k \in DOMAIN table
        PROVE  P(k) <=> k = i
    <3>1. P(k) => k = i
      BY <1>1
    <3>2. \A j \in 1..(i - 1) : table[j].pin # sensorConfigs[i].pin
      BY <1>1, <1>2, <2>1
    <3>3. QED
      BY <1>1, <3>1, <3>2
  <2> HIDE DEF P
  <2>4. QED
    BY <1>2, <2>2, <2>3
<1>3. CASE i \notin DOMAIN table
  BY <1>1, <1>3 DEF findSensor
<1>4. QED
  BY <1>2, <1>3

LEMMA SensorBegun ==
  ASSUME ConfigInv, TableInv, NEW scene \in Scenes, SetupSensor(scene)
  PROVE  TableInv'
<1> DEFINE n == configured + 1
           c == sensorConfigs[n]
           offset == readOffsetFromEeprom(eeprom, c.id)
           s == [pin |-> c.pin, offset |-> offset, instance |-> offset,
                 overTempWarning |-> OVER_TEMPERATURE, status |-> scene.chip[c.pin].status,
                 lastValue |-> 0]
<1>1. /\ configured < Len(sensorConfigs) /\ configured' = n /\ pc = "boot" /\ pc' = pc
      /\ sensors' = begin(sensors, c.pin, offset, scene.chip[c.pin].status)
      /\ eeprom' = eeprom /\ dirty' = (dirty /\ configured > 0)
  BY DEF SetupSensor, initialize
<1>2. /\ n \in Sensors /\ n \in 1..Len(sensorConfigs) /\ configured \in Nat /\ n - 1 = configured
      /\ Len(sensors) = configured /\ sensors \in Seq(Amplifiers) /\ DOMAIN sensors = 1..configured
  BY <1>1, ConfigTable DEF TableInv, TableIsOfSensors
<1>3. findSensor(sensors, c.pin) = 0
  <2>1. configured \in 0..Len(sensorConfigs) /\ n \notin DOMAIN sensors
    BY <1>1, <1>2
  <2>2. \A k \in 1..configured : sensors[k].pin = sensorConfigs[k].pin
    BY <1>2 DEF TableInv, TableIsOfSensors
  <2>3. QED
    BY <1>2, <2>1, <2>2, FoundAtItsPlace
<1>4. offset \in Int /\ s \in Amplifiers
  <2>1. offset \in Int
    <3>1. ConfigTypeOK /\ n \in Sensors
      BY <1>2 DEF ConfigInv
    <3> HIDE DEF n
    <3>2. QED
      BY <3>1, OffsetIs
  <2>2. c.pin \in Nat /\ scene.chip[c.pin].status \in Nat
    BY <1>2, ConfigTable, SceneTypes
  <2> HIDE DEF offset, c
  <2>3. offset \in Int /\ 0 \in Int
    BY <2>1
  <2>4. QED
    BY <2>2, <2>3 DEF Amplifiers
<1>5. sensors' = Append(sensors, s)
  BY <1>1, <1>2, <1>3, ConfigTable DEF begin
<1>6. s.pin = c.pin /\ s.offset = offset /\ s.instance = offset
  OBVIOUS
<1> HIDE DEF s
<1>7. /\ sensors' \in Seq(Amplifiers) /\ Len(sensors') = n
      /\ \A i \in 1..configured : sensors'[i] = sensors[i]
      /\ sensors'[n] = s
  BY <1>2, <1>4, <1>5, AppendProperties
<1> HIDE DEF n
<1>8. \A i \in 1..n : i = n \/ i \in 1..configured
  BY <1>2
<1>9. TableIsOfSensors'
  <2>1. n \in 0..Len(sensorConfigs)
    BY <1>2
  <2>2. \A i \in 1..n : sensors'[i].pin = sensorConfigs[i].pin /\ sensors'[i].instance = sensors'[i].offset
    BY <1>6, <1>7, <1>8 DEF TableInv, TableIsOfSensors, c
  <2>3. QED
    BY <1>1, <1>7, <2>1, <2>2 DEF TableIsOfSensors
<1>10. OffsetsAreStored'
  <2> SUFFICES ASSUME ~dirty', NEW i \in 1..n
               PROVE  sensors'[i].instance = readOffsetFromEeprom(eeprom, sensorConfigs[i].id)
    BY <1>1 DEF OffsetsAreStored
  <2>1. CASE i = n
    BY <1>6, <1>7, <2>1 DEF offset, c
  <2>2. CASE i \in 1..configured
    <3>1. configured > 0
      BY <1>2, <2>2
    <3>2. ~dirty
      BY <1>1, <3>1
    <3>3. QED
      BY <1>7, <2>2, <3>2 DEF TableInv, OffsetsAreStored
  <2>3. QED
    BY <1>8, <2>1, <2>2
<1>11. dirty' \in BOOLEAN
  BY <1>1
<1>12. QED
  BY <1>9, <1>10, <1>11 DEF TableInv

LEMMA SceneNumbers ==
  ASSUME NEW scene \in Scenes, NEW i \in Sensors
  PROVE  /\ scene.chip[sensorConfigs[i].pin].status \in Nat
         /\ scene.chip[sensorConfigs[i].pin].temp \in Int
<1>1. ChipTemps \subseteq Int
  BY DEF ChipTemps
<1>2. QED
  BY <1>1, SceneTypes

\* What a reading of all amplifiers leaves in the table.
LEMMA AmplifiersRead ==
  ASSUME TableInv, NEW scene \in Scenes, NEW max, readAll(scene.chip, max)
  PROVE  /\ sensors' \in Seq(Amplifiers) /\ Len(sensors') = configured /\ configured' = configured
         /\ DOMAIN sensors' = 1..configured
         /\ \A i \in 1..configured :
              /\ sensors'[i].pin = sensors[i].pin /\ sensors'[i].instance = sensors[i].instance
              /\ sensors'[i].offset = sensors[i].offset
              /\ sensors'[i].overTempWarning = OVER_TEMPERATURE
              /\ sensors'[i].status = scene.chip[sensorConfigs[i].pin].status
              /\ sensors'[i].lastValue = scene.chip[sensorConfigs[i].pin].temp + sensors[i].instance
<1>1. /\ sensors' = [i \in DOMAIN sensors |-> readTemperature(sensors[i], scene.chip)]
      /\ configured' = configured
  BY DEF readAll
<1>2. /\ sensors \in Seq(Amplifiers) /\ Len(sensors) = configured /\ DOMAIN sensors = 1..configured
      /\ configured \in Nat
  BY ConfigTable DEF TableInv, TableIsOfSensors
<1>3. ASSUME NEW i \in 1..configured
      PROVE  /\ sensors'[i] \in Amplifiers
             /\ sensors'[i].pin = sensors[i].pin /\ sensors'[i].instance = sensors[i].instance
             /\ sensors'[i].offset = sensors[i].offset
             /\ sensors'[i].overTempWarning = OVER_TEMPERATURE
             /\ sensors'[i].status = scene.chip[sensorConfigs[i].pin].status
             /\ sensors'[i].lastValue = scene.chip[sensorConfigs[i].pin].temp + sensors[i].instance
  <2> DEFINE s == sensors[i]
             c == scene.chip[s.pin]
  <2>1. s \in Amplifiers
    BY <1>2
  <2>2. s.pin = sensorConfigs[i].pin /\ i \in Sensors
    BY ConfigTable DEF TableInv, TableIsOfSensors
  <2>3. c.status \in Nat /\ c.temp \in Int
    BY <2>2, SceneNumbers
  <2>4. sensors'[i] = [s EXCEPT !.status = c.status, !.lastValue = c.temp + s.instance]
    BY <1>1, <1>2 DEF readTemperature
  <2> HIDE DEF s, c
  <2>5. s.instance \in Int /\ s.overTempWarning = OVER_TEMPERATURE
    BY <2>1 DEF Amplifiers
  <2>6. c.temp + s.instance \in Int
    BY <2>3, <2>5
  <2>7. /\ sensors'[i].pin = s.pin /\ sensors'[i].instance = s.instance
        /\ sensors'[i].offset = s.offset /\ sensors'[i].overTempWarning = OVER_TEMPERATURE
        /\ sensors'[i].status = c.status /\ sensors'[i].lastValue = c.temp + s.instance
    BY <2>1, <2>4, <2>5 DEF Amplifiers
  <2>8. sensors'[i] \in Amplifiers
    BY <2>1, <2>3, <2>4, <2>6 DEF Amplifiers
  <2>9. QED
    BY <2>2, <2>7, <2>8 DEF s, c
<1>4. sensors' = [i \in 1..configured |-> sensors'[i]]
  BY <1>1, <1>2
<1>5. sensors' \in Seq(Amplifiers) /\ Len(sensors') = configured /\ DOMAIN sensors' = 1..configured
  <2>1. \A i \in 1..configured : sensors'[i] \in Amplifiers
    BY <1>3
  <2>2. QED
    BY <1>2, <1>4, <2>1
<1>6. QED
  BY <1>1, <1>3, <1>5

\* Steps that leave the table and the EEPROM alone.
LEMMA TableKept ==
  ASSUME TableInv, UNCHANGED <<sensors, configured>>, dirty' \in BOOLEAN,
         dirty' \/ (dirty' = dirty /\ eeprom' = eeprom),
         pc' # "boot" => pc # "boot" \/ configured = Len(sensorConfigs)
  PROVE  TableInv'
<1>1. TableIsOfSensors'
  BY DEF TableInv, TableIsOfSensors
<1>2. OffsetsAreStored'
  BY DEF TableInv, OffsetsAreStored
<1>3. QED
  BY <1>1, <1>2 DEF TableInv

LEMMA TableStep ==
  ASSUME ConfigInv, TableInv, [Next]_vars
  PROVE  TableInv'
<1> USE DEF tempVars
<1>0. dirty \in BOOLEAN
  BY DEF TableInv
<1>1. CASE Ignore \/ SendReply
  <2>1. UNCHANGED <<sensors, configured, dirty, eeprom, pc>>
    BY <1>1 DEF Ignore, SendReply, LoopVars
  <2>2. QED
    BY <1>0, <2>1, TableKept
<1>2. CASE WriteHigh
  <2>1. UNCHANGED <<sensors, configured, pc>> /\ dirty' = TRUE
    BY <1>2 DEF WriteHigh, LoopVars
  <2>2. QED
    BY <2>1, TableKept
<1>3. ASSUME NEW f \in Requests,
             handleSetByte(f) \/ handleSetWord(f) \/ handleGetByte(f) \/ handleGetWord(f)
      PROVE  TableInv'
  <2>1. /\ UNCHANGED <<sensors, configured, pc>>
        /\ dirty' = TRUE \/ UNCHANGED <<dirty, eeprom>>
    BY <1>3 DEF handleSetByte, handleSetWord, handleGetByte, handleGetWord, LoopVars
  <2>2. QED
    BY <1>0, <2>1, TableKept
<1>4. ASSUME NEW scene \in Scenes, SetupSensor(scene)
      PROVE  TableInv'
  BY <1>4, SensorBegun
<1>5. ASSUME NEW scene \in Scenes, Sense(scene)
      PROVE  TableInv'
  <2>1. /\ readAll(scene.chip, MAX_SENSORS) /\ UNCHANGED <<eeprom, dirty>>
        /\ pc = "sense" /\ pc' = "send"
    BY <1>5 DEF Sense, configVars
  <2>2. /\ sensors' \in Seq(Amplifiers) /\ Len(sensors') = configured /\ configured' = configured
        /\ \A i \in 1..configured :
             /\ sensors'[i].pin = sensors[i].pin /\ sensors'[i].instance = sensors[i].instance
             /\ sensors'[i].offset = sensors[i].offset
    BY <2>1, AmplifiersRead
  <2>3. TableIsOfSensors'
    BY <2>1, <2>2 DEF TableInv, TableIsOfSensors
  <2>4. OffsetsAreStored'
    BY <2>1, <2>2 DEF TableInv, OffsetsAreStored
  <2>5. QED
    BY <1>0, <2>1, <2>3, <2>4 DEF TableInv
<1>6. CASE SetupDone \/ ConfigDone \/ Send
  <2>1. /\ UNCHANGED <<sensors, configured, dirty, eeprom>>
        /\ pc # "boot" \/ configured = Len(sensorConfigs)
    BY <1>6 DEF SetupDone, ConfigDone, Send, configVars
  <2>2. QED
    BY <1>0, <2>1, TableKept
<1>7. CASE PowerLoss
  <2>1. /\ sensors' = <<>> /\ configured' = 0 /\ pc' = "boot" /\ UNCHANGED <<eeprom, dirty>>
    BY <1>7 DEF PowerLoss, TempPowerLoss
  <2>2. <<>> \in Seq(Amplifiers) /\ Len(<<>>) = 0 /\ 1..0 = {} /\ 0 \in 0..Len(sensorConfigs)
    BY ConfigTable
  <2>3. TableIsOfSensors'
    BY <2>1, <2>2 DEF TableIsOfSensors
  <2>4. OffsetsAreStored'
    BY <2>1, <2>2 DEF OffsetsAreStored
  <2>5. QED
    BY <1>0, <2>1, <2>3, <2>4 DEF TableInv
<1>8. CASE Receiver
  <2>1. UNCHANGED <<sensors, configured, dirty, eeprom, pc>>
    BY <1>8 DEF Receiver, receiveMessage, Shown, engineVars, configVars
  <2>2. QED
    BY <1>0, <2>1, TableKept
<1>9. ASSUME NEW f \in Requests, Request(f)
      PROVE  TableInv'
  <2>1. UNCHANGED <<sensors, configured, dirty, eeprom, pc>>
    BY <1>9 DEF Request
  <2>2. QED
    BY <1>0, <2>1, TableKept
<1>10. CASE UNCHANGED vars
  <2>1. UNCHANGED <<sensors, configured, dirty, eeprom, pc>>
    BY <1>10 DEF vars, configVars
  <2>2. QED
    BY <1>0, <2>1, TableKept
<1>11. QED
  BY <1>1, <1>2, <1>3, <1>4, <1>5, <1>6, <1>7, <1>8, <1>9, <1>10 DEF Next, Loop, Handle

LEMMA TableStarts == Init => TableInv
<1> SUFFICES ASSUME Init
             PROVE  TableInv
  OBVIOUS
<1>1. /\ sensors = <<>> /\ configured = 0 /\ pc = "boot" /\ dirty = FALSE
      /\ <<>> \in Seq(Amplifiers) /\ Len(<<>>) = 0 /\ 1..0 = {} /\ 0 \in 0..Len(sensorConfigs)
  BY ConfigTable DEF Init, TempInit
<1>2. QED
  BY <1>1 DEF TableInv, TableIsOfSensors, OffsetsAreStored

\* The amplifiers run with the offsets that were stored at the last start, whatever was written
\* or half written since (TemperatureManager::initialize, TemperatureSensor::begin).
THEOREM AmplifiersRunWithStoredOffsets == Spec => []OffsetsAreOfBoot
<1>1. Init => ConfigInv /\ TableInv
  BY ConfigStarts, TableStarts
<1>2. ConfigInv /\ TableInv /\ [Next]_vars => ConfigInv' /\ TableInv'
  BY ConfigStep, TableStep
<1>3. ConfigInv /\ TableInv => OffsetsAreOfBoot
  <2> SUFFICES ASSUME ConfigInv, TableInv, pc # "boot", ~dirty, NEW i \in Sensors
               PROVE  \E s \in {sensors[k] : k \in DOMAIN sensors} :
                        /\ s.pin = sensorConfigs[i].pin
                        /\ s.instance = Int16(WordAt(getCalibrationAddress(sensorConfigs[i].id)))
    BY DEF OffsetsAreOfBoot, Sensors
  <2>1. i \in 1..configured /\ i \in DOMAIN sensors
    BY ConfigTable DEF TableInv, TableIsOfSensors
  <2>2. /\ sensors[i].pin = sensorConfigs[i].pin
        /\ sensors[i].instance = readOffsetFromEeprom(eeprom, sensorConfigs[i].id)
    BY <2>1 DEF TableInv, TableIsOfSensors, OffsetsAreStored
  <2>3. QED
    BY <2>1, <2>2, OffsetIs DEF ConfigInv
<1>4. QED
  BY <1>1, <1>2, <1>3, PTL DEF Spec

----------------------------------------------------------------------------
(***************************************************************************)
(* From a measurement to the display: rounding, bytes, the fields of a     *)
(* frame.                                                                  *)
(***************************************************************************)
\* Field f, decoded as v with the warning w, is what its sensor said, t.
FieldShows(f, t, v, w) ==
  /\ w = (t.answer = "measured" /\ t.alarm)
  /\ IF t.answer = "failed" THEN CloseTo(f, v, 0)
     ELSE \E c \in ((t.tenths - 9) \div 10)..((t.tenths + 9) \div 10) : CloseTo(f, v, c)
Shows(measured, decoded) ==
  \A f \in Fields : FieldShows(f, measured[f], decoded.value[f], f \in decoded.warning)

LEMMA RoundIsClose ==
  ASSUME NEW t \in Int
  PROVE  Round(t) \in ((t - 9) \div 10)..((t + 9) \div 10)
<1>1. CASE t >= 0
  BY <1>1 DEF Round
<1>2. CASE t < 0
  BY <1>2 DEF Round
<1>3. QED
  BY <1>1, <1>2

LEMMA TenthIsClose ==
  ASSUME NEW t \in Int
  PROVE  t \div 10 \in ((t - 9) \div 10)..((t + 9) \div 10)
OBVIOUS

\* A byte stands for the value packed to within its step, the ends for all that lies beyond.
LEMMA ByteIsClose ==
  ASSUME NEW off \in Int, NEW step \in 1..3, NEW v \in Int, NEW d, d = packValue(v, off, step) * step + off
  PROVE  /\ v < off => d = off
         /\ v > off + 255 * step => d = off + 255 * step
         /\ v \in off..(off + 255 * step) => v - d \in 0..(step - 1)
<1> DEFINE a == v - off
           q == TruncDiv(a, step)
           b == Constrain(q, 0, 255)
<1>1. a \in Int /\ d = b * step + off /\ v = a + off
  BY DEF packValue
<1>2. \A k \in Int : TruncDiv(k, step) = IF k >= 0 THEN k \div step ELSE -((-k) \div step)
  BY DEF TruncDiv
<1> HIDE DEF a
<1>3. CASE a < 0
  <2>1. q <= 0 /\ q \in Int
    <3>1. q = -((-a) \div step) /\ -a \in Nat
      BY <1>1, <1>2, <1>3
    <3>2. \A k \in Nat : k \div 1 \in Nat /\ k \div 2 \in Nat /\ k \div 3 \in Nat
      OBVIOUS
    <3>3. (-a) \div step \in Nat
      BY ONLY <3>1, <3>2, step \in 1..3
    <3> HIDE DEF q
    <3>4. QED
      BY ONLY <3>1, <3>3
  <2> HIDE DEF q
  <2>2. b = 0
    BY <2>1 DEF Constrain
  <2> HIDE DEF b
  <2>3. QED
    BY <1>1, <1>3, <2>2
<1>4. CASE a >= 0
  <2>1. q = a \div step
    BY <1>1, <1>2, <1>4
  <2>2. q \in Int /\ q >= 0 /\ a - q * step \in 0..(step - 1)
    <3>1. CASE step = 1
      BY <1>1, <1>4, <2>1, <3>1
    <3>2. CASE step = 2
      BY <1>1, <1>4, <2>1, <3>2
    <3>3. CASE step = 3
      BY <1>1, <1>4, <2>1, <3>3
    <3>4. QED
      BY <3>1, <3>2, <3>3
  <2> HIDE DEF q
  <2>3. b = IF q > 255 THEN 255 ELSE q
    BY <2>2 DEF Constrain
  <2> HIDE DEF b
  <2>4. CASE step = 1
    BY <1>1, <1>4, <2>2, <2>3, <2>4
  <2>5. CASE step = 2
    BY <1>1, <1>4, <2>2, <2>3, <2>5
  <2>6. CASE step = 3
    BY <1>1, <1>4, <2>2, <2>3, <2>6
  <2>7. QED
    BY <2>4, <2>5, <2>6
<1>5. QED
  BY <1>1, <1>3, <1>4

\* The receiver finds every field in its byte.
LEMMA Unpacked ==
  ASSUME NEW d, NEW f \in Fields
  PROVE  /\ unpack(pack(d)).value[f] = packValue(d.value[f], Offset[f], Step[f]) * Step[f] + Offset[f]
         /\ f \in unpack(pack(d)).warning <=> f \in d.warning
<1>1. \A g \in Fields : TxByte[g] = TxByte[f] <=> g = f
  BY DEF Fields, TxByte
<1>2. RxByte[f] = TxByte[f] /\ TxByte[f] \in {TxByte[g] : g \in Fields}
  BY DEF Fields, TxByte, RxByte
<1>3. (CHOOSE g \in Fields : TxByte[g] = TxByte[f]) = f
  BY <1>1
<1>4. pack(d).bytes[TxByte[f]] = packValue(d.value[f], Offset[f], Step[f])
  BY <1>2, <1>3 DEF pack
<1>5. unpack(pack(d)).value[f] = unpackValue(pack(d).bytes[RxByte[f]], Offset[f], Step[f])
  BY DEF unpack
<1>6. f \in unpack(pack(d)).warning <=> f \in d.warning
  BY DEF unpack, pack
<1>7. QED
  BY <1>2, <1>4, <1>5, <1>6 DEF unpackValue

LEMMA DecodedIsClose ==
  ASSUME NEW d, NEW f \in Fields, d.value[f] \in Int
  PROVE  CloseTo(f, unpack(pack(d)).value[f], d.value[f])
<1>1. Offset[f] \in Int /\ Step[f] \in 1..3
  BY DEF Fields, Offset, Step
<1> DEFINE v == d.value[f]
           off == Offset[f]
           step == Step[f]
           r == unpack(pack(d)).value[f]
<1>2. r = packValue(v, off, step) * step + off
  BY Unpacked
<1>3. v \in Int
  OBVIOUS
<1> HIDE DEF v, r, off, step
<1>4. /\ v < off => r = off
      /\ v > off + 255 * step => r = off + 255 * step
      /\ v \in off..(off + 255 * step) => v - r \in 0..(step - 1)
  <2>1. off \in Int /\ step \in 1..3
    BY <1>1 DEF off, step
  <2>2. QED
    BY ONLY <1>2, <1>3, <2>1, ByteIsClose
<1>5. CloseTo(f, r, v)
  BY <1>4 DEF CloseTo, Lowest, Highest, off, step
<1>6. QED
  BY <1>5 DEF v, r

\* The one reading of a field decides it.
LEMMA FieldIsOfReading ==
  ASSUME NEW all, NEW f \in Fields, NEW i \in DOMAIN all,
         \A k \in DOMAIN all : FieldOf(all[k].id) = f <=> k = i, all[i].success \in BOOLEAN
  PROVE  /\ DataOf(all, ClearedData).value[f] = IF all[i].success THEN all[i].value ELSE 0
         /\ f \in DataOf(all, ClearedData).warning
              <=> all[i].success /\ all[i].warning /\ f # "ambient"
<1> DEFINE set == Setter(f, all[CHOOSE k \in Succeeded(all, f) : TRUE])
<1>1. /\ DataOf(all, ClearedData).value[f]
           = IF Succeeded(all, f) = {} THEN ClearedData.value[f] ELSE set.value
      /\ f \in DataOf(all, ClearedData).warning
           <=> IF Succeeded(all, f) = {} THEN f \in ClearedData.warning ELSE set.warning
  BY DEF DataOf
<1>2. ClearedData.value[f] = 0 /\ f \notin ClearedData.warning
  BY DEF ClearedData
<1>3. CASE all[i].success
  <2>1. Succeeded(all, f) = {i}
    BY <1>3 DEF Succeeded
  <2>2. (CHOOSE k \in Succeeded(all, f) : TRUE) = i
    BY <2>1
  <2>3. set = Setter(f, all[i])
    BY <2>2
  <2> HIDE DEF set
  <2>4. set.value = all[i].value /\ set.warning = (all[i].warning /\ f # "ambient")
    BY <2>3 DEF Setter
  <2>5. QED
    BY <1>1, <1>3, <2>1, <2>4
<1>4. CASE ~ all[i].success
  <2>1. Succeeded(all, f) = {}
    BY <1>4 DEF Succeeded
  <2>2. QED
    BY <1>1, <1>2, <1>4, <2>1
<1>5. QED
  BY <1>3, <1>4

----------------------------------------------------------------------------
(***************************************************************************)
(* One pass: what the readings, and so the data, are of.                   *)
(***************************************************************************)
\* The oil reading of a pass: nothing when the INA226 failed; else the mean of the samples in tenths
\* of a bar, with a warning when this pass added a sample and the mean is too low.
LEMMA OilReadingIs ==
  ASSUME OilInv, NEW m \in Measurements, OilRead(m)
  PROVE  /\ oilReading'.success \in BOOLEAN /\ oilReading'.warning \in BOOLEAN
         /\ oilReading'.success <=> OilAnswer(m) # "failed"
         /\ oilReading'.warning <=> OilAnswer(m) = "measured" /\ TooLow(recent')
         /\ oilReading'.success => /\ MeanOf(recent') \in Nat
                                  /\ oilReading'.value = MeanOf(recent') \div 10
<1>0. OilInv'
  <2>1. [OilNext]_oilVars
    BY DEF OilNext
  <2>2. QED
    BY <2>1, OilStep
<1>1. CASE ReadUninitialised
  <2>1. oilReading' = NotInit /\ OilAnswer(m) = "failed"
    BY <1>1 DEF ReadUninitialised, OilAnswer
  <2>2. QED
    BY <2>1 DEF NotInit
<1>2. CASE ReadFault(m) \/ ReadPressure(m)
  <2>1. Populate(oilStatus', average')
    <3>1. CASE ReadFault(m)
      BY <3>1 DEF ReadFault
    <3>2. CASE ReadPressure(m)
      BY <3>2 DEF ReadPressure
    <3>3. QED
      BY <1>2, <3>1, <3>2
  <2>2. /\ oilReading'.value = getAveragePressureX10(oilStatus', average')
        /\ oilReading'.warning = isUnderPressure(oilStatus')
        /\ oilReading'.success = ~hasError(oilStatus')
    BY <2>1 DEF Populate
  <2>3. oilReading'.success \in BOOLEAN /\ oilReading'.warning \in BOOLEAN
    BY <2>2 DEF hasError, isUnderPressure
  <2>4. ASSUME oilReading'.success
        PROVE  MeanOf(recent') \in Nat /\ oilReading'.value = MeanOf(recent') \div 10
    <3> DEFINE sum == average'.sum
               n == average'.n
               x == sum \div (10 * n)
    <3>1. oilReading'.value = IF x > 127 THEN 127 ELSE x
      BY <2>2, <2>4 DEF getAveragePressureX10
    <3>2. CASE recent' = <<>>
      <4>1. sum = 0 /\ n = 1
        BY <1>0, <3>2 DEF OilInv, FirstAverage
      <4> HIDE DEF sum, n
      <4>2. x = 0
        BY <4>1
      <4> HIDE DEF x
      <4>3. oilReading'.value = 0 \div 10
        BY <3>1, <4>2
      <4>4. MeanOf(recent') = 0
        BY <3>2 DEF MeanOf
      <4>5. QED
        BY <4>3, <4>4
    <3>3. CASE recent' # <<>>
      <4>1. recent' \in Seq(Pressures) /\ Len(recent') > 0
        BY <1>0, <3>3 DEF OilInv, OilTypeOK
      <4>2. average' = [sum |-> Total(recent', 1, Len(recent')), n |-> Len(recent')]
        BY <1>0, <3>3 DEF OilInv, AverageIsOfSamples
      <4>3. sum \in Nat /\ sum < 1001 * n /\ n \in Nat \ {0}
        BY <4>1, <4>2, WarningFollows
      <4>4. MeanOf(recent') = sum \div n
        BY <4>1, <4>2 DEF MeanOf
      <4> HIDE DEF sum, n
      <4>5. x = (sum \div n) \div 10 /\ sum \div n \in Nat /\ x <= 127
        <5>1. sum \div n \in Nat /\ (sum \div n) * n <= sum
          BY <4>3
        <5>2. x = (sum \div n) \div 10
          BY <4>3
        <5>3. sum \div n < 1001
          <6> DEFINE k == sum \div n
          <6>1. k \in Nat /\ k * n < 1001 * n
            BY <4>3, <5>1
          <6> HIDE DEF k
          <6>2. k < 1001
            BY <4>3, <6>1
          <6>3. QED
            BY <6>2 DEF k
        <5> DEFINE k == sum \div n
        <5>4. k \in Nat /\ k < 1001 /\ x = k \div 10
          BY <5>1, <5>2, <5>3
        <5> HIDE DEF k, x
        <5>5. x <= 127
          BY <5>4
        <5>6. QED
          BY <5>1, <5>2, <5>5
      <4> HIDE DEF x
      <4>6. oilReading'.value = (sum \div n) \div 10
        BY <3>1, <4>5
      <4>7. QED
        BY <4>4, <4>5, <4>6
    <3>4. QED
      BY <3>2, <3>3
  <2>5. CASE ReadFault(m)
    <3>1. oilInit /\ oilStatus' = CircuitFault(m) /\ CircuitFault(m) \in {"ERROR", "OPEN", "SHORT"}
      BY <2>5 DEF ReadFault, CircuitFault
    <3>2. ~isUnderPressure(oilStatus') /\ (hasError(oilStatus') <=> CircuitFault(m) = "ERROR")
      BY <3>1 DEF isUnderPressure, hasError
    <3>3. OilAnswer(m) = IF CircuitFault(m) = "ERROR" THEN "failed" ELSE "kept"
      BY <3>1 DEF OilAnswer
    <3>4. QED
      BY <2>2, <2>3, <2>4, <3>2, <3>3
  <2>6. CASE ReadPressure(m)
    <3> DEFINE low == TooLow(recent')
    <3>1. OilAnswer(m) = "measured"
      BY <2>6 DEF ReadPressure, OilAnswer
    <3>2. oilStatus' = StatusOf(average')
      BY <2>6 DEF ReadPressure
    <3>3. Len(recent') >= 1
      <4> DEFINE p == currentToPressure(m.current, m.voltage)
      <4>1. p \in Pressures /\ Remember(p)
        BY <2>6, PressureType DEF ReadPressure
      <4> HIDE DEF p
      <4>2. QED
        BY <4>1, Remembered DEF OilInv
    <3>4. recent' \in Seq(Pressures) /\ Len(recent') > 0 /\ recent' # <<>>
      BY <1>0, <3>3 DEF OilInv, OilTypeOK
    <3>5. average' = [sum |-> Total(recent', 1, Len(recent')), n |-> Len(recent')]
      BY <1>0, <3>4 DEF OilInv, AverageIsOfSamples
    <3>6. /\ oilStatus' \in {"CRITICAL", "WARNING", "OK"}
          /\ oilStatus' \in {"CRITICAL", "WARNING"} <=> low
      <4> DEFINE sum == average'.sum
                 n == average'.n
      <4>1. sum \in Nat /\ n \in Nat \ {0}
        BY <3>4, <3>5, WarningFollows
      <4>2. low <=> sum < 150 * n
        BY <3>5 DEF TooLow, PRESSURE_WARNING
      <4>3. oilStatus' = IF sum < 80 * n THEN "CRITICAL" ELSE IF sum < 150 * n THEN "WARNING" ELSE "OK"
        BY <3>2 DEF StatusOf, PRESSURE_WARNING, PRESSURE_CRITICAL
      <4> HIDE DEF sum, n, low
      <4>4. sum < 80 * n => sum < 150 * n
        BY <4>1
      <4>5. QED
        BY <4>2, <4>3, <4>4
    <3> HIDE DEF low
    <3>7. (isUnderPressure(oilStatus') <=> low) /\ ~hasError(oilStatus')
      BY <3>6 DEF isUnderPressure, hasError
    <3>8. oilReading'.warning <=> OilAnswer(m) = "measured" /\ low
      BY <2>2, <2>3, <3>1, <3>7
    <3>9. oilReading'.success <=> OilAnswer(m) # "failed"
      BY <2>2, <2>3, <3>1, <3>7
    <3>10. QED
      BY <2>3, <2>4, <3>8, <3>9 DEF low
  <2>7. QED
    BY <1>2, <2>5, <2>6
<1>3. QED
  BY <1>1, <1>2 DEF OilRead

\* Field f is that of the sensors called id.
FieldIs(f, id) == \A x : FieldOf(x) = f <=> x = id

\* A field of the engine's temperatures belongs to exactly one sensor, that of the oil pressure to none.
LEMMA FieldHasSensor ==
  /\ \A f \in Fields \ {"oilPressure"} : \E i \in Sensors : \A k \in Sensors :
       FieldOf(sensorConfigs[k].id) = f <=> k = i
  /\ \A k \in Sensors : FieldOf(sensorConfigs[k].id) # "oilPressure"
  /\ FieldOf("PRESSURE_OIL") = "oilPressure"
<1>1. ASSUME NEW k \in Sensors
      PROVE  FieldOf(sensorConfigs[k].id) # "oilPressure"
  <2>1. sensorConfigs[k].id # "PRESSURE_OIL"
    BY SceneAssumption DEF SceneAssumption, Sensors, getCalibrationAddress
  <2>2. QED
    BY <2>1 DEF FieldOf
<1>2. ASSUME NEW id, NEW f, id \in {"AMB", "EGT_1", "CHT_1", "OIL"}, FieldIs(f, id)
      PROVE  \E i \in Sensors : \A k \in Sensors : FieldOf(sensorConfigs[k].id) = f <=> k = i
  <2>1. PICK i \in Sensors : sensorConfigs[i].id = id
    BY <1>2, SceneAssumption DEF SceneAssumption, Sensors
  <2>2. \A k \in Sensors : sensorConfigs[k].id = id <=> k = i
    BY <2>1, TableAssumption DEF TableAssumption, Sensors
  <2>3. \A k \in Sensors : FieldOf(sensorConfigs[k].id) = f <=> k = i
    BY <1>2, <2>2 DEF FieldIs
  <2>4. QED
    BY <2>3
<1>3. /\ FieldIs("egt1", "EGT_1") /\ FieldIs("cht1", "CHT_1") /\ FieldIs("ambient", "AMB")
      /\ FieldIs("oilTemp", "OIL") /\ FieldOf("PRESSURE_OIL") = "oilPressure"
  BY DEF FieldOf, FieldIs
<1>4. ASSUME NEW f \in Fields \ {"oilPressure"}
      PROVE  \E i \in Sensors : \A k \in Sensors : FieldOf(sensorConfigs[k].id) = f <=> k = i
  <2>1. CASE f = "egt1"
    BY <1>2, <1>3, <2>1
  <2>2. CASE f = "cht1"
    BY <1>2, <1>3, <2>2
  <2>3. CASE f = "ambient"
    BY <1>2, <1>3, <2>3
  <2>4. CASE f = "oilTemp"
    BY <1>2, <1>3, <2>4
  <2>5. QED
    BY <2>1, <2>2, <2>3, <2>4 DEF Fields
<1>5. QED
  BY <1>1, <1>3, <1>4

\* The readings of a pass, by place: the sensors in their order, then the oil pressure.
LEMMA ReadingsAre ==
  ASSUME TableInv, pc = "sense", NEW scene \in Scenes, readAll(scene.chip, MAX_SENSORS), NEW oil
  PROVE  LET all == AllReadings(readings', oil)
             n   == Len(sensorConfigs)
         IN  /\ DOMAIN all = 1..(n + 1) /\ n + 1 \notin Sensors
             /\ \A i \in Sensors : i \in DOMAIN all /\ all[i] = ReadingOf(sensorConfigs[i], sensors'[i])
             /\ \A i \in Sensors : findSensor(sensors', sensorConfigs[i].pin) = i
             /\ all[n + 1] = [id |-> "PRESSURE_OIL", value |-> oil.value, warning |-> oil.warning,
                              success |-> oil.success]
<1> DEFINE n == Len(sensorConfigs)
           o == [id |-> "PRESSURE_OIL", value |-> oil.value, warning |-> oil.warning,
                 success |-> oil.success]
           R == {ReadingOf(sensorConfigs[i], sensors'[i]) : i \in Sensors} \cup {o}
<1>1. n \in Nat /\ Sensors = 1..n /\ n + 1 \notin Sensors /\ n + 1 \in Nat /\ n < MAX_SENSORS
      /\ MAX_SENSORS \in Nat
  BY ConfigTable
<1>2. configured = n
  BY DEF TableInv, TableIsOfSensors
<1>3. /\ DOMAIN sensors' = 1..n
      /\ \A i \in 1..n : sensors'[i].pin = sensorConfigs[i].pin
  BY <1>2, AmplifiersRead DEF TableInv, TableIsOfSensors
<1>4. \A i \in Sensors : findSensor(sensors', sensorConfigs[i].pin) = i
  <2>1. n \in 0..Len(sensorConfigs)
    BY <1>1
  <2> HIDE DEF n
  <2>2. QED
    BY <1>1, <1>3, <2>1, FoundAtItsPlace
<1>5. readings' = [i \in {k \in Sensors : k <= MAX_SENSORS} |->
                     ReadingOf(sensorConfigs[i], sensors'[findSensor(sensors', sensorConfigs[i].pin)])]
  BY DEF readAll, Sensors
<1>6. {k \in Sensors : k <= MAX_SENSORS} = 1..n
  BY <1>1
<1>7. readings' = [i \in 1..n |-> ReadingOf(sensorConfigs[i], sensors'[i])]
  BY <1>1, <1>4, <1>5, <1>6
<1>8. readings' \in Seq(R) /\ Len(readings') = n /\ o \in R
  BY <1>1, <1>7
<1>9. AllReadings(readings', oil) = Append(readings', o)
  BY DEF AllReadings
<1> HIDE DEF R, o
<1>10. /\ DOMAIN Append(readings', o) = 1..(n + 1)
       /\ \A i \in 1..n : Append(readings', o)[i] = readings'[i]
       /\ Append(readings', o)[n + 1] = o
  <2>1. /\ Append(readings', o) \in Seq(R) /\ Len(Append(readings', o)) = n + 1
        /\ \A i \in 1..n : Append(readings', o)[i] = readings'[i]
        /\ Append(readings', o)[n + 1] = o
    BY <1>8, AppendProperties
  <2>2. QED
    BY <2>1
<1>11. \A i \in 1..n : i \in 1..(n + 1)
  BY <1>1
<1>12. QED
  BY <1>1, <1>4, <1>7, <1>9, <1>10, <1>11 DEF o

LEMMA TemperatureShown ==
  ASSUME ConfigInv, TableInv, NEW scene \in Scenes, Sense(scene), NEW f \in Fields \ {"oilPressure"}
  PROVE  FieldShows(f, truth'[f], unpack(pack(data')).value[f], f \in unpack(pack(data')).warning)
<1> DEFINE all == AllReadings(readings', oilReading')
           n == Len(sensorConfigs)
           decoded == unpack(pack(data'))
<1>1. /\ readAll(scene.chip, MAX_SENSORS) /\ pc = "sense" /\ data' = DataOf(all, ClearedData)
      /\ truth'[f] = Measured(scene, f)
  BY DEF Sense
<1>2. PICK i \in Sensors : \A k \in Sensors : FieldOf(sensorConfigs[k].id) = f <=> k = i
  BY FieldHasSensor
<1>3. /\ DOMAIN all = 1..(n + 1) /\ n + 1 \notin Sensors
      /\ \A k \in Sensors : k \in DOMAIN all /\ all[k] = ReadingOf(sensorConfigs[k], sensors'[k])
      /\ findSensor(sensors', sensorConfigs[i].pin) = i
      /\ all[n + 1] = [id |-> "PRESSURE_OIL", value |-> oilReading'.value,
                       warning |-> oilReading'.warning, success |-> oilReading'.success]
  BY <1>1, ReadingsAre
<1>4. \A k \in DOMAIN all : k \in Sensors \/ k = n + 1
  BY <1>3, ConfigTable
<1> DEFINE s == sensors'[i]
           c == scene.chip[sensorConfigs[i].pin]
           t == c.temp + s.offset
           valid == c.status = 0 /\ t # INVALID_TEMPERATURE
<1> HIDE DEF all, n
<1>5. all[n + 1].id = "PRESSURE_OIL" /\ \A k \in Sensors : all[k].id = sensorConfigs[k].id
  <2>1. all[n + 1].id = "PRESSURE_OIL"
    BY <1>3
  <2>2. ASSUME NEW k \in Sensors PROVE all[k].id = sensorConfigs[k].id
    <3>1. all[k] = ReadingOf(sensorConfigs[k], sensors'[k])
      BY <1>3
    <3>2. QED
      BY <3>1 DEF ReadingOf
  <2>3. QED
    BY <2>1, <2>2
<1>6. \A k \in DOMAIN all : FieldOf(all[k].id) = f <=> k = i
  <2>1. FieldOf("PRESSURE_OIL") # f
    BY FieldHasSensor
  <2>2. QED
    BY <1>2, <1>4, <1>5, <2>1
<1>7. /\ s.offset = sensors[i].offset /\ s.instance = s.offset
      /\ s.status = c.status /\ s.overTempWarning = OVER_TEMPERATURE
      /\ s.lastValue = c.temp + s.instance /\ s.offset \in Int /\ c.temp \in Int
  <2>1. i \in 1..configured /\ sensors \in Seq(Amplifiers) /\ Len(sensors) = configured
    BY <1>1, ConfigTable DEF TableInv, TableIsOfSensors
  <2>2. sensors[i].instance = sensors[i].offset
    BY <2>1 DEF TableInv, TableIsOfSensors
  <2>3. sensors[i] \in Amplifiers
    BY <2>1
  <2>4. sensors[i].offset \in Int
    BY <2>3 DEF Amplifiers
  <2>5. c.temp \in Int
    BY SceneNumbers
  <2>6. QED
    BY <1>1, <2>1, <2>2, <2>4, <2>5, AmplifiersRead
<1>8. /\ all[i].value = Round(t) /\ all[i].success \in BOOLEAN
      /\ all[i].warning <=> t > OVER_TEMPERATURE
      /\ all[i].success <=> valid
  <2>1. all[i] = ReadingOf(sensorConfigs[i], s)
    BY <1>3
  <2>2. s.lastValue = t /\ s.overTempWarning = OVER_TEMPERATURE /\ s.status = c.status
    BY <1>7
  <2> HIDE DEF s, t, c
  <2> DEFINE ok == ~hasFault(s) /\ t # INVALID_TEMPERATURE
  <2>3. all[i].value = Round(t) /\ all[i].warning = isOverheated(s) /\ all[i].success = ok
    BY <2>1, <2>2 DEF ReadingOf
  <2>4. (isOverheated(s) <=> t > OVER_TEMPERATURE) /\ (ok <=> valid)
    BY <2>2 DEF isOverheated, hasFault
  <2>5. ok \in BOOLEAN
    OBVIOUS
  <2> HIDE DEF ok, valid
  <2>6. QED
    BY <2>3, <2>4, <2>5
<1>9. truth'[f] = [answer |-> ChipAnswer(c.status, t), tenths |-> t,
                   alarm |-> f # "ambient" /\ t > OVER_TEMPERATURE]
  <2>1. (CHOOSE k \in {sensorConfigs[j] : j \in DOMAIN sensorConfigs} : FieldOf(k.id) = f)
          = sensorConfigs[i]
    BY <1>2 DEF Sensors
  <2>2. QED
    BY <1>1, <1>3, <2>1 DEF Measured
<1>10. t \in Int
  BY <1>7
<1> HIDE DEF s, c, t
<1>11. /\ data'.value[f] = IF valid THEN Round(t) ELSE 0
       /\ f \in data'.warning <=> valid /\ t > OVER_TEMPERATURE /\ f # "ambient"
  <2>1. i \in DOMAIN all
    BY <1>3
  <2>2. /\ data'.value[f] = IF all[i].success THEN all[i].value ELSE 0
        /\ f \in data'.warning <=> all[i].success /\ all[i].warning /\ f # "ambient"
    BY <1>1, <1>6, <1>8, <2>1, FieldIsOfReading
  <2>3. QED
    BY <1>8, <2>2
<1>12. /\ truth'[f].tenths = t /\ truth'[f].answer = IF valid THEN "measured" ELSE "failed"
       /\ truth'[f].alarm <=> f # "ambient" /\ t > OVER_TEMPERATURE
  <2> DEFINE answer == ChipAnswer(c.status, t)
             alarm == f # "ambient" /\ t > OVER_TEMPERATURE
  <2>1. truth'[f] = [answer |-> answer, tenths |-> t, alarm |-> alarm]
    BY <1>9
  <2>2. answer = IF valid THEN "measured" ELSE "failed"
    BY DEF ChipAnswer
  <2> HIDE DEF answer, alarm, valid
  <2>3. truth'[f].answer = answer /\ truth'[f].alarm = alarm /\ truth'[f].tenths = t
    BY <2>1
  <2>4. QED
    BY <2>2, <2>3 DEF alarm
<1> HIDE DEF valid
<1>13. (f \in decoded.warning) = (truth'[f].answer = "measured" /\ truth'[f].alarm)
  <2>1. f \in decoded.warning <=> f \in data'.warning
    BY Unpacked
  <2>2. f \in decoded.warning <=> truth'[f].answer = "measured" /\ truth'[f].alarm
    BY <1>11, <1>12, <2>1
  <2>3. QED
    BY <2>2
<1>14. CASE valid
  <2>1. data'.value[f] = Round(t) /\ Round(t) \in ((t - 9) \div 10)..((t + 9) \div 10)
    BY <1>10, <1>11, <1>14, RoundIsClose
  <2>2. data'.value[f] \in Int
    BY <1>10, <2>1
  <2>3. CloseTo(f, decoded.value[f], data'.value[f])
    BY <2>2, DecodedIsClose
  <2>4. truth'[f].answer # "failed" /\ truth'[f].tenths = t
    BY <1>12, <1>14
  <2>5. QED
    BY <1>13, <2>1, <2>3, <2>4 DEF FieldShows
<1>15. CASE ~valid
  <2>1. data'.value[f] = 0
    BY <1>11, <1>15
  <2>2. CloseTo(f, decoded.value[f], 0)
    BY <2>1, DecodedIsClose
  <2>3. truth'[f].answer = "failed"
    BY <1>12, <1>15
  <2>4. QED
    BY <1>13, <2>2, <2>3 DEF FieldShows
<1>16. QED
  BY <1>14, <1>15

LEMMA PressureShown ==
  ASSUME ConfigInv, TableInv, OilInv, NEW scene \in Scenes, Sense(scene)
  PROVE  FieldShows("oilPressure", truth'["oilPressure"], unpack(pack(data')).value["oilPressure"],
                    "oilPressure" \in unpack(pack(data')).warning)
<1> DEFINE all == AllReadings(readings', oilReading')
           n == Len(sensorConfigs)
           f == "oilPressure"
           decoded == unpack(pack(data'))
           r == oilReading'
           mean == MeanOf(recent')
           low == TooLow(recent')
           answer == OilAnswer(scene.oil)
<1>1. /\ readAll(scene.chip, MAX_SENSORS) /\ pc = "sense" /\ data' = DataOf(all, ClearedData)
      /\ truth'[f] = Measured(scene, f) /\ OilRead(scene.oil) /\ scene.oil \in Measurements
      /\ f \in Fields
  BY SceneAssumption DEF Sense, SceneAssumption, Fields
<1>2. /\ DOMAIN all = 1..(n + 1) /\ n + 1 \notin Sensors
      /\ \A k \in Sensors : all[k] = ReadingOf(sensorConfigs[k], sensors'[k])
      /\ all[n + 1] = [id |-> "PRESSURE_OIL", value |-> r.value, warning |-> r.warning,
                       success |-> r.success]
  BY <1>1, ReadingsAre
<1>3. n + 1 \in DOMAIN all /\ \A k \in DOMAIN all : k \in Sensors \/ k = n + 1
  BY <1>2, ConfigTable
<1>4. /\ r.success \in BOOLEAN /\ r.warning \in BOOLEAN
      /\ r.success <=> answer # "failed"
      /\ r.warning <=> answer = "measured" /\ low
      /\ r.success => /\ mean \in Nat /\ r.value = mean \div 10
  BY <1>1, OilReadingIs
<1> HIDE DEF all, n, r
<1>5. /\ all[n + 1].id = "PRESSURE_OIL" /\ all[n + 1].value = r.value
      /\ all[n + 1].warning = r.warning /\ all[n + 1].success = r.success
  BY <1>2
<1>6. ASSUME NEW k \in DOMAIN all
      PROVE  FieldOf(all[k].id) = f <=> k = n + 1
  <2>1. CASE k = n + 1
    BY <1>5, <2>1, FieldHasSensor
  <2>2. CASE k \in Sensors
    <3>1. all[k] = ReadingOf(sensorConfigs[k], sensors'[k])
      BY <1>2, <2>2
    <3>2. all[k].id = sensorConfigs[k].id
      BY <3>1 DEF ReadingOf
    <3>3. QED
      BY <1>2, <2>2, <3>2, FieldHasSensor
  <2>3. QED
    BY <1>3, <2>1, <2>2
<1>7. truth'[f] = [answer |-> answer, tenths |-> mean, alarm |-> low]
  BY <1>1 DEF Measured
<1> HIDE DEF mean, low, answer
<1>8. truth'[f].answer = answer /\ truth'[f].tenths = mean /\ truth'[f].alarm = low
  BY <1>7
<1>9. /\ data'.value[f] = IF r.success THEN r.value ELSE 0
      /\ f \in data'.warning <=> r.success /\ r.warning
  <2>1. /\ data'.value[f] = IF all[n + 1].success THEN all[n + 1].value ELSE 0
        /\ f \in data'.warning <=> all[n + 1].success /\ all[n + 1].warning /\ f # "ambient"
    BY <1>1, <1>3, <1>4, <1>5, <1>6, FieldIsOfReading
  <2>2. QED
    BY <1>5, <2>1
<1>10. (f \in decoded.warning) = (truth'[f].answer = "measured" /\ truth'[f].alarm)
  <2>1. f \in decoded.warning <=> f \in data'.warning
    BY <1>1, Unpacked
  <2>2. f \in decoded.warning <=> truth'[f].answer = "measured" /\ truth'[f].alarm
    BY <1>4, <1>8, <1>9, <2>1
  <2>3. QED
    BY <2>2
<1>11. CASE r.success
  <2>1. data'.value[f] = mean \div 10 /\ mean \in Nat
    BY <1>4, <1>9, <1>11
  <2>2. data'.value[f] \in Int /\ mean \div 10 \in ((mean - 9) \div 10)..((mean + 9) \div 10)
    BY <2>1, TenthIsClose
  <2>3. CloseTo(f, decoded.value[f], data'.value[f])
    BY <1>1, <2>2, DecodedIsClose
  <2>4. truth'[f].answer # "failed" /\ truth'[f].tenths = mean
    BY <1>4, <1>8, <1>11
  <2>5. QED
    BY <1>10, <2>1, <2>2, <2>3, <2>4 DEF FieldShows
<1>12. CASE ~r.success
  <2>1. data'.value[f] = 0
    BY <1>9, <1>12
  <2>2. CloseTo(f, decoded.value[f], 0)
    BY <1>1, <2>1, DecodedIsClose
  <2>3. truth'[f].answer = "failed"
    BY <1>4, <1>8, <1>12
  <2>4. QED
    BY <1>10, <2>2, <2>3 DEF FieldShows
<1>13. QED
  BY <1>4, <1>11, <1>12

----------------------------------------------------------------------------
(***************************************************************************)
(* Frames: every one on the bus shows the pass it was made of.             *)
(***************************************************************************)
Sound(f) == f.id = "ENGINE_DATA_1" => Shows(f.truth, unpack(f.frame))
IsSeq(s) == \E S : s \in Seq(S)

FramesAreOfPasses ==
  /\ pc = "send" => Shows(truth, unpack(pack(data)))
  /\ IsSeq(rxRecv) /\ \A i \in 1..Len(rxRecv) : Sound(rxRecv[i])
  /\ shown.id = "ENGINE_DATA_1" => Shows(shown.truth, shown.readings)

LEMMA DeliveredSound ==
  ASSUME IsSeq(rxRecv), \A i \in 1..Len(rxRecv) : Sound(rxRecv[i]), NEW f, Sound(f),
         Deliver(f) \/ UNCHANGED rxRecv
  PROVE  IsSeq(rxRecv') /\ \A i \in 1..Len(rxRecv') : Sound(rxRecv'[i])
<1>1. CASE UNCHANGED rxRecv
  BY <1>1
<1>2. CASE rxRecv' = Append(rxRecv, f)
  <2>1. PICK S : rxRecv \in Seq(S)
    BY DEF IsSeq
  <2>2. rxRecv \in Seq(S \cup {f})
    BY <2>1
  <2>3. /\ rxRecv' \in Seq(S \cup {f}) /\ Len(rxRecv') = Len(rxRecv) + 1
        /\ \A i \in 1..Len(rxRecv) : rxRecv'[i] = rxRecv[i]
        /\ rxRecv'[Len(rxRecv) + 1] = f
    BY <1>2, <2>2, AppendProperties
  <2>4. \A i \in 1..Len(rxRecv') : i \in 1..Len(rxRecv) \/ i = Len(rxRecv) + 1
    BY <2>1, <2>3
  <2>5. QED
    BY <2>3, <2>4 DEF IsSeq
<1>3. QED
  BY <1>1, <1>2 DEF Deliver

LEMMA FramesStep ==
  ASSUME ConfigInv, TableInv, OilInv, FramesAreOfPasses, [Next]_vars
  PROVE  FramesAreOfPasses'
<1> USE DEF recvVars
<1>0. /\ IsSeq(rxRecv) /\ \A i \in 1..Len(rxRecv) : Sound(rxRecv[i])
      /\ pc = "send" => Shows(truth, unpack(pack(data)))
      /\ shown.id = "ENGINE_DATA_1" => Shows(shown.truth, shown.readings)
  BY DEF FramesAreOfPasses
<1>1. CASE Ignore \/ WriteHigh \/ UNCHANGED vars
  <2>1. UNCHANGED <<pc, truth, data, rxRecv, shown>>
    BY <1>1 DEF Ignore, WriteHigh, LoopVars, vars
  <2>2. QED
    BY <1>0, <2>1 DEF FramesAreOfPasses
<1>2. ASSUME NEW f \in Requests,
             handleSetByte(f) \/ handleSetWord(f) \/ handleGetByte(f) \/ handleGetWord(f)
      PROVE  FramesAreOfPasses'
  <2>1. UNCHANGED <<pc, truth, data, rxRecv, shown>>
    BY <1>2 DEF handleSetByte, handleSetWord, handleGetByte, handleGetWord, LoopVars
  <2>2. QED
    BY <1>0, <2>1 DEF FramesAreOfPasses
<1>3. CASE SendReply
  <2> DEFINE f == [id |-> task.id, addr |-> task.addr, lo |-> task.lo, hi |-> task.hi]
  <2>1. /\ UNCHANGED <<pc, truth, data, shown>> /\ (Deliver(f) \/ UNCHANGED rxRecv)
        /\ task.step \in {"confirm", "answer"}
    BY <1>3 DEF SendReply, LoopVars, sendMessage
  <2>2. task.id \in {"BYTE_VALUE", "WORD_VALUE"}
    <3>1. task # NoTask
      BY <2>1 DEF NoTask
    <3>2. QED
      BY <3>1 DEF ConfigInv, ConfigTypeOK
  <2>3. Sound(f)
    BY <2>2 DEF Sound
  <2> HIDE DEF f
  <2>4. IsSeq(rxRecv') /\ \A i \in 1..Len(rxRecv') : Sound(rxRecv'[i])
    BY <1>0, <2>1, <2>3, DeliveredSound
  <2>5. QED
    BY <1>0, <2>1, <2>4 DEF FramesAreOfPasses
<1>4. ASSUME NEW scene \in Scenes, Sense(scene)
      PROVE  FramesAreOfPasses'
  <2>1. UNCHANGED <<rxRecv, shown>>
    BY <1>4 DEF Sense
  <2>2. \A f \in Fields : FieldShows(f, truth'[f], unpack(pack(data')).value[f],
                                     f \in unpack(pack(data')).warning)
    BY <1>4, TemperatureShown, PressureShown
  <2>3. Shows(truth', unpack(pack(data')))
    BY <2>2 DEF Shows
  <2>4. QED
    BY <1>0, <2>1, <2>3 DEF FramesAreOfPasses
<1>5. CASE Send
  <2> DEFINE f == [id |-> "ENGINE_DATA_1", frame |-> pack(data), truth |-> truth]
  <2>1. /\ pc = "send" /\ pc' = "config" /\ shown' = shown
        /\ Deliver(f) \/ UNCHANGED rxRecv
    BY <1>5 DEF Send, sendMessage
  <2>2. Sound(f)
    BY <1>0, <2>1 DEF Sound
  <2> HIDE DEF f
  <2>3. IsSeq(rxRecv') /\ \A i \in 1..Len(rxRecv') : Sound(rxRecv'[i])
    BY <1>0, <2>1, <2>2, DeliveredSound
  <2>4. QED
    BY <1>0, <2>1, <2>3 DEF FramesAreOfPasses
<1>6. ASSUME NEW scene \in Scenes, SetupSensor(scene)
      PROVE  FramesAreOfPasses'
  <2>1. UNCHANGED <<pc, rxRecv, shown, truth, data>>
    BY <1>6 DEF SetupSensor
  <2>2. QED
    BY <1>0, <2>1 DEF FramesAreOfPasses
<1>7. CASE SetupDone \/ ConfigDone \/ PowerLoss
  <2>1. UNCHANGED <<rxRecv, shown>> /\ pc' # "send"
    BY <1>7 DEF SetupDone, ConfigDone, PowerLoss
  <2>2. QED
    BY <1>0, <2>1 DEF FramesAreOfPasses
<1>8. ASSUME NEW f \in Requests, Request(f)
      PROVE  FramesAreOfPasses'
  <2>1. UNCHANGED <<pc, truth, data, shown>> /\ Deliver(f)
    BY <1>8 DEF Request
  <2>2. Sound(f)
    BY RequestTypes DEF Sound
  <2>3. IsSeq(rxRecv') /\ \A i \in 1..Len(rxRecv') : Sound(rxRecv'[i])
    BY <1>0, <2>1, <2>2, DeliveredSound
  <2>4. QED
    BY <1>0, <2>1, <2>3 DEF FramesAreOfPasses
<1>9. CASE receiveMessage
  <2> DEFINE f == Head(rxRecv)
  <2>1. /\ UNCHANGED <<pc, truth, data>> /\ rxRecv # <<>> /\ rxRecv' = Tail(rxRecv)
        /\ shown' = decodeEngineData1(f) \/ (f.id # "ENGINE_DATA_1" /\ shown' = [id |-> f.id])
    BY <1>9 DEF receiveMessage, receiverAvailable, engineVars
  <2>2. PICK S : rxRecv \in Seq(S)
    BY <1>0 DEF IsSeq
  <2>3. /\ rxRecv' \in Seq(S) /\ Len(rxRecv') = Len(rxRecv) - 1 /\ Len(rxRecv) \in Nat
        /\ Len(rxRecv) >= 1 /\ f = rxRecv[1]
        /\ \A i \in 1..Len(rxRecv') : rxRecv'[i] = rxRecv[i + 1]
    BY <2>1, <2>2, HeadTailProperties
  <2>4. Sound(f)
    BY <1>0, <2>3
  <2>5. \A i \in 1..Len(rxRecv') : Sound(rxRecv'[i])
    <3>1. \A i \in 1..Len(rxRecv') : i + 1 \in 1..Len(rxRecv)
      BY <2>3
    <3>2. QED
      BY <1>0, <2>3, <3>1
  <2> HIDE DEF f
  <2>6. shown'.id = "ENGINE_DATA_1" => Shows(shown'.truth, shown'.readings)
    <3>1. CASE shown' = decodeEngineData1(f)
      <4>1. shown'.id = f.id /\ shown'.truth = f.truth /\ shown'.readings = unpack(f.frame)
        BY <3>1 DEF decodeEngineData1
      <4>2. QED
        BY <2>4, <4>1 DEF Sound
    <3>2. CASE f.id # "ENGINE_DATA_1" /\ shown' = [id |-> f.id]
      BY <3>2
    <3>3. QED
      BY <2>1, <3>1, <3>2
  <2>7. IsSeq(rxRecv')
    BY <2>3 DEF IsSeq
  <2>8. QED
    BY <1>0, <2>1, <2>5, <2>6, <2>7 DEF FramesAreOfPasses
<1>10. CASE Shown
  <2>1. UNCHANGED <<pc, truth, data, rxRecv, shown>>
    BY <1>10 DEF Shown, engineVars
  <2>2. QED
    BY <1>0, <2>1 DEF FramesAreOfPasses
<1>11. QED
  BY <1>1, <1>2, <1>3, <1>4, <1>5, <1>6, <1>7, <1>8, <1>9, <1>10 DEF Next, Loop, Handle, Receiver

EngineInv == ConfigInv /\ TableInv /\ OilInv /\ FramesAreOfPasses

\* The display shows what the sensors said in one pass, field by field, to within rounding and the
\* step of the byte, however many frames were lost; a failed sensor, and a reading of exactly the mark
\* -999, is a zero without a warning (TemperatureManager.h:159). The oil pressure of an open or
\* shorted sender is the mean of earlier passes, without a warning (OilPressureSensor.h:257-267).
THEOREM DisplayIsWhatSensorsSaid == Spec => []ShownIsWhatSensorsSaid
<1>1. Init => EngineInv
  <2> SUFFICES ASSUME Init
               PROVE  EngineInv
    OBVIOUS
  <2>1. ConfigInv /\ TableInv
    BY ConfigStarts, TableStarts
  <2>2. OilInv
    BY OilStarts DEF Init
  <2>3. FramesAreOfPasses
    <3>1. pc = "boot" /\ rxRecv = <<>> /\ shown = [id |-> "nothing"]
      BY DEF Init, Nothing
    <3>2. <<>> \in Seq({}) /\ Len(<<>>) = 0 /\ 1..0 = {}
      OBVIOUS
    <3>3. IsSeq(rxRecv)
      BY <3>1, <3>2 DEF IsSeq
    <3>4. QED
      BY <3>1, <3>2, <3>3 DEF FramesAreOfPasses
  <2>4. QED
    BY <2>1, <2>2, <2>3 DEF EngineInv
<1>2. EngineInv /\ [Next]_vars => EngineInv'
  BY ConfigStep, TableStep, SensorRuns, OilStep, FramesStep DEF EngineInv
<1>3. EngineInv => ShownIsWhatSensorsSaid
  <2> SUFFICES ASSUME EngineInv, shown.id = "ENGINE_DATA_1", NEW f \in Fields
               PROVE  FieldShows(f, shown.truth[f], shown.readings.value[f],
                                 f \in shown.readings.warning)
    BY DEF ShownIsWhatSensorsSaid, FieldShows
  <2>1. QED
    BY DEF EngineInv, FramesAreOfPasses, Shows
<1>4. QED
  BY <1>1, <1>2, <1>3, PTL DEF Spec
=============================================================================
