-------------------------- MODULE RpmSensor_proofs --------------------------
(***************************************************************************)
(* For every counter width, every pulse divisor and every number of edges: *)
(* the counter of RpmSensor never loses or doubles a pulse unnoticed, and  *)
(* readRpm() is an atomic read-and-clear.                                  *)
(***************************************************************************)
EXTENDS RpmSensor, TLAPS

\* The abstract counter's modulus and the result of readRpm stay in range.
LEMMA ModRange == \A x \in Nat : x % CountMod \in 0 .. CountMod - 1
  BY RpmAssumption DEF RpmAssumption

LEMMA RpmType ==
  ASSUME NEW n \in Nat, NEW p \in Nat \ {0}, NEW ms \in Nat
  PROVE  Rpm(n, p, ms) \in Nat
<1>1. CASE n = 0 \/ ms = 0
  BY <1>1 DEF Rpm
<1>2. CASE n # 0 /\ ms # 0
  <2> DEFINE q == (n * MsPerMinute) \div (p * ms)
  <2>1. p * ms \in Nat \ {0}
    BY <1>2
  <2>2. n * MsPerMinute \in Nat
    BY RpmAssumption DEF RpmAssumption
  <2>3. q \in Nat
    BY <2>1, <2>2
  <2>4. q % CountMod \in Nat
    BY <2>3, ModRange, RpmAssumption DEF RpmAssumption
  <2>5. QED
    BY <1>2, <2>4 DEF Rpm
<1>3. QED
  BY <1>1, <1>2

\* Type correctness, for every value of the constants.
THEOREM TypeCorrect == Spec => []TypeOK
<1>1. Init => TypeOK
  <2> SUFFICES ASSUME Init PROVE TypeOK
    OBVIOUS
  <2>1. 0 \in 0 .. CountMod - 1 /\ 1 \in Nat \ {0} /\ 0 \in Nat
    BY RpmAssumption DEF RpmAssumption
  <2>2. QED
    BY <2>1, Zenon DEF Init, TypeOK
<1>2. TypeOK /\ [Next]_vars => TypeOK'
  <2> SUFFICES ASSUME TypeOK, [Next]_vars
               PROVE  TypeOK'
    OBVIOUS
  <2> USE RpmAssumption, SensorAssumption DEF SensorAssumption, RpmAssumption, TypeOK, history
  <2>1. CASE begin
    BY <2>1 DEF begin
  <2>2. CASE Edge
    BY <2>2 DEF Edge
  <2>3. CASE pulseIsr
    <3>1. pulseCount' \in 0 .. CountMod - 1
      BY <2>3, ModRange DEF pulseIsr
    <3>2. wrapped' \in Nat
      BY <2>3 DEF pulseIsr
    <3>3. QED
      BY <2>3, <3>1, <3>2, Zenon DEF pulseIsr
  <2>4. CASE noInterrupts
    BY <2>4 DEF noInterrupts
  <2>5. CASE CopyCount
    BY <2>5 DEF CopyCount
  <2>6. CASE ClearCount
    BY <2>6 DEF ClearCount
  <2>7. CASE interrupts
    BY <2>7 DEF interrupts
  <2>8. CASE ReturnRpm
    <3>1. rpm' \in Nat
      BY <2>8, RpmType DEF ReturnRpm
    <3>2. QED
      BY <2>8, <3>1 DEF ReturnRpm
  <2>9. CASE UNCHANGED vars
    BY <2>9 DEF vars
  <2>10. QED
    BY <2>1, <2>2, <2>3, <2>4, <2>5, <2>6, <2>7, <2>8, <2>9 DEF Next, readRpm
<1>3. QED
  BY <1>1, <1>2, PTL DEF Spec

\* While readRpm() holds the counter the handler cannot run: what it clears is what it
\* copied.
THEOREM Masked == Spec => []MaskedWhileCopying
<1>1. Init => MaskedWhileCopying
  BY DEF Init, MaskedWhileCopying
<1>2. TypeOK /\ MaskedWhileCopying /\ [Next]_vars => MaskedWhileCopying'
  <2> SUFFICES ASSUME TypeOK, MaskedWhileCopying, [Next]_vars
               PROVE  MaskedWhileCopying'
    OBVIOUS
  \* begin, an edge and a stutter leave alone what readRpm() and the handler share.
  <2>shared. CASE UNCHANGED <<enabled, pc, count, pulseCount>>
    BY <2>shared DEF MaskedWhileCopying
  \* The handler changes the counter, but never between noInterrupts() and interrupts().
  <2>handler. CASE pulseIsr
    <3>1. pc \notin {"copy", "clear", "enable"} /\ pc' = pc /\ enabled' = enabled
      BY <2>handler DEF pulseIsr, MaskedWhileCopying
    <3>2. QED
      BY <3>1 DEF MaskedWhileCopying, TypeOK
  \* Each statement of readRpm() hands on what the next one relies on.
  <2>reading. CASE readRpm
    <3>1. CASE noInterrupts \/ CopyCount
      BY <3>1 DEF noInterrupts, CopyCount, MaskedWhileCopying, TypeOK, history
    <3>2. CASE ClearCount \/ interrupts \/ ReturnRpm
      BY <3>2 DEF ClearCount, interrupts, ReturnRpm, MaskedWhileCopying, TypeOK, history
    <3>3. QED
      BY <2>reading, <3>1, <3>2 DEF readRpm
  <2> QED
    BY <2>shared, <2>handler, <2>reading DEF Next, begin, Edge, vars
<1>3. QED
  BY <1>1, <1>2, TypeCorrect, PTL DEF Spec

\* No pulse is lost or counted twice unnoticed, wherever the handler interrupts readRpm().
THEOREM Conservation == Spec => []EdgesConserved
<1>1. Init => EdgesConserved
  BY DEF Init, EdgesConserved, Unread
<1>2. TypeOK /\ MaskedWhileCopying /\ EdgesConserved /\ [Next]_vars => EdgesConserved'
  <2> SUFFICES ASSUME TypeOK, MaskedWhileCopying, EdgesConserved, [Next]_vars
               PROVE  EdgesConserved'
    OBVIOUS
  <2> USE DEF TypeOK, MaskedWhileCopying, EdgesConserved, Unread, history
  <2>1. CASE begin
    BY <2>1 DEF begin
  <2>2. CASE Edge
    BY <2>2 DEF Edge
  <2>3. CASE pulseIsr
    <3>1. CASE pulseCount + 1 = CountMod
      <4>1. pulseCount' = 0
        BY <2>3, <3>1, RpmAssumption DEF RpmAssumption, pulseIsr
      <4>2. QED
        BY <2>3, <3>1, <4>1, RpmAssumption DEF RpmAssumption, pulseIsr
    <3>2. CASE pulseCount + 1 # CountMod
      <4>1. pulseCount' = pulseCount + 1
        BY <2>3, <3>2, RpmAssumption DEF RpmAssumption, pulseIsr
      <4>2. QED
        BY <2>3, <3>2, <4>1 DEF pulseIsr
    <3>3. QED
      BY <3>1, <3>2
  <2>4. CASE noInterrupts
    BY <2>4 DEF noInterrupts
  <2>5. CASE CopyCount
    BY <2>5 DEF CopyCount
  <2>6. CASE ClearCount
    BY <2>6 DEF ClearCount
  <2>7. CASE interrupts
    BY <2>7 DEF interrupts
  <2>8. CASE ReturnRpm
    BY <2>8 DEF ReturnRpm
  <2>9. CASE UNCHANGED vars
    BY <2>9 DEF vars
  <2>10. QED
    BY <2>1, <2>2, <2>3, <2>4, <2>5, <2>6, <2>7, <2>8, <2>9 DEF Next, readRpm
<1>3. QED
  BY <1>1, <1>2, TypeCorrect, Masked, PTL DEF Spec

\* readRpm(), four statements interleaved with the handler, implements an indivisible
\* read-and-clear of an atomic pulse counter.
THEOREM Refinement == Spec => ImplementsPulseCounter
<1>1. Init => Abstract!PCInit
  <2> SUFFICES ASSUME Init PROVE Taken = 0 /\ Unread = 0 /\ count = 0
    BY DEF Abstract!PCInit
  <2>1. ~flag
    BY Zenon DEF Init
  <2>2. edges = 0 /\ missed = 0 /\ pulseCount = 0 /\ count = 0 /\ pc = "idle"
    BY DEF Init
  <2>3. Taken = edges - missed - 0
    BY <2>1, Zenon DEF Taken
  <2>4. QED
    BY <2>2, <2>3 DEF Unread
<1>2. TypeOK /\ MaskedWhileCopying /\ [Next]_vars
        => [Abstract!TakePulse \/ Abstract!Read]_<<Taken, Unread, count>>
  <2> SUFFICES ASSUME TypeOK, MaskedWhileCopying, [Next]_vars
               PROVE  [Abstract!TakePulse \/ Abstract!Read]_<<Taken, Unread, count>>
    OBVIOUS
  <2> USE DEF TypeOK, MaskedWhileCopying, Unread, Taken, history
  <2>1. CASE pulseIsr
    <3>1. flag /\ ~flag' /\ pc # "clear" /\ pc' = pc
      BY <2>1 DEF pulseIsr
    <3>2. edges' = edges /\ missed' = missed /\ pulseCount' = (pulseCount + 1) % CountMod
      BY <2>1 DEF pulseIsr
    <3>3. Taken' = Taken + 1
      BY <3>1, <3>2
    <3>4. Unread' = (Unread + 1) % CountMod
      BY <3>1, <3>2
    <3>5. count' = count
      BY <2>1 DEF pulseIsr
    <3>6. QED
      BY <3>3, <3>4, <3>5 DEF Abstract!TakePulse
  <2>2. CASE CopyCount
    <3>1. Taken' = Taken /\ Unread' = 0 /\ count' = Unread
      BY <2>2 DEF CopyCount
    <3>2. QED
      BY <3>1 DEF Abstract!Read
  <2>3. CASE ClearCount
    BY <2>3 DEF ClearCount
  <2>4. CASE begin
    BY <2>4 DEF begin
  <2>5. CASE Edge
    <3>1. /\ flag' /\ edges' = edges + 1 /\ missed' = IF flag THEN missed + 1 ELSE missed
          /\ pulseCount' = pulseCount /\ pc' = pc /\ count' = count
      BY <2>5 DEF Edge
    <3>2. CASE flag
      BY <3>1, <3>2
    <3>3. CASE ~flag
      BY <3>1, <3>3
    <3>4. QED
      BY <3>2, <3>3
  <2>6. CASE noInterrupts \/ interrupts \/ ReturnRpm
    <3>1. /\ flag' = flag /\ edges' = edges /\ missed' = missed /\ count' = count
          /\ pulseCount' = pulseCount /\ pc # "clear" /\ pc' # "clear"
      BY <2>6 DEF noInterrupts, interrupts, ReturnRpm
    <3>2. QED
      BY <3>1
  <2>7. CASE UNCHANGED vars
    BY <2>7 DEF vars
  <2>8. QED
    BY <2>1, <2>2, <2>3, <2>4, <2>5, <2>6, <2>7 DEF Next, readRpm
<1>3. QED
  BY <1>1, <1>2, TypeCorrect, Masked, PTL DEF Spec, ImplementsPulseCounter, Abstract!PCSpec
=============================================================================
