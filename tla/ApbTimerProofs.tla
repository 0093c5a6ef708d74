---------------------------- MODULE ApbTimerProofs ----------------------------
(***************************************************************************)
(* Proofs about the timers, for any number of timers of any width and any  *)
(* control and compare words.                                              *)
(***************************************************************************)
EXTENDS ApbTimer, TLAPS

\* The driver (sw/common/API/src/timer.c) only ever clears TIMER.
DriverWords == TimerWords \subseteq {0}

LEMMA InitTypeOK == Init => TypeOK
BY TimerAssumption DEF Init, TypeOK

LEMMA ClockTypeOK ==
  ASSUME TypeOK, Clock
  PROVE  TypeOK'
<1>1. \A t \in TimerId : CountedTimer(t) \in 0..WordMax
  BY TimerAssumption DEF TypeOK, CountedTimer
<1>2. \A t \in TimerId : NextCycleCounter(t) \in 0..WordMax
  BY TimerAssumption DEF TypeOK, NextCycleCounter
<1>3. \A t \in TimerId, r \in {"TIMER", "CTRL", "CMP"} :
        Writes(t, r) => bus.data \in 0..WordMax
  BY TimerAssumption DEF TypeOK, Writes, Access
<1>4. timer' \in [TimerId -> 0..WordMax]
  BY <1>1, <1>3, TimerAssumption DEF Clock, NextTimer
<1>5. ctrl' \in [TimerId -> 0..WordMax] /\ cmp' \in [TimerId -> 0..WordMax]
  BY <1>3 DEF Clock, TypeOK
<1>6. cycle_counter' \in [TimerId -> 0..WordMax]
  BY <1>2 DEF Clock
<1> QED
  BY <1>4, <1>5, <1>6 DEF Clock, TypeOK

\* The registers keep their width.
THEOREM TypeCorrect == Spec => []TypeOK
<1>1. TypeOK /\ [Clock]_vars => TypeOK'
  BY ClockTypeOK DEF vars, TypeOK
<1> QED
  BY InitTypeOK, <1>1, PTL DEF Spec

\* One cycle that does not write TIMER leaves a timer within its compare value.
LEMMA StaysWithinCompare ==
  ASSUME TypeOK, Clock,
         NEW t \in TimerId, WithinCompare(t), ~Writes(t, "TIMER")
  PROVE  WithinCompare(t)'
<1>0. timer[t] \in 0..WordMax /\ cmp[t] \in 0..WordMax
  BY DEF TypeOK
<1>1. CASE Writes(t, "CMP")
  <2>1. timer'[t] = 0 /\ cmp'[t] = bus.data /\ bus.data \in 0..WordMax
    BY <1>1, TimerAssumption DEF Clock, NextTimer, Writes, TypeOK, Access
  <2> QED BY <2>1, TimerAssumption DEF WithinCompare
<1>2. CASE ~Writes(t, "CMP")
  <2>1. timer'[t] = CountedTimer(t) /\ cmp'[t] = cmp[t]
    BY <1>2 DEF Clock, NextTimer
  <2>2. CASE irq_o(t)
    BY <1>0, <2>1, <2>2 DEF CountedTimer, WithinCompare
  <2>3. CASE ~irq_o(t) /\ cmp[t] # 0
    <3>1. timer[t] < cmp[t]
      BY <1>0, <2>3 DEF irq_o, compare_irq, WithinCompare
    <3>2. (timer[t] + 1) % (WordMax + 1) = timer[t] + 1
      BY <1>0, <3>1, TimerAssumption
    <3> QED BY <1>0, <2>1, <2>3, <3>1, <3>2 DEF CountedTimer, WithinCompare
  <2>4. CASE cmp[t] = 0
    BY <2>1, <2>4 DEF WithinCompare
  <2> QED BY <2>2, <2>3, <2>4
<1> QED BY <1>1, <1>2

\* Counting never steps over the compare value, for every width and all words
\* that software may write.
THEOREM CompareNeverSkipped == Spec => NeverSkipsCompare
<1> DEFINE Kept == \A t \in TimerId :
                     WithinCompare(t) /\ ~Writes(t, "TIMER") => WithinCompare(t)'
<1>1. TypeOK /\ Clock => Kept
  BY StaysWithinCompare
<1>2. TypeOK /\ [Clock]_vars => [Kept]_vars
  BY <1>1
<1> QED
  BY TypeCorrect, <1>2, PTL DEF Spec, NeverSkipsCompare

\* So a timer that is only used through the driver is never past it.
THEOREM DriverNeverSkips ==
  ASSUME DriverWords
  PROVE  Spec => [](\A t \in TimerId : WithinCompare(t))
<1> DEFINE Within == \A t \in TimerId : WithinCompare(t)
<1>1. Init => Within
  BY DEF Init, WithinCompare
<1>2. ASSUME TypeOK, Within, Clock
      PROVE  Within'
  <2> SUFFICES ASSUME NEW t \in TimerId
               PROVE  WithinCompare(t)'
    OBVIOUS
  <2>1. CASE ~Writes(t, "TIMER")
    BY <1>2, <2>1, StaysWithinCompare
  <2>2. CASE Writes(t, "TIMER")
    <3>1. timer'[t] = 0 /\ cmp'[t] = cmp[t]
      BY <1>2, <2>2 DEF Clock, NextTimer, Writes, TypeOK, Access, DriverWords
    <3>2. cmp[t] \in 0..WordMax
      BY <1>2 DEF TypeOK
    <3> QED BY <3>1, <3>2, TimerAssumption DEF WithinCompare
  <2> QED BY <2>1, <2>2
<1>3. TypeOK /\ Within /\ [Clock]_vars => Within'
  BY <1>2 DEF vars, WithinCompare
<1> QED
  BY <1>1, <1>3, TypeCorrect, PTL DEF Spec

\* An interrupt request lasts one cycle, for every width and every set of
\* words software may write.
THEOREM IrqPulses == Spec => IrqIsPulse
<1> DEFINE Pulse == \A t \in TimerId : irq_o(t) /\ ~Writes(t, "TIMER") => ~irq_o(t)'
<1>1. ASSUME TypeOK, Clock
      PROVE  Pulse
  <2> SUFFICES ASSUME NEW t \in TimerId, irq_o(t), ~Writes(t, "TIMER")
               PROVE  ~irq_o(t)'
    BY <1>1
  <2>1. timer'[t] = 0
    BY <1>1 DEF Clock, NextTimer, CountedTimer
  <2> QED
    BY <2>1, TimerAssumption DEF irq_o, overflow_irq, compare_irq
<1>2. TypeOK /\ [Clock]_vars => [Pulse]_vars
  BY <1>1
<1> QED
  BY TypeCorrect, <1>2, PTL DEF Spec, IrqIsPulse

\* One cycle of an enabled timer.
LEMMA OneCycleNearer ==
  ASSUME TypeOK, Clock,
         NEW t \in TimerId, enable(t), bus = None, ~irq_o(t)
  PROVE  \/ timer'[t] = timer[t] + 1
         \/ /\ timer'[t] = timer[t]
            /\ CyclesToCount(t)' < CyclesToCount(t)
            /\ CyclesToCount(t) \in 1..ctrl[t] + 1
<1> DEFINE pre == prescaler_int(t)
<1>1. timer[t] \in 0..WordMax /\ cycle_counter[t] \in 0..WordMax /\ ctrl[t] \in 0..WordMax
  BY DEF TypeOK
<1>2. WordMax \in Nat /\ \A n \in 0..WordMax : n % (WordMax + 1) = n
  BY TimerAssumption
<1>3. pre \in Nat /\ pre <= ctrl[t]
  BY <1>1 DEF prescaler_int
<1>4. /\ ctrl'[t] = ctrl[t] /\ timer'[t] = CountedTimer(t)
      /\ cycle_counter'[t] = NextCycleCounter(t)
  BY DEF Clock, NextTimer, Writes
<1>5. prescaler_int(t)' = pre
  BY <1>4 DEF prescaler_int
<1>6. CASE Counts(t)
  <2>1. timer[t] # WordMax
    BY DEF irq_o, overflow_irq
  <2> QED BY <1>1, <1>2, <1>4, <1>6, <2>1 DEF CountedTimer
<1>7. CASE ~Counts(t)
  <2>1. timer'[t] = timer[t]
    BY <1>4, <1>7 DEF CountedTimer
  <2>2. pre # 0 /\ pre # cycle_counter[t]
    BY <1>7 DEF Counts
  <2>3. cycle_counter'[t] = IF cycle_counter[t] >= ctrl[t] THEN 0 ELSE cycle_counter[t] + 1
    BY <1>1, <1>2, <1>4 DEF NextCycleCounter
  <2> HIDE DEF pre
  <2>4. /\ CyclesToCount(t) = IF cycle_counter[t] <= pre THEN pre - cycle_counter[t]
                              ELSE IF cycle_counter[t] >= ctrl[t] THEN pre + 1
                              ELSE ctrl[t] - cycle_counter[t] + 1 + pre
        /\ CyclesToCount(t)' = IF cycle_counter'[t] <= pre THEN pre - cycle_counter'[t]
                               ELSE IF cycle_counter'[t] >= ctrl[t] THEN pre + 1
                               ELSE ctrl[t] - cycle_counter'[t] + 1 + pre
    BY <1>4, <1>5 DEF CyclesToCount, pre
  <2> QED BY <1>1, <1>3, <2>1, <2>2, <2>3, <2>4
<1> QED BY <1>6, <1>7

\* For every width, prescaler and stale cycle counter an enabled timer gets
\* nearer to its next interrupt in every cycle: what KeepsInterrupting rests on.
THEOREM InterruptNears == Spec => NearsInterrupt
<1> DEFINE Nearer == \A t \in TimerId :
              enable(t) /\ bus = None /\ ~irq_o(t) =>
                \/ timer'[t] = timer[t] + 1
                \/ /\ timer'[t] = timer[t]
                   /\ CyclesToCount(t)' < CyclesToCount(t)
                   /\ CyclesToCount(t) \in 1..ctrl[t] + 1
<1>1. TypeOK /\ [Clock]_vars => [Nearer]_vars
  BY OneCycleNearer
<1> QED BY TypeCorrect, <1>1, PTL DEF Spec, NearsInterrupt
===============================================================================
