------------------------------- MODULE ApbTimer -------------------------------
(***************************************************************************)
(* ips/utils/apb_timer: apb_timer.sv selects one of the timers with an     *)
(* address bit, timer.sv is one timer with the registers TIMER, CTRL and   *)
(* CMP and the free-running cycle_counter of its prescaler.  A step is one *)
(* clock cycle of all the timers; the access on the APB bus in that cycle  *)
(* (PSEL and PENABLE and PWRITE, with PREADY tied to 1) is the variable    *)
(* bus.  Reads are combinational and change nothing, so they are left out. *)
(***************************************************************************)
EXTENDS Integers

CONSTANTS
  TimerId,      \* the timers: 0..TIMER_CNT-1
  WordMax,      \* 32'hffff_ffff: the registers are this wide
  TimerWords,   \* what software writes to TIMER
  CtrlWords,    \* what software writes to CTRL
  CmpWords,     \* what software writes to CMP
  None          \* no access

ASSUME TimerAssumption ==
  /\ WordMax \in Nat \ {0}
  /\ TimerWords \cup CtrlWords \cup CmpWords \subseteq 0..WordMax

VARIABLES timer, ctrl, cmp, cycle_counter, bus

vars == <<timer, ctrl, cmp, cycle_counter, bus>>

\* A write access: which timer (psel_int), which register (register_adr).
Access == [id : TimerId, reg : {"TIMER"}, data : TimerWords]
            \cup [id : TimerId, reg : {"CTRL"}, data : CtrlWords]
            \cup [id : TimerId, reg : {"CMP"}, data : CmpWords]

\* irq_o[0]: the timer has reached its last value.
overflow_irq(t) == timer[t] = WordMax

\* irq_o[1]: the timer has reached a compare value that is set.
compare_irq(t) == cmp[t] # 0 /\ timer[t] = cmp[t]

irq_o(t) == overflow_irq(t) \/ compare_irq(t)

enable(t) == ctrl[t] % 2 = 1
prescaler_int(t) == (ctrl[t] \div 8) % 8

\* The timer counts in this cycle: every cycle without a prescaler, else in
\* the one cycle in which the cycle counter passes the prescaler value.
Counts(t) == enable(t) /\ (prescaler_int(t) = 0 \/ prescaler_int(t) = cycle_counter[t])

\* Mutations: the last value is no reason to restart; the timer restarts
\* only when it is enabled.
CountedTimer_no_overflow(t) == IF compare_irq(t) THEN 0
                               ELSE IF Counts(t) THEN timer[t] + 1 ELSE timer[t]
CountedTimer_if_enabled(t) == IF irq_o(t) /\ enable(t) THEN 0
                              ELSE IF Counts(t) THEN (timer[t] + 1) % (WordMax + 1)
                              ELSE timer[t]

\* regs_n[TIMER] before the bus is looked at.
CountedTimer(t) == IF irq_o(t) THEN 0
                   ELSE IF Counts(t) THEN (timer[t] + 1) % (WordMax + 1)
                   ELSE timer[t]

\* Mutation: the cycle counter restarts one cycle before the prescaler value.
NextCycleCounter_early(t) == IF cycle_counter[t] + 1 >= prescaler_int(t) THEN 0
                             ELSE (cycle_counter[t] + 1) % (WordMax + 1)

\* Mutation: it restarts only at the CTRL word, not beyond it.
NextCycleCounter_equal(t) == IF cycle_counter[t] = ctrl[t] THEN 0
                             ELSE (cycle_counter[t] + 1) % (WordMax + 1)

\* The cycle counter restarts once it has reached the whole CTRL word.
NextCycleCounter(t) == IF cycle_counter[t] >= ctrl[t] THEN 0
                       ELSE (cycle_counter[t] + 1) % (WordMax + 1)

\* The access in this cycle writes register r of timer t.
Writes(t, r) == bus # None /\ bus.id = t /\ bus.reg = r

\* Mutation: a write to CMP leaves the timer where it is.
NextTimer_cmp_only(t) == IF Writes(t, "TIMER") THEN bus.data ELSE CountedTimer(t)

\* The bus has priority over counting; a write to CMP restarts the timer.
NextTimer(t) == IF Writes(t, "TIMER") THEN bus.data
                ELSE IF Writes(t, "CMP") THEN 0 ELSE CountedTimer(t)

Init == /\ timer = [t \in TimerId |-> 0]
        /\ ctrl = [t \in TimerId |-> 0]
        /\ cmp = [t \in TimerId |-> 0]
        /\ cycle_counter = [t \in TimerId |-> 0]
        /\ bus = None

Clock ==
  /\ timer' = [t \in TimerId |-> NextTimer(t)]
  /\ ctrl' = [t \in TimerId |-> IF Writes(t, "CTRL") THEN bus.data ELSE ctrl[t]]
  /\ cmp' = [t \in TimerId |-> IF Writes(t, "CMP") THEN bus.data ELSE cmp[t]]
  /\ cycle_counter' = [t \in TimerId |-> NextCycleCounter(t)]
  /\ bus' \in Access \cup {None}

Spec == Init /\ [][Clock]_vars

\* The clock never stops.
FairSpec == Spec /\ WF_vars(Clock)
-------------------------------------------------------------------------------
\* Types of all state.
TypeOK == /\ timer \in [TimerId -> 0..WordMax]
          /\ ctrl \in [TimerId -> 0..WordMax]
          /\ cmp \in [TimerId -> 0..WordMax]
          /\ cycle_counter \in [TimerId -> 0..WordMax]
          /\ bus \in Access \cup {None}

\* The timer has not run past a compare value that is set.
WithinCompare(t) == cmp[t] # 0 => timer[t] <= cmp[t]

\* Counting never steps over the compare value, in whatever cycle software
\* starts, stops or prescales the timer or sets another compare value.  (The
\* match is an equality: a timer past it would not interrupt before it has
\* overflowed.)  Only a write to TIMER itself can put it there.
NeverSkipsCompare ==
  [][\A t \in TimerId :
       WithinCompare(t) /\ ~Writes(t, "TIMER") => WithinCompare(t)']_vars

\* An interrupt request lasts one cycle, so that the event unit sees an event
\* per match, unless software writes the timer in that very cycle.
IrqIsPulse ==
  [][\A t \in TimerId : irq_o(t) /\ ~Writes(t, "TIMER") => ~irq_o(t)']_vars

\* The cycles before an enabled timer counts next, from where its cycle counter
\* stands: it may have to restart first.
CyclesToCount(t) ==
  IF cycle_counter[t] <= prescaler_int(t) THEN prescaler_int(t) - cycle_counter[t]
  ELSE IF cycle_counter[t] >= ctrl[t] THEN prescaler_int(t) + 1
  ELSE ctrl[t] - cycle_counter[t] + 1 + prescaler_int(t)

\* Every cycle takes an enabled timer that software leaves alone nearer to its
\* next interrupt: it counts, or the cycles before it counts get fewer, and
\* they are never more than one above CTRL, whatever the cycle counter was left
\* with.
NearsInterrupt ==
  [][\A t \in TimerId :
       enable(t) /\ bus = None /\ ~irq_o(t) =>
         \/ timer'[t] = timer[t] + 1
         \/ /\ timer'[t] = timer[t]
            /\ CyclesToCount(t)' < CyclesToCount(t)
            /\ CyclesToCount(t) \in 1..ctrl[t] + 1]_vars

\* An enabled timer that software leaves alone keeps interrupting, whatever
\* prescaler, compare value and stale cycle counter it was left with.
KeepsInterrupting ==
  \A t \in TimerId :
    <>[](enable(t) /\ bus = None) => []<>irq_o(t)
===============================================================================
