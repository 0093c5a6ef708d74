------------------------------- MODULE Firmware -------------------------------
(***************************************************************************)
(* sw/hello_world on the SoC: start-up, main, the three interrupt handlers *)
(* of main.c, the vector table, the interrupt encoder of riscv_soc.sv and  *)
(* the event unit between it and the peripherals; before it, the program   *)
(* of the boot ROM.                                                        *)
(*                                                                         *)
(*   switch --> GPIO --level--+                                            *)
(*   rx     --> UART --level--+--> pending, IER --> irq_id --> handler     *)
(*   timer --------- pulse ---+       ^                        |           *)
(*                                    +--- ICP |= mask --------+           *)
(*                                                                         *)
(* The event unit, GPIO and UART are submodules without source.  The timer *)
(* raises its interrupts for one cycle (IrqIsPulse of ApbTimer) and is     *)
(* wired like the others, so the event unit collects what is high in any   *)
(* cycle.  What ICP reads as is not known; IcpReadsZero says it.           *)
(*                                                                         *)
(* The core takes an interrupt before main's next step.  Handlers run with *)
(* interrupts off and do not nest.  A step is a run of code without an     *)
(* access that hardware or other code could see half done.                 *)
(*                                                                         *)
(* The debugger resets the core at any moment (ndmreset).  The peripherals *)
(* and the memories are on another reset and keep what they hold.          *)
(***************************************************************************)
EXTENDS Drivers, Sequences

CONSTANTS
  Char,          \* what may be received
  LedChar,       \* 'a'
  RxDepth,       \* bound: characters waiting in the UART
  NLeds,         \* pins 0..NLeds-1 are LEDs (12 in the code)
  Switch,        \* the pins of the switches (28..31)
  VERILATOR,     \* the build: printf goes to the dump port, the boot ROM is a jump to itself
  IcpReadsZero,  \* ICP reads as zero, not as the pending events
  None           \* no handler, no event

Led == 0..NLeds - 1
Pin == Led \cup Switch

ASSUME FirmwareAssumption ==
  /\ LedChar \in Char
  /\ RxDepth \in Nat \ {0}
  /\ NLeds \in Nat /\ NLeds >= 3
  /\ Switch \cap Led = {}
  /\ {VERILATOR, IcpReadsZero} \subseteq BOOLEAN
  /\ None \notin [handler : {"isr_uart", "isr_gpio", "isr_m_timer"}, at : 1..5]

VARIABLES
  pc,             \* "rom", "rom_leds"; main: "setup", "check", "loop_leds", "leds"
  line,           \* the statement of Setup or RomSetup
  led,            \* the LED that is driven next, and whether it is turned on
  isr,            \* the handler that runs and its next statement, or None
  icp,            \* ICP as read by ICP |= mask
  uart_rx,        \* isr_uart: the character read
  run_leds,
  mie, mtvec,     \* mstatus.MIE as main sets it; mtvec points to the vector table
  rst_addr,       \* the boot address register: "rom" or "app"
  pending, IER,   \* event unit
  gpio, uart,     \* registers
  rx,             \* UART: characters received and not read
  closed,         \* the switches that are closed
  ticking,        \* the timer runs
  wanted          \* history: LEDs asked for since they last started

main_vars == <<pc, line, led>>
setup_vars == <<mie, mtvec, rst_addr, IER, gpio, ticking>>
vars == <<main_vars, setup_vars, isr, icp, uart_rx, run_leds, pending, uart, rx, closed, wanted>>

\* Bits of irq_i of the event unit.
UART_EVENT == 23
GPIO_EVENT == 24
TIMER_A_OVERFLOW == 25
TIMER_A_OUTPUT_CMP == 26
Event == UART_EVENT..TIMER_A_OUTPUT_CMP

\* A statement of a set-up sequence.
Do(op) == [op |-> op, pins |-> {}, value |-> 0, event |-> None]
On(op, pins, value) == [op |-> op, pins |-> pins, value |-> value, event |-> None]
Store(e) == [op |-> "sw", pins |-> {}, value |-> 0, event |-> e]
Enable(e) == [op |-> "enable", pins |-> {}, value |-> 0, event |-> e]

\* Mutation: the events are cleared before the UART drops what it has received.
Setup_clear_first ==
  <<Do("mtvec"), Do("rst_addr"),
    Do("lw"), Store(UART_EVENT), Do("lw"), Store(TIMER_A_OUTPUT_CMP), Do("lw"), Store(GPIO_EVENT),
    Do("lcr_dlab"), Do("fcr"), Do("lcr"), Do("ier"),
    On("direction", Led, DIR_OUT), On("direction", Switch, DIR_IN),
    On("value", Led, 0), On("enpin", Switch, 1),
    On("irq_en", Switch, 1), On("irq_type", Switch, GPIO_IRQ_LEV1), Do("set_cmp"),
    Enable(GPIO_EVENT), Enable(TIMER_A_OUTPUT_CMP), Enable(UART_EVENT), Do("cfg_int"),
    Do("start_timer")>>

\* Mutation: the LEDs are not turned off.
Setup_leds_left ==
  <<Do("mtvec"), Do("rst_addr"),
    Do("lcr_dlab"), Do("fcr"), Do("lcr"), Do("ier"),
    On("direction", Led, DIR_OUT), On("direction", Switch, DIR_IN),
    On("enpin", Switch, 1),
    Do("lw"), Store(UART_EVENT), Do("lw"), Store(TIMER_A_OUTPUT_CMP), Do("lw"), Store(GPIO_EVENT),
    On("irq_en", Switch, 1), On("irq_type", Switch, GPIO_IRQ_LEV1), Do("set_cmp"),
    Enable(GPIO_EVENT), Enable(TIMER_A_OUTPUT_CMP), Enable(UART_EVENT), Do("cfg_int"),
    Do("start_timer")>>

\* _start, the store of the boot address, uart_set_cfg, setup_gpios,
\* setup_irqs and start_timer, in the order of their accesses to the hardware;
\* int_periph_clear is two.
Setup ==
  <<Do("mtvec"), Do("rst_addr"),
    Do("lcr_dlab"), Do("fcr"), Do("lcr"), Do("ier"),
    On("direction", Led, DIR_OUT), On("direction", Switch, DIR_IN),
    On("value", Led, 0), On("enpin", Switch, 1),
    Do("lw"), Store(UART_EVENT), Do("lw"), Store(TIMER_A_OUTPUT_CMP), Do("lw"), Store(GPIO_EVENT),
    On("irq_en", Switch, 1), On("irq_type", Switch, GPIO_IRQ_LEV1), Do("set_cmp"),
    Enable(GPIO_EVENT), Enable(TIMER_A_OUTPUT_CMP), Enable(UART_EVENT), Do("cfg_int"),
    Do("start_timer")>>

\* The boot ROM's: all but the last LED are outputs, all are driven.
RomSetup == <<On("direction", Led \ {NLeds - 1}, DIR_OUT), On("value", Led, 0)>>

\* Mutation: the timer's other interrupt has the compare's place.
Handler_shifted(id) == IF id = UART_EVENT THEN "isr_uart"
                       ELSE IF id = GPIO_EVENT THEN "isr_gpio"
                       ELSE IF id = TIMER_A_OVERFLOW THEN "isr_m_timer" ELSE "isr_m_external"

\* The vector table.
Handler(id) == IF id = UART_EVENT THEN "isr_uart"
               ELSE IF id = GPIO_EVENT THEN "isr_gpio"
               ELSE IF id = TIMER_A_OUTPUT_CMP THEN "isr_m_timer" ELSE "isr_m_external"

EventOf(handler) == IF handler = "isr_uart" THEN UART_EVENT
                    ELSE IF handler = "isr_gpio" THEN GPIO_EVENT ELSE TIMER_A_OUTPUT_CMP

\* The handler of every other interrupt: while(1).
isr_m_external == <<"hang">>

\* What the handlers do, one entry per access to the hardware; a printf is one.
Statements(handler) ==
  IF handler = "isr_uart" THEN <<"rbr", "lw", "sw", "print", "body">>
  ELSE IF handler = "isr_m_external" THEN isr_m_external ELSE <<"lw", "sw", "print", "body">>

irq_signals == pending \cap IER

\* The encoder: the last set bit wins.
irq_id == CHOOSE i \in irq_signals : \A j \in irq_signals : j <= i

-------------------------------------------------------------------------------
\* The lines that are levels.
Lines == (IF rx # << >> /\ uart.erbfi THEN {UART_EVENT} ELSE {})
           \cup (IF Raising(gpio, closed) # {} THEN {GPIO_EVENT} ELSE {})

EventUnit(cleared, pulses) == pending' = (pending \ cleared) \cup pulses \cup Lines'

\* What a load from ICP gives.
IcpValue == IF IcpReadsZero THEN {} ELSE pending

ReadIcp == icp' = IcpValue
WriteIcp(e) == EventUnit(icp \cup {e}, {})

LedStart == [on |-> TRUE, pin |-> 0]

\* Where the boot address leads, with or without the debugger.
Booted == IF rst_addr = "app" THEN "setup" ELSE "rom"

Init == /\ rst_addr \in {"rom", "app"}
        /\ pc = Booted /\ line = 1 /\ led = LedStart
        /\ isr = None
        /\ icp = {}
        /\ uart_rx \in Char
        /\ run_leds = FALSE
        /\ mie = FALSE /\ mtvec = FALSE
        /\ pending = {} /\ IER = {}
        /\ gpio = GpioReset /\ uart = UartReset
        /\ rx = << >>
        /\ closed \in SUBSET Switch
        /\ ticking = FALSE
        /\ wanted = FALSE

InterruptTaken == mie /\ irq_signals # {}

\* main runs: no handler does, and no interrupt is about to.
MainRuns == isr = None /\ ~InterruptTaken

GpioAfter(s) ==
  IF s.op = "direction" THEN set_gpio_pin_direction(gpio, s.pins, s.value)
  ELSE IF s.op = "value" THEN set_gpio_pin_value(gpio, s.pins, s.value)
  ELSE IF s.op = "enpin" THEN enable_gpio_pins_read(gpio, s.pins)
  ELSE IF s.op = "irq_en" THEN set_gpio_pin_irq_en(gpio, s.pins, s.value)
  ELSE IF s.op = "irq_type" THEN set_gpio_pin_irq_type(gpio, s.pins, s.value) ELSE gpio

UartAfter(s) ==
  IF s.op = "lcr_dlab" THEN SetDlab(uart)
  ELSE IF s.op = "fcr" THEN SetFcr(uart)
  ELSE IF s.op = "lcr" THEN ClearDlab(uart)
  ELSE IF s.op = "ier" THEN SetIer(uart) ELSE uart

\* mstatus |= MIE
cfg_int(s) == mie \/ s.op = "cfg_int"

SetupStep ==
  /\ MainRuns
  /\ pc = "setup"
  /\ IF line = Len(Setup) THEN pc' = "check" /\ UNCHANGED line
                          ELSE line' = line + 1 /\ UNCHANGED pc
  /\ LET s == Setup[line]
     IN  /\ mtvec' = (mtvec \/ s.op = "mtvec")
         /\ rst_addr' = IF s.op = "rst_addr" THEN "app" ELSE rst_addr
         /\ gpio' = GpioAfter(s)
         /\ uart' = UartAfter(s)
         /\ rx' = IF s.op = "fcr" THEN << >> ELSE rx
         /\ IER' = IF s.op = "enable" THEN IER \cup {s.event} ELSE IER
         /\ mie' = cfg_int(s)
         /\ ticking' = (ticking \/ s.op = "start_timer")
         /\ UNCHANGED <<led, isr, uart_rx, run_leds, closed, wanted>>
         /\ IF s.op = "lw" THEN ReadIcp ELSE UNCHANGED icp
         /\ IF s.op = "sw" THEN WriteIcp(s.event) ELSE EventUnit({}, {})

\* while(1): if (run_leds)
Check == /\ MainRuns
         /\ pc = "check" /\ run_leds
         /\ pc' = "loop_leds"
         /\ UNCHANGED <<line, led, setup_vars, isr, icp, uart_rx, run_leds, pending, uart, rx, closed, wanted>>

\* Mutation: run_leds is cleared when the LEDs are done.
run_leds_late == run_leds /\ pc = "loop_leds"

\* run_leds after a step of loop_leds: it is cleared before the LEDs start.
run_leds_next == run_leds /\ pc = "leds"

\* The loops of a LED run: colour after colour, every third pin on, then off.
LastOfColour == led.pin + 3 >= NLeds
LastLed == LastOfColour /\ ~led.on /\ led.pin % 3 = 2

\* Mutation: a colour that has gone off starts again.
NextLed_same_colour == IF ~LastOfColour THEN [led EXCEPT !.pin = led.pin + 3]
                       ELSE [on |-> ~led.on, pin |-> led.pin % 3]

NextLed == IF ~LastOfColour THEN [led EXCEPT !.pin = led.pin + 3]
           ELSE IF led.on THEN [on |-> FALSE, pin |-> led.pin % 3]
           ELSE [on |-> TRUE, pin |-> (led.pin + 1) % 3]

DriveLed == /\ gpio' = set_gpio_pin_value(gpio, {led.pin}, IF led.on THEN 1 ELSE 0)
            /\ led' = NextLed

loop_leds ==
  /\ MainRuns
  /\ \/ pc = "loop_leds" /\ pc' = "leds" /\ led' = LedStart /\ UNCHANGED gpio
     \/ pc = "leds" /\ pc' = (IF LastLed THEN "check" ELSE "leds") /\ DriveLed
  /\ run_leds' = run_leds_next
  /\ wanted' = (wanted /\ pc = "leds")
  /\ UNCHANGED <<line, mie, mtvec, rst_addr, IER, ticking, isr, icp, uart_rx, uart, rx, closed>>
  /\ EventUnit({}, {})

\* The boot ROM's main: its set-up, then LED runs for ever, interrupts off.
RomStep ==
  /\ MainRuns
  /\ ~VERILATOR
  /\ \/ /\ pc = "rom"
        /\ gpio' = GpioAfter(RomSetup[line])
        /\ IF line = Len(RomSetup) THEN pc' = "rom_leds" /\ UNCHANGED line
                                   ELSE line' = line + 1 /\ UNCHANGED pc
        /\ led' = LedStart
     \/ pc = "rom_leds" /\ DriveLed /\ UNCHANGED <<pc, line>>
  /\ UNCHANGED <<mie, mtvec, rst_addr, IER, ticking, isr, icp, uart_rx, run_leds, uart, rx, closed, wanted>>
  /\ EventUnit({}, {})

Main == SetupStep \/ Check \/ loop_leds \/ RomStep

-------------------------------------------------------------------------------
Statement == Statements(isr.handler)[isr.at]
Proceed == isr' = [isr EXCEPT !.at = isr.at + 1]

\* The core jumps through the vector table.
TrapEntry == /\ isr = None
             /\ InterruptTaken
             /\ isr' = [handler |-> IF mtvec THEN Handler(irq_id) ELSE "lost", at |-> 1]
             /\ UNCHANGED <<main_vars, setup_vars, icp, uart_rx, run_leds, pending, uart, rx, closed, wanted>>

\* uart_rx = *UART_REG_RBR.  Reading an empty receiver or the divisor gives
\* anything.
ReadRbr == /\ isr # None /\ Statement = "rbr"
           /\ Proceed
           /\ IF rx = << >> \/ uart.dlab THEN uart_rx' \in Char /\ UNCHANGED rx
                                         ELSE uart_rx' = Head(rx) /\ rx' = Tail(rx)
           /\ UNCHANGED <<main_vars, setup_vars, icp, run_leds, uart, closed, wanted>>
           /\ EventUnit({}, {})

\* int_periph_clear: ICP |= mask, in two accesses.
ClearEvent == /\ isr # None /\ Statement \in {"lw", "sw"}
              /\ Proceed
              /\ UNCHANGED <<main_vars, setup_vars, uart_rx, run_leds, uart, rx, closed, wanted>>
              /\ IF Statement = "lw" THEN ReadIcp /\ EventUnit({}, {})
                                     ELSE UNCHANGED icp /\ WriteIcp(EventOf(isr.handler))

\* Mutation: uart_sendchar waits for a received character.
CanSend_ready == rx # << >>

\* while (LSR & 0x20 == 0)
CanSend == uart.thre

\* printf: to the dump port, or to the UART as soon as it can send.
printf == /\ isr # None /\ Statement = "print"
          /\ VERILATOR \/ CanSend
          /\ Proceed
          /\ uart' = IF VERILATOR THEN uart ELSE uart_sendchar(uart)
          /\ UNCHANGED <<main_vars, setup_vars, icp, uart_rx, run_leds, pending, rx, closed, wanted>>

\* The rest of a handler, up to mret.
Body == /\ isr # None /\ Statement = "body"
        /\ isr' = None
        /\ run_leds' = (\/ run_leds
                        \/ isr.handler = "isr_gpio"
                        \/ isr.handler = "isr_uart" /\ uart_rx = LedChar)
        /\ UNCHANGED <<main_vars, setup_vars, icp, uart_rx, pending, uart, rx, closed, wanted>>

Handle == TrapEntry \/ ReadRbr \/ ClearEvent \/ printf \/ Body

-------------------------------------------------------------------------------
\* main has no such statement of Setup before it any more.
Past(op) == \/ pc \in {"check", "loop_leds", "leds"}
            \/ pc = "setup" /\ \A l \in line..Len(Setup) : Setup[l].op # op

\* From the FIFO reset on main keeps what is received, and from the choice of
\* the interrupt's type on what a switch raises.
Listening == Past("fcr")
Armed == Past("irq_type")

\* A switch moves.
MoveSwitch ==
  /\ \E p \in Switch :
       /\ closed' = IF p \in closed THEN closed \ {p} ELSE closed \cup {p}
       /\ wanted' = (wanted \/ (Armed /\ p \notin closed))
  /\ UNCHANGED <<main_vars, setup_vars, isr, icp, uart_rx, run_leds, uart, rx>>
  /\ EventUnit({}, {})

Receive ==
  /\ Len(rx) < RxDepth
  /\ \E c \in Char : /\ rx' = Append(rx, c)
                     /\ wanted' = (wanted \/ (Listening /\ c = LedChar))
  /\ UNCHANGED <<main_vars, setup_vars, isr, icp, uart_rx, run_leds, uart, closed>>
  /\ EventUnit({}, {})

\* The transmitter is done with what was stored last.
Transmit == /\ ~uart.thre
            /\ uart' = [uart EXCEPT !.thre = TRUE]
            /\ UNCHANGED <<main_vars, setup_vars, isr, icp, uart_rx, run_leds, pending, rx, closed, wanted>>

\* The timer's interrupts, high for one cycle.
TimerIrq == /\ ticking
            /\ UNCHANGED <<main_vars, setup_vars, isr, icp, uart_rx, run_leds, uart, rx, closed, wanted>>
            /\ \E e \in {TIMER_A_OVERFLOW, TIMER_A_OUTPUT_CMP} : EventUnit({}, {e})

\* ndmreset: the core starts again where the boot address register says, with
\* the registers of every peripheral and the memory as they are.
Reset == /\ pc' = Booted /\ line' = 1 /\ led' = LedStart
         /\ isr' = None
         /\ mie' = FALSE /\ mtvec' = FALSE
         /\ wanted' = FALSE
         /\ UNCHANGED <<rst_addr, IER, gpio, ticking, icp, uart_rx, run_leds, pending, uart, rx, closed>>

\* The debugger loads the program and starts it.  It does not clear .bss, where
\* run_leds is, and neither does _start.
Load == /\ pc \in {"rom", "rom_leds"}
        /\ pc' = "setup" /\ line' = 1 /\ led' = LedStart
        /\ run_leds' \in BOOLEAN
        /\ UNCHANGED <<setup_vars, isr, icp, uart_rx, pending, uart, rx, closed, wanted>>

Environment == MoveSwitch \/ Receive \/ Transmit \/ TimerIrq \/ Reset \/ Load

Next == Main \/ Handle \/ Environment

\* The core executes, and main among the interrupts; the UART sends.
CoreFairness == SF_vars(Main) /\ WF_vars(Handle) /\ WF_vars(Transmit)

Spec == Init /\ [][Next]_vars
FairSpec == Spec /\ CoreFairness
-------------------------------------------------------------------------------
\* Types of all state; an interrupt without a handler of its own, which ends
\* in the endless loop of isr_m_external, is never taken, nor one before mtvec
\* is set.
TypeOK == /\ pc \in {"rom", "rom_leds", "setup", "check", "loop_leds", "leds"}
          /\ line \in 1..Len(Setup)
          /\ led \in [on : BOOLEAN, pin : Led]
          /\ isr \in [handler : {"isr_uart", "isr_gpio", "isr_m_timer"}, at : 1..5] \cup {None}
          /\ {icp, pending, IER} \subseteq SUBSET Event
          /\ uart_rx \in Char
          /\ {run_leds, mie, mtvec, ticking, wanted} \subseteq BOOLEAN
          /\ rst_addr \in {"rom", "app"}
          /\ gpio \in [PADDIR : SUBSET Pin, PADOUT : SUBSET Pin, INTEN : SUBSET Pin,
                       INTTYPE0 : SUBSET Pin, INTTYPE1 : SUBSET Pin, ENPIN : SUBSET Pin]
          /\ uart \in [dlab : BOOLEAN, erbfi : BOOLEAN, thre : BOOLEAN]
          /\ rx \in Seq(Char) /\ Len(rx) <= RxDepth
          /\ closed \subseteq Switch

InHandler(handler) == isr # None /\ isr.handler = handler

\* A press of the switch or an 'a' that no LED run has followed yet is never
\* forgotten until the core is reset: it is in run_leds, in an event that is
\* pending, in the receiver, or in the hands of a handler, whatever interrupts
\* whatever.
RequestKept ==
  wanted => \/ run_leds
            \/ GPIO_EVENT \in pending \/ InHandler("isr_gpio")
            \/ \E i \in 1..Len(rx) : rx[i] = LedChar
            \/ InHandler("isr_uart") /\ isr.at > 1 /\ uart_rx = LedChar

\* isr_uart reads the receiver only when a character is there, and the receiver
\* rather than the divisor: no event outlives the character that raised it, not
\* even one from before a reset whose character uart_set_cfg dropped.
NoEmptyRead == InHandler("isr_uart") /\ Statement = "rbr" => rx # << >> /\ ~uart.dlab

\* When main is idle every LED is off and is an output, though a reset may have
\* cut a LED run short and the GPIO keeps its registers.
LedsOffWhenIdle == pc = "check" => Led \cap gpio.PADOUT = {} /\ Led \subseteq gpio.PADDIR

\* An upper bound of the LEDs that the run has still to drive: both ways through
\* every colour that is left, and what is left of this one.
LedsLeft == (2 - (led.pin % 3)) * (2 * NLeds) + (IF led.on THEN NLeds ELSE 0) + NLeds - led.pin

\* A LED run comes to its end: every step of main drives one LED less, and no
\* interrupt sets the run back.
LedRunsEnd == [][pc = "leds" /\ pc' = "leds" =>
                   IF loop_leds THEN LedsLeft' \in 0..LedsLeft - 1 ELSE led' = led]_vars

\* Unless interrupts keep the core busy for ever, every press and every 'a' is
\* followed by a start of the LEDs or a reset.
LedsServed == []<>MainRuns => (wanted ~> ~wanted)

\* A handler that waits for the transmitter in its printf comes back.
HandlersReturn == isr # None ~> isr = None
===============================================================================
