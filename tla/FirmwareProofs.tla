---------------------------- MODULE FirmwareProofs ----------------------------
(***************************************************************************)
(* Types, LEDs, the receiver and the requests of Firmware, for every set   *)
(* of characters, depth of the receiver, number of LEDs and of switches,   *)
(* and both builds, with resets of the core at any moment.                 *)
(***************************************************************************)
EXTENDS Firmware, SequenceTheorems, TLAPS

MainLoop == {"check", "loop_leds", "leds"}

\* Statement n of Setup has been executed since the core started.
After(n) == pc \in MainLoop \/ (pc = "setup" /\ line > n)

GpioRegisters == [PADDIR : SUBSET Pin, PADOUT : SUBSET Pin, INTEN : SUBSET Pin,
                  INTTYPE0 : SUBSET Pin, INTTYPE1 : SUBSET Pin, ENPIN : SUBSET Pin]
UartRegisters == [dlab : BOOLEAN, erbfi : BOOLEAN, thre : BOOLEAN]

\* Types, with the statements each handler has.
MainType == /\ pc \in MainLoop \cup {"rom", "rom_leds", "setup"}
            /\ line \in 1..24
            /\ pc = "rom" => line \in 1..2
            /\ led \in [on : BOOLEAN, pin : Led]

IsrType == \/ isr = None
           \/ isr \in [handler : {"isr_uart"}, at : 1..5]
           \/ isr \in [handler : {"isr_gpio", "isr_m_timer"}, at : 1..4]

EventType == icp \subseteq Event /\ pending \subseteq Event /\ IER \subseteq Event

FlagType == /\ run_leds \in BOOLEAN /\ mie \in BOOLEAN /\ mtvec \in BOOLEAN
            /\ ticking \in BOOLEAN /\ wanted \in BOOLEAN
            /\ rst_addr \in {"rom", "app"}

DeviceType == gpio \in GpioRegisters /\ uart \in UartRegisters /\ closed \subseteq Switch

RxType == rx \in Seq(Char) /\ Len(rx) <= RxDepth /\ uart_rx \in Char

TypeInv == MainType /\ IsrType /\ EventType /\ FlagType /\ DeviceType /\ RxType

\* Interrupts are off until main is ready for them, and only those with a
\* handler of their own are enabled.
Ready == /\ After(1) => mtvec
         /\ mie => After(23)
         /\ isr # None => mie
         /\ IER \subseteq {UART_EVENT, GPIO_EVENT, TIMER_A_OUTPUT_CMP}

ControlInv == TypeInv /\ Ready

-------------------------------------------------------------------------------
LEMMA SetupOps ==
  /\ Len(Setup) = 24
  /\ \A l \in 1..24 : /\ (Setup[l].op = "mtvec") <=> (l = 1)
                      /\ (Setup[l].op = "lcr_dlab") <=> (l = 3)
                      /\ (Setup[l].op = "fcr") <=> (l = 4)
                      /\ (Setup[l].op = "lcr") <=> (l = 5)
                      /\ (Setup[l].op = "ier") <=> (l = 6)
                      /\ (Setup[l].op = "sw") <=> (l \in {12, 14, 16})
                      /\ (Setup[l].op = "irq_type") <=> (l = 18)
                      /\ (Setup[l].op = "enable") <=> (l \in 20..22)
                      /\ (Setup[l].op = "cfg_int") <=> (l = 23)
  /\ Setup[12].event = UART_EVENT
  /\ \A l \in {12, 14, 16, 20, 21, 22} : Setup[l].event \in {UART_EVENT, GPIO_EVENT, TIMER_A_OUTPUT_CMP}
<1>1. Len(Setup) = 24
  BY DEF Setup
<1> QED BY <1>1 DEF Setup, Do, On, Store, Enable

LEMMA SetupGpio ==
  ASSUME NEW l \in 1..24
  PROVE  GpioAfter(Setup[l]) =
           IF l = 7 THEN set_gpio_pin_direction(gpio, Led, DIR_OUT)
           ELSE IF l = 8 THEN set_gpio_pin_direction(gpio, Switch, DIR_IN)
           ELSE IF l = 9 THEN set_gpio_pin_value(gpio, Led, 0)
           ELSE IF l = 10 THEN enable_gpio_pins_read(gpio, Switch)
           ELSE IF l = 17 THEN set_gpio_pin_irq_en(gpio, Switch, 1)
           ELSE IF l = 18 THEN set_gpio_pin_irq_type(gpio, Switch, GPIO_IRQ_LEV1) ELSE gpio
BY DEF GpioAfter, Setup, Do, On, Store, Enable

LEMMA RomOps ==
  /\ Len(RomSetup) = 2
  /\ GpioAfter(RomSetup[1]) = set_gpio_pin_direction(gpio, Led \ {NLeds - 1}, DIR_OUT)
  /\ GpioAfter(RomSetup[2]) = set_gpio_pin_value(gpio, Led, 0)
BY DEF GpioAfter, RomSetup, On

LEMMA Tuples ==
  /\ Statements("isr_uart") = <<"rbr", "lw", "sw", "print", "body">>
  /\ \A h \in {"isr_gpio", "isr_m_timer"} : Statements(h) = <<"lw", "sw", "print", "body">>
BY DEF Statements, isr_m_external

LEMMA HandlersAreNotNone ==
  ASSUME NEW r, r \in [handler : {"isr_uart", "isr_gpio", "isr_m_timer"}, at : 1..5]
  PROVE  r # None
BY FirmwareAssumption

LEMMA TypesSuffice == TypeInv => TypeOK
<1> SUFFICES ASSUME TypeInv PROVE TypeOK
  OBVIOUS
<1> USE DEF TypeInv
<1>1. isr \in [handler : {"isr_uart", "isr_gpio", "isr_m_timer"}, at : 1..5] \cup {None}
  BY DEF IsrType
<1>2. {icp, pending, IER} \subseteq SUBSET Event
  BY DEF EventType
<1>3. {run_leds, mie, mtvec, ticking, wanted} \subseteq BOOLEAN
  BY Zenon DEF FlagType
<1>4. pc \in {"rom", "rom_leds", "setup", "check", "loop_leds", "leds"} /\ line \in 1..Len(Setup)
  BY SetupOps DEF MainType, MainLoop
<1> QED
  BY <1>1, <1>2, <1>3, <1>4, Zenon
  DEF TypeOK, MainType, FlagType, DeviceType, RxType, GpioRegisters, UartRegisters

\* What the drivers do to the registers, field by field.
LEMMA GpioCalls ==
  ASSUME NEW g \in GpioRegisters, NEW pins \in SUBSET Pin, NEW v \in {0, 1}
  PROVE  /\ set_gpio_pin_direction(g, pins, v) \in GpioRegisters
         /\ set_gpio_pin_value(g, pins, v) \in GpioRegisters
         /\ set_gpio_pin_irq_en(g, pins, v) \in GpioRegisters
         /\ set_gpio_pin_irq_type(g, pins, v) \in GpioRegisters
         /\ enable_gpio_pins_read(g, pins) \in GpioRegisters
<1>1. \A r \in SUBSET Pin : Written(r, pins, v) \in SUBSET Pin
  BY DEF Written
<1>2. g.PADDIR \in SUBSET Pin /\ g.PADOUT \in SUBSET Pin /\ g.INTEN \in SUBSET Pin
      /\ g.INTTYPE0 \in SUBSET Pin /\ g.INTTYPE1 \in SUBSET Pin
  BY DEF GpioRegisters
<1>3. set_gpio_pin_direction(g, pins, v) \in GpioRegisters
  BY <1>1, <1>2 DEF GpioRegisters, set_gpio_pin_direction
<1>4. set_gpio_pin_value(g, pins, v) \in GpioRegisters
  BY <1>1, <1>2 DEF GpioRegisters, set_gpio_pin_value
<1>5. set_gpio_pin_irq_en(g, pins, v) \in GpioRegisters
  BY <1>1, <1>2 DEF GpioRegisters, set_gpio_pin_irq_en
<1>6. set_gpio_pin_irq_type(g, pins, v) \in GpioRegisters
  <2>1. Written(g.INTTYPE0, pins, v % 2) \in SUBSET Pin /\ Written(g.INTTYPE1, pins, v \div 2) \in SUBSET Pin
    BY <1>2 DEF Written
  <2> QED BY <2>1 DEF GpioRegisters, set_gpio_pin_irq_type
<1>7. enable_gpio_pins_read(g, pins) \in GpioRegisters
  BY DEF GpioRegisters, enable_gpio_pins_read
<1> QED BY <1>3, <1>4, <1>5, <1>6, <1>7

\* What a step of Setup does to After.
LEMMA SetupAfter ==
  ASSUME MainType, SetupStep
  PROVE  /\ \A n \in 0..24 : After(n) <=> line > n
         /\ \A n \in 0..24 : After(n)' <=> line >= n
         /\ pc = "setup" /\ pc' \in {"setup", "check"}
         /\ line' \in 1..24
<1>1. /\ pc = "setup" /\ line \in 1..24
      /\ IF line = 24 THEN pc' = "check" /\ line' = line
                      ELSE line' = line + 1 /\ pc' = pc
  BY SetupOps DEF SetupStep, cfg_int, MainType
<1> QED BY <1>1 DEF After, MainLoop

LEMMA SetupEffects ==
  ASSUME MainType, SetupStep
  PROVE  /\ line \in 1..24 /\ pc = "setup" /\ isr = None
         /\ UNCHANGED <<led, isr, uart_rx, run_leds, closed, wanted>>
         /\ mtvec' <=> (mtvec \/ line = 1)
         /\ mie' <=> (mie \/ line = 23)
         /\ IER' \subseteq IER \cup {UART_EVENT, GPIO_EVENT, TIMER_A_OUTPUT_CMP}
         /\ gpio' = GpioAfter(Setup[line])
         /\ rx' = IF line = 4 THEN << >> ELSE rx
<1>1. line \in 1..24
  BY DEF MainType
<1> DEFINE s == Setup[line]
<1>2. /\ (s.op = "mtvec") <=> (line = 1)
      /\ (s.op = "cfg_int") <=> (line = 23)
      /\ (s.op = "fcr") <=> (line = 4)
      /\ s.op = "enable" => s.event \in {UART_EVENT, GPIO_EVENT, TIMER_A_OUTPUT_CMP}
  BY <1>1, SetupOps
<1>3. /\ pc = "setup" /\ isr = None
      /\ mtvec' = (mtvec \/ s.op = "mtvec")
      /\ mie' = (mie \/ s.op = "cfg_int")
      /\ IER' = (IF s.op = "enable" THEN IER \cup {s.event} ELSE IER)
      /\ gpio' = GpioAfter(s)
      /\ rx' = (IF s.op = "fcr" THEN << >> ELSE rx)
      /\ UNCHANGED <<led, isr, uart_rx, run_leds, closed, wanted>>
  BY Zenon DEF SetupStep, cfg_int, MainRuns
<1> HIDE DEF s
<1>4. gpio' = GpioAfter(Setup[line])
  BY <1>3 DEF s
<1> QED BY <1>1, <1>2, <1>3, <1>4

LEMMA PastMeans ==
  ASSUME MainType
  PROVE  (Listening <=> After(4)) /\ (Armed <=> After(18))
<1>1. pc \in MainLoop \cup {"rom", "rom_leds", "setup"} /\ line \in 1..24
  BY DEF MainType
<1>2. (\A l \in line..24 : Setup[l].op # "fcr") <=> line > 4
  BY <1>1, SetupOps
<1>3. (\A l \in line..24 : Setup[l].op # "irq_type") <=> line > 18
  BY <1>1, SetupOps
<1> QED BY <1>1, <1>2, <1>3, SetupOps DEF Listening, Armed, Past, After, MainLoop

-------------------------------------------------------------------------------
LEMMA ControlInit == Init => ControlInv
<1> SUFFICES ASSUME Init PROVE ControlInv
  OBVIOUS
<1> USE DEF Init
<1>1. MainType
  BY FirmwareAssumption DEF MainType, MainLoop, Booted, LedStart, Led
<1>2. IsrType /\ EventType /\ FlagType
  BY DEF IsrType, EventType, FlagType
<1>3. DeviceType /\ RxType
  <2>1. gpio \in GpioRegisters /\ uart \in UartRegisters
    BY DEF GpioRegisters, UartRegisters, GpioReset, UartReset
  <2>2. rx \in Seq(Char) /\ Len(rx) = 0 /\ RxDepth \in Nat
    BY FirmwareAssumption
  <2> QED BY <2>1, <2>2 DEF DeviceType, RxType
<1>4. Ready
  BY DEF Ready, After, MainLoop, Booted
<1> QED BY <1>1, <1>2, <1>3, <1>4 DEF ControlInv, TypeInv

LEMMA EventUnitType ==
  ASSUME NEW cleared, NEW pulses \in SUBSET Event, EventType, EventUnit(cleared, pulses)
  PROVE  pending' \subseteq Event
<1>1. UART_EVENT \in Event /\ GPIO_EVENT \in Event
  BY DEF Event, UART_EVENT, GPIO_EVENT, TIMER_A_OUTPUT_CMP
<1>2. Lines' \subseteq {UART_EVENT, GPIO_EVENT}
  BY DEF Lines
<1> QED BY <1>1, <1>2 DEF EventUnit, EventType

LEMMA SetupControl == ASSUME ControlInv, SetupStep PROVE ControlInv'
<1> USE DEF ControlInv, TypeInv
<1>1. /\ line \in 1..24 /\ isr = None /\ isr' = isr /\ pc = "setup"
      /\ UNCHANGED <<led, uart_rx, run_leds, closed, wanted>>
  BY SetupEffects
<1>2. MainType'
  BY <1>1, SetupAfter DEF MainType, MainLoop
<1>3. IsrType'
  BY <1>1 DEF IsrType
<1>4. EventType'
  <2>1. IER' \subseteq Event
    <3>1. {UART_EVENT, GPIO_EVENT, TIMER_A_OUTPUT_CMP} \subseteq Event
      BY DEF Event, UART_EVENT, GPIO_EVENT, TIMER_A_OUTPUT_CMP
    <3> QED BY <3>1, SetupEffects DEF EventType
  <2>2. icp' \subseteq Event
    BY DEF SetupStep, cfg_int, EventType, ReadIcp, IcpValue
  <2>3. \E cleared : EventUnit(cleared, {})
    BY DEF SetupStep, cfg_int, WriteIcp
  <2> QED BY <2>1, <2>2, <2>3, EventUnitType DEF EventType
<1>5. FlagType'
  BY <1>1 DEF SetupStep, cfg_int, FlagType
<1>6. gpio' \in GpioRegisters
  <2>1. gpio' = GpioAfter(Setup[line])
    BY SetupEffects
  <2>2. Led \in SUBSET Pin /\ Switch \in SUBSET Pin
    BY DEF Pin
  <2> QED
    BY <1>1, <2>1, <2>2, SetupGpio, GpioCalls DEF DeviceType, DIR_IN, DIR_OUT, GPIO_IRQ_LEV1
<1>7. uart' \in UartRegisters
  BY DEF SetupStep, cfg_int, UartAfter, SetDlab, SetFcr, ClearDlab, SetIer, DeviceType, UartRegisters
<1>8. DeviceType'
  BY <1>1, <1>6, <1>7 DEF DeviceType
<1>9. RxType'
  <2>1. << >> \in Seq(Char) /\ Len(<< >>) = 0 /\ RxDepth \in Nat
    BY FirmwareAssumption
  <2>2. rx' = << >> \/ rx' = rx
    BY SetupEffects
  <2>3. rx' \in Seq(Char) /\ Len(rx') <= RxDepth
    <3>1. CASE rx' = << >>
      BY <2>1, <3>1
    <3>2. CASE rx' = rx
      BY <3>2 DEF RxType
    <3> QED BY <2>2, <3>1, <3>2
  <2> QED BY <1>1, <2>3 DEF RxType
<1>10. Ready'
  <2>1. After(1)' => mtvec'
    BY SetupAfter, SetupEffects, SMTT(30) DEF Ready
  <2>2. mie' => After(23)'
    BY SetupAfter, SetupEffects, SMTT(30) DEF Ready
  <2>3. IER' \subseteq {UART_EVENT, GPIO_EVENT, TIMER_A_OUTPUT_CMP}
    BY SetupEffects DEF Ready
  <2> QED BY <1>1, <2>1, <2>2, <2>3 DEF Ready
<1> QED BY <1>2, <1>3, <1>4, <1>5, <1>8, <1>9, <1>10

LEMMA LedTypes ==
  ASSUME led \in [on : BOOLEAN, pin : Led]
  PROVE  LedStart \in [on : BOOLEAN, pin : Led] /\ NextLed \in [on : BOOLEAN, pin : Led]
<1>1. led.pin \in 0..NLeds - 1 /\ led.on \in BOOLEAN
  BY DEF Led
<1>2. led.pin % 3 \in 0..2 /\ (led.pin + 1) % 3 \in 0..2 /\ NLeds \in Nat /\ NLeds >= 3
  BY <1>1, FirmwareAssumption
<1>3. led.pin % 3 \in Led /\ (led.pin + 1) % 3 \in Led /\ 0 \in Led
  BY <1>2 DEF Led
<1>4. ~LastOfColour => led.pin + 3 \in Led
  BY <1>1, <1>2 DEF Led, LastOfColour
<1> QED BY <1>1, <1>3, <1>4 DEF LedStart, NextLed

LEMMA LoopControl == ASSUME ControlInv, Check \/ loop_leds \/ RomStep PROVE ControlInv'
<1> USE DEF ControlInv, TypeInv
<1>1. UNCHANGED <<mie, mtvec, rst_addr, IER, ticking, isr, icp, uart_rx, uart, rx, closed>>
  BY DEF Check, loop_leds, RomStep, setup_vars
<1>2. led \in [on : BOOLEAN, pin : Led] /\ line \in 1..24
  BY DEF MainType
<1>3. /\ pc \in {"rom", "rom_leds"} => pc' \in {"rom", "rom_leds"}
      /\ pc \notin {"rom", "rom_leds"} => pc \in MainLoop /\ pc' \in MainLoop
  BY DEF Check, loop_leds, RomStep, MainLoop
<1>4. MainType'
  <2>1. led' \in {led, LedStart, NextLed}
    BY DEF Check, loop_leds, RomStep, DriveLed
  <2>2. line' \in 1..24 /\ (pc' = "rom" => line' \in 1..2)
    BY <1>2, RomOps DEF Check, loop_leds, RomStep, MainType
  <2>3. pc' \in MainLoop \cup {"rom", "rom_leds", "setup"}
    BY <1>3
  <2> QED BY <1>2, <2>1, <2>2, <2>3, LedTypes DEF MainType
<1>5. EventType'
  <2>1. pending' = pending \/ EventUnit({}, {})
    BY DEF Check, loop_leds, RomStep
  <2> QED BY <1>1, <2>1, EventUnitType DEF EventType
<1>6. FlagType'
  BY <1>1 DEF Check, loop_leds, RomStep, FlagType, run_leds_next
<1>7. gpio' \in GpioRegisters
  <2>1. Led \in SUBSET Pin /\ Led \ {NLeds - 1} \in SUBSET Pin /\ {led.pin} \in SUBSET Pin
    BY <1>2 DEF Pin
  <2>2. \/ gpio' = gpio \/ gpio' = GpioAfter(RomSetup[1]) \/ gpio' = GpioAfter(RomSetup[2])
        \/ gpio' = set_gpio_pin_value(gpio, {led.pin}, 0)
        \/ gpio' = set_gpio_pin_value(gpio, {led.pin}, 1)
    BY DEF Check, loop_leds, RomStep, DriveLed, setup_vars, MainType
  <2> QED BY <2>1, <2>2, RomOps, GpioCalls DEF DeviceType, DIR_OUT
<1>8. IsrType' /\ DeviceType' /\ RxType'
  BY <1>1, <1>7 DEF IsrType, DeviceType, RxType
<1>9. Ready'
  BY <1>1, <1>3 DEF Ready, After, MainLoop
<1> QED BY <1>4, <1>5, <1>6, <1>8, <1>9

\* The encoder names an interrupt that is pending and enabled.
LEMMA EncoderExact ==
  ASSUME Ready, irq_signals # {}
  PROVE  irq_id \in irq_signals
<1>1. irq_signals \subseteq {UART_EVENT, GPIO_EVENT, TIMER_A_OUTPUT_CMP}
  BY DEF Ready, irq_signals
<1>2. \E i \in irq_signals : \A j \in irq_signals : j <= i
  <2>1. CASE TIMER_A_OUTPUT_CMP \in irq_signals
    BY <1>1, <2>1 DEF UART_EVENT, GPIO_EVENT, TIMER_A_OUTPUT_CMP
  <2>2. CASE TIMER_A_OUTPUT_CMP \notin irq_signals /\ GPIO_EVENT \in irq_signals
    BY <1>1, <2>2 DEF UART_EVENT, GPIO_EVENT, TIMER_A_OUTPUT_CMP
  <2>3. CASE TIMER_A_OUTPUT_CMP \notin irq_signals /\ GPIO_EVENT \notin irq_signals
    <3>1. irq_signals = {UART_EVENT}
      BY <1>1, <2>3
    <3> QED BY <3>1 DEF UART_EVENT
  <2> QED BY <2>1, <2>2, <2>3
<1> QED BY <1>2 DEF irq_id

\* The handler that an interrupt starts is that of an event which is pending.
LEMMA TrapHandler ==
  ASSUME ControlInv, TrapEntry
  PROVE  /\ mie /\ isr = None
         /\ isr' \in [handler : {"isr_uart", "isr_gpio", "isr_m_timer"}, at : {1}]
         /\ isr'.handler = "isr_uart" => UART_EVENT \in pending
<1>1. mie /\ mtvec /\ isr = None
  BY DEF TrapEntry, InterruptTaken, ControlInv, TypeInv, MainType, Ready, After, MainLoop
<1>2. PICK e \in irq_signals : isr' = [handler |-> Handler(e), at |-> 1]
  BY <1>1, EncoderExact DEF TrapEntry, InterruptTaken, ControlInv
<1>3. e \in pending /\ e \in {UART_EVENT, GPIO_EVENT, TIMER_A_OUTPUT_CMP}
  BY <1>2 DEF ControlInv, Ready, irq_signals
<1> QED
  BY <1>1, <1>2, <1>3 DEF Handler, UART_EVENT, GPIO_EVENT, TIMER_A_OUTPUT_CMP

\* Which access of which handler a statement is.
LEMMA HandlerAt ==
  ASSUME IsrType, isr # None
  PROVE  /\ isr.handler \in {"isr_uart", "isr_gpio", "isr_m_timer"}
         /\ isr.at \in 1..5
         /\ isr.handler # "isr_uart" => isr.at \in 1..4
         /\ (Statement = "rbr") <=> (isr.handler = "isr_uart" /\ isr.at = 1)
         /\ (Statement = "lw") <=> (isr.at = IF isr.handler = "isr_uart" THEN 2 ELSE 1)
         /\ (Statement = "sw") <=> (isr.at = IF isr.handler = "isr_uart" THEN 3 ELSE 2)
         /\ (Statement = "print") <=> (isr.at = IF isr.handler = "isr_uart" THEN 4 ELSE 3)
         /\ (Statement = "body") <=> (isr.at = IF isr.handler = "isr_uart" THEN 5 ELSE 4)
<1>1. CASE isr \in [handler : {"isr_uart"}, at : 1..5]
  BY <1>1, Tuples DEF Statement
<1>2. CASE isr \in [handler : {"isr_gpio", "isr_m_timer"}, at : 1..4]
  BY <1>2, Tuples DEF Statement
<1> QED BY <1>1, <1>2 DEF IsrType

LEMMA ProceedTo ==
  ASSUME IsrType, isr # None, Statement # "body", Proceed
  PROVE  /\ IsrType' /\ isr' # None
         /\ isr'.handler = isr.handler /\ isr'.at = isr.at + 1
<1>1. CASE isr \in [handler : {"isr_uart"}, at : 1..5]
  <2>1. isr' \in [handler : {"isr_uart"}, at : 1..5] /\ isr'.handler = isr.handler /\ isr'.at = isr.at + 1
    BY <1>1, HandlerAt DEF Proceed
  <2> QED BY <2>1, HandlersAreNotNone DEF IsrType
<1>2. CASE isr \in [handler : {"isr_gpio", "isr_m_timer"}, at : 1..4]
  <2>1. /\ isr' \in [handler : {"isr_gpio", "isr_m_timer"}, at : 1..4]
        /\ isr'.handler = isr.handler /\ isr'.at = isr.at + 1
    BY <1>2, HandlerAt DEF Proceed
  <2> QED BY <2>1, HandlersAreNotNone DEF IsrType
<1> QED BY <1>1, <1>2 DEF IsrType

LEMMA HandlerControl ==
  ASSUME ControlInv, Handle
  PROVE  ControlInv'
<1> USE DEF ControlInv, TypeInv
<1>1. UNCHANGED <<pc, line, led, mie, mtvec, rst_addr, IER, gpio, ticking, closed, wanted>>
  BY DEF Handle, TrapEntry, ReadRbr, ClearEvent, printf, Body, main_vars, setup_vars
<1>2. IsrType' /\ (isr' # None => mie)
  <2>1. CASE TrapEntry
    BY <2>1, TrapHandler DEF IsrType
  <2>2. CASE ReadRbr \/ ClearEvent \/ printf
    <3>1. isr # None /\ Statement # "body" /\ Proceed
      BY <2>2 DEF ReadRbr, ClearEvent, printf
    <3> QED BY <3>1, ProceedTo DEF Ready
  <2>3. CASE Body
    BY <2>3 DEF Body, IsrType
  <2> QED BY <2>1, <2>2, <2>3 DEF Handle
<1>3. icp' \subseteq Event
  BY DEF Handle, TrapEntry, ReadRbr, ClearEvent, printf, Body, ReadIcp, IcpValue, EventType
<1>4. pending' \subseteq Event
  <2>1. pending' = pending \/ \E cleared : EventUnit(cleared, {})
    BY DEF Handle, TrapEntry, ReadRbr, ClearEvent, printf, Body, WriteIcp
  <2> QED BY <2>1, EventUnitType DEF EventType
<1>5. run_leds' \in BOOLEAN
  BY DEF Handle, TrapEntry, ReadRbr, ClearEvent, printf, Body, FlagType
<1>6. uart' \in UartRegisters
  BY DEF Handle, TrapEntry, ReadRbr, ClearEvent, printf, Body, DeviceType, UartRegisters, uart_sendchar
<1>7. RxType'
  <2>1. CASE ReadRbr
    <3>1. \/ uart_rx' \in Char /\ rx' = rx
          \/ rx # << >> /\ uart_rx' = Head(rx) /\ rx' = Tail(rx)
      BY <2>1 DEF ReadRbr
    <3>2. rx # << >> => /\ Head(rx) \in Char /\ Tail(rx) \in Seq(Char)
                        /\ Len(Tail(rx)) = Len(rx) - 1 /\ Len(rx) \in Nat
      BY HeadTailProperties, LenProperties DEF RxType
    <3>3. uart_rx' \in Char /\ rx' \in Seq(Char) /\ Len(rx') <= RxDepth
      BY <3>1, <3>2, FirmwareAssumption DEF RxType
    <3> QED BY <3>3 DEF RxType
  <2>2. CASE ~ReadRbr
    BY <2>2 DEF Handle, TrapEntry, ClearEvent, printf, Body, RxType
  <2> QED BY <2>1, <2>2
<1> QED
  BY <1>1, <1>2, <1>3, <1>4, <1>5, <1>6, <1>7
  DEF MainType, EventType, FlagType, DeviceType, Ready, After

LEMMA EnvironmentControl ==
  ASSUME ControlInv, Environment
  PROVE  ControlInv'
<1> USE DEF ControlInv, TypeInv
<1>1. CASE MoveSwitch \/ Receive \/ Transmit \/ TimerIrq
  <2>1. /\ UNCHANGED <<pc, line, led, mie, mtvec, rst_addr, IER, gpio, ticking>>
        /\ UNCHANGED <<isr, icp, uart_rx, run_leds>>
    BY <1>1 DEF MoveSwitch, Receive, Transmit, TimerIrq, main_vars, setup_vars
  <2>2. wanted' \in BOOLEAN
    BY <1>1 DEF MoveSwitch, Receive, Transmit, TimerIrq, FlagType
  <2>3. closed' \subseteq Switch
    BY <1>1 DEF MoveSwitch, Receive, Transmit, TimerIrq, DeviceType
  <2>4. uart' \in UartRegisters
    BY <1>1 DEF MoveSwitch, Receive, Transmit, TimerIrq, DeviceType, UartRegisters
  <2>5. rx' \in Seq(Char) /\ Len(rx') <= RxDepth
    <3>1. CASE Receive
      <4>1. PICK c \in Char : rx' = Append(rx, c) /\ Len(rx) < RxDepth
        BY <3>1 DEF Receive
      <4>2. Append(rx, c) \in Seq(Char) /\ Len(Append(rx, c)) = Len(rx) + 1 /\ Len(rx) \in Nat
        BY AppendProperties, LenProperties DEF RxType
      <4> QED BY <4>1, <4>2, FirmwareAssumption
    <3>2. CASE ~Receive
      BY <1>1, <3>2 DEF MoveSwitch, Transmit, TimerIrq, RxType
    <3> QED BY <3>1, <3>2
  <2>6. pending' \subseteq Event
    <3>1. {TIMER_A_OVERFLOW} \in SUBSET Event /\ {TIMER_A_OUTPUT_CMP} \in SUBSET Event
      BY DEF Event, UART_EVENT, TIMER_A_OVERFLOW, TIMER_A_OUTPUT_CMP
    <3>2. pending' = pending \/ \E pulses \in SUBSET Event : EventUnit({}, pulses)
      BY <1>1, <3>1 DEF MoveSwitch, Receive, Transmit, TimerIrq
    <3> QED BY <3>2, EventUnitType DEF EventType
  <2> QED
    BY <2>1, <2>2, <2>3, <2>4, <2>5, <2>6
    DEF MainType, IsrType, EventType, FlagType, DeviceType, RxType, Ready, After
<1>2. CASE Reset
  <2>1. UNCHANGED <<rst_addr, IER, gpio, ticking, icp, uart_rx, run_leds, pending, uart, rx, closed>>
    BY <1>2 DEF Reset
  <2>2. /\ pc' \in {"rom", "setup"} /\ line' = 1 /\ led' = LedStart /\ isr' = None
        /\ mie' = FALSE /\ mtvec' = FALSE /\ wanted' = FALSE
    BY <1>2 DEF Reset, Booted
  <2>3. MainType'
    BY <2>2, LedTypes DEF MainType, MainLoop
  <2>4. FlagType'
    BY <2>1, <2>2, Zenon DEF FlagType
  <2>5. ~After(1)'
    BY <2>2 DEF After, MainLoop
  <2>6. IsrType' /\ Ready'
    BY <2>1, <2>2, <2>5 DEF IsrType, Ready
  <2> QED BY <2>1, <2>3, <2>4, <2>6 DEF EventType, DeviceType, RxType
<1>3. CASE Load
  <2>1. /\ UNCHANGED <<mie, mtvec, rst_addr, IER, gpio, ticking>>
        /\ UNCHANGED <<isr, icp, uart_rx, pending, uart, rx, closed, wanted>>
    BY <1>3 DEF Load, setup_vars
  <2>2. pc \in {"rom", "rom_leds"} /\ pc' = "setup" /\ line' = 1 /\ led' = LedStart /\ run_leds' \in BOOLEAN
    BY <1>3 DEF Load
  <2>3. MainType'
    BY <2>2, LedTypes DEF MainType
  <2>4. Ready'
    BY <2>1, <2>2 DEF Ready, After, MainLoop
  <2> QED BY <2>1, <2>2, <2>3, <2>4 DEF IsrType, EventType, FlagType, DeviceType, RxType
<1> QED BY <1>1, <1>2, <1>3 DEF Environment

LEMMA ControlStep == ControlInv /\ [Next]_vars => ControlInv'
<1>1. ControlInv /\ UNCHANGED vars => ControlInv'
  BY DEF vars, main_vars, setup_vars, ControlInv, TypeInv, MainType, IsrType, EventType, FlagType,
         DeviceType, RxType, Ready, After
<1> QED
  BY <1>1, SetupControl, LoopControl, HandlerControl, EnvironmentControl DEF Next, Main

\* Every variable keeps its type through resets and reloads; in particular only
\* the three handlers of main.c ever run, and only once mtvec is set.
THEOREM TypeCorrect == FairSpec => []TypeOK
<1>1. ControlInv => TypeOK
  BY TypesSuffice DEF ControlInv
<1> QED BY ControlInit, ControlStep, <1>1, PTL DEF FairSpec, Spec

-------------------------------------------------------------------------------
\* What a step of Setup does to the registers of the GPIO, register by register.
LEMMA SetupRegisters ==
  ASSUME MainType, gpio \in GpioRegisters, SetupStep
  PROVE  /\ line = 7 => gpio'.PADDIR = gpio.PADDIR \cup Led
         /\ line = 8 => gpio'.PADDIR = gpio.PADDIR \ Switch
         /\ line \notin {7, 8} => gpio'.PADDIR = gpio.PADDIR
         /\ line = 9 => gpio'.PADOUT = gpio.PADOUT \ Led
         /\ line # 9 => gpio'.PADOUT = gpio.PADOUT
         /\ IF line = 10 THEN gpio'.ENPIN = Switch ELSE gpio'.ENPIN = gpio.ENPIN
         /\ gpio'.INTEN = IF line = 17 THEN gpio.INTEN \cup Switch ELSE gpio.INTEN
         /\ gpio'.INTTYPE0 = IF line = 18 THEN gpio.INTTYPE0 \cup Switch ELSE gpio.INTTYPE0
         /\ gpio'.INTTYPE1 = IF line = 18 THEN gpio.INTTYPE1 \ Switch ELSE gpio.INTTYPE1
<1>1. line \in 1..24 /\ gpio' = GpioAfter(Setup[line])
  BY SetupEffects
<1>2. CASE line = 7
  <2>1. gpio' = set_gpio_pin_direction(gpio, Led, DIR_OUT)
    BY <1>1, <1>2, SetupGpio
  <2> QED BY <1>2, <2>1 DEF GpioRegisters, set_gpio_pin_direction, Written, DIR_OUT
<1>3. CASE line = 8
  <2>1. gpio' = set_gpio_pin_direction(gpio, Switch, DIR_IN)
    BY <1>1, <1>3, SetupGpio
  <2> QED BY <1>3, <2>1 DEF GpioRegisters, set_gpio_pin_direction, Written, DIR_IN
<1>4. CASE line = 9
  <2>1. gpio' = set_gpio_pin_value(gpio, Led, 0)
    BY <1>1, <1>4, SetupGpio
  <2> QED BY <1>4, <2>1 DEF GpioRegisters, set_gpio_pin_value, Written
<1>5. CASE line = 10
  <2>1. gpio' = enable_gpio_pins_read(gpio, Switch)
    BY <1>1, <1>5, SetupGpio
  <2> QED BY <1>5, <2>1 DEF GpioRegisters, enable_gpio_pins_read
<1>6. CASE line = 17
  <2>1. gpio' = set_gpio_pin_irq_en(gpio, Switch, 1)
    BY <1>1, <1>6, SetupGpio
  <2> QED BY <1>6, <2>1 DEF GpioRegisters, set_gpio_pin_irq_en, Written
<1>7. CASE line = 18
  <2>1. gpio' = set_gpio_pin_irq_type(gpio, Switch, 1)
    BY <1>1, <1>7, SetupGpio DEF GPIO_IRQ_LEV1
  <2>2. 1 % 2 = 1 /\ 1 \div 2 = 0
    OBVIOUS
  <2> QED BY <1>7, <2>1, <2>2 DEF GpioRegisters, set_gpio_pin_irq_type, Written
<1>8. CASE line \notin {7, 8, 9, 10, 17, 18}
  <2>1. gpio' = gpio
    BY <1>1, <1>8, SetupGpio
  <2> QED BY <1>8, <2>1
<1> QED BY <1>2, <1>3, <1>4, <1>5, <1>6, <1>7, <1>8
-------------------------------------------------------------------------------
\* The LEDs that are on while a run of one colour has come to led.
Lit == {q \in Led : q % 3 = led.pin % 3 /\ (IF led.on THEN q < led.pin ELSE q >= led.pin)}

LedInv == /\ ControlInv
          /\ After(7) => Led \subseteq gpio.PADDIR
          /\ After(9) /\ pc # "leds" => Led \cap gpio.PADOUT = {}
          /\ pc = "leds" => Led \cap gpio.PADOUT = Lit

LEMMA Thirds ==
  ASSUME NEW p \in Nat
  PROVE  /\ p % 3 \in 0..2 /\ p % 3 <= p
         /\ (p + 3) % 3 = p % 3
         /\ (p % 3) % 3 = p % 3
         /\ \A q \in Nat : q % 3 = p % 3 => (q < p + 3 <=> q < p \/ q = p)
         /\ \A q \in Nat : q % 3 = p % 3 => ~(q < p % 3)
         /\ (p + 1) % 3 = IF p % 3 = 2 THEN 0 ELSE (p % 3) + 1
OBVIOUS

\* Driving the LED that is next and moving on keeps the LEDs lit as they should.
LEMMA DriveKeepsLit ==
  ASSUME ControlInv, DriveLed, Led \cap gpio.PADOUT = Lit
  PROVE  IF LastLed THEN Led \cap gpio'.PADOUT = {} ELSE Led \cap gpio'.PADOUT = Lit'
<1>1. led \in [on : BOOLEAN, pin : Led] /\ gpio \in GpioRegisters
  BY DEF ControlInv, TypeInv, MainType, DeviceType
<1> DEFINE p == led.pin
<1>2. p \in Led /\ p \in Nat /\ p < NLeds /\ NLeds \in Nat
  BY <1>1, FirmwareAssumption DEF Led
<1>3. gpio'.PADOUT = IF led.on THEN gpio.PADOUT \cup {p} ELSE gpio.PADOUT \ {p}
  BY <1>1 DEF DriveLed, set_gpio_pin_value, Written, GpioRegisters
<1>4. led' = NextLed
  BY DEF DriveLed
<1>5. \A q \in Led : q \in Nat /\ q < NLeds
  BY FirmwareAssumption DEF Led
<1>6. Led \cap gpio'.PADOUT = {q \in Led : q % 3 = p % 3 /\ (IF led.on THEN q < p + 3 ELSE q >= p + 3)}
  <2>1. \A q \in Led : q % 3 = p % 3 => (q < p + 3 <=> q < p \/ q = p)
    BY <1>2, <1>5, Thirds
  <2>2. CASE led.on
    BY <1>2, <1>3, <2>1, <2>2 DEF Lit
  <2>3. CASE ~led.on
    <3>1. \A q \in Led : q % 3 = p % 3 => (q >= p + 3 <=> q >= p /\ q # p)
      BY <1>2, <1>5, <2>1
    <3> QED BY <1>2, <1>3, <2>3, <3>1 DEF Lit
  <2> QED BY <2>2, <2>3
<1>7. CASE ~LastOfColour
  <2>1. led'.on = led.on /\ led'.pin = p + 3
    BY <1>1, <1>4, <1>7 DEF NextLed
  <2>2. (p + 3) % 3 = p % 3
    BY <1>2, Thirds
  <2>3. ~LastLed
    BY <1>7 DEF LastLed
  <2> QED BY <1>6, <2>1, <2>2, <2>3 DEF Lit
<1>8. CASE LastOfColour /\ led.on
  <2>1. led'.on = FALSE /\ led'.pin = p % 3
    BY <1>4, <1>8 DEF NextLed
  <2>2. (p % 3) % 3 = p % 3 /\ \A q \in Led : q % 3 = p % 3 => q >= p % 3
    BY <1>2, <1>5, Thirds
  <2>3. \A q \in Led : q < p + 3
    BY <1>2, <1>5, <1>8 DEF LastOfColour
  <2>4. ~LastLed
    BY <1>8 DEF LastLed
  <2> QED BY <1>6, <1>8, <2>1, <2>2, <2>3, <2>4 DEF Lit
<1>9. CASE LastOfColour /\ ~led.on
  <2>1. led'.on = TRUE /\ led'.pin = (p + 1) % 3
    BY <1>4, <1>9 DEF NextLed
  <2>2. \A q \in Led : ~(q >= p + 3)
    BY <1>2, <1>5, <1>9 DEF LastOfColour
  <2>3. Led \cap gpio'.PADOUT = {}
    BY <1>6, <1>9, <2>2
  <2>4. Lit' = {}
    <3>1. (p + 1) % 3 \in Nat /\ ((p + 1) % 3) % 3 = (p + 1) % 3
      BY <1>2, Thirds
    <3>2. \A q \in Led : q % 3 = (p + 1) % 3 => ~(q < (p + 1) % 3)
      BY <1>2, <1>5, Thirds
    <3> QED BY <2>1, <3>1, <3>2 DEF Lit
  <2> QED BY <2>3, <2>4
<1> QED BY <1>7, <1>8, <1>9

LEMMA LedStep == LedInv /\ [Next]_vars => LedInv'
<1> SUFFICES ASSUME LedInv, [Next]_vars PROVE LedInv'
  OBVIOUS
<1> USE DEF LedInv
<1>0. ControlInv' /\ MainType /\ gpio \in GpioRegisters
  BY ControlStep DEF ControlInv, TypeInv, DeviceType
<1>1. CASE SetupStep
  <2>1. Switch \cap Led = {}
    BY FirmwareAssumption
  <2>2. line \in 1..24 /\ gpio' = GpioAfter(Setup[line])
    BY <1>0, <1>1, SetupEffects
  <2>3. /\ line = 7 => gpio'.PADDIR = gpio.PADDIR \cup Led
        /\ line = 8 => gpio'.PADDIR = gpio.PADDIR \ Switch
        /\ line \notin {7, 8} => gpio'.PADDIR = gpio.PADDIR
    BY <1>0, <1>1, SetupRegisters
  <2>4. /\ line = 9 => gpio'.PADOUT = gpio.PADOUT \ Led
        /\ line # 9 => gpio'.PADOUT = gpio.PADOUT
    BY <1>0, <1>1, SetupRegisters
  <2>5. After(7)' => Led \subseteq gpio'.PADDIR
    BY <1>0, <1>1, <2>1, <2>2, <2>3, SetupAfter
  <2>6. After(9)' => Led \cap gpio'.PADOUT = {}
    BY <1>0, <1>1, <2>2, <2>4, SetupAfter
  <2>7. pc' # "leds"
    BY <1>0, <1>1, SetupAfter
  <2> QED BY <1>0, <2>5, <2>6, <2>7
<1>2. CASE Check
  BY <1>0, <1>2 DEF Check, setup_vars, After, MainLoop
<1>3. CASE loop_leds /\ pc = "loop_leds"
  <2>1. /\ pc' = "leds" /\ led' = LedStart /\ gpio' = gpio
    BY <1>3 DEF loop_leds
  <2>2. Led \subseteq gpio.PADDIR /\ Led \cap gpio.PADOUT = {}
    BY <1>3 DEF After, MainLoop
  <2>3. Lit' = {}
    <3>1. led'.on = TRUE /\ led'.pin = 0
      BY <2>1 DEF LedStart
    <3>2. \A q \in Led : ~(q < 0)
      BY FirmwareAssumption DEF Led
    <3> QED BY <3>1, <3>2 DEF Lit
  <2> QED BY <1>0, <2>1, <2>2, <2>3
<1>4. CASE loop_leds /\ pc = "leds"
  <2>1. pc' = (IF LastLed THEN "check" ELSE "leds") /\ DriveLed
    BY <1>4 DEF loop_leds
  <2>2. gpio'.PADDIR = gpio.PADDIR
    BY <1>0, <2>1 DEF DriveLed, set_gpio_pin_value, GpioRegisters
  <2>3. Led \subseteq gpio.PADDIR /\ Led \cap gpio.PADOUT = Lit
    BY <1>4 DEF After, MainLoop
  <2> QED BY <1>0, <2>1, <2>2, <2>3, DriveKeepsLit
<1>5. CASE RomStep
  <2>1. pc' \in {"rom", "rom_leds"}
    BY <1>5 DEF RomStep
  <2> QED BY <1>0, <2>1 DEF After, MainLoop
<1>6. CASE Handle \/ UNCHANGED vars
  <2>1. UNCHANGED <<pc, line, led, gpio>>
    BY <1>6 DEF Handle, TrapEntry, ReadRbr, ClearEvent, printf, Body, main_vars, setup_vars, vars
  <2> QED BY <1>0, <2>1 DEF After, Lit
<1>7. CASE MoveSwitch \/ Receive \/ Transmit \/ TimerIrq
  <2>1. UNCHANGED <<pc, line, led, gpio>>
    BY <1>7 DEF MoveSwitch, Receive, Transmit, TimerIrq, main_vars, setup_vars
  <2> QED BY <1>0, <2>1 DEF After, Lit
<1>8. CASE Reset \/ Load
  <2>1. pc' \in {"rom", "setup"} /\ line' = 1
    BY <1>8 DEF Reset, Load, Booted
  <2> QED BY <1>0, <2>1 DEF After, MainLoop
<1>9. loop_leds => pc \in {"loop_leds", "leds"}
  BY DEF loop_leds
<1> QED
  BY <1>1, <1>2, <1>3, <1>4, <1>5, <1>6, <1>7, <1>8, <1>9 DEF Next, Main, Environment

\* Whenever main comes back to its loop every LED is off, for every number of
\* LEDs and whatever the resets and the ROM's program left in the registers.
THEOREM LedsOff == FairSpec => []LedsOffWhenIdle
<1>1. Init => LedInv
  BY ControlInit DEF Init, Booted, LedInv, After, MainLoop
<1>2. LedInv => LedsOffWhenIdle
  BY DEF LedInv, LedsOffWhenIdle, After, MainLoop
<1> QED BY LedStep, <1>1, <1>2, PTL DEF FairSpec, Spec

\* A step of main in a LED run leaves fewer LEDs to drive.
LEMMA DriveLeavesLess ==
  ASSUME ControlInv, DriveLed, ~LastLed
  PROVE  LedsLeft' \in 0..LedsLeft - 1
<1> DEFINE p == led.pin
           q == led'.pin
           all(n) == (2 - (n % 3)) * (2 * NLeds)
<1>1. led \in [on : BOOLEAN, pin : Led] /\ led' = NextLed
  BY DEF ControlInv, TypeInv, MainType, DriveLed
<1>2. p \in Nat /\ p < NLeds /\ NLeds \in Nat /\ NLeds >= 3 /\ p % 3 \in 0..2 /\ p % 3 <= p
  BY <1>1, FirmwareAssumption, Thirds DEF Led
<1>3. /\ \A n \in Nat : n % 3 = 0 => all(n) = 4 * NLeds
      /\ \A n \in Nat : n % 3 = 1 => all(n) = 2 * NLeds
      /\ \A n \in Nat : n % 3 = 2 => all(n) = 0
  BY <1>2
<1>4. /\ LedsLeft = all(p) + (IF led.on THEN NLeds ELSE 0) + NLeds - p
      /\ LedsLeft' = all(q) + (IF led'.on THEN NLeds ELSE 0) + NLeds - q
  BY DEF LedsLeft
<1> HIDE DEF all
<1>5. CASE ~LastOfColour
  <2>1. led'.on = led.on /\ q = p + 3 /\ p + 3 < NLeds
    BY <1>1, <1>2, <1>5 DEF NextLed, LastOfColour
  <2>2. q % 3 = p % 3 /\ q \in Nat
    <3>1. (p + 3) % 3 = p % 3 /\ p + 3 \in Nat
      BY <1>2, Thirds
    <3> QED BY <2>1, <3>1
  <2>3. all(q) = all(p) /\ all(p) \in Nat
    BY <1>2, <1>3, <2>2
  <2> QED BY <1>1, <1>2, <1>4, <2>1, <2>2, <2>3
<1>6. CASE LastOfColour /\ led.on
  <2>1. led'.on = FALSE /\ q = p % 3
    BY <1>1, <1>6 DEF NextLed
  <2>2. q % 3 = p % 3 /\ q \in Nat /\ q <= 2
    BY <1>2, <2>1, Thirds
  <2>3. all(q) = all(p) /\ all(p) \in Nat
    BY <1>2, <1>3, <2>2
  <2> QED BY <1>1, <1>2, <1>4, <1>6, <2>1, <2>2, <2>3
<1>7. CASE LastOfColour /\ ~led.on
  <2>1. led'.on = TRUE /\ q = (p + 1) % 3 /\ p % 3 # 2
    BY <1>1, <1>7 DEF NextLed, LastLed
  <2>2. q = (p % 3) + 1 /\ q \in {1, 2} /\ q % 3 = q
    BY <1>2, <2>1, Thirds
  <2>3. all(p) = all(q) + 2 * NLeds /\ all(q) \in Nat
    BY <1>2, <1>3, <2>2
  <2> QED BY <1>1, <1>2, <1>4, <1>7, <2>1, <2>2, <2>3
<1> QED BY <1>5, <1>6, <1>7

\* For every number of LEDs a run that main has started leaves fewer to drive
\* with every step of main, whatever interrupts it.
THEOREM RunsEnd == FairSpec => LedRunsEnd
<1> DEFINE Ends == pc = "leds" /\ pc' = "leds" =>
                     IF loop_leds THEN LedsLeft' \in 0..LedsLeft - 1 ELSE led' = led
<1>1. ControlInv /\ [Next]_vars => [Ends]_vars
  <2> SUFFICES ASSUME ControlInv, [Next]_vars, pc = "leds", pc' = "leds"
               PROVE  IF loop_leds THEN LedsLeft' \in 0..LedsLeft - 1 ELSE led' = led
    OBVIOUS
  <2>1. CASE loop_leds
    <3>1. DriveLed /\ ~LastLed
      BY <2>1 DEF loop_leds
    <3> QED BY <2>1, <3>1, DriveLeavesLess
  <2>2. CASE ~loop_leds
    <3>1. ~SetupStep /\ ~Check /\ ~RomStep /\ ~Reset /\ ~Load
      BY DEF SetupStep, Check, RomStep, Reset, Load, Booted
    <3>2. UNCHANGED led
      BY <2>2, <3>1 DEF Next, Main, Handle, TrapEntry, ReadRbr, ClearEvent, printf, Body, Environment,
                        MoveSwitch, Receive, Transmit, TimerIrq, main_vars, vars
    <3> QED BY <2>2, <3>2
  <2> QED BY <2>1, <2>2
<1>2. ControlInv /\ [Next]_vars => ControlInv'
  BY ControlStep
<1> QED BY ControlInit, <1>1, <1>2, PTL DEF FairSpec, Spec, LedRunsEnd

-------------------------------------------------------------------------------
\* The receiver.  Lines that are high are pending; the UART's event outlives its
\* character only until main's set-up has cleared it, or while isr_uart is
\* between reading the one and clearing the other.
ReceiverInv ==
  /\ ControlInv
  /\ Lines \subseteq pending
  /\ After(5) => ~uart.dlab
  /\ After(12) /\ UART_EVENT \in pending =>
       rx # << >> \/ (InHandler("isr_uart") /\ isr.at \in {2, 3})
  /\ NoEmptyRead

\* Only the character raises the UART's event.
LEMMA UartLine == UART_EVENT \in Lines => rx # << >>
BY DEF Lines, UART_EVENT, GPIO_EVENT

LEMMA SetupReceiver == ASSUME ReceiverInv, SetupStep PROVE ReceiverInv'
<1> USE DEF ReceiverInv
<1>1. ControlInv' /\ MainType /\ uart \in UartRegisters
  BY ControlStep DEF ControlInv, TypeInv, DeviceType, Next, Main
<1>2. line \in 1..24 /\ isr = None /\ isr' = isr /\ (line > 4 => rx' = rx)
  BY <1>1, SetupEffects
<1>3. PICK cleared : /\ pending' = (pending \ cleared) \cup Lines'
                     /\ line = 12 => UART_EVENT \in cleared
  <2>1. CASE Setup[line].op = "sw"
    <3>1. pending' = (pending \ (icp \cup {Setup[line].event})) \cup Lines'
      BY <2>1 DEF SetupStep, cfg_int, WriteIcp, EventUnit
    <3>2. line = 12 => UART_EVENT \in icp \cup {Setup[line].event}
      BY SetupOps
    <3> QED BY <3>1, <3>2
  <2>2. CASE Setup[line].op # "sw"
    <3>1. pending' = (pending \ {}) \cup Lines'
      BY <2>2 DEF SetupStep, cfg_int, EventUnit
    <3>2. line # 12
      BY <2>2, SetupOps, SMTT(30)
    <3> QED BY <3>1, <3>2
  <2> QED BY <2>1, <2>2
<1>4. After(5)' => ~uart'.dlab
  <2>1. uart' = UartAfter(Setup[line])
    BY DEF SetupStep, cfg_int
  <2>2. CASE line = 5
    <3>1. uart' = ClearDlab(uart)
      BY <2>1, <2>2, SetupOps DEF UartAfter
    <3> QED BY <1>1, <3>1 DEF ClearDlab, UartRegisters
  <2>3. CASE line > 5
    <3>1. uart' = SetIer(uart) \/ uart' = uart
      <4>1. line # 3 /\ line # 4 /\ line # 5
        BY <1>2, <2>3
      <4>2. Setup[line].op # "lcr_dlab" /\ Setup[line].op # "fcr" /\ Setup[line].op # "lcr"
        BY <1>2, <4>1, SetupOps
      <4> QED BY <2>1, <4>2 DEF UartAfter
    <3>2. ~uart.dlab
      BY <1>1, <1>2, <2>3, SetupAfter
    <3> QED BY <1>1, <3>1, <3>2 DEF SetIer, UartRegisters
  <2> QED BY <1>1, <1>2, <2>2, <2>3, SetupAfter
<1>5. After(12)' /\ UART_EVENT \in pending' => rx' # << >>
  <2>1. SUFFICES ASSUME After(12)', UART_EVENT \in pending', UART_EVENT \notin Lines' PROVE rx' # << >>
    BY DEF Lines, UART_EVENT, GPIO_EVENT
  <2>2. line > 12 /\ UART_EVENT \in pending
    BY <1>1, <1>2, <1>3, <2>1, SetupAfter
  <2> QED BY <1>1, <1>2, <2>2, SetupAfter DEF InHandler
<1>6. NoEmptyRead'
  BY <1>2 DEF NoEmptyRead, InHandler
<1> QED BY <1>1, <1>3, <1>4, <1>5, <1>6

\* A step that moves neither main to another place in Setup nor the handler, nor
\* takes a character away, and clears no event.
LEMMA QuietReceiver ==
  ASSUME ReceiverInv, ControlInv',
         After(5)' <=> After(5), After(12)' <=> After(12), isr' = isr, uart'.dlab = uart.dlab,
         rx # << >> => rx' # << >>,
         Lines' \subseteq pending',
         UART_EVENT \in pending' => UART_EVENT \in pending \/ UART_EVENT \in Lines'
  PROVE  ReceiverInv'
<1>1. UART_EVENT \in Lines' => rx' # << >>
  BY DEF Lines, UART_EVENT, GPIO_EVENT
<1> QED BY <1>1 DEF ReceiverInv, NoEmptyRead, InHandler, Statement

LEMMA LoopReceiver == ASSUME ReceiverInv, Check \/ loop_leds \/ RomStep PROVE ReceiverInv'
<1>1. ControlInv'
  BY ControlStep DEF ReceiverInv, Next, Main
<1>2. isr' = isr /\ uart' = uart /\ rx' = rx
  BY DEF Check, loop_leds, RomStep
<1>3. (After(5)' <=> After(5)) /\ (After(12)' <=> After(12))
  BY DEF Check, loop_leds, RomStep, After, MainLoop
<1>4. \/ pending' = pending \cup Lines'
      \/ pending' = pending /\ Lines' = Lines
  <2>1. CASE Check
    BY <2>1 DEF Check, setup_vars, Lines
  <2>2. CASE loop_leds \/ RomStep
    BY <2>2 DEF loop_leds, RomStep, EventUnit
  <2> QED BY <2>1, <2>2
<1> QED BY <1>1, <1>2, <1>3, <1>4, QuietReceiver DEF ReceiverInv

LEMMA HandlerReceiver == ASSUME ReceiverInv, Handle PROVE ReceiverInv'
<1> USE DEF ReceiverInv
<1>1. /\ ControlInv' /\ IsrType /\ mie \in BOOLEAN /\ rx \in Seq(Char)
      /\ uart \in UartRegisters /\ (isr # None => After(23))
  BY ControlStep DEF ControlInv, TypeInv, DeviceType, FlagType, RxType, Ready, Next
<1>2. UNCHANGED <<pc, line, gpio, closed>>
  BY DEF Handle, TrapEntry, ReadRbr, ClearEvent, printf, Body, main_vars, setup_vars
<1>3. /\ After(5)' <=> After(5)
      /\ After(12)' <=> After(12)
      /\ After(23) => After(5) /\ After(12)
  BY <1>2 DEF After, MainLoop, ControlInv, TypeInv, MainType
<1>4. uart'.dlab = uart.dlab /\ uart'.erbfi = uart.erbfi
  BY <1>1 DEF Handle, TrapEntry, ReadRbr, ClearEvent, printf, Body, UartRegisters, uart_sendchar
<1>5. Lines' \subseteq pending'
  BY <1>2, <1>4 DEF Handle, TrapEntry, ReadRbr, ClearEvent, printf, Body, WriteIcp, EventUnit, Lines
<1>6. UART_EVENT \in Lines' => rx' # << >>
  BY DEF Lines, UART_EVENT, GPIO_EVENT
<1>7. CASE TrapEntry
  <2>1. After(23) /\ isr = None /\ pending' = pending /\ rx' = rx
    BY <1>7, TrapHandler DEF TrapEntry, ControlInv, Ready
  <2>2. isr'.handler = "isr_uart" => rx # << >>
    BY <1>3, <1>7, <2>1, TrapHandler DEF InHandler
  <2> QED BY <1>1, <1>3, <1>4, <1>5, <2>1, <2>2 DEF InHandler, NoEmptyRead
<1>8. CASE ReadRbr
  <2>1. isr # None /\ isr.handler = "isr_uart" /\ isr.at = 1 /\ Statement # "body" /\ Proceed
    BY <1>1, <1>8, HandlerAt DEF ReadRbr
  <2>2. isr' # None /\ isr'.handler = "isr_uart" /\ isr'.at = 2 /\ IsrType'
    BY <1>1, <2>1, ProceedTo
  <2>3. Statement' # "rbr"
    BY <2>2, Tuples DEF Statement
  <2> QED BY <1>1, <1>3, <1>4, <1>5, <2>2, <2>3 DEF InHandler, NoEmptyRead
<1>9. CASE ClearEvent
  <2>1. isr # None /\ Statement \in {"lw", "sw"} /\ Statement # "body" /\ Proceed /\ rx' = rx
    BY <1>9 DEF ClearEvent
  <2>2. isr' # None /\ isr'.handler = isr.handler /\ isr'.at = isr.at + 1 /\ IsrType'
    BY <1>1, <2>1, ProceedTo
  <2>3. isr'.handler = "isr_uart" => isr'.at \in {3, 4} /\ (isr'.at = 4 => Statement = "sw")
    BY <1>1, <2>1, <2>2, HandlerAt
  <2>4. PICK cleared : /\ pending' = (pending \ cleared) \cup Lines'
                       /\ Statement = "sw" => EventOf(isr.handler) \in cleared
    <3>1. CASE Statement = "sw"
      <4>1. pending' = (pending \ (icp \cup {EventOf(isr.handler)})) \cup Lines'
        BY ONLY <1>9, <3>1 DEF ClearEvent, WriteIcp, EventUnit
      <4> QED BY <4>1
    <3>2. CASE Statement # "sw"
      <4>1. pending' = (pending \ {}) \cup Lines'
        BY ONLY <1>9, <3>2 DEF ClearEvent, EventUnit
      <4> QED BY <3>2, <4>1
    <3> QED BY <3>1, <3>2
  <2>5. NoEmptyRead'
    BY <2>2, <2>3, Tuples DEF NoEmptyRead, InHandler, Statement
  <2>6. UART_EVENT \in pending' => rx' # << >> \/ (InHandler("isr_uart")' /\ isr'.at \in {2, 3})
    <3>1. SUFFICES ASSUME UART_EVENT \in pending', UART_EVENT \notin Lines'
                   PROVE  rx' # << >> \/ (InHandler("isr_uart")' /\ isr'.at \in {2, 3})
      BY <1>6
    <3>2. UART_EVENT \in pending \ cleared
      BY <2>4, <3>1
    <3>3. CASE isr.handler = "isr_uart"
      <4>1. isr'.at # 4
        BY <2>2, <2>3, <2>4, <3>2, <3>3 DEF EventOf
      <4> QED BY <2>2, <2>3, <3>3, <4>1 DEF InHandler
    <3>4. CASE isr.handler # "isr_uart"
      BY <1>1, <1>3, <2>1, <3>2, <3>4 DEF InHandler
    <3> QED BY <3>3, <3>4
  <2> QED BY <1>1, <1>3, <1>4, <1>5, <2>5, <2>6
<1>10. CASE printf
  <2>1. isr # None /\ Statement = "print" /\ Statement # "body" /\ Proceed /\ rx' = rx /\ pending' = pending
    BY <1>10 DEF printf
  <2>2. isr' # None /\ isr'.handler = isr.handler /\ isr'.at = isr.at + 1 /\ IsrType'
    BY <1>1, <2>1, ProceedTo
  <2>3. isr.handler = "isr_uart" => isr.at = 4
    BY <1>1, <2>1, HandlerAt
  <2>4. NoEmptyRead'
    BY <2>2, <2>3, Tuples DEF NoEmptyRead, InHandler, Statement
  <2> QED BY <1>1, <1>3, <1>4, <1>5, <2>1, <2>2, <2>3, <2>4 DEF InHandler
<1>11. CASE Body
  <2>1. isr # None /\ Statement = "body" /\ isr' = None /\ rx' = rx /\ pending' = pending
    BY <1>11 DEF Body
  <2>2. isr.handler = "isr_uart" => isr.at = 5
    BY <1>1, <2>1, HandlerAt
  <2> QED BY <1>1, <1>3, <1>4, <1>5, <2>1, <2>2 DEF InHandler, NoEmptyRead
<1> QED BY <1>7, <1>8, <1>9, <1>10, <1>11 DEF Handle

LEMMA EnvironmentReceiver == ASSUME ReceiverInv, Environment PROVE ReceiverInv'
<1> USE DEF ReceiverInv
<1>1. ControlInv' /\ rx \in Seq(Char) /\ uart \in UartRegisters
  BY ControlStep DEF ControlInv, TypeInv, DeviceType, RxType, Next
<1>2. CASE MoveSwitch \/ Receive \/ Transmit \/ TimerIrq
  <2>1. UNCHANGED <<pc, line, isr, gpio>>
    BY <1>2 DEF MoveSwitch, Receive, Transmit, TimerIrq, main_vars, setup_vars
  <2>2. uart'.dlab = uart.dlab /\ uart'.erbfi = uart.erbfi
    BY <1>1, <1>2 DEF MoveSwitch, Receive, Transmit, TimerIrq, UartRegisters
  <2>3. rx # << >> => rx' # << >>
    <3>1. rx' = rx \/ \E c \in Char : rx' = Append(rx, c)
      BY <1>2 DEF MoveSwitch, Receive, Transmit, TimerIrq
    <3> QED BY <1>1, <3>1, AppendProperties
  <2>4. Lines' \subseteq pending'
    BY <1>2, <2>1, <2>2 DEF MoveSwitch, Receive, Transmit, TimerIrq, EventUnit, Lines
  <2>5. UART_EVENT \in pending' => UART_EVENT \in pending \/ UART_EVENT \in Lines'
    BY <1>2 DEF MoveSwitch, Receive, Transmit, TimerIrq, EventUnit,
                UART_EVENT, TIMER_A_OVERFLOW, TIMER_A_OUTPUT_CMP
  <2> QED BY <1>1, <2>1, <2>2, <2>3, <2>4, <2>5, QuietReceiver DEF After
<1>3. CASE Reset \/ Load
  <2>1. pc' \in {"rom", "setup"} /\ line' = 1 /\ UNCHANGED <<gpio, closed, uart, rx, pending>>
    BY <1>3 DEF Reset, Load, Booted, setup_vars
  <2>2. ~After(5)' /\ ~After(12)' /\ Lines' = Lines
    BY <2>1 DEF After, MainLoop, Lines
  <2>3. isr' = None
    <3>1. CASE Load
      BY <3>1 DEF Load, ControlInv, Ready, After, MainLoop
    <3>2. CASE Reset
      BY <3>2 DEF Reset
    <3> QED BY <1>3, <3>1, <3>2
  <2> QED BY <1>1, <2>1, <2>2, <2>3 DEF NoEmptyRead, InHandler
<1> QED BY <1>2, <1>3 DEF Environment

LEMMA ReceiverStep == ReceiverInv /\ [Next]_vars => ReceiverInv'
<1>1. ASSUME ReceiverInv, UNCHANGED vars PROVE ReceiverInv'
  <2>1. UNCHANGED <<pc, line, isr, gpio, closed, uart, rx, pending>>
    BY <1>1 DEF vars, main_vars, setup_vars
  <2>2. ControlInv'
    BY <1>1, ControlStep DEF ReceiverInv
  <2> QED BY <1>1, <2>1, <2>2 DEF ReceiverInv, After, Lines, NoEmptyRead, InHandler, Statement
<1> QED
  BY <1>1, SetupReceiver, LoopReceiver, HandlerReceiver, EnvironmentReceiver DEF Next, Main

LEMMA ReceiverInit == Init => ReceiverInv
<1> SUFFICES ASSUME Init PROVE ReceiverInv
  OBVIOUS
<1>1. Lines = {}
  BY DEF Init, Lines, Raising, GpioReset
<1>2. ~After(5) /\ ~After(12) /\ isr = None
  BY DEF Init, After, MainLoop, Booted
<1> QED BY <1>1, <1>2, ControlInit DEF ReceiverInv, NoEmptyRead, InHandler

\* isr_uart never reads an empty receiver nor the divisor, whatever ICP reads as
\* and wherever a reset cut the program before.
THEOREM NeverReadsEmpty == FairSpec => []NoEmptyRead
<1>1. ReceiverInv => NoEmptyRead
  BY DEF ReceiverInv
<1> QED BY ReceiverInit, ReceiverStep, <1>1, PTL DEF FairSpec, Spec

-------------------------------------------------------------------------------
\* No request is forgotten, if ICP reads as zero: then ICP |= mask clears the
\* handler's own event and no other.  A switch that closes is seen because its
\* pin is set up by then; before the events are cleared only an 'a' in the
\* receiver can have asked.
Configured == /\ After(10) => Switch \subseteq gpio.ENPIN
              /\ After(17) => Switch \subseteq gpio.INTEN
              /\ After(18) => Switch \subseteq gpio.INTTYPE0 /\ Switch \cap gpio.INTTYPE1 = {}

CharWaits == \E i \in 1..Len(rx) : rx[i] = LedChar

KeptInv == /\ ReceiverInv
           /\ icp = {}
           /\ Configured
           /\ wanted => After(4)
           /\ wanted /\ ~After(16) => CharWaits
           /\ RequestKept

LEMMA SetupKept == ASSUME IcpReadsZero, KeptInv, SetupStep PROVE KeptInv'
<1> USE DEF KeptInv
<1>1. ReceiverInv' /\ MainType /\ gpio \in GpioRegisters
  BY SetupReceiver DEF ReceiverInv, ControlInv, TypeInv, DeviceType
<1>2. icp' = {}
  BY DEF SetupStep, cfg_int, ReadIcp, IcpValue
<1>3. /\ line \in 1..24 /\ isr = None
      /\ UNCHANGED <<run_leds, wanted, isr, uart_rx>>
      /\ rx' = IF line = 4 THEN << >> ELSE rx
  BY <1>1, SetupEffects
<1>4. /\ \A n \in 0..24 : After(n) <=> line > n
      /\ \A n \in 0..24 : After(n)' <=> line >= n
  BY <1>1, SetupAfter
<1>5. Configured'
  <2>1. After(10)' => Switch \subseteq gpio'.ENPIN
    BY <1>1, <1>3, <1>4, SetupRegisters, SMTT(30) DEF Configured
  <2>2. After(17)' => Switch \subseteq gpio'.INTEN
    BY <1>1, <1>3, <1>4, SetupRegisters, SMTT(30) DEF Configured
  <2>3. After(18)' => Switch \subseteq gpio'.INTTYPE0 /\ Switch \cap gpio'.INTTYPE1 = {}
    BY <1>1, <1>3, <1>4, SetupRegisters, SMTT(30) DEF Configured
  <2> QED BY <2>1, <2>2, <2>3 DEF Configured
<1>6. wanted => line > 4 /\ rx' = rx
  BY <1>3, <1>4
<1>7. wanted /\ ~After(16)' => CharWaits'
  BY <1>3, <1>4, <1>6, SMTT(30) DEF CharWaits
<1>8. line > 16 /\ GPIO_EVENT \in pending => GPIO_EVENT \in pending'
  <2>1. line > 16 => Setup[line].op # "sw"
    <3>1. line > 16 => line \notin {12, 14, 16}
      BY <1>3
    <3> QED BY <1>3, <3>1, SetupOps
  <2>2. Setup[line].op # "sw" => EventUnit({}, {})
    BY DEF SetupStep, cfg_int
  <2> QED BY <2>1, <2>2 DEF EventUnit
<1>9. RequestKept'
  <2>1. CASE line > 16
    BY <1>3, <1>6, <1>8, <2>1 DEF RequestKept, InHandler
  <2>2. CASE line <= 16
    <3>1. ~After(16)
      BY <1>4, <2>2, <1>3
    <3>2. wanted' => CharWaits /\ rx' = rx
      BY ONLY <1>3, <1>6, <3>1, KeptInv DEF KeptInv
    <3> QED BY ONLY <3>2 DEF RequestKept, CharWaits
  <2> QED BY <1>3, <2>1, <2>2
<1> QED BY <1>1, <1>2, <1>3, <1>4, <1>5, <1>6, <1>7, <1>9

LEMMA LoopKept == ASSUME KeptInv, Check \/ loop_leds \/ RomStep PROVE KeptInv'
<1> USE DEF KeptInv
<1>1. ReceiverInv' /\ gpio \in GpioRegisters
  BY LoopReceiver DEF ReceiverInv, ControlInv, TypeInv, DeviceType
<1>2. icp' = {} /\ UNCHANGED <<isr, uart_rx, rx>>
  BY DEF Check, loop_leds, RomStep
<1>3. \A n \in 0..24 : After(n)' <=> After(n)
  BY DEF Check, loop_leds, RomStep, After, MainLoop
<1>4. wanted' => wanted /\ (run_leds => run_leds')
  BY DEF Check, loop_leds, RomStep, run_leds_next
<1>5. Configured'
  <2>1. CASE Check \/ loop_leds
    <3>1. gpio' = gpio \/ \E v : gpio' = set_gpio_pin_value(gpio, {led.pin}, v)
      BY <2>1 DEF Check, loop_leds, DriveLed, setup_vars
    <3>2. gpio'.ENPIN = gpio.ENPIN /\ gpio'.INTEN = gpio.INTEN
          /\ gpio'.INTTYPE0 = gpio.INTTYPE0 /\ gpio'.INTTYPE1 = gpio.INTTYPE1
      BY <1>1, <3>1 DEF set_gpio_pin_value, GpioRegisters
    <3> QED BY <1>3, <3>2 DEF Configured
  <2>2. CASE RomStep
    <3>1. \A n \in 0..24 : ~After(n)
      BY <2>2 DEF RomStep, After, MainLoop
    <3> QED BY <1>3, <3>1 DEF Configured
  <2> QED BY <2>1, <2>2
<1>6. GPIO_EVENT \in pending => GPIO_EVENT \in pending'
  BY DEF Check, loop_leds, RomStep, EventUnit
<1>7. RequestKept'
  BY <1>2, <1>4, <1>6 DEF RequestKept, InHandler
<1> QED BY <1>1, <1>2, <1>3, <1>4, <1>5, <1>7 DEF CharWaits

\* What a step of a handler does not disturb.
LEMMA HandlerFrame ==
  ASSUME KeptInv, Handle
  PROVE  /\ ReceiverInv' /\ Configured' /\ wanted' = wanted
         /\ \A n : After(n)' <=> After(n)
<1>1. UNCHANGED <<pc, line, gpio, wanted>>
  BY DEF Handle, TrapEntry, ReadRbr, ClearEvent, printf, Body, main_vars, setup_vars
<1>2. ReceiverInv'
  BY HandlerReceiver DEF KeptInv
<1> QED BY <1>1, <1>2 DEF After, Configured, KeptInv

LEMMA TrapKept == ASSUME KeptInv, TrapEntry PROVE KeptInv'
<1>1. isr = None /\ UNCHANGED <<icp, run_leds, pending, rx, wanted, uart_rx>>
  BY DEF TrapEntry
<1>2. RequestKept'
  BY <1>1 DEF RequestKept, InHandler, KeptInv
<1> QED BY <1>1, <1>2, HandlerFrame DEF KeptInv, Handle, CharWaits

LEMMA ReadKept == ASSUME KeptInv, ReadRbr PROVE KeptInv'
<1> USE DEF KeptInv
<1>1. IsrType /\ rx \in Seq(Char) /\ (isr # None => After(23)) /\ MainType
  BY DEF ReceiverInv, ControlInv, TypeInv, RxType, Ready
<1>2. isr # None /\ isr.handler = "isr_uart" /\ isr.at = 1 /\ Statement = "rbr" /\ Proceed
  BY <1>1, HandlerAt DEF ReadRbr
<1>3. isr' # None /\ isr'.handler = "isr_uart" /\ isr'.at = 2
  BY <1>1, <1>2, ProceedTo
<1>4. GPIO_EVENT \in pending => GPIO_EVENT \in pending'
  BY DEF ReadRbr, EventUnit
<1>5. UNCHANGED <<icp, run_leds, wanted>>
  BY DEF ReadRbr
<1>6. rx # << >> /\ uart_rx' = Head(rx) /\ rx' = Tail(rx)
  BY <1>2 DEF ReadRbr, ReceiverInv, NoEmptyRead, InHandler
<1>7. ASSUME NEW i \in 1..Len(rx), rx[i] = LedChar
      PROVE  uart_rx' = LedChar \/ \E j \in 1..Len(rx') : rx'[j] = LedChar
  <2>1. CASE i = 1
    BY <1>6, <1>7, <2>1
  <2>2. CASE i > 1
    <3>1. Len(rx') = Len(rx) - 1 /\ \A j \in 1..Len(rx') : rx'[j] = rx[j + 1]
      BY <1>1, <1>6, HeadTailProperties
    <3>2. i - 1 \in 1..Len(rx') /\ rx'[i - 1] = LedChar
      BY <1>1, <1>6, <1>7, <2>2, <3>1, LenProperties
    <3> QED BY <3>2
  <2> QED BY <2>1, <2>2
<1>8. RequestKept'
  BY <1>2, <1>3, <1>4, <1>5, <1>7 DEF RequestKept, InHandler
<1>9. After(16)'
  BY <1>1, <1>2, HandlerFrame DEF Handle, After, MainType
<1> QED BY <1>5, <1>8, <1>9, HandlerFrame DEF Handle

LEMMA ClearKept == ASSUME IcpReadsZero, KeptInv, ClearEvent PROVE KeptInv'
<1> USE DEF KeptInv
<1>1. IsrType
  BY DEF ReceiverInv, ControlInv, TypeInv
<1>2. icp' = {}
  BY DEF ClearEvent, ReadIcp, IcpValue
<1>3. UNCHANGED <<run_leds, rx, wanted, uart_rx>>
  BY DEF ClearEvent
<1>4. isr # None /\ Statement \in {"lw", "sw"} /\ Statement # "body" /\ Proceed
  BY DEF ClearEvent
<1>5. /\ isr.handler \in {"isr_uart", "isr_gpio", "isr_m_timer"} /\ isr.at \in 1..5
      /\ isr.handler = "isr_uart" => isr.at > 1
  BY <1>1, <1>4, HandlerAt
<1>6. isr' # None /\ isr'.handler = isr.handler /\ isr'.at = isr.at + 1
  BY <1>1, <1>4, ProceedTo
<1>7. GPIO_EVENT \in pending => GPIO_EVENT \in pending' \/ isr.handler = "isr_gpio"
  <2>1. pending' = pending \cup Lines' \/ pending' = (pending \ {EventOf(isr.handler)}) \cup Lines'
    BY DEF ClearEvent, EventUnit, WriteIcp
  <2> QED BY <1>5, <2>1 DEF EventOf, UART_EVENT, GPIO_EVENT, TIMER_A_OUTPUT_CMP
<1>8. RequestKept'
  BY <1>3, <1>4, <1>5, <1>6, <1>7 DEF RequestKept, InHandler
<1> QED BY <1>2, <1>3, <1>8, HandlerFrame DEF Handle, CharWaits

LEMMA PrintKept == ASSUME KeptInv, printf PROVE KeptInv'
<1> USE DEF KeptInv
<1>1. IsrType
  BY DEF ReceiverInv, ControlInv, TypeInv
<1>2. isr # None /\ Statement # "body" /\ Statement = "print" /\ Proceed /\ UNCHANGED <<icp, run_leds, rx, wanted, uart_rx, pending>>
  BY DEF printf
<1>3. isr.at \in 1..5 /\ isr' # None /\ isr'.handler = isr.handler /\ isr'.at = isr.at + 1
  BY <1>1, <1>2, ProceedTo, HandlerAt
<1>4. RequestKept'
  BY <1>2, <1>3 DEF RequestKept, InHandler
<1> QED BY <1>2, <1>4, HandlerFrame DEF Handle, CharWaits

LEMMA BodyKept == ASSUME KeptInv, Body PROVE KeptInv'
<1> USE DEF KeptInv
<1>1. UNCHANGED <<icp, pending, rx, wanted>>
  BY DEF Body
<1>2. RequestKept'
  BY <1>1 DEF Body, RequestKept, InHandler
<1> QED BY <1>1, <1>2, HandlerFrame DEF Handle, CharWaits

LEMMA EnvironmentKept == ASSUME KeptInv, Environment PROVE KeptInv'
<1> USE DEF KeptInv
<1>1. /\ ReceiverInv' /\ MainType /\ rx \in Seq(Char) /\ gpio \in GpioRegisters
      /\ icp' = {} /\ gpio' = gpio
  BY EnvironmentReceiver
  DEF ReceiverInv, ControlInv, TypeInv, DeviceType, RxType, Environment,
      MoveSwitch, Receive, Transmit, TimerIrq, Reset, Load, setup_vars
<1>2. CASE Reset \/ Load
  <2>1. \A n \in 1..24 : ~After(n)'
    BY <1>2 DEF Reset, Load, Booted, After, MainLoop
  <2>2. wanted' = FALSE
    BY <1>2 DEF Reset, Load, After, MainLoop, ReceiverInv, ControlInv, TypeInv, FlagType
  <2> QED BY <1>1, <2>1, <2>2 DEF Configured, RequestKept
<1>3. CASE MoveSwitch \/ Receive \/ Transmit \/ TimerIrq
  <2>1. UNCHANGED <<pc, line, run_leds, isr, uart_rx>>
    BY <1>3 DEF MoveSwitch, Receive, Transmit, TimerIrq, main_vars
  <2>2. Configured' /\ (\A n : After(n)' <=> After(n))
    BY <1>1, <2>1 DEF Configured, After
  <2>3. GPIO_EVENT \in pending => GPIO_EVENT \in pending'
    BY <1>3 DEF MoveSwitch, Receive, Transmit, TimerIrq, EventUnit
  <2>4. CASE MoveSwitch
    <3>1. rx' = rx
      BY <2>4 DEF MoveSwitch
    <3>2. PICK p \in Switch : /\ closed' = IF p \in closed THEN closed \ {p} ELSE closed \cup {p}
                              /\ wanted' = (wanted \/ (Armed /\ p \notin closed))
      BY <2>4 DEF MoveSwitch
    <3>3. CASE Armed /\ p \notin closed
      <4>1. After(10) /\ After(17) /\ After(18) /\ After(4) /\ After(16)
        BY <1>1, <3>3, PastMeans DEF After, MainType
      <4>2. p \in closed' /\ p \in gpio.ENPIN /\ p \in gpio.INTEN /\ p \in gpio.INTTYPE0 /\ p \notin gpio.INTTYPE1
        BY <3>2, <3>3, <4>1 DEF Configured
      <4>3. p \in Raising(gpio', closed')
        BY <1>1, <4>2 DEF Raising
      <4>4. GPIO_EVENT \in pending'
        BY <2>4, <4>3 DEF MoveSwitch, EventUnit, Lines
      <4> QED BY <1>1, <2>1, <2>2, <4>1, <4>4 DEF RequestKept, InHandler
    <3>4. CASE ~(Armed /\ p \notin closed)
      <4>1. wanted' => wanted
        BY <3>2, <3>4
      <4> QED BY <1>1, <2>1, <2>2, <2>3, <3>1, <4>1 DEF RequestKept, InHandler, CharWaits
    <3> QED BY <3>3, <3>4
  <2>5. CASE Receive
    <3>1. PICK c \in Char : rx' = Append(rx, c) /\ wanted' = (wanted \/ (Listening /\ c = LedChar))
      BY <2>5 DEF Receive
    <3>2. /\ Len(rx') = Len(rx) + 1 /\ Len(rx) \in Nat
          /\ rx'[Len(rx')] = c
          /\ \A i \in 1..Len(rx) : rx'[i] = rx[i]
      BY <1>1, <3>1, AppendProperties, LenProperties
    <3>3. c = LedChar => CharWaits'
      BY <3>2 DEF CharWaits
    <3>4. CharWaits => CharWaits'
      BY <3>2 DEF CharWaits
    <3>5. Listening => After(4)
      BY <1>1, PastMeans
    <3>6. wanted' => wanted \/ (CharWaits' /\ After(4))
      BY <3>1, <3>3, <3>5
    <3>7. RequestKept'
      BY <2>1, <2>3, <3>4, <3>6 DEF RequestKept, InHandler, CharWaits
    <3> QED BY <1>1, <2>2, <3>4, <3>6, <3>7
  <2>6. CASE Transmit \/ TimerIrq
    <3>1. UNCHANGED <<rx, wanted>>
      BY <2>6 DEF Transmit, TimerIrq
    <3> QED BY <1>1, <2>1, <2>2, <2>3, <3>1 DEF RequestKept, InHandler, CharWaits
  <2> QED BY <1>3, <2>4, <2>5, <2>6
<1> QED BY <1>2, <1>3 DEF Environment

\* Every press of a switch and every 'a' is kept until the LEDs start or the
\* core is reset, for every set of characters and switches and every depth of
\* the receiver, if ICP reads as zero.
THEOREM RequestsKept == ASSUME IcpReadsZero PROVE FairSpec => []RequestKept
<1>1. Init => KeptInv
  <2> SUFFICES ASSUME Init PROVE KeptInv
    OBVIOUS
  <2>1. \A n \in 1..24 : ~After(n)
    BY DEF Init, After, MainLoop, Booted
  <2> QED BY <2>1, ReceiverInit DEF Init, KeptInv, Configured, RequestKept
<1>2. KeptInv /\ UNCHANGED vars => KeptInv'
  <2>1. KeptInv /\ UNCHANGED vars => ReceiverInv'
    BY ReceiverStep DEF KeptInv
  <2> QED
    BY <2>1 DEF vars, main_vars, setup_vars, KeptInv, Configured, After, CharWaits, RequestKept, InHandler
<1>3. KeptInv /\ [Next]_vars => KeptInv'
  BY <1>2, SetupKept, LoopKept, TrapKept, ReadKept, ClearKept, PrintKept, BodyKept, EnvironmentKept
  DEF Next, Main, Handle
<1>4. KeptInv => RequestKept
  BY DEF KeptInv
<1> QED BY <1>1, <1>3, <1>4, PTL DEF FairSpec, Spec
===============================================================================
