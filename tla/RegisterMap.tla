----------------------------- MODULE RegisterMap -----------------------------
(***************************************************************************)
(* The memory map as the software sees it: the bases of riscv_soc_utils.h, *)
(* the register offsets of gpio.h, uart.h, timer.h and event.h, and which  *)
(* of them the drivers and programs access, how.  Bases are in pages of    *)
(* 64 KB, as in ConfigSoc, offsets in bytes.                               *)
(***************************************************************************)
EXTENDS Integers

\* The memories and bus windows.
BOOT_ROM == 6656              \* 0x1A00_0000
DEBUG_MODULE == 6912          \* 0x1B00_0000
PRINTF_VERILATOR == 7168      \* 0x1C00_0000
IRAM_ADDR == 8192             \* 0x2000_0000
DRAM_ADDR == 12288            \* 0x3000_0000
APB_BUS_ADDR == 16384         \* 0x4000_0000

\* Mutation: the timer and the event unit change places.
PeripheralBase_swapped == [GPIO       |-> APB_BUS_ADDR,
                           UART       |-> APB_BUS_ADDR + 1,
                           TIMER      |-> APB_BUS_ADDR + 3,
                           EVENT_UNIT |-> APB_BUS_ADDR + 2,
                           RST_CTRL   |-> APB_BUS_ADDR + 4]

\* <PERIPHERAL>_BASE_ADDR.
PeripheralBase == [GPIO       |-> APB_BUS_ADDR,
                   UART       |-> APB_BUS_ADDR + 1,
                   TIMER      |-> APB_BUS_ADDR + 2,
                   EVENT_UNIT |-> APB_BUS_ADDR + 3,
                   RST_CTRL   |-> APB_BUS_ADDR + 4]

Word(n) == 4 * n

GpioRegister == [PADDIR |-> Word(0), PADIN |-> Word(1), PADOUT |-> Word(2), INTEN |-> Word(3),
                 INTTYPE0 |-> Word(4), INTTYPE1 |-> Word(5), INTSTATUS |-> Word(6),
                 ENPIN |-> Word(7)]

\* Mutation: LCR has the address of IER.
UartRegister_lcr == [RBR |-> Word(0), DLL |-> Word(0), THR |-> Word(0), DLM |-> Word(1),
                     IER |-> Word(1), IIR |-> Word(2), FCR |-> Word(2), LCR |-> Word(1),
                     MCR |-> Word(4), LSR |-> Word(5), MSR |-> Word(6), SCR |-> Word(7)]

UartRegister == [RBR |-> Word(0), DLL |-> Word(0), THR |-> Word(0), DLM |-> Word(1), IER |-> Word(1),
                 IIR |-> Word(2), FCR |-> Word(2), LCR |-> Word(3), MCR |-> Word(4),
                 LSR |-> Word(5), MSR |-> Word(6), SCR |-> Word(7)]

TimerRegister == [TIRA |-> Word(0), TPRA |-> Word(1), TOCRA |-> Word(2),
                  TIRB |-> Word(4), TPRB |-> Word(5), TOCRB |-> Word(6)]

EventRegister == [IER |-> Word(0), IPR |-> Word(1), ISP |-> Word(2), ICP |-> Word(3),
                  EER |-> Word(4), EPR |-> Word(5), ESP |-> Word(6), ECP |-> Word(7),
                  SCR |-> Word(8), SSR |-> Word(9)]

Offset == [GPIO |-> GpioRegister, UART |-> UartRegister, TIMER |-> TimerRegister,
           EVENT_UNIT |-> EventRegister, RST_CTRL |-> [rst_addr |-> 0]]

\* How the drivers and the two programs use them: loads, stores, and whether
\* LCR.DLAB is set then.
Access(device, registers, kinds) == [device : {device}, register : registers, kind : kinds]

GpioAccesses == Access("GPIO", {"PADDIR", "PADOUT", "INTEN", "INTTYPE0", "INTTYPE1"}, {"load", "store"})
                  \cup Access("GPIO", {"PADIN", "INTSTATUS"}, {"load"})
                  \cup Access("GPIO", {"ENPIN"}, {"store"})

UartAccesses == Access("UART", {"LCR"}, {"store", "store_dlab"})
                  \cup Access("UART", {"DLM", "DLL", "FCR"}, {"store_dlab"})
                  \cup Access("UART", {"IER"}, {"load", "store"})
                  \cup Access("UART", {"LSR", "RBR"}, {"load"})
                  \cup Access("UART", {"THR"}, {"store"})

TimerAccesses == Access("TIMER", {"TIRA"}, {"load", "store"})
                   \cup Access("TIMER", {"TPRA", "TOCRA"}, {"store"})

EventAccesses == Access("EVENT_UNIT", {"IER", "ICP"}, {"load", "store"})

\* *(address_rst) = &_start
BootAccesses == Access("RST_CTRL", {"rst_addr"}, {"store"})

Accesses == GpioAccesses \cup UartAccesses \cup TimerAccesses \cup EventAccesses \cup BootAccesses

PageOf(a) == PeripheralBase[a.device]
OffsetOf(a) == Offset[a.device][a.register]

-------------------------------------------------------------------------------
\* apb_timer.sv takes the timer from PADDR[4], timer.sv the register from
\* PADDR[3:2].
TimerDecoded(offset) ==
  <<(offset \div 16) % 2, [n \in 0..3 |-> <<"TIR", "TPR", "TOCR", "none">>[n + 1]][(offset \div 4) % 4]>>

TimerNamed == [TIRA |-> <<0, "TIR">>, TPRA |-> <<0, "TPR">>, TOCRA |-> <<0, "TOCR">>,
               TIRB |-> <<1, "TIR">>, TPRB |-> <<1, "TPR">>, TOCRB |-> <<1, "TOCR">>]
===============================================================================
