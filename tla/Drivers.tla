------------------------------- MODULE Drivers -------------------------------
(***************************************************************************)
(* sw/common/API/src: what the calls of gpio.c, uart.c and timer.c that    *)
(* the programs make do to the registers.  A register of the GPIO is the   *)
(* set of its pins whose bit is one.  A loop that calls one function for   *)
(* pin after pin is one application to the set of these pins.              *)
(***************************************************************************)
EXTENDS Integers

DIR_IN == 0
DIR_OUT == 1
GPIO_IRQ_LEV1 == 1

\* Registers after reset.  thre: the transmitter is empty (LSR bit 5).
GpioReset == [PADDIR |-> {}, PADOUT |-> {}, INTEN |-> {}, INTTYPE0 |-> {}, INTTYPE1 |-> {}, ENPIN |-> {}]
UartReset == [dlab |-> FALSE, erbfi |-> FALSE, thre |-> TRUE]

\* register |= pins, or register &= ~pins.
Written(register, pins, value) == IF value = 0 THEN register \ pins ELSE register \cup pins

set_gpio_pin_direction(g, pins, direction) == [g EXCEPT !.PADDIR = Written(g.PADDIR, pins, direction)]

set_gpio_pin_value(g, pins, value) == [g EXCEPT !.PADOUT = Written(g.PADOUT, pins, value)]

set_gpio_pin_irq_en(g, pins, enable) == [g EXCEPT !.INTEN = Written(g.INTEN, pins, enable)]

\* Mutation: the two bits of the type go to each other's register.
set_gpio_pin_irq_type_swapped(g, pins, type) ==
  [g EXCEPT !.INTTYPE0 = Written(g.INTTYPE0, pins, type \div 2),
            !.INTTYPE1 = Written(g.INTTYPE1, pins, type % 2)]

set_gpio_pin_irq_type(g, pins, type) ==
  LET low == [g EXCEPT !.INTTYPE0 = Written(g.INTTYPE0, pins, type % 2)]
  IN  [low EXCEPT !.INTTYPE1 = Written(g.INTTYPE1, pins, type \div 2)]

enable_gpio_pins_read(g, pins) == [g EXCEPT !.ENPIN = pins]

\* The pins that raise the interrupt of the GPIO; only levels are configured
\* (an edge type has its bit in INTTYPE1).  A pin whose read is not enabled is
\* seen open.
Raising(g, closed) ==
  {p \in g.INTEN \ g.INTTYPE1 : p \in g.INTTYPE0 <=> p \in closed \cap g.ENPIN}

-------------------------------------------------------------------------------
\* uart_set_cfg.  The divisor has no part in anything the programs read.
SetDlab(u) == [u EXCEPT !.dlab = TRUE]
SetFcr(u) == [u EXCEPT !.thre = TRUE]       \* both FIFOs are cleared
ClearDlab(u) == [u EXCEPT !.dlab = FALSE]

\* While DLAB is set, the address is the divisor's.
SetIer(u) == IF u.dlab THEN u ELSE [u EXCEPT !.erbfi = TRUE]

\* uart_sendchar stores into THR when LSR says that it is empty.
uart_sendchar(u) == [u EXCEPT !.thre = FALSE]
===============================================================================
