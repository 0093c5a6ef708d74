# A model of the RI5CY Verilator SoC

TLA+ modules for the parts of this repository that hold state and talk to each
other: the bus converters and small peripherals written for this SoC
(`ips/utils`), their wiring (`tb/wrappers`), the C++ program that runs the
simulation (`tb/cpp`), and the two programs that run on the core with the
drivers under them (`sw`). TLC checks each of them on a small instance; TLAPS
proves the central ones for every instance.

Hardware modules take one step per clock cycle. C++ code takes one step per
call that another process could observe, C code on the core one step per access
that hardware or an interrupt handler could see half done.

## 1. The system

    RI5CY core --instr port--> ri5cy_to_ahb --> filter_oor --+
               --data port---> ri5cy_to_ahb --> filter_oor --+--> AHB interconnect --+--> boot ROM
    debug module --SBA-------> ri5cy_to_ahb -----------------+                       +--> debug module (ahb_to_ri5cy)
                                                                                     +--> printf dump
    OpenOCD --socket--> jtag_rbb --JTAG pins--> debug module                         +--> instruction RAM, data RAM
    testbench main: reset, ELF loader, clock, printf capture                         +--> APB bridge --> GPIO, UART, timer,
                                                                                                         event unit, reset control

| Component | State | Operations | Talks to | Hard part | Correct when |
|---|---|---|---|---|---|
| Core port converter, `ri5cy_to_ahb.sv` | `fsm_st`, `hwdata_tmp` | clock edge, reset | core (req/gnt/rvalid), AHB | pipelined address and data phases, wait states, reset under an open data phase | each request is answered once and memory is what the core asked for |
| Filter and map, `filter_oor.sv`, `config_soc.v` | none | decode | converter, interconnect | two decoders fed from one hand-kept table | no request waits for a slave that does not exist |
| FIFO, `io_generic_fifo.sv` | counter, two pointers, buffer | clear, write, read in one cycle | nothing in this tree instantiates it | three processes that must agree | it is a bounded queue |
| Timer, `apb_timer/*.sv` | TIMER, CTRL, CMP, prescaler counter | count, match, overflow, bus write | APB, event unit | bus writes racing the match | no compare value is stepped over, one interrupt per match, interrupts keep coming |
| Reset control, `rst_ctrl_unit.sv` | boot address, `want_write`, three-state machine | APB read, write | APB, core | conditions that outlive a transfer | the core boots where software said |
| Remote bitbang, `jtag_rbb.cpp` | socket, pins | constructor, `read_cmd`, `accept_client` | OpenOCD, model | commands and clock ticks in two processes | each command acts on the TAP as if at once |
| Testbench, `testbench.cpp` | phase of `main`, RAM contents | `reset_n`, `loadELF`, `tick` | everything | partial failure, segment sizes | the core runs only with the program in memory |
| Debug module slave, `ahb_to_ri5cy.sv` | four-state machine, saved address and data | read, write | AHB, debug module | data phases stretched by others | each access done once, with its own data |
| Boot ROM slave, `ahb_ri5cy_rom.sv`, and its table, `gen_rom.py` | three-state machine, output register | read | AHB | reads, writes and other slaves' wait states move the machine; a generated table | the word read is the word asked for |
| Firmware, `sw/hello_world` | `run_leds`, the registers it sets up | start-up, set-up, main loop, LED run, three handlers, printf | timer, GPIO, UART, event unit, reset control | handlers between any two accesses; resets that leave registers, events and `.bss` as they are | a press is followed by a LED run, the LEDs are off in between, handlers come back |
| Drivers, `sw/common/API` | GPIO and UART registers | read-modify-write per pin, `uart_set_cfg`, `uart_sendchar` | GPIO, UART, timer, event unit | hand-written addresses, registers that share one | each access reaches the register it names |
| Boot ROM firmware, `sw/boot_rom` | data RAM, LEDs | copy, clear, endless LED run | ROM, RAM, GPIO | section ends that are not aligned, resets in between | data is in place before `main` |

The RI5CY core, the debug module, the AHB interconnect, the AHB-to-APB bridge
and the GPIO, UART and event unit are git submodules and not part of this
source tree. They appear as environments: what they may do is read off the way
the modules here are wired to them, and those definitions are marked external.

## 2. Modules

| Module | Models | Notes |
|---|---|---|
| `Ri5cyToAhb` | the converter | both registers; every output is an operator |
| `AddressMap`, `ConfigSoc` | filter, mask decoder, tables | pages of 64 KB; bases and sizes of all regions are multiples of it |
| `MasterPort` | converter + filter + core + bus + `ndmreset` | composes the two above; the actions are the kinds of clock cycle: `Stall`, `Advance`, `ResetCycle` |
| `RequestResponse` | abstract memory port | what the core expects; `MasterPort` implements it |
| `Fifo`, `BoundedQueue` | the FIFO, a queue | `Fifo` implements `BoundedQueue` |
| `ApbTimer` | `apb_timer.sv` and `timer.sv` | `Clock` is the whole of `timer.sv`; `bus` is the APB access of the cycle |
| `RstCtrl` | `rst_ctrl_unit.sv` | with an APB bridge that makes any legal sequence of transfers |
| `JtagRbb`, `RemoteBitbang` | `jtag_rbb.cpp`, what OpenOCD expects | |
| `ElfLoader` | `loadELF` | bytes, words of `WordBytes`, RAMs of `RamBytes` |
| `DebugSlave` | `ahb_to_ri5cy.sv` | with a debug module that answers in the next cycle and an AHB that stretches any data phase |
| `RomTable` | the case table `gen_rom_xilinx` writes | pure operators |
| `AhbSlaves` | `ahb_ri5cy_rom.sv` | extends `DebugSlave` and `RomTable`: both slaves on one bus |
| `Drivers` | the calls of `gpio.c` and `uart.c` the programs make | pure operators on the registers |
| `Firmware` | `hello_world` from `_start` on, the boot ROM's `main`, vector table, interrupt encoder | extends `Drivers`; with the event unit, GPIO and UART as the code uses them |
| `RegisterMap` | `riscv_soc_utils.h`, the register offsets of the headers, the accesses of the drivers | compared with `ConfigSoc` in `MCAddressMap` |
| `Boot` | `_start` of the boot ROM's program, the core's resets | extends `RstCtrl` and `RomTable`; its stores go through `Ri5cyToAhb`'s sizes |
| `Testbench` | `main`, `reset_n`, `tick` | composes `JtagRbb` and `ElfLoader`; implements `RemoteBitbang` |
| `MCMasterPort`, `MCAddressMap`, `MCTestbench` | constants for TLC | |
| `*Proofs` | theorems | extend the module they are about and `TLAPS`; `BootProofs` is about `RstCtrl` too, `MemoryMapProofs` about `MCAddressMap`, where the tables are |

### How state and actions correspond to the code

*Converter.* A byte enable is a set of lanes, a word a function from lanes to
bytes. `gnt_o`, `hsel_o` and `htrans_o` are the same condition in the code
(`req_i`) and one operator here. `hsize` is a number of bytes; the slave side
turns it and the low address bits back into lanes (`Lanes`), as an AHB RAM does.

*Master port.* `outstanding` is the request the core waits on; `dphase` is the
transfer whose data phase is open on the bus; `mem` is the slaves. In `Advance`
HREADY is high: the data phase ends with `hwdata_o` as write data and the next
address phase is accepted. In `Stall` a slave or the arbiter holds it low. The
core issues a request only when it waits for none or in the cycle in which it
is answered (`MayIssue`): that is the load/store unit's rule, and the
converter relies on it, because it grants whatever HREADY says. `ResetCycle` is
a cycle under `ndmreset`, which resets core and converter and not the bus.
`Filtered` tells the core's two ports, behind `filter_oor`, from the debug
module's, which is not. The map is `Base` and `Last` again, so the filter of
the composition is the operator that `MCAddressMap` checks on the real tables.

*Timer.* The definitions follow the `always_comb` block: `CountedTimer` is
TIMER before the bus is looked at, `NextTimer` after. `cycle_counter` is
compared with the whole CTRL word but matched with its three prescaler bits, as
in the code.

*Reset control.* `requested` and `exposed` are history: the value software last
wrote, and whether the register has since been read or the write was followed
by another transfer without an idle cycle. No action looks at them.

*Debug module's slave.* `dphase` is the transfer in its data phase at this
slave. `Accept` is a cycle in which HREADY is high and an address phase for the
slave is there, `Finish` one without, `Stretch` any cycle with HREADY low,
whoever holds it. `expected` and `done` are history: what the debug module
answered, and the accesses it has seen for the transfer.

*Boot ROM.* `lines` is the length of the image, one word a line, and a line's
number stands for its word; `Entry` is the case statement, with labels cut to
the width of the address. The generator numbers lines by bytes (`index*4`) and
gives the address ceil(log2(lines)) + 1 bits, one short of the two it needs,
and it never writes the last line: `Held` are the lines that are read at their
own address. An address without a label leaves the output register as it is.
`AcceptRom` is a cycle in which an address phase for the ROM is accepted,
`AcceptOther` one for the debug module or for neither, `BusStretch` one with
HREADY low; each is an action of `DebugSlave` with the ROM's clock edge.
`reading` is the address whose answer is due.

*Firmware.* `Setup` is the table of what `_start` and `main` do before the main
loop: one entry per access to the hardware, except that a loop calling one
driver function for pin after pin is one entry on the set of those pins
(`direction`, `value`, `irq_en`, `irq_type`), because between two iterations
only pins of the same kind differ and interrupts are off. A handler is a table
too (`Statements`), because what matters is what may happen between its
accesses. `int_periph_clear` is a load and a store. `loop_leds` drives one LED
per step, so handlers and resets come between. A printf is one wait for an empty
transmitter and one store to it: more characters repeat the same wait, in the
same place. `VERILATOR` chooses the build; with it, printf goes to the dump
port, which never waits, and the boot ROM is one jump to itself.

The core takes an interrupt before main's next step (`MainRuns`), handlers do
not nest. The event unit collects whatever is high in any cycle: the timer's
interrupts last one cycle and are wired to it like the levels of GPIO and UART.
A pin raises while its level is the one of its type; reset leaves all types at
level 0, so open switches raise between `set_gpio_pin_irq_en` and
`set_gpio_pin_irq_type`. What a load from ICP gives is nowhere in the sources;
`IcpReadsZero` says it, and is TRUE in the run. With FALSE, `RequestKept` fails:
a press released before its handler runs is cleared by the `ICP |=` of another
handler.

`Reset` is `ndmreset`: the core starts where the boot address register says
(`Booted`), and every register, pending event, waiting character and
`run_leds` stays as it is, for the peripherals are on `reset_n`. `Load` is the
debugger loading the program over the boot ROM's: `.bss` is not loaded and
`_start` of `hello_world` does not clear it, so `run_leds` may be anything.
`wanted` is history; it counts a press only once the pin's type is set, an 'a'
only once the receiver has been flushed, and nothing across a reset.

*Boot.* `core` is the statement of `_start`, `dst` its pointer; `mem` has one
value per byte of the data RAM: part of the image of `.data`, zero, or anything
else. The linker script puts `_start_bss` where `.data` ends, at any alignment.
A word store that lies across two words of memory is two requests of the core;
`Stored` is what the memory writes of them after `hsize` has encoded their byte
enables. Where `.bss` starts at the last byte of a word, the second request has
the enable 0111 and two of its three bytes are lost (the finding of
`Misaligned`): `DataInPlace` says which bytes, and that there are no others.
The image is `TextLines` lines and then `.data`; `InRom` are the bytes of `.data`
that the ROM's table holds, and the others are copied as whatever line is read.
The bus of `RstCtrl` and the core step independently, so the register may
change, and be latched by a read, at any moment of the boot.

*Register map.* Bases are in pages, offsets in bytes. `Accesses` is every load
and store of the drivers, and the one of `main` to the boot address register; a
store while LCR.DLAB is set is a kind of its own.

*Testbench.* `pc` is the statement of `main` about to run, the constructor of
`jtag_rbb` first, which ends the process when a socket call fails. `JTAG_BOOT` is the
build option, chosen in `Init` and never changed. `read_cmd(c)` handles at most
one command; the pins it sets reach the TAP only in `tick`. The TAP is reduced
to what tells a lost or doubled TCK edge from a right one: a register that
samples on the rising edge and an output that changes on the falling one. The
loader keeps bytes; `Junk` is a byte of uninitialised memory or beyond the end
of a buffer. A signal, waveform tracing and printing are left out.

## 3. What the runs check

| Run | Module | Shows |
|---|---|---|
| `CorePort` | `MCMasterPort` | the data port under wait states, a hole in the map and resets at any moment implements the memory of `RequestResponse`; the converter never loses count of the request; a store writes its enabled bytes and no others, and memory changes for no other reason (`StoreConfined`); the core is never left waiting for ever |
| `Misaligned` (violation) | `MCMasterPort` | byte enable 0111 is sent as one byte |
| `UnfilteredPort` (violation) | `MCMasterPort` | an access of the debug module's bus port outside the map hangs |
| `MemoryMap` | `MCAddressMap` | filter and interconnect agree on every page of the real tables, no page has two slaves, APB slaves lie behind the bridge; the addresses of the C headers lead to the slave and the timer register they are named after, and no two registers the drivers use are one |
| `Fifo` | `Fifo` | the FIFO implements `BoundedQueue`, and counter and pointers agree |
| `Timer` | `ApbTimer` | no compare value is stepped over, interrupts are pulses, every cycle takes an enabled timer nearer to the next one (`NearsInterrupt`), and it keeps interrupting |
| `BootAddress` | `Boot` | the register keeps what was written until it is read, while the core boots from it; the boot ROM's `main` finds `.data` copied, as far as the ROM's table holds it, and `.bss` cleared, for every alignment and wherever resets came |
| `DebugSlave` | `AhbSlaves` | each transfer reaches the debug module once, with its own address and data; a read's answer stays on the bus until the data phase ends; a read of the boot ROM is answered with the line at its address, if the table holds it |
| `Firmware` | `Firmware` | a press or an 'a' is never forgotten between UART, GPIO, event unit, handlers and main loop; the UART is never read empty, nor its divisor; the LEDs are off whenever main is idle, though a reset may cut a LED run short; a run has fewer LEDs left with every step of main (`LedRunsEnd`); the LEDs start unless interrupts keep the core busy for ever or it is reset; a handler that prints comes back |
| `RstReadBack` (violation) | `RstCtrl` | a read after a write latches whatever is on PWDATA |
| `Testbench` | `MCTestbench` | commands act as if at once, all are served; a program is whole in memory, zeroes included, before the core runs |
| `LoaderBss` (violation) | `MCTestbench` | the last, partial word of initialised data is completed from beyond the file's data |

The four violations are the findings of `PROJECT.json`, each with the sentence
of the repository it contradicts.

### Bounds, and why they are enough

* `CorePort`: two slaves, one word each and one word in the hole between them,
  bytes 0 and 1, a store with each byte enable the converter encodes exactly.
  The converter's control does not depend on addresses or data; two addresses
  tell a wrong target, two byte values tell a wrong or cleared byte. The
  enable {0,1,2} is left out here, and is the subject of `Misaligned`.
* `MemoryMap`: every 64 KB page up to beyond the last region; no comparison in
  the code depends on lower address bits of the tables.
* `Fifo`: depth 3, not a power of two, two values.
* `Timer`: one timer of five bits, so that CTRL has room for the enable bit and
  the two low prescaler bits (no prescaler, 1 and 2 are written); timers share
  nothing but the bus. Every register may be written in any cycle.
* `BootAddress`: three addresses, one of them only ever on the bus as data, so
  the core may boot from ROM, RAM or a place without a program. Nine bytes of
  RAM: `.data` ends at every alignment, `.bss` has every length, and both loops
  make two rounds and more. One line of text: from the fifth byte of `.data` on
  the table holds the first word of it, and never the last. (`RstReadBack` has four addresses.)
* `DebugSlave`: two addresses and two words, which tell a wrong address or a
  stale answer from a right one; the machine looks at neither. Images
  of 2, 6 and 8 lines (the least, one that does not fill its address bits, one that
  does); reads at aligned and unaligned addresses, of lines held and not held.
* `Firmware`: two characters, one of them 'a', a receiver of depth two (the
  second character may arrive while the first is handled), one switch for the
  four (their lines are one event), the timer's two interrupts. Four LEDs: one
  colour has two pins and two have one, so every branch of `NextLed` is taken.
  The hardware build, in which handlers wait and the boot ROM has a program; the
  safety theorems cover both builds and every number of LEDs.
* `Testbench`: four commands, at most two ahead of the testbench; an edge pair
  and a read take three. Words of two bytes, RAMs of three words; programs with
  one and two segments, in both orders, too large ones and one for another machine.

### Fairness

* `SlaveFairness` (weak, on `Advance` while the converter is busy): a slave does
  not insert wait states for ever. The RAMs never do; the bridge waits for APB
  slaves whose PREADY is tied high. `Advance` is not enabled while the open data phase addresses no slave,
  so the assumption does not hide the hang that the filter is there to prevent.
  Nothing is assumed of the core, which need not ask for anything, or of the
  debugger, which need not reset it: sustained traffic without a reset and resets
  at any moment are both in the run. What a reset leaves on the bus needs no
  fairness, because a core that has been reset waits for nothing. That the reset
  outlasts such a transfer is `DrainBeforeRelease`, TRUE in the run: the debugger
  pulses `ndmreset` for milliseconds, a transfer takes a few cycles.
* `Timer`: weak fairness of `Clock`, the clock runs.
* `Firmware`: weak fairness of the handlers and strong fairness of main, which
  runs whenever no interrupt is due: the core executes. Weak fairness of
  `Transmit`: the UART sends what it holds. Nothing is assumed of switches,
  characters, timer, resets or reloads. That main is not kept
  from running for ever is a condition of `LedsServed`, not an assumption (a switch
  held down for ever does it); a request made while another waits is served with it.
* `Testbench`: weak fairness of `main`, the testbench is a process that the
  host schedules and that never blocks after OpenOCD has connected. OpenOCD
  itself is not fair.

## 4. What is proved

All theorems hold for every value of the constants that satisfies the named
assumption of the module.

* `MasterPortProofs`. `Invariance`: the inductive invariant `IInv`, which adds
  to the type invariant that a busy converter has a waiting core, the open data
  phase is that core's transfer and `hwdata_tmp` its masked data, and that the
  data of an orphaned transfer is zero. Neither of `FsmTracksCore` and
  `DataPhaseIsRequest` is inductive alone: that an `Advance` with no request
  leaves nobody waiting needs the first, that the memory after it is right
  needs the second. It holds with and without `DrainBeforeRelease`. From it:
  `TypeCorrect`, `SafeTracking`, `DataPhaseTracksRequest`, `OrphansCleared`;
  `StoresAreExact` and `Refinement` (the port implements `RequestResponse`, step
  by step with one lemma per action), both under the assumption `LanesExact`,
  that the requests' byte enables are encoded exactly. `OnlyOneEnableFails` says
  how little that assumes: of the ten enables the core makes, 0111 alone does
  not satisfy it. `StoresAreConfined` needs no such assumption: a store with
  0111 loses bytes, but none is written that was not asked for.
  `FilterMatchesDecoder`: for every map of aligned regions the range comparison
  of the filter and the mask comparison of the interconnect accept the same
  addresses (`MapAssumption` asks for aligned powers of two; TLC evaluates it on the real
  tables too), and from it `TransfersHaveSlaves`: behind the filter every data
  phase has a slave that can end it, which is what `NeverHangs` needs besides
  fairness.
* `MemoryMapProofs`. The five properties of `MCAddressMap` on the tables of
  `config_soc.v` and the headers, for every page: `FilterAgrees`, `SlavesApart`,
  `BridgeLeadsToApb`, `HeadersAgree`, `RegistersApart`. The module that walks the
  pages has no use for one beyond the last region; the theorems cover those too.
* `FifoProofs`. For every depth: `TypeCorrect`, `PointerAgreement`, and `Refinement` to
  `BoundedQueue` through the mapping `Contents`, with one lemma for each
  combination of taking and giving.
* `ApbTimerProofs`. For every word width: `TypeCorrect`, `CompareNeverSkipped`,
  `IrqPulses`, and `DriverNeverSkips`: with a driver that writes nothing but 0
  to TIMER, as `timer.c`, the timer is never past its compare value.
  `InterruptNears`: the measure `CyclesToCount`, which allows for a cycle counter
  left above its prescaler, falls with every cycle in which the timer does not
  count. This is the argument behind `KeepsInterrupting`; only the conclusion
  from it, under the clock's fairness, is left to TLC.
* `DebugSlaveProofs`. `TypeCorrect`, `EachSeenOnce` and `AnswerHeld`, for every address space
  and word. The invariant says what machine, saved address and lock are while
  nothing, a read or a write is in its data phase; `ReadDataHeld` alone says
  nothing of the cycle in which the lock is about to be set. `RomAnswered`:
  `RomAnswers` for every image up to the window's 64 KB, from the lemma that the
  first label an address of a held line matches is that line's own
  (`HeldIsRead`). `SlaveUndisturbed`: a behaviour of `AhbSlaves` is one of
  `DebugSlave`, so the theorems about the latter hold with both on the bus.
* `BootProofs`, first of `RstCtrl` alone: `TypeCorrect`, and `BootAddressKept`,
  `BootsWhereTold` for every set of addresses. The invariant says, for each APB
  phase, when the machine is out of IDLE with `want_write` set, and that PWDATA
  is the requested value then. Then of `Boot`. `RegisterUndisturbed`: a behaviour
  of `Boot` is one of `RstCtrl`, hence `CoreStartsWhereTold`, with the core and its
  resets. `DataIsInPlace`: `DataInPlace` for every size of RAM, text, `.data`
  and `.bss`. Its invariant says what the loops leave behind the pointer and
  that the pointer keeps the alignment it started with; that a store at
  alignment 0, 1 or 2 is whole, and which bytes one at alignment 3 loses, is the
  lemma `StoredBytes`.
* `FirmwareProofs`, for every set of characters and switches, depth of the
  receiver and number of LEDs, both builds, with resets and reloads at any
  moment; four invariants, each on top of the one before.
  `TypeCorrect` rests on `ControlInv`: interrupts are on only behind `cfg_int`,
  when mtvec is set and only events with a handler are enabled, so nothing is
  ever taken through a vector that leads to the endless loop.
  `LedsOff` rests on `LedInv`: during a LED run exactly the LEDs of the current
  colour that the loop has reached (`Lit`) are on, and outside of it, behind the
  set-up, none; `TypeOK` and the property say nothing of the run itself.
  `NeverReadsEmpty`, for both values of `IcpReadsZero`, rests on `ReceiverInv`:
  once start-up has cleared the events the UART's is pending only if a character
  waits or `isr_uart` is between taking it and clearing the event.
  `RequestsKept`, for an ICP that reads as zero, rests on `KeptInv`: `isr_uart`
  takes a real character, the pins are configured before a press counts, and
  `setup_irqs` clears the pins' event only before they raise any.
  `RunsEnd`: `LedsLeft` falls with every step of main in a LED run. It bounds the
  LEDs left, both ways through every colour, and needs that the loop's position
  stays on the LEDs of its colour (`ControlInv`).
* `TestbenchProofs`, for every set of commands and files, words and RAMs of any
  size (`LoaderAssumption`: a RAM is a number of words). `TypeCorrect` rests on
  `TypeInv`, which adds to `TypeOK` that a segment being copied exists and fits
  and that `p` stands at a word: without it nothing keeps `p` and the written
  word inside the RAM. `CopiedBeforeStart` and `ImageBeforeStart` rest on
  `LoadInv`: every segment before the current one, and the current one up to `p`,
  is in its memory, and the core runs only after the last. They are about files
  with one segment per memory, at its start (`Separate`), because `loadELF` writes
  every segment from the start of its memory; the linker script of `hello_world`
  makes such files. `CopiedBeforeStart` asks nothing of the data: a byte is then
  junk only between the data's end and the end of its word (for the instruction
  RAM: of its segment). `ImageBeforeStart` is `StartsFromImage` for files whose data
  fills its words (`WellLinked`), and `LoaderBss` shows that it fails for others.
  The programs of the run `Testbench` are of this kind (`ProgramsAreWellLinked`).
  `ManySegmentsNeverStart`: with 256 segments or more the byte-wide index never
  gets past the last one, so the loader never returns.
  `Refinement`: `Testbench` implements `RemoteBitbang`, whose TAP is the one here
  after one more evaluation with the pins of the moment. The mapping works
  because that evaluation changes nothing twice (`EvaluatedTwice`), and because a
  command is read only when the one before has been clocked (`SettledInv`), which
  the mutation that drains the socket first breaks.

Only model-checked: liveness (`NeverHangs`, `KeepsInterrupting`, `CommandsServed`,
`LedsServed`, `HandlersReturn`), which is beyond the prover. What the first two
rest on and what keeps main in a LED run from going round for ever is proved
(`TransfersHaveSlaves`, `InterruptNears`, `RunsEnd`). Every other property of a
passing run is stated by a theorem.

## 5. Not modelled

The submodules named above, except as environments. `ahb_dummy`, the clock
cells and the interface files have no state. The FPGA wrapper, constraints,
makefiles and `freedom-bin2hex.py` are build matter; `gen_rom` of `gen_rom.py` is never
called. `encoding.h` is the vendored list
of RISC-V encodings; the programs use its CSR macros, which appear as what they
do. The blocking branch of `read_cmd` is never called. The printf capture of
`tick()` looks at HADDR and HWRITE of the data port without HSEL: what it prints
depends on what the core drives there between requests, and the core is a
submodule.

Of the software, driver calls that nobody makes are left out of `Drivers`
(among them `get_gpio_pin_direction`, which shifts by twice the pin's number,
and the pad configuration registers, of which PADCFG5 has the address of
PADCFG1), the characters of a printf, the UART's divisor and parity, busy-wait
delays, and `isr_synctrap`, since no step of the programs raises an exception.

## 6. Plan

Done: the master port, the memory map and the software's headers, the FIFO, the
timer, reset control with the boot of the core, the slaves of debug
module and boot ROM, the firmware and the testbench, each with its proofs.

1. Composition of `Firmware` and `ApbTimer`, so that the one-cycle interrupt is
   the timer's own, and of `MasterPort` and `DebugSlave`, so that a data phase
   is stretched by a modelled slave; the theorems carry over as
   `RegisterUndisturbed` and `SlaveUndisturbed` do.
2. Proofs: `Boot` on top of the loader's theorem, so that the program that the
   core is told to start is the one in memory; the measures that would turn
   `HandlersReturn` and `LedsServed` into their step-wise parts, as `RunsEnd` does.
