----------------------------- MODULE MCAddressMap -----------------------------
(***************************************************************************)
(* Both levels of the memory map for TLC: a variable walks over every page *)
(* of 64 KB from 0 to beyond the last region.                              *)
(***************************************************************************)
EXTENDS ConfigSoc, RegisterMap, FiniteSets

VARIABLE page

LastPage == 17000     \* 0x4268: beyond 0x400F, the last page of the map

Ahb == INSTANCE AddressMap WITH Slave <- AhbSlave, Base <- AhbBase, Last <- AhbLast
Apb == INSTANCE AddressMap WITH Slave <- ApbSlave, Base <- ApbBase, Last <- ApbLast

\* The slave port riscv_soc.sv connects each of them to.
AhbPort == [rom |-> 0, debug |-> 1, printf |-> 2, iram |-> 3, dram |-> 4]
AhbWindow == [rom |-> BOOT_ROM, debug |-> DEBUG_MODULE, printf |-> PRINTF_VERILATOR,
              iram |-> IRAM_ADDR, dram |-> DRAM_ADDR]
ApbPort == [GPIO |-> 0, UART |-> 1, TIMER |-> 2, EVENT_UNIT |-> 3, RST_CTRL |-> 4]

\* The tables satisfy what the mask comparison needs.
ASSUME TablesAreMasks == Ahb!MapAssumption /\ Apb!MapAssumption

Init == page = 0
Next == page' = (page + 1) % (LastPage + 1)
Spec == Init /\ [][Next]_page

\* The filter passes exactly the addresses the interconnect decodes: a request
\* it passes never waits for a slave that does not exist, and a request it
\* stops had no slave.
FilterAgreesWithDecoder == Ahb!InRange(page) <=> Ahb!Selected(page) # {}

\* No address has two slaves, on either bus.
OneSlave == /\ Cardinality(Ahb!Selected(page)) <= 1
            /\ Cardinality(Apb!Selected(page)) <= 1

\* Every APB slave is reached through the bridge: the two tables of
\* config_soc.v, kept by hand, agree.
ApbBehindBridge == Apb!Selected(page) # {} => Ahb!Selected(page) = {Bridge}

\* The addresses in the software's headers lead to what they are named after:
\* memories and windows to their AHB port, every register a driver uses to the
\* port of its peripheral behind the bridge and, in the timer, to the register
\* its decoder selects.
DriversReachTheirRegister ==
  /\ \A w \in DOMAIN AhbWindow : AhbWindow[w] = page => Ahb!Selected(page) = {AhbPort[w]}
  /\ \A a \in Accesses : PageOf(a) = page => Apb!Selected(page) = {ApbPort[a.device]}
  /\ PeripheralBase.TIMER = page =>
       \A r \in DOMAIN TimerRegister : TimerDecoded(TimerRegister[r]) = TimerNamed[r]

\* Two accesses of the drivers to one address mean the same register, unless
\* direction or DLAB tells them apart.
OneRegisterPerAddress ==
  \A a, b \in {x \in Accesses : PageOf(x) = page} :
    OffsetOf(a) = OffsetOf(b) /\ a.kind = b.kind => a.register = b.register
===============================================================================
