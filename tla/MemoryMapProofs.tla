---------------------------- MODULE MemoryMapProofs ----------------------------
(***************************************************************************)
(* The tables of config_soc.v for every page, beyond the last one that the *)
(* walk of MCAddressMap reaches too.                                       *)
(***************************************************************************)
EXTENDS MCAddressMap, FiniteSetTheorems, TLAPS

\* The AHB table, written out.
LEMMA AhbTable ==
  ASSUME NEW s \in AhbSlave
  PROVE  /\ AhbBase[s] = CASE s = 0 -> 6656 [] s = 1 -> 6912 [] s = 2 -> 7168
                           [] s = 3 -> 8192 [] s = 4 -> 12288 [] s = 5 -> 16384
         /\ AhbLast[s] = AhbBase[s] + IF s < 3 THEN 0 ELSE 15
BY DEF AhbSlave, AhbBase, AhbLast

\* On either bus the mask selects the pages of the range, no others.
LEMMA AhbRanges ==
  ASSUME NEW s \in AhbSlave, NEW n \in Nat
  PROVE  /\ Ahb!Decodes(s, n) <=> AhbBase[s] <= n /\ n <= AhbLast[s]
         /\ Ahb!en_addr(s, n) <=> AhbBase[s] <= n /\ n <= AhbLast[s]
<1>1. AhbBase[s] \in Nat /\ AhbLast[s] = AhbBase[s] + IF s < 3 THEN 0 ELSE 15
  BY AhbTable DEF AhbSlave
<1>2. CASE s < 3
  <2>1. n % 1 = 0
    OBVIOUS
  <2> QED BY <1>1, <1>2, <2>1 DEF Ahb!Decodes, Ahb!Masked, Ahb!Size, Ahb!en_addr
<1>3. CASE ~(s < 3)
  <2>1. AhbBase[s] \in {8192, 12288, 16384}
    BY <1>3, AhbTable DEF AhbSlave
  <2>2. AhbLast[s] - AhbBase[s] + 1 = 16
    BY <1>1, <1>3
  <2>3. \A b \in {8192, 12288, 16384} : n - (n % 16) = b <=> b <= n /\ n <= b + 15
    OBVIOUS
  <2>4. AhbLast[s] = AhbBase[s] + 15
    BY <1>1, <1>3
  <2> QED BY <1>1, <2>1, <2>2, <2>3, <2>4 DEF Ahb!Decodes, Ahb!Masked, Ahb!Size, Ahb!en_addr
<1> QED BY <1>2, <1>3

LEMMA ApbRanges ==
  ASSUME NEW s \in ApbSlave, NEW n \in Nat
  PROVE  Apb!Decodes(s, n) <=> n = 16384 + s
<1>1. ApbBase[s] = 16384 + s /\ ApbLast[s] = 16384 + s /\ s \in Nat /\ n % 1 = 0
  BY DEF ApbSlave, ApbBase, ApbLast
<1> QED BY <1>1 DEF Apb!Decodes, Apb!Masked, Apb!Size

\* The filter of the instruction and data ports passes a page exactly when the
\* interconnect has a slave for it.
THEOREM FilterAgrees == page \in Nat => FilterAgreesWithDecoder
BY AhbRanges DEF FilterAgreesWithDecoder, Ahb!InRange, Ahb!Selected

\* No two regions of either table touch, so no two slaves answer.
LEMMA Apart ==
  ASSUME NEW n \in Nat
  PROVE  /\ \A s, t \in AhbSlave : Ahb!Decodes(s, n) /\ Ahb!Decodes(t, n) => s = t
         /\ \A s, t \in ApbSlave : Apb!Decodes(s, n) /\ Apb!Decodes(t, n) => s = t
<1>1. ASSUME NEW s \in AhbSlave, NEW t \in AhbSlave, s < t PROVE AhbLast[s] < AhbBase[t]
  BY <1>1, AhbTable DEF AhbSlave
<1>2. \A s \in AhbSlave : s \in Int /\ AhbBase[s] \in Nat /\ AhbLast[s] \in Nat
  BY AhbTable DEF AhbSlave
<1>3. ASSUME NEW s \in AhbSlave, NEW t \in AhbSlave, Ahb!Decodes(s, n), Ahb!Decodes(t, n)
      PROVE  s = t
  BY <1>1, <1>2, <1>3, AhbRanges
<1>4. ASSUME NEW s \in ApbSlave, NEW t \in ApbSlave, Apb!Decodes(s, n), Apb!Decodes(t, n)
      PROVE  s = t
  BY <1>4, ApbRanges DEF ApbSlave
<1> QED BY <1>3, <1>4

LEMMA AtMostOne ==
  ASSUME NEW S, \A s, t \in S : s = t
  PROVE  Cardinality(S) <= 1
<1>1. CASE S = {}
  BY <1>1, FS_EmptySet
<1>2. CASE S # {}
  <2>1. PICK s \in S : TRUE
    BY <1>2
  <2>2. S = {s}
    BY <2>1
  <2>3. Cardinality({s}) = 1
    BY FS_Singleton
  <2> QED BY <2>2, <2>3
<1> QED BY <1>1, <1>2

\* An access on either bus is answered by one slave at most, whatever its page.
THEOREM SlavesApart == page \in Nat => OneSlave
BY Apart, AtMostOne DEF OneSlave, Ahb!Selected, Apb!Selected

\* Every APB slave lies in the window of the bridge and of no other AHB slave:
\* the two tables of config_soc.v agree.
THEOREM BridgeLeadsToApb == page \in Nat => ApbBehindBridge
<1> SUFFICES ASSUME page \in Nat, NEW s \in ApbSlave, Apb!Decodes(s, page)
             PROVE  Ahb!Selected(page) = {Bridge}
  BY DEF ApbBehindBridge, Apb!Selected
<1>1. page = 16384 + s /\ s \in 0..4
  BY ApbRanges DEF ApbSlave
<1>2. Bridge \in AhbSlave /\ AhbBase[Bridge] = 16384 /\ AhbLast[Bridge] = 16399
  BY AhbTable DEF Bridge, AhbSlave
<1>3. Ahb!Decodes(Bridge, page)
  BY <1>1, <1>2, AhbRanges
<1> QED BY <1>2, <1>3, Apart DEF Ahb!Selected

-------------------------------------------------------------------------------
(* The software's headers *)

\* Where the headers put a peripheral is where its port is decoded.
LEMMA PeripheralPorts ==
  ASSUME NEW a \in Accesses
  PROVE  /\ a.device \in {"GPIO", "UART", "TIMER", "EVENT_UNIT", "RST_CTRL"}
         /\ ApbPort[a.device] \in ApbSlave /\ PageOf(a) = 16384 + ApbPort[a.device]
<1>1. a.device \in {"GPIO", "UART", "TIMER", "EVENT_UNIT", "RST_CTRL"}
  BY DEF Accesses, GpioAccesses, UartAccesses, TimerAccesses, EventAccesses, BootAccesses, Access
<1> QED BY <1>1 DEF ApbPort, ApbSlave, PageOf, PeripheralBase, APB_BUS_ADDR

LEMMA WindowPorts ==
  ASSUME NEW w \in DOMAIN AhbWindow
  PROVE  AhbPort[w] \in AhbSlave /\ AhbWindow[w] \in Nat /\ AhbBase[AhbPort[w]] = AhbWindow[w]
<1>1. w \in {"rom", "debug", "printf", "iram", "dram"}
  BY DEF AhbWindow
<1> QED BY <1>1, AhbTable DEF AhbWindow, AhbPort, AhbSlave, BOOT_ROM, DEBUG_MODULE,
                              PRINTF_VERILATOR, IRAM_ADDR, DRAM_ADDR

LEMMA TimerRegisters ==
  ASSUME NEW r \in DOMAIN TimerRegister
  PROVE  TimerDecoded(TimerRegister[r]) = TimerNamed[r]
<1>1. r \in {"TIRA", "TPRA", "TOCRA", "TIRB", "TPRB", "TOCRB"}
  BY DEF TimerRegister
<1>2. /\ TimerRegister.TIRA = 0 /\ TimerRegister.TPRA = 4 /\ TimerRegister.TOCRA = 8
      /\ TimerRegister.TIRB = 16 /\ TimerRegister.TPRB = 20 /\ TimerRegister.TOCRB = 24
  BY DEF TimerRegister, Word
<1>3. /\ TimerDecoded(0) = <<0, "TIR">> /\ TimerDecoded(4) = <<0, "TPR">>
      /\ TimerDecoded(8) = <<0, "TOCR">> /\ TimerDecoded(16) = <<1, "TIR">>
      /\ TimerDecoded(20) = <<1, "TPR">> /\ TimerDecoded(24) = <<1, "TOCR">>
  BY DEF TimerDecoded
<1> QED BY <1>1, <1>2, <1>3 DEF TimerNamed

\* Software that uses the addresses of its headers reaches the device and the
\* register it means.
THEOREM HeadersAgree == page \in Nat => DriversReachTheirRegister
<1> SUFFICES ASSUME page \in Nat PROVE DriversReachTheirRegister
  OBVIOUS
<1>1. ASSUME NEW w \in DOMAIN AhbWindow, AhbWindow[w] = page
      PROVE  Ahb!Selected(page) = {AhbPort[w]}
  <2>1. AhbBase[AhbPort[w]] <= page /\ page <= AhbLast[AhbPort[w]] /\ AhbPort[w] \in AhbSlave
    BY <1>1, WindowPorts, AhbTable DEF AhbSlave
  <2>2. Ahb!Decodes(AhbPort[w], page)
    BY <2>1, AhbRanges
  <2> QED BY <2>1, <2>2, Apart DEF Ahb!Selected
<1>2. ASSUME NEW a \in Accesses, PageOf(a) = page PROVE Apb!Selected(page) = {ApbPort[a.device]}
  <2>1. ApbPort[a.device] \in ApbSlave /\ Apb!Decodes(ApbPort[a.device], page)
    BY <1>2, PeripheralPorts, ApbRanges
  <2> QED BY <2>1, Apart DEF Apb!Selected
<1> QED BY <1>1, <1>2, TimerRegisters DEF DriversReachTheirRegister

\* Which registers share an address: on the UART alone, where DLAB or the
\* direction tells them apart.
LEMMA DeviceRegisters ==
  ASSUME NEW a \in Accesses, NEW b \in Accesses,
         a.device = b.device, OffsetOf(a) = OffsetOf(b), a.kind = b.kind
  PROVE  a.register = b.register
<1> USE DEF OffsetOf, Offset, Word
<1>1. CASE a \in GpioAccesses
  <2>1. b \in GpioAccesses
    BY <1>1 DEF Accesses, GpioAccesses, UartAccesses, TimerAccesses, EventAccesses, BootAccesses, Access
  <2> QED BY <1>1, <2>1 DEF GpioAccesses, Access, GpioRegister
<1>2. CASE a \in UartAccesses
  <2>1. b \in UartAccesses
    BY <1>2 DEF Accesses, GpioAccesses, UartAccesses, TimerAccesses, EventAccesses, BootAccesses, Access
  <2> QED BY <1>2, <2>1 DEF UartAccesses, Access, UartRegister
<1>3. CASE a \in TimerAccesses
  <2>1. b \in TimerAccesses
    BY <1>3 DEF Accesses, GpioAccesses, UartAccesses, TimerAccesses, EventAccesses, BootAccesses, Access
  <2> QED BY <1>3, <2>1 DEF TimerAccesses, Access, TimerRegister
<1>4. CASE a \in EventAccesses
  <2>1. b \in EventAccesses
    BY <1>4 DEF Accesses, GpioAccesses, UartAccesses, TimerAccesses, EventAccesses, BootAccesses, Access
  <2> QED BY <1>4, <2>1 DEF EventAccesses, Access, EventRegister
<1>5. CASE a \in BootAccesses
  BY <1>5 DEF Accesses, GpioAccesses, UartAccesses, TimerAccesses, EventAccesses, BootAccesses, Access
<1> QED BY <1>1, <1>2, <1>3, <1>4, <1>5 DEF Accesses

\* No two registers that the drivers tell apart have one address.
THEOREM RegistersApart == page \in Nat => OneRegisterPerAddress
<1>1. \A a, b \in Accesses : PageOf(a) = PageOf(b) => a.device = b.device
  BY PeripheralPorts DEF ApbPort, ApbSlave
<1> QED BY <1>1, DeviceRegisters DEF OneRegisterPerAddress
===============================================================================
