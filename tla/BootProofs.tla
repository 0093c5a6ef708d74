------------------------------ MODULE BootProofs ------------------------------
(***************************************************************************)
(* Where the core boots from, for every set of addresses and data on the   *)
(* bus, and what _start of the boot ROM's program leaves in the data RAM,  *)
(* for every size of .data, .bss and RAM, with resets at any moment.       *)
(***************************************************************************)
EXTENDS Boot, TLAPS

-------------------------------------------------------------------------------
(* The boot address register alone: RstCtrl *)

\* Where want_write and the state machine stand in each phase.  A register that
\* is not exposed meets req in two places only: in the access cycle of a write,
\* and in the cycle after it, in which the bridge still shows the same data.
PhaseInv ==
  /\ phase = "access" /\ unit => fsm_st # "IDLE" /\ want_write = PWRITE
  /\ phase = "access" /\ ~unit => fsm_st = "IDLE"
  /\ phase = "setup" /\ ~exposed => fsm_st = "IDLE" /\ (unit => PWRITE)
  /\ phase = "access" /\ ~exposed /\ unit => PWRITE
  /\ phase = "idle" /\ fsm_st # "IDLE" /\ ~exposed => PWDATA = rst_addr

IInv == TypeOK /\ PhaseInv /\ BootsWhereTold

LEMMA InitIInv == Init => IInv
BY RstAssumption DEF Init, IInv, TypeOK, PhaseInv, BootsWhereTold

\* The registers of the unit keep their types in every cycle.
LEMMA UnitTypes ==
  ASSUME TypeOK, UnitClock
  PROVE  /\ fsm_st' \in {"IDLE", "WAIT_REQ", "NEW_REQ"}
         /\ want_write' \in BOOLEAN
         /\ rst_addr' \in Address
BY DEF TypeOK, UnitClock, next_st, PSEL, req

\* What the bridge puts on the bus next has its type.
LEMMA BusTypes ==
  ASSUME TypeOK, SetUp \/ GoIdle
  PROVE  /\ phase' \in {"setup", "idle"}
         /\ unit' \in BOOLEAN
         /\ PWRITE' \in BOOLEAN
         /\ PWDATA' \in Address
BY DEF TypeOK, SetUp, GoIdle

LEMMA IdleIInv ==
  ASSUME IInv, Idle
  PROVE  IInv'
<1>1. TypeOK'
  BY UnitTypes, BusTypes DEF Idle, IInv, TypeOK
<1>2. fsm_st' = "IDLE"
  BY DEF Idle, UnitClock, next_st, PSEL
<1>3. ~exposed => rst_addr' = rst_addr
  BY DEF Idle, UnitClock, req, PSEL, IInv, PhaseInv
<1>4. PhaseInv'
  BY <1>2, BusTypes DEF Idle, SetUp, GoIdle, StartsRead, PhaseInv, IInv, TypeOK
<1>5. BootsWhereTold'
  BY <1>3 DEF Idle, IInv, BootsWhereTold
<1> QED
  BY <1>1, <1>4, <1>5 DEF IInv

LEMMA EnableIInv ==
  ASSUME IInv, Enable
  PROVE  IInv'
<1>1. TypeOK'
  BY UnitTypes DEF Enable, history, IInv, TypeOK
<1>2. ~exposed => rst_addr' = rst_addr
  BY DEF Enable, UnitClock, req, PSEL, IInv, PhaseInv
<1>3. PhaseInv'
  BY DEF Enable, history, UnitClock, next_st, PSEL, IInv, PhaseInv, TypeOK
<1>4. BootsWhereTold'
  BY <1>2 DEF Enable, history, IInv, BootsWhereTold
<1> QED
  BY <1>1, <1>3, <1>4 DEF IInv

LEMMA WaitStateIInv ==
  ASSUME IInv, WaitState
  PROVE  IInv'
<1>1. TypeOK'
  BY UnitTypes DEF WaitState, bus, history, IInv, TypeOK
<1>2. rst_addr' = rst_addr /\ fsm_st' = "IDLE"
  BY DEF WaitState, UnitClock, req, next_st, PSEL, IInv, PhaseInv
<1>3. PhaseInv' /\ BootsWhereTold'
  BY <1>2 DEF WaitState, bus, history, IInv, PhaseInv, BootsWhereTold
<1> QED
  BY <1>1, <1>3 DEF IInv

LEMMA CompleteWriteIInv ==
  ASSUME IInv, CompleteWrite
  PROVE  IInv'
<1>1. TypeOK'
  BY UnitTypes, BusTypes DEF CompleteWrite, IInv, TypeOK
<1>2. rst_addr' = PWDATA
  BY DEF CompleteWrite, UnitClock, req, IInv, PhaseInv
<1>3. PhaseInv' /\ BootsWhereTold'
  BY <1>2 DEF CompleteWrite, SetUp, GoIdle, PhaseInv, BootsWhereTold
<1> QED
  BY <1>1, <1>3 DEF IInv

LEMMA CompleteOtherIInv ==
  ASSUME IInv, CompleteOther
  PROVE  IInv'
<1>1. TypeOK'
  BY UnitTypes, BusTypes DEF CompleteOther, IInv, TypeOK
<1>2. ~exposed => rst_addr' = rst_addr /\ fsm_st' = "IDLE"
  BY DEF CompleteOther, UnitClock, req, next_st, PSEL, IInv, PhaseInv
<1>3. PhaseInv'
  BY <1>2 DEF CompleteOther, SetUp, GoIdle, StartsRead, PhaseInv
<1>4. BootsWhereTold'
  BY <1>2 DEF CompleteOther, IInv, BootsWhereTold
<1> QED
  BY <1>1, <1>3, <1>4 DEF IInv

\* IInv is an invariant of the unit under every sequence of bus cycles.
THEOREM Invariance == Spec => []IInv
<1>1. IInv /\ UNCHANGED vars => IInv'
  BY DEF vars, bus, history, IInv, TypeOK, PhaseInv, BootsWhereTold
<1>2. IInv /\ [Next]_vars => IInv'
  BY <1>1, IdleIInv, EnableIInv, WaitStateIInv, CompleteWriteIInv,
     CompleteOtherIInv DEF Next
<1> QED BY InitIInv, <1>2, PTL DEF Spec

\* The register never holds anything but an address or data from the bus.
THEOREM TypeCorrect == Spec => []TypeOK
<1>1. IInv => TypeOK
  BY DEF IInv
<1> QED BY Invariance, <1>1, PTL

\* Until the register is exposed the core boots from the address software last
\* wrote.
THEOREM BootAddressKept == Spec => []BootsWhereTold
<1>1. IInv => BootsWhereTold
  BY DEF IInv
<1> QED BY Invariance, <1>1, PTL

-------------------------------------------------------------------------------
(* The core's start: Boot *)

\* A byte of .bss that is zero, or one the converter loses.
Cleared(a) == mem[a] = "zero" \/ (start_bss % 4 = 3 /\ a % 4 \in {1, 2})

\* The loops leave behind them what they are for: the bytes below the pointer
\* are done, and the pointer keeps the alignment it started with.
Shape == /\ end_data \in Ram /\ end_bss \in end_data..RamSize
         /\ mem = [a \in Ram |-> mem[a]]

Copying == core = "copy" =>
             /\ dst \in Nat /\ dst % 4 = 0
             /\ \A a \in Ram : a < dst /\ InRom(a) => mem[a] = "image"

Clearing == core = "clear" =>
              /\ dst \in Nat /\ dst >= start_bss /\ dst % 4 = start_bss % 4
              /\ \A a \in 0..end_data - 1 : InRom(a) => mem[a] = "image"
              /\ \A a \in Ram : a >= start_bss /\ a < dst => Cleared(a)

BootInv == Shape /\ Copying /\ Clearing /\ DataInPlace

-------------------------------------------------------------------------------
LEMMA LaneSizes ==
  /\ Converter!hsize({0, 1, 2, 3}) = 4 /\ Converter!hsize({1, 2, 3}) = 4
  /\ Converter!hsize({2, 3}) = 2 /\ Converter!hsize({0, 1}) = 2
  /\ Converter!hsize({3}) = 1 /\ Converter!hsize({0}) = 1 /\ Converter!hsize({0, 1, 2}) = 1
<1>1. {2, 3} \notin {{0, 1, 2, 3}, {1, 2, 3}} /\ {0, 1} \notin {{0, 1, 2, 3}, {1, 2, 3}}
  OBVIOUS
<1>2. {3} \notin {{0, 1, 2, 3}, {1, 2, 3}} /\ {3} \notin {{0, 1}, {1, 2}, {2, 3}}
  OBVIOUS
<1>3. {0} \notin {{0, 1, 2, 3}, {1, 2, 3}} /\ {0} \notin {{0, 1}, {1, 2}, {2, 3}}
  <2>1. 1 \notin {0} /\ 2 \notin {0} /\ 0 \notin {1, 2}
    OBVIOUS
  <2> QED BY <2>1
<1>4. {0, 1, 2} \notin {{0, 1, 2, 3}, {1, 2, 3}} /\ {0, 1, 2} \notin {{0, 1}, {1, 2}, {2, 3}}
  OBVIOUS
<1> QED BY <1>1, <1>2, <1>3, <1>4 DEF Converter!hsize

\* A store writes its four bytes, unless it starts at the last byte of a word:
\* then the second and third byte of the next word are left out.
LEMMA StoredBytes ==
  ASSUME NEW at \in Nat, NEW a \in Nat
  PROVE  /\ a \in Stored(at) => a >= at /\ a < at + 4
         /\ a >= at /\ a < at + 4 => a \in Stored(at) \/ (at % 4 = 3 /\ a % 4 \in {1, 2})
<1>1. a \in Stored(at) => a \in at..at + 3
  BY DEF Stored
<1>2. ASSUME a \in at..at + 3
      PROVE  a \in Stored(at) \/ (at % 4 = 3 /\ a % 4 \in {1, 2})
  <2>1. CASE at % 4 = 0
    <3>1. LowLanes(at) = {0, 1, 2, 3} /\ a \div 4 = at \div 4
      BY <1>2, <2>1 DEF LowLanes
    <3> QED BY <1>2, <3>1, LaneSizes DEF Stored
  <2>2. CASE at % 4 = 1
    <3>1. LowLanes(at) = {1, 2, 3} /\ HighLanes(at) = {0}
      BY <2>2 DEF LowLanes, HighLanes
    <3>2. a \div 4 # at \div 4 => a % 4 = 0
      BY <1>2, <2>2
    <3> QED BY <1>2, <3>1, <3>2, LaneSizes DEF Stored
  <2>3. CASE at % 4 = 2
    <3>1. LowLanes(at) = {2, 3} /\ HighLanes(at) = {0, 1}
      BY <2>3 DEF LowLanes, HighLanes
    <3>2. IF a \div 4 = at \div 4 THEN a < at + 2 ELSE a % 4 < 2
      BY <1>2, <2>3
    <3> QED BY <1>2, <3>1, <3>2, LaneSizes DEF Stored
  <2>4. CASE at % 4 = 3
    <3>1. LowLanes(at) = {3} /\ HighLanes(at) = {0, 1, 2}
      BY <2>4 DEF LowLanes, HighLanes
    <3>2. IF a \div 4 = at \div 4 THEN a < at + 1 ELSE a % 4 \in {0, 1, 2}
      BY <1>2, <2>4
    <3> QED BY <1>2, <2>4, <3>1, <3>2, LaneSizes DEF Stored
  <2> QED BY <2>1, <2>2, <2>3, <2>4
<1> QED BY <1>1, <1>2

LEMMA BootInitInv == BootInit => BootInv
BY DEF BootInit, BootInv, Shape, Copying, Clearing, DataInPlace

\* What the ROM holds does not change.
LEMMA SameRom == end_data' = end_data => \A a : InRom(a)' <=> InRom(a)
BY DEF InRom, Lines

LEMMA CopyStep == ASSUME BootInv, CopyData, UNCHANGED <<end_data, end_bss>> PROVE BootInv'
<1> USE BootAssumption DEF BootInv, Shape, Ram, start_bss
<1>0. RamSize \in Nat /\ end_data \in Nat /\ end_data < RamSize /\ end_data' = end_data /\ end_bss' = end_bss
  OBVIOUS
<1>1. dst \in Nat /\ dst % 4 = 0 /\ \A a \in Ram : a < dst /\ InRom(a) => mem[a] = "image"
  BY DEF CopyData, Copying
<1>2. CASE dst >= end_data
  <2>1. core' = "clear" /\ dst' = end_data /\ mem' = mem
    BY <1>2 DEF CopyData
  <2>2. \A a \in 0..end_data - 1 : InRom(a) => mem[a] = "image"
    BY <1>1, <1>2
  <2>3. dst' \in Nat /\ dst' >= start_bss' /\ dst' % 4 = start_bss' % 4
    BY <1>0, <2>1
  <2>4. \A a \in 0..end_data' - 1 : InRom(a)' => mem'[a] = "image"
    BY <1>0, <2>1, <2>2, SameRom
  <2>5. \A a \in Ram' : ~(a >= start_bss' /\ a < dst')
    BY <1>0, <2>1
  <2>6. Clearing'
    BY ONLY <2>3, <2>4, <2>5, Zenon DEF Clearing
  <2> QED BY <2>1, <2>6 DEF Copying, DataInPlace
<1>3. CASE ~(dst >= end_data)
  <2>1. /\ core' = "copy" /\ dst' = dst + 4
        /\ mem' = [a \in Ram |-> IF a \in Stored(dst) THEN IF InRom(a) THEN "image" ELSE "other"
                                                      ELSE mem[a]]
    BY <1>3 DEF CopyData, StoreWord
  <2>2. ASSUME NEW a \in Ram, a < dst + 4, InRom(a) PROVE mem'[a] = "image"
    <3>1. a < dst \/ a \in Stored(dst)
      BY <1>1, <2>2, StoredBytes
    <3> QED BY <1>1, <2>1, <2>2, <3>1
  <2>3. (dst + 4) % 4 = 0
    BY <1>1
  <2>4. Copying'
    BY <1>0, <1>1, <2>1, <2>2, <2>3, SameRom DEF Copying
  <2>5. Shape'
    BY <2>1
  <2> QED BY <2>1, <2>4, <2>5 DEF Clearing, DataInPlace
<1> QED BY <1>2, <1>3

LEMMA ClearStep == ASSUME BootInv, ClearBss, UNCHANGED <<end_data, end_bss>> PROVE BootInv'
<1> USE BootAssumption DEF BootInv, Shape, Ram, start_bss
<1>0. RamSize \in Nat /\ end_data \in Nat /\ end_data < RamSize /\ end_data' = end_data /\ end_bss' = end_bss
  OBVIOUS
<1>1. /\ dst \in Nat /\ dst >= end_data /\ dst % 4 = end_data % 4
      /\ \A a \in 0..end_data - 1 : InRom(a) => mem[a] = "image"
      /\ \A a \in Ram : a >= end_data /\ a < dst => Cleared(a)
  BY DEF ClearBss, Clearing
<1>2. CASE dst >= end_bss
  <2>1. core' = "call" /\ mem' = mem
    BY <1>2 DEF ClearBss, ClearEnds
  <2>2. \A a \in end_data..end_bss - 1 : a \in Ram /\ Cleared(a)
    BY <1>1, <1>2
  <2>3. DataInPlace'
    BY <1>0, <1>1, <2>1, <2>2, SameRom DEF DataInPlace, Cleared
  <2> QED BY <2>1, <2>3 DEF Copying, Clearing
<1>3. CASE ~(dst >= end_bss)
  <2>1. /\ core' = "clear" /\ dst' = dst + 4
        /\ mem' = [a \in Ram |-> IF a \in Stored(dst) THEN "zero" ELSE mem[a]]
    BY <1>3 DEF ClearBss, ClearEnds, StoreWord
  <2>2. dst \in Nat /\ dst >= end_data
    BY <1>1
  <2>3. ASSUME NEW a \in 0..end_data - 1, InRom(a) PROVE mem'[a] = "image"
    <3>1. a \in Ram /\ a \in Nat /\ a < dst
      BY <1>0, <2>2, <2>3
    <3>2. a \notin Stored(dst)
      BY <1>1, <3>1, StoredBytes
    <3> QED BY <1>1, <2>1, <2>3, <3>1, <3>2
  <2>4. ASSUME NEW a \in Ram, a >= end_data, a < dst + 4 PROVE Cleared(a)'
    <3>1. CASE a < dst
      BY <1>1, <2>1, <2>4, <3>1 DEF Cleared
    <3>2. CASE a >= dst
      <4>1. a \in Stored(dst) \/ (end_data % 4 = 3 /\ a % 4 \in {1, 2})
        BY <1>1, <2>4, <3>2, StoredBytes
      <4>2. a \in Stored(dst) => mem'[a] = "zero"
        BY <2>1
      <4> QED BY <1>0, <4>1, <4>2, Zenon DEF Cleared
    <3> QED BY <1>1, <2>4, <3>1, <3>2
  <2>5. (dst + 4) % 4 = dst % 4
    BY <1>1
  <2>6. Clearing'
    <3>1. \A a \in Ram : a >= start_bss' /\ a < dst' => Cleared(a)'
      BY <1>0, <2>1, <2>4
    <3>2. dst' \in Nat /\ dst' >= start_bss' /\ dst' % 4 = start_bss' % 4
      <4>1. dst' \in Nat /\ dst' >= end_data
        BY <1>0, <2>1, <2>2
      <4>2. dst' % 4 = end_data % 4
        BY <1>1, <2>1, <2>5
      <4> QED BY <1>0, <4>1, <4>2
    <3>3. \A a \in 0..end_data' - 1 : InRom(a)' => mem'[a] = "image"
      BY <1>0, <2>3, SameRom
    <3> QED BY <3>1, <3>2, <3>3 DEF Clearing
  <2>7. Shape'
    BY <2>1
  <2> QED BY <2>1, <2>6, <2>7 DEF Copying, DataInPlace
<1> QED BY <1>2, <1>3

LEMMA BootStep == BootInv /\ [BootNext]_boot_vars => BootInv'
<1> SUFFICES ASSUME BootInv, [BootNext]_boot_vars PROVE BootInv'
  OBVIOUS
<1>1. CASE CopyData /\ UNCHANGED <<end_data, end_bss>>
  BY <1>1, CopyStep
<1>2. CASE ClearBss /\ UNCHANGED <<end_data, end_bss>>
  BY <1>2, ClearStep
<1>3. CASE (CoreReset \/ CoreStart \/ Run) /\ UNCHANGED <<end_data, end_bss>>
  BY <1>3, BootAssumption, SameRom
  DEF BootInv, Shape, Copying, Clearing, DataInPlace, CoreReset, CoreStart, Run, Ram
<1>4. CASE UNCHANGED <<core_vars, end_data, end_bss>>
  BY <1>4, SameRom DEF core_vars, BootInv, Shape, Copying, Clearing, DataInPlace, Cleared, start_bss
<1> QED BY <1>1, <1>2, <1>3, <1>4 DEF BootNext, CoreStep, boot_vars, core_vars

\* For every layout of .data and .bss, main finds its data as it was linked.
THEOREM DataIsInPlace == BootSpec => []DataInPlace
<1>1. BootInv => DataInPlace
  BY DEF BootInv
<1> QED BY BootInitInv, BootStep, <1>1, PTL DEF BootSpec

\* The core and its resets leave the register to the bus: whatever holds of
\* RstCtrl alone holds here.
THEOREM RegisterUndisturbed == BootSpec => Spec
<1>1. BootInit => Init
  BY DEF BootInit
<1>2. [BootNext]_boot_vars => [Next]_vars
  BY DEF BootNext, boot_vars
<1> QED BY <1>1, <1>2, PTL DEF BootSpec, Spec

\* However often the debugger resets the core, it starts where software last
\* told it to, until the register is exposed.
THEOREM CoreStartsWhereTold == BootSpec => [](TypeOK /\ BootsWhereTold)
BY RegisterUndisturbed, TypeCorrect, BootAddressKept, PTL
===============================================================================
