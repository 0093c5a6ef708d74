--------------------------- MODULE DebugSlaveProofs ---------------------------
(***************************************************************************)
(* The slaves in front of the debug module and of the boot ROM, for every  *)
(* address space, every word, every image and every pattern of wait        *)
(* states.                                                                 *)
(***************************************************************************)
EXTENDS AhbSlaves, TLAPS

\* The inductive invariant: what the machine, the saved address phase and the
\* read lock are while nothing, a read or a write is in its data phase.
NothingOpen == dphase = None => fsm_st = "IDLE" /\ done = << >>

ReadOpen == dphase # None /\ ~dphase.write =>
  /\ fsm_st \in {"WAIT_REQ", "NEW_REQ"}
  /\ done = <<AccessOf(dphase)>>
  /\ lock => hrdata_saved = expected
  /\ ~lock => rdata_mem /\ rdata_i = expected

WriteOpen == dphase # None /\ dphase.write =>
  \/ /\ fsm_st = "WRITE_REQ"
     /\ haddr_saved = dphase.addr
     /\ be_saved = be(dphase.size)
     /\ done = << >>
  \/ /\ fsm_st = "IDLE"
     /\ done = <<AccessOf(dphase)>>

IInv == /\ dphase \in Transfer \cup {None}
        /\ NothingOpen
        /\ ReadOpen
        /\ WriteOpen

\* A stretched cycle appends to what the debug module has seen.
LEMMA Appending == \A x : << >> \o <<x>> = <<x>> /\ <<x>> \o << >> = <<x>>
OBVIOUS

LEMMA InitIInv == Init => IInv
BY DEF Init, IInv, NothingOpen, ReadOpen, WriteOpen

LEMMA AcceptIInv == ASSUME IInv, NEW t \in Transfer, Accept(t) PROVE IInv'
<1> USE SlaveAssumption
<1>1. fsm_st # "WRITE_REQ" /\ t # None /\ dphase' = t /\ t.write \in BOOLEAN
  BY DEF Accept, hreadyout_o, Transfer
<1>2. CASE t.write
  <2>1. fsm_st' = "WRITE_REQ"
    BY <1>1, <1>2 DEF Accept, SlaveClock, next_st
  <2>2. haddr_saved' = t.addr /\ be_saved' = be(t.size) /\ done' = << >>
    BY <1>1, <1>2 DEF Accept, SlaveClock, Requested
  <2> QED
    BY <1>1, <1>2, <2>1, <2>2 DEF IInv, NothingOpen, ReadOpen, WriteOpen
<1>3. CASE ~t.write
  <2>1. fsm_st' \in {"WAIT_REQ", "NEW_REQ"}
    BY <1>1, <1>3 DEF Accept, SlaveClock, next_st
  <2>2. done' = <<AccessOf(t)>>
    BY <1>1, <1>3 DEF Accept, Requested, addr_o, AccessOf
  <2>3. ~lock' /\ rdata_mem' /\ rdata_i' = expected'
    BY <1>3 DEF Accept, SlaveClock
  <2> QED
    BY <1>1, <1>3, <2>1, <2>2, <2>3 DEF IInv, NothingOpen, ReadOpen, WriteOpen, AccessOf
<1> QED BY <1>2, <1>3

LEMMA FinishIInv == ASSUME IInv, Finish PROVE IInv'
<1>1. fsm_st' = "IDLE" /\ dphase' = None /\ done' = << >>
  BY DEF Finish, SlaveClock, next_st
<1> QED BY <1>1 DEF IInv, NothingOpen, ReadOpen, WriteOpen

LEMMA StretchIInv == ASSUME IInv, Stretch PROVE IInv'
<1> USE SlaveAssumption
<1>1. PICK a \in Addr, w \in Word :
        /\ SlaveClock(FALSE, FALSE, a, "WORD", FALSE)
        /\ done' = done \o Requested(FALSE, a, "WORD", WriteData(w))
  BY DEF Stretch
<1>2. dphase' = dphase /\ expected' = expected
  BY DEF Stretch
<1>3. haddr_saved' = haddr_saved /\ be_saved' = be_saved
  BY <1>1 DEF SlaveClock
<1>4. fsm_st' = IF fsm_st \in {"WAIT_REQ", "NEW_REQ"} THEN fsm_st ELSE "IDLE"
  <2>1. next_st(FALSE, FALSE) = "IDLE"
    BY DEF next_st
  <2>2. fsm_st \in {"IDLE", "WAIT_REQ", "NEW_REQ", "WRITE_REQ"}
    BY DEF IInv, NothingOpen, ReadOpen, WriteOpen
  <2> QED BY <1>1, <2>1, <2>2 DEF SlaveClock
<1>5. CASE dphase = None
  <2>1. done' = << >>
    BY <1>1, <1>5 DEF IInv, NothingOpen, Requested
  <2> QED BY <1>2, <1>4, <1>5, <2>1 DEF IInv, NothingOpen, ReadOpen, WriteOpen
<1>6. CASE dphase # None /\ ~dphase.write
  <2>1. done' = <<AccessOf(dphase)>>
    BY <1>1, <1>6, Appending DEF IInv, ReadOpen, Requested
  <2>2. lock' /\ hrdata_saved' = expected
    BY <1>1, <1>6 DEF IInv, ReadOpen, SlaveClock
  <2> QED
    BY <1>2, <1>4, <1>6, <2>1, <2>2 DEF IInv, NothingOpen, ReadOpen, WriteOpen, AccessOf
<1>7. CASE dphase # None /\ dphase.write
  <2>1. done' = <<AccessOf(dphase)>>
    <3>1. CASE fsm_st = "WRITE_REQ"
      <4>1. Requested(FALSE, a, "WORD", WriteData(w)) = <<AccessOf(dphase)>>
        BY <1>7, <3>1 DEF IInv, WriteOpen, Requested, addr_o, WriteData, AccessOf
      <4>2. done = << >>
        BY <1>7, <3>1 DEF IInv, WriteOpen
      <4> QED BY <1>1, <4>1, <4>2, Appending
    <3>2. CASE fsm_st = "IDLE"
      <4>1. Requested(FALSE, a, "WORD", WriteData(w)) = << >>
        BY <3>2 DEF Requested
      <4>2. done = <<AccessOf(dphase)>>
        BY <1>7, <3>2 DEF IInv, WriteOpen
      <4> QED BY <1>1, <4>1, <4>2, Appending
    <3> QED BY <1>7, <3>1, <3>2 DEF IInv, WriteOpen
  <2> QED
    BY <1>2, <1>4, <1>7, <2>1 DEF IInv, NothingOpen, ReadOpen, WriteOpen, AccessOf
<1> QED BY <1>5, <1>6, <1>7

\* The machine, the saved address phase and the read lock always agree with
\* the transfer in its data phase.
THEOREM Invariance == Spec => []IInv
<1>1. IInv /\ UNCHANGED vars => IInv'
  BY DEF vars, registers, IInv, NothingOpen, ReadOpen, WriteOpen, AccessOf
<1>2. IInv /\ [Next]_vars => IInv'
  BY <1>1, AcceptIInv, FinishIInv, StretchIInv DEF Next
<1> QED BY InitIInv, <1>2, PTL DEF Spec

RegistersTyped ==
  /\ fsm_st \in {"IDLE", "WAIT_REQ", "NEW_REQ", "WRITE_REQ"}
  /\ be_saved \in SUBSET Lane
  /\ haddr_saved \in Addr
  /\ {hrdata_saved, rdata_i, expected} \subseteq Word
  /\ {rdata_mem, lock} \subseteq BOOLEAN

LEMMA EdgeTyped ==
  ASSUME RegistersTyped, NEW hsel_i \in BOOLEAN, NEW hwrite_i \in BOOLEAN, NEW haddr_i \in Addr,
         NEW hsize_i, NEW hready_i \in BOOLEAN,
         SlaveClock(hsel_i, hwrite_i, haddr_i, hsize_i, hready_i),
         rdata_i' \in Word, expected' \in Word
  PROVE  RegistersTyped'
<1>1. be(hsize_i) \in SUBSET Lane
  BY DEF be, Lane
<1>2. next_st(hsel_i /\ hwrite_i, hsel_i /\ ~hwrite_i) \in {"IDLE", "WAIT_REQ", "NEW_REQ", "WRITE_REQ"}
  BY DEF next_st
<1>3. fsm_st' \in {"IDLE", "WAIT_REQ", "NEW_REQ", "WRITE_REQ"}
  BY <1>2 DEF SlaveClock, RegistersTyped
<1>4. be_saved' \in SUBSET Lane /\ haddr_saved' \in Addr /\ hrdata_saved' \in Word
  BY <1>1 DEF SlaveClock, RegistersTyped
<1>5. rdata_mem' \in BOOLEAN /\ lock' \in BOOLEAN
  BY DEF SlaveClock
<1> QED BY <1>3, <1>4, <1>5 DEF RegistersTyped, Lane

LEMMA StepTyped == ASSUME RegistersTyped, [Next]_vars PROVE RegistersTyped'
<1>1. CASE UNCHANGED vars
  BY <1>1 DEF vars, registers, RegistersTyped
<1>2. ASSUME NEW t \in Transfer, Accept(t) PROVE RegistersTyped'
  <2>1. t.write \in BOOLEAN /\ t.addr \in Addr
    BY DEF Transfer
  <2>2. rdata_i' \in Word /\ expected' \in Word /\ SlaveClock(TRUE, t.write, t.addr, t.size, TRUE)
    BY <1>2 DEF Accept, RegistersTyped
  <2> QED BY <2>1, <2>2, EdgeTyped
<1>3. CASE Finish
  <2>1. PICK a \in Addr : SlaveClock(FALSE, FALSE, a, "WORD", TRUE)
    BY <1>3 DEF Finish
  <2>2. rdata_i' \in Word /\ expected' \in Word
    BY <1>3 DEF Finish, RegistersTyped
  <2> QED BY <2>1, <2>2, EdgeTyped
<1>4. CASE Stretch
  <2>1. PICK a \in Addr : SlaveClock(FALSE, FALSE, a, "WORD", FALSE)
    BY <1>4 DEF Stretch
  <2>2. rdata_i' \in Word /\ expected' \in Word
    BY <1>4 DEF Stretch, RegistersTyped
  <2> QED BY <2>1, <2>2, EdgeTyped
<1> QED BY <1>1, <1>2, <1>3, <1>4 DEF Next

\* The state has its types, and the debug module sees no transfer twice.
THEOREM TypeCorrect == Spec => []TypeOK
<1>1. Init => RegistersTyped
  BY DEF Init, RegistersTyped, Lane
<1>2. RegistersTyped /\ [Next]_vars => RegistersTyped'
  BY StepTyped
<1>3. RegistersTyped /\ IInv => TypeOK
  <2> SUFFICES ASSUME RegistersTyped, IInv PROVE TypeOK
    OBVIOUS
  <2>1. done = << >> \/ (dphase \in Transfer /\ done = <<AccessOf(dphase)>>)
    BY DEF IInv, NothingOpen, ReadOpen, WriteOpen
  <2>2. ASSUME NEW t \in Transfer PROVE AccessOf(t) \in Access
    <3>1. t.write \in BOOLEAN /\ t.addr \in Addr /\ t.data \in Word
      BY DEF Transfer
    <3>2. be(t.size) \in SUBSET Lane
      BY DEF be, Lane
    <3> QED BY ONLY <3>1, <3>2 DEF AccessOf, Access
  <2> QED BY <2>1, <2>2 DEF RegistersTyped, IInv, TypeOK
<1> QED BY Invariance, <1>1, <1>2, <1>3, PTL DEF Spec

\* Every transfer reaches the debug module once, with its own address and data.
THEOREM EachSeenOnce == Spec => []SeenOnce
<1>1. IInv => SeenOnce
  BY DEF IInv, NothingOpen, ReadOpen, WriteOpen, SeenOnce, hreadyout_o
<1> QED BY Invariance, <1>1, PTL

\* A read's answer stays on the bus until the read's data phase ends.
THEOREM AnswerHeld == Spec => []ReadDataHeld
<1>1. IInv => ReadDataHeld
  BY DEF IInv, ReadOpen, ReadDataHeld, hreadyout_o, hrdata_o
<1> QED BY Invariance, <1>1, PTL
-------------------------------------------------------------------------------
\* The boot ROM's slave leaves the debug module's alone: whatever holds of
\* DebugSlave by itself, as the theorems above do, holds with both on the bus.
THEOREM SlaveUndisturbed == BusSpec => Spec
<1>1. BusInit => Init
  BY DEF BusInit
<1>2. [BusNext]_bus_vars => [Next]_vars
  BY DEF BusNext, AcceptRom, AcceptOther, BusStretch, Next, bus_vars
<1> QED BY <1>1, <1>2, PTL DEF BusSpec, Spec

LEMMA SpanPositive == ASSUME NEW n \in Size PROVE AddressSpan(n) \in Nat \ {0}
<1>1. \E p \in Power : p >= n /\ \A q \in Power : q >= n => p <= q
  BY DEF Power, Size
<1>2. (CHOOSE p \in Power : p >= n /\ \A q \in Power : q >= n => p <= q) \in Power
  BY <1>1, Zenon
<1>3. ASSUME NEW p \in Power PROVE 2 * p \in Nat \ {0}
  BY DEF Power
<1> QED BY ONLY <1>2, <1>3, Zenon DEF AddressSpan

\* A line the table holds is the first, and at its own label.
LEMMA HeldIsRead ==
  ASSUME NEW n \in Size, NEW k \in Nat, Held(n, k), NEW d
  PROVE  Entry(n, 4 * k, d) = k
<1> DEFINE span == AddressSpan(n)
           hits == {j \in 0..n - 2 : Label(n, j) = (4 * k) % span}
<1>1. span \in Nat \ {0}
  BY ONLY SpanPositive, Zenon
<1>2. 4 * k < span /\ k < n - 1
  BY DEF Held, span
<1> HIDE DEF span
<1>3. \A j \in Nat : 4 * j < span => (4 * j) % span = 4 * j
  BY <1>1
<1>4. \A j \in Nat : Label(n, j) = (4 * j) % span
  BY DEF Label, span
<1>5. k \in hits
  BY <1>1, <1>2, <1>4 DEF Size
<1>6. \A j \in hits : k <= j
  <2> SUFFICES ASSUME NEW j \in hits, j < k PROVE FALSE
    OBVIOUS
  <2>1. j \in Nat /\ (4 * j) % span = (4 * k) % span
    BY <1>4
  <2>2. 4 * j < span
    BY <1>1, <1>2, <2>1
  <2> QED BY <1>2, <1>3, <2>1, <2>2
<1>7. \A i \in hits : (\A j \in hits : i <= j) => i = k
  BY <1>5, <1>6
<1>8. Entry(n, 4 * k, d) = CHOOSE i \in hits : \A j \in hits : i <= j
  <2>1. hits # {}
    BY <1>5
  <2> QED BY <2>1, Zenon DEF Entry, span
<1> HIDE DEF hits
<1>9. (CHOOSE i \in hits : \A j \in hits : i <= j) = k
  BY ONLY <1>5, <1>6, <1>7, Zenon
<1> QED BY <1>8, <1>9

RomInv == lines \in RomSizes /\ RomAnswers

LEMMA RomStep == ASSUME RomInv, BusNext PROVE RomInv'
<1>1. lines' = lines /\ lines \in Size
  BY RomAssumption DEF RomInv, BusNext
<1>2. CASE AcceptOther \/ BusStretch
  BY <1>1, <1>2, Zenon DEF AcceptOther, BusStretch, RomInv, RomAnswers
<1>3. CASE AcceptRom
  <2>1. PICK a \in RomAddr, write \in BOOLEAN :
          RomClock(TRUE, write, a, TRUE) /\ reading' = IF write THEN None ELSE a
    BY <1>3 DEF AcceptRom
  <2>2. SUFFICES ASSUME reading' # None, reading' % 4 = 0, Held(lines, reading' \div 4)
                 PROVE  rdata' = reading' \div 4
    BY <1>1 DEF RomInv, RomAnswers
  <2>3. ~write /\ reading' = a /\ a \in Nat
    BY <2>1, <2>2, RomAssumption
  <2>4. rdata' = Entry(lines, a, rdata)
    BY <2>1, <2>3 DEF RomClock, req_o
  <2>5. a \div 4 \in Nat /\ 4 * (a \div 4) = a
    BY <2>2, <2>3
  <2>6. Held(lines, a \div 4)
    BY <2>2, <2>3
  <2>7. Entry(lines, 4 * (a \div 4), rdata) = a \div 4
    BY ONLY <1>1, <2>5, <2>6, HeldIsRead, Zenon
  <2> QED BY <2>3, <2>4, <2>5, <2>7
<1> QED BY <1>2, <1>3 DEF BusNext

\* A line the generated table holds is read as it is in the image, for every
\* image that fits the window and every sequence of accesses.
THEOREM RomAnswered == BusSpec => []RomAnswers
<1>1. BusInit => RomInv
  BY DEF BusInit, RomInv, RomAnswers
<1>2. RomInv /\ [BusNext]_bus_vars => RomInv'
  BY RomStep DEF bus_vars, rom_vars, RomInv, RomAnswers
<1>3. RomInv => RomAnswers
  BY DEF RomInv
<1> QED BY <1>1, <1>2, <1>3, PTL DEF BusSpec
===============================================================================
