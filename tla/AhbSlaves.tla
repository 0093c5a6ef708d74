------------------------------- MODULE AhbSlaves -------------------------------
(***************************************************************************)
(* ips/utils/ahb_ri5cy_rom.sv, the slave in front of the boot ROM, on the  *)
(* bus with the debug module's slave, which holds HREADY low when a write  *)
(* of its own needs it.                                                    *)
(*                                                                         *)
(* The ROM is always ready, so a read of it has its answer in the cycle    *)
(* after its address phase and its master takes it there.  HREADY as the   *)
(* slaves see it may be low in that cycle, for another master.             *)
(***************************************************************************)
EXTENDS DebugSlave, RomTable

CONSTANTS
  RomSizes,     \* the lines an image may have
  RomAddr       \* the byte addresses that are read

ASSUME RomAssumption == RomSizes \subseteq Size /\ RomAddr \subseteq Nat

VARIABLES
  lines,        \* lines of the image
  rom_st,       \* fsm_st of ahb_ri5cy_rom.sv
  rdata,        \* the line in the output register, or lines for anything else
  reading       \* the address whose answer is due in this cycle, or None

rom_vars == <<rom_st, rdata, reading>>
bus_vars == <<vars, rom_vars, lines>>

\* Mutation: a read is passed on from IDLE only.
req_o_idle(hsel_i, hwrite_i, hready_i) == rom_st = "IDLE" /\ hready_i /\ hsel_i /\ ~hwrite_i

req_o(hsel_i, hwrite_i, hready_i) ==
  \/ rom_st \in {"WAIT_REQ", "NEW_REQ"}
  \/ hready_i /\ hsel_i /\ ~hwrite_i

rom_next_st(hsel_i, hready_i) ==
  IF ~hready_i THEN rom_st
  ELSE IF ~hsel_i THEN "IDLE"
  ELSE IF rom_st = "WAIT_REQ" THEN "NEW_REQ" ELSE "WAIT_REQ"

RomClock(hsel_i, hwrite_i, haddr_i, hready_i) ==
  /\ rom_st' = rom_next_st(hsel_i, hready_i)
  /\ rdata' = IF req_o(hsel_i, hwrite_i, hready_i) THEN Entry(lines, haddr_i, rdata) ELSE rdata

BusInit == /\ Init
           /\ lines \in RomSizes
           /\ rom_st = "IDLE"
           /\ rdata = lines
           /\ reading = None

\* HREADY high, an address for the ROM.
AcceptRom == /\ Finish
             /\ \E a \in RomAddr, write \in BOOLEAN :
                  /\ RomClock(TRUE, write, a, TRUE)
                  /\ reading' = IF write THEN None ELSE a

\* HREADY high, an address for the debug module's slave, or for neither.
AcceptOther == /\ (\E t \in Transfer : Accept(t)) \/ Finish
               /\ \E a \in RomAddr : RomClock(FALSE, FALSE, a, TRUE)
               /\ reading' = None

\* HREADY low.
BusStretch == /\ Stretch
              /\ \E a \in RomAddr : RomClock(FALSE, FALSE, a, FALSE)
              /\ reading' = None

BusNext == (AcceptRom \/ AcceptOther \/ BusStretch) /\ UNCHANGED lines

BusSpec == BusInit /\ [][BusNext]_bus_vars
-------------------------------------------------------------------------------
\* A read of the ROM is answered with the line of the image at its address, in
\* whatever state earlier accesses and wait states have left the machine, as
\* long as the generated table holds that line: it lies within the table's
\* address bits, which cover no more than half to all but one of the lines, and
\* is not the last.
RomAnswers ==
  reading # None /\ reading % 4 = 0 /\ Held(lines, reading \div 4) => rdata = reading \div 4
===============================================================================
