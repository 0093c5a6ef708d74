------------------------------ MODULE DebugSlave ------------------------------
(***************************************************************************)
(* ips/utils/ahb_to_ri5cy.sv: the AHB slave in front of the debug module's *)
(* memory.  A read is passed on in its address phase and answered from the *)
(* debug module's output register; a write is passed on one cycle later,   *)
(* when its data is there, with the slave not ready for that cycle.        *)
(*                                                                         *)
(* The debug module and the interconnect are submodules without source.    *)
(* The debug module answers a read in the next cycle with any word and     *)
(* promises nothing after that.  The interconnect holds HREADY low while   *)
(* this slave is not ready, and for reasons of its own in any other cycle; *)
(* the SoC's masters put an address on the bus only when HREADY is high    *)
(* (MayIssue of MasterPort).  A step is one clock cycle.                   *)
(***************************************************************************)
EXTENDS Integers, Sequences

CONSTANTS Addr, Word,
          None          \* no transfer

VARIABLES
  fsm_st, be_saved, haddr_saved, hrdata_saved, rdata_mem, lock,  \* registers
  rdata_i,      \* output register of the debug module
  dphase,       \* the transfer in its data phase at this slave, or None
  expected,     \* what the debug module answered to the read in dphase
  done          \* accesses the debug module has seen for the transfer in dphase

registers == <<fsm_st, be_saved, haddr_saved, hrdata_saved, rdata_mem, lock>>
vars == <<registers, rdata_i, dphase, expected, done>>

Transfer == [write : BOOLEAN, addr : Addr, size : {"BYTE", "HALFWORD", "WORD"}, data : Word]

ASSUME SlaveAssumption == None \notin Transfer /\ Addr # {} /\ Word # {}

Lane == 0..3

\* The byte enable depends on the size alone, not on the low address bits.
be(hsize) == IF hsize = "WORD" THEN Lane ELSE IF hsize = "HALFWORD" THEN {0, 1} ELSE {0}

hreadyout_o == fsm_st # "WRITE_REQ"

\* Mutation: read data straight from the debug module.
hrdata_o_live == rdata_i

hrdata_o == IF lock THEN hrdata_saved ELSE rdata_i

\* Mutation: WRITE_REQ is left only when the bus moves on.
next_st_waits(wr_req, rd_req) ==
  IF fsm_st = "WRITE_REQ" THEN "WRITE_REQ"
  ELSE IF wr_req THEN "WRITE_REQ"
  ELSE IF ~rd_req THEN "IDLE"
  ELSE IF fsm_st = "WAIT_REQ" THEN "NEW_REQ" ELSE "WAIT_REQ"

next_st(wr_req, rd_req) ==
  IF fsm_st = "WRITE_REQ" THEN "IDLE"
  ELSE IF wr_req THEN "WRITE_REQ"
  ELSE IF ~rd_req THEN "IDLE"
  ELSE IF fsm_st = "WAIT_REQ" THEN "NEW_REQ" ELSE "WAIT_REQ"

\* Mutation: the address lines as they are now.
addr_o_live(haddr_i) == haddr_i

addr_o(haddr_i) == IF fsm_st = "WRITE_REQ" THEN haddr_saved ELSE haddr_i

\* The access the debug module sees in this cycle: at most one, as req_o is
\* raised by a read in its address phase and in WRITE_REQ.
Requested(rd_req, haddr_i, hsize_i, hwdata_i) ==
  IF fsm_st = "WRITE_REQ"
    THEN <<[write |-> TRUE, addr |-> addr_o(haddr_i), be |-> be_saved, data |-> hwdata_i]>>
  ELSE IF rd_req THEN <<[write |-> FALSE, addr |-> addr_o(haddr_i), be |-> be(hsize_i)]>>
  ELSE << >>

\* One clock edge out of reset.
SlaveClock(hsel_i, hwrite_i, haddr_i, hsize_i, hready_i) ==
  LET next == next_st(hsel_i /\ hwrite_i, hsel_i /\ ~hwrite_i)
  IN  /\ fsm_st' = IF ~hready_i /\ fsm_st \notin {"IDLE", "WRITE_REQ"} /\ next # "WRITE_REQ"
                     THEN fsm_st ELSE next
      /\ be_saved' = IF hsel_i THEN be(hsize_i) ELSE be_saved
      /\ haddr_saved' = IF hsel_i THEN haddr_i ELSE haddr_saved
      /\ rdata_mem' = (hsel_i /\ ~hwrite_i)
      /\ hrdata_saved' = IF ~hready_i /\ rdata_mem /\ ~lock THEN rdata_i ELSE hrdata_saved
      /\ lock' = (~hready_i /\ (lock \/ rdata_mem))

\* HWDATA belongs to the write in its data phase.
WriteData(w) == IF dphase # None /\ dphase.write THEN dphase.data ELSE w

-------------------------------------------------------------------------------
Init == /\ fsm_st = "IDLE"
        /\ be_saved = {}
        /\ haddr_saved \in Addr
        /\ hrdata_saved \in Word
        /\ rdata_mem = FALSE
        /\ lock = FALSE
        /\ rdata_i \in Word
        /\ dphase = None
        /\ expected = rdata_i
        /\ done = << >>

\* HREADY high: the open data phase ends, the address phase of t is accepted.
Accept(t) == /\ hreadyout_o
             /\ SlaveClock(TRUE, t.write, t.addr, t.size, TRUE)
             /\ rdata_i' \in Word
             /\ dphase' = t
             /\ expected' = IF t.write THEN expected ELSE rdata_i'
             /\ \E w \in Word : done' = Requested(~t.write, t.addr, t.size, WriteData(w))

\* HREADY high and no address for this slave.
Finish == /\ hreadyout_o
          /\ \E a \in Addr : SlaveClock(FALSE, FALSE, a, "WORD", TRUE)
          /\ rdata_i' \in Word
          /\ dphase' = None
          /\ done' = << >>
          /\ UNCHANGED expected

\* HREADY low, from this slave or another.
Stretch == /\ \E a \in Addr, w \in Word :
                /\ SlaveClock(FALSE, FALSE, a, "WORD", FALSE)
                /\ done' = done \o Requested(FALSE, a, "WORD", WriteData(w))
           /\ rdata_i' \in Word
           /\ UNCHANGED <<dphase, expected>>

Next == (\E t \in Transfer : Accept(t)) \/ Finish \/ Stretch

Spec == Init /\ [][Next]_vars
-------------------------------------------------------------------------------
Access == [write : {TRUE}, addr : Addr, be : SUBSET Lane, data : Word]
            \cup [write : {FALSE}, addr : Addr, be : SUBSET Lane]

\* Types of all state; the debug module never sees a transfer twice.
TypeOK == /\ fsm_st \in {"IDLE", "WAIT_REQ", "NEW_REQ", "WRITE_REQ"}
          /\ be_saved \in SUBSET Lane
          /\ haddr_saved \in Addr
          /\ {hrdata_saved, rdata_i, expected} \subseteq Word
          /\ {rdata_mem, lock} \subseteq BOOLEAN
          /\ dphase \in Transfer \cup {None}
          /\ done \in {<< >>} \cup {<<a>> : a \in Access}

\* The access a transfer asks for.
AccessOf(t) == IF t.write THEN [write |-> TRUE, addr |-> t.addr, be |-> be(t.size), data |-> t.data]
               ELSE [write |-> FALSE, addr |-> t.addr, be |-> be(t.size)]

\* Once the slave is ready, the debug module has seen the transfer in its data
\* phase exactly once, with its own address and data, whatever the bus lines
\* carry meanwhile; without a transfer it has seen nothing.
SeenOnce == hreadyout_o => done = IF dphase = None THEN << >> ELSE <<AccessOf(dphase)>>

\* The answer to a read is on the bus in every cycle of its data phase, for as
\* long as it is stretched, although the debug module holds it for one cycle.
ReadDataHeld == dphase # None /\ ~dphase.write => hreadyout_o /\ hrdata_o = expected
===============================================================================
