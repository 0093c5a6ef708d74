------------------------------ MODULE Ri5cyToAhb ------------------------------
(***************************************************************************)
(* ips/utils/ri5cy_to_ahb.sv: the converter between the core's memory      *)
(* port (req/gnt, then rvalid) and an AHB-Lite master port (an address     *)
(* phase, then a data phase that the slave may stretch).  The module has   *)
(* two registers, fsm_st and hwdata_tmp; every output is combinational     *)
(* and is an operator here.  A byte enable is the set of its byte lanes,   *)
(* a word a function from lanes to byte values.                            *)
(***************************************************************************)
EXTENDS Integers

CONSTANTS Byte,      \* values of a byte
          ZeroByte   \* the byte 8'h00

ASSUME ByteAssumption == ZeroByte \in Byte

VARIABLES fsm_st, hwdata_tmp

Lane == 0..3
Word == [Lane -> Byte]
ZeroWord == [l \in Lane |-> ZeroByte]

\* Mutation: the lanes that are not enabled are left undriven.
hwmask_undriven(be, wdata) == [l \in be |-> wdata[l]]

\* hwmask: the write data with the lanes that are not enabled forced to 0.
hwmask(be, wdata) == [l \in Lane |-> IF l \in be THEN wdata[l] ELSE ZeroByte]

\* Some converter state in which the data phase of a granted request is open.
Busy == fsm_st \in {"WAIT_REQ", "NEW_REQ"}

\* gnt_o, hsel_o and htrans_o = NONSEQ all follow req_i alone.
gnt_o(req_i) == req_i

\* Mutation: rvalid without looking at the slave.
rvalid_o_early(hreadyout_i) == Busy

\* rvalid_o: the data phase ends in this cycle.
rvalid_o(hreadyout_i) == Busy /\ hreadyout_i

\* Mutation: no halfword case.
hsize_no_half(be) == IF be \in {{0, 1, 2, 3}, {1, 2, 3}} THEN 4 ELSE 1

\* Mutation: every transfer is a word.
hsize_word(be) == 4

\* hsize_o as a number of bytes.
hsize(be) == IF be \in {{0, 1, 2, 3}, {1, 2, 3}} THEN 4
             ELSE IF be \in {{0, 1}, {1, 2}, {2, 3}} THEN 2 ELSE 1

\* Mutation: no state for back-to-back requests.
next_st_single(req_i, hreadyout_i) ==
  IF ~hreadyout_i THEN fsm_st
  ELSE IF req_i /\ fsm_st = "IDLE" THEN "WAIT_REQ" ELSE "IDLE"

\* The three states answer alike: hold while the slave is not ready, then
\* follow req_i.  NEW_REQ tells a back-to-back request from the one before.
next_st(req_i, hreadyout_i) ==
  IF ~hreadyout_i THEN fsm_st
  ELSE IF ~req_i THEN "IDLE"
  ELSE IF fsm_st = "WAIT_REQ" THEN "NEW_REQ" ELSE "WAIT_REQ"

BridgeInit == fsm_st = "IDLE" /\ hwdata_tmp = ZeroWord

\* Mutation: write data latched for the first request of a burst only.
BridgeClock_first_only(req_i, be, wdata, hreadyout_i) ==
  /\ fsm_st' = next_st(req_i, hreadyout_i)
  /\ hwdata_tmp' = IF req_i /\ hreadyout_i /\ ~Busy THEN hwmask(be, wdata)
                                                    ELSE hwdata_tmp

\* One clock edge out of reset.
BridgeClock(req_i, be, wdata, hreadyout_i) ==
  /\ fsm_st' = next_st(req_i, hreadyout_i)
  /\ hwdata_tmp' = IF req_i /\ hreadyout_i THEN hwmask(be, wdata)
                                           ELSE hwdata_tmp

\* Mutation: the data register is not reset.
BridgeReset_fsm_only == fsm_st' = "IDLE" /\ hwdata_tmp' = hwdata_tmp

\* One clock edge with rstn low.
BridgeReset == fsm_st' = "IDLE" /\ hwdata_tmp' = ZeroWord
===============================================================================
