------------------------------ MODULE MasterPort ------------------------------
(***************************************************************************)
(* One master port of the SoC: the converter of ri5cy_to_ahb.sv with what  *)
(* ri5cy_ahb_wrapper.sv and riscv_soc.sv put around it.                    *)
(*                                                                         *)
(*   core --req/we/be/addr/wdata--> converter --> filter_oor --> AHB       *)
(*                                                                         *)
(* The RI5CY core and the AHB interconnect with its slaves are submodules  *)
(* without source in this repository; they are modelled from the way the   *)
(* converter and the wrapper use them.  A step is one clock cycle.         *)
(***************************************************************************)
EXTENDS Ri5cyToAhb, AddressMap

CONSTANTS
  Addr,                \* word addresses the core uses
  Request,             \* the requests the core may make
  None,                \* no request, no transfer, no data
  Filtered,            \* a filter_oor gates HSEL (instruction and data ports)
  Resettable,          \* the debug module's ndmreset resets this port's core
  DrainBeforeRelease   \* ndmreset outlasts a transfer left on the bus

VARIABLES
  outstanding,   \* core: the request it is waiting on, or None
  rdata,         \* core: data of the last answer, None when unspecified
  dphase,        \* bus: the transfer in its data phase, or None
  mem            \* slaves: the word stored at each address

vars == <<fsm_st, hwdata_tmp, outstanding, rdata, dphase, mem>>

\* The byte enables the core's load/store unit produces.
ByteEnable == {{0}, {1}, {2}, {3}, {0, 1}, {1, 2}, {2, 3},
               {1, 2, 3}, {0, 1, 2}, {0, 1, 2, 3}}

ASSUME PortAssumption ==
  /\ Addr \subseteq Nat
  /\ Request \subseteq [addr : Addr, we : BOOLEAN, be : ByteEnable, wdata : Word]
  /\ None \notin [addr : Addr, we : BOOLEAN, be : ByteEnable, wdata : Word]
  /\ None \notin [addr : Addr, we : BOOLEAN, lanes : SUBSET Lane]
  /\ None \notin Word
  /\ {Filtered, Resettable, DrainBeforeRelease} \subseteq BOOLEAN

Mapped == {a \in Addr : InRange(a)}

\* The low bits of haddr_o: the core's address points at the first lane.
Offset(be) == CHOOSE l \in be : \A k \in be : l <= k

\* What an AHB slave writes, given hsize and the low bits of haddr.
Lanes(size, offset) == {l \in Lane : l >= offset /\ l < offset + size}

WrittenLanes(r) == Lanes(hsize(r.be), Offset(r.be))

\* The converter's encoding names the enabled lanes and no others.
LaneExact(r) == WrittenLanes(r) = r.be

Transfer(r) == [addr |-> r.addr, we |-> r.we, lanes |-> WrittenLanes(r)]

\* hsel seen by the interconnect: through filter_oor, or straight from hsel_o
\* (ahb_master[2], the system bus access port of the debug module).
hsel(r) == IF Filtered THEN valid_o(gnt_o(TRUE), r.addr) ELSE gnt_o(TRUE)

Overwrite(a, lanes, w) ==
  [mem EXCEPT ![a] = [l \in Lane |-> IF l \in lanes THEN w[l] ELSE mem[a][l]]]

\* A transfer nobody waits for: its core was reset during the data phase.
Orphaned == dphase # None /\ fsm_st = "IDLE"

-------------------------------------------------------------------------------
Init == /\ BridgeInit
        /\ outstanding = None
        /\ rdata = None
        /\ dphase = None
        /\ mem = [a \in Addr |-> ZeroWord]

CoreRunning == DrainBeforeRelease => ~Orphaned

\* The end of the data phase: the slave takes hwdata_o.
DataPhaseEnds ==
  mem' = IF dphase # None /\ dphase.we
           THEN Overwrite(dphase.addr, dphase.lanes, hwdata_tmp) ELSE mem

\* The interconnect raises HREADYOUT when no data phase is open, and when
\* the slave of the open one is ready; an address without a slave never is.
MayBeReady == dphase # None => dphase.addr \in Mapped

\* The core issues a request only when it waits for none, or in the cycle in
\* which it gets the answer.
MayIssue(hreadyout) == outstanding # None => rvalid_o(hreadyout)

\* A cycle in which the slave, or arbitration, inserts a wait state.
Stall(req) ==
  /\ CoreRunning
  /\ dphase # None
  /\ req # None => MayIssue(FALSE)
  /\ IF req = None THEN BridgeClock(FALSE, {}, ZeroWord, FALSE)
                   ELSE BridgeClock(gnt_o(TRUE), req.be, req.wdata, FALSE)
  /\ outstanding' = IF req = None THEN outstanding ELSE req
  /\ UNCHANGED <<rdata, dphase, mem>>

\* A cycle with hreadyout high: the open data phase ends and the address
\* phase of req, if there is one, is accepted.
Advance(req) ==
  /\ CoreRunning
  /\ MayBeReady
  /\ req # None => MayIssue(TRUE)
  /\ IF req = None THEN BridgeClock(FALSE, {}, ZeroWord, TRUE)
                   ELSE BridgeClock(gnt_o(TRUE), req.be, req.wdata, TRUE)
  /\ DataPhaseEnds
  /\ dphase' = IF req # None /\ hsel(req) THEN Transfer(req) ELSE None
  /\ outstanding' = IF req # None THEN req
                    ELSE IF rvalid_o(TRUE) THEN None ELSE outstanding
  /\ rdata' = IF rvalid_o(TRUE)
                THEN IF dphase # None /\ ~dphase.we THEN mem[dphase.addr] ELSE None
                ELSE rdata

\* A cycle with core_rstn low.  The interconnect and the slaves are on
\* reset_n only, so an open data phase goes on.
ResetCycle(hreadyout) ==
  /\ Resettable
  /\ hreadyout => MayBeReady
  /\ ~hreadyout => dphase # None
  /\ BridgeReset
  /\ outstanding' = None
  /\ IF hreadyout THEN DataPhaseEnds /\ dphase' = None
                  ELSE UNCHANGED <<mem, dphase>>
  /\ UNCHANGED rdata

Next == \/ \E req \in Request \cup {None} : Stall(req) \/ Advance(req)
        \/ \E hreadyout \in BOOLEAN : ResetCycle(hreadyout)

Spec == Init /\ [][Next]_vars

\* No slave inserts wait states for ever while the core waits for it.  The core
\* need not ask for anything, and the debugger need not reset it.
SlaveFairness == WF_vars(Busy /\ \E req \in Request \cup {None} : Advance(req))

FairSpec == Spec /\ SlaveFairness
-------------------------------------------------------------------------------
\* Types of all state.
TypeOK ==
  /\ fsm_st \in {"IDLE", "WAIT_REQ", "NEW_REQ"}
  /\ hwdata_tmp \in Word
  /\ outstanding \in Request \cup {None}
  /\ rdata \in Word \cup {None}
  /\ dphase \in [addr : Addr, we : BOOLEAN, lanes : SUBSET Lane] \cup {None}
  /\ mem \in [Addr -> Word]

\* rvalid_o is never raised to a core that waits for nothing, and (when a
\* reset outlasts the transfers it cuts off) a core that waits has a
\* converter that waits for it: the two-register converter never loses count
\* of the request although it grants whatever HREADY says.
FsmTracksCore ==
  /\ Busy => outstanding # None
  /\ DrainBeforeRelease /\ outstanding # None => Busy

\* The transfer in the data phase is the one the core waits for, and the
\* write data held in hwdata_tmp is that request's, for as long as the slave
\* stretches the phase; with no slave selected the phase is empty.
DataPhaseIsRequest ==
  Busy => /\ dphase = IF hsel(outstanding) THEN Transfer(outstanding) ELSE None
          /\ hwdata_tmp = hwmask(outstanding.be, outstanding.wdata)

\* The write data of a transfer cut off by ndmreset is gone: the converter's
\* reset clears hwdata_tmp under the open data phase.
OrphanDataCleared == Orphaned => hwdata_tmp = ZeroWord

\* An answer leaves memory exactly as the store it answers asks: every enabled
\* byte written, no other byte touched, nothing written by a load or by a
\* store outside the map.
StoreExact ==
  [][Busy /\ (\E req \in Request \cup {None} : Advance(req))
       => mem' = IF outstanding.we /\ outstanding.addr \in Mapped
                   THEN Overwrite(outstanding.addr, outstanding.be, outstanding.wdata)
                   ELSE mem]_vars

\* A byte of memory changes only to what the store in flight has in that lane,
\* enabled, or to zero in a store that ndmreset has cut off.
StoreConfined ==
  [][\A a \in Addr, l \in Lane : mem'[a][l] # mem[a][l] =>
       \/ /\ Busy /\ outstanding.we
          /\ a = outstanding.addr /\ l \in outstanding.be
          /\ mem'[a][l] = outstanding.wdata[l]
       \/ Orphaned /\ mem'[a][l] = ZeroByte]_vars

\* The request in flight is answered: the cycle with rvalid high.
Answered == rvalid_o(TRUE) /\ \E req \in Request \cup {None} : Advance(req)

\* A core is never left waiting for ever: either it waits for nothing again
\* and again, or it is answered again and again.
NeverHangs == []<>(outstanding = None) \/ []<><<Answered>>_vars

\* The port implements the memory the core expects.
Memory == INSTANCE RequestResponse WITH
  orphan <- IF Orphaned /\ dphase.addr \in Mapped THEN dphase ELSE None

ImplementsMemory == Memory!ASpec
===============================================================================
