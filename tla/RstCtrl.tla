------------------------------- MODULE RstCtrl -------------------------------
(***************************************************************************)
(* ips/utils/rst_ctrl_unit.sv: the APB register that holds the address the *)
(* core boots from.  It latches PWDATA when its three-state machine raises *)
(* req and want_write is set; neither looks at PENABLE.  The APB bridge    *)
(* and multiplexer are submodules without source here: the bus variables   *)
(* follow the APB protocol, with one set-up cycle, one access cycle for    *)
(* this slave (PREADY is tied to 1) and any number for the others.         *)
(***************************************************************************)
EXTENDS Integers

CONSTANTS
  Address,             \* boot addresses and other data on the bus
  DEFAULT_BOOT_ADDR

ASSUME RstAssumption == DEFAULT_BOOT_ADDR \in Address

VARIABLES
  fsm_st, want_write, rst_addr,   \* the registers of the unit
  phase,      \* APB phase of the current cycle
  unit,       \* the transfer addresses this unit: PSEL outside "idle"
  PWRITE, PWDATA,
  requested,  \* the value last written to the register: what software asked for
  exposed     \* since then the register was read, or a transfer followed at once

bus == <<phase, unit, PWRITE, PWDATA>>
history == <<requested, exposed>>
vars == <<fsm_st, want_write, rst_addr, bus, history>>

PSEL == unit /\ phase # "idle"

next_st == IF ~PSEL THEN "IDLE"
           ELSE IF fsm_st = "WAIT_REQ" THEN "NEW_REQ" ELSE "WAIT_REQ"

\* Mutation: want_write alone enables the register.
req_any == TRUE

\* High in every cycle outside IDLE, and in the set-up cycle of a read.
req == fsm_st # "IDLE" \/ (PSEL /\ ~PWRITE)

\* want_write is not cleared by the end of the write, only by a read.
UnitClock ==
  /\ fsm_st' = next_st
  /\ want_write' = IF PSEL THEN PWRITE ELSE want_write
  /\ rst_addr' = IF req /\ want_write THEN PWDATA ELSE rst_addr

\* Mutation: rst_addr has no reset value.
Init_no_default == /\ fsm_st = "IDLE"
                   /\ want_write = FALSE
                   /\ rst_addr = "x"
                   /\ phase = "idle"
                   /\ unit = FALSE
                   /\ PWRITE = FALSE
                   /\ PWDATA = DEFAULT_BOOT_ADDR
                   /\ requested = DEFAULT_BOOT_ADDR
                   /\ exposed = FALSE

Init == /\ fsm_st = "IDLE"
        /\ want_write = FALSE
        /\ rst_addr = DEFAULT_BOOT_ADDR
        /\ phase = "idle"
        /\ unit = FALSE
        /\ PWRITE = FALSE
        /\ PWDATA = DEFAULT_BOOT_ADDR
        /\ requested = DEFAULT_BOOT_ADDR
        /\ exposed = FALSE

\* The bridge starts a transfer: the next cycle is its set-up cycle.  A read
\* leaves PWDATA as it is.
SetUp == /\ phase' = "setup"
         /\ unit' \in BOOLEAN
         /\ PWRITE' \in BOOLEAN
         /\ IF PWRITE' THEN PWDATA' \in Address ELSE PWDATA' = PWDATA

StartsRead == phase' = "setup" /\ unit' /\ ~PWRITE'

\* No transfer in the next cycle; the bridge holds its last data.
GoIdle == phase' = "idle" /\ UNCHANGED <<unit, PWRITE, PWDATA>>

Idle == /\ phase = "idle"
        /\ SetUp \/ GoIdle
        /\ UnitClock
        /\ exposed' = (exposed \/ StartsRead)
        /\ UNCHANGED requested

Enable == /\ phase = "setup"
          /\ phase' = "access"
          /\ UNCHANGED <<unit, PWRITE, PWDATA>>
          /\ UnitClock
          /\ UNCHANGED history

\* Another slave holds PREADY low.
WaitState == /\ phase = "access"
             /\ ~unit
             /\ UNCHANGED bus
             /\ UnitClock
             /\ UNCHANGED history

\* The last cycle of a write to the unit.
CompleteWrite == /\ phase = "access" /\ unit /\ PWRITE
                 /\ SetUp \/ GoIdle
                 /\ UnitClock
                 /\ requested' = PWDATA
                 /\ exposed' = (phase' = "setup")

\* The last cycle of another transfer.
CompleteOther == /\ phase = "access" /\ ~(unit /\ PWRITE)
                 /\ SetUp \/ GoIdle
                 /\ UnitClock
                 /\ exposed' = (exposed \/ StartsRead)
                 /\ UNCHANGED requested

Next == Idle \/ Enable \/ WaitState \/ CompleteWrite \/ CompleteOther

Spec == Init /\ [][Next]_vars
-------------------------------------------------------------------------------
\* Types of all state.
TypeOK == /\ fsm_st \in {"IDLE", "WAIT_REQ", "NEW_REQ"}
          /\ want_write \in BOOLEAN
          /\ rst_addr \in Address
          /\ phase \in {"idle", "setup", "access"}
          /\ unit \in BOOLEAN
          /\ PWRITE \in BOOLEAN
          /\ PWDATA \in Address
          /\ requested \in Address
          /\ exposed \in BOOLEAN

\* As long as the register is not read, and unless another transfer follows
\* the write without an idle cycle, the core boots from the address software
\* last wrote: the stale want_write and the cycles in which req stays high let
\* no other data in, whatever else goes over the bus.
BootsWhereTold == ~exposed => rst_addr = requested

\* A read of the register, by software or by the debugger, leaves it alone.
ReadKeepsBootAddress == [][PSEL /\ ~PWRITE => rst_addr' = rst_addr]_vars
===============================================================================
