------------------------------ MODULE Testbench ------------------------------
(***************************************************************************)
(* main of tb/cpp/testbench.cpp: resets the Verilator model, boots it from *)
(* an ELF file or hands it to OpenOCD, then alternates one remote bitbang  *)
(* command with one clock tick for ever.  The SoC itself appears as the    *)
(* state main touches: the TAP, the RAMs, the boot address and the fetch   *)
(* enable.                                                                 *)
(***************************************************************************)
EXTENDS JtagRbb, ElfLoader

CONSTANTS
  Sent,          \* the commands OpenOCD may send
  MaxCommands,   \* bound: commands sent in a behaviour
  MaxPending     \* bound: commands sent ahead of the testbench

ASSUME TestbenchAssumption == /\ Sent \subseteq Command
                              /\ {MaxCommands, MaxPending} \subseteq Nat

VARIABLES
  JTAG_BOOT,        \* the build option; never changes
  pc,               \* the statement of main about to run
  fetch_enable_i,   \* input of the model: the core may run
  count             \* commands sent so far

vars == <<jtagVars, loaderVars, JTAG_BOOT, pc, fetch_enable_i, count>>

-------------------------------------------------------------------------------
Init == /\ JtagInit
        /\ LoaderInit
        /\ JTAG_BOOT \in BOOLEAN
        /\ pc = "socket"
        /\ fetch_enable_i = FALSE
        /\ count = 0

\* new jtag_rbb, whatever JTAG_BOOT says: the server listens, or one of the
\* socket calls fails and the process ends.
jtag_rbb == /\ pc = "socket"
            /\ pc' \in {"reset", "exited"}
            /\ UNCHANGED <<jtagVars, loaderVars, JTAG_BOOT, fetch_enable_i, count>>

\* tick(): the model is evaluated, with the pins as they are at that moment.
tick == tap' = Evaluated(tap, pins')

\* The ticks of reset_n(1): one with the resets low, one with them released.
ResetTick == /\ pc = "reset"
             /\ pins' = [pins EXCEPT !.trstn = 0]
             /\ tick
             /\ pc' = "release"
             /\ UNCHANGED <<sock, replies, loaderVars, JTAG_BOOT, fetch_enable_i, count>>

ReleaseTick == /\ pc = "release"
               /\ pins' = [pins EXCEPT !.trstn = 1]
               /\ tick
               /\ pc' = "boot"
               /\ UNCHANGED <<sock, replies, loaderVars, JTAG_BOOT, fetch_enable_i, count>>

\* accept_client() returns once OpenOCD has connected, which it has when it
\* has sent something, or ends the process; the core then starts in the boot
\* ROM.
accept_client ==
  /\ pc = "boot" /\ JTAG_BOOT
  /\ \/ /\ count > 0
        /\ rst_addr' = "rom"
        /\ fetch_enable_i' = TRUE
        /\ pc' = "cmd"
     \/ pc' = "exited" /\ UNCHANGED <<rst_addr, fetch_enable_i>>
  /\ UNCHANGED <<jtagVars, program, loader, i, p, ram, JTAG_BOOT, count>>

\* A step of loadELF; main exits when it returns false.
loadELF == /\ pc = "boot" /\ ~JTAG_BOOT
           /\ LoaderStep
           /\ pc' = CASE loader' = "failed" -> "exited"
                      [] loader' = "done" -> "tick"
                      [] OTHER -> "boot"
           /\ fetch_enable_i' = (loader' = "done")
           /\ UNCHANGED <<jtagVars, JTAG_BOOT, count>>

\* Mutation: commands are drained before the model is clocked.
Cmd_drained ==
  /\ pc = "cmd"
  /\ \/ NoCommand /\ pc' = "tick"
     \/ (\E c \in Sent : read_cmd(c)) /\ pc' = IF sock' = << >> THEN "tick" ELSE "cmd"
     \/ GiveUp /\ pc' = "exited"
  /\ UNCHANGED <<loaderVars, JTAG_BOOT, fetch_enable_i, count>>

\* The loop: a command, if there is one, then a tick.
Cmd == /\ pc = "cmd"
       /\ \/ (NoCommand \/ \E c \in Sent : read_cmd(c)) /\ pc' = "tick"
          \/ GiveUp /\ pc' = "exited"
       /\ UNCHANGED <<loaderVars, JTAG_BOOT, fetch_enable_i, count>>

\* Mutation: read_cmd only before the loop.
Tick_forever == /\ pc = "tick"
                /\ UNCHANGED pins
                /\ tick
                /\ UNCHANGED <<sock, replies, loaderVars, JTAG_BOOT, pc, fetch_enable_i, count>>

Tick == /\ pc = "tick"
        /\ UNCHANGED pins
        /\ tick
        /\ pc' = IF JTAG_BOOT THEN "cmd" ELSE "tick"
        /\ UNCHANGED <<sock, replies, loaderVars, JTAG_BOOT, fetch_enable_i, count>>

\* OpenOCD, in another process, sends a command at any moment at which there
\* is a server.
Send(c) == /\ JTAG_BOOT /\ pc \notin {"socket", "exited"}
           /\ count < MaxCommands /\ Len(sock) < MaxPending
           /\ sock' = Append(sock, c)
           /\ count' = count + 1
           /\ UNCHANGED <<pins, tap, replies, loaderVars, JTAG_BOOT, pc, fetch_enable_i>>

main == jtag_rbb \/ ResetTick \/ ReleaseTick \/ accept_client \/ loadELF \/ Cmd \/ Tick

Next == main \/ \E c \in Sent : Send(c)

\* The testbench is a process of its own: main never blocks once OpenOCD is
\* connected.
Spec == Init /\ [][Next]_vars /\ WF_vars(main)
-------------------------------------------------------------------------------
\* Types of all state.
TypeOK == /\ sock \in Seq(Sent) /\ Len(sock) <= MaxPending
          /\ pins \in [tck : Bit, tms : Bit, tdi : Bit, trstn : Bit]
          /\ tap \in [tck : Bit, shift : Bit \X Bit, tdo : Bit]
          /\ replies \in Seq(Bit)
          /\ program \in Programs
          /\ loader \in {"header", "segment", "copy", "done", "failed"}
          /\ i \in 0..Len(Segments)
          /\ p \in 0..RamBytes
          /\ DOMAIN ram = Space /\ \A s \in Space : DOMAIN ram[s] = 0..RamBytes - 1
          /\ JTAG_BOOT \in BOOLEAN
          /\ pc \in {"socket", "reset", "release", "boot", "cmd", "tick", "exited"}
          /\ fetch_enable_i \in BOOLEAN
          /\ count \in 0..MaxCommands

\* The core of an ELF boot is let run only with every segment of the program
\* in memory as the ELF rule quoted in loadELF has it, zeroes included, and
\* with its entry point as the boot address: a file that fails half way
\* through starts nothing.
StartsFromImage ==
  fetch_enable_i /\ ~JTAG_BOOT =>
    /\ \A k \in DOMAIN Segments : Loaded(Segments[k])
    /\ rst_addr = program.entry

\* Every command OpenOCD sends is taken, unless the testbench exits.
CommandsServed == (sock # << >>) ~> (sock = << >> \/ pc = "exited")

\* Reading a command without clocking the model behaves as if it had taken
\* effect at once: no edge of TCK is missed, merged or repeated, and a read
\* answers with the TDO the commands before it have produced.
Bitbang == INSTANCE RemoteBitbang WITH
  Command <- Sent, Clocked <- Evaluated, tap <- Evaluated(tap, pins)

ImplementsBitbang == Bitbang!BSpec
===============================================================================
