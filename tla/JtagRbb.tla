-------------------------------- MODULE JtagRbb --------------------------------
(***************************************************************************)
(* tb/cpp/jtag_rbb.cpp: the remote bitbang server.  OpenOCD writes one     *)
(* character per command into a socket; read_cmd takes at most one from it *)
(* per call, without blocking, and sets the JTAG pins of the simulated SoC *)
(* or answers with TDO.  The pins reach the SoC only when the testbench    *)
(* evaluates it, which read_cmd does not do.                               *)
(*                                                                         *)
(* The TAP behind the pins is a submodule without source here: a one-bit   *)
(* register that samples TDI (and TMS) on the rising edge of TCK and shows *)
(* it on TDO after the falling edge, enough to tell a missed, merged or    *)
(* repeated edge from a right one.                                         *)
(***************************************************************************)
EXTENDS Integers, Sequences

VARIABLES sock,      \* commands sent by OpenOCD and not read yet
          pins,      \* jtag_tck, jtag_tms, jtag_tdi and jtag_trstn of the model
          tap,       \* the TAP: TCK as last evaluated, shift register, TDO
          replies    \* TDO values written back to the socket

jtagVars == <<sock, pins, tap, replies>>

Bit == {0, 1}

\* The characters of the protocol, decoded: '0'..'7', 'r' 's' 't' 'u', 'R',
\* 'B' 'b' and anything unknown, 'Q'.
Command == [op : {"write"}, tck : Bit, tms : Bit, tdi : Bit]
             \cup [op : {"reset"}, trst : Bit, srst : Bit]
             \cup [op : {"read", "ignored", "quit"}]

\* The TAP after an evaluation with pins p.
Evaluated(t, p) ==
  IF p.trstn = 0 THEN [tck |-> p.tck, shift |-> <<0, 0>>, tdo |-> 0]
  ELSE [tck   |-> p.tck,
        shift |-> IF p.tck = 1 /\ t.tck = 0 THEN <<p.tms, p.tdi>> ELSE t.shift,
        tdo   |-> IF p.tck = 0 /\ t.tck = 1 THEN t.shift[2] ELSE t.tdo]

JtagInit == /\ sock = << >>
            /\ pins = [tck |-> 0, tms |-> 0, tdi |-> 0, trstn |-> 0]
            /\ tap = [tck |-> 0, shift |-> <<0, 0>>, tdo |-> 0]
            /\ replies = << >>

\* Mutation: TMS and TDI change places.
set_pins_swapped(c) == [pins EXCEPT !.tck = c.tck, !.tms = c.tdi, !.tdi = c.tms]

set_pins(c) == [pins EXCEPT !.tck = c.tck, !.tms = c.tms, !.tdi = c.tdi]

\* SRST drives a variable of main() and no pin of the model.
reset(c) == [pins EXCEPT !.trstn = 1 - c.trst]

Driven(c) == IF c.op = "write" THEN set_pins(c)
             ELSE IF c.op = "reset" THEN reset(c) ELSE pins

\* A call of read_cmd(false) that finds command c and does not end the process.
read_cmd(c) == /\ sock # << >> /\ c = Head(sock)
               /\ c.op # "quit"
               /\ sock' = Tail(sock)
               /\ pins' = Driven(c)
               /\ replies' = IF c.op = "read" THEN Append(replies, tap.tdo) ELSE replies
               /\ UNCHANGED tap

\* A call that finds none: OpenOCD has sent nothing, or has disconnected.
NoCommand == sock = << >> /\ UNCHANGED jtagVars

\* A call that ends the process: 'Q', or a reply that cannot be written.
GiveUp == /\ sock # << >>
          /\ Head(sock).op \in {"quit", "read"}
          /\ sock' = Tail(sock)
          /\ UNCHANGED <<pins, tap, replies>>
===============================================================================
