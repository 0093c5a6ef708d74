----------------------------- MODULE RemoteBitbang -----------------------------
(***************************************************************************)
(* What OpenOCD expects of a remote bitbang server: the commands it sends  *)
(* are taken in order, each has taken effect on the TAP before the next    *)
(* one is looked at, whatever the clock of the chip does meanwhile, and a  *)
(* read answers with TDO as the commands before it have left it.           *)
(***************************************************************************)
EXTENDS Integers, Sequences

CONSTANTS Command,
          Clocked(_, _)   \* the TAP after the pins have been applied to it

VARIABLES sock, pins, tap, replies

bvars == <<sock, pins, tap, replies>>

BInit == /\ sock = << >>
         /\ pins = [tck |-> 0, tms |-> 0, tdi |-> 0, trstn |-> 0]
         /\ tap = [tck |-> 0, shift |-> <<0, 0>>, tdo |-> 0]
         /\ replies = << >>

\* The simulator releases the TAP's reset.
Release == /\ pins' = [pins EXCEPT !.trstn = 1]
           /\ tap' = Clocked(tap, pins')
           /\ UNCHANGED <<sock, replies>>

Send(c) == /\ sock' = Append(sock, c)
           /\ UNCHANGED <<pins, tap, replies>>

Take(c) == /\ sock # << >>
           /\ c = Head(sock)
           /\ sock' = Tail(sock)

Write(c) == /\ Take(c) /\ c.op = "write"
            /\ pins' = [tck |-> c.tck, tms |-> c.tms, tdi |-> c.tdi, trstn |-> pins.trstn]
            /\ tap' = Clocked(tap, pins')
            /\ UNCHANGED replies

Reset(c) == /\ Take(c) /\ c.op = "reset"
            /\ pins' = [pins EXCEPT !.trstn = IF c.trst = 1 THEN 0 ELSE 1]
            /\ tap' = Clocked(tap, pins')
            /\ UNCHANGED replies

\* The answer may be lost with the server, never wrong.
Read(c) == /\ Take(c) /\ c.op = "read"
           /\ replies' \in {replies, Append(replies, tap.tdo)}
           /\ UNCHANGED <<pins, tap>>

Other(c) == /\ Take(c) /\ c.op \in {"ignored", "quit"}
            /\ UNCHANGED <<pins, tap, replies>>

BNext == \/ Release
         \/ \E c \in Command : Send(c) \/ Write(c) \/ Reset(c) \/ Read(c) \/ Other(c)

BSpec == BInit /\ [][BNext]_bvars
===============================================================================
