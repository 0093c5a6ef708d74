--------------------------- MODULE RequestResponse ---------------------------
(***************************************************************************)
(* What the core expects of a memory port: one request at a time, each     *)
(* answered once; a store changes exactly its enabled bytes, and a load    *)
(* returns the word as the stores before it left it.  A request outside    *)
(* the memory map is answered and changes nothing.                         *)
(*                                                                         *)
(* The core alone can be reset (ndmreset).  A store in flight at that      *)
(* moment is either already done or becomes the orphan: a store nobody     *)
(* waits for, that will clear its bytes instead of writing them.           *)
(***************************************************************************)
EXTENDS Integers

CONSTANTS Addr, ZeroByte, Request, None,
          Mapped        \* the addresses that have a slave

VARIABLES outstanding,  \* the request to be answered, or None
          orphan,       \* the transfer cut off by a reset, or None
          mem,          \* mem[a]: the word at a
          rdata         \* the data of the last answer, None if unspecified

avars == <<outstanding, orphan, mem, rdata>>

Lane == 0..3

\* The memory after the lanes of one word have been overwritten.
Overwrite(a, lanes, w) ==
  [mem EXCEPT ![a] = [l \in Lane |-> IF l \in lanes THEN w[l] ELSE mem[a][l]]]

Stored(r) ==
  IF r.we /\ r.addr \in Mapped THEN Overwrite(r.addr, r.be, r.wdata) ELSE mem

Cleared(t) ==
  IF t.we THEN Overwrite(t.addr, t.lanes, [l \in Lane |-> ZeroByte]) ELSE mem

AInit == /\ outstanding = None
         /\ orphan = None
         /\ mem = [a \in Addr |-> [l \in Lane |-> ZeroByte]]
         /\ rdata = None

\* The orphan waits on, or completes.
Settle == \/ UNCHANGED <<orphan, mem>>
          \/ /\ orphan # None
             /\ orphan' = None
             /\ mem' = Cleared(orphan)

\* The core puts a request on an idle port (or, with next = None, does not).
Issue(next) == /\ outstanding = None
               /\ outstanding' = next
               /\ Settle
               /\ UNCHANGED rdata

\* The request is answered; the core may issue the next in the same cycle.
Answer(next) ==
  /\ outstanding # None
  /\ orphan = None
  /\ mem' = Stored(outstanding)
  /\ rdata' = IF outstanding.addr \in Mapped /\ ~outstanding.we
                THEN mem[outstanding.addr] ELSE None
  /\ outstanding' = next
  /\ UNCHANGED orphan

\* The port makes no progress for the core.
Wait == outstanding # None /\ Settle /\ UNCHANGED <<outstanding, rdata>>

\* The core is reset, and the request in flight is forgotten by it.
CoreReset ==
  /\ outstanding' = None
  /\ UNCHANGED rdata
  /\ \/ Settle
     \/ /\ outstanding # None
        /\ orphan = None
        /\ outstanding.addr \in Mapped
        /\ orphan' = [addr  |-> outstanding.addr,
                      we    |-> outstanding.we,
                      lanes |-> outstanding.be]
        /\ UNCHANGED mem
     \/ /\ outstanding # None
        /\ orphan = None
        /\ mem' = Stored(outstanding)
        /\ UNCHANGED orphan

ANext == \/ \E next \in Request \cup {None} : Issue(next) \/ Answer(next)
         \/ Wait
         \/ CoreReset

ASpec == AInit /\ [][ANext]_avars
===============================================================================
