--------------------------------- MODULE Fifo ---------------------------------
(***************************************************************************)
(* ips/utils/io_generic_fifo.sv: the valid/ready FIFO in front of the UART *)
(* transmitter.  Three clocked processes share the inputs: the element     *)
(* counter, the buffer and the two pointers.  A step is one clock cycle.   *)
(***************************************************************************)
EXTENDS Integers, Sequences

CONSTANTS Depth,      \* BUFFER_DEPTH
          Data,       \* the words carried
          Zero        \* the reset value of the buffer

ASSUME FifoAssumption == Depth \in Nat \ {0} /\ Zero \in Data

VARIABLES elements, pointer_in, pointer_out, buffer

vars == <<elements, pointer_in, pointer_out, buffer>>

Slot == 0..Depth - 1

full == elements = Depth
valid_o == elements # 0
ready_o == ~full
data_o == buffer[pointer_out]

Init == /\ elements = 0
        /\ pointer_in = 0
        /\ pointer_out = 0
        /\ buffer = [i \in Slot |-> Zero]

\* A pointer wraps at the last slot: Depth need not be a power of two.
Advanced(pointer) == IF pointer = Depth - 1 THEN 0 ELSE pointer + 1

\* Mutation: the counter counts writes that a full buffer refuses.
elements_uncapped(clr_i, valid_i, ready_i) ==
  elements' = IF clr_i THEN 0
              ELSE IF ready_i /\ valid_o /\ ~valid_i THEN elements - 1
              ELSE IF (~valid_o \/ ~ready_i) /\ valid_i THEN elements + 1
              ELSE elements

elements_sequential(clr_i, valid_i, ready_i) ==
  elements' = IF clr_i THEN 0
              ELSE IF ready_i /\ valid_o /\ (~valid_i \/ full) THEN elements - 1
              ELSE IF (~valid_o \/ ~ready_i) /\ valid_i /\ ~full THEN elements + 1
              ELSE elements

\* Mutation: a full buffer is written.
buffers_overwrite(valid_i, data_i) ==
  buffer' = IF valid_i THEN [buffer EXCEPT ![pointer_in] = data_i] ELSE buffer

\* The buffer is written in a cycle of clr_i too: the item is lost with the
\* pointers, not with the write.
buffers_sequential(valid_i, data_i) ==
  buffer' = IF valid_i /\ ready_o THEN [buffer EXCEPT ![pointer_in] = data_i]
                                  ELSE buffer

\* Mutation: clear forgets the read pointer.
pointers_half_clear(clr_i, valid_i, ready_i) ==
  /\ pointer_in' = IF clr_i THEN 0
                   ELSE IF valid_i /\ ready_o THEN Advanced(pointer_in)
                   ELSE pointer_in
  /\ pointer_out' = IF ready_i /\ valid_o THEN Advanced(pointer_out)
                    ELSE pointer_out

pointers_sequential(clr_i, valid_i, ready_i) ==
  /\ pointer_in' = IF clr_i THEN 0
                   ELSE IF valid_i /\ ready_o THEN Advanced(pointer_in)
                   ELSE pointer_in
  /\ pointer_out' = IF clr_i THEN 0
                    ELSE IF ready_i /\ valid_o THEN Advanced(pointer_out)
                    ELSE pointer_out

Clock(clr_i, valid_i, data_i, ready_i) ==
  /\ elements_sequential(clr_i, valid_i, ready_i)
  /\ buffers_sequential(valid_i, data_i)
  /\ pointers_sequential(clr_i, valid_i, ready_i)

Next == \E clr_i, valid_i, ready_i \in BOOLEAN, data_i \in Data :
          Clock(clr_i, valid_i, data_i, ready_i)

Spec == Init /\ [][Next]_vars
-------------------------------------------------------------------------------
\* Types of all state.
TypeOK == /\ elements \in 0..Depth
          /\ pointer_in \in Slot
          /\ pointer_out \in Slot
          /\ buffer \in [Slot -> Data]

\* The slot that lies n behind the read pointer.
SlotAfter(n) ==
  IF pointer_out + n >= Depth THEN pointer_out + n - Depth ELSE pointer_out + n

\* The counter and the two pointers, kept by different processes, agree: the
\* write pointer is the number of elements behind the read pointer, so a full
\* and an empty FIFO, whose pointers coincide, differ by the counter alone.
PointersAgree == pointer_in = IF elements = Depth THEN pointer_out ELSE SlotAfter(elements)

\* The items held, oldest first.
Contents == [i \in 1..elements |-> buffer[SlotAfter(i - 1)]]

Queue == INSTANCE BoundedQueue WITH Capacity <- Depth, queue <- Contents

\* The FIFO is a bounded queue: in every cycle, whatever combination of
\* clear, write and read, it takes and delivers items in order, each once.
ImplementsQueue == Queue!QSpec
===============================================================================
