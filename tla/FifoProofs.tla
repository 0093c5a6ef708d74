------------------------------ MODULE FifoProofs ------------------------------
(***************************************************************************)
(* io_generic_fifo is a bounded queue, for every depth and every data.     *)
(***************************************************************************)
EXTENDS Fifo, SequenceTheorems, TLAPS

\* The inductive invariant: the types, and the agreement of the counter with
\* the pointers.
IInv == TypeOK /\ PointersAgree

LEMMA InitIInv == Init => IInv
BY FifoAssumption DEF Init, IInv, TypeOK, PointersAgree, Slot, SlotAfter

LEMMA ClockIInv ==
  ASSUME IInv, NEW clr_i \in BOOLEAN, NEW valid_i \in BOOLEAN,
         NEW ready_i \in BOOLEAN, NEW data_i \in Data,
         Clock(clr_i, valid_i, data_i, ready_i)
  PROVE  IInv'
<1>1. TypeOK'
  BY FifoAssumption
  DEF IInv, TypeOK, PointersAgree, Clock, elements_sequential, buffers_sequential,
      pointers_sequential, Advanced, full, valid_o, ready_o, Slot
<1>2. PointersAgree'
  BY FifoAssumption
  DEF IInv, TypeOK, PointersAgree, Clock, elements_sequential,
      pointers_sequential, Advanced, full, valid_o, ready_o, Slot, SlotAfter
<1> QED BY <1>1, <1>2 DEF IInv

\* The counter and the pointers agree in every reachable state.
THEOREM Invariance == Spec => []IInv
<1>1. IInv /\ UNCHANGED vars => IInv'
  BY DEF vars, IInv, TypeOK, PointersAgree, SlotAfter, Slot
<1>2. IInv /\ [Next]_vars => IInv'
  BY <1>1, ClockIInv DEF Next
<1> QED
  BY InitIInv, <1>2, PTL DEF Spec

\* Counter, pointers and slots keep their types, for every depth and data type.
THEOREM TypeCorrect == Spec => []TypeOK
<1>1. IInv => TypeOK
  BY DEF IInv
<1> QED BY Invariance, <1>1, PTL

\* The three processes never disagree about what the FIFO holds.
THEOREM PointerAgreement == Spec => []PointersAgree
<1>1. IInv => PointersAgree
  BY DEF IInv
<1> QED BY Invariance, <1>1, PTL

-------------------------------------------------------------------------------
\* The contents are a sequence of as many items as the counter says.
LEMMA ContentsType ==
  ASSUME IInv
  PROVE  Contents \in Seq(Data) /\ Len(Contents) = elements
<1>1. elements \in Nat
  BY FifoAssumption DEF IInv, TypeOK
<1>2. \A i \in 1..elements : SlotAfter(i - 1) \in Slot
  BY FifoAssumption DEF IInv, TypeOK, SlotAfter, Slot
<1>3. Contents \in [1..elements -> Data]
  BY <1>2 DEF Contents, IInv, TypeOK
<1>4. Contents \in Seq(Data)
  BY <1>1, <1>3
<1> QED BY <1>1, <1>3, <1>4

\* The four things a cycle can do to the slots.
LEMMA Slots ==
  ASSUME IInv
  PROVE  /\ \A i \in 1..elements : SlotAfter(i - 1) \in Slot
         /\ ~full => \A i \in 1..elements : SlotAfter(i - 1) # pointer_in
         /\ ~full => SlotAfter(elements) = pointer_in
BY FifoAssumption DEF IInv, TypeOK, PointersAgree, SlotAfter, Slot, full

\* Append and Tail, as functions of the position.
LEMMA AppendAsFunction ==
  ASSUME NEW S, NEW s \in Seq(S), NEW e \in S, NEW n \in Nat, Len(s) = n
  PROVE  Append(s, e) = [i \in 1..n + 1 |-> IF i = n + 1 THEN e ELSE s[i]]
<1> DEFINE t == [i \in 1..n + 1 |-> IF i = n + 1 THEN e ELSE s[i]]
<1>1. s \in [1..n -> S]
  BY LenProperties
<1>2. t \in [1..n + 1 -> S]
  BY <1>1
<1>3. t \in Seq(S) /\ Len(t) = n + 1
  BY <1>2
<1>4. Append(s, e) \in Seq(S) /\ Len(Append(s, e)) = n + 1
  BY AppendProperties
<1>5. \A i \in 1..n + 1 : Append(s, e)[i] = t[i]
  BY AppendProperties, <1>4
<1> QED
  BY <1>3, <1>4, <1>5, SeqEqual

LEMMA TailAsFunction ==
  ASSUME NEW S, NEW s \in Seq(S), NEW n \in Nat \ {0}, Len(s) = n
  PROVE  Tail(s) = [i \in 1..n - 1 |-> s[i + 1]] /\ s # << >> /\ Tail(s) \in Seq(S)
                   /\ Len(Tail(s)) = n - 1
<1> DEFINE t == [i \in 1..n - 1 |-> s[i + 1]]
<1>1. s \in [1..n -> S] /\ s # << >>
  BY LenProperties, EmptySeq
<1>2. t \in [1..n - 1 -> S]
  BY <1>1
<1>3. t \in Seq(S) /\ Len(t) = n - 1
  BY <1>2
<1>4. Tail(s) \in Seq(S) /\ Len(Tail(s)) = n - 1
  BY <1>1, HeadTailProperties
<1>5. \A i \in 1..n - 1 : Tail(s)[i] = t[i]
  BY <1>1, <1>4, HeadTailProperties
<1> QED
  BY <1>1, <1>3, <1>4, <1>5, SeqEqual

\* A cycle without clear and without transfer.
LEMMA NoTransfer ==
  ASSUME IInv, UNCHANGED <<elements, pointer_out, buffer>>
  PROVE  Contents' = Contents
BY DEF Contents, SlotAfter

\* A cycle that only takes an item appends it.
LEMMA TakeAppends ==
  ASSUME IInv, ~full, NEW d \in Data,
         elements' = elements + 1, pointer_out' = pointer_out,
         buffer' = [buffer EXCEPT ![pointer_in] = d]
  PROVE  Contents' = Append(Contents, d)
<1>1. elements \in Nat /\ buffer \in [Slot -> Data] /\ pointer_in \in Slot
  BY FifoAssumption DEF IInv, TypeOK
<1>2. \A n : SlotAfter(n)' = SlotAfter(n)
  BY DEF SlotAfter
<1>3. \A i \in 1..elements + 1 :
        buffer'[SlotAfter(i - 1)] = IF i = elements + 1 THEN d ELSE Contents[i]
  BY <1>1, Slots DEF Contents
<1>4. Contents' = [i \in 1..elements + 1 |-> IF i = elements + 1 THEN d ELSE Contents[i]]
  BY <1>2, <1>3 DEF Contents
<1>5. Append(Contents, d) = [i \in 1..elements + 1 |-> IF i = elements + 1 THEN d ELSE Contents[i]]
  BY <1>1, ContentsType, AppendAsFunction
<1> QED BY <1>4, <1>5

\* A cycle that only delivers an item drops the oldest.
LEMMA GiveDrops ==
  ASSUME IInv, valid_o, elements' = elements - 1,
         pointer_out' = Advanced(pointer_out), buffer' = buffer
  PROVE  Contents' = Tail(Contents)
<1>1. elements \in Nat \ {0} /\ elements <= Depth
  BY FifoAssumption DEF IInv, TypeOK, valid_o
<1>2. \A i \in 1..elements - 1 : SlotAfter(i - 1)' = SlotAfter(i)
  BY <1>1, FifoAssumption DEF IInv, TypeOK, SlotAfter, Advanced, Slot
<1>3. \A i \in 1..elements - 1 : buffer[SlotAfter(i)] = Contents[i + 1]
  BY <1>1 DEF Contents
<1>4. Contents' = [i \in 1..elements - 1 |-> Contents[i + 1]]
  BY <1>2, <1>3 DEF Contents
<1>5. Tail(Contents) = [i \in 1..elements - 1 |-> Contents[i + 1]]
  BY <1>1, ContentsType, TailAsFunction
<1> QED BY <1>4, <1>5

\* A cycle that takes and delivers does both.
LEMMA TakeAndGive ==
  ASSUME IInv, valid_o, ~full, NEW d \in Data, elements' = elements,
         pointer_out' = Advanced(pointer_out),
         buffer' = [buffer EXCEPT ![pointer_in] = d]
  PROVE  Contents' = Append(Tail(Contents), d)
<1>1. elements \in Nat \ {0} /\ elements < Depth
  BY FifoAssumption DEF IInv, TypeOK, valid_o, full
<1>2. \A i \in 1..elements : SlotAfter(i - 1)' = SlotAfter(i)
  BY <1>1, FifoAssumption DEF IInv, TypeOK, SlotAfter, Advanced, Slot
<1>3. SlotAfter(elements) = pointer_in /\ pointer_in \in Slot
  BY Slots DEF IInv, TypeOK
<1>4. \A i \in 1..elements - 1 :
        SlotAfter(i) # pointer_in /\ SlotAfter(i) \in Slot
  <2> TAKE i \in 1..elements - 1
  <2>1. i + 1 \in 1..elements /\ (i + 1) - 1 = i
    BY <1>1
  <2> QED BY <2>1, Slots
<1>5. \A i \in 1..elements :
        buffer'[SlotAfter(i)] = IF i = elements THEN d ELSE Contents[i + 1]
  <2>1. buffer \in [Slot -> Data]
    BY DEF IInv, TypeOK
  <2>2. \A i \in 1..elements - 1 : Contents[i + 1] = buffer[SlotAfter(i)]
    BY <1>1 DEF Contents
  <2>3. buffer'[SlotAfter(elements)] = d
    BY <1>3, <2>1
  <2>4. \A i \in 1..elements - 1 : buffer'[SlotAfter(i)] = Contents[i + 1]
    BY <1>4, <2>1, <2>2
  <2> QED BY <1>1, <2>3, <2>4
<1>6. Contents' = [i \in 1..elements |-> IF i = elements THEN d ELSE Contents[i + 1]]
  BY <1>2, <1>5 DEF Contents
<1> DEFINE t == Tail(Contents)
<1>7. /\ t = [i \in 1..elements - 1 |-> Contents[i + 1]]
      /\ t \in Seq(Data)
      /\ Len(t) = elements - 1
  BY <1>1, ContentsType, TailAsFunction
<1>8. elements - 1 \in Nat /\ (elements - 1) + 1 = elements
  BY <1>1
<1>9. Append(t, d) = [i \in 1..elements |-> IF i = elements THEN d ELSE t[i]]
  <2> HIDE DEF t
  <2>1. Append(t, d) = [i \in 1..(elements - 1) + 1 |->
                          IF i = (elements - 1) + 1 THEN d ELSE t[i]]
    BY <1>7, <1>8, AppendAsFunction
  <2> QED BY <1>8, <2>1
<1>10. \A i \in 1..elements : i # elements => t[i] = Contents[i + 1]
  BY <1>1, <1>7
<1> QED
  BY <1>6, <1>9, <1>10

\* Every cycle is a step of the queue.
LEMMA ClockRefines ==
  ASSUME IInv, NEW clr_i \in BOOLEAN, NEW valid_i \in BOOLEAN,
         NEW ready_i \in BOOLEAN, NEW data_i \in Data,
         Clock(clr_i, valid_i, data_i, ready_i)
  PROVE  Queue!QNext \/ Contents' = Contents
<1> USE DEF Clock, elements_sequential, buffers_sequential, pointers_sequential
<1>1. elements \in 0..Depth /\ Contents \in Seq(Data) /\ Len(Contents) = elements
  BY ContentsType DEF IInv, TypeOK
<1>2. valid_o => Contents # << >>
  BY <1>1 DEF valid_o
<1>3. ~full => Len(Contents) < Depth
  BY <1>1, FifoAssumption DEF full
<1>4. CASE clr_i
  <2>1. elements' = 0
    BY <1>4
  <2>2. Contents' = << >>
    BY <2>1 DEF Contents
  <2> QED BY <2>2 DEF Queue!QNext, Queue!Flush
<1>5. CASE ~clr_i /\ valid_i /\ ~full /\ ready_i /\ valid_o
  <2>1. Contents' = Append(Tail(Contents), data_i)
    BY <1>5, TakeAndGive DEF ready_o
  <2> QED BY <1>2, <1>3, <1>5, <2>1 DEF Queue!QNext, Queue!PutGet
<1>6. CASE ~clr_i /\ valid_i /\ ~full /\ ~(ready_i /\ valid_o)
  <2>1. Contents' = Append(Contents, data_i)
    BY <1>6, TakeAppends DEF ready_o
  <2> QED BY <1>3, <1>6, <2>1 DEF Queue!QNext, Queue!Put
<1>7. CASE ~clr_i /\ ~(valid_i /\ ~full) /\ ready_i /\ valid_o
  <2>1. Contents' = Tail(Contents)
    BY <1>7, GiveDrops DEF ready_o
  <2> QED BY <1>2, <1>7, <2>1 DEF Queue!QNext, Queue!Get
<1>8. CASE ~clr_i /\ ~(valid_i /\ ~full) /\ ~(ready_i /\ valid_o)
  <2>1. UNCHANGED <<elements, pointer_out, buffer>>
    BY <1>8 DEF ready_o
  <2> QED BY <2>1, NoTransfer
<1> QED BY <1>4, <1>5, <1>6, <1>7, <1>8

\* For every depth, io_generic_fifo implements a bounded queue: whatever is
\* cleared, written and read in the same cycle, items come out in order, none
\* is lost or doubled, and a full FIFO takes none.
THEOREM Refinement == Spec => ImplementsQueue
<1>1. Init => Queue!QInit
  BY DEF Init, Queue!QInit, Contents
<1>2. ASSUME IInv, [Next]_vars
      PROVE  [Queue!QNext]_Contents
  <2>1. CASE UNCHANGED vars
    BY <2>1, <1>2, NoTransfer DEF vars
  <2>2. CASE Next
    BY <2>2, <1>2, ClockRefines DEF Next
  <2> QED BY <1>2, <2>1, <2>2
<1> QED
  BY Invariance, <1>1, <1>2, PTL DEF Spec, ImplementsQueue, Queue!QSpec
===============================================================================
