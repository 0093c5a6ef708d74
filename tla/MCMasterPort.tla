----------------------------- MODULE MCMasterPort -----------------------------
\* Instances of MasterPort for TLC: two slaves with a hole between them, a
\* word on each and one in the hole.
EXTENDS MasterPort

MCBase == [s \in Slave |-> IF s = "ram" THEN 0 ELSE 4]
MCLast == [s \in Slave |-> IF s = "ram" THEN 1 ELSE 5]
MCAddr == {0, 2, 4}

Fill(b) == [l \in Lane |-> b]
Load(a) == [addr |-> a, we |-> FALSE, be |-> Lane, wdata |-> ZeroWord]
Store(a, be, b) == [addr |-> a, we |-> TRUE, be |-> be, wdata |-> Fill(b)]

Probes == {Load(0), Load(2), Load(4), Store(2, Lane, 1), Store(4, Lane, 1)}

\* Loads and stores to both slaves and to the hole, with every byte enable the
\* converter encodes exactly.
MCRequest == Probes \cup {Store(0, Lane, 0)}
                    \cup {Store(0, be, 1) : be \in ByteEnable \ {{0, 1, 2}}}

\* The second half of a store word at offset 3: the lowest three lanes.
MisalignedRequest == {Load(0), Store(0, {3}, 1), Store(0, {0, 1, 2}, 1)}

\* Some request reaches no slave.
HoleRequest == {Load(0), Load(2), Store(0, Lane, 1)}
===============================================================================
