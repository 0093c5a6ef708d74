--------------------------- MODULE MasterPortProofs ---------------------------
(***************************************************************************)
(* Proofs about MasterPort, for every memory map, set of addresses, set of *)
(* bytes, and set of requests, with and without the filter and the reset:  *)
(* first the port, then the memory it implements, then the filter and the  *)
(* decoder of the memory map and what they mean for the port.              *)
(***************************************************************************)
EXTENDS MasterPort, TLAPS

\* The inductive invariant: the registers of the converter, what the core
\* waits for and the data phase on the bus all speak of the same request.
IInv == TypeOK /\ FsmTracksCore /\ DataPhaseIsRequest /\ OrphanDataCleared

\* What the load/store unit and the converter put on the bus is well typed.
LEMMA BusTypes ==
  ASSUME NEW r \in Request
  PROVE  /\ hwmask(r.be, r.wdata) \in Word
         /\ Transfer(r) \in [addr : Addr, we : BOOLEAN, lanes : SUBSET Lane]
         /\ Transfer(r) # None
         /\ r # None
         /\ hsel(r) \in BOOLEAN
<1>1. r \in [addr : Addr, we : BOOLEAN, be : ByteEnable, wdata : Word]
  BY PortAssumption
<1>2. hwmask(r.be, r.wdata) \in Word
  BY <1>1, ByteAssumption DEF hwmask, Word
<1>3. Transfer(r) \in [addr : Addr, we : BOOLEAN, lanes : SUBSET Lane]
  BY <1>1 DEF Transfer, WrittenLanes, Lanes
<1>4. hsel(r) \in BOOLEAN
  BY DEF hsel, gnt_o, valid_o, InRange
<1> QED
  BY <1>1, <1>2, <1>3, <1>4, PortAssumption

\* A word with some lanes overwritten is a word.
LEMMA OverwriteType ==
  ASSUME mem \in [Addr -> Word], NEW a \in Addr, NEW lanes, NEW w \in Word
  PROVE  Overwrite(a, lanes, w) \in [Addr -> Word]
BY DEF Overwrite, Word

\* The initial state satisfies the invariant.
LEMMA InitIInv == Init => IInv
<1>1. ZeroWord \in Word
  BY ByteAssumption DEF ZeroWord, Word
<1> QED
  BY <1>1, PortAssumption
  DEF Init, BridgeInit, IInv, TypeOK, FsmTracksCore, DataPhaseIsRequest,
      OrphanDataCleared, Busy, Orphaned

\* A wait state keeps the invariant.
LEMMA StallIInv ==
  ASSUME IInv, NEW req \in Request \cup {None}, Stall(req)
  PROVE  IInv'
<1>1. CASE req = None
  BY <1>1 DEF Stall, BridgeClock, next_st, IInv, TypeOK, FsmTracksCore,
      DataPhaseIsRequest, OrphanDataCleared, Busy, Orphaned, hsel
<1>2. CASE req # None
  <2>1. req \in Request /\ ~Busy
    BY <1>2 DEF Stall, MayIssue, rvalid_o, IInv, FsmTracksCore
  <2>2. fsm_st' = fsm_st /\ hwdata_tmp' = hwdata_tmp
    BY <1>2 DEF Stall, BridgeClock, next_st
  <2>3. UNCHANGED <<rdata, dphase, mem>> /\ outstanding' = req
    BY <1>2 DEF Stall
  <2>4. ~DrainBeforeRelease
    BY <2>1 DEF Stall, CoreRunning, Orphaned, Busy, IInv, TypeOK
  <2> QED
    BY <2>1, <2>2, <2>3, <2>4
    DEF IInv, TypeOK, FsmTracksCore, DataPhaseIsRequest, OrphanDataCleared,
        Busy, Orphaned
<1> QED BY <1>1, <1>2

\* The end of a data phase leaves the memory well typed.
LEMMA DataPhaseEndsType ==
  ASSUME IInv, DataPhaseEnds
  PROVE  mem' \in [Addr -> Word]
<1>1. CASE dphase # None /\ dphase.we
  BY <1>1, OverwriteType DEF DataPhaseEnds, IInv, TypeOK
<1>2. CASE ~(dphase # None /\ dphase.we)
  BY <1>2 DEF DataPhaseEnds, IInv, TypeOK
<1> QED BY <1>1, <1>2

\* A cycle with hreadyout high keeps the invariant.
LEMMA AdvanceIInv ==
  ASSUME IInv, NEW req \in Request \cup {None}, Advance(req)
  PROVE  IInv'
<1>1. mem' \in [Addr -> Word]
  BY DataPhaseEndsType DEF Advance
<1>2. rdata' \in Word \cup {None}
  BY DEF Advance, IInv, TypeOK
<1>3. CASE req = None
  <2>1. fsm_st' = "IDLE" /\ hwdata_tmp' = hwdata_tmp /\ dphase' = None
    BY <1>3 DEF Advance, BridgeClock, next_st
  <2>2. outstanding' = IF Busy THEN None ELSE outstanding
    BY <1>3 DEF Advance, rvalid_o
  <2>3. DrainBeforeRelease => outstanding' = None
    BY <2>2 DEF IInv, FsmTracksCore
  <2> QED
    BY <1>1, <1>2, <2>1, <2>2, <2>3
    DEF IInv, TypeOK, FsmTracksCore, DataPhaseIsRequest, OrphanDataCleared,
        Busy, Orphaned
<1>4. CASE req # None
  <2>1. req \in Request
    BY <1>4
  <2>2. /\ fsm_st' \in {"WAIT_REQ", "NEW_REQ"}
        /\ hwdata_tmp' = hwmask(req.be, req.wdata)
        /\ outstanding' = req
        /\ dphase' = IF hsel(req) THEN Transfer(req) ELSE None
    BY <1>4 DEF Advance, BridgeClock, next_st, gnt_o
  <2> QED
    BY <1>1, <1>2, <2>1, <2>2, BusTypes
    DEF IInv, TypeOK, FsmTracksCore, DataPhaseIsRequest, OrphanDataCleared,
        Busy, Orphaned, hsel
<1> QED BY <1>3, <1>4

\* A cycle in reset keeps the invariant.
LEMMA ResetIInv ==
  ASSUME IInv, NEW hreadyout \in BOOLEAN, ResetCycle(hreadyout)
  PROVE  IInv'
<1>1. ZeroWord \in Word
  BY ByteAssumption DEF ZeroWord, Word
<1>2. mem' \in [Addr -> Word]
  BY DataPhaseEndsType DEF ResetCycle, IInv, TypeOK
<1> QED
  BY <1>1, <1>2
  DEF ResetCycle, BridgeReset, IInv, TypeOK, FsmTracksCore,
      DataPhaseIsRequest, OrphanDataCleared, Busy, Orphaned

\* Stuttering keeps the invariant.
LEMMA StutterIInv == IInv /\ UNCHANGED vars => IInv'
BY DEF vars, IInv, TypeOK, FsmTracksCore, DataPhaseIsRequest,
       OrphanDataCleared, Busy, Orphaned, hsel

\* IInv is an invariant of the port.
THEOREM Invariance == Spec => []IInv
<1>1. IInv /\ [Next]_vars => IInv'
  BY StallIInv, AdvanceIInv, ResetIInv, StutterIInv DEF Next
<1> QED
  BY InitIInv, <1>1, PTL DEF Spec

\* The converter never answers a core that waits for nothing and, when the
\* reset outlasts the transfers it cuts off, never loses a granted request.
THEOREM SafeTracking == Spec => []FsmTracksCore
<1>1. IInv => FsmTracksCore
  BY DEF IInv
<1> QED BY Invariance, <1>1, PTL

\* Whatever the slaves do, registers and memory keep their types.
THEOREM TypeCorrect == Spec => []TypeOK
<1>1. IInv => TypeOK
  BY DEF IInv
<1> QED BY Invariance, <1>1, PTL

\* The data phase on the bus, with its write data, is always that of the request
\* the core waits for, however long it is stretched.
THEOREM DataPhaseTracksRequest == Spec => []DataPhaseIsRequest
<1>1. IInv => DataPhaseIsRequest
  BY DEF IInv
<1> QED BY Invariance, <1>1, PTL

\* A transfer that ndmreset cut off goes on with its write data cleared.
THEOREM OrphansCleared == Spec => []OrphanDataCleared
<1>1. IInv => OrphanDataCleared
  BY DEF IInv
<1> QED BY Invariance, <1>1, PTL

-------------------------------------------------------------------------------
(* The port implements RequestResponse.                                    *)

\* The requests of the core are ones the converter encodes exactly: all that
\* the load/store unit makes except the byte enable 0111.
LanesExact == \A r \in Request : LaneExact(r)

\* The orphan of the refinement mapping.
MappedOrphan == IF Orphaned /\ dphase.addr \in Mapped THEN dphase ELSE None

\* In the data phase of a live request, a ready slave that has been selected
\* is a mapped one, and the transfer carries the request's address, direction
\* and lanes.
LEMMA DataPhaseOfRequest ==
  ASSUME LanesExact, IInv, Busy
  PROVE  /\ outstanding \in Request
         /\ dphase # None =>
              dphase = [addr  |-> outstanding.addr,
                        we    |-> outstanding.we,
                        lanes |-> outstanding.be]
         /\ MayBeReady => (dphase # None <=> outstanding.addr \in Mapped)
<1>1. outstanding \in Request
  BY BusTypes DEF IInv, TypeOK, FsmTracksCore
<1>2. dphase = IF hsel(outstanding) THEN Transfer(outstanding) ELSE None
  BY DEF IInv, DataPhaseIsRequest
<1>3. Transfer(outstanding) = [addr  |-> outstanding.addr,
                               we    |-> outstanding.we,
                               lanes |-> outstanding.be]
  BY <1>1 DEF Transfer, LanesExact, LaneExact
<1>4. outstanding.addr \in Addr /\ Transfer(outstanding) # None
  BY <1>1, BusTypes, PortAssumption
<1>5. ~hsel(outstanding) => outstanding.addr \notin Mapped
  BY DEF hsel, valid_o, gnt_o, Mapped
<1> QED
  BY <1>1, <1>2, <1>3, <1>4, <1>5 DEF MayBeReady

\* The end of the data phase of a live request is the abstract store.
LEMMA AnswerStores ==
  ASSUME LanesExact, IInv, Busy, MayBeReady, DataPhaseEnds
  PROVE  mem' = Memory!Stored(outstanding)
<1>1. outstanding \in [addr : Addr, we : BOOLEAN, be : ByteEnable, wdata : Word]
  BY DataPhaseOfRequest, PortAssumption
<1>2. hwdata_tmp = hwmask(outstanding.be, outstanding.wdata)
  BY DEF IInv, DataPhaseIsRequest
<1>3. CASE outstanding.we /\ outstanding.addr \in Mapped
  <2>1. mem' = Overwrite(outstanding.addr, outstanding.be, hwdata_tmp)
    BY <1>3, DataPhaseOfRequest DEF DataPhaseEnds
  <2>2. \A l \in Lane : l \in outstanding.be => hwdata_tmp[l] = outstanding.wdata[l]
    BY <1>1, <1>2 DEF hwmask
  <2>3. [l \in Lane |-> IF l \in outstanding.be THEN hwdata_tmp[l]
                        ELSE mem[outstanding.addr][l]]
        = [l \in Lane |-> IF l \in outstanding.be THEN outstanding.wdata[l]
                        ELSE mem[outstanding.addr][l]]
    BY <2>2
  <2> QED
    BY <1>3, <2>1, <2>3 DEF Overwrite, Memory!Stored, Memory!Overwrite, Lane, Memory!Lane
<1>4. CASE ~(outstanding.we /\ outstanding.addr \in Mapped)
  <2>1. mem' = mem
    BY <1>4, DataPhaseOfRequest DEF DataPhaseEnds
  <2> QED
    BY <1>4, <2>1 DEF Memory!Stored
<1> QED BY <1>3, <1>4

\* The end of the data phase of an orphan clears its bytes.
LEMMA OrphanClears ==
  ASSUME IInv, ~Busy, MayBeReady, DataPhaseEnds
  PROVE  /\ MappedOrphan = dphase
         /\ dphase = None => mem' = mem
         /\ dphase # None => mem' = Memory!Cleared(dphase)
<1>1. fsm_st = "IDLE"
  BY DEF Busy, IInv, TypeOK
<1>2. MappedOrphan = dphase
  BY <1>1 DEF MappedOrphan, Orphaned, MayBeReady
<1>3. dphase = None => mem' = mem
  BY DEF DataPhaseEnds
<1>4. ASSUME dphase # None
      PROVE  mem' = Memory!Cleared(dphase)
  <2>1. hwdata_tmp = ZeroWord
    BY <1>1, <1>4 DEF Orphaned, IInv, OrphanDataCleared
  <2> QED
    BY <1>4, <2>1 DEF DataPhaseEnds, Overwrite, ZeroWord, Lane,
       Memory!Cleared, Memory!Overwrite, Memory!Lane
<1> QED BY <1>2, <1>3, <1>4

\* The initial states agree.
LEMMA InitRefines == Init => Memory!AInit
BY DEF Init, BridgeInit, Memory!AInit, Orphaned, ZeroWord, Lane, Memory!Lane

\* A wait state is an abstract wait, or the issue of a request.
LEMMA StallRefines ==
  ASSUME IInv, NEW req \in Request \cup {None}, Stall(req)
  PROVE  Memory!ANext \/ UNCHANGED Memory!avars
<1>1. UNCHANGED <<rdata, dphase, mem, fsm_st>>
  BY DEF Stall, BridgeClock, next_st
<1>2. MappedOrphan' = MappedOrphan
  BY <1>1 DEF MappedOrphan, Orphaned
<1>3. CASE req = None
  BY <1>1, <1>2, <1>3 DEF Stall, Memory!avars, MappedOrphan
<1>4. CASE req # None
  <2>1. outstanding = None
    BY <1>4 DEF Stall, MayIssue, rvalid_o
  <2>2. outstanding' = req
    BY <1>4 DEF Stall
  <2> QED
    BY <1>1, <1>2, <2>1, <2>2
    DEF Memory!ANext, Memory!Issue, Memory!Settle, MappedOrphan
<1> QED BY <1>3, <1>4

\* A cycle with hreadyout high answers the live request, or lets the orphan
\* of a reset complete.
LEMMA AdvanceRefines ==
  ASSUME LanesExact, IInv, NEW req \in Request \cup {None}, Advance(req)
  PROVE  Memory!ANext
<1>1. MayBeReady /\ DataPhaseEnds
  BY DEF Advance
<1>2. MappedOrphan' = None
  BY BusTypes DEF Advance, BridgeClock, next_st, gnt_o, MappedOrphan, Orphaned
<1>3. CASE Busy
  <2>1. outstanding # None /\ MappedOrphan = None
    BY <1>3 DEF IInv, FsmTracksCore, MappedOrphan, Orphaned, Busy
  <2>2. mem' = Memory!Stored(outstanding)
    BY <1>1, <1>3, AnswerStores
  <2>3. outstanding' = req
    BY <1>3 DEF Advance, rvalid_o
  <2>4. rdata' = IF outstanding.addr \in Mapped /\ ~outstanding.we
                   THEN mem[outstanding.addr] ELSE None
    BY <1>1, <1>3, DataPhaseOfRequest DEF Advance, rvalid_o
  <2>5. Memory!Answer(req)
    BY <1>2, <2>1, <2>2, <2>3, <2>4 DEF Memory!Answer, MappedOrphan
  <2> QED
    BY <2>5 DEF Memory!ANext
<1>4. CASE ~Busy
  <2>1. rdata' = rdata
    BY <1>4 DEF Advance, rvalid_o
  <2>2. Memory!Settle
    BY <1>1, <1>2, <1>4, OrphanClears DEF Memory!Settle, MappedOrphan
  <2>3. req # None => outstanding = None
    BY <1>4 DEF Advance, MayIssue, rvalid_o
  <2>4. outstanding' = IF req # None THEN req ELSE outstanding
    BY <1>4 DEF Advance, rvalid_o
  <2>5. CASE outstanding = None
    BY <2>1, <2>2, <2>4, <2>5 DEF Memory!ANext, Memory!Issue
  <2>6. CASE outstanding # None
    BY <2>1, <2>2, <2>3, <2>4, <2>6 DEF Memory!ANext, Memory!Wait
  <2> QED BY <2>5, <2>6
<1> QED BY <1>3, <1>4

\* A cycle in reset forgets the request and keeps, completes or leaves behind
\* its transfer.
LEMMA ResetRefines ==
  ASSUME LanesExact, IInv, NEW hreadyout \in BOOLEAN, ResetCycle(hreadyout)
  PROVE  Memory!ANext
<1>1. outstanding' = None /\ fsm_st' = "IDLE" /\ rdata' = rdata
  BY DEF ResetCycle, BridgeReset
<1> SUFFICES Memory!CoreReset
  BY DEF Memory!ANext
<1>2. CASE hreadyout
  <2>1. MayBeReady /\ DataPhaseEnds /\ MappedOrphan' = None
    BY <1>2 DEF ResetCycle, MappedOrphan, Orphaned
  <2>2. CASE Busy
    <3>1. outstanding # None /\ MappedOrphan = None
      BY <2>2 DEF IInv, FsmTracksCore, MappedOrphan, Orphaned, Busy
    <3>2. mem' = Memory!Stored(outstanding)
      BY <2>1, <2>2, AnswerStores
    <3> QED
      BY <1>1, <2>1, <3>1, <3>2 DEF Memory!CoreReset, MappedOrphan
  <2>3. CASE ~Busy
    <3>1. Memory!Settle
      BY <2>1, <2>3, OrphanClears DEF Memory!Settle, MappedOrphan
    <3> QED
      BY <1>1, <3>1 DEF Memory!CoreReset
  <2> QED BY <2>2, <2>3
<1>3. CASE ~hreadyout
  <2>1. UNCHANGED <<mem, dphase>> /\ dphase # None
    BY <1>3 DEF ResetCycle
  <2>2. MappedOrphan' = IF dphase.addr \in Mapped THEN dphase ELSE None
    BY <1>1, <2>1 DEF MappedOrphan, Orphaned
  <2>3. CASE Busy
    <3>1. outstanding # None /\ MappedOrphan = None
      BY <2>3 DEF IInv, FsmTracksCore, MappedOrphan, Orphaned, Busy
    <3>2. dphase = [addr  |-> outstanding.addr,
                    we    |-> outstanding.we,
                    lanes |-> outstanding.be]
      BY <2>1, <2>3, DataPhaseOfRequest
    <3>3. CASE outstanding.addr \in Mapped
      BY <1>1, <2>1, <2>2, <3>1, <3>2, <3>3 DEF Memory!CoreReset, MappedOrphan
    <3>4. CASE outstanding.addr \notin Mapped
      BY <1>1, <2>1, <2>2, <3>1, <3>2, <3>4
      DEF Memory!CoreReset, Memory!Settle, MappedOrphan
    <3> QED BY <3>3, <3>4
  <2>4. CASE ~Busy
    <3>1. MappedOrphan' = MappedOrphan
      BY <2>1, <2>2, <2>4 DEF MappedOrphan, Orphaned, Busy, IInv, TypeOK
    <3> QED
      BY <1>1, <2>1, <3>1 DEF Memory!CoreReset, Memory!Settle, MappedOrphan
  <2> QED BY <2>3, <2>4
<1> QED BY <1>2, <1>3

\* For every memory map, the port implements the memory the core expects as
\* long as the core makes only requests that the converter encodes exactly.
THEOREM Refinement ==
  ASSUME LanesExact
  PROVE  Spec => ImplementsMemory
<1>1. ASSUME IInv, [Next]_vars
      PROVE  Memory!ANext \/ UNCHANGED Memory!avars
  <2>1. CASE UNCHANGED vars
    BY <2>1 DEF vars, Memory!avars, Orphaned
  <2>2. CASE Next
    BY <2>2, <1>1, StallRefines, AdvanceRefines, ResetRefines DEF Next
  <2> QED BY <1>1, <2>1, <2>2
<1> QED
  BY Invariance, InitRefines, <1>1, PTL DEF Spec, ImplementsMemory, Memory!ASpec

\* For every memory map, an answered store changes exactly the bytes its core
\* enabled, whatever wait states, resets and back-to-back requests surround it.
THEOREM StoresAreExact ==
  ASSUME LanesExact
  PROVE  Spec => StoreExact
<1> DEFINE Exact ==
      Busy /\ (\E req \in Request \cup {None} : Advance(req))
        => mem' = IF outstanding.we /\ outstanding.addr \in Mapped
                    THEN Overwrite(outstanding.addr, outstanding.be, outstanding.wdata)
                    ELSE mem
<1>1. IInv => Exact
  <2> SUFFICES ASSUME IInv, Busy, NEW req \in Request \cup {None}, Advance(req)
               PROVE  mem' = Memory!Stored(outstanding)
    BY DEF Memory!Stored, Memory!Overwrite, Overwrite, Lane, Memory!Lane
  <2> QED
    BY AnswerStores DEF Advance
<1>2. IInv /\ [Next]_vars => [Exact]_vars
  BY <1>1
<1> QED
  BY Invariance, <1>2, PTL DEF Spec, StoreExact

-------------------------------------------------------------------------------
(* The filter.                                                             *)

\* The multiple of n at or below a is k * n exactly when a lies in the n
\* numbers from k * n on.
LEMMA MultipleBelow ==
  ASSUME NEW a \in Nat, NEW n \in Nat \ {0}, NEW k \in Nat
  PROVE  a - (a % n) = k * n <=> (k * n <= a /\ a <= k * n + n - 1)
<1> DEFINE q == a \div n
           r == a % n
<1>1. q \in Int /\ r \in Int /\ a = n * q + r /\ 0 <= r /\ r < n
  OBVIOUS
<1>2. a - r = k * n => k * n <= a /\ a <= k * n + n - 1
  BY <1>1
<1>3. ASSUME k * n <= a, a <= k * n + n - 1
      PROVE  a - r = k * n
  <2>1. n * q < n * (k + 1)
    BY <1>1, <1>3
  <2>2. n * k < n * (q + 1)
    BY <1>1, <1>3
  <2>3. q < k + 1 /\ k < q + 1
    BY <1>1, <2>1, <2>2
  <2>4. q = k
    BY <1>1, <2>3
  <2> QED
    BY <1>1, <2>4
<1> QED BY <1>2, <1>3

\* One slave: its range comparison and its mask comparison agree.
LEMMA DecoderAgrees ==
  ASSUME NEW s \in Slave, NEW addr \in Nat
  PROVE  en_addr(s, addr) <=> Decodes(s, addr)
<1>1. Base[s] \in Nat /\ Last[s] \in Nat /\ Base[s] <= Last[s]
  BY MapAssumption
<1>2. PICK k \in 0..Last[s] : Base[s] = k * Size(s)
  BY MapAssumption
<1> DEFINE n == Size(s)
<1>3. n \in Nat \ {0} /\ Last[s] = Base[s] + n - 1
  BY <1>1 DEF Size
<1>4. k \in Nat
  BY <1>1, <1>2
<1> HIDE DEF n
<1>5. addr - (addr % n) = k * n <=> (k * n <= addr /\ addr <= k * n + n - 1)
  BY <1>3, <1>4, MultipleBelow
<1>6. k * n = Base[s]
  BY <1>2 DEF n
<1>7. addr - (addr % n) = Base[s] <=> (Base[s] <= addr /\ addr <= Last[s])
  BY <1>1, <1>3, <1>5, <1>6
<1> QED
  BY <1>1, <1>7 DEF en_addr, Decodes, Masked, n

\* filter_oor passes exactly the addresses that the interconnect decodes.
THEOREM FilterMatchesDecoder ==
  \A addr \in Nat : InRange(addr) <=> Selected(addr) # {}
BY DecoderAgrees DEF InRange, Selected

\* Every transfer on the bus has a slave.
SlaveInv == Filtered => MayBeReady

LEMMA SlaveInvStep ==
  ASSUME IInv, SlaveInv, [Next]_vars
  PROVE  SlaveInv'
<1>1. CASE UNCHANGED dphase
  BY <1>1 DEF SlaveInv, MayBeReady
<1>2. ASSUME NEW req \in Request \cup {None}, Advance(req) PROVE SlaveInv'
  <2>1. CASE dphase' = None
    BY <2>1 DEF SlaveInv, MayBeReady
  <2>2. CASE req \in Request /\ hsel(req) /\ dphase' = Transfer(req)
    <3>1. req.addr \in Addr
      BY <2>2, PortAssumption
    <3>2. Filtered => InRange(req.addr)
      BY <2>2 DEF hsel, valid_o
    <3> QED BY <2>2, <3>1, <3>2 DEF SlaveInv, MayBeReady, Mapped, Transfer
  <2> QED BY <1>2, <2>1, <2>2 DEF Advance
<1>3. ASSUME NEW hreadyout \in BOOLEAN, ResetCycle(hreadyout) PROVE SlaveInv'
  BY <1>3, <1>1 DEF ResetCycle, SlaveInv, MayBeReady
<1> QED BY <1>1, <1>2, <1>3 DEF Next, Stall, vars

\* Behind the filter no data phase is ever opened that the interconnect gives to
\* no slave, so that none is left without an HREADY: the safety part of
\* NeverHangs, whatever the core asks for and whenever it is reset.
THEOREM TransfersHaveSlaves ==
  ASSUME Filtered
  PROVE  Spec => [](dphase # None => Selected(dphase.addr) # {})
<1>1. Init => SlaveInv
  BY DEF Init, SlaveInv, MayBeReady
<1>2. IInv /\ SlaveInv /\ [Next]_vars => SlaveInv'
  BY SlaveInvStep
<1>3. SlaveInv => (dphase # None => Selected(dphase.addr) # {})
  <2> SUFFICES ASSUME SlaveInv, dphase # None PROVE Selected(dphase.addr) # {}
    OBVIOUS
  <2>1. dphase.addr \in Addr /\ InRange(dphase.addr)
    BY DEF SlaveInv, MayBeReady, Mapped
  <2> QED BY <2>1, FilterMatchesDecoder, PortAssumption
<1> QED BY Invariance, <1>1, <1>2, <1>3, PTL DEF Spec

-------------------------------------------------------------------------------
(* Every byte enable of the load/store unit.                               *)

\* The lanes the converter's encoding writes are enabled ones, and all of them
\* unless the enable is 0111.
LEMMA EncodedLanes ==
  ASSUME NEW r, r.be \in ByteEnable
  PROVE  /\ WrittenLanes(r) \subseteq r.be
         /\ r.be # {0, 1, 2} => WrittenLanes(r) = r.be
<1> DEFINE least(b, o) == o \in b /\ \A k \in b : o <= k
<1>1. \A b \in ByteEnable, o \in Lane : least(b, o) => Offset(b) = o
  <2> SUFFICES ASSUME NEW b \in ByteEnable, NEW o \in Lane, least(b, o) PROVE Offset(b) = o
    OBVIOUS
  <2>1. b \subseteq Int
    BY DEF ByteEnable
  <2>2. Offset(b) \in b /\ \A k \in b : Offset(b) <= k
    <3>1. \E l \in b : \A k \in b : l <= k
      OBVIOUS
    <3>2. (CHOOSE l \in b : \A k \in b : l <= k) \in b
          /\ \A k \in b : (CHOOSE l \in b : \A m \in b : l <= m) <= k
      BY <3>1, Zenon
    <3> QED BY <3>2 DEF Offset
  <2>3. o <= Offset(b) /\ Offset(b) <= o /\ o \in Int /\ Offset(b) \in Int
    BY <2>1, <2>2
  <2> QED BY <2>3
<1>2. CASE r.be = {0, 1, 2}
  <2>1. Offset(r.be) = 0
    BY <1>1, <1>2 DEF Lane
  <2>2. hsize(r.be) = 1
    <3>1. {0, 1, 2} \notin {{0, 1, 2, 3}, {1, 2, 3}} /\ {0, 1, 2} \notin {{0, 1}, {1, 2}, {2, 3}}
      OBVIOUS
    <3> QED BY <1>2, <3>1 DEF hsize
  <2> QED BY <1>2, <2>1, <2>2 DEF WrittenLanes, Lanes, Lane
<1>3. ASSUME NEW o \in Lane, NEW n \in Nat, least(r.be, o), hsize(r.be) = n,
             r.be = {l \in Lane : l >= o /\ l < o + n}
      PROVE  WrittenLanes(r) = r.be
  BY <1>1, <1>3 DEF WrittenLanes, Lanes
<1>4. CASE r.be \in {{0, 1, 2, 3}, {1, 2, 3}}
  BY <1>3, <1>4 DEF hsize, Lane
<1>5. CASE r.be \in {{0, 1}, {1, 2}, {2, 3}}
  BY <1>3, <1>5 DEF hsize, Lane
<1>6. CASE r.be \in {{0}, {1}, {2}, {3}}
  BY <1>3, <1>6 DEF hsize, Lane
<1> QED BY <1>2, <1>4, <1>5, <1>6 DEF ByteEnable

\* The assumption of Refinement and StoresAreExact is met by every request but
\* the ones with byte enable 0111.
THEOREM OnlyOneEnableFails ==
  ASSUME \A r \in Request : r.be # {0, 1, 2}
  PROVE  LanesExact
BY EncodedLanes, PortAssumption DEF LanesExact, LaneExact

\* What the end of a data phase does to a byte.
LEMMA ByteChanged ==
  ASSUME IInv, DataPhaseEnds, NEW a \in Addr, NEW l \in Lane, mem'[a][l] # mem[a][l]
  PROVE  /\ dphase # None /\ dphase.we
         /\ a = dphase.addr /\ l \in dphase.lanes /\ mem'[a][l] = hwdata_tmp[l]
<1>1. dphase # None /\ dphase.we /\ mem' = Overwrite(dphase.addr, dphase.lanes, hwdata_tmp)
  BY DEF DataPhaseEnds
<1>2. mem \in [Addr -> Word] /\ dphase.addr \in Addr
  BY <1>1 DEF IInv, TypeOK
<1>3. mem'[a] = IF a = dphase.addr
                  THEN [k \in Lane |-> IF k \in dphase.lanes THEN hwdata_tmp[k]
                                       ELSE mem[dphase.addr][k]]
                  ELSE mem[a]
  BY <1>1, <1>2 DEF Overwrite
<1> QED BY <1>1, <1>3

LEMMA ChangeConfined ==
  ASSUME IInv, DataPhaseEnds, NEW a \in Addr, NEW l \in Lane, mem'[a][l] # mem[a][l]
  PROVE  \/ /\ Busy /\ outstanding.we
            /\ a = outstanding.addr /\ l \in outstanding.be
            /\ mem'[a][l] = outstanding.wdata[l]
         \/ Orphaned /\ mem'[a][l] = ZeroByte
<1>1. /\ dphase # None /\ dphase.we
      /\ a = dphase.addr /\ l \in dphase.lanes /\ mem'[a][l] = hwdata_tmp[l]
  BY ByteChanged
<1>2. CASE Busy
  <2>1. outstanding \in Request
    BY <1>2, BusTypes DEF IInv, TypeOK, FsmTracksCore
  <2>2. dphase = Transfer(outstanding) /\ hwdata_tmp = hwmask(outstanding.be, outstanding.wdata)
    BY <1>1, <1>2 DEF IInv, DataPhaseIsRequest
  <2>3. outstanding.be \in ByteEnable
    BY <2>1, PortAssumption
  <2>4. l \in outstanding.be /\ a = outstanding.addr /\ outstanding.we
    BY <1>1, <2>2, <2>3, EncodedLanes DEF Transfer
  <2> QED BY <1>1, <1>2, <2>2, <2>4 DEF hwmask
<1>3. CASE ~Busy
  <2>1. Orphaned
    BY <1>1, <1>3 DEF Orphaned, Busy, IInv, TypeOK
  <2> QED BY <1>1, <2>1 DEF IInv, OrphanDataCleared, ZeroWord
<1> QED BY <1>2, <1>3

\* For every request the load/store unit can make, 0111 too: a store may lose
\* bytes on the way, but none is written that was not asked for.
THEOREM StoresAreConfined == Spec => StoreConfined
<1> DEFINE Changed == \A a \in Addr, l \in Lane : mem'[a][l] # mem[a][l] =>
              \/ /\ Busy /\ outstanding.we
                 /\ a = outstanding.addr /\ l \in outstanding.be
                 /\ mem'[a][l] = outstanding.wdata[l]
              \/ Orphaned /\ mem'[a][l] = ZeroByte
<1>1. IInv /\ [Next]_vars => Changed
  <2> SUFFICES ASSUME IInv, [Next]_vars PROVE Changed
    OBVIOUS
  <2>1. CASE UNCHANGED mem
    BY <2>1
  <2>2. CASE DataPhaseEnds
    BY <2>2, ChangeConfined
  <2>3. UNCHANGED mem \/ DataPhaseEnds
    BY DEF Next, Stall, Advance, ResetCycle, vars
  <2> QED BY <2>1, <2>2, <2>3
<1>2. IInv /\ [Next]_vars => [Changed]_vars
  BY <1>1
<1> QED BY Invariance, <1>2, PTL DEF Spec, StoreConfined
===============================================================================
