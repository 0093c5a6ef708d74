--------------------------- MODULE TestbenchProofs ---------------------------
(***************************************************************************)
(* The testbench for every set of commands and of ELF files, every size of *)
(* word and RAM: what it lets the core start from, and that the commands   *)
(* of OpenOCD act as RemoteBitbang has it.                                 *)
(***************************************************************************)
EXTENDS Testbench, TLAPS

-------------------------------------------------------------------------------
(* Types *)

\* While a segment is copied there is one, it fits, and p is at a word.
CopyInv == loader = "copy" => i < Len(Segments) /\ Seg.mem_size < RamBytes /\ p % WordBytes = 0

Tap == [tck : Bit, shift : Bit \X Bit, tdo : Bit]
Pins == [tck : Bit, tms : Bit, tdi : Bit, trstn : Bit]

\* What each part of the state has to be.
JtagTyped == /\ sock \in Seq(Sent) /\ Len(sock) <= MaxPending
             /\ pins \in Pins /\ tap \in Tap /\ replies \in Seq(Bit)

LoaderTyped == /\ program \in Programs
               /\ loader \in {"header", "segment", "copy", "done", "failed"}
               /\ i \in 0..Len(Segments)
               /\ p \in 0..RamBytes
               /\ DOMAIN ram = Space /\ \A s \in Space : DOMAIN ram[s] = 0..RamBytes - 1
               /\ CopyInv

MainTyped == /\ JTAG_BOOT \in BOOLEAN
             /\ pc \in {"socket", "reset", "release", "boot", "cmd", "tick", "exited"}
             /\ fetch_enable_i \in BOOLEAN
             /\ count \in 0..MaxCommands

TypeInv == JtagTyped /\ LoaderTyped /\ MainTyped

LEMMA TypesSuffice == TypeInv => TypeOK
BY DEF TypeInv, TypeOK, JtagTyped, LoaderTyped, MainTyped, Tap, Pins

LEMMA SegmentTypes ==
  ASSUME LoaderTyped
  PROVE  /\ Segments \in Seq(Segment) /\ Len(Segments) \in Nat /\ i \in Nat
         /\ i < Len(Segments) => Seg \in Segment /\ Seg.space \in Space /\ Seg.mem_size \in Nat
                                 /\ Seg.data \in Seq(Byte) /\ Len(Seg.data) \in Nat
<1>1. Segments \in Seq(Segment) /\ Len(Segments) \in Nat /\ i \in Nat
  BY LoaderAssumption DEF LoaderTyped, Segments
<1>2. ASSUME i < Len(Segments) PROVE Seg \in Segment
  BY <1>1, <1>2 DEF Seg
<1> QED BY <1>1, <1>2 DEF Segment

\* A word that starts inside the RAM ends inside it.
LEMMA WordFits ==
  ASSUME NEW w \in Nat \ {0}, NEW size \in Nat, NEW at \in Nat,
         size % w = 0, at % w = 0, at < size
  PROVE  at + w <= size /\ (at + w) % w = 0
<1> DEFINE a == at \div w
           b == size \div w
<1>1. a \in Int /\ b \in Int /\ at = w * a /\ size = w * b
  OBVIOUS
<1> HIDE DEF a, b
<1>2. a < b
  <2> SUFFICES ASSUME b <= a PROVE FALSE
    BY <1>1
  <2>1. w * b <= w * a
    BY <1>1
  <2> QED BY <1>1, <2>1
<1>3. w * (a + 1) <= w * b
  BY <1>1, <1>2
<1>4. w * (a + 1) = at + w
  BY <1>1
<1>5. (w * (a + 1)) % w = 0
  BY <1>1
<1> QED BY <1>1, <1>3, <1>4, <1>5

LEMMA PinTypes ==
  ASSUME JtagTyped, NEW c \in Sent
  PROVE  Driven(c) \in Pins
<1>1. c \in Command
  BY TestbenchAssumption
<1>2. pins \in Pins
  BY DEF JtagTyped
<1>3. CASE c.op = "write"
  <2>1. c.tck \in Bit /\ c.tms \in Bit /\ c.tdi \in Bit
    BY <1>1, <1>3 DEF Command
  <2> QED BY <1>2, <1>3, <2>1 DEF Driven, set_pins, Pins
<1>4. CASE c.op = "reset"
  <2>1. 1 - c.trst \in Bit
    BY <1>1, <1>4 DEF Command, Bit
  <2> QED BY <1>2, <1>4, <2>1 DEF Driven, reset, Pins
<1>5. CASE c.op \notin {"write", "reset"}
  BY <1>2, <1>5 DEF Driven
<1> QED BY <1>3, <1>4, <1>5

LEMMA EvaluatedTypes ==
  ASSUME NEW t \in Tap, NEW q \in Pins
  PROVE  Evaluated(t, q) \in Tap
<1>1. q.tck \in Bit /\ q.tms \in Bit /\ q.tdi \in Bit /\ t.shift \in Bit \X Bit /\ t.tdo \in Bit
      /\ t.shift[2] \in Bit /\ <<q.tms, q.tdi>> \in Bit \X Bit /\ <<0, 0>> \in Bit \X Bit /\ 0 \in Bit
  BY DEF Tap, Pins, Bit
<1> QED BY <1>1 DEF Evaluated, Tap

\* Applying the same pins again changes nothing.
LEMMA EvaluatedTwice ==
  ASSUME NEW t \in Tap, NEW q \in Pins
  PROVE  Evaluated(Evaluated(t, q), q) = Evaluated(t, q)
BY DEF Evaluated, Tap, Pins, Bit

LEMMA InitTypes == Init => TypeInv
<1> SUFFICES ASSUME Init PROVE TypeInv
  OBVIOUS
<1>1. JtagTyped
  BY TestbenchAssumption DEF Init, JtagInit, JtagTyped, Tap, Pins, Bit
<1>2. Len(Segments) \in Nat
  BY LoaderAssumption DEF Init, LoaderInit, Segments
<1>3. LoaderTyped
  BY <1>2, LoaderAssumption DEF Init, LoaderInit, LoaderTyped, CopyInv
<1>4. MainTyped
  <2>1. 0 \in 0..MaxCommands
    BY TestbenchAssumption
  <2> QED BY <2>1, Zenon DEF Init, MainTyped
<1> QED BY <1>1, <1>3, <1>4 DEF TypeInv

LEMMA CopyTypes == ASSUME TypeInv, CopyWord PROVE LoaderTyped'
<1>1. i < Len(Segments) /\ Seg.mem_size < RamBytes /\ p % WordBytes = 0 /\ p \in Nat
      /\ Seg.mem_size \in Nat /\ RamBytes \in Nat /\ Seg.space \in Space
  BY SegmentTypes, LoaderAssumption DEF LoaderTyped, TypeInv, CopyInv, CopyWord
<1>2. p + WordBytes <= RamBytes /\ (p + WordBytes) % WordBytes = 0
  BY <1>1, WordFits, LoaderAssumption DEF CopyWord
<1>3. p' = p + WordBytes /\ UNCHANGED <<program, loader, i>>
  BY DEF CopyWord
<1>4. DOMAIN ram' = Space /\ \A s \in Space : DOMAIN ram'[s] = 0..RamBytes - 1
  BY <1>1 DEF CopyWord, TypeInv, LoaderTyped
<1>5. p' \in 0..RamBytes /\ p' % WordBytes = 0
  BY <1>1, <1>2, <1>3, LoaderAssumption
<1>6. CopyInv'
  BY <1>1, <1>3, <1>5 DEF CopyInv, Seg, Segments
<1> QED BY <1>3, <1>4, <1>5, <1>6 DEF LoaderTyped, TypeInv, Segments

LEMMA LoaderTypes == ASSUME TypeInv, LoaderStep PROVE LoaderTyped'
<1>1. Len(Segments) \in Nat /\ i \in 0..Len(Segments) /\ p \in 0..RamBytes /\ RamBytes \in Nat
  BY SegmentTypes, LoaderAssumption DEF TypeInv, LoaderTyped
<1>2. CASE CheckHeader
  BY <1>1, <1>2 DEF CheckHeader, TypeInv, LoaderTyped, CopyInv, Segments
<1>3. CASE EnterSegment
  <2>1. loader' = "copy" => i < Len(Segments) /\ Seg.mem_size < RamBytes
    BY <1>1, <1>3, SegmentTypes DEF EnterSegment, TypeInv
  <2>2. 0 % WordBytes = 0 /\ 0 \in 0..RamBytes
    BY LoaderAssumption
  <2>3. p' = 0 /\ loader' \in {"failed", "copy"} /\ UNCHANGED <<program, i, ram>>
    BY <1>3 DEF EnterSegment
  <2>4. CopyInv'
    BY <2>1, <2>2, <2>3 DEF CopyInv, Seg, Segments
  <2> QED BY <2>2, <2>3, <2>4 DEF TypeInv, LoaderTyped, Segments
<1>4. CASE CopyWord
  BY <1>4, CopyTypes
<1>5. CASE LeaveSegment
  <2>1. (i + 1) % 2^8 \in 0..Len(Segments)
    <3>1. i + 1 <= Len(Segments)
      BY <1>1, <1>5 DEF LeaveSegment, TypeInv, LoaderTyped, CopyInv
    <3>2. \A k \in Nat : k % 256 \in 0..k
      OBVIOUS
    <3>3. 2^8 = 256
      OBVIOUS
    <3> QED BY <1>1, <3>1, <3>2, <3>3
  <2> QED BY <1>1, <1>5, <2>1 DEF LeaveSegment, TypeInv, LoaderTyped, CopyInv, Segments
<1>6. CASE Finish
  BY <1>1, <1>6 DEF Finish, TypeInv, LoaderTyped, CopyInv, Segments
<1> QED BY <1>2, <1>3, <1>4, <1>5, <1>6 DEF LoaderStep

LEMMA SocketTypes ==
  ASSUME TypeInv, NEW c \in Sent, read_cmd(c) \/ GiveUp \/ Send(c)
  PROVE  JtagTyped'
<1>1. sock # << >> => Tail(sock) \in Seq(Sent) /\ Len(Tail(sock)) <= MaxPending
  BY TestbenchAssumption DEF TypeInv, JtagTyped
<1>2. tap.tdo \in Bit
  BY DEF TypeInv, JtagTyped, Tap
<1>3. CASE read_cmd(c)
  BY <1>1, <1>2, <1>3, PinTypes DEF read_cmd, TypeInv, JtagTyped, Tap
<1>4. CASE GiveUp
  BY <1>1, <1>4 DEF GiveUp, TypeInv, JtagTyped
<1>5. CASE Send(c)
  BY <1>5, TestbenchAssumption DEF Send, TypeInv, JtagTyped
<1> QED BY <1>3, <1>4, <1>5

LEMMA TickTypes ==
  ASSUME TypeInv, ResetTick \/ ReleaseTick \/ Tick
  PROVE  JtagTyped'
<1>1. pins \in Pins /\ tap \in Tap
  BY DEF TypeInv, JtagTyped, Tap, Pins
<1>2. pins' \in Pins
  BY <1>1 DEF ResetTick, ReleaseTick, Tick, Pins, Bit
<1>3. tap' \in Tap
  BY <1>1, <1>2, EvaluatedTypes DEF ResetTick, ReleaseTick, Tick, tick
<1> QED BY <1>2, <1>3 DEF ResetTick, ReleaseTick, Tick, JtagTyped, TypeInv

LEMMA TypeStep == ASSUME TypeInv, [Next]_vars PROVE TypeInv'
<1> USE DEF vars, jtagVars, loaderVars
<1>1. JtagTyped /\ LoaderTyped /\ MainTyped
  BY DEF TypeInv
<1>2. CASE UNCHANGED vars
  BY <1>2 DEF TypeInv, JtagTyped, LoaderTyped, MainTyped, CopyInv, Seg, Segments
<1>3. CASE jtag_rbb \/ accept_client
  <2>1. JtagTyped' /\ LoaderTyped'
    BY <1>1, <1>3 DEF jtag_rbb, accept_client, JtagTyped, LoaderTyped, CopyInv, Seg, Segments
  <2>2. MainTyped'
    BY <1>1, <1>3 DEF jtag_rbb, accept_client, MainTyped
  <2> QED BY <2>1, <2>2 DEF TypeInv
<1>4. CASE ResetTick \/ ReleaseTick \/ Tick
  <2>1. LoaderTyped'
    BY <1>1, <1>4 DEF ResetTick, ReleaseTick, Tick, LoaderTyped, CopyInv, Seg, Segments
  <2>2. MainTyped'
    BY <1>1, <1>4 DEF ResetTick, ReleaseTick, Tick, MainTyped
  <2> QED BY <1>4, <2>1, <2>2, TickTypes DEF TypeInv
<1>5. CASE loadELF
  <2>1. JtagTyped'
    BY <1>1, <1>5 DEF loadELF, JtagTyped
  <2>2. MainTyped'
    BY <1>1, <1>5 DEF loadELF, MainTyped
  <2> QED BY <1>5, <2>1, <2>2, LoaderTypes DEF loadELF, TypeInv
<1>6. CASE Cmd
  <2>1. JtagTyped'
    <3>1. CASE NoCommand
      BY <1>1, <3>1 DEF NoCommand, JtagTyped
    <3>2. ASSUME NEW c \in Sent, read_cmd(c) PROVE JtagTyped'
      BY <3>2, SocketTypes
    <3>3. CASE GiveUp
      <4>1. Head(sock) \in Sent
        BY <1>1, <3>3 DEF GiveUp, JtagTyped
      <4> QED BY <3>3, <4>1, SocketTypes
    <3> QED BY <1>6, <3>1, <3>2, <3>3 DEF Cmd
  <2>2. LoaderTyped'
    BY <1>1, <1>6 DEF Cmd, LoaderTyped, CopyInv, Seg, Segments
  <2>3. MainTyped'
    BY <1>1, <1>6 DEF Cmd, MainTyped
  <2> QED BY <2>1, <2>2, <2>3 DEF TypeInv
<1>7. ASSUME NEW c \in Sent, Send(c) PROVE TypeInv'
  <2>1. JtagTyped'
    BY <1>7, SocketTypes
  <2>2. LoaderTyped'
    BY <1>1, <1>7 DEF Send, LoaderTyped, CopyInv, Seg, Segments
  <2>3. MainTyped'
    BY <1>1, <1>7, TestbenchAssumption DEF Send, MainTyped
  <2> QED BY <2>1, <2>2, <2>3 DEF TypeInv
<1> QED BY <1>2, <1>3, <1>4, <1>5, <1>6, <1>7 DEF Next, main

\* The state has its types; the loader stays within its file and the RAMs.
THEOREM TypeCorrect == Spec => []TypeOK
<1>1. TypeInv /\ [Next]_vars => TypeInv'
  BY TypeStep
<1> QED BY InitTypes, TypesSuffice, <1>1, PTL DEF Spec

-------------------------------------------------------------------------------
(* What the core starts from *)

\* The byte loadELF leaves at n of a segment: words of the data RAM that start
\* beyond the file hold 0, any other byte beyond it is what lies behind the
\* file's buffer.
Source(s, n) == IF s.space = "dram" /\ n - (n % WordBytes) >= Len(s.data) THEN 0
                ELSE IF n < Len(s.data) THEN s.data[n + 1] ELSE Junk

Copied(s) == \A n \in 0..s.mem_size - 1 : ram[s.space][n] = Source(s, n)

\* The segments before i are in memory, and of the one being copied the words
\* before p.
SegmentsInv ==
  /\ \A k \in 1..i : Copied(Segments[k])
  /\ loader = "copy" => \A n \in 0..RamBytes - 1 : n < p => ram[Seg.space][n] = Source(Seg, n)

\* Only loadELF ends an ELF boot with the core running, and its last write is
\* the entry point.
StartInv ==
  /\ JTAG_BOOT => loader = "header"
  /\ fetch_enable_i /\ ~JTAG_BOOT => loader = "done"
  /\ loader = "done" => i = Len(Segments) /\ rst_addr = program.entry

LoadInv == TypeInv /\ StartInv /\ (Separate(program) => SegmentsInv)

\* What a core started from an ELF file finds, whatever the file's sizes.
StartsFromCopies ==
  fetch_enable_i /\ ~JTAG_BOOT =>
    /\ \A k \in DOMAIN Segments : Copied(Segments[k])
    /\ rst_addr = program.entry

LEMMA InitLoad == Init => LoadInv
<1> SUFFICES ASSUME Init PROVE LoadInv
  OBVIOUS
<1>1. StartInv
  BY DEF Init, LoaderInit, StartInv
<1>2. SegmentsInv
  BY DEF Init, LoaderInit, SegmentsInv
<1> QED BY <1>1, <1>2, InitTypes DEF LoadInv

\* A step that is not the loader's leaves its memory alone.
LEMMA OthersLoad ==
  ASSUME LoadInv, [Next]_vars, ~loadELF
  PROVE  StartInv' /\ (Separate(program)' => SegmentsInv')
<1> USE DEF vars, loaderVars, jtagVars
<1>1. CASE accept_client
  BY <1>1 DEF accept_client, LoadInv, StartInv, SegmentsInv, Separate, Copied, Source, Segments, Seg
<1>2. CASE UNCHANGED <<loaderVars, JTAG_BOOT, fetch_enable_i>>
  BY <1>2 DEF LoadInv, StartInv, SegmentsInv, Separate, Copied, Source, Segments, Seg
<1> QED BY <1>1, <1>2 DEF Next, main, jtag_rbb, ResetTick, ReleaseTick, Cmd, Tick, Send

\* A word of the loader is what the segment has there.
LEMMA WordIsSource ==
  ASSUME TypeInv, CopyWord, NEW a \in p..p + WordBytes - 1
  PROVE  WordLine[a - p] = Source(Seg, a)
<1>1. p \in Nat /\ WordBytes \in Nat \ {0} /\ p % WordBytes = 0 /\ a \in Nat
  BY LoaderAssumption DEF TypeInv, LoaderTyped, CopyInv, CopyWord
<1>2. a - (a % WordBytes) = p
  <2> DEFINE b == a - p
  <2>1. b \in 0..WordBytes - 1 /\ a = p + b
    BY <1>1
  <2> HIDE DEF b
  <2>2. (p + b) % WordBytes = b
    BY <1>1, <2>1
  <2> QED BY <1>1, <2>1, <2>2
<1>3. a - p \in 0..WordBytes - 1 /\ p + (a - p) = a
  BY <1>1
<1> QED BY <1>2, <1>3 DEF WordLine, FileByte, Source

LEMMA CopyLoad ==
  ASSUME LoadInv, CopyWord, Separate(program)
  PROVE  SegmentsInv'
<1>1. TypeInv /\ SegmentsInv /\ LoaderTyped
  BY DEF LoadInv, TypeInv
<1>2. p \in Nat /\ WordBytes \in Nat \ {0} /\ i \in Nat /\ i < Len(Segments) /\ Seg.space \in Space
      /\ Len(Segments) \in Nat /\ Segments \in Seq(Segment) /\ RamBytes \in Nat
      /\ i + 1 \in DOMAIN Segments
  BY <1>1, SegmentTypes, LoaderAssumption DEF LoaderTyped, CopyInv, CopyWord
<1>3. UNCHANGED <<program, loader, i, Segments, Seg>> /\ p' = p + WordBytes
  BY DEF CopyWord, Segments, Seg
<1>4. \A s \in Space \ {Seg.space} : ram'[s] = ram[s]
  BY <1>1 DEF CopyWord, LoaderTyped
<1>5. ASSUME NEW k \in 1..i PROVE Copied(Segments[k])'
  <2>1. k \in DOMAIN Segments /\ k # i + 1
    BY <1>2
  <2>2. Segments[k].space # Seg.space
    BY <1>2, <2>1 DEF Separate, Seg, Segments
  <2>3. Segments[k].space \in Space
    <3>1. Segments[k] \in Segment
      BY <1>2, <2>1
    <3> QED BY <3>1 DEF Segment
  <2> QED BY <1>1, <1>3, <1>4, <2>2, <2>3 DEF SegmentsInv, Copied, Source
<1>6. ASSUME NEW n \in 0..RamBytes - 1, n < p' PROVE ram'[Seg.space][n] = Source(Seg, n)
  <2>1. ram'[Seg.space][n] = IF n \in p..p + WordBytes - 1 THEN WordLine[n - p]
                             ELSE ram[Seg.space][n]
    BY <1>1, <1>2 DEF CopyWord, LoaderTyped
  <2>2. CASE n < p
    BY <1>1, <1>2, <2>1, <2>2 DEF SegmentsInv, CopyWord
  <2>3. CASE n \in p..p + WordBytes - 1
    BY <1>1, <2>1, <2>3, WordIsSource
  <2> QED BY <1>2, <1>3, <1>6, <2>2, <2>3
<1> QED BY <1>3, <1>5, <1>6 DEF SegmentsInv, Source

LEMMA LoaderLoad ==
  ASSUME LoadInv, loadELF
  PROVE  StartInv' /\ (Separate(program)' => SegmentsInv')
<1>1. TypeInv /\ LoaderTyped /\ StartInv /\ LoaderStep /\ ~JTAG_BOOT /\ UNCHANGED JTAG_BOOT
      /\ fetch_enable_i' = (loader' = "done")
  BY DEF LoadInv, TypeInv, loadELF
<1>2. i \in 0..Len(Segments) /\ Len(Segments) \in Nat /\ p \in 0..RamBytes
      /\ RamBytes \in Nat
  BY <1>1, SegmentTypes, LoaderAssumption DEF LoaderTyped
<1>3. UNCHANGED <<program, Segments>>
  BY <1>1 DEF LoaderStep, CheckHeader, EnterSegment, CopyWord, LeaveSegment, Finish, Segments
<1>4. StartInv'
  <2>1. loader # "done"
    BY <1>1 DEF LoaderStep, CheckHeader, EnterSegment, CopyWord, LeaveSegment, Finish
  <2>2. CASE loader' # "done"
    BY <1>1, <2>2 DEF StartInv
  <2>3. CASE loader' = "done"
    <3>1. Finish
      BY <1>1, <2>1, <2>3 DEF LoaderStep, CheckHeader, EnterSegment, CopyWord, LeaveSegment
    <3> QED BY <1>1, <1>2, <1>3, <2>3, <3>1 DEF StartInv, Finish
  <2> QED BY <2>2, <2>3
<1>5. ASSUME Separate(program) PROVE SegmentsInv'
  <2>1. SegmentsInv
    BY <1>5 DEF LoadInv
  <2>2. CASE CheckHeader \/ Finish
    BY <1>3, <2>1, <2>2 DEF CheckHeader, Finish, SegmentsInv, Copied, Source
  <2>3. CASE EnterSegment
    <3>1. \A n \in 0..RamBytes - 1 : ~ n < 0
      OBVIOUS
    <3> QED BY <1>3, <2>1, <2>3, <3>1 DEF EnterSegment, SegmentsInv, Copied, Source
  <2>4. CASE CopyWord
    BY <1>5, <2>4, CopyLoad
  <2>5. CASE LeaveSegment
    <3>1. i < Len(Segments) /\ Seg.mem_size < RamBytes /\ Seg.mem_size \in Nat
      BY <1>1, <2>5, SegmentTypes DEF LoaderTyped, CopyInv, LeaveSegment
    <3>2. Copied(Seg)
      BY <1>2, <2>1, <2>5, <3>1 DEF LeaveSegment, SegmentsInv, Copied
    <3>3. i' \in 0..i + 1 /\ loader' = "segment" /\ UNCHANGED ram
      <4>1. \A k \in Nat : k % 256 \in 0..k
        OBVIOUS
      <4>2. 2^8 = 256
        OBVIOUS
      <4> QED BY <1>2, <2>5, <4>1, <4>2 DEF LeaveSegment
    <3>4. ASSUME NEW k \in 1..i + 1 PROVE Copied(Segments[k])
      BY <1>2, <2>1, <3>2, <3>4 DEF SegmentsInv, Seg
    <3> QED BY <1>2, <1>3, <3>3, <3>4 DEF SegmentsInv, Copied, Source
  <2> QED BY <1>1, <2>2, <2>3, <2>4, <2>5 DEF LoaderStep
<1> QED BY <1>3, <1>4, <1>5

LEMMA LoadStep == ASSUME LoadInv, [Next]_vars PROVE LoadInv'
BY TypeStep, OthersLoad, LoaderLoad DEF LoadInv

LEMMA LoadSuffices == ASSUME LoadInv, Separate(program) PROVE StartsFromCopies
<1> SUFFICES ASSUME fetch_enable_i, ~JTAG_BOOT
             PROVE  /\ \A k \in DOMAIN Segments : Copied(Segments[k])
                    /\ rst_addr = program.entry
  BY DEF StartsFromCopies
<1>1. i = Len(Segments) /\ rst_addr = program.entry /\ SegmentsInv
  BY DEF LoadInv, StartInv
<1>2. DOMAIN Segments = 1..Len(Segments)
  BY SegmentTypes DEF LoadInv, TypeInv
<1> QED BY <1>1, <1>2 DEF SegmentsInv

\* The word a byte is in.
LEMMA WordStart ==
  ASSUME NEW w \in Nat \ {0}, NEW n \in Nat
  PROVE  LET at == n - (n % w) IN at \in Nat /\ at % w = 0 /\ at <= n /\ n < at + w
<1> DEFINE d == n \div w
           r == n % w
<1>1. d \in Nat /\ r \in 0..w - 1 /\ n = w * d + r
  OBVIOUS
<1> HIDE DEF d, r
<1>2. (w * d) % w = 0
  BY <1>1
<1>3. w * d \in Int /\ n - r = w * d
  BY <1>1
<1>4. n - (n % w) = n - r
  BY DEF r
<1>5. (n - (n % w)) % w = 0
  BY <1>2, <1>3, <1>4
<1> QED BY <1>1, <1>3, <1>4, <1>5

\* What is copied is the image, when a segment fills its last word or is all
\* in the file.
LEMMA FilledIsLoaded ==
  ASSUME NEW s \in Segment, Filled(s), s.offset = 0, Copied(s)
  PROVE  Loaded(s)
<1> SUFFICES ASSUME NEW n \in 0..s.mem_size - 1
             PROVE  ram[s.space][s.offset + n] = IF n < Len(s.data) THEN s.data[n + 1] ELSE 0
  BY DEF Loaded
<1>1. n \in Nat /\ n < s.mem_size /\ s.mem_size \in Nat /\ Len(s.data) \in Nat
      /\ s.space \in {"iram", "dram"} /\ s.offset + n = n /\ WordBytes \in Nat \ {0}
  BY LoaderAssumption DEF Segment, Space
<1>2. ram[s.space][n] = Source(s, n)
  BY DEF Copied
<1>3. CASE s.space = "iram"
  BY <1>1, <1>2, <1>3 DEF Filled, Source
<1>4. CASE s.space = "dram"
  <2> DEFINE size == Len(s.data)
             at == n - (n % WordBytes)
  <2>1. size % WordBytes = 0
    BY <1>4 DEF Filled
  <2>2. at \in Nat /\ at % WordBytes = 0 /\ at <= n /\ n < at + WordBytes
    BY <1>1, WordStart
  <2>3. n < size => at < size
    BY <1>1, <2>2
  <2>4. at < size => n < size
    <3>1. at < size => at + WordBytes <= size
      BY <1>1, <2>1, <2>2, WordFits
    <3> QED BY <1>1, <2>2, <3>1
  <2>5. at >= size <=> ~ n < size
    BY <1>1, <2>2, <2>3, <2>4
  <2> QED BY <1>1, <1>2, <1>4, <2>5 DEF Source
<1> QED BY <1>1, <1>3, <1>4

LEMMA ImageSuffices == ASSUME LoadInv, WellLinked(program) PROVE StartsFromImage
<1>1. Segments \in Seq(Segment)
  BY SegmentTypes DEF LoadInv, TypeInv
<1>2. StartsFromCopies
  BY LoadSuffices DEF WellLinked
<1>3. ASSUME NEW k \in DOMAIN Segments, Copied(Segments[k]) PROVE Loaded(Segments[k])
  <2>1. Segments[k] \in Segment
    BY <1>1
  <2>2. Filled(Segments[k]) /\ Segments[k].offset = 0
    BY DEF WellLinked, Separate, Segments
  <2> QED BY <1>3, <2>1, <2>2, FilledIsLoaded
<1> QED BY <1>2, <1>3 DEF StartsFromImage, StartsFromCopies

\* A core booted from a file with a segment per memory starts with all of them
\* copied, junk only in what pads the file to a word, and from its entry point.
THEOREM CopiedBeforeStart == Spec => [](Separate(program) => StartsFromCopies)
<1>1. LoadInv /\ [Next]_vars => LoadInv'
  BY LoadStep
<1>2. LoadInv => (Separate(program) => StartsFromCopies)
  BY LoadSuffices
<1> QED BY InitLoad, <1>1, <1>2, PTL DEF Spec

\* When the file also fills its words that is its image, zeroes included.
THEOREM ImageBeforeStart == Spec => [](WellLinked(program) => StartsFromImage)
<1>1. LoadInv /\ [Next]_vars => LoadInv'
  BY LoadStep
<1>2. LoadInv => (WellLinked(program) => StartsFromImage)
  BY ImageSuffices
<1> QED BY InitLoad, <1>1, <1>2, PTL DEF Spec

\* The index of the segment is a byte: a file with more segments than it counts
\* is copied for ever and starts nothing.
THEOREM ManySegmentsNeverStart ==
  Spec => [](Len(Segments) >= 2^8 => loader # "done" /\ (fetch_enable_i => JTAG_BOOT))
<1> DEFINE Small == i < 256
<1>1. Init => Small
  BY DEF Init, LoaderInit
<1>2. LoadInv /\ Small /\ [Next]_vars => Small'
  <2> SUFFICES ASSUME LoadInv, Small, [Next]_vars PROVE Small'
    OBVIOUS
  <2>1. CASE LeaveSegment
    <3>1. i \in Nat
      BY SegmentTypes DEF LoadInv, TypeInv
    <3>2. \A k \in Nat : k % 256 < 256
      OBVIOUS
    <3>3. 2^8 = 256
      OBVIOUS
    <3> QED BY <2>1, <3>1, <3>2, <3>3 DEF LeaveSegment
  <2>2. CASE UNCHANGED i
    BY <2>2
  <2>3. LeaveSegment \/ UNCHANGED i
    BY DEF Next, main, vars, loaderVars, jtag_rbb, ResetTick, ReleaseTick, accept_client, Cmd, Tick,
           Send, loadELF, LoaderStep, CheckHeader, EnterSegment, CopyWord, Finish
  <2> QED BY <2>1, <2>2, <2>3
<1>3. LoadInv /\ Small
        => (Len(Segments) >= 2^8 => loader # "done" /\ (fetch_enable_i => JTAG_BOOT))
  <2>1. 2^8 = 256
    OBVIOUS
  <2> SUFFICES ASSUME LoadInv, Small, Len(Segments) >= 256
               PROVE  loader # "done" /\ (fetch_enable_i => JTAG_BOOT)
    BY <2>1
  <2>2. i # Len(Segments)
    BY SegmentTypes DEF LoadInv, TypeInv
  <2> QED BY <2>2 DEF LoadInv, StartInv
<1>4. LoadInv /\ [Next]_vars => LoadInv'
  BY LoadStep
<1> QED BY InitLoad, <1>1, <1>2, <1>3, <1>4, PTL DEF Spec

-------------------------------------------------------------------------------
(* The commands act at once *)

\* Outside main's "cmd to tick" the TAP has seen the pins as they are; before
\* the reset is released both are as they were at the start.
SettledInv ==
  /\ pc # "tick" => Evaluated(tap, pins) = tap
  /\ pc \in {"socket", "reset", "release"} =>
       /\ pins = [tck |-> 0, tms |-> 0, tdi |-> 0, trstn |-> 0]
       /\ tap = [tck |-> 0, shift |-> <<0, 0>>, tdo |-> 0]

LEMMA InitBitbang == Init => SettledInv /\ Bitbang!BInit
<1> SUFFICES ASSUME Init PROVE SettledInv /\ Bitbang!BInit
  OBVIOUS
<1>1. Evaluated(tap, pins) = tap
  BY DEF Init, JtagInit, Evaluated
<1> QED BY <1>1 DEF Init, JtagInit, SettledInv, Bitbang!BInit

LEMMA SettledStep == ASSUME TypeInv, SettledInv, [Next]_vars PROVE SettledInv'
<1> USE DEF vars, jtagVars
<1>1. pins \in Pins /\ tap \in Tap
  BY DEF TypeInv, JtagTyped
<1>2. ASSUME UNCHANGED <<pins, tap>>, UNCHANGED pc \/ pc # "tick",
             pc' \in {"socket", "reset", "release"} => pc \in {"socket", "reset", "release"}
      PROVE  SettledInv'
  BY <1>2 DEF SettledInv
<1>3. CASE ResetTick
  <2>1. pins' = pins /\ tap' = tap
    <3>1. pins' = pins
      BY <1>3 DEF ResetTick, SettledInv
    <3> QED BY <1>3, <3>1 DEF ResetTick, SettledInv, tick
  <2> QED BY <1>3, <2>1 DEF ResetTick, SettledInv
<1>4. CASE ReleaseTick \/ Tick
  <2>1. pins' \in Pins /\ tap' = Evaluated(tap, pins')
    BY <1>1, <1>4 DEF ReleaseTick, Tick, tick, Pins, Bit
  <2>2. Evaluated(tap', pins') = tap'
    BY <1>1, <2>1, EvaluatedTwice
  <2>3. Evaluated(tap, pins)' = tap'
    BY <2>2
  <2> QED BY <1>4, <2>3 DEF ReleaseTick, Tick, SettledInv
<1>5. CASE Cmd
  <2>1. CASE NoCommand \/ GiveUp
    BY <1>5, <2>1 DEF Cmd, NoCommand, GiveUp, SettledInv
  <2>2. CASE \E c \in Sent : read_cmd(c)
    BY <1>5, <2>2 DEF Cmd, SettledInv, GiveUp, NoCommand
  <2> QED BY <1>5, <2>1, <2>2 DEF Cmd
<1>6. CASE loadELF
  <2>1. pc = "boot" /\ pc' \in {"boot", "tick", "exited"} /\ UNCHANGED <<pins, tap>>
    BY <1>6 DEF loadELF
  <2> QED BY <1>2, <2>1
<1>7. CASE jtag_rbb \/ accept_client \/ UNCHANGED vars \/ \E c \in Sent : Send(c)
  BY <1>2, <1>7 DEF jtag_rbb, accept_client, Send
<1> QED BY <1>3, <1>4, <1>5, <1>6, <1>7 DEF Next, main

LEMMA CommandStep ==
  ASSUME TypeInv, SettledInv, pc = "cmd", NEW c \in Sent, read_cmd(c)
  PROVE  Bitbang!Write(c) \/ Bitbang!Reset(c) \/ Bitbang!Read(c) \/ Bitbang!Other(c)
<1>1. Evaluated(tap, pins) = tap /\ tap' = tap
  BY DEF SettledInv, read_cmd
<1>2. pins \in Pins /\ c \in Command
  BY TestbenchAssumption DEF TypeInv, JtagTyped
<1>3. Bitbang!Take(c)
  BY DEF read_cmd, Bitbang!Take
<1>4. Evaluated(tap, pins)' = Evaluated(tap, pins')
  BY <1>1
<1>5. CASE c.op = "write"
  <2>1. pins' = [tck |-> c.tck, tms |-> c.tms, tdi |-> c.tdi, trstn |-> pins.trstn]
    BY <1>2, <1>5 DEF read_cmd, Driven, set_pins, Pins
  <2>2. UNCHANGED replies
    BY <1>5 DEF read_cmd
  <2> QED BY <1>1, <1>3, <1>4, <1>5, <2>1, <2>2 DEF Bitbang!Write
<1>6. CASE c.op = "reset"
  <2>1. c.trst \in Bit
    BY <1>2, <1>6 DEF Command
  <2>2. pins' = [pins EXCEPT !.trstn = IF c.trst = 1 THEN 0 ELSE 1]
    BY <1>2, <1>6, <2>1 DEF read_cmd, Driven, reset, Pins, Bit
  <2>3. UNCHANGED replies
    BY <1>6 DEF read_cmd
  <2> QED BY <1>1, <1>3, <1>4, <1>6, <2>2, <2>3 DEF Bitbang!Reset
<1>7. CASE c.op = "read"
  <2>1. pins' = pins /\ replies' = Append(replies, tap.tdo)
    BY <1>7 DEF read_cmd, Driven
  <2> QED BY <1>1, <1>3, <1>4, <1>7, <2>1 DEF Bitbang!Read
<1>8. CASE c.op = "ignored"
  <2>1. pins' = pins /\ replies' = replies
    BY <1>8 DEF read_cmd, Driven
  <2> QED BY <1>1, <1>3, <1>4, <1>8, <2>1 DEF Bitbang!Other
<1>9. c.op \in {"write", "reset", "read", "ignored"}
  BY <1>2 DEF Command, read_cmd
<1> QED BY <1>5, <1>6, <1>7, <1>8, <1>9

\* A step of the testbench is a step of the protocol or none.
LEMMA BitbangStep ==
  ASSUME TypeInv, SettledInv, [Next]_vars
  PROVE  [Bitbang!BNext]_Bitbang!bvars
<1> USE DEF vars, jtagVars
<1>1. pins \in Pins /\ tap \in Tap
  BY DEF TypeInv, JtagTyped
<1>2. CASE UNCHANGED jtagVars
  BY <1>2 DEF Bitbang!bvars
<1>3. CASE ResetTick
  <2>1. pins' = pins
    BY <1>3 DEF ResetTick, SettledInv
  <2>2. UNCHANGED jtagVars
    BY <1>3, <2>1 DEF ResetTick, SettledInv, tick
  <2> QED BY <2>2 DEF Bitbang!bvars
<1>4. CASE Tick
  <2>1. Evaluated(tap, pins)' = Evaluated(tap, pins)
    BY <1>1, <1>4, EvaluatedTwice DEF Tick, tick
  <2> QED BY <1>4, <2>1 DEF Tick, Bitbang!bvars
<1>5. CASE ReleaseTick
  <2>1. pins' \in Pins /\ tap' = Evaluated(tap, pins')
    BY <1>1, <1>5 DEF ReleaseTick, tick, Pins, Bit
  <2>2. Evaluated(tap, pins)' = Evaluated(tap, pins')
    BY <1>1, <2>1, EvaluatedTwice
  <2>3. Evaluated(tap, pins) = tap
    BY <1>5 DEF ReleaseTick, SettledInv
  <2>4. Bitbang!Release
    BY <1>5, <2>2, <2>3 DEF ReleaseTick, Bitbang!Release
  <2> QED BY <2>4 DEF Bitbang!BNext
<1>6. CASE Cmd
  <2>1. CASE NoCommand
    BY <1>2, <2>1 DEF NoCommand
  <2>2. CASE \E c \in Sent : read_cmd(c)
    BY <1>6, <2>2, CommandStep DEF Cmd, Bitbang!BNext
  <2>3. CASE GiveUp
    <3>1. Head(sock) \in Sent /\ Evaluated(tap, pins)' = Evaluated(tap, pins)
      BY <2>3 DEF GiveUp, TypeInv, JtagTyped
    <3>2. Bitbang!Read(Head(sock)) \/ Bitbang!Other(Head(sock))
      BY <2>3, <3>1 DEF GiveUp, Bitbang!Read, Bitbang!Other, Bitbang!Take
    <3> QED BY <3>1, <3>2 DEF Bitbang!BNext
  <2> QED BY <1>6, <2>1, <2>2, <2>3 DEF Cmd
<1>7. ASSUME NEW c \in Sent, Send(c) PROVE Bitbang!BNext
  <2>1. Bitbang!Send(c)
    BY <1>7 DEF Send, Bitbang!Send
  <2> QED BY <2>1 DEF Bitbang!BNext
<1> QED BY <1>2, <1>3, <1>4, <1>5, <1>6, <1>7 DEF Next, main, jtag_rbb, accept_client, loadELF

\* One command read per tick is enough: OpenOCD sees the TAP it would see if
\* every command took effect at once.
THEOREM Refinement == Spec => ImplementsBitbang
<1>1. TypeInv /\ SettledInv /\ [Next]_vars => (TypeInv /\ SettledInv)'
  BY TypeStep, SettledStep
<1>2. TypeInv /\ SettledInv /\ [Next]_vars => [Bitbang!BNext]_Bitbang!bvars
  BY BitbangStep
<1>3. Init => TypeInv /\ SettledInv /\ Bitbang!BInit
  BY InitTypes, InitBitbang
<1> QED BY <1>1, <1>2, <1>3, PTL DEF Spec, ImplementsBitbang, Bitbang!BSpec
==============================================================================
