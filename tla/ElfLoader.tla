------------------------------ MODULE ElfLoader ------------------------------
(***************************************************************************)
(* loadELF of tb/cpp/testbench.cpp: copies the segments of an ELF file     *)
(* into the simulated instruction and data RAM, a word per access of the   *)
(* Verilator model, and sets the boot address.  Bytes are kept, so that a  *)
(* file that does not fill its last word is told from one that does.       *)
(***************************************************************************)
EXTENDS Integers, Sequences

CONSTANTS
  WordBytes,     \* bytes in a word of the RAMs (4 in the code)
  RamBytes,      \* IRAM_KB_SIZE * 1024; the data RAM is as large
  Junk,          \* a byte of uninitialised memory, or read beyond a buffer
  Programs       \* the ELF files main() may be given

VARIABLES
  program,       \* the file
  loader,        \* "header", "segment", "copy", "done" or "failed"
  i, p,          \* loop indices of loadELF
  ram,           \* ram[space][address]: a byte
  rst_addr       \* the SoC's boot address register, written from outside

loaderVars == <<program, loader, i, p, ram, rst_addr>>

Space == {"iram", "dram"}

\* A file: its header is accepted or not, its entry point, and each segment has
\* the memory its address falls into, its offset there, its bytes in the file
\* and its size in memory.
Byte == 0..255
Segment == [space : Space, offset : Nat, data : Seq(Byte), mem_size : Nat]

ASSUME LoaderAssumption ==
  /\ WordBytes \in Nat \ {0}
  /\ RamBytes \in Nat /\ RamBytes % WordBytes = 0
  /\ \A f \in Programs : f.riscv32 \in BOOLEAN /\ f.segments \in Seq(Segment)

Segments == program.segments
Seg == Segments[i + 1]

LoaderInit == /\ program \in Programs
              /\ loader = "header"
              /\ i = 0
              /\ p = 0
              /\ ram = [s \in Space |-> [a \in 0..RamBytes - 1 |-> Junk]]
              /\ rst_addr = "default"

\* get_class() and get_machine().
CheckHeader == /\ loader = "header"
               /\ loader' = IF program.riscv32 THEN "segment" ELSE "failed"
               /\ UNCHANGED <<program, i, p, ram, rst_addr>>

\* Mutation: no size check.
EnterSegment_unchecked == /\ loader = "segment" /\ i < Len(Segments)
                          /\ loader' = "copy" /\ p' = 0
                          /\ UNCHANGED <<program, i, ram, rst_addr>>

\* The size check at the top of the loop, for both memories against
\* IRAM_KB_SIZE.
EnterSegment ==
  /\ loader = "segment"
  /\ i < Len(Segments)
  /\ loader' = IF Seg.mem_size >= RamBytes THEN "failed" ELSE "copy"
  /\ p' = 0
  /\ UNCHANGED <<program, i, ram, rst_addr>>

\* get_data()[n]: a byte of the file, or whatever lies behind its buffer.
FileByte(n) == IF n < Len(Seg.data) THEN Seg.data[n + 1] ELSE Junk

\* Mutation: the data RAM is not zero-filled either.
WordLine_unfilled == [b \in 0..WordBytes - 1 |-> FileByte(p + b)]

\* word_line: the word to write, its bytes in address order.
WordLine == [b \in 0..WordBytes - 1 |->
               IF Seg.space = "dram" /\ p >= Len(Seg.data) THEN 0 ELSE FileByte(p + b)]

\* writeWordIRAM / writeWordDRAM(p/4, word_line): the address within the
\* memory is p, whatever the segment's own address.
CopyWord ==
  /\ loader = "copy"
  /\ p < Seg.mem_size
  /\ ram' = [ram EXCEPT ![Seg.space] =
               [a \in DOMAIN @ |-> IF a \in p..p + WordBytes - 1 THEN WordLine[a - p] ELSE @[a]]]
  /\ p' = p + WordBytes
  /\ UNCHANGED <<program, loader, i, rst_addr>>

\* i is a uint8_t.
LeaveSegment == /\ loader = "copy"
                /\ p >= Seg.mem_size
                /\ i' = (i + 1) % 2^8
                /\ loader' = "segment"
                /\ UNCHANGED <<program, p, ram, rst_addr>>

\* writeRstAddr(entry_point) and the return.
Finish == /\ loader = "segment"
          /\ i >= Len(Segments)
          /\ loader' = "done"
          /\ rst_addr' = program.entry
          /\ UNCHANGED <<program, i, p, ram>>

LoaderStep == CheckHeader \/ EnterSegment \/ CopyWord \/ LeaveSegment \/ Finish

\* The ELF rule the comment in loadELF quotes: the bytes from the file are
\* mapped to the beginning of the memory segment, and the extra bytes hold 0.
Loaded(s) == \A n \in 0..s.mem_size - 1 :
               ram[s.space][s.offset + n] = IF n < Len(s.data) THEN s.data[n + 1] ELSE 0

\* At most one segment in each memory, at its start.
Separate(f) ==
  /\ \A k, l \in DOMAIN f.segments : f.segments[k].space = f.segments[l].space => k = l
  /\ \A k \in DOMAIN f.segments : f.segments[k].offset = 0

\* A segment of the data RAM fills its last word in the file, one of the
\* instruction RAM is all in the file.
Filled(s) == IF s.space = "dram" THEN Len(s.data) % WordBytes = 0 ELSE Len(s.data) = s.mem_size

WellLinked(f) == Separate(f) /\ \A k \in DOMAIN f.segments : Filled(f.segments[k])
===============================================================================
