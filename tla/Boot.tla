-------------------------------- MODULE Boot --------------------------------
(***************************************************************************)
(* The core between a reset and main: it starts where the register of      *)
(* RstCtrl says, and _start of the boot ROM's program copies .data from    *)
(* the ROM and clears .bss before it calls main.  The debugger may reset   *)
(* the core at any moment; the register and the data RAM are on another    *)
(* reset and keep what they hold.  The core and the bus of RstCtrl move    *)
(* independently.                                                          *)
(*                                                                         *)
(* The loops store words.  _end_data is where the last variable ends and   *)
(* _start_bss is the same place (sections.ld), so the words of the second  *)
(* loop may lie across two words of the memory; the core then makes two    *)
(* requests of each store, and the converter encodes their sizes.  The     *)
(* words of .data come from the end of the ROM's image, as far as its      *)
(* table holds them.                                                       *)
(***************************************************************************)
EXTENDS RstCtrl, RomTable

CONSTANTS
  Rom, Iram,    \* the boot addresses that lead to a program
  RamSize,      \* bytes of data RAM; .data starts at the first
  TextLines     \* lines of the ROM's image before .data

ASSUME BootAssumption == {Rom, Iram} \subseteq Address /\ Rom # Iram /\ {RamSize, TextLines} \subseteq Nat

VARIABLES
  core,         \* "reset", where the core is, or "lost" without a program
  dst,          \* the pointer of the loops
  mem,          \* byte of the data RAM: "image" (of .data), "zero" or "other"
  end_data, end_bss   \* _end_data = _start_bss, and _end_bss

core_vars == <<core, dst, mem>>
boot_vars == <<vars, core_vars, end_data, end_bss>>

Ram == 0..RamSize - 1
start_bss == end_data

\* The image's lines, and the bytes of .data that are read from the ROM as
\* they are in the image; another byte is one of another line.
Lines == TextLines + (end_data + 3) \div 4
InRom(a) == a < end_data /\ Held(Lines, TextLines + a \div 4)

Converter == INSTANCE Ri5cyToAhb
  WITH Byte <- {0}, ZeroByte <- 0, fsm_st <- "IDLE", hwdata_tmp <- << >>

\* The bytes of a word store at an address: the core enables the lanes from the
\* address on and then the rest in the next word; of each request the memory
\* writes hsize bytes from its first lane on.
LowLanes(at) == {l \in 0..3 : l >= at % 4}
HighLanes(at) == {l \in 0..3 : l < at % 4}
Stored(at) ==
  {a \in at..at + 3 : IF a \div 4 = at \div 4 THEN a < at + Converter!hsize(LowLanes(at))
                      ELSE a % 4 < Converter!hsize(HighLanes(at))}

StoreWord(at, value) ==
  mem' = [a \in Ram |-> IF a \in Stored(at) THEN value[a] ELSE mem[a]]

BootInit == /\ Init
            /\ core = "reset" /\ dst = 0
            /\ end_data \in Ram /\ end_bss \in end_data..RamSize
            /\ mem = [a \in Ram |-> "other"]

\* rstn_debug: the reset reaches the core, whatever it does.
CoreReset == core' = "reset" /\ UNCHANGED <<dst, mem>>

\* The core fetches its first instruction.
CoreStart == /\ core = "reset"
             /\ core' = (IF rst_addr = Rom THEN "copy" ELSE IF rst_addr = Iram THEN "app" ELSE "lost")
             /\ dst' = 0
             /\ UNCHANGED mem

\* while (dst < &_end_data).  Behind the image of .data lies something else.
CopyData == /\ core = "copy"
            /\ IF dst >= end_data THEN core' = "clear" /\ dst' = start_bss /\ UNCHANGED mem
               ELSE /\ StoreWord(dst, [a \in Ram |-> IF InRom(a) THEN "image" ELSE "other"])
                    /\ dst' = dst + 4
                    /\ UNCHANGED core

\* Mutation: the loop stops before a last word that is not full.
ClearEnds_full_words == dst + 4 > end_bss

\* while (dst < &_end_bss).
ClearEnds == dst >= end_bss

ClearBss == /\ core = "clear"
            /\ IF ClearEnds THEN core' = "call" /\ UNCHANGED <<dst, mem>>
               ELSE /\ StoreWord(dst, [a \in Ram |-> "zero"])
                    /\ dst' = dst + 4
                    /\ UNCHANGED core

\* main, or the program in the instruction RAM, changes what it likes.
Run == /\ core \in {"call", "app"}
       /\ core' = IF core = "call" THEN "main" ELSE core
       /\ mem' = [a \in Ram |-> "other"]
       /\ UNCHANGED dst

CoreStep == CoreReset \/ CoreStart \/ CopyData \/ ClearBss \/ Run

BootNext == /\ \/ CoreStep /\ UNCHANGED vars
               \/ Next /\ UNCHANGED core_vars
            /\ UNCHANGED <<end_data, end_bss>>

BootSpec == BootInit /\ [][BootNext]_boot_vars
-----------------------------------------------------------------------------
\* When the boot ROM's main is called, .data is the image and .bss is zero,
\* however often a reset has cut the loops short and whatever main or another
\* program had left in the RAM.  There are two exceptions: lines that the ROM's
\* table does not hold, the last one always, are not copied; and where .bss starts
\* at the last byte of a word, two bytes of every word are lost on the way
\* through the converter.
DataInPlace ==
  core = "call" =>
    /\ \A a \in 0..end_data - 1 : InRom(a) => mem[a] = "image"
    /\ \A a \in start_bss..end_bss - 1 :
         mem[a] = "zero" \/ (start_bss % 4 = 3 /\ a % 4 \in {1, 2})
=============================================================================
