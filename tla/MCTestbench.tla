----------------------------- MODULE MCTestbench -----------------------------
\* Instances of Testbench for TLC: words of two bytes and RAMs of three words.
EXTENDS Testbench

Text == [space |-> "iram", offset |-> 0, data |-> <<1, 2, 1, 2>>, mem_size |-> 4]
Data == [space |-> "dram", offset |-> 0, data |-> <<2, 1>>, mem_size |-> 5]
Huge == [space |-> "dram", offset |-> 0, data |-> <<2, 1>>, mem_size |-> 7]

\* Initialised data that ends in the middle of a word, .bss behind it.
OddData == [Data EXCEPT !.data = <<2>>]

File(segments) == [riscv32 |-> TRUE, segments |-> segments, entry |-> "entry"]

\* A program, one with data and .bss, one that does not fit, and a file for
\* another machine.
MCPrograms == {File(<<Text>>), File(<<Text, Data>>), File(<<Data, Text>>),
               File(<<Text, Huge>>), [File(<< >>) EXCEPT !.riscv32 = FALSE]}

\* Of such files the proofs say that they start from their image.
ASSUME ProgramsAreWellLinked == \A f \in MCPrograms : WellLinked(f)

\* The same, with data that does not fill its last word.
MCOddPrograms == MCPrograms \cup {File(<<Text, OddData>>)}

MCSent == {c \in Command : c.op = "reset" => c.srst = 0}
===============================================================================
