------------------------------- MODULE RomTable -------------------------------
(***************************************************************************)
(* The table of the boot ROM as gen_rom.py writes it from an image of so   *)
(* many lines of one word each, and ahb_ri5cy_rom.sv reads it: a case      *)
(* statement over the address, registered.                                 *)
(***************************************************************************)
EXTENDS Integers

\* The lines of an image, which has at most the 64 KB of the ROM's window.
Size == 1..16384
Power == {1, 2, 4, 8, 16, 32, 64, 128, 256, 512, 1024, 2048, 4096, 8192, 16384}

\* Addresses have ceil(log2(lines)) + 1 bits.
AddressSpan(lines) ==
  2 * (CHOOSE p \in Power : p >= lines /\ \A q \in Power : q >= lines => p <= q)

\* The labels are byte addresses, cut to that width.
Label(lines, k) == (4 * k) % AddressSpan(lines)

\* case (raddr_i): the first label that matches; otherwise dout_o stays.  The
\* last line of the file is left out.
Entry(lines, haddr, dout) ==
  LET hits == {k \in 0..lines - 2 : Label(lines, k) = haddr % AddressSpan(lines)}
  IN  IF hits = {} THEN dout ELSE CHOOSE k \in hits : \A j \in hits : k <= j

\* The lines that are read at their own address.
Held(lines, k) == k < lines - 1 /\ 4 * k < AddressSpan(lines)
===============================================================================
