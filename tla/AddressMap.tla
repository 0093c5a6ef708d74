------------------------------ MODULE AddressMap ------------------------------
(***************************************************************************)
(* The memory map as the hardware sees it: filter_oor.sv, which compares   *)
(* an address with the first and last address of every slave, and the      *)
(* interconnect, which compares address & mask with the base, where        *)
(* riscv_soc.sv derives the mask from the same two addresses.  The tables  *)
(* of config_soc.v that feed both are the parameters Base and Last.        *)
(***************************************************************************)
EXTENDS Integers

CONSTANTS Slave,    \* the slave ports of the interconnect
          Base,     \* Base[s]: first address of slave s
          Last      \* Last[s]: last address of slave s

\* Sizes are powers of two and bases are multiples of them: what makes
\* "mask = ~(last - base)" a mask at all.
Size(s) == Last[s] - Base[s] + 1

ASSUME MapAssumption ==
  \A s \in Slave : /\ Base[s] \in Nat
                   /\ Last[s] \in Nat
                   /\ Base[s] <= Last[s]
                   /\ \E k \in 0..Last[s] : Base[s] = k * Size(s)
                   /\ \E w \in 0..Size(s) : Size(s) = 2^w

\* Mutation: the last address is left out.
en_addr_exclusive(s, addr) == addr >= Base[s] /\ addr < Last[s]

\* filter_oor.sv: en_addr[i], the range comparison.
en_addr(s, addr) == addr >= Base[s] /\ addr <= Last[s]

\* filter_oor.sv: some en_addr bit is set.
InRange(addr) == \E s \in Slave : en_addr(s, addr)

\* Mutation: no filter.
valid_o_open(sel, addr) == sel

\* filter_oor.sv: valid_o is input_sel_i, let through only inside the map.
\* (error_o, its complement, is left unconnected by ri5cy_ahb_wrapper.sv.)
valid_o(sel, addr) == sel /\ InRange(addr)

\* ~(last - base) clears the low bits: addr & mask is the multiple of the
\* size at or below addr.
Masked(s, addr) == addr - (addr % Size(s))

\* The interconnect's decoder, configured by ahb_slv_addr_base and
\* ahb_slv_addr_mask (or their APB counterparts).
Decodes(s, addr) == Masked(s, addr) = Base[s]

Selected(addr) == {s \in Slave : Decodes(s, addr)}

===============================================================================
