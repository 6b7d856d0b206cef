-------------------------------- MODULE Lfsr --------------------------------
(***************************************************************************)
(* lib/lfsr.c: a buffer filled from a 16-bit Galois shift register.        *)
(***************************************************************************)
EXTENDS Integers, Bitwise

CONSTANTS
  init, poly,
  count        \* the length of the buffer

LfsrAssumption == init \in 0..65535 /\ poly \in 0..65535 /\ count \in Nat

VARIABLE st   \* lfsr, the number of bytes written and the last of them

Init == st = [reg |-> init, p |-> 0, byte |-> 0]

\* -(lfsr & 1), an int, in its low 16 bits: poly leaves no others.
NegatedBit(r) == (65536 - (r % 2)) % 65536

Shifted_TapFirst(r) == ((NegatedBit(r) & poly) ^^ r) \div 2
Shifted(r) == (r \div 2) ^^ (NegatedBit(r) & poly)

Step ==
  /\ st.p < count
  /\ st' = [reg |-> Shifted(st.reg), p |-> st.p + 1, byte |-> st.reg % 256]

Next == Step
Spec == Init /\ [][Next]_st
-----------------------------------------------------------------------------
\* With the parameters lfsr.h names the register runs through all 65535
\* values that are not zero before it comes back to the first, so a buffer of
\* that length holds no repetition of its stream.
FullPeriod == st.reg # 0 /\ (st.reg = init <=> st.p % 65535 = 0)
=============================================================================
