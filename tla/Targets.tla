-------------------------------- MODULE Targets --------------------------------
(***************************************************************************)
(* The 256-bit numbers of target.rs and the two ways in which a target     *)
(* comes to the miner: as the compact bits of a header and as a pool's     *)
(* difficulty.                                                             *)
(*                                                                         *)
(* A number is four words, the lowest first, as in the code.  The width of *)
(* a word and of a byte are parameters, so that small ones, with the same  *)
(* shifts, carries and losses, can be checked.                             *)
(***************************************************************************)
EXTENDS Integers, FiniteSets

CONSTANTS
  WordBits,        \* 64
  ByteBits,        \* 8
  Diff1Mantissa,   \* 0xffff
  Diff1Exponent    \* 208

ASSUME WidthAssumption ==
  /\ ByteBits \in Nat \ {0} /\ WordBits \in Nat /\ WordBits % ByteBits = 0
  /\ WordBits > 3 * ByteBits - 1

(* 1 shifted left. *)
Pow2[n \in Nat] == IF n = 0 THEN 1 ELSE 2 * Pow2[n - 1]

Base == Pow2[WordBits]
Word == 0 .. Base - 1
Uint256 == [0 .. 3 -> Word]

(* What a number stands for. *)
Value(u) == u[0] + Base * (u[1] + Base * (u[2] + Base * u[3]))

FromU64(x) == [i \in 0 .. 3 |-> IF i = 0 THEN x ELSE 0]

(* Mutant: the bits that leave a word are lost. *)
ShlWithoutCarry(u, shift) ==
  LET words == shift \div WordBits
      bits == shift % WordBits
  IN [i \in 0 .. 3 |-> IF i >= words THEN (u[i - words] * Pow2[bits]) % Base ELSE 0]

(* Shl for Uint256: what leaves a word is carried into the next one, and   *)
(* nothing is carried by a shift of whole words.                           *)
Shl(u, shift) ==
  LET words == shift \div WordBits
      bits == shift % WordBits
      Shifted(i) == IF i >= words THEN (u[i - words] * Pow2[bits]) % Base ELSE 0
      Carried(i) == IF bits > 0 /\ i > words THEN u[i - words - 1] \div Pow2[WordBits - bits]
                    ELSE 0
  IN [i \in 0 .. 3 |-> Shifted(i) + Carried(i)]

ToLeBytes(u) ==
  LET width == WordBits \div ByteBits
  IN [b \in 0 .. 4 * width - 1 |->
        (u[b \div width] \div Pow2[ByteBits * (b % width)]) % Pow2[ByteBits]]

(* The order of numbers, of the kernel's words, and of bytes (le_leq).     *)
Leq(a, b) ==
  \/ a = b
  \/ \E i \in DOMAIN a : a[i] < b[i] /\ \A j \in DOMAIN a : j > i => a[j] = b[j]

LeLeq(a, b) == Leq(ToLeBytes(a), ToLeBytes(b))

(* u256_from_compact_target: an exponent in bytes and a signed mantissa of *)
(* three bytes.                                                            *)
FromCompact(bits) ==
  LET small == bits.exponent <= 3
      mantissa == IF small THEN bits.mantissa \div Pow2[ByteBits * (3 - bits.exponent)]
                  ELSE bits.mantissa
  IN IF mantissa > Pow2[3 * ByteBits - 1] - 1 THEN FromU64(0)
     ELSE Shl(FromU64(mantissa), IF small THEN 0 ELSE ByteBits * (bits.exponent - 3))

--------------------------------------------------------------------------------
(* set_difficulty, from the mantissa and exponent of the reciprocal.       *)

Exponent(recip) == Diff1Exponent + recip.exponent
Mantissa(recip) == recip.mantissa * Diff1Mantissa
LeadingZeros(x) == Cardinality({b \in 0 .. WordBits - 1 : x < Pow2[b]})

\* The index of the bottom word is out of bounds: the process ends.
OutOfBounds(recip) == Exponent(recip) \div WordBits > 3

\* "Target is too big"
TooBig(recip) ==
  /\ Exponent(recip) \div WordBits = 3
  /\ LeadingZeros(Mantissa(recip)) < Exponent(recip) % WordBits

(* A release build masks the shift, so that by WordBits is by nothing.     *)
TargetOf(recip) ==
  LET start == Exponent(recip) \div WordBits
      remainder == Exponent(recip) % WordBits
  IN [i \in 0 .. 3 |->
        IF i = start THEN (Mantissa(recip) * Pow2[remainder]) % Base
        ELSE IF i = start + 1 THEN Mantissa(recip) \div Pow2[(WordBits - remainder) % WordBits]
        ELSE 0]
================================================================================
