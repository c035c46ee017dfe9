-------------------------------- MODULE MCPrng --------------------------------
(***************************************************************************)
(* A buffer of five bytes of three bits: requests of one and of two bytes  *)
(* leave remainders of every size.                                         *)
(***************************************************************************)
EXTENDS Prng

\* One- and two-byte moduli: a power of two, a prime, the largest of its size.
MCModuli == {5, 8, 13, 31}

\* Nothing, a part of a byte, a byte, and nine bits.
MCBitSizes == {0, 2, 3, 9}

\* An uneven stream with runs of large bytes, so that draws are rejected.
MCKeystream == [k \in 0 .. (MaxRefills + 1) * RANDOM_STATE_SIZE - 1 |-> (k * k + 5 * k + 7) % 8]

=============================================================================
