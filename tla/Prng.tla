--------------------------------- MODULE Prng ---------------------------------
(***************************************************************************)
(* The generator every random value comes from (crypto/prng.cpp): a buffer *)
(* of ChaCha keystream that is refilled when a request does not fit in     *)
(* what is left, and rejection sampling on top of it.                      *)
(*                                                                         *)
(* The keystream is a fixed sequence of bytes; `generated` counts the      *)
(* bytes the cipher has produced, so that slot i of the buffer holds byte  *)
(* generated - RANDOM_STATE_SIZE + i of it.                                *)
(***************************************************************************)
EXTENDS Integers, FiniteSets

CONSTANTS RANDOM_STATE_SIZE,   \* bytes in random_state
          ByteBits,            \* bits in a byte: 8
          Moduli,              \* what get_random is called with
          BitSizes,            \* what get_randomb is called with
          Keystream,           \* Keystream[k]: byte k
          MaxRefills           \* bound: refills after the first

Byte == 0 .. 2^ByteBits - 1
Slots == 0 .. RANDOM_STATE_SIZE - 1

\* nbytes of a request of nbits bits: ceil(nbits / 8)
NumBytes(nbits) == (nbits + ByteBits - 1) \div ByteBits

\* mpz_sizeinbase(n, 2)
SizeInBase2(n) == CHOOSE k \in 1 .. n : 2^(k - 1) <= n /\ n < 2^k

ASSUME PrngAssumption ==
    /\ RANDOM_STATE_SIZE \in Nat \ {0} /\ ByteBits \in Nat \ {0} /\ MaxRefills \in Nat
    /\ Keystream \in [0 .. (MaxRefills + 1) * RANDOM_STATE_SIZE - 1 -> Byte]
    /\ Moduli \subseteq Nat \ {0} /\ BitSizes \subseteq Nat

\* No request is larger than the buffer: 24000 bytes against a modulus of at
\* most 1024 bits.
ASSUME RequestsFit ==
    /\ \A n \in Moduli : SizeInBase2(n) \in Nat /\ NumBytes(SizeInBase2(n)) \in 0 .. RANDOM_STATE_SIZE
    /\ \A b \in BitSizes : NumBytes(b) \in 0 .. RANDOM_STATE_SIZE

VARIABLES random_state,   \* the buffer
          random_index,   \* the first byte not yet handed out
          generated,      \* keystream bytes produced so far
          pending,        \* the modulus of a get_random that is still trying, or 0
          m,              \* the value returned last
          last, read      \* keystream bytes of the last draw, of all draws before it

vars == <<random_state, random_index, generated, pending, m, last, read>>

\* The buffer after the next RANDOM_STATE_SIZE bytes of the cipher.
Refilled == [i \in Slots |-> Keystream[generated + i]]

\* init_chacha_png: key and iv are set up and the buffer is filled.
Init ==
    /\ random_state = [i \in Slots |-> Keystream[i]]
    /\ random_index = 0
    /\ generated = RANDOM_STATE_SIZE
    /\ pending = 0 /\ m = 0 /\ last = {} /\ read = {}

\* Mutant: the mask of the first byte keeps the number of excess bits.
MutImport(bytes, nbits) ==
    LET n == NumBytes(nbits)
        v[i \in 0 .. n] == IF i = 0 THEN 0 ELSE v[i - 1] * 2^ByteBits + bytes[i - 1]
    IN  IF n = 0 THEN 0 ELSE v[n] % 2^((n - 1) * ByteBits + (n * ByteBits - nbits))

\* fast_mpz_import, most significant byte first, and the shift that removes the
\* excess bits.
Import(bytes, nbits) ==
    LET n == NumBytes(nbits)
        v[i \in 0 .. n] == IF i = 0 THEN 0 ELSE v[i - 1] * 2^ByteBits + bytes[i - 1]
    IN  v[n] \div 2^(n * ByteBits - nbits)

\* Mutant: off by one in the test for enough randomness.
MutNeedsRefill(nbits) == RANDOM_STATE_SIZE - random_index < NumBytes(nbits) - 1

NeedsRefill(nbits) == RANDOM_STATE_SIZE - random_index < NumBytes(nbits)

\* chacha_refill_randomness sets random_index to 0 and drops what was left.
Start(nbits) == IF NeedsRefill(nbits) THEN 0 ELSE random_index

\* Mutant: a byte that was used in part is used again.
MutNextIndex(nbits) == Start(nbits) + nbits \div ByteBits

NextIndex(nbits) == Start(nbits) + NumBytes(nbits)

\* Byte i of a buffer; behind its end lies what the heap holds, 0 standing for it.
At(buf, i) == IF i \in Slots THEN buf[i] ELSE 0

\* chacha_urandomb
Draw(nbits) ==
    /\ NeedsRefill(nbits) => generated <= MaxRefills * RANDOM_STATE_SIZE
    /\ random_state' = IF NeedsRefill(nbits) THEN Refilled ELSE random_state
    /\ generated' = IF NeedsRefill(nbits) THEN generated + RANDOM_STATE_SIZE ELSE generated
    /\ m' = Import([i \in 0 .. NumBytes(nbits) - 1 |-> At(random_state', Start(nbits) + i)], nbits)
    /\ random_index' = NextIndex(nbits)
    /\ last' = {generated' - RANDOM_STATE_SIZE + Start(nbits) + i : i \in 0 .. NumBytes(nbits) - 1}
    /\ read' = read \cup last

\* get_randomb
GetRandomB ==
    /\ pending = 0
    /\ \E nbits \in BitSizes : Draw(nbits)
    /\ UNCHANGED pending

\* get_random: chacha_urandom draws until the value is below n.
Try(n) ==
    /\ Draw(SizeInBase2(n))
    /\ pending' = IF m' >= n THEN n ELSE 0

GetRandom == pending = 0 /\ \E n \in Moduli : Try(n)

Retry == pending # 0 /\ Try(pending)

Next == GetRandomB \/ GetRandom \/ Retry

Spec == Init /\ [][Next]_vars

-----------------------------------------------------------------------------
\* Reads stay inside random_state, and what is read is the keystream: the index
\* never passes the end, also when a request and what is left differ by one,
\* and the buffer is a window of the stream (chacha_urandomb).
ReadsKeystream ==
    /\ random_index <= RANDOM_STATE_SIZE
    /\ \A i \in Slots : random_state[i] = Keystream[generated - RANDOM_STATE_SIZE + i]

\* No byte of the keystream enters two values: rejected draws, refills in the
\* middle of a rejection loop and requests of different sizes never go back.
FreshBytes == [][last' \cap (read \cup last) = {}]_vars

\* The byte strings that give value v for a modulus of nbits bits.
Preimage(v, nbits) ==
    {bytes \in [0 .. NumBytes(nbits) - 1 -> Byte] : Import(bytes, nbits) = v}

\* Whether get_random(n) starts or draws again, every value below n can still
\* come out and is as likely as any other: as many byte strings give one as
\* give another.
Unbiased ==
    \A n \in IF pending = 0 THEN Moduli ELSE {pending} :
      LET count == [v \in 0 .. n - 1 |-> Cardinality(Preimage(v, SizeInBase2(n)))]
      IN  \A v \in 0 .. n - 1 : count[v] = count[0] /\ count[v] > 0

=============================================================================
