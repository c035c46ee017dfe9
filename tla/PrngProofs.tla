------------------------------ MODULE PrngProofs ------------------------------
(***************************************************************************)
(* The generator never reads past its buffer, never reads anything but the *)
(* keystream and never uses a byte of it twice, for every buffer size and  *)
(* every sequence of requests that fit in the buffer; and for every        *)
(* modulus as many byte strings give one value as give another.            *)
(***************************************************************************)
EXTENDS Prng, ArithmeticLemmas

\* All bytes handed out so far lie before the first one not yet handed out.
ReadBehind ==
    read \cup last \subseteq 0 .. generated - RANDOM_STATE_SIZE + random_index - 1

\* The inductive invariant: the buffer is the last window of the keystream.
Window ==
    /\ random_index \in 0 .. RANDOM_STATE_SIZE
    /\ generated \in RANDOM_STATE_SIZE .. (MaxRefills + 1) * RANDOM_STATE_SIZE
    /\ random_state = [i \in Slots |-> Keystream[generated - RANDOM_STATE_SIZE + i]]
    /\ pending \in Moduli \cup {0}
    /\ read \subseteq Nat /\ last \subseteq Nat

\* The inductive invariant.
IInv == Window /\ ReadBehind

\* The number of bits of a draw fits in the buffer.
Fits(nbits) == NumBytes(nbits) \in 0 .. RANDOM_STATE_SIZE

\* What lies before a number and what lies after it have nothing in common.
LEMMA DisjointIntervals ==
    ASSUME NEW a \in Int, NEW b \in Int, NEW c \in Int, a <= b,
           NEW A, A \subseteq 0 .. a - 1, NEW B, B \subseteq b .. c
    PROVE  B \cap A = {}
<1>1. ASSUME NEW x, x \in A, x \in B PROVE FALSE
  <2>1. x \in 0 .. a - 1 /\ x \in b .. c
    BY <1>1
  <2> QED BY <2>1, SMT
<1> QED BY <1>1

\* One draw keeps the invariant and reads fresh bytes.
LEMMA DrawStep ==
    ASSUME IInv, NEW nbits, Fits(nbits), Draw(nbits), pending' \in Moduli \cup {0}
    PROVE  IInv' /\ last' \cap (read \cup last) = {}
<1> DEFINE R == RANDOM_STATE_SIZE
           n == NumBytes(nbits)
           s == Start(nbits)
<1>1. R \in Nat \ {0} /\ MaxRefills \in Nat /\ n \in 0 .. R
  BY PrngAssumption DEF Fits
<1>2. random_index \in 0 .. R /\ generated \in R .. (MaxRefills + 1) * R
  BY DEF IInv, Window
<1>3. (MaxRefills + 1) * R = MaxRefills * R + R /\ MaxRefills * R \in Nat
  <2> HIDE DEF R
  <2> QED BY <1>1, SMT
<1>4. /\ generated' = IF NeedsRefill(nbits) THEN generated + R ELSE generated
      /\ random_index' = s + n
      /\ last' = {generated' - R + s + i : i \in 0 .. n - 1}
      /\ read' = read \cup last
      /\ random_state' = IF NeedsRefill(nbits) THEN Refilled ELSE random_state
      /\ NeedsRefill(nbits) => generated <= MaxRefills * R
  BY DEF Draw, NextIndex
<1>5. s = IF NeedsRefill(nbits) THEN 0 ELSE random_index
  BY DEF Start
<1>6. NeedsRefill(nbits) <=> R - random_index < n
  BY DEF NeedsRefill
<1>7. read \cup last \subseteq 0 .. generated - R + random_index - 1
  BY DEF IInv, ReadBehind
<1> HIDE DEF n, s
<1>8. s \in 0 .. R /\ s + n \in 0 .. R
  BY <1>1, <1>2, <1>5, <1>6, SMT
<1>9. generated' \in R .. (MaxRefills + 1) * R
  BY <1>1, <1>2, <1>3, <1>4, SMT
<1>10. generated - R + random_index <= generated' - R + s
  BY <1>1, <1>2, <1>4, <1>5, SMT
<1>11. last' \subseteq generated' - R + s .. generated' - R + s + n - 1
  BY <1>1, <1>4, <1>8, <1>9, SMT
<1>12. ReadBehind'
  <2>1. ReadBehind' = (read' \cup last' \subseteq 0 .. generated' - R + random_index' - 1)
    BY DEF ReadBehind
  <2>2. read' \subseteq 0 .. generated' - R + random_index' - 1
    BY <1>1, <1>2, <1>4, <1>7, <1>8, <1>9, <1>10, SMT
  <2>3. last' \subseteq 0 .. generated' - R + random_index' - 1
    BY <1>1, <1>4, <1>8, <1>9, <1>11, SMT
  <2> QED BY <2>1, <2>2, <2>3
<1>13. random_state' = [i \in Slots |-> Keystream[generated' - R + i]]
  <2>1. CASE NeedsRefill(nbits)
    <3>1. random_state' = [i \in Slots |-> Keystream[generated + i]]
      BY <1>4, <2>1 DEF Refilled
    <3>2. ASSUME NEW i \in Slots PROVE generated + i = generated' - R + i
      BY <1>1, <1>2, <1>4, <2>1, SMT DEF Slots
    <3> QED BY <3>1, <3>2
  <2>2. CASE ~NeedsRefill(nbits)
    BY <1>4, <2>2 DEF IInv, Window
  <2> QED BY <2>1, <2>2
<1>14. last' \subseteq Nat /\ read' \subseteq Nat
  BY <1>1, <1>4, <1>8, <1>9, <1>11, SMT DEF IInv, Window
<1>15. Window'
  BY <1>4, <1>8, <1>9, <1>13, <1>14 DEF Window
<1>16. last' \cap (read \cup last) = {}
  <2>1. generated \in Int /\ random_index \in Int /\ R \in Int /\ s \in Int /\ n \in Int
    BY <1>1, <1>2, <1>8, SMT
  <2>2. generated' \in Int
    BY <1>4, <2>1, SMT
  <2>3. PICK g \in Int : g = generated'
    BY <2>2
  <2>4. PICK t \in Int, k \in Int : t = s /\ k = n
    BY <2>1
  <2>5. generated - R + random_index <= g - R + t
    BY <1>10, <2>3, <2>4
  <2>6. last' \subseteq g - R + t .. g - R + t + k - 1
    BY <1>11, <2>3, <2>4
  <2>7. PICK a \in Int, b \in Int, c \in Int :
           a = generated - R + random_index /\ b = g - R + t /\ c = g - R + t + k - 1
    BY <2>1, SMT
  <2>8. a <= b
    BY <2>5, <2>7, Zenon
  <2>9. read \cup last \subseteq 0 .. a - 1
    <3>1. generated - R + random_index - 1 = a - 1
      BY <2>1, <2>7, SMT
    <3> QED BY <1>7, <3>1, Zenon
  <2>10. last' \subseteq b .. c
    BY <2>6, <2>7, Zenon
  <2> QED BY <2>8, <2>9, <2>10, DisjointIntervals
<1> QED BY <1>12, <1>15, <1>16 DEF IInv

\* Every call is a draw that fits.
LEMMA NextStep ==
    ASSUME IInv, [Next]_vars
    PROVE  IInv' /\ (vars' # vars => last' \cap (read \cup last) = {})
<1>1. CASE GetRandomB
  <2>1. PICK nbits \in BitSizes : Draw(nbits)
    BY <1>1 DEF GetRandomB
  <2>2. Fits(nbits) /\ pending' \in Moduli \cup {0}
    BY <1>1, RequestsFit DEF GetRandomB, Fits, IInv, Window
  <2> QED BY <2>1, <2>2, DrawStep
<1>2. ASSUME NEW n \in Moduli, Try(n)
      PROVE  IInv' /\ last' \cap (read \cup last) = {}
  <2>1. Fits(SizeInBase2(n)) /\ Draw(SizeInBase2(n)) /\ pending' \in Moduli \cup {0}
    BY <1>2, RequestsFit DEF Try, Fits
  <2> QED BY <2>1, DrawStep
<1>3. CASE GetRandom
  BY <1>2, <1>3 DEF GetRandom
<1>4. CASE Retry
  <2>1. pending \in Moduli
    BY <1>4 DEF Retry, IInv, Window
  <2> QED BY <1>2, <1>4, <2>1 DEF Retry
<1>5. CASE UNCHANGED vars
  BY <1>5 DEF vars, IInv, Window, ReadBehind
<1> QED BY <1>1, <1>3, <1>4, <1>5 DEF Next

\* The buffer is full and nothing has been read.
LEMMA InitStep == Init => IInv
<1> SUFFICES ASSUME Init PROVE IInv
  OBVIOUS
<1>1. RANDOM_STATE_SIZE \in Nat \ {0} /\ MaxRefills \in Nat
  BY PrngAssumption
<1>2. (MaxRefills + 1) * RANDOM_STATE_SIZE = MaxRefills * RANDOM_STATE_SIZE + RANDOM_STATE_SIZE
      /\ MaxRefills * RANDOM_STATE_SIZE \in Nat
  BY <1>1, SMT
<1>3. ASSUME NEW i \in Slots PROVE i = generated - RANDOM_STATE_SIZE + i
  BY <1>1, SMT DEF Init, Slots
<1>4. random_state = [i \in Slots |-> Keystream[generated - RANDOM_STATE_SIZE + i]]
  BY <1>3 DEF Init
<1>5. Window
  BY <1>1, <1>2, <1>4, SMT DEF Init, Window
<1>6. ReadBehind
  BY DEF Init, ReadBehind
<1> QED BY <1>5, <1>6 DEF IInv

\* The invariant holds throughout.
LEMMA IInvAlways == Spec => []IInv
<1>1. IInv /\ [Next]_vars => IInv'
  BY NextStep
<1> QED BY InitStep, <1>1, PTL DEF Spec

\* No read leaves random_state, and only the keystream is read, whatever the
\* buffer size and the requests (chacha_urandomb).
THEOREM ReadsKeystreamAlways == Spec => []ReadsKeystream
<1>1. IInv => ReadsKeystream
  <2> SUFFICES ASSUME IInv PROVE ReadsKeystream
    OBVIOUS
  <2>1. random_index <= RANDOM_STATE_SIZE
    BY PrngAssumption DEF IInv, Window
  <2>2. ASSUME NEW i \in Slots PROVE random_state[i] = Keystream[generated - RANDOM_STATE_SIZE + i]
    BY DEF IInv, Window
  <2> QED BY <2>1, <2>2 DEF ReadsKeystream
<1> QED BY IInvAlways, <1>1, PTL

\* No byte of the keystream is used in two draws, whatever the buffer size and
\* the requests (chacha_urandom, chacha_refill_randomness).
THEOREM FreshBytesAlways == Spec => FreshBytes
<1>1. IInv /\ [Next]_vars => [last' \cap (read \cup last) = {}]_vars
  BY NextStep
<1> QED BY IInvAlways, <1>1, PTL DEF Spec, FreshBytes

-----------------------------------------------------------------------------

\* The strings of k bytes.
Strings(k) == [0 .. k - 1 -> Byte]

\* The number a string of bytes stands for, most significant byte first.
Num(bytes, n) ==
    LET v[i \in 0 .. n] == IF i = 0 THEN 0 ELSE v[i - 1] * 2^ByteBits + bytes[i - 1]
    IN  v[n]

\* f is a table of the values of the prefixes of bytes, up to n.
IsNum(f, n, bytes) == f[0] = 0 /\ \A i \in 1 .. n : f[i] = f[i - 1] * 2^ByteBits + bytes[i - 1]

\* What a byte holds.
LEMMA Radix == ByteBits \in Nat \ {0} /\ 2^ByteBits \in Nat \ {0}
<1>1. ByteBits \in Nat \ {0}
  BY PrngAssumption
<1> QED
  BY <1>1, TwoPositive

\* A byte of a string is a digit.
LEMMA ByteNat ==
    ASSUME NEW n \in Nat, NEW bytes \in Strings(n), NEW i \in 0 .. n - 1
    PROVE  bytes[i] \in Nat /\ bytes[i] < 2^ByteBits
<1> DEFINE B == 2^ByteBits
<1>1. bytes[i] \in 0 .. B - 1 /\ B \in Nat \ {0}
  BY Radix DEF Strings, Byte
<1> HIDE DEF B
<1>2. bytes[i] \in Nat /\ bytes[i] < B
  BY <1>1
<1> QED
  BY <1>2 DEF B

\* Num reads its value from such a table.
LEMMA NumTable ==
    ASSUME NEW n \in Nat, NEW bytes \in Strings(n), NEW k \in 0 .. n
    PROVE  \E f : IsNum(f, k, bytes) /\ Num(bytes, k) = f[k]
<1> DEFINE B == 2^ByteBits
           h == [a \in Nat \X Nat |-> IF a[1] \in 1 .. n THEN a[2] * B + bytes[a[1] - 1] ELSE 0]
           IsIt(f) == f = [i \in 0 .. k |-> IF i = 0 THEN 0 ELSE f[i - 1] * B + bytes[i - 1]]
<1>0. B \in Nat /\ k \in Nat
  BY Radix
<1>1. h \in [Nat \X Nat -> Nat]
  <2>1. ASSUME NEW a \in Nat \X Nat
        PROVE  (IF a[1] \in 1 .. n THEN a[2] * B + bytes[a[1] - 1] ELSE 0) \in Nat
    <3>1. CASE a[1] \in 1 .. n
      <4>1. a[1] - 1 \in 0 .. n - 1 /\ a[2] \in Nat
        BY <3>1
      <4>2. bytes[a[1] - 1] \in Nat
        BY <4>1, ByteNat
      <4>3. PICK c \in Nat, d \in Nat : c = bytes[a[1] - 1] /\ d = a[2]
        BY <4>1, <4>2
      <4> HIDE DEF B
      <4>4. d * B + c \in Nat
        BY <1>0
      <4> QED
        BY <3>1, <4>3, <4>4
    <3> QED
      BY <3>1
  <2> QED
    BY <2>1
<1>2. PICK f \in [0 .. k -> Nat] : IsRecursion(f, k, 0, h)
  <2>1. 0 \in Nat
    OBVIOUS
  <2> HIDE DEF h
  <2> QED
    BY <1>0, <1>1, <2>1, RecursionExists
<1>3. \A i \in 1 .. k : f[i] = f[i - 1] * B + bytes[i - 1]
  <2> SUFFICES ASSUME NEW i \in 1 .. k PROVE f[i] = f[i - 1] * B + bytes[i - 1]
    OBVIOUS
  <2>1. f[i - 1] \in Nat /\ <<i, f[i - 1]>> \in Nat \X Nat /\ i \in 1 .. n
    BY <1>2
  <2>2. f[i] = h[<<i, f[i - 1]>>]
    BY <1>2 DEF IsRecursion
  <2> HIDE DEF B
  <2> QED
    BY <2>1, <2>2
<1>4. IsIt(f)
  BY <1>2, <1>3 DEF IsRecursion
<1> DEFINE e == CHOOSE e : IsIt(e)
<1>5. IsIt(e)
  BY <1>4, Zenon
<1>6. Num(bytes, k) = e[k]
  BY DEF Num
<1> HIDE DEF e
<1>7. IsNum(e, k, bytes)
  BY <1>0, <1>5 DEF IsNum
<1> QED
  BY <1>6, <1>7

\* Tables of strings that agree on the bytes read agree.
LEMMA NumTables ==
    ASSUME NEW n \in Nat, NEW f, NEW e, NEW b, NEW c, IsNum(f, n, b), IsNum(e, n, c),
           \A i \in 0 .. n - 1 : b[i] = c[i]
    PROVE  \A i \in 0 .. n : f[i] = e[i]
<1> DEFINE A == {k \in Nat : k <= n => f[k] = e[k]}
<1>1. 0 \in A
  BY DEF IsNum
<1>2. ASSUME NEW k \in A PROVE k + 1 \in A
  <2>1. k \in Nat /\ (k <= n => f[k] = e[k])
    OBVIOUS
  <2>2. ASSUME k + 1 <= n PROVE f[k + 1] = e[k + 1]
    <3>1. k + 1 \in 1 .. n /\ (k + 1) - 1 = k /\ k <= n /\ k \in 0 .. n - 1
      BY <2>1, <2>2
    <3>2. f[k + 1] = f[k] * 2^ByteBits + b[k] /\ e[k + 1] = e[k] * 2^ByteBits + c[k]
      BY <3>1 DEF IsNum
    <3> QED
      BY <2>1, <3>1, <3>2
  <2> QED
    BY <2>1, <2>2
<1> HIDE DEF A
<1>3. A = Nat
  <2>1. A \subseteq Nat
    BY DEF A
  <2> QED
    BY <1>1, <1>2, <2>1, NatSetInduction
<1> QED
  BY <1>3 DEF A

\* A number depends on the bytes it is read from only.
LEMMA NumPrefix ==
    ASSUME NEW n \in Nat, NEW l \in Nat, NEW b \in Strings(n), NEW c \in Strings(l),
           NEW k \in Nat, k <= n, k <= l, \A i \in 0 .. k - 1 : b[i] = c[i]
    PROVE  Num(b, k) = Num(c, k)
<1>1. k \in 0 .. n /\ k \in 0 .. l /\ k \in 0 .. k
  OBVIOUS
<1>2. PICK f : IsNum(f, k, b) /\ Num(b, k) = f[k]
  BY <1>1, NumTable
<1>3. PICK e : IsNum(e, k, c) /\ Num(c, k) = e[k]
  BY <1>1, NumTable
<1>4. \A i \in 0 .. k : f[i] = e[i]
  BY <1>2, <1>3, NumTables
<1> QED
  BY <1>1, <1>2, <1>3, <1>4

\* The empty prefix.
LEMMA NumZero ==
    ASSUME NEW n \in Nat, NEW bytes \in Strings(n)
    PROVE  Num(bytes, 0) = 0
<1>1. 0 \in 0 .. n
  OBVIOUS
<1> QED
  BY <1>1, NumTable DEF IsNum

\* One more byte.
LEMMA NumStep ==
    ASSUME NEW n \in Nat, NEW bytes \in Strings(n), NEW k \in 0 .. n - 1
    PROVE  Num(bytes, k + 1) = Num(bytes, k) * 2^ByteBits + bytes[k]
<1>1. k \in 0 .. n /\ k + 1 \in 0 .. n /\ k \in 0 .. k /\ k \in Nat /\ k + 1 \in 1 .. k + 1 /\ (k + 1) - 1 = k
  OBVIOUS
<1>2. PICK f : IsNum(f, k, bytes) /\ Num(bytes, k) = f[k]
  BY <1>1, NumTable
<1>3. PICK e : IsNum(e, k + 1, bytes) /\ Num(bytes, k + 1) = e[k + 1]
  BY <1>1, NumTable
<1>4. IsNum(e, k, bytes)
  BY <1>1, <1>3 DEF IsNum
<1>5. f[k] = e[k]
  BY <1>1, <1>2, <1>4, NumTables
<1>6. e[k + 1] = e[(k + 1) - 1] * 2^ByteBits + bytes[(k + 1) - 1]
  BY <1>1, <1>3 DEF IsNum
<1> QED
  BY <1>1, <1>2, <1>3, <1>5, <1>6

\* k bytes give a number of at most k * ByteBits bits.
LEMMA NumFits ==
    ASSUME NEW n \in Nat, NEW bytes \in Strings(n)
    PROVE  \A k \in 0 .. n : Num(bytes, k) \in Nat /\ Num(bytes, k) < 2^(k * ByteBits)
<1> DEFINE A == {k \in Nat : k <= n => Num(bytes, k) \in Nat /\ Num(bytes, k) < 2^(k * ByteBits)}
<1>0. ByteBits \in Nat
  BY Radix
<1>1. 0 \in A
  <2>1. Num(bytes, 0) = 0
    BY NumZero
  <2>2. 2^(0 * ByteBits) = 1
    <3>1. 0 * ByteBits = 0
      BY <1>0
    <3> QED
      BY <3>1, TwoZero
  <2> QED
    BY <2>1, <2>2
<1>2. ASSUME NEW k \in A PROVE k + 1 \in A
  <2>1. k \in Nat /\ (k <= n => Num(bytes, k) \in Nat /\ Num(bytes, k) < 2^(k * ByteBits))
    OBVIOUS
  <2>2. ASSUME k + 1 <= n
        PROVE  Num(bytes, k + 1) \in Nat /\ Num(bytes, k + 1) < 2^((k + 1) * ByteBits)
    <3>1. k \in 0 .. n - 1 /\ k <= n
      BY <2>1, <2>2
    <3> DEFINE x == Num(bytes, k)
               B == 2^ByteBits
               d == bytes[k]
               P == 2^(k * ByteBits)
    <3>2. Num(bytes, k + 1) = x * B + d
      BY <3>1, NumStep
    <3>3. x \in Nat /\ x < P
      BY <2>1, <3>1
    <3>4. d \in Nat /\ d < B
      BY <3>1, ByteNat
    <3>5. k * ByteBits \in Nat /\ (k + 1) * ByteBits = k * ByteBits + ByteBits
      BY <1>0, <2>1
    <3>6. 2^((k + 1) * ByteBits) = P * B
      BY <1>0, <3>5, TwoAdd
    <3>7. P \in Nat /\ B \in Nat
      BY <1>0, <3>5, TwoPositive
    <3>8. x * B + d \in Nat /\ x * B + d < P * B
      <4> HIDE DEF x, B, d, P
      <4>1. x + 1 <= P /\ x + 1 \in Int /\ P \in Int
        BY <3>3, <3>7
      <4>2. (x + 1) * B <= P * B
        BY <4>1, <3>7, MulMono
      <4>3. (x + 1) * B = x * B + B /\ x * B \in Nat /\ P * B \in Nat
        BY <3>3, <3>7
      <4> QED
        BY <4>2, <4>3, <3>4, <3>7
    <3> HIDE DEF x, B, d, P
    <3> QED
      BY <3>2, <3>6, <3>8
  <2>3. k + 1 \in Nat
    BY <2>1
  <2> QED
    BY <2>2, <2>3
<1> HIDE DEF A
<1>3. A = Nat
  <2>1. A \subseteq Nat
    BY DEF A
  <2> QED
    BY <1>1, <1>2, <2>1, NatSetInduction
<1> QED
  BY <1>3 DEF A

\* One digit and what is before it are determined by the number.
LEMMA DigitUnique ==
    ASSUME NEW B \in Nat \ {0}, NEW x \in Nat, NEW y \in Nat, NEW c \in 0 .. B - 1, NEW d \in 0 .. B - 1,
           x * B + c = y * B + d
    PROVE  x = y /\ c = d
<1>1. x * B = B * x /\ y * B = B * y
  OBVIOUS
<1>2. (B * x + c) % B = c /\ (B * y + d) % B = d
  BY ModUnique
<1>3. c = d
  BY <1>1, <1>2
<1>4. x * B = y * B
  <2>1. x * B \in Int /\ y * B \in Int
    OBVIOUS
  <2>2. PICK s \in Int, t \in Int : s = x * B /\ t = y * B
    BY <2>1
  <2> QED
    BY <1>3, <2>2
<1>5. ~(x < y) /\ ~(y < x)
  <2>1. ASSUME NEW s \in Nat, NEW t \in Nat, s < t PROVE s * B # t * B
    <3>1. (s + 1) * B <= t * B
      BY <2>1, MulMono
    <3>2. (s + 1) * B = s * B + B /\ s * B \in Int /\ t * B \in Int
      OBVIOUS
    <3> QED
      BY <3>1, <3>2
  <2> QED
    BY <1>4, <2>1
<1> QED
  BY <1>3, <1>5

\* Different strings stand for different numbers.
LEMMA NumInjective ==
    ASSUME NEW n \in Nat, NEW b \in Strings(n), NEW c \in Strings(n), Num(b, n) = Num(c, n)
    PROVE  b = c
<1> DEFINE A == {k \in Nat : k <= n /\ Num(b, k) = Num(c, k) => \A i \in 0 .. k - 1 : b[i] = c[i]}
<1>1. 0 \in A
  OBVIOUS
<1>2. ASSUME NEW k \in A PROVE k + 1 \in A
  <2>1. k \in Nat /\ (k <= n /\ Num(b, k) = Num(c, k) => \A i \in 0 .. k - 1 : b[i] = c[i])
    OBVIOUS
  <2>2. ASSUME k + 1 <= n, Num(b, k + 1) = Num(c, k + 1)
        PROVE  \A i \in 0 .. (k + 1) - 1 : b[i] = c[i]
    <3>1. k \in 0 .. n - 1 /\ k \in 0 .. n /\ k <= n
      BY <2>1, <2>2
    <3>2. Num(b, k) * 2^ByteBits + b[k] = Num(c, k) * 2^ByteBits + c[k]
      BY <2>2, <3>1, NumStep
    <3>3. Num(b, k) \in Nat /\ Num(c, k) \in Nat
      BY <3>1, NumFits
    <3>4. b[k] \in 0 .. 2^ByteBits - 1 /\ c[k] \in 0 .. 2^ByteBits - 1
      BY <3>1 DEF Strings, Byte
    <3>5. Num(b, k) = Num(c, k) /\ b[k] = c[k]
      BY <3>2, <3>3, <3>4, Radix, DigitUnique
    <3> QED
      BY <2>1, <3>1, <3>5
  <2>3. k + 1 \in Nat
    BY <2>1
  <2> QED
    BY <2>2, <2>3
<1> HIDE DEF A
<1>3. A = Nat
  <2>1. A \subseteq Nat
    BY DEF A
  <2> QED
    BY <1>1, <1>2, <2>1, NatSetInduction
<1>4. \A i \in 0 .. n - 1 : b[i] = c[i]
  BY <1>3 DEF A
<1> QED
  BY <1>4 DEF Strings

\* Every number that fits is read from some string.
LEMMA NumSurjective ==
    ASSUME NEW n \in Nat, NEW x \in 0 .. 2^(n * ByteBits) - 1
    PROVE  \E b \in Strings(n) : Num(b, n) = x
<1> DEFINE A == {k \in Nat : \A y \in Nat : y < 2^(k * ByteBits) => \E b \in Strings(k) : Num(b, k) = y}
<1>0. ByteBits \in Nat
  BY Radix
<1>1. 0 \in A
  <2>1. 2^(0 * ByteBits) = 1
    <3>1. 0 * ByteBits = 0
      BY <1>0
    <3> QED
      BY <3>1, TwoZero
  <2>2. \E b : b \in Strings(0)
    <3>1. [i \in 0 .. 0 - 1 |-> 0] \in Strings(0)
      <4>1. 0 .. 0 - 1 = {}
        OBVIOUS
      <4> QED
        BY <4>1 DEF Strings
    <3> QED
      BY <3>1
  <2>3. PICK b : b \in Strings(0)
    BY <2>2
  <2>4. Num(b, 0) = 0
    BY <2>3, NumZero
  <2>5. \A y \in Nat : y < 2^(0 * ByteBits) => y = 0
    BY <2>1
  <2> QED
    BY <2>3, <2>4, <2>5
<1>2. ASSUME NEW k \in A PROVE k + 1 \in A
  <2>1. k \in Nat /\ \A y \in Nat : y < 2^(k * ByteBits) => \E b \in Strings(k) : Num(b, k) = y
    OBVIOUS
  <2>2. ASSUME NEW y \in Nat, y < 2^((k + 1) * ByteBits)
        PROVE  \E b \in Strings(k + 1) : Num(b, k + 1) = y
    <3> DEFINE B == 2^ByteBits
               P == 2^(k * ByteBits)
               z == y \div B
               d == y % B
    <3>1. k * ByteBits \in Nat /\ (k + 1) * ByteBits = k * ByteBits + ByteBits
      BY <1>0, <2>1
    <3>2. 2^((k + 1) * ByteBits) = P * B
      BY <1>0, <3>1, TwoAdd
    <3>3. P \in Nat /\ B \in Nat \ {0}
      BY <1>0, <3>1, TwoPositive
    <3>4. z \in Nat /\ z < P
      <4> HIDE DEF B, P
      <4>1. y < P * B
        BY <2>2, <3>2
      <4> QED
        BY <3>3, <4>1, BlockOf, BlockBelow
    <3>5. d \in 0 .. B - 1 /\ y = z * B + d
      <4> HIDE DEF B
      <4>1. d \in 0 .. B - 1 /\ z \in Int /\ y = B * z + d
        BY <3>3, ModDef
      <4>2. B * z = z * B
        BY <3>3, <4>1
      <4> QED
        BY <4>1, <4>2
    <3>6. PICK b \in Strings(k) : Num(b, k) = z
      BY <2>1, <3>4
    <3> DEFINE c == [i \in 0 .. (k + 1) - 1 |-> IF i = k THEN d ELSE b[i]]
    <3> HIDE DEF z, d
    <3>7. c \in Strings(k + 1) /\ c[k] = d /\ \A i \in 0 .. k - 1 : b[i] = c[i]
      <4>1. d \in Byte
        BY <3>5 DEF Byte
      <4>2. \A i \in 0 .. (k + 1) - 1 : i = k \/ i \in 0 .. k - 1
        BY <2>1
      <4>3. k \in 0 .. (k + 1) - 1
        BY <2>1
      <4>4. \A i \in 0 .. k - 1 : i \in 0 .. (k + 1) - 1 /\ i # k
        BY <2>1
      <4>5. c \in Strings(k + 1)
        BY <4>1, <4>2 DEF Strings
      <4> QED
        BY <4>3, <4>4, <4>5
    <3> HIDE DEF c
    <3>8. Num(c, k) = z
      <4>1. k + 1 \in Nat /\ k <= k /\ k <= k + 1
        BY <2>1
      <4>2. Num(b, k) = Num(c, k)
        BY <2>1, <3>6, <3>7, <4>1, NumPrefix
      <4> QED
        BY <3>6, <4>2
    <3>9. Num(c, k + 1) = Num(c, k) * B + c[k]
      <4>1. k + 1 \in Nat /\ k \in 0 .. (k + 1) - 1
        BY <2>1
      <4> QED
        BY <3>7, <4>1, NumStep
    <3> HIDE DEF B
    <3>10. Num(c, k + 1) = y
      BY <3>5, <3>7, <3>8, <3>9
    <3> QED
      BY <3>7, <3>10
  <2>3. k + 1 \in Nat
    BY <2>1
  <2> QED
    BY <2>2, <2>3
<1> HIDE DEF A
<1>3. A = Nat
  <2>1. A \subseteq Nat
    BY DEF A
  <2> QED
    BY <1>1, <1>2, <2>1, NatSetInduction
<1>4. \A y \in Nat : y < 2^(n * ByteBits) => \E b \in Strings(n) : Num(b, n) = y
  BY <1>3 DEF A
<1>5. x \in Nat /\ x < 2^(n * ByteBits)
  <2>1. n * ByteBits \in Nat
    BY <1>0
  <2>2. 2^(n * ByteBits) \in Nat
    BY <2>1, TwoPositive
  <2> DEFINE T == 2^(n * ByteBits)
  <2>3. x \in 0 .. T - 1 /\ T \in Nat
    BY <2>2
  <2> HIDE DEF T
  <2>4. x \in Nat /\ x < T
    BY <2>3
  <2> QED
    BY <2>4 DEF T
<1> QED
  BY <1>4, <1>5

\* The bytes of a request hold all its bits.
LEMMA BytesHoldBits ==
    ASSUME NEW nbits \in Nat
    PROVE  NumBytes(nbits) \in Nat /\ NumBytes(nbits) * ByteBits - nbits \in Nat
<1> DEFINE t == nbits + ByteBits - 1
           k == t \div ByteBits
<1>1. ByteBits \in Nat \ {0} /\ t \in Nat
  BY Radix
<1>2. NumBytes(nbits) = k
  BY DEF NumBytes
<1>3. k \in Nat /\ t <= k * ByteBits + ByteBits - 1
  <2> HIDE DEF t
  <2> QED
    BY <1>1, BlockOf
<1> HIDE DEF k
<1>4. k * ByteBits \in Nat
  BY <1>1, <1>3
<1>5. PICK w \in Nat : w = k * ByteBits
  BY <1>4
<1>6. w - nbits \in Nat
  BY <1>1, <1>3, <1>5
<1> QED
  BY <1>2, <1>3, <1>5, <1>6

\* mpz_sizeinbase: a positive number has a size, and it is below 2 to its size.
LEMMA SizeFits ==
    ASSUME NEW n \in Nat \ {0}
    PROVE  SizeInBase2(n) \in Nat /\ n < 2^SizeInBase2(n)
<1> DEFINE W == {k \in Nat : 2^k <= n}
<1>1. 0 \in W
  BY TwoZero
<1>2. \E j \in 0 .. n : j \in W /\ \A k \in j + 1 .. n : k \notin W
  <2>1. n \in Nat
    OBVIOUS
  <2> HIDE DEF W
  <2> QED
    BY <1>1, <2>1, LargestExists
<1>3. PICK j \in 0 .. n : j \in W /\ \A k \in j + 1 .. n : k \notin W
  BY <1>2
<1>4. j # n
  <2>1. n < 2^n /\ 2^n \in Nat
    BY TwoPositive
  <2> QED
    BY <1>3, <2>1
<1>5. j + 1 \in 1 .. n /\ j + 1 \in j + 1 .. n /\ (j + 1) - 1 = j /\ j + 1 \in Nat
  BY <1>3, <1>4
<1>6. 2^j <= n /\ n < 2^(j + 1)
  <2>1. ~(2^(j + 1) <= n)
    BY <1>3, <1>5
  <2>2. 2^(j + 1) \in Nat
    BY <1>5, TwoPositive
  <2> QED
    BY <1>3, <2>1, <2>2
<1>7. \E k \in 1 .. n : 2^(k - 1) <= n /\ n < 2^k
  BY <1>5, <1>6
<1>8. SizeInBase2(n) \in 1 .. n /\ n < 2^SizeInBase2(n)
  BY <1>7 DEF SizeInBase2
<1> QED
  BY <1>8

\* fast_mpz_import and the shift: the number, without its last bits.
LEMMA ImportIsNum ==
    ASSUME NEW bytes, NEW nbits
    PROVE  Import(bytes, nbits)
             = Num(bytes, NumBytes(nbits)) \div 2^(NumBytes(nbits) * ByteBits - nbits)
  BY DEF Import, Num

\* Dividing by E undoes multiplication by E.
LEMMA Quotient ==
    ASSUME NEW E \in Nat \ {0}, NEW v \in Nat, NEW x \in Nat
    PROVE  x \div E = v <=> x \in v * E .. v * E + E - 1
<1> DEFINE d == x \div E
           e == x % E
<1>0. x \in Int
  OBVIOUS
<1>1. d \in Int /\ e \in 0 .. E - 1 /\ x = E * d + e /\ d \in Nat
  <2>1. d \in Int /\ e \in 0 .. E - 1 /\ x = E * d + e
    BY <1>0, ModDef
  <2>2. d \in Nat
    BY BlockOf
  <2> QED
    BY <2>1, <2>2
<1> HIDE DEF d, e
<1>2. E * d = d * E /\ d * E \in Int /\ v * E \in Int
  BY <1>1
<1>3. ASSUME d = v PROVE x \in v * E .. v * E + E - 1
  <2>1. PICK w \in Int : w = v * E
    BY <1>2
  <2>2. x = w + e
    BY <1>1, <1>2, <1>3, <2>1
  <2> QED
    BY <1>1, <2>1, <2>2
<1>4. ASSUME x \in v * E .. v * E + E - 1 PROVE d = v
  <2>1. PICK w \in Int : w = v * E
    BY <1>2
  <2>2. x - w \in 0 .. E - 1 /\ x = w + (x - w)
    BY <1>4, <2>1
  <2>3. PICK c \in 0 .. E - 1 : x = w + c
    BY <2>2
  <2>4. d * E + e = v * E + c
    BY <1>1, <1>2, <2>1, <2>3
  <2> QED
    BY <1>1, <2>4, DigitUnique
<1> QED
  BY <1>3, <1>4 DEF d

\* The strings that give v are as many as the values the dropped bits can take.
LEMMA PreimageSize ==
    ASSUME NEW nbits \in Nat, NEW v \in Nat, v < 2^nbits
    PROVE  Cardinality(Preimage(v, nbits)) = 2^(NumBytes(nbits) * ByteBits - nbits)
<1> DEFINE k == NumBytes(nbits)
           x == k * ByteBits - nbits
           E == 2^x
           T == 2^(k * ByteBits)
           U == 2^nbits
           S == 0 .. E - 1
           Q == Preimage(v, nbits)
<1>1. k \in Nat /\ x \in Nat
  BY BytesHoldBits
<1>2. E \in Nat \ {0} /\ U \in Nat
  <2> HIDE DEF x
  <2> QED
    BY <1>1, TwoPositive
<1>3. k * ByteBits = nbits + x /\ k * ByteBits \in Nat
  <2>1. ByteBits \in Nat
    BY Radix
  <2> HIDE DEF k
  <2>2. k * ByteBits \in Nat
    BY <1>1, <2>1
  <2> QED
    BY <2>2
<1>4. T = U * E
  <2>1. 2^(nbits + x) = U * E
    <3> HIDE DEF x
    <3> QED
      BY <1>1, TwoAdd
  <2> QED
    BY <1>3, <2>1
<1>5. \A r \in S : v * E + r \in 0 .. T - 1 /\ v * E + r \in v * E .. v * E + E - 1 /\ v * E + r \in Nat
  <2> SUFFICES ASSUME NEW r \in S
               PROVE  v * E + r \in 0 .. T - 1 /\ v * E + r \in v * E .. v * E + E - 1 /\ v * E + r \in Nat
    OBVIOUS
  <2>0. v < U
    OBVIOUS
  <2> HIDE DEF E, T, U
  <2>1. v + 1 <= U /\ v + 1 \in Int /\ U \in Int
    BY <1>2, <2>0
  <2>2. (v + 1) * E <= U * E
    BY <1>2, <2>1, MulMono
  <2>3. (v + 1) * E = v * E + E /\ v * E \in Nat /\ U * E \in Nat
    BY <1>2
  <2> QED
    BY <1>2, <1>4, <2>2, <2>3
<1>6. \A b \in Strings(k) : b \in Q <=> Num(b, k) \in v * E .. v * E + E - 1
  <2> SUFFICES ASSUME NEW b \in Strings(k) PROVE b \in Q <=> Num(b, k) \in v * E .. v * E + E - 1
    OBVIOUS
  <2>1. b \in Q <=> Num(b, k) \div E = v
    BY ImportIsNum DEF Preimage, Strings
  <2>2. Num(b, k) \in Nat
    <3>1. k \in 0 .. k
      BY <1>1
    <3> HIDE DEF k
    <3> QED
      BY <1>1, <3>1, NumFits
  <2> HIDE DEF E, Q, k
  <2> QED
    BY <1>2, <2>1, <2>2, Quotient
<1>7. Q \subseteq Strings(k)
  BY DEF Preimage, Strings
<1>8. \A r \in S : \E b \in Strings(k) : Num(b, k) = v * E + r
  <2> SUFFICES ASSUME NEW r \in S PROVE \E b \in Strings(k) : Num(b, k) = v * E + r
    OBVIOUS
  <2>1. v * E + r \in 0 .. 2^(k * ByteBits) - 1
    BY <1>5
  <2> HIDE DEF k, E
  <2> QED
    BY <1>1, <2>1, NumSurjective
<1> DEFINE F == [r \in S |-> CHOOSE b \in Strings(k) : Num(b, k) = v * E + r]
<1>9. \A r \in S : F[r] \in Strings(k) /\ Num(F[r], k) = v * E + r
  <2> HIDE DEF k, E, S
  <2> QED
    BY <1>8
<1> HIDE DEF F, Q, T, U
<1>10. F \in [S -> Q]
  <2>1. \A r \in S : F[r] \in Q
    BY <1>5, <1>6, <1>9
  <2> QED
    BY <2>1 DEF F
<1>11. \A a, b \in S : F[a] = F[b] => a = b
  <2> SUFFICES ASSUME NEW a \in S, NEW b \in S, F[a] = F[b] PROVE a = b
    OBVIOUS
  <2>1. v * E + a = v * E + b
    BY <1>9
  <2>2. a \in Nat /\ b \in Nat
    OBVIOUS
  <2> HIDE DEF E
  <2> QED
    BY <1>2, <2>1, <2>2
<1>12. \A b \in Q : \E r \in S : F[r] = b
  <2> SUFFICES ASSUME NEW b \in Q PROVE \E r \in S : F[r] = b
    OBVIOUS
  <2>1. b \in Strings(k) /\ Num(b, k) \in v * E .. v * E + E - 1
    BY <1>6, <1>7
  <2> DEFINE r == Num(b, k) - v * E
  <2>2. r \in S /\ v * E + r = Num(b, k)
    <3>1. v * E \in Nat /\ E \in Nat
      BY <1>2
    <3>2. PICK w \in Nat : w = v * E
      BY <3>1
    <3>3. PICK y \in Int : y = Num(b, k)
      BY <2>1
    <3> HIDE DEF E
    <3> QED
      BY <2>1, <3>1, <3>2, <3>3
  <2> HIDE DEF r
  <2>3. Num(F[r], k) = Num(b, k) /\ F[r] \in Strings(k)
    BY <1>9, <2>2
  <2>4. F[r] = b
    <3> HIDE DEF k
    <3> QED
      BY <1>1, <2>1, <2>3, NumInjective
  <2> QED
    BY <2>2, <2>4
<1>13. IsFiniteSet(S) /\ Cardinality(S) = E
  <2> HIDE DEF E
  <2>1. 0 \in Int /\ E - 1 \in Int
    BY <1>2
  <2>2. IsFiniteSet(S) /\ Cardinality(S) = IF 0 > E - 1 THEN 0 ELSE (E - 1) - 0 + 1
    BY <2>1, FS_Interval
  <2> QED
    BY <1>2, <2>2
<1>14. Cardinality(Q) = Cardinality(S)
  <2> HIDE DEF S
  <2> QED
    BY <1>10, <1>11, <1>12, <1>13, SameSize
<1> QED
  BY <1>13, <1>14 DEF Q

\* For a modulus: every value below it is as likely as 0.
LEMMA EquallyLikely ==
    ASSUME NEW n \in Nat \ {0}, NEW v \in 0 .. n - 1
    PROVE  /\ Cardinality(Preimage(v, SizeInBase2(n))) = Cardinality(Preimage(0, SizeInBase2(n)))
           /\ Cardinality(Preimage(v, SizeInBase2(n))) > 0
<1> DEFINE b == SizeInBase2(n)
           x == NumBytes(b) * ByteBits - b
<1>1. b \in Nat /\ n < 2^b
  BY SizeFits
<1>2. 2^b \in Nat
  <2> HIDE DEF b
  <2> QED
    BY <1>1, TwoPositive
<1>3. v \in Nat /\ v < 2^b /\ 0 < 2^b /\ 0 \in Nat
  <2>1. PICK t \in Nat : t = 2^b
    BY <1>2
  <2> QED
    BY <1>1, <2>1
<1> HIDE DEF b
<1>4. Cardinality(Preimage(v, b)) = 2^x /\ Cardinality(Preimage(0, b)) = 2^x
  BY <1>1, <1>3, PreimageSize
<1>5. x \in Nat
  BY <1>1, BytesHoldBits
<1>6. 2^x \in Nat \ {0}
  <2> HIDE DEF x
  <2> QED
    BY <1>5, TwoPositive
<1> QED
  BY <1>4, <1>6 DEF b

\* get_random favours no value: whatever modulus is asked for, or asked for
\* again after a rejected draw, and whatever the size of a byte, as many strings
\* of bytes give one value below it as give another, and some do
\* (mpz_sizeinbase, fast_mpz_import, the shift and the test m >= n).
THEOREM UnbiasedAlways == Spec => []Unbiased
<1>1. IInv => Unbiased
  <2> SUFFICES ASSUME IInv, NEW n \in IF pending = 0 THEN Moduli ELSE {pending}
               PROVE  LET count == [v \in 0 .. n - 1 |-> Cardinality(Preimage(v, SizeInBase2(n)))]
                      IN  \A v \in 0 .. n - 1 : count[v] = count[0] /\ count[v] > 0
    BY DEF Unbiased
  <2> DEFINE C(v) == Cardinality(Preimage(v, SizeInBase2(n)))
             count == [v \in 0 .. n - 1 |-> C(v)]
  <2>1. CASE n \notin Nat \ {0}
    <3>1. n \in Moduli \cup {0}
      BY DEF IInv, Window
    <3>2. n = 0 /\ 0 .. n - 1 = {}
      BY <2>1, <3>1, PrngAssumption
    <3> QED
      BY <3>2
  <2>2. CASE n \in Nat \ {0}
    <3>1. \A v \in 0 .. n - 1 : C(v) = C(0) /\ C(v) > 0
      BY <2>2, EquallyLikely
    <3>2. 0 \in 0 .. n - 1
      BY <2>2
    <3> HIDE DEF C
    <3>3. \A v \in 0 .. n - 1 : count[v] = count[0] /\ count[v] > 0
      BY <3>1, <3>2
    <3> QED
      BY <3>3 DEF C
  <2> QED
    BY <2>1, <2>2
<1> QED BY IInvAlways, <1>1, PTL

=============================================================================
