----------------------------- MODULE AppCircuits ------------------------------
(***************************************************************************)
(* The hand-written circuits of the CMT argument: Hamming distance         *)
(* (hamdist_circuit.cpp) and matrix multiplication, checked by the outputs *)
(* it computes (CMT++) or by comparison with claimed outputs (original     *)
(* CMT; matmul_circuit.cpp).  A circuit is a sequence of levels from the   *)
(* inputs up, in the order in which makeLevel is called; level l of the    *)
(* code, counted from the output, is circuit[depth - l].                   *)
(* A level has its gates' wiring and the names of its two closed forms.    *)
(***************************************************************************)
EXTENDS WiringPredicates, TLC

Gate(type, in1, in2) == [type |-> type, in1 |-> in1, in2 |-> in2]

psub1 == prime - 1

\* Mutant: one bit short.
MutgetFLTDepth == CHOOSE k \in 1 .. 31 : 2^k <= psub1 /\ psub1 < 2^(k + 1)

\* The number of bits of p - 1.
getFLTDepth == CHOOSE k \in 1 .. 31 : 2^(k - 1) <= psub1 /\ psub1 < 2^k

-----------------------------------------------------------------------------
(* Wiring patterns (basic_cmt_circuit.cpp), for gates start .. end-1 over a *)
(* level of below gates.                                                   *)

addToLastGate(start, end, shift, below) ==
    [i \in start .. end - 1 |-> Gate("ADD", shift + i, below - 1)]

makeMulGates(start, end, shift) == [i \in start .. end - 1 |-> Gate("MUL", i, shift + i)]
makeAddGates(start, end, shift) == [i \in start .. end - 1 |-> Gate("ADD", i, shift + i)]

makeReduceLayer(type, start, end) == [i \in start .. end - 1 |-> Gate(type, 2 * i, 2 * i + 1)]

\* Bit 1 of p - 1 is taken to be set: the even gates keep the square whatever it is.
makeFLTLvl2(start, end, below) ==
    [i \in start .. end - 1 |-> IF i % 2 = 1 THEN Gate("MUL", i \div 2, i \div 2)
                                ELSE Gate("ADD", i \div 2, below - 1)]

makeFLTGeneral(start, end, bit_num, below) ==
    [i \in start .. end - 1 |->
        IF i % 2 = 1 THEN Gate("MUL", i, i)
        ELSE IF Bit(psub1, bit_num) = 1 THEN Gate("MUL", i, i + 1)
        ELSE Gate("ADD", i, below - 1)]

makeFLTLast(start, end) == makeReduceLayer("MUL", start, end)

-----------------------------------------------------------------------------

Level(size, add_fn, mul_fn, wiring) ==
    [size |-> size, add_fn |-> add_fn, mul_fn |-> mul_fn, gates |-> wiring]

\* The wiring of an input level is never set.
InputLevel(size) == Level(size, "zero", "zero", [i \in 0 .. size - 1 |-> Gate("ADD", 0, 0)])

\* The levels that raise every value to the power p - 1: one per bit from bit 2 to
\* the last but one.
MiddleBits == [k \in 1 .. getFLTDepth - 3 |-> k + 1]

HamdistCircuit(d) ==
    LET n == 2^d
        bitFn(name, i) == <<name, Bit(psub1, i)>>
    IN  << InputLevel(2 * n + 2),
           \* First, add the two vectors.
           Level(n + 2, "wrap_sum_vec", "zero",
                 makeAddGates(0, n, n) @@ addToLastGate(n, n + 2, n, 2 * n + 2)),
           \* Squares.
           Level(n + 2, "add_last_two", "hamdist_flt_mul_lvl1",
                 makeMulGates(0, n, 0) @@ addToLastGate(n, n + 2, 0, n + 2)),
           Level(2 * n + 2, "wrap_flt_add_lvl2", "hamdist_flt_mul_lvl2",
                 makeFLTLvl2(0, 2 * n, n + 2) @@ addToLastGate(2 * n, 2 * n + 2, -n, n + 2)) >>
        \o [k \in DOMAIN MiddleBits |->
              Level(2 * n + 2, bitFn("wrap_flt_add", MiddleBits[k]), bitFn("hamdist_flt_mul", MiddleBits[k]),
                    makeFLTGeneral(0, 2 * n, MiddleBits[k], 2 * n + 2)
                      @@ addToLastGate(2 * n, 2 * n + 2, 0, 2 * n + 2))]
        \o << Level(n + 2, "add_last_two", "hamdist_reduce",
                    makeFLTLast(0, n) @@ addToLastGate(n, n + 2, n, 2 * n + 2)) >>
        \* Add up all the powers.
        \o [k \in 1 .. d - 1 |->
              LET size == 2^(d - k)
              IN  Level(size + 2, "wrap_reduce", "zero",
                        makeReduceLayer("ADD", 0, size) @@ addToLastGate(size, size + 2, size, 2 * size + 2))]
        \* Add the claimed result.
        \o << Level(2, "reduce", "zero", makeReduceLayer("ADD", 0, 2)),
              Level(1, "reduce", "zero", makeReduceLayer("ADD", 0, 1)) >>

\* Bits of a gate's number: the k-th group of d bits.
Group(idx, d, k) == (idx \div 2^(k * d)) % 2^d

\* CMT++: gate (j, i, k) is A[i][k] * B[k][j]; then halves are added d times.
MatmulPPCircuit(d) ==
    LET n == 2^d
    IN  << InputLevel(2 * n * n),
           Level(n^3, "zero", "mat_sq",
                 [idx \in 0 .. n^3 - 1 |->
                    LET j == Group(idx, d, 0)
                        i == Group(idx, d, 1)
                        k == Group(idx, d, 2)
                    IN  Gate("MUL", i * n + k, n * n + k * n + j)]) >>
        \o [s \in 1 .. d |->
              LET size == n^3 \div 2^s
              IN  Level(size, "mat_reduce", "zero", [idx \in 0 .. size - 1 |-> Gate("ADD", idx, size + idx)])]

\* The claimed entries and the zero of a level, copied from the level below.
CarryClaim(size, n2, below) ==
    [i \in size - n2 - 1 .. size - 1 |-> Gate("ADD", below - (size - i), below - 1)]

\* Original CMT: the claimed entries (negated) travel up beside the products, the
\* differences are raised to the power p - 1 and added up.
MatmulCircuit(d) ==
    LET n  == 2^d
        n2 == n * n
        n3 == n2 * n
        flt_top == getFLTDepth + 2 * d
        sumSize(s) == n3 \div 2^s + n2 + 1
        bitFn(name, i) == <<name, Bit(psub1, flt_top - i - 1)>>
    IN  << InputLevel(3 * n2 + 1),
           Level(n3 + n2 + 1, "mat_add_63_p3d", "mat_mult_63_p3d",
                 [idx \in 0 .. n3 - 1 |->
                    LET k == Group(idx, d, 0)
                        j == Group(idx, d, 1)
                        i == Group(idx, d, 2)
                    IN  Gate("MUL", i * n + k, n2 + k * n + j)]
                 @@ CarryClaim(n3 + n2 + 1, n2, 3 * n2 + 1)) >>
        \o [s \in 1 .. d |->
              Level(sumSize(s), IF s = d THEN "mat_add_61_p2dp1" ELSE "mat_add_below_63_p3d", "zero",
                    makeReduceLayer("ADD", 0, n3 \div 2^s) @@ CarryClaim(sumSize(s), n2, sumSize(s - 1)))]
        \o << Level(n2 + 1, "mat_add_61_p2d", "zero",
                    makeAddGates(0, n2, n2) @@ addToLastGate(n2, n2 + 1, n2, 2 * n2 + 1)),
              Level(n2 + 1, "zero", "FLT_mul_lvl1",
                    makeMulGates(0, n2, 0) @@ addToLastGate(n2, n2 + 1, 0, n2 + 1)),
              Level(2 * n2 + 1, "FLT_add_lvl2", "FLT_mul_lvl2",
                    makeFLTLvl2(0, 2 * n2, n2 + 1) @@ (2 * n2 :> Gate("ADD", n2, n2))) >>
        \o [k \in DOMAIN MiddleBits |->
              Level(2 * n2 + 1, bitFn("FLT_add", MiddleBits[k]), bitFn("FLT_mul", MiddleBits[k]),
                    makeFLTGeneral(0, 2 * n2, MiddleBits[k], 2 * n2 + 1)
                      @@ addToLastGate(2 * n2, 2 * n2 + 1, 0, 2 * n2 + 1))]
        \o << Level(n2, "zero", "F0mult_d", makeFLTLast(0, n2)) >>
        \o [k \in 1 .. 2 * d |-> Level(n2 \div 2^k, "zero", "zero", makeReduceLayer("ADD", 0, n2 \div 2^k))]

-----------------------------------------------------------------------------

ClosedForm(fn, at) ==
    CASE fn = "zero"                 -> 0
      [] fn = "reduce"               -> reduce(at)
      [] fn = "add_last_two"         -> hamdist_add_last_two(at)
      [] fn = "wrap_sum_vec"         -> hamdist_add_wrap(hamdist_sum_vec(at), at)
      [] fn = "wrap_reduce"          -> hamdist_add_wrap(hamdist_reduce(at), at)
      [] fn = "wrap_flt_add_lvl2"    -> hamdist_add_wrap(hamdist_flt_add_lvl2(at), at)
      [] fn = "hamdist_reduce"       -> hamdist_reduce(at)
      [] fn = "hamdist_flt_mul_lvl1" -> hamdist_flt_mul_lvl1(at)
      [] fn = "hamdist_flt_mul_lvl2" -> hamdist_flt_mul_lvl2(at)
      [] fn = "mat_sq"               -> mat_sq(at)
      [] fn = "mat_reduce"           -> mat_reduce(at)
      [] fn = "mat_add_63_p3d"       -> mat_add_63_p3d(at)
      [] fn = "mat_mult_63_p3d"      -> mat_mult_63_p3d(at)
      [] fn = "mat_add_below_63_p3d" -> mat_add_below_63_p3d(at)
      [] fn = "mat_add_61_p2dp1"     -> mat_add_61_p2dp1(at)
      [] fn = "mat_add_61_p2d"       -> mat_add_61_p2d(at)
      [] fn = "F0mult_d"             -> F0mult_d(at)
      [] fn = "FLT_mul_lvl1"         -> FLT_mul_lvl1(at)
      [] fn = "FLT_mul_lvl2"         -> FLT_mul_lvl2(at)
      [] fn = "FLT_add_lvl2"         -> FLT_add_lvl2(at)
      [] OTHER -> CASE fn[1] = "wrap_flt_add"    -> hamdist_add_wrap(hamdist_flt_add(fn[2], at), at)
                    [] fn[1] = "hamdist_flt_mul" -> hamdist_flt_mul(fn[2], at)
                    [] fn[1] = "FLT_add"         -> FLT_add(fn[2], at)
                    [] fn[1] = "FLT_mul"         -> FLT_mul(fn[2], at)

=============================================================================
