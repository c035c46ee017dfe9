--------------------------- MODULE WiringPredicates ---------------------------
(***************************************************************************)
(* The closed forms with which the CMT verifier evaluates the wiring       *)
(* predicates of a layer without looking at its gates (cmtgkr_env.cpp,     *)
(* wiremle_hamdist.cpp, wiremle_flt.cpp, apps/matmul_circuit.cpp).         *)
(*                                                                         *)
(* Each form takes a record at = [r, mi, mip1, ni, nip1]: a layer of ni    *)
(* gates above one of nip1, mi and mip1 bits to number them, and the point *)
(* r, whose first mi coordinates stand for the gate p, the next mip1 for   *)
(* its first input and the last mip1 for its second.                       *)
(***************************************************************************)
EXTENDS PrimeField, Sequences

W1(at) == at.mi
W2(at) == at.mi + at.mip1

\* The coordinates start .. end-1 behind the offsets in from stand for the same bits.
check_equal(at, from, start, end) ==
    Product([i \in start .. end - 1 |->
        Product([k \in DOMAIN from |-> at.r[from[k] + i]])
          + Product([k \in DOMAIN from |-> one_sub(at.r[from[k] + i])])])

\* ... and all of them are 0.
check_zero(at, from, start, end) ==
    Product([i \in start .. end - 1 |-> Product([k \in DOMAIN from |-> one_sub(at.r[from[k] + i])])])

\* Coordinate i is 0, is 1.
IsZero(at, i) == one_sub(at.r[i])
IsOne(at, i)  == at.r[i]

\* The n coordinates behind an offset are the bits of v.
chiAt(v, at, from, n) == chi(v, [i \in 0 .. n - 1 |-> at.r[from + i]], n)

check_wiring(at, out, in1, in2) ==
    modmult(chiAt(out, at, 0, at.mi) * chiAt(in1, at, W1(at), at.mip1), chiAt(in2, at, W2(at), at.mip1))

SecondIsLast(at) == chiAt(at.nip1 - 1, at, W2(at), at.mip1)

\* The last gate is the sum of the last gate below with itself.
LastIsLast(at) == check_wiring(at, at.ni - 1, at.nip1 - 1, at.nip1 - 1)

-----------------------------------------------------------------------------
(* Forms of cmtgkr_env.cpp. *)

\* p = in1 = in2
F2_mult_d(at) == check_equal(at, <<0, W1(at), W2(at)>>, 0, at.mi)

\* in1 = 2p, in2 = 2p + 1
reduce(at) ==
    Product(<<IF at.ni = 1 THEN IsZero(at, 0)
              ELSE check_equal(at, <<0, W1(at) + 1, W2(at) + 1>>, 0, at.mip1 - 1),
              IsZero(at, W1(at)), IsOne(at, W2(at))>>)

F0mult_d(at) == reduce(at)

\* A claimed product entry, carried over: p = (j, i, 0, 1), in1 = (j, i, 0, 1).
mat_add_63_p3d(at) ==
    LET d == (at.mi - 1) \div 3
    IN  Product(<<IsOne(at, at.mi - 1), check_zero(at, <<2 * d>>, 0, d),
                  IsZero(at, W1(at) + 2 * d), IsOne(at, W1(at) + 2 * d + 1),
                  check_equal(at, <<0, W1(at)>>, 0, 2 * d), SecondIsLast(at)>>)
      + LastIsLast(at)

\* p = (k, j, i, 0), in1 = (k, i, 0, 0), in2 = (j, k, 1, 0)
mat_mult_63_p3d(at) ==
    LET d == (at.mi - 1) \div 3
    IN  Product(<<IsZero(at, at.mi - 1),
                  check_zero(at, <<W1(at)>>, at.mip1 - 2, at.mip1),
                  IsZero(at, W2(at) + at.mip1 - 1), IsOne(at, W2(at) + at.mip1 - 2),
                  check_equal(at, <<2 * d, W1(at) + d>>, 0, d),
                  check_equal(at, <<0, W1(at), W2(at) + d>>, 0, d),
                  check_equal(at, <<d, W2(at)>>, 0, d)>>)

\* floor(Log2(x)/2 + 0.5)
HalfLog(x) == CHOOSE k \in 0 .. 15 : 2^(2 * k) <= 2 * x /\ 2 * x < 2^(2 * k + 2)

\* Sums of neighbours while p < 2^(mi-1), and the claimed entries carried over.
mat_add_below_63_p3d(at) ==
    LET d == HalfLog(at.ni - 2^(at.mi - 1) - 1)
        i == 3 * d - (at.mi - 1)
    IN  ( Product(<<IsZero(at, at.mi - 1), IsZero(at, W1(at) + at.mip1 - 1), IsZero(at, W2(at) + at.mip1 - 1),
                    check_equal(at, <<0, W1(at) + 1, W2(at) + 1>>, 0, at.mi - 1),
                    IsZero(at, W1(at)), IsOne(at, W2(at))>>)
          + Product(<<IsOne(at, at.mi - 1), check_zero(at, <<2 * d>>, 0, d - i),
                      IsOne(at, W1(at) + at.mip1 - 1), check_zero(at, <<W1(at) + 2 * d>>, 0, d - i + 1),
                      check_equal(at, <<0, W1(at)>>, 0, 2 * d), SecondIsLast(at)>>)
          + LastIsLast(at) ) % prime

\* The last of these levels: entries of the product and of the claim are equally many.
mat_add_61_p2dp1(at) ==
    LET d == HalfLog(at.ni - 2^(at.mi - 2) - 1)
    IN  ( Product(<<IsZero(at, at.mi - 1), IsZero(at, at.mi - 2),
                    IsZero(at, W1(at) + at.mip1 - 1), IsZero(at, W2(at) + at.mip1 - 1),
                    check_equal(at, <<0, W1(at) + 1, W2(at) + 1>>, 0, at.mi - 2),
                    IsZero(at, W1(at)), IsOne(at, W2(at))>>)
          + Product(<<IsZero(at, at.mi - 1), IsOne(at, at.mi - 2),
                      IsZero(at, W1(at) + at.mip1 - 2), IsOne(at, W1(at) + at.mip1 - 1),
                      check_equal(at, <<0, W1(at)>>, 0, 2 * d), SecondIsLast(at)>>)
          + LastIsLast(at) ) % prime

\* An entry of the product and its claim: in1 = (p, 0, 0), in2 = (p, 1, 0).
mat_add_61_p2d(at) ==
    ( Product(<<IsZero(at, at.mi - 1), check_equal(at, <<0, W1(at), W2(at)>>, 0, at.mi - 1),
                check_zero(at, <<W1(at)>>, at.mip1 - 2, at.mip1),
                IsZero(at, W2(at) + at.mip1 - 1), IsOne(at, W2(at) + at.mip1 - 2)>>)
      + LastIsLast(at) ) % prime

-----------------------------------------------------------------------------
(* Forms of matmul_circuit.cpp. *)

\* p = (j, i, k), in1 = (k, i, 0), in2 = (j, k, 1)
mat_sq(at) ==
    LET d == at.mi \div 3
    IN  Product(<<check_equal(at, <<0, W2(at)>>, 0, d), check_equal(at, <<d, W1(at) + d>>, 0, d),
                  check_equal(at, <<2 * d, W1(at), W2(at) + d>>, 0, d),
                  IsOne(at, W2(at) + 2 * d), IsZero(at, W1(at) + 2 * d)>>)

\* in1 = (p, 0), in2 = (p, 1)
mat_reduce(at) ==
    Product(<<check_equal(at, <<0, W1(at), W2(at)>>, 0, at.mip1 - 1),
              IsOne(at, W2(at) + at.mip1 - 1), IsZero(at, W1(at) + at.mip1 - 1)>>)

-----------------------------------------------------------------------------
(* Forms of wiremle_flt.cpp: raising to the power p - 1, two gates per value. *)

FLT_mul_lvl1(at) == F2_mult_d(at)

FLT_mul_lvl2(at) == modmult(IsOne(at, 0), check_equal(at, <<1, W1(at), W2(at)>>, 0, at.mip1))

FLT_add_lvl2(at) ==
    Product(<<IsZero(at, 0), check_equal(at, <<1, W2(at)>>, 0, at.mip1),
              chiAt(at.nip1 - 1, at, W1(at), at.mip1)>>)

FLT_add(bit, at) ==
    IF bit = 1 THEN LastIsLast(at)
    ELSE Product(<<IsZero(at, 0), check_equal(at, <<0, W1(at)>>, 0, at.mi), SecondIsLast(at)>>)

FLT_mul(bit, at) ==
    LET same == check_equal(at, <<0, W1(at), W2(at)>>, 0, at.mi - 1)
        even == IF bit = 1
                THEN Product(<<same, IsZero(at, 0), IsZero(at, W1(at)), IsOne(at, W2(at))>>) - LastIsLast(at)
                ELSE 0
        odd  == Product(<<same, IsOne(at, 0), IsOne(at, W1(at)), IsOne(at, W2(at))>>)
    IN  modmult(even + odd, IsZero(at, at.mi - 1))

-----------------------------------------------------------------------------
(* Forms of wiremle_hamdist.cpp.  The last two gates of a level carry the  *)
(* claimed distance and the constant zero.                                 *)

hamdist_add_last_two(at) ==
    modmult(chiAt(at.ni - 1, at, 0, at.mi) * chiAt(at.nip1 - 1, at, W1(at), at.mip1)
              + chiAt(at.ni - 2, at, 0, at.mi) * chiAt(at.nip1 - 2, at, W1(at), at.mip1),
            SecondIsLast(at))

hamdist_add_wrap(form, at) == (form + hamdist_add_last_two(at)) % prime

\* p = (any, 0), in1 = (any, 0, 0), in2 = (any, 1, 0)
hamdist_sum_vec(at) ==
    Product(<<check_equal(at, <<0, W1(at), W2(at)>>, 0, at.mi - 1), IsZero(at, at.mi - 1),
              check_zero(at, <<W1(at)>>, at.mip1 - 2, at.mip1),
              IsOne(at, W2(at) + at.mip1 - 2), IsZero(at, W2(at) + at.mip1 - 1)>>)

\* A form for all gates but those whose number needs the highest bit.
hamdist_reduce(at) ==
    Product(<<check_equal(at, <<0, W1(at) + 1, W2(at) + 1>>, 0, at.mi - 1),
              check_zero(at, <<0, W1(at) + 1, W2(at) + 1>>, at.mi - 1, at.mi),
              IsZero(at, W1(at)), IsOne(at, W2(at))>>)

hamdist_flt_mul_lvl1(at) ==
    modmult(check_equal(at, <<0, W1(at), W2(at)>>, 0, at.mi - 1),
            check_zero(at, <<0, W1(at), W2(at)>>, at.mi - 1, at.mi))

\* Odd p: in1 = in2 = p/2.
hamdist_flt_mul_lvl2(at) ==
    Product(<<IsOne(at, 0), check_equal(at, <<1, W1(at), W2(at)>>, 0, at.mip1 - 1),
              check_zero(at, <<1, W1(at), W2(at)>>, at.mip1 - 1, at.mip1)>>)

\* Even p: in1 = p/2, in2 the constant zero.
hamdist_flt_add_lvl2(at) ==
    Product(<<IsZero(at, 0), check_equal(at, <<1, W1(at)>>, 0, at.mip1 - 1),
              check_zero(at, <<1, W1(at)>>, at.mip1 - 1, at.mip1), SecondIsLast(at)>>)

\* Mutant: the even gates are compared from bit 0 on, as FLT_add does.
Muthamdist_flt_add(bit, at) ==
    IF bit = 1 THEN 0
    ELSE Product(<<IsZero(at, 0), check_equal(at, <<0, W1(at)>>, 0, at.mi - 1),
                   check_zero(at, <<0, W1(at)>>, at.mi - 1, at.mi), SecondIsLast(at)>>)

hamdist_flt_add(bit, at) ==
    IF bit = 1 THEN 0
    ELSE Product(<<check_zero(at, <<0, W1(at)>>, 0, 1), check_equal(at, <<0, W1(at)>>, 1, at.mi - 1),
                   check_zero(at, <<0, W1(at)>>, at.mi - 1, at.mi), SecondIsLast(at)>>)

hamdist_flt_mul(bit, at) ==
    LET same == modmult(check_equal(at, <<0, W1(at), W2(at)>>, 1, at.mi - 1),
                        check_zero(at, <<0, W1(at), W2(at)>>, at.mi - 1, at.mi))
    IN  Product(<<same, bit, IsZero(at, 0), IsZero(at, W1(at)), IsOne(at, W2(at))>>)
          + Product(<<same, IsOne(at, 0), IsOne(at, W1(at)), IsOne(at, W2(at))>>)

=============================================================================
