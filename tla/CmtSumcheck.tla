------------------------------ MODULE CmtSumcheck ------------------------------
(***************************************************************************)
(* The arithmetic of one layer of the CMT protocol, for one instance: the  *)
(* prover's incremental computation of the sumcheck polynomials            *)
(* (CMTSumCheckProver), the verifier's checks (CMTSumCheckVerifier) and    *)
(* the reduction to one claim about the next layer (checkLevel, doMiniIP). *)
(* Requests and answers alternate, as CmtProtocol shows, so a round is one *)
(* step here: the verifier's coin, the prover's polynomial, the check.     *)
(***************************************************************************)
EXTENDS PrimeField, Sequences

CONSTANTS
    OutSize,   \* gates of the layer
    InSize,    \* gates of the layer below
    Wirings,   \* the wirings checked: functions from gates to [type, in1, in2]
    Inputs,    \* the values of the layer below that are checked
    Coins,     \* what the verifier's PRNG may return
    StaleZ     \* what zi may hold beyond the coordinates of this layer

Out  == 0 .. OutSize - 1
In   == 0 .. InSize - 1
mi   == log2i(OutSize)
mip1 == log2i(InSize)

Wiring == [type : {"ADD", "MUL"}, in1 : In, in2 : In]

ASSUME LayerAssumption ==
    /\ OutSize \in Nat \ {0} /\ InSize \in Nat \ {0}
    /\ Wirings \subseteq [Out -> Wiring]
    /\ Inputs \subseteq [In -> Zp]
    /\ Coins \subseteq Zp /\ StaleZ \subseteq Zp
    /\ mip1 + 1 <= prime

numRounds == mi + 2 * mip1

VARIABLES
    wiring, inVals,  \* the layer and the values it is evaluated on
    z,               \* zi: coordinates 0..mi-1, and the next one, left over
    round,           \* rounds done; numRounds + 1 after the V check, + 2 at the end
    rand,            \* the verifier's coins so far
    poly,            \* the last polynomial: its values at 0, 1, 2
    ok,              \* every check succeeded
    vexpected,       \* the verifier's expected value, later its next ri
    pexpected,       \* the prover's
    betar,           \* prover: beta, folded round by round
    partialBetar,    \* prover: the factor of beta fixed so far
    addormultr,      \* prover: each gate's predicate, folded round by round
    vals,            \* prover: the values below, folded round by round
    V1,              \* prover: V1s[b]
    nextZ            \* the point of the next layer

pvars == <<betar, partialBetar, addormultr, vals, V1>>
vars  == <<wiring, inVals, z, round, rand, poly, ok, vexpected, pexpected, pvars, nextZ>>

applyGateOperation(w, a, b) == IF w.type = "ADD" THEN (a + b) % prime ELSE modmult(a, b)

outVals == [g \in Out |-> applyGateOperation(wiring[g], inVals[wiring[g].in1], inVals[wiring[g].in2])]

-----------------------------------------------------------------------------

\* The prover's own computeChiAll: as many coordinates as the table's size calls for,
\* one if it has a single entry.
ChiTable(n, startAt) == computeChiAll(z, n, log2i(n), startAt)

Init ==
    /\ wiring \in Wirings /\ inVals \in Inputs
    /\ \E point \in [0 .. mi - 1 -> Coins], stale \in StaleZ :
         z = [i \in 0 .. mi |-> IF i = mi THEN stale ELSE point[i]]
    /\ round = 0 /\ rand = <<>> /\ ok = TRUE
    /\ poly = [m \in 0 .. 2 |-> 0]
    /\ vexpected = evaluate_V_i(outVals, z, mi) /\ pexpected = vexpected
    /\ betar = ChiTable(OutSize, 0)    \* at round 0, computeBetaZAll
    /\ partialBetar = 1
    /\ addormultr = [g \in Out |-> 1]
    /\ vals = [k \in 0 .. 2^mip1 - 1 |-> 0]
    /\ V1 = 0
    /\ nextZ = <<>>

\* The value of a gate's predicate at m in its current bit: mulmle2, mulmle2_si.
mulmle2(op, m, bit) == modmult(op, IF bit = 1 THEN m ELSE one_sub(m))

\* Entries of betar still in use after bitPos + 1 coordinates.
nEffectiveBetar(bitPos) == ((OutSize - 1) \div 2^(bitPos + 1)) + 1

\* Mutant: one coordinate too many is taken as divided out.
MutDivided(bitPos) ==
    [i \in 0 .. nEffectiveBetar(bitPos) - 1 |-> modmult(betar[2 * i], Invert(z[bitPos]))]

\* doRoundP divides the factor of the current coordinate out of betar; when
\* that factor is 0 it recomputes beta on the coordinates that are left.
Divided(bitPos) ==
    LET n == nEffectiveBetar(bitPos)
    IN  IF one_sub(z[bitPos]) % prime # 0
          THEN [i \in 0 .. n - 1 |-> modmult(betar[2 * i], Invert(one_sub(z[bitPos])))]
          ELSE LET chis == ChiTable(n, bitPos + 1)
               IN  [i \in 0 .. n - 1 |-> modmult(chis[i], partialBetar)]

\* roundPoly[0] is inferred from the expected value.
WithZero(one, two) ==
    [m \in 0 .. 2 |-> CASE m = 0 -> modsub(pexpected, one) [] m = 1 -> one [] m = 2 -> two]

\* doRoundP: the rounds over the gate labels.
doRoundP(bitPos, r) ==
    LET bit(g)  == Bit(g, bitPos)
        divided == Divided(bitPos)
        at2     == mle(2, one_sub(z[bitPos]), z[bitPos])
        fold    == mle(r, one_sub(z[bitPos]), z[bitPos])
        one     == SumMod([g \in {h \in Out : bit(h) = 1} |->
                          modmult(outVals[g], addormultr[g] * betar[g \div 2^bitPos])])
        two     == SumMod([g \in Out |->
                          modmult(outVals[g], modmult(divided[g \div 2^(bitPos + 1)], at2)
                                                * mulmle2(addormultr[g], 2, bit(g)))])
    IN  /\ poly' = WithZero(one, two)
        /\ betar' = [i \in DOMAIN divided |-> modmult(divided[i], fold)]
        /\ partialBetar' = modmult(partialBetar, fold)
        /\ addormultr' = [g \in Out |-> mulmle2(addormultr[g], r, bit(g))]
        /\ UNCHANGED <<vals, V1>>

\* init_vals_array: the values below, padded to a power of two.
initVals == [k \in 0 .. 2^mip1 - 1 |-> IF k \in In THEN inVals[k] ELSE 0]

\* doRoundO: the rounds over the first (onO1) and the second operand's label.
doRoundO(bitPos, r, onO1, v1) ==
    LET old     == IF bitPos = 0 THEN initVals ELSE vals
        idx(g)  == IF onO1 THEN wiring[g].in1 ELSE wiring[g].in2
        bit(g)  == Bit(idx(g), bitPos)
        base(g) == 2 * (idx(g) \div 2^(bitPos + 1))
        op(g, v) == IF onO1 THEN applyGateOperation(wiring[g], v, inVals[wiring[g].in2])
                            ELSE applyGateOperation(wiring[g], v1, v)
        one     == SumMod([g \in {h \in Out : bit(h) = 1} |->
                          op(g, old[base(g) + 1]) * addormultr[g]])
        two     == SumMod([g \in Out |-> op(g, mle(2, old[base(g)], old[base(g) + 1]))
                                        * mulmle2(addormultr[g], 2, bit(g))])
    IN  /\ poly' = WithZero(modmult(one, betar[0]), modmult(two, betar[0]))
        /\ addormultr' = [g \in Out |-> mulmle2(addormultr[g], r, bit(g))]
        /\ vals' = [i \in DOMAIN old |-> IF i < 2^(mip1 - bitPos - 1)
                                           THEN mle(r, old[2 * i], old[2 * i + 1]) ELSE old[i]]
        /\ V1' = v1
        /\ UNCHANGED <<betar, partialBetar>>

\* Mutant: V1 is kept from the round before the last of its operand.
MutV1 == IF round = mi + mip1 THEN vals[1] ELSE V1

\* At the first round of the second operand, V1 is the fully folded first.
V1Now == IF round = mi + mip1 THEN vals[0] ELSE V1

\* The verifier's check of a round, and both sides' expected value after it.
CheckRound(r) ==
    /\ ok' = (ok /\ (poly'[0] + poly'[1]) % prime = vexpected)
    /\ vexpected' = bary_extrap(poly', Weights3(r))
    /\ pexpected' = extrap(poly', 3, r)

Round ==
    /\ ok /\ round < numRounds
    /\ \E r \in Coins :
         /\ rand' = Append(rand, r)
         /\ IF round < mi THEN doRoundP(round, r)
            ELSE IF round < mi + mip1 THEN doRoundO(round - mi, r, TRUE, V1Now)
            ELSE doRoundO(round - mi - mip1, r, FALSE, V1Now)
         /\ CheckRound(r)
    /\ round' = round + 1
    /\ UNCHANGED <<wiring, inVals, z, nextZ>>

\* The coins as a point: coordinates from..from+n-1.
Point(from, n) == [i \in 0 .. n - 1 |-> rand[from + i + 1]]

\* computeWirePredicates, by brute force over the gates of one type.
WirePredicate(type) ==
    LET p  == computeChiAll(Point(0, mi), OutSize, mi, 0)
        w1 == computeChiAll(Point(mi, mip1), InSize, mip1, 0)
        w2 == computeChiAll(Point(mi + mip1, mip1), InSize, mip1, 0)
    IN  SumMod([g \in {h \in Out : wiring[h].type = type} |->
               modmult(p[g] * w1[wiring[g].in1], w2[wiring[g].in2])])

\* doFinalCheck, with the prover's V1 and V2.
FinalCheck ==
    /\ ok /\ round = numRounds
    /\ LET V2 == vals[0]
           fz == (V1 + V2) * WirePredicate("ADD") + V1 * V2 * WirePredicate("MUL")
       IN  ok' = (modmult(fz, evaluate_beta(z, Point(0, mi), mi)) = vexpected)
    /\ round' = round + 1
    /\ UNCHANGED <<wiring, inVals, z, rand, poly, vexpected, pexpected, pvars, nextZ>>

\* The line through the two points of the layer below, at t.
LineAt(t) == [j \in 0 .. mip1 - 1 |->
                 extrap([i \in 0 .. 1 |-> Point(mi + i * mip1, mip1)[j]], 2, t)]

\* REQ_LPOLY: the values below along that line, at 0, ..., mip1.
Lpoly == [t \in 0 .. mip1 |-> evaluate_V_i(inVals, LineAt(t), mip1)]

\* Mutant: the line is sampled at one point too few.
MutNextClaim(r) == bary_extrap(Lpoly, Weights(mip1, r))

NextClaim(r) == bary_extrap(Lpoly, Weights(mip1 + 1, r))

\* The end of checkLevel: lpoly against V1 and V2, then the next layer's claim.
MiniIP ==
    /\ ok /\ round = numRounds + 1
    /\ ok' = (Lpoly[0] = V1 /\ Lpoly[1] = vals[0])
    /\ \E r \in Coins :
         /\ rand' = Append(rand, r)
         /\ nextZ' = LineAt(r)
         /\ vexpected' = NextClaim(r)
         /\ pexpected' = extrap(Lpoly, mip1 + 1, r)
    /\ round' = round + 1
    /\ UNCHANGED <<wiring, inVals, z, poly, pvars>>

Done == round = numRounds + 2 \/ ~ok

Finished == Done /\ UNCHANGED vars

Next == Round \/ FinalCheck \/ MiniIP \/ Finished

Spec == Init /\ [][Next]_vars

-----------------------------------------------------------------------------
(* Reference: the polynomial that the sumcheck protocol is about. *)

\* beta(z,p) (add(p,w1,w2) (V(w1) + V(w2)) + mul(p,w1,w2) V(w1) V(w2)) at a point
\* of numRounds coordinates.
F(x) ==
    LET p  == [i \in 0 .. mi - 1 |-> x[i]]
        w1 == [i \in 0 .. mip1 - 1 |-> x[mi + i]]
        w2 == [i \in 0 .. mip1 - 1 |-> x[mi + mip1 + i]]
        v1 == evaluate_V_i(inVals, w1, mip1)
        v2 == evaluate_V_i(inVals, w2, mip1)
    IN  modmult(Product([i \in 0 .. mi - 1 |-> p[i] * z[i] + one_sub(p[i]) * one_sub(z[i])]),
                SumMod([g \in Out |->
                       modmult(chi(g, p, mi),
                               chi(wiring[g].in1, w1, mip1) * chi(wiring[g].in2, w2, mip1))
                         * applyGateOperation(wiring[g], v1, v2)]))

\* Its partial sum: round k's polynomial at m.
Partial(k, m) ==
    SumMod([tail \in [k + 1 .. numRounds - 1 -> {0, 1}] |->
           F([i \in 0 .. numRounds - 1 |->
                IF i < k THEN rand[i + 1] ELSE IF i = k THEN m ELSE tail[i]])])

-----------------------------------------------------------------------------
(* Properties. *)

\* The one case in which beta is folded wrongly: the last coordinate is 1, so that
\* beta is recomputed, and computeChiAll takes the coordinate after it for one more
\* (log2i(1) is 1), which is not 0 below a larger layer.
ReadsLeftOver == z[mi - 1] = 1 /\ z[mi] # 0

\* The prover's folded arrays give the polynomial of the sumcheck protocol: each
\* round's answer is the sum over the remaining Boolean points (doRoundP).
RoundPolyCorrect ==
    round \in 1 .. numRounds /\ ~ReadsLeftOver =>
        \A m \in 0 .. 2 : poly[m] = Partial(round - 1, m)

\* No check rejects a prover that computes by this code: the "perfect
\* completeness" on which the prover's inference of roundPoly[0] relies.
PerfectCompleteness == ~ReadsLeftOver => ok

\* The claim handed to the next layer is true and the same on both sides,
\* V_{i+1}(nextZ) = ri, for the coins that are not among the points lpoly is
\* sampled at: there bary_precompute_weights makes every weight 0.
NextClaimTrueOffGrid ==
    round = numRounds + 2 /\ rand[numRounds + 1] > mip1 =>
        /\ vexpected = evaluate_V_i(inVals, nextZ, mip1)
        /\ pexpected = vexpected

=============================================================================
