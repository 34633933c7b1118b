----------------------------- MODULE VfpDouble -----------------------------
(***************************************************************************)
(* The operations of vfpdouble.c: those of VfpSingle at the width of a     *)
(* double, and the ones whose text differs: square root and division work  *)
(* on pairs of words, a sum is not told apart from a difference of         *)
(* numbers that are not numbers, and a fraction is an exponent below a     *)
(* half.                                                                   *)
(***************************************************************************)
EXTENDS VfpSingle

vfp_double_default_qnan == default_qnan(Double)
vfp_double_normalise_denormal(u) == normalise_denormal(Double, u)
vfp_double_normaliseround(u, fp, exc) == normaliseround(Double, u, fp, exc)
vfp_double_propagate_nan(n, m, fp) == PropagateNan(Double, n, m, fp)
vfp_double_fabs(m) == fabs(Double, m)
vfp_double_fcpy(m) == fcpy(Double, m)
vfp_double_fneg(m) == fneg(Double, m)

\* The root of n, a significand as a pair with no low word, from above:
\* the remainder is carried as a pair while the root is taken down.
RefinedDoubleRoot(sig, n) ==
  LET Down[k \in 0 .. 8] ==
        IF k = 0 THEN [z |-> sig, rem |-> sub128(Pair(n, 0), mul64to128(sig, sig))]
        ELSE LET c == Down[k - 1]
                 t == shift64left(c.z - 1)
             IN IF ~BelowZero(c.rem) THEN c
                ELSE [z |-> c.z - 1, rem |-> add128(c.rem, [t EXCEPT !.l = Jam(t.l, TRUE)])]
      c == Down[8]
  IN Jam(c.z, c.rem # Pair(0, 0))

DoubleRoot(sig, square) ==
  IF sig % 2 ^ LOW_BITS(Double) > 5 THEN sig
  ELSE IF sig < 2 THEN Top(Double) - 1 ELSE RefinedDoubleRoot(sig, square)
\* From a first estimate and the significand at half its place.
EstimatedDoubleRoot(first, half) ==
  DoubleRoot(Wrap64(first + 2 + vfp_estimate_div128to64(half, 0, first)), Wrap64(4 * half))
vfp_double_fsqrt(m, fp, est) ==
  LET f == Double
      u == unpack(f, m)
      n == Normalised(f, u)
  IN IF IsSqrtSpecial(type(f, u), u) THEN SqrtSpecial(f, u, type(f, u), fp)
     ELSE RoundedRoot(f, n,
            EstimatedDoubleRoot(NthEstimate(est, n.exponent, n.significand \div 2 ^ Wider) * 2 ^ (Wider - 1),
                                n.significand \div 2 ^ (1 + (n.exponent % 2))), fp)

vfp_double_compare(d, m, signal_on_qnan) == compare(Double, d, m, signal_on_qnan)

\* To a single.
vfp_double_fcvts(m, fp) ==
  LET u == unpack(Double, m)
      t == type(Double, u)
      n == IF "DENORMAL" \in t THEN vfp_double_normalise_denormal(u) ELSE u
      exc == IF t = VFP_SNAN THEN {"IOC"} ELSE {}
      sig == vfp_hi64to32jamming(n.significand, Wider)
      quiet == t = VFP_QNAN /\ (sig \div SIGNIFICAND_QNAN(Single)) % 2 = 0
  IN IF t \intersect {"INFINITY", "NAN"} # {}
       THEN Answer(pack(Single, FormatNumber(n.sign, MaxExponent(Single),
                     IF quiet THEN sig + SIGNIFICAND_QNAN(Single) ELSE sig)), exc)
       ELSE normaliseround(Single,
              FormatNumber(n.sign,
                IF "ZERO" \in t THEN 0 ELSE n.exponent - (Bias(Double) - Bias(Single)), sig),
              fp, exc)

vfp_double_fuito(m, fp) == fuito(Double, m, fp)
vfp_double_fsito(m, fp) == fsito(Double, m, fp)
vfp_double_ftoui(m, mode, build) ==
  LET u == unpack(Double, m)
      v == IF "NAN" \in type(Double, u) THEN [u EXCEPT !.sign = 0] ELSE u
  IN ftoui(Double, v, mode, Bias(Double) - 1, build)
vfp_double_ftosi(m, mode, build) == ftosi(Double, m, mode, Bias(Double) - 1, build)

vfp_double_fadd_nonnumber(n, m, fp) == fadd_nonnumber(Double, n, m, fp)
vfp_double_add(n, m, fp) == add(Double, n, m, fp)
vfp_double_multiply(n, m, fp) == multiply(Double, n, m, fp)
vfp_double_multiply_accumulate(d, n, m, fp, negate) ==
  multiply_accumulate(Double, d, n, m, fp, negate)
vfp_double_fmac(d, n, m, fp) == vfp_double_multiply_accumulate(d, n, m, fp, {})
vfp_double_fnmac(d, n, m, fp) == vfp_double_multiply_accumulate(d, n, m, fp, {"MULTIPLY"})
vfp_double_fmsc(d, n, m, fp) == vfp_double_multiply_accumulate(d, n, m, fp, {"SUBTRACT"})
vfp_double_fnmsc(d, n, m, fp) ==
  vfp_double_multiply_accumulate(d, n, m, fp, {"MULTIPLY", "SUBTRACT"})
vfp_double_fmul(n, m, fp) == fmul(Double, n, m, fp)
vfp_double_fnmul(n, m, fp) == fnmul(Double, n, m, fp)
vfp_double_fadd(n, m, fp) == fadd(Double, n, m, fp)

\* The sign is turned whatever m is.
vfp_double_fsub(n, m, fp) ==
  RoundSum(Double, vfp_double_add(Operand(Double, n), Negated(Operand(Double, m)), fp), {}, fp)

\* What is left tells whether the estimate z of a quotient is exact; the
\* remainder is carried as a pair while the estimate is taken down.
ExactQuotient(n, m, z) ==
  LET Down[k \in 0 .. 8] ==
        IF k = 0 THEN [z |-> z, rem |-> sub128(Pair(n, 0), mul64to128(m, z))]
        ELSE LET c == Down[k - 1]
             IN IF ~BelowZero(c.rem) THEN c
                ELSE [z |-> c.z - 1, rem |-> add128(c.rem, Pair(0, m))]
      c == Down[8]
  IN IF z % 2 ^ (LOW_BITS(Double) - 1) <= 2 THEN Jam(c.z, c.rem.l # 0) ELSE z
DoubleQuotient(n, m) == ExactQuotient(n, m, vfp_estimate_div128to64(n, 0, m))
RoundedDoubleQuotient(q, fp) ==
  vfp_double_normaliseround(
    FormatNumber(q.sign, q.exponent, DoubleQuotient(q.n, q.m)), fp, {})
vfp_double_fdiv(n, m, fp) ==
  IF IsDivisionSpecial(Double, unpack(Double, n), unpack(Double, m))
    THEN DivisionSpecial(Double, unpack(Double, n), unpack(Double, m), fp)
    ELSE RoundedDoubleQuotient(Divided(Double, Operand(Double, n), Operand(Double, m)), fp)
=============================================================================
