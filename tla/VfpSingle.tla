----------------------------- MODULE VfpSingle -----------------------------
(***************************************************************************)
(* The operations of vfpsingle.c.  Those that the other file repeats at    *)
(* its width take the format as their parameter, and VfpDouble names them  *)
(* again.  An operation is given its operands, packed, and fp, the fields  *)
(* of FPSCR: mode, default_nan; it returns the packed result and the set   *)
(* of the exceptions, here called flags, that it raises.                   *)
(***************************************************************************)
EXTENDS VfpFormat, FiniteSets

Answer(v, X) == [val |-> v, exc |-> X]
Negated(u) == [u EXCEPT !.sign = 1 - u.sign]
default_qnan(f) == FormatNumber(0, MaxExponent(f), SIGNIFICAND_QNAN(f))

\* What a shift by at least the width gives is not defined in C: the processor
\* that runs the program takes the count modulo the width, another gives 0.
ShiftLeft(f, x, n, build) ==
  IF n < Bits(f) THEN (x * 2 ^ n) % Top(f)
  ELSE IF build = "modulo" THEN (x * 2 ^ (n % Bits(f))) % Top(f) ELSE 0
ShiftRight(f, x, n, build) ==
  IF n < Bits(f) THEN x \div 2 ^ n
  ELSE IF build = "modulo" THEN x \div 2 ^ (n % Bits(f)) ELSE 0

normalise_denormal(f, u) ==
  LET bits == Bits(f) - 1 - fls(u.significand)
  IN IF bits = 0 THEN u
     ELSE [u EXCEPT !.exponent = @ - (bits - 1), !.significand = @ * 2 ^ bits]
Normalised(f, u) ==
  IF u.exponent = 0 /\ u.significand # 0 THEN normalise_denormal(f, u) ELSE u

\* The number half way between two always goes up.
RoundIncrementHalfUp(f, sign, significand, mode) ==
  IF mode = "nearest" THEN 2 ^ LOW_BITS(f) ELSE 0
\* What is added before the low bits are cut off.
RoundIncrement(f, sign, significand, mode) ==
  LET unit == 2 ^ LOW_BITS(f)
  IN CASE mode = "nearest" -> IF (significand \div (2 * unit)) % 2 = 0 THEN unit - 1 ELSE unit
       [] mode = "tozero" -> 0
       [] mode \in {"plusinf", "minusinf"} ->
            IF (mode = "plusinf") # (sign = 1) THEN 2 * unit - 1 ELSE 0

\* The bits below those that are packed.
Cut(f) == 2 ^ (LOW_BITS(f) + 1)
\* The significand with the increment added, sum, is packed; lost and tiny say
\* that bits were cut off, and that this happened to a denormal.
PackRounded(f, sign, exponent, sum, incr, lost, tiny, exc) ==
  LET inexact == IF lost THEN {"IXC"} ELSE {}
      denormal == sum \div Cut(f) = 0
  IN IF exponent >= MaxExponent(f) - 1
       THEN Answer(pack(f, IF incr = 0 THEN FormatNumber(sign, MaxExponent(f) - 2, 2 ^ (Bits(f) - 1) - 1)
                           ELSE FormatNumber(sign, MaxExponent(f), 0)),
                   exc \union {"OFC", "IXC"})
       ELSE Answer(pack(f, FormatNumber(sign, IF denormal THEN 0 ELSE exponent, sum \div 2)),
                   exc \union inexact
                     \union IF tiny /\ (denormal \/ exponent = 0) /\ sum <= 2 ^ (Bits(f) - 1)
                              THEN {"UFC"} ELSE {})
AddIncrement(f, sign, exponent, sig, incr, tiny, exc) ==
  PackRounded(f, sign, exponent, sig + incr, incr, sig % Cut(f) # 0, tiny, exc)

\* An increment that would carry out of the word is added to half of it.
Round(f, sign, exponent, sig, incr, tiny, exc) ==
  IF sig + incr >= Top(f)
    THEN AddIncrement(f, sign, exponent + 1, Jam(sig \div 2, sig % 2 = 1), incr \div 2, tiny, exc)
    ELSE AddIncrement(f, sign, exponent, sig, incr, tiny, exc)
RoundMode(f, sign, exponent, sig, tiny, mode, exc) ==
  Round(f, sign, exponent, sig, RoundIncrement(f, sign, sig, mode), tiny /\ sig % Cut(f) # 0, exc)

\* A significand with its highest bit set, whose exponent may be below that of
\* the smallest number.
Denormalise(f, sign, exponent, sig, mode, exc) ==
  RoundMode(f, sign, IF exponent < 0 THEN 0 ELSE exponent,
            IF exponent < 0 THEN vfp_shiftrightjamming(f, sig, -exponent) ELSE sig,
            exponent < 0, mode, exc)
LeadingZeros(f, x) == Bits(f) - fls(x)

normaliseround(f, u, fp, exc) ==
  CASE u.exponent = MaxExponent(f) /\ (u.significand = 0 \/ exc # {}) ->
         Answer(pack(f, u), exc)
    [] u.significand = 0 -> Answer(pack(f, [u EXCEPT !.exponent = 0]), exc)
    [] OTHER ->
         LET shift == LeadingZeros(f, u.significand)
         IN Denormalise(f, u.sign, u.exponent - shift, u.significand * 2 ^ shift, fp.mode, exc)

----------------------------------------------------------------------------
(* Not numbers.  The flag that a quiet one raises only tells               *)
(* normaliseround to leave the result alone.                               *)
VFP_NAN_FLAG == "NAN_FLAG"
propagate_nan(f, n, tn, m, tm, fp) ==
  [u |-> IF fp.default_nan THEN default_qnan(f)
         ELSE LET nan == IF tn = VFP_SNAN \/ (tm # VFP_SNAN /\ tn = VFP_QNAN) THEN n ELSE m
              IN IF (nan.significand \div SIGNIFICAND_QNAN(f)) % 2 = 1 THEN nan
                 ELSE [nan EXCEPT !.significand = @ + SIGNIFICAND_QNAN(f)],
   exc |-> IF VFP_SNAN \in {tn, tm} THEN {"IOC"} ELSE {VFP_NAN_FLAG}]
PropagateNan(f, n, m, fp) == propagate_nan(f, n, type(f, n), m, type(f, m), fp)

fabs(f, m) == Answer(PackedAbs(f, m), {})
fcpy(f, m) == Answer(m, {})
fneg(f, m) == Answer(PackedNegate(f, m), {})

----------------------------------------------------------------------------
(* Square root.  The tables of the program give an estimate of the root of *)
(* a significand, less than 2 off at its width; here any estimate that is  *)
(* less than RootError off, est, the k-th of them.                         *)
CONSTANT RootError
EstimatedRoot(exponent, significand) ==
  IF exponent % 2 = 1 THEN significand * 2 ^ Bits(Single)
                      ELSE 2 * significand * 2 ^ Bits(Single)
vfp_estimate_sqrt_significand(exponent, significand) ==
  {z \in Packed(Single) :
     LET square == EstimatedRoot(exponent, significand)
     IN (z - RootError) * (z - RootError) < square /\ square < (z + RootError) * (z + RootError)}
NthEstimate(k, exponent, significand) ==
  LET all == vfp_estimate_sqrt_significand(exponent, significand)
      least == CHOOSE z \in all : \A y \in all : z <= y
  IN IF least + k \in all THEN least + k ELSE least

\* The loop ends at the largest number whose square is not above n.
RootBelow(sig, n) == CHOOSE r \in 0 .. sig : r * r <= n /\ (r < sig => (r + 1) * (r + 1) > n)
RefinedRoot(sig, n) == LET r == RootBelow(sig, n) IN Jam(r, n # r * r)

\* Operands that need no computation: not numbers, infinities, zeros and
\* negative numbers.
SqrtSpecial(f, u, t, fp) ==
  CASE "NAN" \in t -> LET p == propagate_nan(f, u, t, u, {}, fp) IN Answer(pack(f, p.u), p.exc)
    [] "ZERO" \in t \/ (t = {"INFINITY"} /\ u.sign = 0) -> Answer(pack(f, u), {})
    [] OTHER -> Answer(pack(f, default_qnan(f)), {"IOC"})
IsSqrtSpecial(t, u) == t \intersect {"NAN", "INFINITY", "ZERO"} # {} \/ u.sign = 1
RootExponent(f, x) == (x - Bias(f)) \div 2 + Bias(f)

\* The estimate is made exact when its low bits do not decide the rounding.
SingleRoot(f, sig, square) ==
  IF sig % 2 ^ LOW_BITS(f) > 5 THEN sig
  ELSE IF sig < 2 THEN Top(f) - 1 ELSE RefinedRoot(sig, square)
RoundedRoot(f, n, root, fp) ==
  normaliseround(f, FormatNumber(0, RootExponent(f, n.exponent), vfp_shiftrightjamming(f, root, 1)),
                 fp, {})
vfp_single_fsqrt(m, fp, est) ==
  LET f == Single
      u == unpack(f, m)
      n == Normalised(f, u)
  IN IF IsSqrtSpecial(type(f, u), u) THEN SqrtSpecial(f, u, type(f, u), fp)
     ELSE RoundedRoot(f, n, SingleRoot(f, (NthEstimate(est, n.exponent, n.significand) + 2) % Top(f),
                                       EstimatedRoot(n.exponent, n.significand)), fp)

----------------------------------------------------------------------------
(* Comparison of register d with m; a zero operand is the caller's.        *)
IsNan(f, v) == ExponentBits(f, v) = MaxExponent(f) /\ MantissaBits(f, v) # 0
compare(f, d, m, signal_on_qnan) ==
  LET nans == {v \in {d, m} : IsNan(f, v)}
      signals == \E v \in nans : signal_on_qnan \/ (v \div 2 ^ (f.m - 1)) % 2 = 0
      sd == SignBit(f, d)
      less == AsSignedIn(f, d) < AsSignedIn(f, m)
  IN CASE nans # {} -> {"C", "V"} \union IF signals THEN {"IOC"} ELSE {}
       [] nans = {} /\ (d = m \/ {PackedAbs(f, d), PackedAbs(f, m)} = {0}) -> {"Z", "C"}
       [] OTHER ->
            IF sd # SignBit(f, m) THEN IF sd = 1 THEN {"N"} ELSE {"C"}
            ELSE IF (sd = 1) # less THEN {"N"} ELSE {"C"}

----------------------------------------------------------------------------
(* Conversions.                                                            *)
vfp_single_fcvtd(m, fp) ==
  LET u == unpack(Single, m)
      t == type(Single, u)
      n == IF "DENORMAL" \in t THEN normalise_denormal(Single, u) ELSE u
      exc == IF t = VFP_SNAN THEN {"IOC"} ELSE {}
      sig == n.significand * 2 ^ Wider
  IN IF t \intersect {"INFINITY", "NAN"} # {}
       THEN Answer(pack(Double, FormatNumber(n.sign, MaxExponent(Double), sig)), exc)
       ELSE normaliseround(Double,
              FormatNumber(n.sign,
                IF "ZERO" \in t THEN 0 ELSE n.exponent + Bias(Double) - Bias(Single), sig),
              fp, exc)

\* From an integer, which has the width of a single.
fuito(f, m, fp) == normaliseround(f, FormatNumber(0, Bias(f) + Bits(f) - 2, m), fp, {})
fsito(f, m, fp) ==
  LET s == SignBit(Single, m)
  IN normaliseround(f, FormatNumber(s, Bias(f) + Bits(f) - 2,
                                    IF s = 1 THEN (Top(Single) - m) % Top(Single) ELSE m), fp, {})

\* To an integer: the whole part d, and what is left of it, rem, with
\* the increment that carries into d when the mode rounds away from 0.
IntIncrement(f, sign, d, mode) ==
  CASE mode = "nearest" -> 2 ^ (Bits(f) - 1) - (IF d % 2 = 0 THEN 1 ELSE 0)
    [] mode = "tozero" -> 0
    [] mode \in {"plusinf", "minusinf"} ->
         IF (mode = "plusinf") # (sign = 1) THEN Top(f) - 1 ELSE 0
IntParts(f, u, mode, build) ==
  LET shift == Bias(f) + Bits(f) - 1 - u.exponent
      d == ShiftRight(f, 2 * u.significand, shift, build) % Top(Single)
      rem == ShiftLeft(f, u.significand, Bits(f) + 1 - shift, build)
  IN [d |-> d, rem |-> rem, carries |-> rem + IntIncrement(f, u.sign, d, mode) >= Top(f)]
DenormalInput(f, u) == IF "DENORMAL" \in type(f, u) THEN {"IDC"} ELSE {}
MaxInt == 2 ^ (Bits(Single) - 1) - 1

\* small is the least exponent that is not taken to be a fraction.
Incremented(p) == IF p.carries /\ p.d < Top(Single) - 1 THEN p.d + 1 ELSE p.d
UnsignedParts(f, u, p, d) ==
  Answer(IF u.sign = 1 THEN 0 ELSE d,
         DenormalInput(f, u)
           \union (IF p.carries /\ p.d = Top(Single) - 1 THEN {"IOC"} ELSE {})
           \union (IF d # 0 /\ u.sign = 1 THEN {"IOC"} ELSE IF p.rem # 0 THEN {"IXC"} ELSE {}))
WithParts(f, u, p) == UnsignedParts(f, u, p, Incremented(p))
ftoui(f, u, mode, small, build) ==
  CASE u.exponent >= Bias(f) + Bits(Single) ->
         Answer(IF u.sign = 1 THEN 0 ELSE Top(Single) - 1, {"IOC"})
    [] u.exponent \in small .. Bias(f) + Bits(Single) - 1 ->
         WithParts(f, u, IntParts(f, u, mode, build))
    [] u.exponent < small ->
         IF u.exponent = 0 /\ u.significand = 0 THEN Answer(0, {})
         ELSE Answer(IF mode = "plusinf" /\ u.sign = 0 THEN 1 ELSE 0,
                DenormalInput(f, u) \union {"IXC"}
                  \union IF mode = "minusinf" /\ u.sign = 1 THEN {"IOC"} ELSE {})
vfp_single_ftoui(m, mode, build) ==
  LET u == unpack(Single, m)
      v == IF "NAN" \in type(Single, u) THEN [u EXCEPT !.sign = 1] ELSE u
  IN ftoui(Single, v, mode, Bias(Single), build)

\* A magnitude with the sign of u, at most limit.
SignedParts(f, u, p, d, limit) ==
  LET r == IF d > limit THEN limit ELSE d
  IN Answer(IF u.sign = 1 THEN (Top(Single) - r) % Top(Single) ELSE r,
            DenormalInput(f, u)
              \union (IF d > limit THEN {"IOC"} ELSE IF p.rem # 0 THEN {"IXC"} ELSE {}))
WithSignedParts(f, u, p) == SignedParts(f, u, p, Incremented(p), MaxInt + u.sign)
ftosi(f, m, mode, small, build) ==
  LET u == unpack(f, m)
      nan == "NAN" \in type(f, u)
  IN CASE nan -> Answer(0, {"IOC"})
       [] ~nan /\ u.exponent >= Bias(f) + Bits(Single) -> Answer(MaxInt + u.sign, {"IOC"})
       [] ~nan /\ u.exponent \in small .. Bias(f) + Bits(Single) - 1 ->
            WithSignedParts(f, u, IntParts(f, u, mode, build))
       [] u.exponent < small ->
            IF u.exponent = 0 /\ u.significand = 0 THEN Answer(0, {})
            ELSE Answer(CASE mode = "plusinf" /\ u.sign = 0 -> 1
                          [] mode = "minusinf" /\ u.sign = 1 -> Top(Single) - 1
                          [] OTHER -> 0, DenormalInput(f, u) \union {"IXC"})
vfp_single_ftosi(m, mode, build) == ftosi(Single, m, mode, Bias(Single), build)

----------------------------------------------------------------------------
(* Addition and multiplication of unpacked numbers; the result is unpacked *)
(* and not rounded.                                                        *)
Unrounded(u, X) == [u |-> u, exc |-> X]

fadd_nonnumber(f, n, m, fp) ==
  LET tn == type(f, n)
      tm == type(f, m)
  IN CASE {tn, tm} = {{"INFINITY"}} /\ n.sign # m.sign -> Unrounded(default_qnan(f), {"IOC"})
       [] {tn, tm} = {{"INFINITY"}} /\ n.sign = m.sign -> Unrounded(n, {})
       [] tn = {"INFINITY"} /\ "NUMBER" \in tm -> Unrounded(n, {})
       [] OTHER -> PropagateNan(f, n, m, fp)

add(f, x, y, fp) ==
  LET n == IF x.exponent < y.exponent THEN y ELSE x
      m == IF x.exponent < y.exponent THEN x ELSE y
      aligned == vfp_shiftrightjamming(f, m.significand, n.exponent - m.exponent)
      sum == IF n.sign = m.sign THEN n.significand + aligned ELSE n.significand - aligned
  IN IF n.exponent = MaxExponent(f) THEN fadd_nonnumber(f, n, m, fp)
     ELSE Unrounded(
            FormatNumber(CASE sum < 0 -> 1 - n.sign
                           [] sum = 0 /\ n.sign # m.sign -> IF fp.mode = "minusinf" THEN 1 ELSE 0
                           [] OTHER -> n.sign,
                         n.exponent, IF sum < 0 THEN -sum ELSE sum), {})

HighProduct(f, x, y) ==
  IF f = Single THEN vfp_hi64to32jamming(x * y, Bits(f)) ELSE vfp_hi64multiply64(x, y)
IsZero(u) == u.exponent = 0 /\ u.significand = 0
multiply(f, x, y, fp) ==
  LET n == IF x.exponent < y.exponent THEN y ELSE x
      m == IF x.exponent < y.exponent THEN x ELSE y
      sign == IF x.sign = y.sign THEN 0 ELSE 1
  IN IF n.exponent = MaxExponent(f)
       THEN IF n.significand # 0 \/ (m.exponent = MaxExponent(f) /\ m.significand # 0)
              THEN PropagateNan(f, n, m, fp)
            ELSE IF IsZero(m) THEN Unrounded(default_qnan(f), {"IOC"})
            ELSE Unrounded(FormatNumber(sign, n.exponent, 0), {})
       ELSE IF IsZero(m) THEN Unrounded(FormatNumber(sign, 0, 0), {})
       ELSE Unrounded(FormatNumber(sign, n.exponent + m.exponent - Bias(f) + 2,
                                   HighProduct(f, n.significand, m.significand)), {})
Operand(f, v) == Normalised(f, unpack(f, v))

\* The product goes into the addition unrounded, and the third operand as
\* it was unpacked.
Maybe(u, negated) == IF negated THEN Negated(u) ELSE u
RoundSum(f, s, exc, fp) == normaliseround(f, s.u, fp, exc \union s.exc)
AddProduct(f, addend, p, fp, negate) ==
  RoundSum(f, add(f, addend, Maybe(p.u, "MULTIPLY" \in negate), fp), p.exc, fp)
multiply_accumulate(f, d, n, m, fp, negate) ==
  AddProduct(f, Maybe(unpack(f, d), "SUBTRACT" \in negate),
             multiply(f, Operand(f, n), Operand(f, m), fp), fp, negate)

fmac(f, d, n, m, fp) == multiply_accumulate(f, d, n, m, fp, {})
fnmac(f, d, n, m, fp) == multiply_accumulate(f, d, n, m, fp, {"MULTIPLY"})
fmsc(f, d, n, m, fp) == multiply_accumulate(f, d, n, m, fp, {"SUBTRACT"})
fnmsc(f, d, n, m, fp) ==
  multiply_accumulate(f, d, n, m, fp, {"MULTIPLY", "SUBTRACT"})

fmul(f, n, m, fp) ==
  RoundSum(f, multiply(f, Operand(f, n), Operand(f, m), fp), {}, fp)
RoundNegated(f, p, fp) == normaliseround(f, Negated(p.u), fp, p.exc)
fnmul(f, n, m, fp) ==
  RoundNegated(f, multiply(f, Operand(f, n), Operand(f, m), fp), fp)
fadd(f, n, m, fp) == RoundSum(f, add(f, Operand(f, n), Operand(f, m), fp), {}, fp)

\* The sign of m is turned unless m is the quiet NaN that the unit makes.
vfp_single_fsub(n, m, fp) ==
  fadd(Single, n, IF m = pack(Single, default_qnan(Single)) THEN m ELSE PackedNegate(Single, m), fp)

----------------------------------------------------------------------------
(* Division.                                                               *)
DivisionSpecial(f, n, m, fp) ==
  LET tn == type(f, n)
      tm == type(f, m)
      sign == IF n.sign = m.sign THEN 0 ELSE 1
      Packing(x, X) == Answer(pack(f, FormatNumber(sign, x, 0)), X)
      Nan(p) == Answer(pack(f, p.u), p.exc)
  IN CASE "NAN" \in tn -> Nan(PropagateNan(f, n, m, fp))
       [] "NAN" \in tm /\ "NAN" \notin tn -> Nan(PropagateNan(f, m, n, fp))
       [] tm \intersect tn \intersect {"INFINITY", "ZERO"} # {} ->
            Answer(pack(f, default_qnan(f)), {"IOC"})
       [] tn = {"INFINITY"} /\ tm \intersect {"INFINITY", "NAN"} = {} -> Packing(MaxExponent(f), {})
       [] "ZERO" \in tm /\ "NUMBER" \in tn /\ "ZERO" \notin tn -> Packing(MaxExponent(f), {"DZC"})
       [] OTHER -> Packing(0, {})
IsDivisionSpecial(f, n, m) ==
  (type(f, n) \union type(f, m)) \intersect {"NAN", "INFINITY", "ZERO"} # {}

\* The exponent of the quotient, and the operands that the words are divided
\* with.
Divided(f, n, m) ==
  LET larger == m.significand <= n.significand
  IN [exponent |-> n.exponent - m.exponent + Bias(f) - 1 + IF larger THEN 1 ELSE 0,
      n |-> IF larger THEN n.significand \div 2 ELSE n.significand,
      m |-> 2 * m.significand, sign |-> IF n.sign = m.sign THEN 0 ELSE 1]

\* The last bit tells whether there was a remainder, when it could decide.
SingleQuotient(f, q, sig) ==
  IF sig % 2 ^ (LOW_BITS(f) - 1) = 0 THEN Jam(sig, q.m * sig # q.n * Top(f)) ELSE sig
RoundedQuotient(f, q, fp) ==
  normaliseround(f, FormatNumber(q.sign, q.exponent,
                                 SingleQuotient(f, q, (q.n * Top(f)) \div q.m)), fp, {})
vfp_single_fdiv(n, m, fp) ==
  IF IsDivisionSpecial(Single, unpack(Single, n), unpack(Single, m))
    THEN DivisionSpecial(Single, unpack(Single, n), unpack(Single, m), fp)
    ELSE RoundedQuotient(Single, Divided(Single, Operand(Single, n), Operand(Single, m)), fp)
=============================================================================
