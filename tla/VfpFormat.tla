----------------------------- MODULE VfpFormat -----------------------------
(***************************************************************************)
(* The helpers of the floating point unit: numbers taken apart into an     *)
(* exponent, a sign and a significand, the shift that keeps what it shifts *)
(* out as a last bit, and arithmetic on pairs of words.                    *)
(*                                                                         *)
(* The program has every operation twice, for 32 bits with an exponent of  *)
(* 8 and for 64 bits with one of 11.  The text is the same up to the       *)
(* widths, so the model has it once, over a format f: f.e bits of exponent *)
(* and f.m of mantissa, packed with a sign into 1 + f.e + f.m bits.        *)
(***************************************************************************)
EXTENDS Integers

CONSTANTS Single, Double        \* the two formats

Bits(f) == 1 + f.e + f.m
Top(f) == 2 ^ Bits(f)
ASSUME FormatAssumption ==
  /\ \A f \in {Single, Double} : f.e \in Nat \ {0, 1} /\ f.m \in Nat \ {0}
  /\ Bits(Double) % 2 = 0
  /\ Double.e > Single.e /\ Double.m > 2 * Single.m

LOW_BITS(f) == Bits(f) - f.m - 2
MaxExponent(f) == 2 ^ f.e - 1              \* 255 and 2047
Bias(f) == 2 ^ (f.e - 1) - 1               \* 127 and 1023
SIGNIFICAND_QNAN(f) == 2 ^ (f.m - 1 + LOW_BITS(f))
Packed(f) == 0 .. Top(f) - 1

\* x with its last bit set when P.
Jam(x, P) == IF P /\ x % 2 = 0 THEN x + 1 ELSE x
AsSignedIn(f, x) == IF 2 * x >= Top(f) THEN x - Top(f) ELSE x

\* The position of the highest bit that is set, from 1.
fls(x) == CHOOSE k \in 0 .. 30 : x < 2 ^ k /\ (k > 0 => 2 ^ (k - 1) <= x)

vfp_shiftrightjamming(f, val, shift) ==
  IF shift < Bits(f) THEN Jam(val \div 2 ^ shift, val % 2 ^ shift # 0)
                     ELSE IF val # 0 THEN 1 ELSE 0

\* The high bits of val, without its low ones.
vfp_hi64to32jamming(val, low) == Jam(val \div 2 ^ low, val % 2 ^ low # 0)
\* By how much a double is wider than a single.
Wider == Bits(Double) - Bits(Single)

----------------------------------------------------------------------------
(* Pairs of words of a double, [h, l].                                     *)
Wrap64(x) == x % Top(Double)
Half64 == 2 ^ (Bits(Double) \div 2)
Hi(x) == x \div Half64
Lo(x) == x % Half64
Pair(h, l) == [h |-> Wrap64(h), l |-> Wrap64(l)]
BelowZero(p) == 2 * p.h >= Top(Double)

add128(n, m) ==
  Pair(n.h + m.h + (IF Wrap64(n.l + m.l) < n.l THEN 1 ELSE 0), n.l + m.l)
sub128WithoutBorrow(n, m) == Pair(n.h - m.h, n.l - m.l)
sub128(n, m) ==
  Pair(n.h - m.h - (IF Wrap64(n.l - m.l) > n.l THEN 1 ELSE 0), n.l - m.l)

mul64to128(n, m) ==
  LET rmb == Lo(n) * Hi(m)
      rma == Wrap64(Hi(n) * Lo(m) + rmb)
      rl == Wrap64(Lo(n) * Lo(m) + Lo(rma) * Half64)
  IN Pair(Hi(n) * Hi(m) + (IF rma < rmb THEN Half64 ELSE 0) + Hi(rma)
            + (IF rl < Wrap64(Lo(rma) * Half64) THEN 1 ELSE 0), rl)

shift64left(n) == Pair(n \div 2 ^ (Bits(Double) - 1), 2 * n)
vfp_hi64multiply64(n, m) == LET r == mul64to128(n, m) IN Jam(r.h, r.l # 0)

\* An estimate of nh:nl divided by m, never below the quotient.
vfp_estimate_div128to64(nh, nl, m) ==
  LET mh == Hi(m)
      Digit(x) == IF mh * Half64 <= x THEN Half64 - 1 ELSE x \div mh
      \* Takes the estimate down until the remainder is not negative.
      Correct[k \in 0 .. 4] ==
        IF k = 0
          THEN LET z == Digit(nh) * Half64
               IN [z |-> z, rem |-> sub128(Pair(nh, nl), mul64to128(m, z))]
          ELSE LET c == Correct[k - 1]
               IN IF ~BelowZero(c.rem) THEN c
                  ELSE [z |-> c.z - Half64, rem |-> add128(c.rem, Pair(mh, Lo(m) * Half64))]
      c == Correct[4]
  IN IF nh >= m THEN Top(Double) - 1
     ELSE c.z + Digit(Lo(c.rem.h) * Half64 + Hi(c.rem.l))

----------------------------------------------------------------------------
(* Unpacked numbers.  The significand is aligned so that the leading one   *)
(* of a normal number is at bit Bits(f) - 2.                               *)
SignBit(f, v) == v \div 2 ^ (Bits(f) - 1)
ExponentBits(f, v) == (v \div 2 ^ f.m) % 2 ^ f.e
MantissaBits(f, v) == v % 2 ^ f.m
PackedNegate(f, v) == (v + 2 ^ (Bits(f) - 1)) % Top(f)
PackedAbs(f, v) == v % 2 ^ (Bits(f) - 1)
FormatNumber(s, x, g) == [sign |-> s, exponent |-> x, significand |-> g]

unpack(f, v) ==
  LET x == ExponentBits(f, v)
  IN FormatNumber(SignBit(f, v), x,
       MantissaBits(f, v) * 2 ^ LOW_BITS(f)
         + (IF x \notin {0, MaxExponent(f)} THEN 2 ^ (Bits(f) - 2) ELSE 0))

pack(f, u) ==
  (u.sign * 2 ^ (Bits(f) - 1) + u.exponent * 2 ^ f.m + u.significand \div 2 ^ LOW_BITS(f)) % Top(f)

\* The classes of a number, a set as the bits of the code are.
VFP_QNAN == {"NAN"}
VFP_SNAN == {"NAN", "NAN_SIGNAL"}
type(f, u) ==
  CASE u.exponent = MaxExponent(f) /\ u.significand = 0 -> {"INFINITY"}
    [] u.exponent = MaxExponent(f) /\ u.significand # 0 ->
         IF (u.significand \div SIGNIFICAND_QNAN(f)) % 2 = 1 THEN VFP_QNAN ELSE VFP_SNAN
    [] u.exponent = 0 -> {"NUMBER", IF u.significand = 0 THEN "ZERO" ELSE "DENORMAL"}
    [] OTHER -> {"NUMBER"}
=============================================================================
