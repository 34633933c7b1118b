------------------------------ MODULE ArmMedia ------------------------------
(***************************************************************************)
(* The media instructions of the interpreter: handle_v6_insn and what is   *)
(* decoded in front of it (packing, bit fields).  An instruction that      *)
(* handle_v6_insn does not know is undefined.                              *)
(***************************************************************************)
EXTENDS ArmData, FiniteSetsExt

Unhandled(s) == ARMul_UndefInstr(s)

----------------------------------------------------------------------------
(* Parallel additions and subtractions of halves and bytes.                *)
Packed(lo, hi) == OfHalves(lo % HalfSize, hi % HalfSize)
PackedBytes(b) == OfBytes([k \in 1 .. 4 |-> b[k] % ByteSize])

IsHalves(i) == i.hi = 15 /\ i.mid \in {1, 3, 5, 7}
IsBytes(i) == i.hi = 15 /\ i.mid \in {9, 15}

\* The two results of ADD16, ASX, SAX and SUB16 (op 0 to 3), of
\* halves read with a sign or without.
OnHalves(s, i, signed, op) ==
  LET V(x) == IF signed THEN SignedHalf(x) ELSE x
      n(k) == V(HalfOf(s.Reg[i.rn], k))  m(k) == V(HalfOf(s.Reg[i.rm], k))
  IN CASE op = 0 -> <<n(0) + m(0), n(1) + m(1)>>
       [] op = 1 -> <<n(0) - m(1), n(1) + m(0)>>
       [] op = 2 -> <<n(0) + m(1), n(1) - m(0)>>
       [] op = 3 -> <<n(0) - m(0), n(1) - m(1)>>
OnBytes(s, i, F(_, _)) ==
  [k \in 1 .. 4 |-> F(ByteOf(s.Reg[i.rn], k - 1), ByteOf(s.Reg[i.rm], k - 1))]

Minus(a, b) == a - b
HalfGE(s, r, P(_)) == [s EXCEPT !.GEFlag = {k \in 0 .. 3 : P(r[(k \div 2) + 1])}]
ByteGE(s, r, P(_)) == [s EXCEPT !.GEFlag = {k \in 0 .. 3 : P(r[k + 1])}]

\* SADD16 and its kin; the signs of bytes are those of the sums' low bits.
SignedParallel(s, i) ==
  LET r == OnHalves(s, i, TRUE, i.mid \div 2)
      sum == OnBytes(s, i, Add)  dif == OnBytes(s, i, Minus)
      Top(x) == (x % ByteSize) * 2 >= ByteSize
  IN CASE IsHalves(i) -> HalfGE(SetReg(s, i.rd, Packed(r[1], r[2])), r, LAMBDA x : x >= 0)
       [] IsBytes(i) /\ i.mid = 9 -> ByteGE(SetReg(s, i.rd, PackedBytes(sum)), sum, Top)
       [] IsBytes(i) /\ i.mid = 15 ->
            ByteGE(SetReg(s, i.rd, PackedBytes(dif)), dif, LAMBDA x : ~Top(x))
       [] OTHER -> Unhandled(s)

Between(x, lo, hi) == IF x < lo THEN lo ELSE IF x > hi THEN hi ELSE x
SignedSaturating(s, i) ==
  LET r == OnHalves(s, i, TRUE, i.mid \div 2)
      Sat(x) == Between(x, -(HalfSize \div 2), (HalfSize \div 2) - 1)
  IN IF IsHalves(i) THEN SetReg(s, i.rd, Packed(Sat(r[1]), Sat(r[2]))) ELSE Unhandled(s)

\* UADD16, USUB16, UADD8, USUB8.  What byte 0 carries or borrows is not masked
\* out of the result.
UnsignedParallel(s, i) ==
  LET r == OnHalves(s, i, FALSE, i.mid \div 2)
      sum == OnBytes(s, i, Add)  dif == OnBytes(s, i, Minus)
      Result(b) == Or(Wrap(b[1]), PackedBytes([b EXCEPT ![1] = 0]))
  IN CASE i.hi = 15 /\ i.mid = 1 ->
            HalfGE(SetReg(s, i.rd, Packed(r[1], r[2])), r, LAMBDA x : x >= HalfSize)
       [] i.hi = 15 /\ i.mid = 7 ->
            HalfGE(SetReg(s, i.rd, Packed(r[1], r[2])), r, LAMBDA x : x >= 0)
       [] IsBytes(i) /\ i.mid = 9 ->
            ByteGE(SetReg(s, i.rd, Result(sum)), sum, LAMBDA x : x >= ByteSize)
       [] IsBytes(i) /\ i.mid = 15 -> ByteGE(SetReg(s, i.rd, Result(dif)), dif, LAMBDA x : x >= 0)
       [] OTHER -> Unhandled(s)

\* UQADD16 and its kin; bits 8-11 are not looked at.
UnsignedSaturating(s, i) ==
  LET op == i.mid \div 2
      r == OnHalves(s, i, FALSE, op)
      Sat16(x) == Between(x, 0, HalfSize - 1)
      Sat8(x) == Between(x, 0, ByteSize - 1)
      SatSum(a, b) == Sat8(a + b)
      SatDif(a, b) == Sat8(a - b)
  IN CASE op < 4 -> SetReg(s, i.rd, Packed(Sat16(r[1]), Sat16(r[2])))
       [] op = 4 -> SetReg(s, i.rd, OfBytes(OnBytes(s, i, SatSum)))
       [] OTHER -> SetReg(s, i.rd, OfBytes(OnBytes(s, i, SatDif)))

UnsignedHalving(s, i) ==
  LET op == i.mid \div 2
      r == OnHalves(s, i, FALSE, op)
      HalfSum(a, b) == (a + b) \div 2
      HalfDif(a, b) == (a - b) \div 2
  IN CASE op < 4 -> SetReg(s, i.rd, Packed(r[1] \div 2, r[2] \div 2))
       [] op = 4 -> SetReg(s, i.rd, PackedBytes(OnBytes(s, i, HalfSum)))
       [] op = 7 -> SetReg(s, i.rd, PackedBytes(OnBytes(s, i, HalfDif)))
       [] OTHER -> Unhandled(s)

----------------------------------------------------------------------------
(* Selecting, packing, extending, saturating and reversing.                *)
SEL(s, i) ==
  LET Chosen(k) == IF k - 1 \in s.GEFlag THEN i.rn ELSE i.rm
  IN IF i.hi = 15 /\ i.mid = 11
       THEN SetReg(s, i.rd, OfBytes([k \in 1 .. 4 |-> ByteOf(s.Reg[Chosen(k)], k - 1)]))
       ELSE Unhandled(s)

IsPKHBT(i) == i.mid % 8 = 1
IsPKHTB(i) == i.mid % 8 = 5
PKHBT(s, i) ==
  SetReg(s, i.rd, OfHalves(HalfOf(s.Reg[i.rn], 0), HalfOf(Shl(s.Reg[i.rm], ShiftBits(i)), 1)))
PKHTB(s, i) ==
  SetReg(s, i.rd, OfHalves(HalfOf(Shr(s.Reg[i.rm], ShiftBits(i)), 0), HalfOf(s.Reg[i.rn], 1)))

\* Rotates the source register by whole bytes before it is extended.
IsExtend(i) == i.mid = 7 /\ i.hi \in {0, 4, 8, 12}
Rotated(s, i) ==
  LET n == B * (i.hi \div 4)  x == s.Reg[i.rm] IN IF n = 0 THEN x ELSE Rotr(x, n)
Extended(s, i, v) == SetReg(s, i.rd, IF i.rn = 15 THEN v ELSE s.Reg[i.rn] + v)

IsSaturate16(i) == (i.hi = 0 /\ i.mid = 1) \/ (i.hi = 15 /\ i.mid = 3)
Saturate16(s, i, lo, hi, Place(_, _)) ==
  LET l == SignedHalf(HalfOf(s.Reg[i.rm], 0))  h == SignedHalf(HalfOf(s.Reg[i.rm], 1))
  IN SetReg(SetQ(s, l \notin lo .. hi \/ h \notin lo .. hi), i.rd,
            Place(Between(l, lo, hi), Between(h, lo, hi)))

Case6a(s, i) ==     \* SXTB, SXTAB, SSAT16
  LET bits == i.rn % (2 * B)
  IN CASE IsSaturate16(i) -> Saturate16(s, i, -(2 ^ bits), 2 ^ bits - 1, Packed)
       [] IsExtend(i) -> Extended(s, i, SignByte(ByteOf(Rotated(s, i), 0)))
       [] OTHER -> Unhandled(s)
Case6b(s, i) ==     \* SXTH, SXTAH, REV, REV16
  LET b(k) == ByteOf(RHS(s, i), k)
  IN CASE i.hi = 15 /\ i.mid = 3 -> SetReg(s, i.rd, OfBytes(<<b(3), b(2), b(1), b(0)>>))
       [] i.hi = 15 /\ i.mid = 11 -> SetReg(s, i.rd, OfBytes(<<b(1), b(0), b(3), b(2)>>))
       [] IsExtend(i) -> Extended(s, i, SignHalf(HalfOf(Rotated(s, i), 0)))
       [] OTHER -> Unhandled(s)
Case6c(s, i) ==     \* UXTB16, UXTAB16
  LET lo == ByteOf(Rotated(s, i), 0)  hi == ByteOf(Rotated(s, i), 2)
      n(k) == HalfOf(s.Reg[i.rn], k)
  IN IF i.rn = 15 /\ i.hi % 4 = 0 /\ i.mid = 7 THEN SetReg(s, i.rd, OfHalves(lo, hi))
     ELSE SetReg(s, i.rd, Packed(n(0) + lo, n(1) + hi))
Case6e(s, i) ==     \* UXTB, UXTAB, USAT16 (which loses its high half)
  CASE IsSaturate16(i) ->
         Saturate16(s, i, 0, AsSigned(2 ^ (i.rn % (2 * B)) - 1, HalfSize), LAMBDA lo, hi : lo)
    [] IsExtend(i) -> Extended(s, i, ByteOf(Rotated(s, i), 0))
    [] OTHER -> Unhandled(s)
Case6f(s, i) ==     \* UXTH, UXTAH, REVSH
  LET b(k) == ByteOf(RHS(s, i), k)
  IN CASE i.hi = 15 /\ i.mid = 11 -> SetReg(s, i.rd, SignHalf(b(1) + ByteSize * b(0)))
       [] IsExtend(i) -> Extended(s, i, HalfOf(Rotated(s, i), 0))
       [] OTHER -> Unhandled(s)

----------------------------------------------------------------------------
(* The multiplications; their fields are rn (destination), rm, hi and rd   *)
(* (what is added), and bit 5 swaps the halves of the second factor.       *)
Swapped(i) == BitOf(i.mid, 1)
Subtracts(i) == BitOf(i.mid, 2) = 1
HalfProducts(s, i) ==
  LET P(k) == SignedHalf(HalfOf(s.Reg[i.rm], k))
                * SignedHalf(HalfOf(s.Reg[i.hi], (k + Swapped(i)) % 2))
  IN <<P(0), P(1)>>
Overflows(a, b) == AddOverflow(Wrap(a), Wrap(b), Wrap(a + b))

\* The destination is written before the accumulator is read.
AddAccumulator(t, i) == IF i.rd = 15 THEN t ELSE SetReg(t, i.rn, t.Reg[i.rn] + t.Reg[i.rd])
DoubleQ(u, i, p, v) ==
  SetQ(u, \/ i.rd # 15 /\ Overflows(v, u.Reg[i.rd])
          \/ ~Subtracts(i) /\ Overflows(p[1], p[2]))
SMLADOf(s, i, p, v) == DoubleQ(AddAccumulator(SetReg(s, i.rn, v), i), i, p, v)
SumOfProducts(i, p) == IF Subtracts(i) THEN p[1] - p[2] ELSE p[1] + p[2]
SMLAD(s, i) ==
  IF i.mid \in {1, 3, 5, 7}
    THEN LET p == HalfProducts(s, i) IN SMLADOf(s, i, p, SumOfProducts(i, p))
    ELSE Unhandled(s)

\* The sum of the products wraps on the processors that run the emulator.
AddToDouble(s, i, v) ==
  LET low == s.Reg[i.rd] + v
  IN SetReg(SetReg(s, i.rd, low), i.rn, s.Reg[i.rn] + low \div Size)
SMLALD(s, i) ==
  AddToDouble(s, i, Signed(Wrap(SumOfProducts(i, HalfProducts(s, i)))))

SMMLA(s, i) ==
  LET p == Signed(s.Reg[i.rm]) * Signed(s.Reg[i.hi])
      acc == s.Reg[i.rd] * Size
      v == CASE i.rd = 15 -> p
             [] i.rd # 15 /\ ~Subtracts(i) -> p + acc
             [] OTHER -> acc - p
  IN SetReg(s, i.rn, (v + Swapped(i) * 2 ^ (W - 1)) \div Size)

USAD8(s, i) ==
  LET d(k) == LET a == ByteOf(s.Reg[i.rm], k)  b == ByteOf(s.Reg[i.hi], k)
              IN IF a > b THEN a - b ELSE b - a
  IN SetReg(s, i.rn, d(0) + d(1) + d(2) + d(3) + (IF i.rd = 15 THEN 0 ELSE s.Reg[i.rd]))

handle_v6_insn(s, i) ==
  CASE i.code = 97 -> SignedParallel(s, i) [] i.code = 98 -> SignedSaturating(s, i)
    [] i.code = 101 -> UnsignedParallel(s, i) [] i.code = 102 -> UnsignedSaturating(s, i)
    [] i.code = 103 -> UnsignedHalving(s, i) [] i.code = 104 -> SEL(s, i)
    [] i.code = 106 -> Case6a(s, i) [] i.code = 107 -> Case6b(s, i)
    [] i.code = 108 -> Case6c(s, i) [] i.code = 110 -> Case6e(s, i)
    [] i.code = 111 -> Case6f(s, i) [] i.code = 112 -> SMLAD(s, i)
    [] i.code = 116 -> SMLALD(s, i) [] i.code = 117 -> SMMLA(s, i)
    [] i.code = 120 -> USAD8(s, i) [] OTHER -> Unhandled(s)

----------------------------------------------------------------------------
(* Bit fields, decoded in front of the table of opcodes; the width is less *)
(* by one in the instruction.  BFI and BFC compute a value and drop it.    *)
IsUBFX(i) == i.code \in {126, 127} /\ i.mid % 8 = 5
IsSBFX(i) == i.code \in {122, 123} /\ i.mid % 8 = 5
IsBFI(i) == i.code \in {124, 125} /\ i.mid % 8 = 1

FieldWidth(i) == (16 * (i.code % 2) + i.rn) % W
InWord(i) == ShiftBits(i) + FieldWidth(i) < W
UBFX(s, i) == SetReg(s, i.rd, Shr(s.Reg[i.rm], ShiftBits(i)) % 2 ^ (FieldWidth(i) + 1))

\* Rd is cleared before Rn is read, and the field stays where it is: what is
\* below it is kept too.
SBFX(s, i) ==
  LET n == 2 ^ (ShiftBits(i) + FieldWidth(i) + 1)
  IN SetReg(s, i.rd, AsSigned(SetReg(s, i.rd, 0).Reg[i.rm] % n, n))
=============================================================================
