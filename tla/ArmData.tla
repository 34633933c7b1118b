------------------------------ MODULE ArmData ------------------------------
(***************************************************************************)
(* The data-processing instructions of the interpreter, the multiplies and *)
(* the transfers that share their opcodes (bits 20-27 from 0x00 to 0x3f).  *)
(***************************************************************************)
EXTENDS ArmTransfer

----------------------------------------------------------------------------
(* The shifter: the state it leaves (the pc moves on when a register gives *)
(* the amount; the S form sets the carry) and the operand.                 *)
ByRegister(i) == i.mid % 2 = 1

Amount(t, i) == IF ByRegister(i) THEN t.Reg[i.hi] % (8 * W) ELSE ShiftBits(i)
Prepared(s, i) == IF ByRegister(i) THEN IncPC(s) ELSE s

ShiftedValue(i, k, x, n, c) ==
  CASE ByRegister(i) /\ n = 0 -> x
    [] ~ByRegister(i) /\ n = 0 /\ k = "ROR" -> Shr(x, 1) + c * 2 ^ (W - 1)
    [] ~ByRegister(i) /\ k = "LSL" -> Shl(x, n)
    [] n # 0 /\ k = "ROR" -> IF n % W = 0 THEN x ELSE Rotr(x, n % W)
    [] OTHER ->
         LET out == IF ByRegister(i) THEN n >= W ELSE n = 0   \* all the bits are shifted out
         IN CASE k = "LSL" -> IF out THEN 0 ELSE Shl(x, n)
              [] k = "LSR" -> IF out THEN 0 ELSE Shr(x, n)
              [] k = "ASR" -> Sar(x, IF out THEN W - 1 ELSE n)
ShiftedOut(i, k, x, n, c) ==
  CASE ByRegister(i) /\ n = 0 -> c
    [] ~ByRegister(i) /\ n = 0 -> IF k = "ROR" THEN x % 2 ELSE NEG(x)
    [] OTHER ->
         CASE k = "LSL" -> IF n > W THEN 0 ELSE BitOf(x, W - n)
           [] k = "LSR" -> IF n > W THEN 0 ELSE BitOf(x, n - 1)
           [] k = "ASR" -> IF n >= W THEN NEG(x) ELSE BitOf(x, n - 1)
           [] k = "ROR" -> IF n % W = 0 THEN NEG(x) ELSE BitOf(x, (n % W) - 1)

ShiftedRHS(t, i, x, n) == [s |-> t, v |-> ShiftedValue(i, ShiftKind(i), x, n, t.CFlag)]
ShiftedSRHS(t, i, x, n) ==
  [s |-> [t EXCEPT !.CFlag = ShiftedOut(i, ShiftKind(i), x, n, @)],
   v |-> ShiftedValue(i, ShiftKind(i), x, n, t.CFlag)]

GetDPRegRHS(s, i) ==
  LET t == Prepared(s, i) IN ShiftedRHS(t, i, t.Reg[i.rm], Amount(t, i))
GetDPSRegRHS(s, i) ==
  LET t == Prepared(s, i) IN ShiftedSRHS(t, i, t.Reg[i.rm], Amount(t, i))

\* A register that is not shifted leaves the carry alone.
Unshifted(i) == i.hi = 0 /\ i.mid = 0
DPRegRHS(s, i) == IF Unshifted(i) THEN [s |-> s, v |-> s.Reg[i.rm]] ELSE GetDPRegRHS(s, i)
DPSRegRHS(s, i) == IF Unshifted(i) THEN [s |-> s, v |-> s.Reg[i.rm]] ELSE GetDPSRegRHS(s, i)

\* ARMul_ImmedTable: a byte rotated right by twice the bits 8-11.
DPImm(i) ==
  LET imm == (i.mid * 16 + i.rm) % ByteSize  n == (2 * i.hi) % W
  IN IF n = 0 THEN imm ELSE Rotr(imm, n)
DPImmRHS(s, i) == [s |-> s, v |-> DPImm(i)]
DPSImmRHS(s, i) ==
  [s |-> IF i.hi > 0 THEN [s EXCEPT !.CFlag = NEG(DPImm(i))] ELSE s, v |-> DPImm(i)]

----------------------------------------------------------------------------
(* The flags of additions and subtractions.                                *)
AddOverflow(a, b, d) == NEG(a) = NEG(b) /\ NEG(d) # NEG(a)
SubOverflow(a, b, d) == NEG(a) # NEG(b) /\ NEG(d) # NEG(a)
AddCarry(a, b, d) == (NEG(a) + NEG(b) = 2) \/ (NEG(a) + NEG(b) = 1 /\ POS(d) = 1)
SubCarry(a, b, d) == (NEG(a) + POS(b) = 2) \/ (NEG(a) + POS(b) = 1 /\ POS(d) = 1)

MutAddFlags(s, a, b, d) ==
  LET t == [s EXCEPT !.ZFlag = Flag(d = 0)]
  IN IF a < 2 ^ (W - 1) /\ b < 2 ^ (W - 1)
       THEN [t EXCEPT !.NFlag = 0, !.CFlag = 0, !.VFlag = 0]
       ELSE [t EXCEPT !.NFlag = NEG(d), !.CFlag = Flag(AddCarry(a, b, d)),
                      !.VFlag = Flag(AddOverflow(a, b, d))]

\* Without one of the two top bits set nothing can carry or overflow.
AddFlags(s, a, b, d) ==
  LET t == [s EXCEPT !.ZFlag = Flag(d = 0)]
  IN IF a < 2 ^ (W - 2) /\ b < 2 ^ (W - 2)
       THEN [t EXCEPT !.NFlag = 0, !.CFlag = 0, !.VFlag = 0]
       ELSE [t EXCEPT !.NFlag = NEG(d), !.CFlag = Flag(AddCarry(a, b, d)),
                      !.VFlag = Flag(AddOverflow(a, b, d))]
SubFlags(s, a, b, d) ==
  IF a >= b \/ NEG(a) = 1 \/ NEG(b) = 1
    THEN [s EXCEPT !.CFlag = Flag(SubCarry(a, b, d)), !.VFlag = Flag(SubOverflow(a, b, d))]
    ELSE [s EXCEPT !.CFlag = 0, !.VFlag = 0]

----------------------------------------------------------------------------
(* The forms of a data-processing instruction; F gives the result from the *)
(* left and the right operand.  The S forms of the arithmetic read the     *)
(* left operand before the shifter has moved the pc, the others after.     *)
Plain1(r, i, F(_, _)) == WriteDest(r.s, i, Wrap(F(LHS(r.s, i), r.v)))
LogicalS(r, i, F(_, _)) == WriteSDest(r.s, i, F(LHS(r.s, i), r.v))
AddS(r, i, lhs, c) ==
  LET d == Wrap(lhs + r.v + c) IN WriteSDest(AddFlags(r.s, lhs, r.v, d), i, d)
SubS(r, i, lhs, c) ==
  LET d == Wrap(lhs - r.v - c) IN WriteSDest(SubFlags(r.s, lhs, r.v, d), i, d)
RsbS(r, i, lhs, c) ==
  LET d == Wrap(r.v - lhs - c) IN WriteSDest(SubFlags(r.s, r.v, lhs, d), i, d)

\* The tests; with register 15 for the destination they restore the status
\* register instead.
RestorePsr(s) == ARMul_CPSRAltered(s, ARMul_GetSPSR(s))
TestLogical(r, i, F(_, _)) == ARMul_NegZero(r.s, F(LHS(r.s, i), r.v))
Compare(r, lhs) ==
  LET d == Wrap(lhs - r.v) IN SubFlags(ARMul_NegZero(r.s, d), lhs, r.v, d)
CompareNegative(r, lhs) == AddFlags(r.s, lhs, r.v, Wrap(lhs + r.v))

Add(a, b) == a + b
Sub(a, b) == a - b
Rsb(a, b) == b - a
AndNot(a, b) == And(a, Not(b))
Second(a, b) == b
NotSecond(a, b) == Not(b)
Borrow(s) == 1 - s.CFlag

----------------------------------------------------------------------------
(* The multiplies.                                                         *)
Product(s, i) == s.Reg[i.rm] * s.Reg[i.hi]
MultiplyInto(s, i, v) == IF i.rn # 15 THEN SetReg(s, i.rn, v) ELSE s
MultiplyIntoS(s, i, v) ==
  IF i.rn # 15 THEN ARMul_NegZero(SetReg(s, i.rn, v), Wrap(v)) ELSE s

\* Two words added, and the carry.
Add32(a1, a2) == [v |-> Wrap(a1 + a2), c |-> (a1 + a2) \div Size]

\* Z and N of a double word, from one word that has the top bit of the high
\* word and is zero when both are.
LongFlags(s, lo, hi) == ARMul_NegZero(s, Or(hi, Or(HalfOf(lo, 1), HalfOf(lo, 0))))

\* The double word product of two words from four products of halves.
HighProduct(m, r, one, two) ==
  [lo |-> two.v,
   hi |-> Wrap(one.c + two.c + HalfOf(HalfOf(r, 0) * HalfOf(m, 1), 1)
                 + HalfOf(HalfOf(r, 1) * HalfOf(m, 0), 1) + HalfOf(r, 1) * HalfOf(m, 1))]
MiddleProduct(m, r, one) ==
  HighProduct(m, r, one, Add32(one.v, Shl(HalfOf(r, 1) * HalfOf(m, 0), 2 * B)))
LowProduct(m, r) ==
  MiddleProduct(m, r, Add32(HalfOf(r, 0) * HalfOf(m, 0), Shl(HalfOf(r, 0) * HalfOf(m, 1), 2 * B)))

\* Its negation, across the two words.
Negated(p) == [lo |-> Wrap(-p.lo), hi |-> IF p.lo = 0 THEN Wrap(Not(p.hi) + 1) ELSE Not(p.hi)]
Magnitude(x, msigned) == IF msigned /\ NEG(x) = 1 THEN Wrap(-x) ELSE x
LongProductOf(rm, rs, msigned) ==
  LET p == LowProduct(Magnitude(rm, msigned), Magnitude(rs, msigned))
  IN IF msigned /\ NEG(rm) # NEG(rs) THEN Negated(p) ELSE p

\* Where the registers are not legal the product is dropped, and is 0 for the
\* flags.
SetLong(s, i, lo, hi, scc) ==
  LET t == SetReg(SetReg(s, i.rd, lo), i.rn, hi) IN IF scc THEN LongFlags(t, lo, hi) ELSE t
LegalLong(i) == 15 \notin {i.rn, i.rd, i.hi, i.rm} /\ i.rn # i.rd
Multiply64(s, i, msigned, scc) ==
  IF LegalLong(i)
    THEN LET p == LongProductOf(s.Reg[i.rm], s.Reg[i.hi], msigned) IN SetLong(s, i, p.lo, p.hi, scc)
    ELSE IF scc THEN LongFlags(s, 0, 0) ELSE s

AddLong(s, t, i, low, scc) ==
  SetLong(t, i, low.v, Wrap(s.Reg[i.rn] + t.Reg[i.rn] + low.c), scc)
AddTo(s, t, i, scc) == AddLong(s, t, i, Add32(s.Reg[i.rd], t.Reg[i.rd]), scc)
MultiplyAdd64(s, i, msigned, scc) == AddTo(s, Multiply64(s, i, msigned, FALSE), i, scc)

\* The product is cut to one word before the accumulators are added.
UMAAL(s, i) ==
  SetReg(SetReg(s, i.rd, Wrap(Product(s, i)) + s.Reg[i.rd] + s.Reg[i.rn]), i.rn, 0)

\* The products of signed halves.
HalfOperand(x, top) == SignedHalf(HalfOf(x, top))
HalfProduct(s, i) ==
  HalfOperand(s.Reg[i.rm], BitOf(i.mid, 1)) * HalfOperand(s.Reg[i.hi], BitOf(i.mid, 2))
HalfMultiply(i) == i.mid \in {8, 10, 12, 14}

Accumulate(s, i, v) ==
  LET op1 == Wrap(v)  rn == s.Reg[i.rd]
  IN SetReg(SetQ(s, AddOverflow(op1, rn, Wrap(op1 + rn))), i.rn, op1 + rn)
SMLAxy(s, i) == Accumulate(s, i, HalfProduct(s, i))
SMULxy(s, i) == SetReg(s, i.rn, HalfProduct(s, i))
WordHalf(s, i) ==
  (Signed(s.Reg[i.rm]) * HalfOperand(s.Reg[i.hi], BitOf(i.mid, 2))) \div HalfSize
SMLAWy_SMULWy(s, i) ==
  IF BitOf(i.mid, 1) = 0 THEN Accumulate(s, i, WordHalf(s, i)) ELSE SetReg(s, i.rn, WordHalf(s, i))
SMLALxy(s, i) ==
  LET low == s.Reg[i.rd] + HalfProduct(s, i)
  IN SetReg(SetReg(s, i.rd, low), i.rn, s.Reg[i.rn] + low \div Size)

\* The saturating additions.
Clamped(d) == IF POS(d) = 1 THEN 2 ^ (W - 1) ELSE 2 ^ (W - 1) - 1
SatAdd(a, b) ==
  LET d == Wrap(a + b) IN IF AddOverflow(a, b, d) THEN [v |-> Clamped(d), q |-> TRUE]
                          ELSE [v |-> d, q |-> FALSE]
SatSub(a, b) ==
  LET d == Wrap(a - b) IN IF SubOverflow(a, b, d) THEN [v |-> Clamped(d), q |-> TRUE]
                          ELSE [v |-> d, q |-> FALSE]
Saturating(s, i, subtracts, doubled) ==
  LET twice == SatAdd(s.Reg[i.rn], s.Reg[i.rn])
      b == IF doubled THEN twice.v ELSE s.Reg[i.rn]
      r == IF subtracts THEN SatSub(s.Reg[i.rm], b) ELSE SatAdd(s.Reg[i.rm], b)
  IN SetReg(SetQ(s, r.q \/ (doubled /\ twice.q)), i.rd, r.v)

CLZ(s, i) ==
  SetReg(s, i.rd, W - Cardinality({k \in 0 .. W - 1 : 2 ^ k <= s.Reg[i.rm]}))
=============================================================================
