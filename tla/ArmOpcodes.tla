----------------------------- MODULE ArmOpcodes -----------------------------
(***************************************************************************)
(* What the interpreter does for each value of bits 20-27 from 0x00 to     *)
(* 0x3f.  The register forms share their opcodes with the multiplies, the  *)
(* transfers of halfwords and double words, the exclusive accesses and the *)
(* instructions that were added later; bits 4-11 (hi and mid) tell them    *)
(* apart, and the order of the tests matters only where it is kept.        *)
(***************************************************************************)
EXTENDS ArmData

----------------------------------------------------------------------------
(* Which extra instruction bits 4-11 ask for.                              *)
IsStrhReg(i) == i.hi = 0 /\ i.mid = 11              \* BITS (4, 11) == 0xB
IsLoadReg(i) == i.hi = 0 /\ i.mid \in {11, 13, 15}  \* (BITS (4, 11) & 0xF9) == 9, not SWP
IsLoadImm(i) == i.mid \in {11, 13, 15}              \* (BITS (4, 7) & 9) == 9, not 9 itself

Case00(s, i) ==
  CASE IsStrhReg(i) -> SHPOST(s, i)
    [] i.mid = 13 -> Handle_Load_Double(s, i)
    [] i.mid = 15 -> Handle_Store_Double(s, i)
    [] i.mid = 9 -> MultiplyInto(s, i, Product(s, i))
    [] OTHER -> Plain1(DPRegRHS(s, i), i, And)
Case01(s, i) ==
  CASE IsLoadReg(i) -> LHPOST(s, i)
    [] i.mid = 9 -> MultiplyIntoS(s, i, Product(s, i))
    [] OTHER -> LogicalS(DPSRegRHS(s, i), i, And)
Case02(s, i) ==
  CASE IsStrhReg(i) -> SHPOST(s, i)
    [] i.mid = 9 -> MultiplyInto(s, i, Product(s, i) + s.Reg[i.rd])
    [] OTHER -> Plain1(DPRegRHS(s, i), i, Xor)
Case03(s, i) ==
  CASE IsLoadReg(i) -> LHPOST(s, i)
    [] i.mid = 9 -> MultiplyIntoS(s, i, Product(s, i) + s.Reg[i.rd])
    [] OTHER -> LogicalS(DPSRegRHS(s, i), i, Xor)
Case04(s, i) ==
  CASE i.mid = 9 -> UMAAL(s, i)
    [] i.mid = 11 -> SHPOST(s, i)
    [] i.mid = 13 -> Handle_Load_Double(s, i)
    [] i.mid = 15 -> Handle_Store_Double(s, i)
    [] OTHER -> Plain1(DPRegRHS(s, i), i, Sub)
Case05(s, i) ==
  IF IsLoadImm(i) THEN LHPOST(s, i) ELSE SubS(DPRegRHS(s, i), i, LHS(s, i), 0)
Case06(s, i) ==
  IF i.mid = 11 THEN SHPOST(s, i) ELSE Plain1(DPRegRHS(s, i), i, Rsb)
Case07(s, i) ==
  IF IsLoadImm(i) THEN LHPOST(s, i) ELSE RsbS(DPRegRHS(s, i), i, LHS(s, i), 0)
Case08(s, i) ==
  CASE IsStrhReg(i) -> SHPOST(s, i)
    [] i.mid = 13 -> Handle_Load_Double(s, i)
    [] i.mid = 15 -> Handle_Store_Double(s, i)
    [] i.mid = 9 -> Multiply64(s, i, FALSE, FALSE)
    [] OTHER -> Plain1(DPRegRHS(s, i), i, Add)
Case09(s, i) ==
  CASE IsLoadReg(i) -> LHPOST(s, i)
    [] i.mid = 9 -> Multiply64(s, i, FALSE, TRUE)
    [] OTHER -> AddS(DPRegRHS(s, i), i, LHS(s, i), 0)
Case0a(s, i) ==
  CASE IsStrhReg(i) -> SHPOST(s, i)
    [] i.mid = 9 -> MultiplyAdd64(s, i, FALSE, FALSE)
    [] OTHER -> Plain1(DPRegRHS(s, i), i, LAMBDA a, b : a + b + s.CFlag)
Case0b(s, i) ==
  CASE IsLoadReg(i) -> LHPOST(s, i)
    [] i.mid = 9 -> MultiplyAdd64(s, i, FALSE, TRUE)
    [] OTHER -> AddS(DPRegRHS(s, i), i, LHS(s, i), s.CFlag)
Case0c(s, i) ==
  CASE i.mid = 11 -> SHPOST(s, i)
    [] i.mid = 13 -> Handle_Load_Double(s, i)
    [] i.mid = 15 -> Handle_Store_Double(s, i)
    [] i.mid = 9 -> Multiply64(s, i, TRUE, FALSE)
    [] OTHER -> Plain1(DPRegRHS(s, i), i, LAMBDA a, b : a - b - Borrow(s))
Case0d(s, i) ==
  CASE IsLoadImm(i) -> LHPOST(s, i)
    [] i.mid = 9 -> Multiply64(s, i, TRUE, TRUE)
    [] OTHER -> SubS(DPRegRHS(s, i), i, LHS(s, i), Borrow(s))
Case0e(s, i) ==
  CASE i.mid = 11 -> SHPOST(s, i)
    [] i.mid = 9 -> MultiplyAdd64(s, i, TRUE, FALSE)
    [] OTHER -> Plain1(DPRegRHS(s, i), i, LAMBDA a, b : b - a - Borrow(s))
Case0f(s, i) ==
  CASE IsLoadImm(i) -> LHPOST(s, i)
    [] i.mid = 9 -> MultiplyAdd64(s, i, TRUE, TRUE)
    [] OTHER -> RsbS(DPRegRHS(s, i), i, LHS(s, i), Borrow(s))

----------------------------------------------------------------------------
(* The tests and what took the place of their forms without the S bit.     *)
IsMrs(i) == i.rn = 15 /\ i.hi = 0 /\ i.mid = 0 /\ i.rm = 0

\* A register cannot set the T bit.
MSR(r, i) == ARMul_FixCPSR(r.s, i, [PsrField(r.v) EXCEPT !.t = 0])

Case10(s, i) ==
  CASE HalfMultiply(i) -> SMLAxy(s, i)
    [] i.hi = 0 /\ i.mid = 5 -> Saturating(s, i, FALSE, FALSE)
    [] IsStrhReg(i) -> SHPRE(s, i)
    [] i.mid = 13 -> Handle_Load_Double(s, i)
    [] i.mid = 15 -> Handle_Store_Double(s, i)
    [] i.hi = 0 /\ i.mid = 9 -> SWP(s, i)
    [] IsMrs(i) -> SetReg(s, i.rd, PsrWord(PsrOf(s)))
    [] OTHER -> s
Case11(s, i) ==
  CASE IsLoadReg(i) -> LHPRE(s, i)
    [] ~IsLoadReg(i) /\ i.rd = 15 -> RestorePsr(s)
    [] OTHER -> TestLogical(DPSRegRHS(s, i), i, And)
Case12(s, i) ==
  CASE i.mid = 3 -> SetReg(WriteR15Branch(s, s.Reg[i.rm]), 14,
                           IF s.TFlag = 1 THEN s.pc + 3 ELSE s.pc + 4)
    [] HalfMultiply(i) /\ (i.mid \in {8, 12} \/ i.rd = 0) -> SMLAWy_SMULWy(s, i)
    [] i.hi = 0 /\ i.mid = 5 -> Saturating(s, i, TRUE, FALSE)
    [] IsStrhReg(i) -> SHPREWB(s, i)
    [] <<i.rn, i.rd, i.hi, i.mid>> = <<15, 15, 15, 1>> -> WriteR15Branch(s, s.Reg[i.rm])
    [] i.mid = 13 -> Handle_Load_Double(s, i)
    [] i.mid = 15 -> Handle_Store_Double(s, i)
    [] i.mid = 7 -> [s EXCEPT !.NextInstr = {"RESUME"}]
    [] OTHER -> IF i.rd = 15 THEN MSR(DPRegRHS(s, i), i) ELSE s
Case13(s, i) ==
  CASE IsLoadReg(i) -> LHPREWB(s, i)
    [] ~IsLoadReg(i) /\ i.rd = 15 -> RestorePsr(s)
    [] OTHER -> TestLogical(DPSRegRHS(s, i), i, Xor)
Case14(s, i) ==
  CASE HalfMultiply(i) -> SMLALxy(s, i)
    [] i.hi = 0 /\ i.mid = 5 -> Saturating(s, i, FALSE, TRUE)
    [] i.mid = 11 -> SHPRE(s, i)
    [] i.mid = 13 -> Handle_Load_Double(s, i)
    [] i.mid = 15 -> Handle_Store_Double(s, i)
    [] i.hi = 0 /\ i.mid = 9 -> SWPB(s, i)
    [] IsMrs(i) -> SetReg(s, i.rd, PsrWord(ARMul_GetSPSR(s)))
    [] OTHER -> s
Case15(s, i) ==
  CASE IsLoadImm(i) -> LHPRE(s, i)
    [] ~IsLoadImm(i) /\ i.rd = 15 -> RestorePsr(s)
    [] OTHER -> Compare(DPRegRHS(s, i), LHS(s, i))
Case16(s, i) ==
  CASE HalfMultiply(i) /\ i.rd = 0 -> SMULxy(s, i)
    [] i.hi = 0 /\ i.mid = 5 -> Saturating(s, i, TRUE, TRUE)
    [] i.rn = 15 /\ i.hi = 15 /\ i.mid = 1 -> CLZ(s, i)
    [] i.mid = 11 -> SHPREWB(s, i)
    [] i.mid = 13 -> Handle_Load_Double(s, i)
    [] i.mid = 15 -> Handle_Store_Double(s, i)
    [] OTHER -> s
Case17(s, i) ==
  CASE IsLoadImm(i) -> LHPREWB(s, i)
    [] ~IsLoadImm(i) /\ i.rd = 15 -> RestorePsr(s)
    [] OTHER -> CompareNegative(DPRegRHS(s, i), LHS(s, i))

----------------------------------------------------------------------------
(* The moves and the exclusive accesses.                                   *)
Case18(s, i) ==
  CASE i.mid = 9 -> STREX(s, i)
    [] IsStrhReg(i) -> SHPRE(s, i)
    [] i.mid = 13 -> Handle_Load_Double(s, i)
    [] i.mid = 15 -> Handle_Store_Double(s, i)
    [] OTHER -> Plain1(DPRegRHS(s, i), i, Or)
Case19(s, i) ==
  CASE i.mid = 9 -> LDREX(s, i)
    [] IsLoadReg(i) -> LHPRE(s, i)
    [] OTHER -> LogicalS(DPSRegRHS(s, i), i, Or)
Case1a(s, i) ==
  CASE IsStrhReg(i) -> SHPREWB(s, i)
    [] i.mid = 13 -> Handle_Load_Double(s, i)
    [] i.mid = 15 -> Handle_Store_Double(s, i)
    [] i.hi = 15 /\ i.mid = 9 -> STREXD(s, i)
    [] OTHER -> Plain1(DPRegRHS(s, i), i, Second)
Case1b(s, i) ==
  CASE i.hi = 15 /\ i.mid = 9 /\ i.rm = 15 -> LDREXD(s, i)
    [] IsLoadReg(i) -> LHPREWB(s, i)
    [] OTHER -> LogicalS(DPSRegRHS(s, i), i, Second)
Case1c(s, i) ==
  CASE i.mid = 9 -> STREXB(s, i)
    [] i.mid = 11 -> SHPRE(s, i)
    [] i.mid = 13 -> Handle_Load_Double(s, i)
    [] i.mid = 15 -> Handle_Store_Double(s, i)
    [] OTHER -> Plain1(DPRegRHS(s, i), i, AndNot)
Case1d(s, i) ==
  CASE i.mid \in {11, 13, 15} -> LHPRE(s, i)
    [] i.mid = 9 -> LDREXB(s, i)
    [] OTHER -> LogicalS(DPSRegRHS(s, i), i, AndNot)
Case1e(s, i) ==
  CASE i.hi = 15 /\ i.mid = 9 -> STREXH(s, i)
    [] i.mid = 11 -> SHPREWB(s, i)
    [] i.mid = 13 -> Handle_Load_Double(s, i)
    [] i.mid = 15 -> Handle_Store_Double(s, i)
    [] OTHER -> Plain1(DPRegRHS(s, i), i, NotSecond)
Case1f(s, i) ==
  CASE i.hi = 15 /\ i.mid = 9 -> LDREXH(s, i)
    [] IsLoadImm(i) -> LHPREWB(s, i)
    [] OTHER -> LogicalS(DPSRegRHS(s, i), i, NotSecond)

RegisterForms(s, i) ==
  CASE i.code = 0 -> Case00(s, i) [] i.code = 1 -> Case01(s, i) [] i.code = 2 -> Case02(s, i)
    [] i.code = 3 -> Case03(s, i) [] i.code = 4 -> Case04(s, i) [] i.code = 5 -> Case05(s, i)
    [] i.code = 6 -> Case06(s, i) [] i.code = 7 -> Case07(s, i) [] i.code = 8 -> Case08(s, i)
    [] i.code = 9 -> Case09(s, i) [] i.code = 10 -> Case0a(s, i) [] i.code = 11 -> Case0b(s, i)
    [] i.code = 12 -> Case0c(s, i) [] i.code = 13 -> Case0d(s, i) [] i.code = 14 -> Case0e(s, i)
    [] i.code = 15 -> Case0f(s, i) [] i.code = 16 -> Case10(s, i) [] i.code = 17 -> Case11(s, i)
    [] i.code = 18 -> Case12(s, i) [] i.code = 19 -> Case13(s, i) [] i.code = 20 -> Case14(s, i)
    [] i.code = 21 -> Case15(s, i) [] i.code = 22 -> Case16(s, i) [] i.code = 23 -> Case17(s, i)
    [] i.code = 24 -> Case18(s, i) [] i.code = 25 -> Case19(s, i) [] i.code = 26 -> Case1a(s, i)
    [] i.code = 27 -> Case1b(s, i) [] i.code = 28 -> Case1c(s, i) [] i.code = 29 -> Case1d(s, i)
    [] i.code = 30 -> Case1e(s, i) [] i.code = 31 -> Case1f(s, i)

----------------------------------------------------------------------------
(* The immediate forms.                                                    *)
ImmediateArithmetic(s, i) ==    \* 0x20 to 0x2f
  LET r == DPImmRHS(s, i)  rs == DPSImmRHS(s, i)  lhs == LHS(s, i)
  IN CASE i.code = 32 -> Plain1(r, i, And)
       [] i.code = 33 -> LogicalS(rs, i, And)
       [] i.code = 34 -> Plain1(r, i, Xor)
       [] i.code = 35 -> LogicalS(rs, i, Xor)
       [] i.code = 36 -> Plain1(r, i, Sub)
       [] i.code = 37 -> SubS(r, i, lhs, 0)
       [] i.code = 38 -> Plain1(r, i, Rsb)
       [] i.code = 39 -> RsbS(r, i, lhs, 0)
       [] i.code = 40 -> Plain1(r, i, Add)
       [] i.code = 41 -> AddS(r, i, lhs, 0)
       [] i.code = 42 -> Plain1(r, i, LAMBDA a, b : a + b + s.CFlag)
       [] i.code = 43 -> AddS(r, i, lhs, s.CFlag)
       [] i.code = 44 -> Plain1(r, i, LAMBDA a, b : a - b - Borrow(s))
       [] i.code = 45 -> SubS(r, i, lhs, Borrow(s))
       [] i.code = 46 -> Plain1(r, i, LAMBDA a, b : b - a - Borrow(s))
       [] i.code = 47 -> RsbS(r, i, lhs, Borrow(s))

\* MOVW, the tests and MSR; MOVT (0x34) does nothing.
ImmediateTests(s, i) ==    \* 0x30 to 0x37
  LET rs == DPSImmRHS(s, i)  lhs == LHS(s, i)
  IN CASE i.code = 48 -> WriteDest(s, i, Wrap(i.rn * 4096 + LSImmRHS(i)))
       [] i.code \in {49, 51, 53, 55} /\ i.rd = 15 -> RestorePsr(s)
       [] i.code = 49 /\ i.rd # 15 -> TestLogical(rs, i, And)
       [] i.code = 50 /\ i.rd = 15 -> ARMul_FixCPSR(s, i, PsrField(DPImm(i)))
       [] i.code = 51 /\ i.rd # 15 -> TestLogical(rs, i, Xor)
       [] i.code = 53 /\ i.rd # 15 -> Compare(DPImmRHS(s, i), lhs)
       [] i.code = 55 /\ i.rd # 15 -> CompareNegative(DPImmRHS(s, i), lhs)
       [] OTHER -> s

ImmediateMoves(s, i) ==    \* 0x38 to 0x3f
  LET r == DPImmRHS(s, i)  rs == DPSImmRHS(s, i)
  IN CASE i.code = 56 -> Plain1(r, i, Or)
       [] i.code = 57 -> LogicalS(rs, i, Or)
       [] i.code = 58 -> Plain1(r, i, Second)
       [] i.code = 59 -> LogicalS(rs, i, Second)
       [] i.code = 60 -> Plain1(r, i, AndNot)
       [] i.code = 61 -> LogicalS(rs, i, AndNot)
       [] i.code = 62 -> Plain1(r, i, NotSecond)
       [] i.code = 63 -> LogicalS(rs, i, NotSecond)
=============================================================================
