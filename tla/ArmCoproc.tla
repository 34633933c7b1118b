----------------------------- MODULE ArmCoproc -----------------------------
(***************************************************************************)
(* The coprocessor instructions of the interpreter (bits 20-27 from 0xc0   *)
(* to 0xef).  Coprocessors 10 and 11 are the floating point unit, of which *)
(* this module has the registers and their transfers; its arithmetic is    *)
(* elsewhere.  Every other coprocessor answers ARMul_CANT.                 *)
(* The encodings for which the program ends the process are left out.      *)
(***************************************************************************)
EXTENDS ArmTransfer

CPNum(i) == i.hi
IsVfp(i) == CPNum(i) \in {10, 11}
Single(i) == CPNum(i) = 10
OPC_1(i) == (i.code \div 2) % 8         \* of MRC and MCR
OPC_2(i) == i.mid \div 2

\* The register that rd names with bit 22, and rm with bit 5, of a data
\* processing or transfer instruction: a single, or the first of a pair.
ExtD(i) ==
  IF Single(i) THEN 2 * i.rd + BitOf(i.code, 2) ELSE 2 * (i.rd + 16 * BitOf(i.code, 2))
ExtM(i) ==
  IF Single(i) THEN 2 * i.rm + BitOf(i.mid, 1) ELSE 2 * (i.rm + 16 * BitOf(i.mid, 1))
SetExt(s, r, v) == [s EXCEPT !.ExtReg[r] = v]

----------------------------------------------------------------------------
(* Moves between the registers of the processor and of the unit.           *)
VMOVBRS(i) == 2 * i.rn + i.mid \div 8       \* the single register
IsVmovbrs(i) == OPC_1(i) = 0 /\ i.rm = 0 /\ OPC_2(i) \in {0, 4}
IsSystem(i) == OPC_1(i) = 7 /\ i.rm = 0 /\ OPC_2(i) = 0

VMSR(s, i) ==
  CASE i.rn = 1 -> [s EXCEPT !.FPSCR = s.Reg[i.rd]]
    [] i.rn = 8 -> [s EXCEPT !.FPEXC = s.Reg[i.rd]]
    [] OTHER -> s
VMRS(s, i) ==
  CASE i.rn = 1 -> s.FPSCR [] i.rn = 0 -> s.FPSID [] i.rn = 8 -> s.FPEXC [] OTHER -> 0

ARMul_MCR(s, i) ==
  LET source == IF i.rd = 15 THEN Wrap(s.Reg[15] + INSN_SIZE(s)) ELSE s.Reg[i.rd]
  IN CASE IsVfp(i) /\ IsVmovbrs(i) -> SetExt(s, VMOVBRS(i), source)
       [] IsVfp(i) /\ IsSystem(i) -> VMSR(s, i)
       [] OTHER -> s

\* Destination 15 stands for the flags.
MrcDest(s, i, v) ==
  IF i.rd = 15
    THEN [s EXCEPT !.NFlag = NEG(v), !.ZFlag = BitOf(v, W - 2), !.CFlag = BitOf(v, W - 3),
                   !.VFlag = BitOf(v, W - 4)]
    ELSE SetReg(s, i.rd, v)
ARMul_MRC(s, i) ==
  CASE i.rn = 13 /\ i.rm = 0 /\ OPC_2(i) = 3 -> MrcDest(s, i, s.servaddr)
    [] IsVfp(i) /\ IsVmovbrs(i) -> MrcDest(s, i, s.ExtReg[VMOVBRS(i)])
    [] IsVfp(i) /\ IsSystem(i) -> MrcDest(s, i, VMRS(s, i))
    [] OTHER -> LET t == ARMul_Abort(s) IN MrcDest(t, i, PsrWord([PsrOf(t) EXCEPT !.t = 0]))

\* The double word moves that the interpreter knows; the others of their
\* opcodes are undefined and then taken for the transfers below.
IsVmovPair(i) == CPNum(i) = 11 /\ i.mid = 1
VmovFrom(s, i) == SetExt(SetExt(s, 2 * i.rm, s.Reg[i.rd]), 2 * i.rm + 1, s.Reg[i.rn])
VmovTo(s, i) == SetReg(SetReg(s, i.rd, s.ExtReg[2 * i.rm]), i.rn, s.ExtReg[2 * i.rm + 1])

\* VMOV between registers of the unit.
IsVmovr(i) == BitOf(i.code, 3) = 1 /\ i.code % 4 = 3 /\ i.rn = 0 /\ OPC_2(i) \in {2, 3}
VMOVR(s, i) ==
  IF Single(i) THEN SetExt(s, ExtD(i), s.ExtReg[ExtM(i)])
  ELSE SetExt(SetExt(s, ExtD(i) + 1, s.ExtReg[ExtM(i) + 1]), ExtD(i), s.ExtReg[ExtM(i)])
ARMul_CDP(s, i) ==
  CASE IsVfp(i) /\ IsVmovr(i) -> VMOVR(s, i)
    [] ~IsVfp(i) -> ARMul_Abort(s)

----------------------------------------------------------------------------
(* Transfers to and from memory.  VSTR and VLDR move one register, the     *)
(* others the number of words that the instruction holds; all of them move *)
(* one word at least.                                                      *)
LSCOff(i) == 4 * (i.mid * 16 + i.rm)
Imm8(i) == i.mid * 16 + i.rm
TransferWords(i) ==
  CASE PreIndexed(i) /\ ~WriteBack(i) -> IF Single(i) THEN 1 ELSE 2      \* VSTR, VLDR
    [] OTHER -> IF Single(i) THEN Imm8(i) ELSE 2 * (Imm8(i) \div 2)
Moves(i) == IF TransferWords(i) = 0 THEN 1 ELSE TransferWords(i)

\* Where the transfer starts and what the caller leaves in state->Base.
CopAddress(s, i) == IF PreIndexed(i) THEN Moved(i, LHS(s, i), LSCOff(i)) ELSE LHS(s, i)
CopBase(s, i) == Moved(i, LHS(s, i), LSCOff(i))

\* The first call of the coprocessor writes the base back, the caller again.
FirstCall(s, i) == IF WriteBack(i) THEN SetReg(s, i.rn, Moved(i, s.Reg[i.rn], LSCOff(i))) ELSE s
LastBase(t, s, i) == IF WriteBack(i) THEN SetReg(t, i.rn, CopBase(s, i)) ELSE t

ARMul_LDC(s, i) ==
  LET a == CopAddress(s, i)
      d == ExtD(i)
      loaded == [r \in 0 .. 63 |-> IF r \in d .. d + Moves(i) - 1
                                     THEN ARMul_ReadWord(s, Wrap(a + 4 * (r - d)))
                                     ELSE s.ExtReg[r]]
  IN IF IsVfp(i) THEN LastBase([FirstCall(s, i) EXCEPT !.ExtReg = loaded], s, i)
     ELSE ARMul_Abort(s)

ARMul_STC(s, i) ==
  LET a == CopAddress(s, i)
      upTo[k \in 0 .. Moves(i)] ==
        IF k = 0 THEN FirstCall(s, i)
        ELSE ARMul_WriteWord(upTo[k - 1], Wrap(a + 4 * (k - 1)), s.ExtReg[ExtD(i) + k - 1])
  IN IF IsVfp(i) THEN LastBase(upTo[Moves(i)], s, i) ELSE ARMul_Abort(s)

\* 0xc0 to 0xdf.  Two registers go to a coprocessor, or come from one, only
\* above 13; no such coprocessor is attached.
CoprocessorTransfer(s, i) ==
  CASE i.code = 196 /\ IsVmovPair(i) -> VmovFrom(s, i)
    [] i.code = 197 /\ IsVmovPair(i) -> VmovTo(s, i)
    [] i.code \in {196, 197} /\ ~IsVmovPair(i) ->
         IF 15 \notin {i.rd, i.rn} /\ CPNum(i) >= 14 THEN ARMul_Abort(s)
         ELSE IF i.code = 196 THEN ARMul_STC(ARMul_UndefInstr(s), i)
              ELSE ARMul_LDC(ARMul_UndefInstr(s), i)
    [] i.code \notin {196, 197} -> IF Load(i) THEN ARMul_LDC(s, i) ELSE ARMul_STC(s, i)

CoprocessorRegister(s, i) ==    \* 0xe0 to 0xef
  CASE i.mid % 2 = 0 -> ARMul_CDP(s, i)
    [] i.mid % 2 = 1 -> IF Load(i) THEN ARMul_MRC(s, i) ELSE ARMul_MCR(s, i)
=============================================================================
