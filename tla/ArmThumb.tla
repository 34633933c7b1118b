------------------------------ MODULE ArmThumb ------------------------------
(***************************************************************************)
(* ARMul_ThumbDecode: a Thumb instruction, a number of 16 bits, is turned  *)
(* into an instruction of the processor that does the same, or is a branch *)
(* and is executed at once, or is undefined.                               *)
(***************************************************************************)
EXTENDS ArmState

\* Bits lo to hi of x, and the fields that most formats share.
Bits(x, lo, hi) == (x \div 2 ^ lo) % 2 ^ (hi - lo + 1)
Op(t) == Bits(t, 11, 15)
R0(t) == Bits(t, 0, 2)
R3(t) == Bits(t, 3, 5)
R6(t) == Bits(t, 6, 8)
R8(t) == Bits(t, 8, 10)
Imm5(t) == Bits(t, 6, 10)
ImmByte(t) == Bits(t, 0, 7)

\* An instruction that is executed whatever the flags are.
Insn(code, rn, rd, hi, mid, rm) ==
  [cond |-> 14, code |-> code, rn |-> rn, rd |-> rd, hi |-> hi, mid |-> mid, rm |-> rm]
InsnByte(code, rn, rd, hi, imm) == Insn(code, rn, rd, hi, imm \div 16, imm % 16)
InsnOffset(code, rn, rd, off) == InsnByte(code, rn, rd, off \div 256, off % 256)

MoveShifted(t) == Insn(27, 0, R0(t), Imm5(t) \div 2, (Imm5(t) % 2) * 8 + 2 * Op(t), R3(t))
AddSubtract(t) == Insn(<<9, 5, 41, 37>>[Bits(t, 9, 10) + 1], R3(t), R0(t), 0, 0, R6(t))
WithImmediate(t) == InsnByte(<<59, 53, 41, 37>>[Op(t) - 3], R8(t), R8(t), 0, ImmByte(t))

\* The arithmetic of two low registers: AND EOR LSL LSR ASR ADC SBC ROR TST NEG
\* CMP CMN ORR MUL BIC MVN.
Arithmetic(t) ==
  LET n == Bits(t, 6, 9)
      code == <<1, 3, 27, 27, 27, 11, 13, 27, 17, 39, 21, 23, 25, 1, 29, 31>>[n + 1]
  IN CASE n \in {2, 3, 4, 7} ->
            Insn(27, 0, R0(t), R3(t), IF n = 7 THEN 7 ELSE 2 * n - 3, R0(t))
       [] n = 9 -> Insn(code, R3(t), R0(t), 0, 0, 0)
       [] n = 13 -> Insn(code, R0(t), 0, R0(t), 9, R3(t))
       [] OTHER -> Insn(code, R0(t), R0(t), 0, 0, R3(t))

\* The registers from 8 on: ADD CMP MOV BX BLX.
HighRegisters(t) ==
  LET d == R0(t) + 8 * Bits(t, 7, 7)  m == Bits(t, 3, 6)  n == Bits(t, 6, 9)
  IN CASE n < 12 -> Insn(<<8, 21, 26>>[(n \div 4) + 1], d, d, 0, 0, m)
       [] n \in {12, 13} -> Insn(18, 15, 15, 15, 1, m)
       [] n \in {14, 15} -> Insn(18, 0, 0, 0, 3, m)

PcRelativeLoad(t) == InsnOffset(89, 15, R8(t), 4 * ImmByte(t))
RegisterOffset(t) ==
  LET n == Bits(t, 10, 11) + 1
  IN IF Bits(t, 9, 9) = 0 THEN Insn(<<120, 124, 121, 125>>[n], R3(t), R0(t), 0, 0, R6(t))
     ELSE Insn(<<24, 25, 25, 25>>[n], R3(t), R0(t), 0, <<11, 13, 11, 15>>[n], R6(t))
ImmediateOffset(t) ==
  InsnOffset(<<88, 89, 92, 93>>[Op(t) - 11], R3(t), R0(t),
             Imm5(t) * (IF Bits(t, 12, 12) = 1 THEN 1 ELSE 4))
MutHalfwordOffset(t) ==
  Insn(28 + Bits(t, 11, 11), R3(t), R0(t), Imm5(t) \div 16, 11, Imm5(t) % 16)
HalfwordOffset(t) ==
  Insn(28 + Bits(t, 11, 11), R3(t), R0(t), Imm5(t) \div 8, 11, 2 * (Imm5(t) % 8))
SpRelative(t) == InsnOffset(88 + Bits(t, 11, 11), 13, R8(t), 4 * ImmByte(t))
AddToPcOrSp(t) == InsnByte(40, IF Op(t) = 20 THEN 15 ELSE 13, R8(t), 15, ImmByte(t))
AddToSp(t) == InsnByte(IF Bits(t, 7, 7) = 1 THEN 36 ELSE 40, 13, 13, 15, Bits(t, 0, 6))
PushPop(t) ==
  LET extra == Bits(t, 8, 8)
  IN IF Bits(t, 11, 11) = 0 THEN InsnByte(146, 13, 4 * extra, 0, ImmByte(t))
     ELSE InsnByte(139, 13, 8 * extra, 0, ImmByte(t))
Extend(t) == Insn(<<107, 106, 111, 110>>[Bits(t, 6, 7) + 1], 15, R0(t), 0, 7, R3(t))
REV(t) == Insn(107, 15, R0(t), 15, 3, R3(t))
\* The base is not written back when it is in the list.
LoadStoreMultiple(t) ==
  LET listed == BitOf(t, R8(t)) = 1
  IN InsnByte(136 + Bits(t, 11, 11) + (IF listed THEN 0 ELSE 2), R8(t), 0, 0, ImmByte(t))
\* Two numbers are for breakpoints.
SWI(t) ==
  CASE ImmByte(t) = 24 -> Insn(241, 8, 0, 0, 0, 0)
    [] ImmByte(t) = 254 -> Insn(240, 0, 0, 0, 0, 0)
    [] OTHER -> InsnByte(240, 0, 0, 0, ImmByte(t))

IsMisc(t) == Op(t) \in {22, 23}
IsSWI(t) == Op(t) = 27 /\ Bits(t, 8, 11) = 15
IsBcc(t) == Op(t) \in {26, 27} /\ Bits(t, 8, 11) < 14

\* t_undefined, t_branch or t_decoded.
Kind(t) ==
  CASE Op(t) \in {28, 30, 31} \/ IsBcc(t) \/ (Op(t) = 29 /\ t % 2 = 0) -> "branch"
    [] \/ Op(t) = 29 /\ t % 2 = 1
       \/ Op(t) = 27 /\ Bits(t, 8, 11) = 14
       \/ /\ IsMisc(t) /\ Bits(t, 8, 11) \notin {0, 2, 14} /\ Bits(t, 9, 10) # 2
          /\ Bits(t, 6, 11) # 40 -> "undefined"
    [] OTHER -> "decoded"

Decoded(t) ==
  CASE Op(t) < 3 -> MoveShifted(t)
    [] Op(t) = 3 -> AddSubtract(t)
    [] Op(t) \in 4 .. 7 -> WithImmediate(t)
    [] Op(t) = 8 -> IF Bits(t, 10, 10) = 0 THEN Arithmetic(t) ELSE HighRegisters(t)
    [] Op(t) = 9 -> PcRelativeLoad(t)
    [] Op(t) \in {10, 11} -> RegisterOffset(t)
    [] Op(t) \in 12 .. 15 -> ImmediateOffset(t)
    [] Op(t) \in {16, 17} -> HalfwordOffset(t)
    [] Op(t) \in {18, 19} -> SpRelative(t)
    [] Op(t) \in {20, 21} -> AddToPcOrSp(t)
    [] IsMisc(t) /\ Bits(t, 8, 11) = 0 -> AddToSp(t)
    [] IsMisc(t) /\ Bits(t, 8, 11) = 14 -> Insn(240, 0, 0, 0, 0, 0)
    [] IsMisc(t) /\ Bits(t, 9, 10) = 2 -> PushPop(t)
    [] IsMisc(t) /\ Bits(t, 8, 11) = 2 -> Extend(t)
    [] IsMisc(t) /\ Bits(t, 6, 11) = 40 -> REV(t)
    [] Op(t) \in {24, 25} -> LoadStoreMultiple(t)
    [] IsSWI(t) -> SWI(t)

----------------------------------------------------------------------------
(* The conditions, here and for the instructions that have one.            *)
ConditionHolds(s, cond) ==
  LET n == s.NFlag = 1  z == s.ZFlag = 1  c == s.CFlag = 1  v == s.VFlag = 1
  IN CASE cond = 0 -> z [] cond = 1 -> ~z [] cond = 2 -> c [] cond = 3 -> ~c
       [] cond = 4 -> n [] cond = 5 -> ~n [] cond = 6 -> v [] cond = 7 -> ~v
       [] cond = 8 -> c /\ ~z [] cond = 9 -> ~c \/ z
       [] cond = 10 -> (~n /\ ~v) \/ (n /\ v)
       [] cond = 11 -> (n /\ ~v) \/ (~n /\ v)
       [] cond = 12 -> (~n /\ ~v /\ ~z) \/ (n /\ v /\ ~z)
       [] cond = 13 -> (n /\ ~v) \/ (~n /\ v) \/ z
       [] cond = 14 -> TRUE [] cond = 15 -> FALSE

\* A signed number of bits bits.
Offset(x, bits) == AsSigned(x % 2 ^ bits, 2 ^ bits)
Jump(s, a) == FlushPipe([s EXCEPT !.Reg[15] = Wrap(a)])

Branch(s, t) ==
  LET off == 2 * Bits(t, 0, 10)
      link == Wrap(s.pc + 2) + Flag(Wrap(s.pc + 2) % 2 = 0)
  IN CASE IsBcc(t) ->
            IF ConditionHolds(s, Bits(t, 8, 11))
              THEN Jump(s, s.pc + 4 + 2 * Offset(ImmByte(t), 8)) ELSE s
       [] Op(t) = 28 -> Jump(s, s.pc + 4 + 2 * Offset(Bits(t, 0, 10), 11))
       [] Op(t) = 29 ->
            [Jump(s, Aligned(Wrap(s.Reg[14] + off))) EXCEPT !.Reg[14] = link, !.TFlag = 0]
       [] Op(t) = 30 ->     \* the first half of a call: the high part of the target
            Jump([s EXCEPT !.Reg[14] = Wrap(s.Reg[15] + 4096 * Offset(Bits(t, 0, 10), 11))],
                 s.pc + 2)
       [] Op(t) = 31 -> [Jump(s, s.Reg[14] + off) EXCEPT !.Reg[14] = link]
=============================================================================
