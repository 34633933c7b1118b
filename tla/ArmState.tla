------------------------------ MODULE ArmState ------------------------------
(***************************************************************************)
(* The state of the ARM11 interpreter (struct ARMul_State) and the small   *)
(* functions every instruction is made of: reading operands, writing       *)
(* results, the program counter and the flags, the memory wrappers, the    *)
(* register banks and the undefined instruction.                           *)
(*                                                                         *)
(* As in the program, every function takes the state; here it returns the  *)
(* state it leaves.  An instruction is a record of its bit fields:         *)
(*   cond 28-31, code 20-27, rn 16-19, rd 12-15, hi 8-11, mid 4-7, rm 0-3. *)
(* A word (ARMword) is four bytes of B bits.  B is 8 in the program; the   *)
(* models are also checked with narrower bytes, where a word still has     *)
(* four bytes and two halfwords, so that every test of a sign, a carry, an *)
(* address or an alignment keeps its meaning.                              *)
(* The interrupt masks, the kinds of bus cycles, their counters and the    *)
(* abort signals, which no memory access of this emulator raises, are left *)
(* out.                                                                    *)
(***************************************************************************)
EXTENDS Integers, Sequences

CONSTANT B      \* the bits of a byte

ASSUME ByteAssumption == B \in Nat \ {0}

W == 4 * B                      \* the bits of a word
Size == 2 ^ W
HalfSize == 2 ^ (2 * B)
ByteSize == 2 ^ B
Word == 0 .. Size - 1
Half == 0 .. HalfSize - 1
Byte == 0 .. ByteSize - 1

\* The value that C's conversion to an unsigned type of n values keeps.
Wrap(x) == x % Size

\* The number that a value of n possible values stands for when read as signed.
AsSigned(x, n) == IF 2 * x >= n THEN x - n ELSE x
Signed(x) == AsSigned(x, Size)
SignedHalf(x) == AsSigned(x, HalfSize)
SignedByte(x) == AsSigned(x, ByteSize)

NEG(x) == x \div 2 ^ (W - 1)
POS(x) == 1 - NEG(x)

BitOf(x, k) == (x \div 2 ^ k) % 2
Flag(P) == IF P THEN 1 ELSE 0

----------------------------------------------------------------------------
(* Bitwise operators: a bit of the result from the bits of the operands.   *)
Bitwise2(F(_, _), x, y) ==
  LET upTo[k \in 0 .. W] ==
        IF k = 0 THEN 0 ELSE upTo[k - 1] + 2 ^ (k - 1) * F(BitOf(x, k - 1), BitOf(y, k - 1))
  IN upTo[W]

And(x, y) == LET F(a, b) == a * b IN Bitwise2(F, x, y)
Or(x, y) == LET F(a, b) == a + b - a * b IN Bitwise2(F, x, y)
Xor(x, y) == LET F(a, b) == (a + b) % 2 IN Bitwise2(F, x, y)
Not(x) == Size - 1 - x

----------------------------------------------------------------------------
(* Shifts by less than the width, as the processors the emulator is built  *)
(* for compute them.                                                       *)
Shl(x, n) == Wrap(x * 2 ^ n)
Shr(x, n) == x \div 2 ^ n
Sar(x, n) == Wrap(Signed(x) \div 2 ^ n)
Rotr(x, n) == Shr(x, n) + Shl(x, W - n)         \* 0 < n < W

----------------------------------------------------------------------------
(* The bytes and halfwords of a word.                                      *)
ByteOf(x, k) == (x \div 2 ^ (B * k)) % ByteSize
HalfOf(x, k) == (x \div 2 ^ (2 * B * k)) % HalfSize
OfBytes(b) == b[1] + ByteSize * (b[2] + ByteSize * (b[3] + ByteSize * b[4]))
OfHalves(lo, hi) == lo + HalfSize * hi

-----------------------------------------------------------------------------
\* No instruction yet.
None == [cond |-> 16]

NoPsr == [n |-> 0, z |-> 0, c |-> 0, v |-> 0, q |-> 0, ge |-> {}, t |-> 0, m |-> 0]

\* The registers, the flags and the rest of a state that runs code at pc with
\* the memory mem (a function from the mapped addresses to bytes).
NewState(reg, pc, mem) ==
  [Reg |-> [reg EXCEPT ![15] = pc], pc |-> pc, NextInstr |-> {"RESUME"},
   NFlag |-> 0, ZFlag |-> 0, CFlag |-> 0, VFlag |-> 0, QFlag |-> 0,
   GEFlag |-> {}, TFlag |-> 0, Mode |-> 19, Bank |-> 3, CpsrMode |-> 19,
   RegBank |-> [b \in 0 .. 6 |-> [r \in 8 .. 14 |-> 0]],
   Spsr |-> [b \in 0 .. 6 |-> NoPsr], mem |-> mem,
   currentexaddr |-> 0, currentexval |-> 0, currentexvald |-> 0,
   ExtReg |-> [k \in 0 .. 63 |-> k % Size], FPSID |-> 1, FPSCR |-> 0, FPEXC |-> 0,
   servaddr |-> 0, LastInstr |-> None, CurrInstr |-> None, calls |-> <<>>]

INSN_SIZE(s) == IF s.TFlag = 1 THEN 2 ELSE 4
FlushPipe(s) == [s EXCEPT !.NextInstr = @ \cup {"PRIMEPIPE"}]
IncPC(s) == [s EXCEPT !.Reg[15] = Wrap(@ + INSN_SIZE(s)), !.NextInstr = @ \cup {"PCINC"}]

\* What the next instruction's turn does to the pc before it is fetched: a
\* write to register 15 restarts the pipeline there.
Advance(s) ==
  LET isize == INSN_SIZE(s)
  IN IF s.NextInstr \cap {"PRIMEPIPE", "RESUME"} # {}
       THEN [s EXCEPT !.pc = s.Reg[15], !.Reg[15] = Wrap(@ + 2 * isize), !.NextInstr = {}]
     ELSE IF "PCINC" \in s.NextInstr
       THEN [s EXCEPT !.pc = Wrap(@ + isize), !.NextInstr = {}]
     ELSE [s EXCEPT !.pc = Wrap(@ + isize), !.Reg[15] = Wrap(@ + isize), !.NextInstr = {}]

----------------------------------------------------------------------------
(* Operands and results.                                                   *)
Aligned(x) == x - (x % 4)
Even(x) == x - (x % 2)
LHS(s, i) == IF i.rn = 15 THEN Aligned(s.Reg[15]) ELSE s.Reg[i.rn]
RHS(s, i) == IF i.rm = 15 THEN Aligned(s.Reg[15]) ELSE s.Reg[i.rm]
ShiftBits(i) == (2 * i.hi + i.mid \div 8) % W
ShiftKind(i) == <<"LSL", "LSR", "ASR", "ROR">>[((i.mid \div 2) % 4) + 1]
SetReg(s, r, v) == [s EXCEPT !.Reg[r] = Wrap(v)]

ARMul_NegZero(s, d) == [s EXCEPT !.NFlag = NEG(d), !.ZFlag = Flag(d = 0)]
SetQ(s, P) == IF P THEN [s EXCEPT !.QFlag = 1] ELSE s

\* The saved status registers: only the undefined instruction writes one.
PsrOf(s) == [n |-> s.NFlag, z |-> s.ZFlag, c |-> s.CFlag, v |-> s.VFlag, q |-> s.QFlag,
             ge |-> s.GEFlag, t |-> s.TFlag, m |-> s.Mode]

\* Cpsr has been given p: the flags follow it, the mode does not.
ARMul_CPSRAltered(s, p) ==
  [s EXCEPT !.NFlag = p.n, !.ZFlag = p.z, !.CFlag = p.c, !.VFlag = p.v, !.QFlag = p.q,
            !.GEFlag = p.ge, !.TFlag = p.t, !.CpsrMode = p.m]

ModeToBank(mode) ==
  CASE mode \in {0, 16, 31} -> 0 [] mode \in {1, 17} -> 1 [] mode \in {2, 18} -> 2
    [] mode \in {3, 19} -> 3 [] mode = 23 -> 4 [] mode = 27 -> 5 [] OTHER -> 6

ARMul_GetSPSR(s) ==
  IF ModeToBank(s.Mode) \in {0, 6} THEN PsrOf(s) ELSE s.Spsr[ModeToBank(s.Mode)]

WriteR15(s, v) ==
  FlushPipe([s EXCEPT !.Reg[15] = IF s.TFlag = 1 THEN Even(v) ELSE Aligned(v)])

WriteSR15(s, v) ==
  WriteR15(IF s.Bank > 0 THEN ARMul_CPSRAltered(s, s.Spsr[s.Bank]) ELSE s, v)

WriteR15Branch(s, v) ==
  FlushPipe([s EXCEPT !.TFlag = v % 2, !.CpsrMode = s.Mode,
                      !.Reg[15] = IF v % 2 = 1 THEN Even(v) ELSE Aligned(v)])

WriteDest(s, i, v) == IF i.rd = 15 THEN WriteR15(s, v) ELSE SetReg(s, i.rd, v)
WriteSDest(s, i, v) ==
  IF i.rd = 15 THEN WriteSR15(s, v) ELSE ARMul_NegZero(SetReg(s, i.rd, v), v)
WriteDestB(s, i, v) == IF i.rd = 15 THEN WriteR15Branch(s, v) ELSE SetReg(s, i.rd, v)

\* The vector of the undefined instruction; the bank of registers stays.
ARMul_Abort(s) ==
  LET saved == [s EXCEPT !.Spsr[5] = PsrOf(s)]
      taken == ARMul_CPSRAltered(saved, [PsrOf(s) EXCEPT !.t = 0, !.m = 27])
  IN FlushPipe([taken EXCEPT !.Reg[14] = Wrap(s.Reg[15] - INSN_SIZE(s)), !.Reg[15] = 4])

ARMul_UndefInstr(s) == ARMul_Abort(s)

----------------------------------------------------------------------------
(* The register banks of the processor's modes.                            *)
ARMul_SwitchMode(s, old, new) ==
  LET o == ModeToBank(old)  n == ModeToBank(new)
      Swapped(r) == r \in {13, 14} \/ (r \in 8 .. 12 /\ 1 \in {o, n})
      Home(b, r) == IF b # 1 /\ r < 13 THEN 0 ELSE b
      saved == [b \in 0 .. 6 |-> [r \in 8 .. 14 |->
                  IF o # 6 /\ Swapped(r) /\ b = Home(o, r) THEN s.Reg[r] ELSE s.RegBank[b][r]]]
      Back(r) == CASE n = 6 /\ r \in 8 .. 14 -> 0
                   [] n # 6 /\ Swapped(r) -> saved[Home(n, r)][r]
                   [] OTHER -> s.Reg[r]
  IN IF o = n THEN [s EXCEPT !.Bank = n]
     ELSE [s EXCEPT !.Bank = n, !.RegBank = saved, !.Reg = [r \in 0 .. 15 |-> Back(r)]]

\* The status register in a word: the flags in the five top bits and T in the
\* lowest; the GE bits, the mode and the interrupt masks are left out.
PsrWord(p) ==
  p.n * 2 ^ (W - 1) + p.z * 2 ^ (W - 2) + p.c * 2 ^ (W - 3) + p.v * 2 ^ (W - 4)
    + p.q * 2 ^ (W - 5) + p.t
PsrField(x) ==
  [NoPsr EXCEPT !.n = BitOf(x, W - 1), !.z = BitOf(x, W - 2), !.c = BitOf(x, W - 3),
                !.v = BitOf(x, W - 4), !.q = BitOf(x, W - 5), !.t = x % 2]

\* MSR: the bits of rn choose the fields of the status register that p replaces.
ARMul_FixCPSR(s, i, p) ==
  LET cur == PsrOf(s)
      ctl == IF s.Mode \notin {0, 16} /\ i.rn % 2 = 1 THEN [cur EXCEPT !.t = p.t] ELSE cur
  IN ARMul_CPSRAltered(s, IF i.rn >= 8
                            THEN [ctl EXCEPT !.n = p.n, !.z = p.z, !.c = p.c, !.v = p.v, !.q = p.q]
                            ELSE ctl)

----------------------------------------------------------------------------
(* Memory: an access outside of the mapped addresses reads 0 and writes    *)
(* nothing; a word read from an address that is not a multiple of 4 comes  *)
(* rotated to the left.                                                    *)
MappedAll(s, a, n) == \A k \in 0 .. n - 1 : a + k \in DOMAIN s.mem
Rotl(x, n) == Wrap(x * 2 ^ n) + x \div 2 ^ (W - n)      \* 0 < n < W
Plain(s, a) == OfBytes([k \in 1 .. 4 |-> s.mem[a + k - 1]])

ARMul_ReadByte(s, a) == IF a \in DOMAIN s.mem THEN s.mem[a] ELSE 0
ARMul_LoadHalfWord(s, a) ==
  IF MappedAll(s, a, 2) THEN s.mem[a] + ByteSize * s.mem[a + 1] ELSE 0
ARMul_ReadWord(s, a) ==
  CASE ~MappedAll(s, a, 4) -> 0
    [] MappedAll(s, a, 4) /\ a % 4 = 0 -> Plain(s, a)
    [] OTHER -> Rotl(Plain(s, a), B * (a % 4))

\* The n lowest bytes of d.
Store(s, a, n, d) ==
  IF MappedAll(s, a, n)
    THEN [s EXCEPT !.mem = [b \in DOMAIN s.mem |->
                              IF b \in a .. a + n - 1 THEN ByteOf(d, b - a) ELSE s.mem[b]]]
    ELSE s
ARMul_WriteByte(s, a, d) == Store(s, a, 1, d)
ARMul_StoreHalfWord(s, a, d) == Store(s, a, 2, d)
ARMul_WriteWord(s, a, d) == Store(s, a, 4, d)

\* Rotates right what was read from an address that is not a multiple of 4.
ARMul_Align(a, d) == IF a % 4 = 0 THEN d ELSE Rotr(d, B * (a % 4))
=============================================================================
