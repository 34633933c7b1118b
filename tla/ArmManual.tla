----------------------------- MODULE ArmManual -----------------------------
(***************************************************************************)
(* What the architecture says of the instructions that Arm interprets,     *)
(* written from what they mean and not from how the program computes it:   *)
(* a shift is made one place at a time, a sum is a number that fits in a   *)
(* word or does not, a call that is undone restores what was there.        *)
(*                                                                         *)
(* Each action property says of one group of instructions what a step that *)
(* executes one of them, with its condition met, must have done.           *)
(***************************************************************************)
EXTENDS Arm

Executed == cpu'.CurrInstr
IsArm(i) == i.cond < 15
\* The step executed an instruction of this set, and its condition held.
Ran(P(_)) == steps' # steps /\ IsArm(Executed) /\ ConditionHolds(cpu, Executed.cond) /\ P(Executed)

\* The state in which an instruction reads its operands.
Before == Advance(cpu)
SameBut(t, rs) == \A r \in 0 .. 14 : r \notin rs => t.Reg[r] = Before.Reg[r]
Jumped(t, a) == t.Reg[15] = a /\ "PRIMEPIPE" \in t.NextInstr

----------------------------------------------------------------------------
(* The shifter.                                                            *)
HalfWay == Size \div 2

\* One place, with the bit that leaves.
OnePlace(x, k) ==
  CASE k = "LSL" -> <<(2 * x) % Size, x \div 2 ^ (W - 1)>>
    [] k = "LSR" -> <<x \div 2, x % 2>>
    [] k = "ASR" -> <<x \div 2 + (IF x >= HalfWay THEN HalfWay ELSE 0), x % 2>>
    [] k = "ROR" -> <<x \div 2 + (x % 2) * HalfWay, x % 2>>
Places(x, k, n, c) ==
  LET p[j \in 0 .. n] == IF j = 0 THEN <<x, c>> ELSE OnePlace(p[j - 1][1], k)
  IN p[n]

\* The operand and the carry: the number of places is in a register's lowest
\* byte, or in the instruction, where 0 stands for all of them or for one
\* place through the carry.
ShiftedOperand(s, i) ==
  LET x == s.Reg[i.rm]
      k == ShiftKind(i)
      n == IF ByRegister(i) THEN s.Reg[i.hi] % (8 * W) ELSE ShiftBits(i)
  IN CASE ByRegister(i) \/ n > 0 \/ k = "LSL" -> Places(x, k, n, s.CFlag)
       [] ~ByRegister(i) /\ n = 0 /\ k \in {"LSR", "ASR"} -> Places(x, k, W, s.CFlag)
       [] OTHER -> <<x \div 2 + s.CFlag * HalfWay, x % 2>>
RotatedImmediate(s, i) ==
  LET x == (16 * i.mid + i.rm) % ByteSize
  IN <<Places(x, "ROR", (2 * i.hi) % W, 0)[1],
       IF i.hi = 0 THEN s.CFlag ELSE Places(x, "ROR", (2 * i.hi) % W, 0)[1] \div 2 ^ (W - 1)>>
Operand2(s, i) == IF i.code >= 32 THEN RotatedImmediate(s, i) ELSE ShiftedOperand(s, i)

----------------------------------------------------------------------------
(* Data processing.                                                        *)
Opcode(i) == (i.code \div 2) % 16
SetsFlags(i) == i.code % 2 = 1
TestOnly(i) == Opcode(i) \in 8 .. 11
Logical(i) == Opcode(i) \in {0, 1, 8, 9, 12, 13, 14, 15}
IsDataProcessing(i) ==
  /\ i.code < 64
  /\ i.code < 32 => ~(i.mid % 2 = 1 /\ i.mid >= 8)
  /\ TestOnly(i) => SetsFlags(i)

\* x + y + c, as the sum of numbers without and with a sign.
Sum3(x, y, c) ==
  [v |-> (x + y + c) % Size, c |-> (x + y + c) \div Size,
   o |-> Flag(Signed(x) + Signed(y) + c \notin -HalfWay .. HalfWay - 1)]
Bitwise(x, y, P(_, _)) ==
  [v |-> MapThenSumSet(LAMBDA k : 2 ^ k * Flag(P(BitOf(x, k) = 1, BitOf(y, k) = 1)), 0 .. W - 1)]
Alu(op, x, y, c) ==
  CASE op \in {0, 8} -> Bitwise(x, y, LAMBDA p, q : p /\ q)
    [] op \in {1, 9} -> Bitwise(x, y, LAMBDA p, q : p # q)
    [] op \in {2, 10} -> Sum3(x, Size - 1 - y, 1)
    [] op = 3 -> Sum3(y, Size - 1 - x, 1)
    [] op \in {4, 11} -> Sum3(x, y, 0)
    [] op = 5 -> Sum3(x, y, c)
    [] op = 6 -> Sum3(x, Size - 1 - y, c)
    [] op = 7 -> Sum3(y, Size - 1 - x, c)
    [] op = 12 -> Bitwise(x, y, LAMBDA p, q : p \/ q)
    [] op = 13 -> [v |-> y]
    [] op = 14 -> Bitwise(x, y, LAMBDA p, q : p /\ ~q)
    [] op = 15 -> [v |-> Size - 1 - y]

Flags(s) == <<s.NFlag, s.ZFlag, s.CFlag, s.VFlag>>
ResultStored(s, t, i, carry, r) ==
  LET n == Flag(2 * r.v >= Size)  z == Flag(r.v = 0)
  IN /\ SameBut(t, IF TestOnly(i) THEN {} ELSE {i.rd})
     /\ ~TestOnly(i) /\ i.rd # 15 => t.Reg[i.rd] = r.v
     /\ ~TestOnly(i) /\ i.rd = 15 => Jumped(t, r.v - (r.v % (IF t.TFlag = 1 THEN 2 ELSE 4)))
     /\ IF ~SetsFlags(i) THEN Flags(t) = Flags(s)
        ELSE i.rd # 15 => Flags(t) = IF Logical(i) THEN <<n, z, carry, s.VFlag>>
                                     ELSE <<n, z, r.c, r.o>>
DataProcessed(s, t, i) ==
  LET y == Operand2(s, i)
  IN ResultStored(s, t, i, y[2], Alu(Opcode(i), s.Reg[i.rn], y[1], s.CFlag))

----------------------------------------------------------------------------
(* Multiplications and saturation.                                         *)
IsLong(i) == i.code \in 8 .. 15 /\ i.mid = 9 /\ 15 \notin {i.rn, i.rd, i.hi, i.rm}
Double(s, i) == s.Reg[i.rn] * Size + s.Reg[i.rd]
SquareSize == Size * Size

\* The product of two words and what is added to it, cut to a double word.
LongProduct(s, i) ==
  LET m == s.Reg[i.rm]  r == s.Reg[i.hi]
      p == IF i.code >= 12 THEN Signed(m) * Signed(r) ELSE m * r
  IN (p + (IF i.code \in {10, 11, 14, 15} THEN Double(s, i) ELSE 0)) % SquareSize
LongProductLeft(s, t, i) ==
  LET p == LongProduct(s, i)
  IN /\ Double(t, i) = p /\ SameBut(t, {i.rn, i.rd})
     /\ i.code % 2 = 1 => <<t.NFlag, t.ZFlag>> = <<Flag(2 * p >= SquareSize), Flag(p = 0)>>

Fits(x) == x \in -HalfWay .. HalfWay - 1
Saturated(x) == IF Fits(x) THEN x ELSE IF x < 0 THEN -HalfWay ELSE HalfWay - 1
IsSaturatingSum(i) == i.code \in {16, 18, 20, 22} /\ i.hi = 0 /\ i.mid = 5

\* QADD, QSUB, QDADD and QDSUB; Q remembers that a stage did not fit.
SaturatingSumLeft(s, t, i) ==
  LET m == Signed(s.Reg[i.rm])  n == Signed(s.Reg[i.rn])
      twice == i.code \in {20, 22}
      d == IF twice THEN Saturated(2 * n) ELSE n
      r == IF i.code \in {16, 20} THEN m + d ELSE m - d
  IN /\ Signed(t.Reg[i.rd]) = Saturated(r) /\ SameBut(t, {i.rd})
     /\ t.QFlag = IF Fits(r) /\ (twice => Fits(2 * n)) THEN s.QFlag ELSE 1

IsHalfAccumulate(i) == i.code = 16 /\ i.mid \in {8, 10, 12, 14}
HalfOfReg(s, r, k) == AsSigned((s.Reg[r] \div HalfSize ^ k) % HalfSize, HalfSize)
HalfAccumulateLeft(s, t, i) ==
  LET sum == HalfOfReg(s, i.rm, (i.mid \div 2) % 2) * HalfOfReg(s, i.hi, (i.mid \div 4) % 2)
               + Signed(s.Reg[i.rd])
  IN /\ t.Reg[i.rn] = sum % Size /\ SameBut(t, {i.rn})
     /\ t.QFlag = IF Fits(sum) THEN s.QFlag ELSE 1

----------------------------------------------------------------------------
(* Lanes: a register is two halves or four bytes, and an instruction does  *)
(* the same to each of them.                                               *)
Parallel(i) == (i.mid \div 2) % 8
IsLanes(i) ==
  \/ i.code \in {97, 98} /\ i.hi = 15 /\ i.mid \in {1, 3, 5, 7}
  \/ i.code = 101 /\ i.hi = 15 /\ i.mid \in {1, 7}
  \/ i.code \in {102, 103} /\ i.mid \in {1, 3, 5, 7, 9, 15}

LanesLeft(s, t, i) ==
  LET n == IF Parallel(i) < 4 THEN HalfSize ELSE ByteSize
      lanes == IF Parallel(i) < 4 THEN {0, 1} ELSE 0 .. 3
      Read(r, k) == LET x == (s.Reg[r] \div n ^ k) % n
                    IN IF i.code \in {97, 98} THEN AsSigned(x, n) ELSE x
      other(k) == IF Parallel(i) \in {1, 2} THEN 1 - k ELSE k
      plus(k) == Parallel(i) \in {0, 4} \/ (Parallel(i) = 1 /\ k = 1) \/ (Parallel(i) = 2 /\ k = 0)
      exact(k) == IF plus(k) THEN Read(i.rn, k) + Read(i.rm, other(k))
                  ELSE Read(i.rn, k) - Read(i.rm, other(k))
      lo == IF i.code = 98 THEN -(n \div 2) ELSE 0
      hi == IF i.code = 98 THEN (n \div 2) - 1 ELSE n - 1
      lane(k) == CASE i.code \in {97, 101} -> exact(k) % n
                   [] i.code \in {98, 102} ->
                        (CHOOSE v \in lo .. hi : \A w \in lo .. hi :
                           (v - exact(k)) * (v - exact(k)) <= (w - exact(k)) * (w - exact(k))) % n
                   [] i.code = 103 -> (exact(k) \div 2) % n
      carries(k) == IF i.code = 101 /\ plus(k) THEN exact(k) >= n ELSE exact(k) >= 0
  IN /\ \A k \in lanes : (t.Reg[i.rd] \div n ^ k) % n = lane(k)
     /\ SameBut(t, {i.rd})
     /\ t.GEFlag = IF i.code \in {97, 101} THEN {b \in 0 .. 3 : carries(b \div 2)} ELSE s.GEFlag

IsSelect(i) == i.code = 104 /\ i.hi = 15 /\ i.mid = 11
SelectLeft(s, t, i) ==
  /\ \A k \in 0 .. 3 :
       LET r == IF k \in s.GEFlag THEN i.rn ELSE i.rm
       IN (t.Reg[i.rd] \div ByteSize ^ k) % ByteSize = (s.Reg[r] \div ByteSize ^ k) % ByteSize
  /\ SameBut(t, {i.rd})

\* UBFX takes a field out of a word, bit by bit.  (SBFX does not: its value is
\* not moved down, and is 0 when the two registers are one, so it is not here.)
Lsb(i) == (2 * i.hi + i.mid \div 8) % W
Msb(i) == Lsb(i) + ((16 * (i.code % 2) + i.rn) % W)
IsUnsignedField(i) ==
  i.code \in {126, 127} /\ i.mid % 8 = 5 /\ 15 \notin {i.rd, i.rm} /\ Msb(i) < W
UnsignedFieldLeft(s, t, i) ==
  /\ t.Reg[i.rd] = MapThenSumSet(LAMBDA b : ((s.Reg[i.rm] \div 2 ^ b) % 2) * 2 ^ (b - Lsb(i)),
                                 Lsb(i) .. Msb(i))
  /\ SameBut(t, {i.rd})

\* An arithmetic instruction leaves the result, the flags and every other
\* register as the architecture says.  The program gets the carry out of the
\* shifter from case distinctions on the amount, carry and overflow from the
\* signs of operands and result behind a test that skips them, a long product
\* from four products of halves, the carries of two additions and a negation
\* across two words, and the GE bits of a lane before it is cut.
ArithmeticAsArchitected ==
  [][/\ Ran(IsDataProcessing) => DataProcessed(Before, cpu', Executed)
     /\ Ran(IsLong) => LongProductLeft(Before, cpu', Executed)
     /\ Ran(IsSaturatingSum) => SaturatingSumLeft(Before, cpu', Executed)
     /\ Ran(IsHalfAccumulate) => HalfAccumulateLeft(Before, cpu', Executed)
     /\ Ran(IsLanes) => LanesLeft(Before, cpu', Executed)
     /\ Ran(IsSelect) => SelectLeft(Before, cpu', Executed)
     /\ Ran(IsUnsignedField) => UnsignedFieldLeft(Before, cpu', Executed)]_vars

----------------------------------------------------------------------------
(* Transfers.                                                              *)
\* The number in n bytes from a on; those that are not mapped hold nothing.
InMemory(mem, a, n) ==
  IF a .. a + n - 1 \subseteq DOMAIN mem
    THEN MapThenSumSet(LAMBDA k : mem[a + k] * ByteSize ^ k, 0 .. n - 1) ELSE 0
\* Memory t is s with the n lowest bytes of d at a.
Written(s, t, a, n, d) ==
  \A b \in DOMAIN s :
    t[b] = IF b \in a .. a + n - 1 /\ a .. a + n - 1 \subseteq DOMAIN s
             THEN (d \div ByteSize ^ (b - a)) % ByteSize ELSE s[b]

IsSingle(i) == i.code \in 64 .. 95 \/ (i.code \in 96 .. 127 /\ i.mid % 2 = 0)
IsExtra(i) == i.code < 32 /\ (i.mid = 11 \/ (i.mid \in {13, 15} /\ i.code % 2 = 1))
IsTransfer(i) == (IsSingle(i) \/ IsExtra(i)) /\ i.rd # 15

Distance(s, i) ==
  CASE i.code \in 64 .. 95 -> i.hi * 256 + i.mid * 16 + i.rm
    [] i.code \in 96 .. 127 -> ShiftedOperand(s, i)[1]
    [] IsExtra(i) /\ (i.code \div 4) % 2 = 1 -> i.hi * 16 + i.rm
    [] OTHER -> s.Reg[i.rm]
Bytes(i) ==
  CASE IsSingle(i) -> IF (i.code \div 4) % 2 = 1 THEN 1 ELSE 4
    [] OTHER -> IF i.mid = 13 THEN 1 ELSE 2
SignIsExtended(i) == IsExtra(i) /\ i.mid \in {13, 15}

TransferLeft(s, t, i) ==
  LET base == s.Reg[i.rn] - (IF i.rn = 15 THEN s.Reg[15] % 4 ELSE 0)
      moved == (base + (IF (i.code \div 8) % 2 = 1 THEN 1 ELSE -1) * Distance(s, i)) % Size
      pre == (i.code \div 16) % 2 = 1
      a == IF pre THEN moved ELSE base
      load == i.code % 2 = 1
      n == Bytes(i)
      v == InMemory(s.mem, a, n)
  IN /\ load => /\ t.mem = s.mem
                /\ t.Reg[i.rd] = IF SignIsExtended(i) THEN AsSigned(v, ByteSize ^ n) % Size ELSE v
     /\ ~load => Written(s.mem, t.mem, a, n, s.Reg[i.rd])
     /\ LET wb == ~pre \/ (i.code \div 2) % 2 = 1
        IN /\ wb /\ ~(load /\ i.rd = i.rn) => t.Reg[i.rn] = moved
           /\ SameBut(t, (IF load THEN {i.rd} ELSE {}) \cup (IF wb THEN {i.rn} ELSE {}))

\* Blocks: the registers go up in memory with their numbers; with the S bit
\* they are the user's.
IsBlock(i) == i.code \in 128 .. 159 /\ 15 \notin RegisterList(i)
Banked(s, i) == (i.code \div 4) % 2 = 1 /\ s.Bank \notin {0, 6}
Transferred(s, i, r) == IF Banked(s, i) /\ r \in {13, 14} THEN s.RegBank[0][r] ELSE s.Reg[r]
BlockLeft(s, t, i) ==
  LET list == RegisterList(i)
      n == 4 * Cardinality(list)
      up == (i.code \div 8) % 2 = 1  pre == (i.code \div 16) % 2 = 1
      low == CASE up /\ ~pre -> s.Reg[i.rn] [] up /\ pre -> s.Reg[i.rn] + 4
               [] ~up /\ ~pre -> s.Reg[i.rn] - n + 4 [] OTHER -> s.Reg[i.rn] - n
      at(r) == low + 4 * Cardinality(list \cap 0 .. r - 1)
      wb == (i.code \div 2) % 2 = 1
      load == i.code % 2 = 1
      changed == (IF wb THEN {i.rn} ELSE {})
                   \cup (IF load THEN {r \in list : ~(Banked(s, i) /\ r \in {13, 14})} ELSE {})
  IN (wb => i.rn \notin list) =>
       /\ SameBut(t, changed)
       /\ wb => t.Reg[i.rn] = (s.Reg[i.rn] + (IF up THEN n ELSE -n)) % Size
       /\ load => /\ t.mem = s.mem
                  /\ \A r \in list : Transferred(t, i, r) = InMemory(s.mem, at(r), 4)
       /\ ~load => \A b \in Mapped :
                     LET into == {r \in list : b \in at(r) .. at(r) + 3 /\ at(r) .. at(r) + 3 \subseteq Mapped}
                     IN t.mem[b] = IF into = {} THEN s.mem[b]
                                   ELSE LET r == CHOOSE r \in into : TRUE
                                        IN (Transferred(s, i, r) \div ByteSize ^ (b - at(r))) % ByteSize

\* The floating point registers: one, or a list of them, from d on.
IsExtTransfer(i) ==
  /\ i.code \in 192 .. 223 /\ i.hi \in {10, 11}
  /\ (i.code \div 2) % 16 \notin {0, 2}
ExtTransferLeft(s, t, i) ==
  LET one == (i.code \div 16) % 2 = 1 /\ (i.code \div 2) % 2 = 0
      up == (i.code \div 8) % 2 = 1
      pre == (i.code \div 16) % 2 = 1
      size == IF i.hi = 10 THEN 1 ELSE 2
      imm == i.mid * 16 + i.rm
      n == IF one THEN size ELSE imm
      d == IF i.hi = 10 THEN 2 * i.rd + ((i.code \div 4) % 2) ELSE 2 * (i.rd + 16 * ((i.code \div 4) % 2))
      moved == (s.Reg[i.rn] + (IF up THEN 4 ELSE -4) * imm) % Size
      a == IF pre THEN moved ELSE s.Reg[i.rn]
      wb == (i.code \div 2) % 2 = 1
  IN n > 0 /\ n % size = 0 =>
       /\ SameBut(t, IF wb THEN {i.rn} ELSE {}) /\ (wb => t.Reg[i.rn] = moved)
       /\ IF i.code % 2 = 1
            THEN /\ t.mem = s.mem
                 /\ \A r \in 0 .. 63 :
                      t.ExtReg[r] = IF r \in d .. d + n - 1 THEN InMemory(s.mem, a + 4 * (r - d), 4) ELSE s.ExtReg[r]
            ELSE /\ t.ExtReg = s.ExtReg
                 /\ \A k \in 0 .. n - 1 :
                      a + 4 * k \in Mapped => InMemory(t.mem, a + 4 * k, 4) = s.ExtReg[d + k]

\* A load gives the bytes that are at the address, whatever its alignment (the
\* wrapper turns a word one way and the interpreter turns it back), with the
\* sign the instruction asks for; a store changes no other byte; the base moves
\* as the addressing mode says; a block with the S bit takes the user's r13 and
\* r14 and leaves the running mode its own, across two switches of the banks.
\* Blocks, and floating point registers with them, are read at multiples of 4:
\* there a word is not turned back.
TransfersAsArchitected ==
  [][/\ Ran(IsTransfer) => TransferLeft(Before, cpu', Executed)
     /\ Ran(LAMBDA i : IsBlock(i) /\ cpu.Reg[i.rn] % 4 = 0) => BlockLeft(Before, cpu', Executed)
     /\ Ran(LAMBDA i : IsExtTransfer(i) /\ cpu.Reg[i.rn] % 4 = 0)
          => ExtTransferLeft(Before, cpu', Executed)]_vars

----------------------------------------------------------------------------
(* Exclusive accesses.                                                     *)
IsExclusiveStore(i) == i.code \in {24, 28, 30} /\ i.mid = 9
ExclusiveBytes(i) == CASE i.code = 24 -> 4 [] i.code = 28 -> 1 [] i.code = 30 -> 2

\* A store-exclusive that answers 0, to the address that its thread loaded from
\* exclusively, replaces just the value that was loaded then, whatever other
\* threads ran and stored in between (the programs load exclusively into r1 and
\* leave it alone).  The program remembers the value, not the access, in fields
\* that the scheduler has to keep for each thread.
ExclusiveStoresReplaceTheLoaded ==
  [][Ran(IsExclusiveStore) =>
       LET i == Executed  a == Before.Reg[i.rn]
       IN cpu'.Reg[i.rd] = 0 /\ a = cpu.currentexaddr =>
            /\ InMemory(cpu.mem, a, ExclusiveBytes(i)) = Before.Reg[1]
            /\ Written(cpu.mem, cpu'.mem, a, ExclusiveBytes(i), Before.Reg[i.rm])]_vars

----------------------------------------------------------------------------
(* Thumb instructions, format by format and without the instructions of 32 *)
(* bits that the program turns them into.                                  *)
Low(s, t, bit) == s.Reg[Bits(t, bit, bit + 2)]
Shifts == <<"LSL", "LSR", "ASR", "ROR">>

----------------------------------------------------------------------------
(* Arithmetic: the operation (as Alu counts them), its left operand, the   *)
(* right operand with the carry of the shifter, and the destination.       *)
IsArithmetic(t) == Op(t) < 8 \/ Bits(t, 10, 15) = 16
IsMul(t) == Bits(t, 6, 15) = 256 + 13

Arithmetics(s, t) ==
  LET c == s.CFlag
      n == Bits(t, 6, 9)
      By(k, x) == Places(x, Shifts[k], Low(s, t, 3) % (8 * W), c)
  IN CASE Op(t) < 3 ->
            LET imm == IF Imm5(t) = 0 /\ Op(t) > 0 THEN W ELSE Imm5(t)
            IN [op |-> 13, x |-> 0, y |-> Places(Low(s, t, 3), Shifts[Op(t) + 1], imm, c), rd |-> R0(t)]
       [] Op(t) = 3 ->
            [op |-> IF BitOf(t, 9) = 1 THEN 2 ELSE 4, x |-> Low(s, t, 3), rd |-> R0(t),
             y |-> <<IF BitOf(t, 10) = 1 THEN R6(t) ELSE Low(s, t, 6), c>>]
       [] Op(t) \in 4 .. 7 ->
            [op |-> <<13, 10, 4, 2>>[Op(t) - 3], x |-> Low(s, t, 8), y |-> <<ImmByte(t), c>>,
             rd |-> R8(t)]
       [] OTHER ->
            [op |-> <<0, 1, 13, 13, 13, 5, 6, 13, 8, 3, 10, 11, 12, 16, 14, 15>>[n + 1],
             x |-> IF n = 9 THEN Low(s, t, 3) ELSE Low(s, t, 0), rd |-> R0(t),
             y |-> CASE n \in 2 .. 4 -> By(n - 1, Low(s, t, 0))
                     [] n = 7 -> By(4, Low(s, t, 0))
                     [] n = 9 -> <<0, c>>
                     [] OTHER -> <<Low(s, t, 3), c>>]

ResultOf(s, t, a) ==
  IF IsMul(t) THEN [v |-> (a.x * a.y[1]) % Size] ELSE Alu(a.op, a.x, a.y[1], s.CFlag)
ResultLeft(s, u, a, r) ==
  LET n == Flag(r.v >= HalfWay)  z == Flag(r.v = 0)
      logical == a.op \in {0, 1, 8, 9, 12, 13, 14, 15, 16}
  IN /\ IF a.op \in 8 .. 11 THEN SameBut(u, {}) ELSE u.Reg[a.rd] = r.v /\ SameBut(u, {a.rd})
     /\ Flags(u) = IF logical THEN <<n, z, a.y[2], s.VFlag>> ELSE <<n, z, r.c, r.o>>
ArithmeticDone(s, u, t) ==
  LET a == Arithmetics(s, t) IN ResultLeft(s, u, a, ResultOf(s, t, a))

----------------------------------------------------------------------------
(* Moves that leave the flags alone: registers from 8 on, addresses from   *)
(* the pc and the stack pointer, extensions.                               *)
IsMove(t) ==
  \/ Bits(t, 10, 15) = 17 /\ Bits(t, 8, 9) \in {0, 2}
  \/ Op(t) \in {20, 21}
  \/ Bits(t, 8, 15) \in {176, 178} \/ Bits(t, 6, 15) = 744
MoveTo(t) ==
  CASE Op(t) = 8 -> Bits(t, 0, 2) + 8 * BitOf(t, 7)
    [] Op(t) \in {20, 21} -> R8(t)
    [] Bits(t, 8, 15) = 176 -> 13
    [] OTHER -> R0(t)
MoveValue(s, t) ==
  LET x == Low(s, t, 3)
      Ext(n, signed) == IF signed THEN AsSigned(x % n, n) % Size ELSE x % n
  IN CASE Op(t) = 8 -> (s.Reg[Bits(t, 3, 6)] + (IF BitOf(t, 9) = 1 THEN 0 ELSE s.Reg[MoveTo(t)])) % Size
       [] Op(t) = 20 -> (s.Reg[15] - (s.Reg[15] % 4) + 4 * ImmByte(t)) % Size
       [] Op(t) = 21 -> (s.Reg[13] + 4 * ImmByte(t)) % Size
       [] Bits(t, 8, 15) = 176 ->
            (s.Reg[13] + (IF BitOf(t, 7) = 1 THEN -4 ELSE 4) * Bits(t, 0, 6)) % Size
       [] Bits(t, 8, 15) = 178 -> Ext(IF BitOf(t, 6) = 1 THEN ByteSize ELSE HalfSize, BitOf(t, 7) = 0)
       [] OTHER -> MapThenSumSet(LAMBDA k : ByteSize ^ (3 - k) * ((x \div ByteSize ^ k) % ByteSize), 0 .. 3)
MoveDone(s, u, t) ==
  LET d == MoveTo(t)
  IN /\ IF d = 15 THEN Jumped(u, MoveValue(s, t) - (MoveValue(s, t) % 2)) /\ SameBut(u, {})
        ELSE u.Reg[d] = MoveValue(s, t) /\ SameBut(u, {d})
     /\ Flags(u) = Flags(s)

----------------------------------------------------------------------------
(* Loads and stores: the address, how many bytes, and which register.      *)
IsAccess(t) == Op(t) \in 9 .. 19
Access(s, t) ==
  LET reg == (Low(s, t, 3) + Low(s, t, 6)) % Size
      Imm(n) == (Low(s, t, 3) + n * Imm5(t)) % Size
      kind == <<<<4, 0, 0>>, <<2, 0, 0>>, <<1, 0, 0>>, <<1, 1, 1>>, <<4, 1, 0>>, <<2, 1, 0>>,
                <<1, 1, 0>>, <<2, 1, 1>>>>[Bits(t, 9, 11) + 1]
  IN CASE Op(t) = 9 -> [a |-> (s.Reg[15] - (s.Reg[15] % 4) + 4 * ImmByte(t)) % Size, r |-> R8(t), k |-> <<4, 1, 0>>]
       [] Op(t) \in {10, 11} -> [a |-> reg, r |-> R0(t), k |-> kind]
       [] Op(t) \in {12, 13} -> [a |-> Imm(4), r |-> R0(t), k |-> <<4, Op(t) % 2, 0>>]
       [] Op(t) \in {14, 15} -> [a |-> Imm(1), r |-> R0(t), k |-> <<1, Op(t) % 2, 0>>]
       [] Op(t) \in {16, 17} -> [a |-> Imm(2), r |-> R0(t), k |-> <<2, Op(t) % 2, 0>>]
       [] OTHER -> [a |-> (s.Reg[13] + 4 * ImmByte(t)) % Size, r |-> R8(t), k |-> <<4, Op(t) % 2, 0>>]
AccessDone(s, u, t) ==
  LET c == Access(s, t)
      v == InMemory(s.mem, c.a, c.k[1])
  IN /\ IF c.k[2] = 1
          THEN /\ u.mem = s.mem /\ SameBut(u, {c.r})
               /\ u.Reg[c.r] = IF c.k[3] = 1 THEN AsSigned(v, ByteSize ^ c.k[1]) % Size ELSE v
          ELSE Written(s.mem, u.mem, c.a, c.k[1], s.Reg[c.r]) /\ SameBut(u, {})
     /\ Flags(u) = Flags(s)

----------------------------------------------------------------------------
(* Jumps: where to, and what is left in r14 and T; control goes on with    *)
(* the next instruction when the condition does not hold.                  *)
IsJump(t) == IsBcc(t) \/ Op(t) \in {28, 31} \/ (Op(t) = 29 /\ t % 2 = 0) \/ Bits(t, 7, 15) \in {142, 143}
JumpDone(s, u, t) ==
  LET rm == s.Reg[Bits(t, 3, 6)]
      next == (s.pc + 2) % Size
      linked == u.Reg[14] = next + 1 - (next % 2)
      there == CASE IsBcc(t) -> s.pc + 4 + 2 * (IF ImmByte(t) > 127 THEN ImmByte(t) - 256 ELSE ImmByte(t))
                 [] Op(t) = 28 -> s.pc + 4 + 2 * (IF BitOf(t, 10) = 1 THEN Bits(t, 0, 10) - 2048 ELSE Bits(t, 0, 10))
                 [] Op(t) = 31 -> s.Reg[14] + 2 * Bits(t, 0, 10)
                 [] Op(t) = 29 -> (s.Reg[14] + 2 * Bits(t, 0, 10)) - ((s.Reg[14] + 2 * Bits(t, 0, 10)) % 4)
                 [] OTHER -> IF rm % 2 = 1 THEN rm - 1 ELSE rm - (rm % 4)
  IN IF IsBcc(t) /\ ~ConditionHolds(s, Bits(t, 8, 11))
       THEN Advance(u).pc = next /\ SameBut(u, {})
       ELSE /\ Jumped(u, there % Size) /\ Advance(u).pc = there % Size
            /\ u.TFlag = (CASE Op(t) = 29 -> 0 [] Op(t) = 8 -> rm % 2 [] OTHER -> 1)
            /\ IF Op(t) \in {29, 31} \/ Bits(t, 7, 15) = 143 THEN linked /\ SameBut(u, {14})
               ELSE SameBut(u, {})

----------------------------------------------------------------------------
\* Every Thumb instruction that computes, moves, loads, stores or jumps has the
\* effect that its own format gives it, flags included: thumbemu.c builds an
\* ARM instruction for each one, out of tables of opcodes and fields moved to
\* other places, and the interpreter decodes that one again.
ThumbAsArchitected ==
  [][steps' # steps /\ cpu'.CurrInstr.cond = 17 =>
       LET t == cpu'.CurrInstr.thumb
       IN /\ IsArithmetic(t) => ArithmeticDone(Before, cpu', t)
          /\ IsMove(t) => MoveDone(Before, cpu', t)
          /\ IsAccess(t) => AccessDone(Before, cpu', t)
          /\ IsJump(t) => JumpDone(Before, cpu', t)]_vars
=============================================================================
