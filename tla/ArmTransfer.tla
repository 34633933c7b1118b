---------------------------- MODULE ArmTransfer ----------------------------
(***************************************************************************)
(* The load and store instructions of the interpreter: single words and    *)
(* bytes, halfwords and signed bytes, double words, blocks of registers,   *)
(* swaps and the exclusive accesses.                                       *)
(***************************************************************************)
EXTENDS ArmState, FiniteSets

\* The bits of an instruction that say how a transfer addresses memory.
Load(i) == i.code % 2 = 1
WriteBack(i) == BitOf(i.code, 1) = 1
Bit22(i) == BitOf(i.code, 2) = 1
Up(i) == BitOf(i.code, 3) = 1
PreIndexed(i) == BitOf(i.code, 4) = 1

Moved(i, base, offset) == Wrap(IF Up(i) THEN base + offset ELSE base - offset)

\* Extends a halfword or a byte to a word.
SignHalf(h) == Wrap(SignedHalf(h))
SignByte(b) == Wrap(SignedByte(b))

----------------------------------------------------------------------------
(* The functions that do the work of a single transfer.                    *)
LoadWord(s, i, a) == WriteDestB(s, i, ARMul_Align(a, ARMul_ReadWord(s, a)))
LoadHalfWord(s, i, a, signextend) ==
  LET h == ARMul_LoadHalfWord(s, a) IN WriteDest(s, i, IF signextend THEN SignHalf(h) ELSE h)
LoadByte(s, i, a, signextend) ==
  LET b == ARMul_ReadByte(s, a) IN WriteDest(s, i, IF signextend THEN SignByte(b) ELSE b)
StoreWord(s, i, a) == ARMul_WriteWord(s, a, s.Reg[i.rd])
StoreHalfWord(s, i, a) == ARMul_StoreHalfWord(s, a, s.Reg[i.rd])
StoreByte(s, i, a) == ARMul_WriteByte(s, a, s.Reg[i.rd])

\* A load keeps its result when the base is also the destination.
BaseAfterLoad(s, i, v) == IF i.rd # i.rn THEN SetReg(s, i.rn, v) ELSE s
BaseAfterStore(s, i, v) == SetReg(s, i.rn, v)

----------------------------------------------------------------------------
(* LDR, STR, LDRB and STRB with an immediate offset.                       *)
LSImmRHS(i) == Wrap((i.hi * 16 + i.mid) * 16 + i.rm)

SingleAt(s, i, a) ==
  CASE Load(i) /\ Bit22(i) -> LoadByte(s, i, a, FALSE)
    [] Load(i) /\ ~Bit22(i) -> LoadWord(s, i, a)
    [] ~Load(i) /\ Bit22(i) -> StoreByte(s, i, a)
    [] OTHER -> StoreWord(s, i, a)

PostImmediate(s, i) ==
  LET lhs == LHS(s, i)
      base == Moved(i, lhs, LSImmRHS(i))
      done == SingleAt(s, i, lhs)
  IN IF Load(i) THEN BaseAfterLoad(done, i, base) ELSE BaseAfterStore(done, i, base)

PreImmediate(s, i) ==
  LET a == Moved(i, LHS(s, i), LSImmRHS(i))
      done == SingleAt(s, i, a)
  IN CASE ~WriteBack(i) -> done
       [] WriteBack(i) /\ Load(i) -> BaseAfterLoad(done, i, a)
       [] OTHER -> BaseAfterStore(done, i, a)

(* The same with a shifted register for the offset; bit 4 is clear.        *)
GetLSRegRHS(s, i) ==
  LET x == s.Reg[i.rm]  n == ShiftBits(i)
  IN CASE ShiftKind(i) = "LSL" -> Shl(x, n)
       [] ShiftKind(i) = "LSR" -> IF n = 0 THEN 0 ELSE Shr(x, n)
       [] ShiftKind(i) = "ASR" -> Sar(x, IF n = 0 THEN W - 1 ELSE n)
       [] OTHER -> IF n = 0 THEN Shr(x, 1) + s.CFlag * 2 ^ (W - 1) ELSE Rotr(x, n)

\* A store reads the offset after it has stored.
PostRegister(s, i) ==
  LET lhs == LHS(s, i)
      done == SingleAt(s, i, lhs)
  IN IF Load(i) THEN BaseAfterLoad(done, i, Moved(i, lhs, GetLSRegRHS(s, i)))
     ELSE BaseAfterStore(done, i, Moved(i, lhs, GetLSRegRHS(done, i)))

PreRegister(s, i) ==
  LET a == Moved(i, LHS(s, i), GetLSRegRHS(s, i))
      done == SingleAt(s, i, a)
  IN CASE ~WriteBack(i) -> done
       [] WriteBack(i) /\ Load(i) -> BaseAfterLoad(done, i, a)
       [] OTHER -> BaseAfterStore(done, i, a)

----------------------------------------------------------------------------
(* Halfwords and signed bytes; bit 22 chooses an immediate offset.         *)
GetLS7RHS(s, i) == IF Bit22(i) THEN Wrap(i.hi * 16 + i.rm) ELSE s.Reg[i.rm]

LoadExtra(s, i, a) ==
  CASE i.mid = 11 -> LoadHalfWord(s, i, a, FALSE)
    [] i.mid = 13 -> LoadByte(s, i, a, TRUE)
    [] i.mid = 15 -> LoadHalfWord(s, i, a, TRUE)

\* SHDOWNWB and SHUPWB read the offset after they have stored.
SHPOST(s, i) ==
  LET lhs == LHS(s, i)  done == StoreHalfWord(s, i, lhs)
  IN BaseAfterStore(done, i, Moved(i, lhs, GetLS7RHS(done, i)))
SHPRE(s, i) == StoreHalfWord(s, i, Moved(i, LHS(s, i), GetLS7RHS(s, i)))
SHPREWB(s, i) ==
  LET a == Moved(i, LHS(s, i), GetLS7RHS(s, i)) IN BaseAfterStore(StoreHalfWord(s, i, a), i, a)
LHPOST(s, i) ==
  LET lhs == LHS(s, i)
  IN BaseAfterLoad(LoadExtra(s, i, lhs), i, Moved(i, lhs, GetLS7RHS(s, i)))
LHPRE(s, i) == LoadExtra(s, i, Moved(i, LHS(s, i), GetLS7RHS(s, i)))
LHPREWB(s, i) ==
  LET a == Moved(i, LHS(s, i), GetLS7RHS(s, i)) IN BaseAfterLoad(LoadExtra(s, i, a), i, a)

\* Double words: an odd register, a base among the registers that the transfer
\* would change, or a write-back that is not pre-indexed, is undefined.
DoubleAddress(s, i) ==
  IF PreIndexed(i) THEN Moved(i, s.Reg[i.rn], GetLS7RHS(s, i)) ELSE s.Reg[i.rn]
DoubleBase(t, s, i) ==
  IF PreIndexed(i) /\ ~WriteBack(i) THEN t
  ELSE SetReg(t, i.rn, Moved(i, s.Reg[i.rn], GetLS7RHS(s, i)))
BadDouble(i) ==
  \/ WriteBack(i) /\ ~PreIndexed(i)
  \/ i.rd % 2 = 1
  \/ (~PreIndexed(i) \/ WriteBack(i)) /\ i.rn \in {i.rd, i.rd + 1}

Handle_Load_Double(s, i) ==
  LET a == DoubleAddress(s, i)
      first == SetReg(s, i.rd, ARMul_ReadWord(s, a))
  IN IF BadDouble(i) \/ i.rd = 14 THEN ARMul_UndefInstr(s)
     ELSE DoubleBase(SetReg(first, i.rd + 1, ARMul_ReadWord(s, Wrap(a + 4))), s, i)

Handle_Store_Double(s, i) ==
  LET a == DoubleAddress(s, i)
      first == ARMul_WriteWord(s, a, s.Reg[i.rd])
  IN IF BadDouble(i) \/ i.rn = 15 THEN ARMul_UndefInstr(s)
     ELSE DoubleBase(ARMul_WriteWord(first, Wrap(a + 4), s.Reg[i.rd + 1]), s, i)

----------------------------------------------------------------------------
(* Blocks of registers, in the order of their numbers.                     *)
RegisterList(i) ==
  {r \in 0 .. 15 : BitOf(<<i.rm, i.mid, i.hi, i.rd>>[(r \div 4) + 1], r % 4) = 1}
LSMNumRegs(i) == 4 * Cardinality(RegisterList(i))
\* Where register r of the list goes in a block that starts at a.
Slot(i, a, r) == Wrap(a + 4 * Cardinality({q \in RegisterList(i) : q < r}))

Loaded(s, i, a) ==
  [s EXCEPT !.Reg = [r \in 0 .. 15 |->
     IF r \in RegisterList(i) THEN ARMul_ReadWord(s, Slot(i, a, r)) ELSE s.Reg[r]]]
Stored(s, i, a) ==
  LET upTo[r \in 0 .. 16] ==
        IF r = 0 THEN s
        ELSE IF r - 1 \in RegisterList(i)
               THEN ARMul_WriteWord(upTo[r - 1], Slot(i, a, r - 1), s.Reg[r - 1])
               ELSE upTo[r - 1]
  IN upTo[16]

MultBase(s, i, wb) == IF WriteBack(i) /\ i.rn # 15 THEN SetReg(s, i.rn, wb) ELSE s
UserRegs(s) == IF s.Bank # 0 THEN ARMul_SwitchMode(s, s.Mode, 0) ELSE s
OwnRegs(s) == IF s.Mode \notin {0, 16} THEN ARMul_SwitchMode(s, 0, s.Mode) ELSE s

LoadMult(s, i, a, wb) ==
  LET t == Loaded(s, i, a)
  IN MultBase(IF 15 \in RegisterList(i) THEN WriteR15Branch(t, t.Reg[15]) ELSE t, i, wb)
StoreMult(s, i, a, wb) == MultBase(Stored(s, i, a), i, wb)

MutStoreSMult(s, i, a, wb) == MultBase(Stored(UserRegs(s), i, a), i, wb)

\* With the S bit: the user's registers or, when the PC is in the list, the
\* status register too.
LoadSMult(s, i, a, wb) ==
  IF 15 \in RegisterList(i)
    THEN LET t == MultBase(Loaded(s, i, a), i, wb)
             u == IF s.Mode \notin {0, 16} THEN ARMul_CPSRAltered(t, ARMul_GetSPSR(t)) ELSE t
         IN WriteR15(u, t.Reg[15])
    ELSE OwnRegs(MultBase(Loaded(UserRegs(s), i, a), i, wb))
StoreSMult(s, i, a, wb) == MultBase(OwnRegs(Stored(UserRegs(s), i, a)), i, wb)

\* Where the lowest register goes and what the base is afterwards.
Multiple(s, i) ==
  LET base == s.Reg[i.rn]
      low == IF Up(i) THEN base ELSE base - LSMNumRegs(i)
      a == Wrap(IF Up(i) = PreIndexed(i) THEN low + 4 ELSE low)
      wb == Moved(i, base, LSMNumRegs(i))
  IN CASE Load(i) /\ Bit22(i) -> LoadSMult(s, i, a, wb)
       [] Load(i) /\ ~Bit22(i) -> LoadMult(s, i, a, wb)
       [] ~Load(i) /\ Bit22(i) -> StoreSMult(s, i, a, wb)
       [] OTHER -> StoreMult(s, i, a, wb)

----------------------------------------------------------------------------
(* Swaps and exclusive accesses.  A load-exclusive remembers the address   *)
(* and the value; a store-exclusive compares what is there now with the    *)
(* value, whatever address it stores to itself.                            *)
SWP(s, i) ==
  LET a == LHS(s, i)
  IN SetReg(ARMul_WriteWord(s, a, s.Reg[i.rm]), i.rd, ARMul_Align(a, ARMul_ReadWord(s, a)))
SWPB(s, i) ==
  LET a == LHS(s, i)
  IN SetReg(ARMul_WriteByte(s, a, s.Reg[i.rm]), i.rd, ARMul_ReadByte(s, a))

Tagged(s, a, v) == [s EXCEPT !.currentexaddr = a, !.currentexval = v]
Unless(s, i, P, t) == IF P THEN SetReg(t, i.rd, 0) ELSE SetReg(s, i.rd, 1)

LDREX(s, i) == LET a == LHS(s, i) IN LoadWord(Tagged(s, a, ARMul_ReadWord(s, a)), i, a)
STREX(s, i) ==
  Unless(s, i, s.currentexval = ARMul_ReadWord(s, s.currentexaddr),
         ARMul_WriteWord(s, LHS(s, i), RHS(s, i)))
LDREXB(s, i) ==
  LET a == LHS(s, i)
      t == LoadByte(s, i, a, FALSE)
  IN Tagged(t, a, ARMul_ReadByte(t, a))
STREXB(s, i) ==
  Unless(s, i, s.currentexval = ARMul_ReadByte(s, s.currentexaddr),
         ARMul_WriteByte(s, LHS(s, i), RHS(s, i)))
LDREXH(s, i) ==
  LET a == LHS(s, i) IN LoadHalfWord(Tagged(s, a, ARMul_LoadHalfWord(s, a)), i, a, FALSE)
STREXH(s, i) ==
  Unless(s, i, s.currentexval = ARMul_LoadHalfWord(s, s.currentexaddr),
         ARMul_StoreHalfWord(s, LHS(s, i), RHS(s, i)))

\* Both words are loaded into the first register.
LDREXD(s, i) ==
  LET a == LHS(s, i)
      t == [Tagged(s, a, ARMul_ReadWord(s, a)) EXCEPT !.currentexvald = ARMul_ReadWord(s, Wrap(a + 4))]
  IN SetReg(t, i.rd, ARMul_ReadWord(s, Wrap(a + 4)))
STREXD(s, i) ==
  LET a == LHS(s, i)
      t == ARMul_WriteWord(s, a, s.Reg[i.rm])
  IN Unless(s, i, /\ s.currentexval = ARMul_ReadWord(s, s.currentexaddr)
                  /\ s.currentexvald = ARMul_ReadWord(s, Wrap(s.currentexaddr + 4)),
            ARMul_WriteWord(t, Wrap(a + 4), s.Reg[(i.rm + 1) % 16]))
=============================================================================
