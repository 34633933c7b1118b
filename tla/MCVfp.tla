-------------------------------- MODULE MCVfp --------------------------------
(***************************************************************************)
(* Singles of 10 bits and doubles of 16.  A single keeps 6 bits below its  *)
(* last bit while it is computed with (the program's 7), which is enough   *)
(* for the unrounded product of a multiply-add; every significand of a     *)
(* single occurs, and of a double the ones around the carries.             *)
(***************************************************************************)
EXTENDS VfpManual

MCSingle == [e |-> 6, m |-> 3]
MCDouble == [e |-> 7, m |-> 8]

SingleOf(s, e, m) == s * 512 + e * 8 + m
DoubleOf(s, e, m) == s * 2 ^ 15 + e * 2 ^ 8 + m
Insn(op, cp, d, n, m) ==        \* registers by their number in the file
  LET V(r) == IF cp = 10 THEN r \div 2 ELSE r
      B(r) == IF cp = 10 THEN r % 2 ELSE 0
  IN [cp |-> cp, op |-> op, vd |-> V(d), db |-> B(d), vn |-> V(n), nb |-> B(n),
      vm |-> V(m), mb |-> B(m)]

Files(cp, File(_)) ==           \* a file of registers out of File(register)
  [r \in VfpRegisters |->
     IF r > 31 THEN 0
     ELSE IF cp = 10 THEN File(r)
     ELSE IF r % 2 = 0 THEN Lo(File(r \div 2)) ELSE Hi(File(r \div 2))]
Status(mode, dn, len, stride) ==
  [mode |-> mode, default_nan |-> dn, len |-> len, stride |-> stride, flags |-> {"Z", "IXC"}]
Start(file, status, insns) == [ExtReg |-> file, fpscr |-> status, todo |-> insns]
Plain == {Status(mode, FALSE, 0, 0) : mode \in Modes} \union {Status("nearest", TRUE, 0, 0)}

----------------------------------------------------------------------------
(* Two operands: all pairs of registers, over files that hold numbers of   *)
(* two or four exponents.                                                  *)
TwoOperands == {"fadd", "fsub", "fmul", "fnmul", "fdiv"}
SingleFile(a, b) ==
  Files(10, LAMBDA r : SingleOf(r % 2, IF r < 16 THEN a ELSE b, (r \div 2) % 8))
SinglePairs ==
  {Start(SingleFile(x[1], x[2]), fp,
         {Insn(op, 10, 0, n, m) : op \in TwoOperands, n \in {0, 5, 14} \union 16 .. 31, m \in 0 .. 31}) :
     x \in {<<31, 32>>, <<0, 30>>, <<63, 1>>, <<34, 62>>, <<31, 36>>}, fp \in Plain}
DoubleMantissas == <<0, 1, 127, 128, 129, 170, 254, 255>>
DoubleFile(a, b) ==
  Files(11, LAMBDA r : DoubleOf((r \div 4) % 2, IF r < 8 THEN a ELSE b, DoubleMantissas[(r % 8) + 1]))
DoublePairs ==
  {Start(DoubleFile(x[1], x[2]), fp,
         {Insn(op, 11, 0, n, m) : op \in TwoOperands, n \in 0 .. 15, m \in 0 .. 15}) :
     x \in {<<63, 64>>, <<0, 62>>, <<127, 1>>, <<68, 126>>, <<63, 72>>, <<3, 122>>}, fp \in Plain}

Accumulating ==
  {Start(Files(10, LAMBDA r : IF r < 8 THEN <<0, 8, 248, 253, 760, 763, 504, 472>>[r + 1]
                              ELSE SingleOf(r % 2, <<1, 31, 33, 50>>[(r \div 8) + 1], r % 8)), fp,
         {Insn(op, 10, d, n, m) : op \in MultiplyAdds, d \in 0 .. 7, n \in 8 .. 31, m \in {8, 9, 13, 18, 20, 29}}) :
     fp \in Plain}
  \union
  {Start(Files(11, LAMBDA r : IF r < 4 THEN <<0, 256, 63 * 256 + 129, 49024>>[r + 1]
                              ELSE DoubleOf(r % 2, <<0, 63, 65, 90>>[(r \div 4) + 1], <<0, 16, 128, 192>>[(r % 4) + 1])), fp,
         {Insn(op, 11, d, n, m) : op \in MultiplyAdds, d \in 0 .. 3, n \in 4 .. 15, m \in 4 .. 15}) :
     fp \in Plain}

----------------------------------------------------------------------------
(* One operand: every single and every integer, and 48 exponents of a      *)
(* double.                                                                 *)
OneOperand == (Extended \ Comparisons) \union {"fcmpz", "fcmpez"}
SinglesAndIntegers ==
  {Start(Files(10, LAMBDA r : (r + 24 * block) % 1024), fp,
         {Insn(op, 10, 2, 0, m) : op \in OneOperand, m \in 8 .. 31}) :
     block \in 0 .. 42, fp \in Plain}
Doubles ==
  {Start(Files(11, LAMBDA r : DoubleOf(r \div 8, e, DoubleMantissas[(r % 8) + 1])), fp,
         {Insn(op, 11, 2, 0, m) : op \in OneOperand \ (FromInteger \union {"fcmpz", "fcmpez"}),
                                  m \in 0 .. 15}) :
     e \in (0 .. 3) \union (29 .. 36) \union (58 .. 76) \union (90 .. 98) \union (122 .. 127), fp \in Plain}
DoubleIntegers ==
  {Start(Files(10, LAMBDA r : (r * 61 + 7 * block) % 1024), fp,
         {Insn(op, 11, 0, 0, m) : op \in FromInteger, m \in 1 .. 15}) :
     block \in 0 .. 15, fp \in Plain}

Compared ==
  {Start(SingleFile(x[1], x[2]), Status("nearest", FALSE, 3, 0),
         {Insn(op, 10, n, 0, m) : op \in {"fcmp", "fcmpe"}, n \in 0 .. 31, m \in 0 .. 31}) :
     x \in {<<31, 32>>, <<0, 63>>}}
  \union
  {Start(DoubleFile(x[1], x[2]), Status("nearest", FALSE, 0, 0),
         {Insn(op, 11, n, 0, m) : op \in Comparisons, n \in 0 .. 15, m \in 0 .. 15}) :
     x \in {<<63, 64>>, <<0, 127>>}}

----------------------------------------------------------------------------
(* Vectors: of singles into bank 1 out of banks 2 and 3 or bank 0, or in   *)
(* place, and of doubles likewise; the numbers are ones that the           *)
(* multiply-adds are exact on.                                             *)
Moderate(r, file) == IF file = 10 THEN SingleOf(r % 2, 31 + (r % 3), (r % 2) * 4)
                                  ELSE DoubleOf(r % 2, 63 + (r % 3), (r % 2) * 128)
VectorOps == OnVectors \ {"fcpy"}
Vectors ==
  {Start(Files(10, LAMBDA r : Moderate(r, 10)), Status("plusinf", FALSE, len, stride),
         {Insn(op, 10, d, n, m) : op \in VectorOps, d \in {8, 13, 15}, n \in {17, 22}, m \in {3, 24, 30}}
           \union {Insn(op, 10, d, d, 31) : op \in VectorOps \union {"fcpy"}, d \in {9, 14}}) :
     len \in 1 .. 3, stride \in {0, 3}}
  \union
  {Start(Files(11, LAMBDA r : Moderate(r, 11)), Status("tozero", FALSE, 1, stride),
         {Insn(op, 11, d, n, m) : op \in VectorOps, d \in {4, 7}, n \in {9, 11}, m \in {2, 12, 15}}
           \union {Insn(op, 11, d, d, 15) : op \in VectorOps \union {"fcpy"}, d \in {5, 6}}) :
     stride \in {0, 3}}
Unknown ==
  {Start(DoubleFile(63, 64), Status("nearest", FALSE, 0, 0), {Insn("undefined", 11, 0, 0, 0)})}

MCStarts ==
  SinglePairs \union DoublePairs \union Accumulating \union SinglesAndIntegers \union Doubles
    \union DoubleIntegers \union Compared \union Vectors \union Unknown
MCBuilds == {"modulo", "zero"}
=============================================================================
