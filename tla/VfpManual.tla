------------------------------ MODULE VfpManual ------------------------------
(***************************************************************************)
(* What the architecture says of the same instructions: a number is a      *)
(* sign, a whole number and a power of two, an operation is exact, and the *)
(* result is the number of the format that the rounding mode selects.  The *)
(* unit under test never forms an exact result; this module never packs,   *)
(* aligns or keeps sticky bits in a word.                                  *)
(***************************************************************************)
EXTENDS Vfp

\* n * 2^x; a zero has n = 0.
ValueOf(f, v) ==
  LET e == ExponentBits(f, v)
  IN [s |-> SignBit(f, v),
      n |-> MantissaBits(f, v) + (IF e = 0 THEN 0 ELSE 2 ^ f.m),
      x |-> (IF e = 0 THEN 1 ELSE e) - Bias(f) - f.m]
IsInfinite(f, v) == ExponentBits(f, v) = MaxExponent(f) /\ MantissaBits(f, v) = 0
IsSignalling(f, v) == IsNan(f, v) /\ MantissaBits(f, v) < 2 ^ (f.m - 1)
InfinityOf(f, s) == s * 2 ^ (Bits(f) - 1) + MaxExponent(f) * 2 ^ f.m
Largest(f, s) == InfinityOf(f, s) - 1
Zero(f, s) == s * 2 ^ (Bits(f) - 1)
DefaultNan(f) == InfinityOf(f, 0) + 2 ^ (f.m - 1)

RoundsUp(mode, s, odd, rest) ==      \* rest: none, below, half, above
  CASE mode = "nearest" -> rest = "above" \/ (rest = "half" /\ odd)
    [] mode = "plusinf" -> s = 0 /\ rest # "none"
    [] mode = "minusinf" -> s = 1 /\ rest # "none"
    [] mode = "tozero" -> FALSE
RestOf(r, unit, more) ==             \* r of unit, and something more below it
  CASE r = 0 -> IF more THEN "below" ELSE "none"
    [] 2 * r = unit -> IF more THEN "above" ELSE "half"
    [] r # 0 /\ 2 * r < unit -> "below"
    [] 2 * r > unit -> "above"

\* n * 2^x, and more if there is a remainder below it, in quanta of 2^q.
Quantised(n, x, more, q) ==
  IF x >= q THEN [r |-> n * 2 ^ (x - q), rest |-> RestOf(0, 1, more)]
  ELSE IF q - x > 24 THEN [r |-> 0, rest |-> IF n = 0 /\ ~more THEN "none" ELSE "below"]
  ELSE [r |-> n \div 2 ^ (q - x), rest |-> RestOf(n % 2 ^ (q - x), 2 ^ (q - x), more)]

Larger(a, b) == IF a > b THEN a ELSE b
Inexact(rest) == IF rest = "none" THEN {} ELSE {"IXC"}
\* The number of magnitude up * 2^q, packed.
PackedMagnitude(f, up, q) ==
  IF up < 2 ^ f.m THEN up ELSE (q + f.m + Bias(f) - 1) * 2 ^ f.m + up
RoundedTo(f, s, magnitude, tiny, inexact, mode) ==
  IF magnitude >= MaxExponent(f) * 2 ^ f.m
    THEN Answer(IF RoundsUp(mode, s, TRUE, "above") THEN InfinityOf(f, s) ELSE Largest(f, s),
                {"OFC", "IXC"})
    ELSE Answer(Zero(f, s) + magnitude,
                inexact \union IF tiny /\ inexact # {} THEN {"UFC"} ELSE {})
RoundedAt(f, s, t, q, tiny, mode) ==
  RoundedTo(f, s, PackedMagnitude(f, t.r + IF RoundsUp(mode, s, t.r % 2 = 1, t.rest) THEN 1 ELSE 0, q),
            tiny, Inexact(t.rest), mode)
Rounded(f, s, n, x, more, mode) ==
  LET q == Larger(x + fls(n) - 1, 1 - Bias(f)) - f.m
  IN RoundedAt(f, s, Quantised(n, x, more, q), q, x + fls(n) - 1 < 1 - Bias(f), mode)

\* The first signalling operand made quiet, or the first quiet one.
RefNan(f, operands, fp) ==      \* a sequence, at least one not a number
  LET signalling == {k \in DOMAIN operands : IsSignalling(f, operands[k])}
      nans == IF signalling # {} THEN signalling
              ELSE {k \in DOMAIN operands : IsNan(f, operands[k])}
      v == operands[CHOOSE k \in nans : \A j \in nans : k <= j]
      quiet == IF IsSignalling(f, v) THEN v + 2 ^ (f.m - 1) ELSE v
  IN Answer(IF fp.default_nan THEN DefaultNan(f) ELSE quiet,
            IF signalling # {} THEN {"IOC"} ELSE {})
Invalid(f) == Answer(DefaultNan(f), {"IOC"})

\* Two numbers over one power of two, Gap below the larger one at most: a
\* number far below the other is cut to its whole part, with more left of it.
Gap == 14
SignedValue(v) == IF v.s = 1 THEN -v.n ELSE v.n
Aligned(p, q) ==
  LET x == Larger(p.x + q.x - Larger(p.x, q.x), Larger(p.x, q.x) - Gap)
      Low(v) == 2 ^ (IF x - v.x > 24 THEN 24 ELSE x - v.x)
      Term(v) == IF v.x >= x THEN SignedValue(v) * 2 ^ (v.x - x)
                 ELSE SignedValue(v) \div Low(v)
      CutOff(v) == v.x < x /\ v.n % Low(v) # 0
  IN [a |-> Term(p), b |-> Term(q), x |-> x, more |-> CutOff(p) \/ CutOff(q)]
Magnitude(sum, more) == IF sum >= 0 THEN sum ELSE IF more THEN -sum - 1 ELSE -sum

\* The sum of two numbers p and q, t over one power of two.
RefSum(f, p, q, t, fp) ==
  LET sum == t.a + t.b
  IN IF sum # 0 THEN Rounded(f, IF sum < 0 THEN 1 ELSE 0, Magnitude(sum, t.more),
                             t.x, t.more, fp.mode)
     ELSE Answer(Zero(f, IF p.n = 0 /\ p.s = q.s THEN p.s
                         ELSE IF fp.mode = "minusinf" THEN 1 ELSE 0), {})
RefAdd(f, a, b, fp) ==
  LET p == ValueOf(f, a)
      q == ValueOf(f, b)
  IN CASE IsNan(f, a) \/ IsNan(f, b) -> RefNan(f, <<a, b>>, fp)
       [] ~IsNan(f, b) /\ IsInfinite(f, a) ->
            IF IsInfinite(f, b) /\ p.s # q.s THEN Invalid(f) ELSE Answer(a, {})
       [] ~IsNan(f, a) /\ ~IsInfinite(f, a) /\ IsInfinite(f, b) -> Answer(b, {})
       [] OTHER -> RefSum(f, p, q, Aligned(p, q), fp)

RefMultiply(f, a, b, fp) ==
  LET p == ValueOf(f, a)
      q == ValueOf(f, b)
      s == IF p.s = q.s THEN 0 ELSE 1
      infinite == IsInfinite(f, a) \/ IsInfinite(f, b)
  IN CASE IsNan(f, a) \/ IsNan(f, b) -> RefNan(f, <<a, b>>, fp)
       [] ~IsNan(f, a) /\ ~IsNan(f, b) /\ infinite ->
            IF 0 \in {p.n, q.n} THEN Invalid(f) ELSE Answer(InfinityOf(f, s), {})
       [] OTHER -> IF 0 \in {p.n, q.n} THEN Answer(Zero(f, s), {})
                   ELSE Rounded(f, s, p.n * q.n, p.x + q.x, FALSE, fp.mode)

\* A quotient and a root are formed with enough bits to round.  A number as
\* one of f.m + 1 bits:
Full(f, p) ==
  LET k == f.m + 1 - fls(p.n)
  IN IF p.n = 0 THEN p ELSE [p EXCEPT !.n = @ * 2 ^ k, !.x = @ - k]
RefQuotient(f, s, a, b, fp) ==
  LET k == f.m + 3
  IN Rounded(f, s, (a.n * 2 ^ k) \div b.n, a.x - b.x - k, (a.n * 2 ^ k) % b.n # 0, fp.mode)
RefDivide(f, a, b, fp) ==
  LET p == ValueOf(f, a)
      q == ValueOf(f, b)
      s == IF p.s = q.s THEN 0 ELSE 1
  IN CASE IsNan(f, a) \/ IsNan(f, b) -> RefNan(f, <<a, b>>, fp)
       [] ~IsNan(f, b) /\ IsInfinite(f, a) ->
            IF IsInfinite(f, b) THEN Invalid(f) ELSE Answer(InfinityOf(f, s), {})
       [] ~IsNan(f, a) /\ ~IsInfinite(f, a) /\ IsInfinite(f, b) -> Answer(Zero(f, s), {})
       [] OTHER ->
            IF q.n = 0 THEN IF p.n = 0 THEN Invalid(f) ELSE Answer(InfinityOf(f, s), {"DZC"})
            ELSE IF p.n = 0 THEN Answer(Zero(f, s), {})
            ELSE RefQuotient(f, s, Full(f, p), Full(f, q), fp)

IntegerRoot[n \in Nat] ==
  IF n = 0 THEN 0
  ELSE LET r == 2 * IntegerRoot[n \div 4] IN IF (r + 1) * (r + 1) <= n THEN r + 1 ELSE r
RefRootOf(f, p, k, r, wide, fp) ==
  Rounded(f, 0, r, (p.x - k) \div 2, r * r # wide, fp.mode)
RefWideRoot(f, p, k, wide, fp) == RefRootOf(f, p, k, IntegerRoot[wide], wide, fp)
RefRoot(f, a, fp) ==
  LET p == Full(f, ValueOf(f, a))
      k == f.m + 3 + ((p.x + f.m + 3) % 2)           \* makes the power even
  IN CASE IsNan(f, a) -> RefNan(f, <<a>>, fp)
       [] ~IsNan(f, a) /\ (p.n = 0 \/ a = InfinityOf(f, 0)) -> Answer(a, {})
       [] OTHER -> IF p.s = 1 THEN Invalid(f) ELSE RefWideRoot(f, p, k, p.n * 2 ^ k, fp)

RefNegate(f, v) == IF v >= Zero(f, 1) THEN v - Zero(f, 1) ELSE v + Zero(f, 1)
\* The product is rounded, and so is the sum; a negation turns a NaN as well.
RefMaybe(f, v, negated) == IF negated THEN RefNegate(f, v) ELSE v
Also(s, exc) == Answer(s.val, exc \union s.exc)
RefAddProduct(f, addend, p, fp, negate) ==
  Also(RefAdd(f, addend, RefMaybe(f, p.val, "MULTIPLY" \in negate), fp), p.exc)
RefAccumulate(f, d, n, m, fp, negate) ==
  RefAddProduct(f, RefMaybe(f, d, "SUBTRACT" \in negate), RefMultiply(f, n, m, fp), fp, negate)

RefCompare(f, a, b, loud) ==
  LET p == ValueOf(f, a)
      q == ValueOf(f, b)
      t == Aligned(p, q)
      signals == loud \/ IsSignalling(f, a) \/ IsSignalling(f, b)
  IN IF IsNan(f, a) \/ IsNan(f, b) THEN {"C", "V"} \union IF signals THEN {"IOC"} ELSE {}
     ELSE IF t.a < t.b THEN {"N"} ELSE IF t.a = t.b THEN {"Z", "C"} ELSE {"C"}

\* Between formats, and to and from integers of the width of a single.
RefConvert(f, g, a, fp) ==
  LET p == ValueOf(f, a)
      shift == g.m - f.m
      payload == IF shift >= 0 THEN MantissaBits(f, a) * 2 ^ shift
                 ELSE MantissaBits(f, a) \div 2 ^ (-shift)
      quiet == IF payload >= 2 ^ (g.m - 1) THEN payload ELSE payload + 2 ^ (g.m - 1)
  IN CASE IsNan(f, a) -> Answer(IF fp.default_nan THEN DefaultNan(g) ELSE InfinityOf(g, p.s) + quiet,
                                IF IsSignalling(f, a) THEN {"IOC"} ELSE {})
       [] IsInfinite(f, a) -> Answer(InfinityOf(g, p.s), {})
       [] OTHER -> IF p.n = 0 THEN Answer(Zero(g, p.s), {})
                   ELSE Rounded(g, p.s, p.n, p.x, FALSE, fp.mode)
RefFromInteger(f, v, signed, fp) ==
  LET n == IF signed THEN AsSignedIn(Single, v) ELSE v
  IN IF n = 0 THEN Answer(0, {})
     ELSE Rounded(f, IF n < 0 THEN 1 ELSE 0, IF n < 0 THEN -n ELSE n, 0, FALSE, fp.mode)
Word(y) == y % Top(Single)
Bounded(v, least, most, inexact) ==
  IF v < least THEN Answer(Word(least), {"IOC"})
  ELSE IF v > most THEN Answer(Word(most), {"IOC"}) ELSE Answer(Word(v), inexact)
RefWhole(s, t, least, most, mode) ==
  LET r == IF RoundsUp(mode, s, t.r % 2 = 1, t.rest) THEN t.r + 1 ELSE t.r
  IN Bounded(IF s = 1 THEN -r ELSE r, least, most, Inexact(t.rest))
RefToInteger(f, a, signed, mode) ==
  LET p == ValueOf(f, a)
      least == IF signed THEN -(MaxInt + 1) ELSE 0
      most == IF signed THEN MaxInt ELSE Top(Single) - 1
  IN CASE IsNan(f, a) -> Answer(0, {"IOC"})
       [] ~IsNan(f, a) /\ (IsInfinite(f, a) \/ p.x + fls(p.n) > Bits(Single) + 2) ->
            Answer(Word(IF p.s = 1 THEN least ELSE most), {"IOC"})
       [] OTHER -> RefWhole(p.s, Quantised(p.n, p.x, FALSE, 0), least, most, mode)

----------------------------------------------------------------------------
RefNegated(f, p) == Answer(RefNegate(f, p.val), p.exc)
RefStandard(f, op, d, n, m, fp) ==
  CASE op = "fadd" -> RefAdd(f, n, m, fp)
    [] op = "fsub" -> RefAdd(f, n, IF IsNan(f, m) THEN m ELSE RefNegate(f, m), fp)
    [] op = "fmul" -> RefMultiply(f, n, m, fp)
    [] op = "fnmul" -> RefNegated(f, RefMultiply(f, n, m, fp))
    [] op = "fdiv" -> RefDivide(f, n, m, fp)
    [] op = "fmac" -> RefAccumulate(f, d, n, m, fp, {})
    [] op = "fnmac" -> RefAccumulate(f, d, n, m, fp, {"MULTIPLY"})
    [] op = "fmsc" -> RefAccumulate(f, d, n, m, fp, {"SUBTRACT"})
    [] op = "fnmsc" -> RefAccumulate(f, d, n, m, fp, {"MULTIPLY", "SUBTRACT"})
RefExtended(f, g, op, m, fp) ==      \* to format g
  CASE op = "fcpy" -> Answer(m, {})
    [] op = "fabs" -> Answer(IF m >= Zero(f, 1) THEN m - Zero(f, 1) ELSE m, {})
    [] op = "fneg" -> Answer(RefNegate(f, m), {})
    [] op = "fsqrt" -> RefRoot(f, m, fp)
    [] op = "fcvt" -> RefConvert(f, g, m, fp)
    [] op = "fuito" -> RefFromInteger(f, m, FALSE, fp)
    [] op = "fsito" -> RefFromInteger(f, m, TRUE, fp)
    [] op = "ftoui" -> RefToInteger(f, m, FALSE, fp.mode)
    [] op = "ftouiz" -> RefToInteger(f, m, FALSE, "tozero")
    [] op = "ftosi" -> RefToInteger(f, m, TRUE, fp.mode)
    [] op = "ftosiz" -> RefToInteger(f, m, TRUE, "tozero")
----------------------------------------------------------------------------
(* Where the unit is known not to follow the architecture.                 *)
MultiplyAdds == {"fmac", "fnmac", "fmsc", "fnmsc"}
HugeProduct(f, n, m) ==        \* an unrounded exponent like that of infinity
  multiply(f, Operand(f, n), Operand(f, m), [default_nan |-> FALSE]).u.exponent
    >= MaxExponent(f)
IsDenormal(f, v) == ExponentBits(f, v) = 0 /\ MantissaBits(f, v) # 0
Deviates(f, op, d, n, m, fp) ==
  \* The product of a multiply-add is neither rounded nor kept exact, one that
  \* is too large passes for an infinity or a NaN, and an addend that is a
  \* denormal counts as half (vfpsingle.c:968-980, vfpdouble.c:1064-1072).
  \/ op \in MultiplyAdds /\ (\/ RefMultiply(f, n, m, fp).exc # {}
                             \/ IsDenormal(f, d)
                             \/ HugeProduct(f, n, m))
  \* A product is negated before it is rounded, the wrong way in two modes
  \* (vfpsingle.c:1100, vfpdouble.c:1157).
  \/ op = "fnmul" /\ fp.mode \in {"plusinf", "minusinf"} /\ RefMultiply(f, n, m, fp).exc # {}
  \* A difference turns the sign of a NaN (vfpsingle.c:1140, vfpdouble.c:1204).
  \/ op = "fsub" /\ IsNan(f, m)
  \* A signalling NaN stays one between formats, which do not know the default
  \* NaN (vfpsingle.c:561-564, vfpdouble.c:661-664).
  \/ op = "fcvt" /\ IsNan(f, m)
  \* A NaN becomes the largest integer (vfpdouble.c:721-722).
  \/ f = Double /\ op \in {"ftoui", "ftouiz"} /\ IsNan(f, m)
  \* From a half up to 1, to an integer: a single becomes 0, and a double is
  \* shifted by its width; and so are singles of the binades around the largest
  \* integer (vfpsingle.c:629-630, vfpdouble.c:733-734).
  \/ op \in ToInteger /\ ExponentBits(f, m) = Bias(f) - 1
  \/ f = Single /\ op \in ToInteger
       /\ ExponentBits(f, m) \in Bias(f) + Bits(f) - 2 .. Bias(f) + Bits(f)

\* What an instruction on one register does: a value, and flags.
Result(f, g, i, o, fp) ==
  CASE i.op \in Comparisons ->
         Answer(o.d, RefCompare(f, o.d, IF i.op \in {"fcmpz", "fcmpez"} THEN 0 ELSE o.m,
                                i.op \in {"fcmpe", "fcmpez"}))
    [] i.op \in Standard -> RefStandard(f, i.op, o.d, o.n, o.m, fp)
    [] i.op \in Extended \ Comparisons -> RefExtended(f, g, i.op, o.m, fp)
Raised(flags, exc) ==
  (IF exc \intersect Conditions # {} THEN flags \ Conditions ELSE flags) \union exc
\* The flag for the unit's own use, and the one for denormals that are flushed
\* to zero, which this unit never does; and underflow is found after rounding.
Tolerated(g, v) ==
  {VFP_NAN_FLAG, "IDC"} \union IF PackedAbs(g, v) = 2 ^ g.m THEN {"UFC"} ELSE {}

SingleBank(r) == (r \div 8) * 8
DoubleBank(r) == (r \div 4) * 4
SingleOperands(ext, i) ==
  [d |-> ext[vfp_get_s(i.vd, i.db)], n |-> ext[vfp_get_s(i.vn, i.nb)],
   m |-> ext[vfp_get_s(i.vm, i.mb)]]
DoubleOperands(ext, i) ==
  [d |-> vfp_get_double(ext, vfp_get_d(i.vd, i.db)), n |-> vfp_get_double(ext, vfp_get_d(i.vn, i.nb)),
   m |-> IF i.op \in FromInteger THEN ext[vfp_get_s(i.vm, i.mb)]
         ELSE vfp_get_double(ext, vfp_get_d(i.vm, i.mb))]
OnVectors == Standard \union {"fabs", "fneg", "fcpy", "fsqrt"}
InVectorBank(i) == IF i.cp = 10 THEN SingleBank(vfp_get_s(i.vd, i.db)) # 0
                                ELSE DoubleBank(vfp_get_d(i.vd, i.db)) # 0
IsVector(i) == i.op \in OnVectors /\ fpscr.len > 0 /\ InVectorBank(i)

\* The unit leaves what is wanted in register d of the format g.
Left(i, want, written, loose) ==
  /\ ExtReg' = written
  /\ fpscr'.flags \ loose = Raised(fpscr.flags, want.exc) \ loose
  /\ [fpscr' EXCEPT !.flags = {}] = [fpscr EXCEPT !.flags = {}]
LeftIn(i, g, toDouble, want) ==
  Left(i, want,
       CASE i.op \in Comparisons -> ExtReg
         [] i.op \notin Comparisons /\ toDouble ->
              vfp_put_double(ExtReg, want.val, vfp_get_d(i.vd, i.db))
         [] OTHER -> vfp_put_float(ExtReg, want.val, vfp_get_s(i.vd, i.db)),
       Tolerated(g, want.val))
ToDouble(i, f) ==
  (f = Single /\ i.op = "fcvt") \/ (f = Double /\ i.op \notin {"fcvt"} \union ToInteger)
AsArchitected(i, f, o) ==
  LET g == IF ToDouble(i, f) THEN Double ELSE Single
  IN ~Deviates(f, i.op, o.d, o.n, o.m, fpscr) =>
       LeftIn(i, g, ToDouble(i, f), Result(f, g, i, o, fpscr))

\* An instruction on single registers leaves in its destination the number of
\* the format that the exact result of its operands rounds to, or the NaN, the
\* infinity or the integer that the architecture gives, raises exactly the
\* exceptions of that result on top of the earlier ones, and touches no other
\* register; a comparison replaces the four conditions.
SinglesAsArchitected ==
  [][(insn'.cp = 10 /\ ~IsVector(insn')) =>
       AsArchitected(insn', Single, SingleOperands(ExtReg, insn'))]_vars

\* The same of the instructions on doubles, whose products, quotients and
\* roots are formed out of pairs of words.
DoublesAsArchitected ==
  [][(insn'.cp = 11 /\ insn'.op # "undefined" /\ ~IsVector(insn')) =>
       AsArchitected(insn', Double, DoubleOperands(ExtReg, insn'))]_vars

\* Element k of a vector that starts at register r, in a bank of size registers.
Element(r, size, k) == (r \div size) * size + ((r + k * VectorStride(fpscr)) % size)
\* A vector instruction does, for each element, what the scalar instruction
\* does with the elements of its operands, going round in their banks; an
\* operand of bank 0 stands for all the elements.  (A move is never a vector.)
VectorsGoRound ==
  [][(insn'.cp \in {10, 11} /\ insn'.op \notin {"fcpy", "undefined"} /\ IsVector(insn')) =>
       LET i == insn'
           single == i.cp = 10
           size == IF single THEN 8 ELSE 4
           f == IF single THEN Single ELSE Double
           Register(v, b) == IF single THEN vfp_get_s(v, b) ELSE vfp_get_d(v, b)
           Of(ext, r) == IF single THEN ext[r] ELSE vfp_get_double(ext, r)
           D(k) == Element(Register(i.vd, i.db), size, k)
           N(k) == Element(Register(i.vn, i.nb), size, k)
           M(k) == IF Register(i.vm, i.mb) < size THEN Register(i.vm, i.mb)
                   ELSE Element(Register(i.vm, i.mb), size, k)
           Want(k) == Result(f, f, i, [d |-> Of(ExtReg, D(k)), n |-> Of(ExtReg, N(k)),
                                       m |-> Of(ExtReg, M(k))], fpscr)
           Words(r) == IF single THEN {r} ELSE {2 * r, 2 * r + 1}
       IN /\ \A k \in 0 .. fpscr.len : Of(ExtReg', D(k)) = Want(k).val
          /\ \A w \in VfpRegisters \ UNION {Words(D(k)) : k \in 0 .. fpscr.len} :
               ExtReg'[w] = ExtReg[w]
          /\ fpscr'.flags = Raised(fpscr.flags, UNION {Want(k).exc : k \in 0 .. fpscr.len})]_vars
=============================================================================
