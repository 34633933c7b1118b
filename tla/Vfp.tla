-------------------------------- MODULE Vfp --------------------------------
(***************************************************************************)
(* The data processing instructions of the floating point unit: the file   *)
(* of registers, the status register, and the dispatch of an instruction   *)
(* to the operations of VfpSingle and VfpDouble, over as many registers as *)
(* the vector length says.                                                 *)
(***************************************************************************)
EXTENDS VfpDouble

CONSTANTS
  Starts,             \* what registers, status and instructions a run starts from
  Builds              \* what a shift by the width of its operand may give

VARIABLES
  ExtReg,             \* the registers as singles; 2r and 2r + 1 are double r
  fpscr,              \* the fields of FPSCR
  insn,               \* the instruction executed last
  todo                \* the instructions that may come next
vars == <<ExtReg, fpscr, insn, todo>>

Conditions == {"N", "Z", "C", "V"}
Exceptions == {"IOC", "DZC", "OFC", "UFC", "IXC", "IDC", VFP_NAN_FLAG}
Modes == {"nearest", "plusinf", "minusinf", "tozero"}
VfpRegisters == 0 .. 63
VFP_REG_ZERO == 16    \* the register that a comparison with zero reads

vfp_get_s(v, bit) == 2 * v + bit
vfp_get_d(v, bit) == v + 16 * bit
vfp_get_double(ext, r) == ext[2 * r + 1] * Half64 + ext[2 * r]
vfp_put_double(ext, v, r) == [ext EXCEPT ![2 * r] = Lo(v), ![2 * r + 1] = Hi(v)]
vfp_put_float(ext, v, r) == [ext EXCEPT ![r] = v]

----------------------------------------------------------------------------
(* The tables of operations.                                               *)
Comparisons == {"fcmp", "fcmpe", "fcmpz", "fcmpez"}
ToInteger == {"ftoui", "ftouiz", "ftosi", "ftosiz"}
FromInteger == {"fuito", "fsito"}
Scalar == Comparisons \union ToInteger \union FromInteger \union {"fcvt"}
Extended == Scalar \union {"fcpy", "fabs", "fneg", "fsqrt"}
Standard == {"fmac", "fnmac", "fmsc", "fnmsc", "fmul", "fnmul", "fadd", "fsub", "fdiv"}

single_fops(op, d, n, m, fp) ==
  CASE op = "fmac" -> fmac(Single, d, n, m, fp)
    [] op = "fnmac" -> fnmac(Single, d, n, m, fp)
    [] op = "fmsc" -> fmsc(Single, d, n, m, fp)
    [] op = "fnmsc" -> fnmsc(Single, d, n, m, fp)
    [] op = "fmul" -> fmul(Single, n, m, fp)
    [] op = "fnmul" -> fnmul(Single, n, m, fp)
    [] op = "fadd" -> fadd(Single, n, m, fp)
    [] op = "fsub" -> vfp_single_fsub(n, m, fp)
    [] op = "fdiv" -> vfp_single_fdiv(n, m, fp)
single_fops_ext(op, m, fp, build, est) ==
  CASE op = "fcpy" -> fcpy(Single, m)
    [] op = "fabs" -> fabs(Single, m)
    [] op = "fneg" -> fneg(Single, m)
    [] op = "fsqrt" -> vfp_single_fsqrt(m, fp, est)
    [] op = "fcvt" -> vfp_single_fcvtd(m, fp)
    [] op = "fuito" -> fuito(Single, m, fp)
    [] op = "fsito" -> fsito(Single, m, fp)
    [] op = "ftoui" -> vfp_single_ftoui(m, fp.mode, build)
    [] op = "ftouiz" -> vfp_single_ftoui(m, "tozero", build)
    [] op = "ftosi" -> vfp_single_ftosi(m, fp.mode, build)
    [] op = "ftosiz" -> vfp_single_ftosi(m, "tozero", build)

double_fops(op, d, n, m, fp) ==
  CASE op = "fmac" -> vfp_double_fmac(d, n, m, fp)
    [] op = "fnmac" -> vfp_double_fnmac(d, n, m, fp)
    [] op = "fmsc" -> vfp_double_fmsc(d, n, m, fp)
    [] op = "fnmsc" -> vfp_double_fnmsc(d, n, m, fp)
    [] op = "fmul" -> vfp_double_fmul(n, m, fp)
    [] op = "fnmul" -> vfp_double_fnmul(n, m, fp)
    [] op = "fadd" -> vfp_double_fadd(n, m, fp)
    [] op = "fsub" -> vfp_double_fsub(n, m, fp)
    [] op = "fdiv" -> vfp_double_fdiv(n, m, fp)
double_fops_ext(op, m, fp, build, est) ==
  CASE op = "fcpy" -> vfp_double_fcpy(m)
    [] op = "fabs" -> vfp_double_fabs(m)
    [] op = "fneg" -> vfp_double_fneg(m)
    [] op = "fsqrt" -> vfp_double_fsqrt(m, fp, est)
    [] op = "fcvt" -> vfp_double_fcvts(m, fp)
    [] op = "fuito" -> vfp_double_fuito(m, fp)
    [] op = "fsito" -> vfp_double_fsito(m, fp)
    [] op = "ftoui" -> vfp_double_ftoui(m, fp.mode, build)
    [] op = "ftouiz" -> vfp_double_ftoui(m, "tozero", build)
    [] op = "ftosi" -> vfp_double_ftosi(m, fp.mode, build)
    [] op = "ftosiz" -> vfp_double_ftosi(m, "tozero", build)

----------------------------------------------------------------------------
(* One instruction, over its vectors.  Registers go round in a bank; the   *)
(* second operand stays when it is in bank 0.                              *)
VectorLength(i, fp, banked) ==
  IF i.op \in Scalar \/ ~banked THEN 0 ELSE fp.len
VectorStride(fp) == IF fp.stride = 3 THEN 2 ELSE 1
NextPastBank(bank, size, r, fp) == r + VectorStride(fp)
NextIn(bank, size, r, fp) == bank + (((r % size) + VectorStride(fp)) % size)

BankOf(r, size) == ((r \div size) % 4) * size
Counters(c, size, fp) ==        \* those of the next element
  [d |-> NextIn(BankOf(c.d, size), size, c.d, fp), n |-> NextIn(BankOf(c.n, size), size, c.n, fp),
   m |-> IF BankOf(c.m, size) = 0 THEN c.m ELSE NextIn(BankOf(c.m, size), size, c.m, fp)]

\* The step of a loop after the operation has answered r, and after a
\* comparison.
Written(c, ext, next, r) ==
  [ext |-> ext, exc |-> c.exc \union r.exc, d |-> next.d, n |-> next.n, m |-> next.m]
AfterSingle(c, i, fp, r) ==
  Written(c, IF i.op = "fcvt" THEN vfp_put_double(c.ext, r.val, c.d)
                              ELSE vfp_put_float(c.ext, r.val, c.d), Counters(c, 8, fp), r)
CompareSingle(c, i) ==
  [c EXCEPT !.exc = @ \union compare(Single, c.ext[c.d],
                                    IF i.op \in {"fcmpz", "fcmpez"} THEN 0 ELSE c.ext[c.m],
                                    i.op \in {"fcmpe", "fcmpez"})]
StepSingle(c, i, fp, build, est) ==
  IF i.op \in Comparisons THEN CompareSingle(c, i)
  ELSE AfterSingle(c, i, fp,
         IF i.op \in Standard
           THEN single_fops(i.op, c.ext[c.d], c.ext[c.n], c.ext[c.m], fp)
           ELSE single_fops_ext(i.op, c.ext[c.m], fp, build, est))

vfp_single_cpdo(ext, i, fp, build, est) ==
  LET dest == IF i.op = "fcvt" THEN vfp_get_d(i.vd, i.db) ELSE vfp_get_s(i.vd, i.db)
      Iterate[k \in 0 .. 8] ==
        IF k = 0
          THEN [ext |-> ext, exc |-> {}, d |-> dest, n |-> vfp_get_s(i.vn, i.nb),
                m |-> vfp_get_s(i.vm, i.mb)]
          ELSE StepSingle(Iterate[k - 1], i, fp, build, est)
  IN Iterate[VectorLength(i, fp, BankOf(dest, 8) # 0) + 1]

ToSingle(i) == i.op \in ToInteger \union {"fcvt"}
AfterDouble(c, i, fp, r) ==
  Written(c, IF ToSingle(i) THEN vfp_put_float(c.ext, r.val, c.d)
                            ELSE vfp_put_double(c.ext, r.val, c.d), Counters(c, 4, fp), r)
CompareDouble(c, i) ==
  [c EXCEPT !.exc = @ \union
     vfp_double_compare(vfp_get_double(c.ext, c.d),
       vfp_get_double(c.ext, IF i.op \in {"fcmpz", "fcmpez"} THEN VFP_REG_ZERO ELSE c.m),
       i.op \in {"fcmpe", "fcmpez"})]
StepDouble(c, i, fp, build, est) ==
  IF i.op \in Comparisons THEN CompareDouble(c, i)
  ELSE AfterDouble(c, i, fp,
         IF i.op \in Standard
           THEN double_fops(i.op, vfp_get_double(c.ext, c.d), vfp_get_double(c.ext, c.n),
                            vfp_get_double(c.ext, c.m), fp)
           ELSE double_fops_ext(i.op, IF i.op \in FromInteger THEN c.ext[c.m]
                                      ELSE vfp_get_double(c.ext, c.m), fp, build, est))

vfp_double_cpdo(ext, i, fp, build, est) ==
  LET dest == IF ToSingle(i) THEN vfp_get_s(i.vd, i.db) ELSE vfp_get_d(i.vd, i.db)
      source == IF i.op \in FromInteger THEN vfp_get_s(i.vm, i.mb) ELSE vfp_get_d(i.vm, i.mb)
      Iterate[k \in 0 .. 8] ==
        IF k = 0 THEN [ext |-> ext, exc |-> {}, d |-> dest, n |-> vfp_get_d(i.vn, i.nb),
                       m |-> source]
        ELSE StepDouble(Iterate[k - 1], i, fp, build, est)
  IN Iterate[VectorLength(i, fp, BankOf(dest, 4) # 0) + 1]

\* The conditions are replaced when there are new ones, exceptions add up.
vfp_raise_exceptions(fp, exc) ==
  [fp EXCEPT !.flags =
     (IF exc \intersect Conditions # {} THEN @ \ Conditions ELSE @) \union exc]

\* An operation on doubles that is in no table answers a word of ones, which
\* goes into FPSCR like a set of exceptions.  (One on singles ends the
\* process.)
AllOnes ==
  [mode |-> "tozero", default_nan |-> TRUE, len |-> 7, stride |-> 3,
   flags |-> Conditions \union Exceptions]

\* What is left open: the shifts of a conversion, the estimate of a root.
BuildsFor(i) == IF i.op \in ToInteger THEN Builds ELSE {"modulo"}
EstimatesFor(i) == IF i.op = "fsqrt" THEN 0 .. RootError ELSE {0}

Leave(c) ==
  /\ ExtReg' = c.ext
  /\ fpscr' = vfp_raise_exceptions(fpscr, c.exc)
VFPCDP(i) ==
  /\ i.op \in (Standard \union Extended) \ {"fcpy"}
  /\ \E build \in BuildsFor(i), est \in EstimatesFor(i) :
       Leave(IF i.cp = 10 THEN vfp_single_cpdo(ExtReg, i, fpscr, build, est)
                          ELSE vfp_double_cpdo(ExtReg, i, fpscr, build, est))

\* A move between registers is taken out before the tables are looked at,
\* whatever the vector length is.
VMOVR(i) ==
  /\ i.op = "fcpy"
  /\ ExtReg' = IF i.cp = 10
                 THEN vfp_put_float(ExtReg, ExtReg[vfp_get_s(i.vm, i.mb)], vfp_get_s(i.vd, i.db))
                 ELSE vfp_put_double(ExtReg, vfp_get_double(ExtReg, vfp_get_d(i.vm, i.mb)),
                                     vfp_get_d(i.vd, i.db))
  /\ UNCHANGED fpscr

Undefined(i) ==
  /\ i.op = "undefined" /\ i.cp = 11
  /\ fpscr' = AllOnes
  /\ UNCHANGED ExtReg

NoInsn == [cp |-> 0]
Init ==
  \E s \in Starts :
    /\ ExtReg = s.ExtReg
    /\ fpscr = s.fpscr
    /\ todo = s.todo
    /\ insn = NoInsn

Execute(i) == VFPCDP(i) \/ VMOVR(i) \/ Undefined(i)
Next ==
  \E i \in todo :
    /\ Execute(i)
    /\ insn' = i
    /\ todo' = {}
Spec == Init /\ [][Next]_vars
=============================================================================
