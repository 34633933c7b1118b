-------------------------------- MODULE Arm --------------------------------
(***************************************************************************)
(* The interpreter of the ARM11 (ARMul_Emulate32): the pipeline, the       *)
(* conditions, the table of opcodes, and the threads whose registers the   *)
(* emulator keeps while they do not run.                                   *)
(*                                                                         *)
(* The instructions that a program holds are given by its scene; any of    *)
(* them may come next, as if control had got there by whatever way the     *)
(* rest of the program provides.  svc_Execute, the exit to the system      *)
(* calls, is modelled elsewhere; here its calls are recorded.              *)
(***************************************************************************)
EXTENDS ArmOpcodes, ArmMedia, ArmCoproc, ArmThumb

CONSTANTS
  Scenes,       \* records: the threads' first states, arm and thumb code, and
                \* the bounds: steps executed and context switches
  Mapped        \* the mapped addresses

VARIABLES
  scene,        \* the program that runs
  first,        \* the first states of its threads
  cpu,          \* the state of the interpreter
  thread,       \* the thread that runs on it
  saved,        \* the registers of the other threads
  steps,        \* instructions executed
  switches      \* context switches made

vars == <<scene, first, cpu, thread, saved, steps, switches>>

----------------------------------------------------------------------------
(* The rest of the table of opcodes.                                       *)
SingleTransfer(s, i) ==         \* 0x40 to 0x7f
  CASE i.code \in 64 .. 79 -> PostImmediate(s, i)
    [] i.code \in 80 .. 95 -> PreImmediate(s, i)
    [] i.code \in 96 .. 127 /\ i.mid % 2 = 0 ->
         IF PreIndexed(i) THEN PreRegister(s, i) ELSE PostRegister(s, i)
    [] i.code = 104 /\ IsPKHBT(i) -> PKHBT(s, i)
    [] i.code = 104 /\ IsPKHTB(i) -> PKHTB(s, i)
    [] OTHER -> handle_v6_insn(s, i)

\* Branches count from two instructions on, in words.
BranchOffset(i) ==
  Offset(((((i.code % 16) * 16 + i.rn) * 16 + i.rd) * 16 + i.hi) * 256 + i.mid * 16 + i.rm, 24)
B_BL(s, i) ==
  Jump(IF i.code >= 176 THEN SetReg(s, 14, s.pc + 4) ELSE s, s.pc + 8 + 4 * (BranchOffset(i) % Size))

SvcNumber(i) ==
  ((((i.code % 16) * 16 + i.rn) * 16 + i.rd) * 16 + i.hi) * 256 + i.mid * 16 + i.rm
SVC(s, i) == [s EXCEPT !.calls = Append(@, SvcNumber(i))]

Table(s, i) ==
  CASE i.code < 32 -> RegisterForms(s, i)
    [] i.code \in 32 .. 47 -> ImmediateArithmetic(s, i)
    [] i.code \in 48 .. 55 -> ImmediateTests(s, i)
    [] i.code \in 56 .. 63 -> ImmediateMoves(s, i)
    [] i.code \in 64 .. 127 -> SingleTransfer(s, i)
    [] i.code \in 128 .. 159 -> Multiple(s, i)
    [] i.code \in 160 .. 191 -> B_BL(s, i)
    [] i.code \in 192 .. 223 -> CoprocessorTransfer(s, i)
    [] i.code \in 224 .. 239 -> CoprocessorRegister(s, i)
    [] i.code \in 240 .. 255 -> SVC(s, i)

\* mainswitch: the bit fields come before the table; one that is undefined goes
\* on to the table afterwards.
Aborted(i) ==
  \/ (IsUBFX(i) \/ IsSBFX(i)) /\ 15 \in {i.rd, i.rm}
  \/ IsBFI(i) /\ i.rd = 15
MainSwitch(s, i) ==
  CASE (IsUBFX(i) \/ IsSBFX(i)) /\ 15 \notin {i.rd, i.rm} /\ InWord(i) ->
         IF IsSBFX(i) THEN SBFX(s, i) ELSE UBFX(s, i)
    [] IsBFI(i) /\ i.rd # 15 /\ (i.rm = 15 \/ FieldWidth(i) >= ShiftBits(i)) -> s
    [] OTHER -> Table(IF Aborted(i) THEN ARMul_UndefInstr(s) ELSE s, i)

----------------------------------------------------------------------------
(* What has no condition: CLREX, CPS, BLX to an address, PLD; wldrw and    *)
(* wstrw go on to the table, as transfers of coprocessor 1.                *)
IsCLREX(i) == <<i.code, i.rn, i.rd, i.hi, i.mid, i.rm>> = <<87, 15, 15, 0, 1, 15>>
\* The mask leaves bit 25 free, as bits 23 and 24.
IsPLD(i) == i.code \in {69, 77, 85, 93, 101, 109, 117, 125} /\ i.rd = 15
IsWmmxTransfer(i) == i.code \in 192 .. 223 /\ (i.code \div 4) % 2 = 0 /\ i.hi = 1

\* CPS changes the mode when bit 17 says so.
CPS(s, i) ==
  LET m == (i.mid % 2) * 16 + i.rm
      set == {k \in 0 .. 4 : BitOf(m, k) + BitOf(s.CpsrMode, k) > 0}
      new == SumSet({2 ^ k : k \in set})
  IN IF BitOf(i.rn, 1) = 0 THEN s
     ELSE IF s.Mode = new THEN [s EXCEPT !.CpsrMode = new]
          ELSE [ARMul_SwitchMode(s, s.Mode, new) EXCEPT !.Mode = new, !.CpsrMode = new]

BLX1(s, i) ==
  WriteR15Branch(SetReg(s, 14, s.pc + 4),
                 Wrap(s.pc + 9 + 4 * (BranchOffset(i) % Size) + 2 * ((i.code \div 16) % 2)))

NoCondition(s, i) ==
  CASE IsCLREX(i) -> s
    [] i.code = 16 -> CPS(s, i)
    [] i.code \in 160 .. 191 -> BLX1(s, i)
    [] IsPLD(i) -> s
    [] IsWmmxTransfer(i) -> MainSwitch(s, i)
    [] OTHER -> ARMul_UndefInstr(s)

----------------------------------------------------------------------------
(* One instruction: the pipeline moves on, then the instruction that is at *)
(* the pc, of the size the T bit says, is executed.                        *)
Fetched(i) ==
  [Advance(cpu) EXCEPT !.LastInstr = cpu.CurrInstr, !.CurrInstr = i]

Run(i, next) ==
  /\ cpu' = next
  /\ steps' = steps + 1
  /\ UNCHANGED <<scene, first, thread, saved, switches>>

\* The instructions that may come next.
InArm == steps < Scenes[scene].steps /\ cpu.TFlag = 0
InThumb == steps < Scenes[scene].steps /\ cpu.TFlag = 1
ArmCode(codes) == {i \in Scenes[scene].arm : i.code \in codes /\ i.cond # 15}
ThumbCode(kind) == {t \in Scenes[scene].thumb : Kind(t) = kind}

Conditional(i) ==
  LET s == Fetched(i)
  IN Run(i, IF ConditionHolds(s, i.cond) THEN MainSwitch(s, i) ELSE s)

DataProcessing == InArm /\ \E i \in ArmCode(0 .. 63) : Conditional(i)
LoadStore == InArm /\ \E i \in ArmCode(64 .. 159) : Conditional(i)
Branching == InArm /\ \E i \in ArmCode(160 .. 191) : Conditional(i)
Coprocessor == InArm /\ \E i \in ArmCode(192 .. 239) : Conditional(i)
SupervisorCall == InArm /\ \E i \in ArmCode(240 .. 255) : Conditional(i)
Unconditional ==
  InArm /\ \E i \in {j \in Scenes[scene].arm : j.cond = 15} : Run(i, NoCondition(Fetched(i), i))

\* The fields of what was executed are kept as an instruction that holds the
\* number of the Thumb instruction too.
Number(t) == [cond |-> 17, thumb |-> t]
ThumbDecoded ==
  InThumb /\ \E t \in ThumbCode("decoded") :
               Run(Number(t), MainSwitch(Fetched(Number(t)), Decoded(t)))
\* The second half of a call comes after a first half, which leaves the address
\* of an instruction in register 14.
ThumbBranch ==
  InThumb /\ \E t \in ThumbCode("branch") :
               /\ Op(t) \in {29, 31} => cpu.Reg[14] % 2 = 0
               /\ Run(Number(t), Branch(Fetched(Number(t)), t))
ThumbUndefined ==
  InThumb /\ \E t \in ThumbCode("undefined") :
               Run(Number(t), ARMul_UndefInstr(Fetched(Number(t))))

----------------------------------------------------------------------------
(* arm11_SaveContext and arm11_LoadContext: what a thread keeps while      *)
(* others run.  The second word of a load-exclusive and the upper half of  *)
(* the floating point registers are not kept.                              *)
Kept == {"Reg", "pc", "NextInstr", "NFlag", "ZFlag", "CFlag", "VFlag", "QFlag", "GEFlag",
         "TFlag", "CpsrMode", "ExtReg", "FPSID", "FPSCR", "FPEXC", "currentexaddr",
         "currentexval"}
MutSaveContext(s) == [f \in Kept |-> IF f = "currentexval" THEN 0 ELSE s[f]]
arm11_SaveContext(s) ==
  [f \in Kept |-> IF f = "ExtReg" THEN [k \in 0 .. 31 |-> s.ExtReg[k]] ELSE s[f]]
arm11_LoadContext(s, t, context) ==
  [f \in DOMAIN s |-> CASE f = "ExtReg" -> [k \in 0 .. 63 |-> IF k < 32 THEN context.ExtReg[k] ELSE s.ExtReg[k]]
                        [] f \in Kept \ {"ExtReg"} -> context[f]
                        [] f = "servaddr" -> t
                        [] OTHER -> s[f]]

ContextSwitch ==
  /\ switches < Scenes[scene].switches
  /\ \E t \in DOMAIN saved \ {thread} :
       /\ saved' = [saved EXCEPT ![thread] = arm11_SaveContext(cpu)]
       /\ cpu' = arm11_LoadContext(cpu, t, saved[t])
       /\ thread' = t
  /\ switches' = switches + 1
  /\ UNCHANGED <<scene, first, steps>>

Init ==
  /\ scene \in DOMAIN Scenes
  /\ first \in Scenes[scene].states
  /\ thread = 1
  /\ cpu = first[1]
  /\ saved = [t \in DOMAIN first |-> arm11_SaveContext(first[t])]
  /\ steps = 0 /\ switches = 0

Next ==
  \/ DataProcessing \/ LoadStore \/ Branching \/ Coprocessor \/ SupervisorCall
  \/ Unconditional \/ ThumbDecoded \/ ThumbBranch \/ ThumbUndefined \/ ContextSwitch

Spec == Init /\ [][Next]_vars
=============================================================================
