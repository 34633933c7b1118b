----------------------------- MODULE VertexShader ----------------------------
(****************************************************************************)
(* The vertex shader of the GPU (ProcessShaderCode and RunShader in         *)
(* src/gpu/gpu.c) as a function: the state in which a shader ends when it   *)
(* is started on the attributes of one vertex.                              *)
(*                                                                          *)
(* A float is a whole number; what the model computes with is exact in a    *)
(* float.  An instruction is a record of the fields of its word, an operand *)
(* descriptor a record of the fields of a word of swizzle_data.             *)
(*                                                                          *)
(* A shader's state s has the registers input, temporary, address, status,  *)
(* output, the uniforms bool, int and float, the program counter pc, and    *)
(* eight stacks that say which blocks are open: two for if, two for call,   *)
(* four for loop.  over says that the shader has ended, up that no NULL     *)
(* register was written.                                                    *)
(****************************************************************************)
EXTENDS Integers, Sequences, SequencesExt

CONSTANTS
    STACK_MAX,              \* the entries of a stack (64 in the program)
    Dozens,                 \* the dozens of steps after which a shader counts as endless (bound)
    Other(_, _)             \* FLR, EXP, LOG, RCP and RSQ of a number

ASSUME ShaderAssumption == STACK_MAX \in Nat \ {0} /\ Dozens \in Nat

Comp == 0 .. 3
Vector(x, y, z, w) == [i \in Comp |-> <<x, y, z, w>>[i + 1]]
Byte(n) == n % 256

\* What n steps make of x; a step is told the how manyth it is.
Repeated(Op(_, _), x, n) ==
    LET After[k \in 0 .. n] == IF k = 0 THEN x ELSE Op(After[k - 1], k)
    IN  After[n]

-----------------------------------------------------------------------------
(* The stacks.  A push on a full stack is dropped.                           *)

Stack_Empty(S) == S = <<>>
Stack_Top(S) == IF Stack_Empty(S) THEN -1 ELSE Last(S)
Stack_Push(S, d) == IF Len(S) < STACK_MAX THEN Append(S, d) ELSE S
Stack_Pop(S) == IF Stack_Empty(S) THEN S ELSE Front(S)
Stack_Top_DEC(S) == [S EXCEPT ![Len(S)] = @ - 1]

\* A block ends where its number of instructions says, and the shader goes on
\* at back, or for a loop's further rounds there.
ifcall(s, offset, num, back) ==
    [s EXCEPT !.pc = offset,
              !.if_stack = Stack_Push(@, offset + num),
              !.if_end_stack = Stack_Push(@, back)]

call(s, offset, num, back) ==
    [s EXCEPT !.pc = offset,
              !.call_stack = Stack_Push(@, offset + num),
              !.call_end_stack = Stack_Push(@, back)]

loop(s, offset, num, back, reg, rounds) ==
    [s EXCEPT !.loop_numb_stack = Stack_Push(@, rounds),
              !.loop_stack = Stack_Push(@, offset + num),
              !.loop_int_stack = Stack_Push(@, reg),
              !.loop_end_stack = Stack_Push(@, back)]

\* The innermost block of a kind ends at the program counter.
Ends(s, stack) == ~Stack_Empty(stack) /\ Stack_Top(stack) = s.pc

LeaveIf(s) ==
    [s EXCEPT !.pc = Stack_Top(s.if_end_stack),
              !.if_stack = Stack_Pop(@), !.if_end_stack = Stack_Pop(@)]

LeaveCall(s) ==
    [s EXCEPT !.pc = Stack_Top(s.call_end_stack),
              !.call_stack = Stack_Pop(@), !.call_end_stack = Stack_Pop(@)]

\* Mutant (ShadersRunAsWritten): the rounds are counted down before they are looked at.
NextRoundCountedDown(s) ==
    LET counted == [s EXCEPT !.address[2] = Byte(@ + s.int[Stack_Top(s.loop_int_stack)][2])]
    IN  IF Stack_Top(s.loop_numb_stack) - 1 # 0
           THEN [counted EXCEPT !.pc = Stack_Top(s.loop_end_stack),
                                !.loop_numb_stack = Stack_Top_DEC(@)]
           ELSE [counted EXCEPT !.loop_stack = Stack_Pop(@), !.loop_int_stack = Stack_Pop(@),
                                !.loop_end_stack = Stack_Pop(@), !.loop_numb_stack = Stack_Pop(@)]
\* The loop counter is counted on when the last round is over, too.
NextRound(s) ==
    LET counted == [s EXCEPT !.address[2] = Byte(@ + s.int[Stack_Top(s.loop_int_stack)][2])]
    IN  IF Stack_Top(s.loop_numb_stack) # 0
           THEN [counted EXCEPT !.pc = Stack_Top(s.loop_end_stack),
                                !.loop_numb_stack = Stack_Top_DEC(@)]
           ELSE [counted EXCEPT !.loop_stack = Stack_Pop(@), !.loop_int_stack = Stack_Pop(@),
                                !.loop_end_stack = Stack_Pop(@), !.loop_numb_stack = Stack_Pop(@)]

-----------------------------------------------------------------------------
(* Operands. *)

\* The value behind an operand's number.  No shader examined leads behind the
\* uniforms, with an address register, or with a second operand behind the
\* temporary registers, or reads an input that no attribute is mapped to: the
\* code reads whatever lies there.
Register(s, n) ==
    CASE n < 16 -> s.input[n]
      [] n \in 16 .. 31 -> s.temporary[n]
      [] n \in 32 .. 127 -> s.float[n - 32]

Relative(s, operand, idx) == operand + IF idx = 0 THEN 0 ELSE s.address[idx - 1]

Swizzled(v, sel, negate) == [i \in Comp |-> IF negate THEN -v[sel[i + 1]] ELSE v[sel[i + 1]]]

\* The components w get into register dest.  An output register is where its
\* first component's semantic leads, and the others follow from there.  No shader
\* examined writes output 7, which leads anywhere.
Set(s, dest, w) ==
    CASE dest < 7 -> [s EXCEPT !.output = [k \in DOMAIN @ |->
                          IF k - s.map[dest] \in DOMAIN w THEN w[k - s.map[dest]] ELSE @[k]]]
      [] dest \in 8 .. 15 -> [s EXCEPT !.up = @ /\ DOMAIN w = {}]
      [] dest \in 16 .. 31 -> [s EXCEPT !.temporary[dest] = [i \in Comp |->
                          IF i \in DOMAIN w THEN w[i] ELSE @[i]]]

-----------------------------------------------------------------------------
(* Instructions. *)

Max2(x, y) == IF x > y THEN x ELSE y
Min2(x, y) == IF x < y THEN x ELSE y

\* Component i of the result on the operands a and b.
Result(op, a, b, i) ==
    CASE op = "ADD" -> a[i] + b[i]
      [] op = "MUL" -> a[i] * b[i]
      [] op = "MAX" -> Max2(a[i], b[i])
      [] op = "MIN" -> Min2(a[i], b[i])
      [] op = "MOV" -> a[i]
      [] op = "DP3" -> a[0] * b[0] + a[1] * b[1] + a[2] * b[2]
      [] op = "DP4" -> a[0] * b[0] + a[1] * b[1] + a[2] * b[2] + a[3] * b[3]
      [] op = "DST" -> CASE i = 0 -> 1 [] i = 1 -> a[1] * b[1] [] i = 2 -> a[2] [] i = 3 -> b[3]
      [] op \in {"FLR", "RCP", "RSQ"} -> Other(op, a[i])
      [] op \in {"EXP", "LOG"} -> Other(op, a[0])

Arithmetic == {"ADD", "MUL", "MAX", "MIN", "MOV", "DP3", "DP4", "DST",
               "FLR", "RCP", "RSQ", "EXP", "LOG"}

\* DP3 leaves the fourth component alone.
Written(op, mask) == IF op = "DP3" THEN mask \ {3} ELSE mask

\* A multiply-add never writes the fourth component, and the bit that negates
\* its third operand is one of the bits that select that operand's fourth.  Its
\* address register is looked for where the other instructions have it: in the
\* word of a multiply-add two bits of the first operand's number are there.
MultiplyAdd(s, instr, d) ==
    LET idx == (instr.src1 \div 4) % 4
        a == Swizzled(Register(s, Relative(s, instr.src1, idx)), d.sel1, d.neg1)
        b == Swizzled(Register(s, instr.src2), d.sel2, d.neg2)
        c == Swizzled(Register(s, instr.src3), d.sel3, d.sel3[4] % 2 = 1)
    IN  Set(s, instr.dest, [i \in d.mask \ {3} |-> c[i] + a[i] * b[i]])

ShaderCMP(a, b, mode) ==
    CASE mode = 0 -> a = b
      [] mode = 1 -> a # b
      [] mode = 2 -> a < b
      [] mode = 3 -> a <= b
      [] mode = 4 -> a > b
      [] mode = 5 -> a >= b
      [] OTHER -> FALSE

\* The condition of CALLC, IFC and JPC.
Condition(s, instr) ==
    LET x == instr.status[1] = s.status[0]
        y == instr.status[2] = s.status[1]
    IN  CASE instr.mode = 0 -> x \/ y
          [] instr.mode = 1 -> x /\ y
          [] instr.mode = 2 -> x
          [] instr.mode = 3 -> y

\* The blocks of CALL, CALLC and CALLB, of IFB and IFC, and the jumps.  What is
\* done when an if holds is counted as one instruction longer than it is.
CallBlock(s, instr) == call(s, instr.addr, instr.num, s.pc + 1)
IfBlock(s, instr) ==
    ifcall(s, s.pc + 1, instr.addr - s.pc, instr.addr + instr.num)
Jump(s, instr) == [s EXCEPT !.pc = instr.addr]

Skip(s) == [s EXCEPT !.pc = @ + 1]

\* The number of the operand descriptor: in the word of a multiply-add its bits
\* are those of the destination and the lowest of the third operand's number.
operand_desc_id(instr) == IF instr.op = "MAD" THEN instr.dest + 32 * (instr.src3 % 2) ELSE instr.desc

\* One instruction.  DPH, LITP, SGE, SLT, BREAKC and what has no name do nothing.
Execute(s, instr, d) ==
    LET a == Swizzled(Register(s, Relative(s, instr.src1, instr.idx)), d.sel1, d.neg1)
        b == Swizzled(Register(s, instr.src2), d.sel2, d.neg2)
        Taken(holds, then, else) == IF holds THEN then ELSE else
    IN  CASE instr.op \in Arithmetic ->
               Skip(Set(s, instr.dest, [i \in Written(instr.op, d.mask) |-> Result(instr.op, a, b, i)]))
          [] instr.op = "MAD" -> Skip(MultiplyAdd(s, instr, d))
          [] instr.op = "MOVA" ->
               Skip([s EXCEPT !.address = [i \in 0 .. 2 |->
                        IF i \in d.mask \cap {0, 1} THEN Byte(a[i]) ELSE @[i]]])
          [] instr.op = "CMP" ->
               Skip([s EXCEPT !.status = [i \in 0 .. 1 |-> ShaderCMP(a[i], b[i], instr.modes[i + 1])]])
          [] instr.op = "CALL" -> CallBlock(s, instr)
          [] instr.op = "CALLC" -> Taken(Condition(s, instr), CallBlock(s, instr), Skip(s))
          [] instr.op = "CALLB" -> Taken(s.bool[instr.bool], CallBlock(s, instr), Skip(s))
          [] instr.op = "IFB" -> Taken(s.bool[instr.bool], IfBlock(s, instr), Jump(s, instr))
          [] instr.op = "IFC" -> Taken(Condition(s, instr), IfBlock(s, instr), Jump(s, instr))
          [] instr.op = "JPB" -> Taken(s.bool[instr.bool] # (instr.num = 1), Jump(s, instr), Skip(s))
          [] instr.op = "JPC" -> Taken(Condition(s, instr), Jump(s, instr), Skip(s))
          [] instr.op = "LOOP" ->
               loop([Skip(s) EXCEPT !.address[2] = s.int[instr.id][1]],
                    instr.addr, instr.num + 1, s.pc + 1, instr.id, s.int[instr.id][0])
          [] instr.op = "FLS" -> [s EXCEPT !.over = TRUE]
          [] OTHER -> Skip(s)

-----------------------------------------------------------------------------
(* A shader's run.  Whether a block ends here is asked of the ifs first, then *)
(* of the calls, then of the loops, whichever of them was opened last.        *)

Step(s, code, swizzle) ==
    CASE Ends(s, s.if_stack) -> LeaveIf(s)
      [] ~Ends(s, s.if_stack) /\ Ends(s, s.call_stack) -> LeaveCall(s)
      [] ~Ends(s, s.if_stack) /\ ~Ends(s, s.call_stack) /\ Ends(s, s.loop_stack) -> NextRound(s)
      [] OTHER -> Execute(s, code[s.pc], swizzle[operand_desc_id(code[s.pc])])

\* A shader that has ended stays as it is.
Ended(s) == s.over \/ ~s.up
StepOn(s, code, swizzle) == IF Ended(s) THEN s ELSE Step(s, code, swizzle)

\* Twelve steps at a time, which keeps TLC's recursion low.
Twelve(s, code, swizzle) ==
    IF Ended(s) THEN s ELSE Repeated(LAMBDA x, n : StepOn(x, code, swizzle), s, 12)

ProcessShaderCode(start, code, swizzle) ==
    Repeated(LAMBDA x, n : Twelve(x, code, swizzle), start, Dozens)

\* The shader is started at main on a vertex's attributes.  An output that
\* nothing was written to counts as zero; the properties look at no such one.
RunShader(attributes, main, uniforms, map, code, swizzle) ==
    ProcessShaderCode(
        [pc |-> main,
         input |-> attributes,
         temporary |-> [n \in 16 .. 31 |-> Vector(0, 0, 0, 0)],
         address |-> [i \in 0 .. 2 |-> 0], status |-> [i \in 0 .. 1 |-> FALSE],
         bool |-> uniforms.bool, int |-> uniforms.int, float |-> uniforms.float,
         map |-> map, output |-> [k \in 0 .. 7 |-> 0],
         if_stack |-> <<>>, if_end_stack |-> <<>>, call_stack |-> <<>>, call_end_stack |-> <<>>,
         loop_stack |-> <<>>, loop_end_stack |-> <<>>, loop_int_stack |-> <<>>,
         loop_numb_stack |-> <<>>, over |-> FALSE, up |-> TRUE], code, swizzle)
=============================================================================
