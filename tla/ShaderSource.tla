---------------------------- MODULE ShaderSource -----------------------------
(****************************************************************************)
(* Vertex shaders as they are written, in blocks, and what they compute.    *)
(* A shader is a sequence of nodes; it keeps one number, t, and a node      *)
(* changes it so that its final value tells which nodes were executed, how  *)
(* often and in which order.  Compiled is the code that an assembler makes  *)
(* of a shader: the meaning of the block instructions' fields is the one    *)
(* that ProcessShaderCode gives them, except where it counts wrongly.       *)
(****************************************************************************)
EXTENDS Gpu

RECURSIVE Means(_, _, _), Rounds(_, _, _, _, _), Size(_), Code(_, _, _), Depth(_), LoopIsLast(_), Separate(_)

Mark(n) == [k |-> "mark", n |-> n]                  \* t := n + 4 * t
Scale(r, n) == [k |-> "scale", r |-> r, n |-> n]    \* t := 1 + float[n + address register r] * t
Compare(m, n) == [k |-> "compare", modes |-> <<m, n>>]
Nop == [k |-> "nop"]
If(c, then, else) == [k |-> "if", c |-> c, then |-> then, else |-> else]
Call(c, body) == [k |-> "call", c |-> c, body |-> body]
Repeat(i, body) == [k |-> "loop", i |-> i, body |-> body]
Unless(c, body) == [k |-> "skip", c |-> c, body |-> body]

\* Conditions.
Always == [k |-> "always"]
Bool(n, v) == [k |-> "bool", n |-> n, v |-> v]      \* v: FALSE negates (jumps only)
Flags(mode, x, y) == [k |-> "flags", mode |-> mode, x |-> x, y |-> y]

-----------------------------------------------------------------------------
(* Meaning.  m is [t, address, x, y]: the number, the address registers and   *)
(* the two flags; u the uniforms [bool, int, float], a the attribute.         *)

Holds(c, m, u) ==
    CASE c.k = "always" -> TRUE
      [] c.k = "bool" -> u.bool[c.n] = c.v
      [] c.k = "flags" -> CASE c.mode = 0 -> m.x = c.x \/ m.y = c.y
                            [] c.mode = 1 -> m.x = c.x /\ m.y = c.y
                            [] c.mode = 2 -> m.x = c.x
                            [] c.mode = 3 -> m.y = c.y

Related(mode, p, q) ==
    CASE mode = 0 -> p = q [] mode = 1 -> p # q [] mode = 2 -> p < q
      [] mode = 3 -> p <= q [] mode = 4 -> p > q [] mode = 5 -> p >= q

\* The number t is compared with the uniform of the marks, 4.
MeansNode(n, m, u) ==
    CASE n.k = "mark" -> [m EXCEPT !.t = n.n + 4 * @]
      [] n.k = "scale" -> [m EXCEPT !.t = 1 + u.float[n.n + m.address[n.r - 1]][0] * @]
      [] n.k = "compare" -> [m EXCEPT !.x = Related(n.modes[1], 4, m.t), !.y = Related(n.modes[2], 4, 0)]
      [] n.k = "nop" -> m
      [] n.k = "if" -> Means(IF Holds(n.c, m, u) THEN n.then ELSE n.else, m, u)
      [] n.k = "call" -> IF Holds(n.c, m, u) THEN Means(n.body, m, u) ELSE m
      [] n.k = "skip" -> IF Holds(n.c, m, u) THEN m ELSE Means(n.body, m, u)
      [] n.k = "loop" -> Rounds(u.int[n.i][0] + 1, n.body, u.int[n.i][2],
                                [m EXCEPT !.address[2] = u.int[n.i][1]], u)

Means(seq, m, u) == IF seq = <<>> THEN m ELSE Means(Tail(seq), MeansNode(Head(seq), m, u), u)

Rounds(k, body, inc, m, u) ==
    IF k = 0 THEN m
    ELSE LET done == Means(body, m, u)
         IN  Rounds(k - 1, body, inc, [done EXCEPT !.address[2] = (@ + inc) % 256], u)

-----------------------------------------------------------------------------
(* Code. *)

SizeOf(n) ==
    CASE n.k = "if" -> 1 + Size(n.then) + Size(n.else)
      [] n.k \in {"loop", "skip"} -> 1 + Size(n.body)
      [] n.k \in {"scale", "mark"} -> 2
      [] OTHER -> 1
Size(seq) == IF seq = <<>> THEN 0 ELSE SizeOf(Head(seq)) + Size(Tail(seq))

\* One instruction at an address; rest fills in its operands.
At(a, instr) == {<<a, instr>>}

On(c, always, bool, flags, addr, num) ==
    CASE c.k = "always" -> [op |-> always, addr |-> addr, num |-> num, desc |-> 0]
      [] c.k = "bool" -> [op |-> bool, bool |-> c.n, addr |-> addr, num |-> num, desc |-> 0]
      [] c.k = "flags" -> [op |-> flags, mode |-> c.mode, status |-> <<c.x, c.y>>,
                           addr |-> addr, num |-> num, desc |-> 0]

\* The code of node n at address at, with procedures from address free on:
\* the instructions, and the next free address.
CodeOf(n, at, free) ==
    CASE n.k = "mark" ->
           [code |-> At(at, [op |-> "MAD", dest |-> 16 + n.n, src1 |-> 32, src2 |-> 16, src3 |-> 0])
                     \cup At(at + 1, [op |-> "MOV", dest |-> 16, src1 |-> 16 + n.n, idx |-> 0, src2 |-> 0,
                                     desc |-> 0]), free |-> free]
      [] n.k = "scale" ->
           [code |-> At(at, [op |-> "MUL", dest |-> 16, src1 |-> 32 + n.n, idx |-> n.r, src2 |-> 16,
                             desc |-> 0])
                     \cup At(at + 1, [op |-> "ADD", dest |-> 16, src1 |-> 0, idx |-> 0, src2 |-> 16,
                                     desc |-> 3]), free |-> free]
      [] n.k = "compare" ->
           [code |-> At(at, [op |-> "CMP", modes |-> n.modes, src1 |-> 32, idx |-> 0, src2 |-> 16,
                             desc |-> 1]), free |-> free]
      [] n.k = "nop" -> [code |-> At(at, [op |-> "RET", desc |-> 0]), free |-> free]
      [] n.k = "if" ->
           LET then == Code(n.then, at + 1, free)
               mid == at + 1 + Size(n.then)
               else == Code(n.else, mid, then.free)
           IN  [code |-> At(at, On(n.c, "", "IFB", "IFC", mid, Size(n.else))) \cup then.code \cup else.code,
                free |-> else.free]
      [] n.k = "call" ->
           LET body == Code(n.body, free, free + Size(n.body))
           IN  [code |-> At(at, On(n.c, "CALL", "CALLB", "CALLC", free, Size(n.body))) \cup body.code,
                free |-> body.free]
      [] n.k = "skip" ->
           LET body == Code(n.body, at + 1, free)
           IN  [code |-> At(at, On(n.c, "", "JPB", "JPC", at + 1 + Size(n.body),
                                   IF n.c.k = "bool" /\ ~n.c.v THEN 1 ELSE 0)) \cup body.code,
                free |-> body.free]
      [] n.k = "loop" ->
           LET body == Code(n.body, at + 1, free)
           IN  [code |-> At(at, [op |-> "LOOP", id |-> n.i, addr |-> at + Size(n.body), num |-> 0,
                                 desc |-> 0]) \cup body.code,
                free |-> body.free]

Code(seq, at, free) ==
    IF seq = <<>> THEN [code |-> {}, free |-> free]
    ELSE LET first == CodeOf(Head(seq), at, free)
             rest == Code(Tail(seq), at + SizeOf(Head(seq)), first.free)
         IN  [code |-> first.code \cup rest.code, free |-> rest.free]

\* A whole shader: the address registers are set, t is computed and put out.
Compiled(seq) ==
    LET end == 1 + Size(seq)
        all == Code(seq, 1, end + 2)
        code == At(0, [op |-> "MOVA", src1 |-> 0, idx |-> 0, src2 |-> 0, desc |-> 2])
                \cup all.code
                \cup At(end, [op |-> "MOV", dest |-> 0, src1 |-> 16, idx |-> 0, src2 |-> 0, desc |-> 0])
                \cup At(end + 1, [op |-> "FLS", desc |-> 0])
    IN  [k \in 1 .. all.free |->
            IF \E c \in code : c[1] = k - 1 THEN (CHOOSE c \in code : c[1] = k - 1)[2]
            ELSE [op |-> "RET", desc |-> 0]]

\* The operand descriptors it uses: 0 the first component; 1 a comparison; 2 the
\* address registers; 3 adds 1; from 17 on, where its multiply-add finds it, the
\* number of a mark from the attribute.
Descriptor(mask, sel1, sel3) ==
    [mask |-> mask, sel1 |-> sel1, neg1 |-> FALSE, sel2 |-> <<0, 1, 2, 3>>, neg2 |-> FALSE, sel3 |-> sel3]
Descriptors ==
    [k \in 1 .. 20 |->
        CASE k = 1 -> Descriptor({0}, <<0, 1, 2, 3>>, <<0, 0, 0, 0>>)
          [] k = 2 -> Descriptor({}, <<0, 0, 0, 0>>, <<0, 0, 0, 0>>)
          [] k = 3 -> Descriptor({0, 1}, <<1, 2, 0, 0>>, <<0, 0, 0, 0>>)
          [] k = 4 -> Descriptor({0}, <<1, 0, 0, 0>>, <<0, 0, 0, 0>>)
          [] k \in 5 .. 17 -> NoDescriptor
          [] k > 17 -> Descriptor({0}, <<0, 1, 2, 3>>, <<k - 17, 0, 0, 0>>)]

-----------------------------------------------------------------------------
(* How a shader is laid out. *)

Deeper(a, b) == [b EXCEPT !.ifs = IF a.ifs > @ THEN a.ifs ELSE @,
                          !.calls = IF a.calls > @ THEN a.calls ELSE @,
                          !.loops = IF a.loops > @ THEN a.loops ELSE @]
DepthOf(n) ==
    CASE n.k = "if" -> Deeper(LET d == Depth(n.then) IN [d EXCEPT !.ifs = @ + 1], Depth(n.else))
      [] n.k = "call" -> LET d == Depth(n.body) IN [d EXCEPT !.calls = @ + 1]
      [] n.k = "loop" -> LET d == Depth(n.body) IN [d EXCEPT !.loops = @ + 1]
      [] n.k = "skip" -> Depth(n.body)
      [] OTHER -> [ifs |-> 0, calls |-> 0, loops |-> 0]

\* How many ifs, calls and loops are open at once.
Depth(seq) ==
    IF seq = <<>> THEN [ifs |-> 0, calls |-> 0, loops |-> 0]
    ELSE Deeper(DepthOf(Head(seq)), Depth(Tail(seq)))

\* The last instruction of seq is the last of a loop.
LoopIsLast(seq) ==
    /\ seq # <<>>
    /\ LET n == Last(seq)
       IN  CASE n.k = "loop" -> TRUE
             [] n.k = "if" -> LoopIsLast(IF n.else = <<>> THEN n.then ELSE n.else)
             [] n.k = "skip" -> LoopIsLast(n.body)
             [] OTHER -> FALSE

\* Every if has an else that begins with an instruction without effect, and no
\* procedure ends where a loop in it ends.
Separate(seq) ==
    \A i \in DOMAIN seq :
        LET n == seq[i]
        IN  CASE n.k = "if" -> /\ n.else # <<>> /\ Head(n.else) = Nop
                               /\ Separate(n.then) /\ Separate(n.else)
              [] n.k = "call" -> Separate(n.body) /\ ~LoopIsLast(n.body)
              [] n.k \in {"loop", "skip"} -> Separate(n.body)
              [] OTHER -> TRUE

-----------------------------------------------------------------------------
(* What a shader promises. *)

Started == [t |-> 0, address |-> [i \in 0 .. 2 |-> <<1, 2, 0>>[i + 1]], x |-> FALSE, y |-> FALSE]

\* The last vertex that was shaded came out as the shader's source says: for a
\* shader in blocks whose ifs, calls and loops nest no deeper than their stacks
\* and that is laid out so that the counting of blocks does not show, its number;
\* otherwise the product of the matrix in the uniforms and the position that the
\* guest stored.  ProcessShaderCode's three checks for the ends of blocks, its
\* stacks and jumps, and the way of attributes and uniforms to it.
ShadersRunAsWritten ==
    \A v \in gpu.last :
        IF scene.source = <<>>
           THEN /\ v.ended
                /\ \A i \in Comp : v.out[i] = scene.float[i][0] * scene.vertices[v.of][scene.position][0]
                                            + scene.float[i][1] * scene.vertices[v.of][scene.position][1]
                                            + scene.float[i][2] * scene.vertices[v.of][scene.position][2]
                                            + scene.float[i][3] * scene.vertices[v.of][scene.position][3]
           ELSE LET depth == Depth(scene.source)
                IN  (/\ Separate(scene.source)
                     /\ \A kind \in DOMAIN depth : depth[kind] <= STACK_MAX) =>
                        v.ended /\ v.out[0] = Means(scene.source, Started,
                                    [bool |-> scene.bool, int |-> scene.int, float |-> scene.float]).t
=============================================================================
