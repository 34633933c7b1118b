-------------------------------- MODULE MCGpu --------------------------------
(****************************************************************************)
(* Scenes for the GPU: shaders in blocks, each run on one vertex; strips    *)
(* and fans of two triangles in many positions; and a few vertices drawn in *)
(* all topologies, in pieces.  Some of them upload their shader and their   *)
(* uniforms in pieces first.                                                *)
(****************************************************************************)
EXTENDS ShaderSource

Word4(a, b, c, d) == [i \in 0 .. 3 |-> <<a, b, c, d>>[i + 1]]
Nibbles(lo, hi) == lo + 16 * hi

MCOther(op, x) == x

-----------------------------------------------------------------------------
(* Layouts of vertices.  One attribute of four floats; or a position of four   *)
(* bytes after two shorts of something else, and a third attribute elsewhere.  *)

Base == 16
Floats == <<<<VertexAttributeConfig, Word4(2, 0, 0, 0)>>,
            <<VertexAttributeConfig + 1, Word4(15, 0, 0, 0)>>,
            <<VertexAttributeConfig + 2, Word4(0, 0, 0, 0)>>,
            <<VertexAttributeConfig + 3, Word4(32, 0, 0, 0)>>,
            <<VertexAttributeConfig + 5, Word4(0, 0, 16, 16)>>>>
FloatsMem(vertices) ==
    [address \in {Base + 32 + 16 * v + 4 * i : v \in DOMAIN vertices, i \in Comp} |->
        vertices[(address - Base - 32) \div 16][0][((address - Base - 32) \div 4) % 4]]

Mixed == <<<<VertexAttributeConfig, Word4(2, 0, 0, 0)>>,
           <<VertexAttributeConfig + 1, Word4(Nibbles(6, 12), 3, 0, 0)>>,
           <<VertexAttributeConfig + 2, Word4(0, 0, 0, 32)>>,
           <<VertexAttributeConfig + 6, Word4(100, 0, 0, 0)>>,
           <<VertexAttributeConfig + 7, Word4(2, 0, 0, 0)>>,
           <<VertexAttributeConfig + 8, Word4(0, 0, 4, 16)>>,
           <<VertexAttributeConfig + 9, Word4(8, 0, 0, 0)>>,
           <<VertexAttributeConfig + 10, Word4(Nibbles(0, 1), 0, 0, 0)>>,
           <<VertexAttributeConfig + 11, Word4(0, 0, 8, 32)>>,
           <<VSInputRegisterMap, Word4(Nibbles(3, 5), 1, 0, 0)>>>>
Lists == Word4(200, 0, 0, 128)      \* 16-bit numbers, at 216
Bytes == Word4(240, 0, 0, 0)        \* 8-bit numbers, at 256
ListIn16 == <<2, 1, 3>>
ListIn8 == <<0, 4>>
MixedMem(vertices) ==
    LET at(v) == Base + 8 + 8 * v
        element == [address \in UNION {at(v) + 4 .. at(v) + 7 : v \in DOMAIN vertices} |->
                        vertices[(address - Base - 8) \div 8][1][(address - Base - 8) % 4] % 256]
        other == [address \in UNION {at(v) .. at(v) + 3 \cup {116 + 4 * v} : v \in DOMAIN vertices} |-> 0]
        lists == [address \in 216 .. 221 |->
                        IF address % 2 = 0 THEN ListIn16[(address - 214) \div 2] % 256
                        ELSE ListIn16[(address - 215) \div 2] \div 256]
                   @@ [address \in {256, 257} |-> ListIn8[address - 255]]
    IN  element @@ other @@ lists

-----------------------------------------------------------------------------
(* Shaders in blocks. *)

Leaves == {<<Mark(1)>>, <<Scale(3, 2), Mark(2)>>, <<Compare(2, 1)>>}
Conds == {Bool(0, TRUE), Bool(1, TRUE), Flags(0, TRUE, FALSE), Flags(1, FALSE, TRUE)}

Around(body) ==
    {If(c, body, <<Nop, Mark(2)>>) : c \in Conds} \cup {If(c, <<Mark(2)>>, <<Nop>> \o body) : c \in Conds}
      \cup {Call(c, body) : c \in {Always, Bool(1, TRUE), Flags(2, TRUE, TRUE)}}
      \cup {Repeat(i, body) : i \in {0, 1}}
      \cup {Unless(c, body) : c \in {Bool(0, TRUE), Bool(0, FALSE), Flags(3, TRUE, TRUE)}}

Starting == {<<n, Mark(3)>> : n \in UNION {Around(b) : b \in Leaves}}
Ending == {<<Mark(3), n>> : n \in UNION {Around(b) : b \in Leaves}}
One == Starting \cup Ending
Two == {<<n, Mark(3)>> : n \in UNION {Around(b) : b \in Starting}} \cup {<<n>> : n \in UNION {Around(b) : b \in Ending}}

\* Three deep, of the kinds that are kept on stacks.
Plainly(body) == {If(Bool(0, TRUE), body, <<Nop, Mark(2)>>), Call(Always, body), Repeat(1, body)}
Nested(bodies) == {<<n, Mark(2)>> : n \in UNION {Plainly(b) : b \in bodies}}
Three == Nested(Nested(Nested({<<Mark(1)>>})))
Four == Nested(Three)

Bools == [n \in 0 .. 15 |-> n = 0]
Ints == [n \in 0 .. 3 |-> [j \in 0 .. 2 |-> <<<<1, 2, 1>>, <<0, 1, 3>>, <<2, 0, 255>>, <<0, 0, 0>>>>[n + 1][j + 1]]]
Table == <<Vector(4, 0, 0, 0), Vector(2, 0, 0, 0), Vector(3, 0, 0, 0), Vector(5, 0, 0, 0),
           Vector(7, 0, 0, 0), Vector(6, 0, 0, 0), Vector(8, 0, 0, 0), Vector(9, 0, 0, 0)>>
Small == SubSeq(Table, 1, 5)

Uniform == <<<<VSBoolUniforms, Word4(1, 0, 0, 0)>>, <<VS_INTUNIFORM_I0, Word4(1, 2, 1, 0)>>,
             <<VS_INTUNIFORM_I0 + 1, Word4(0, 1, 3, 0)>>, <<VS_INTUNIFORM_I0 + 2, Word4(2, 0, 255, 0)>>>>

Once == {[indexed |-> FALSE, config |-> Word4(0, 0, 0, 0), count |-> 1]}
Tree(source, fresh) ==
    LET vertices == (0 :> (0 :> Vector(0, 1, 2, 3)))
        table == IF fresh THEN Small ELSE Table
    IN  [source |-> source, code |-> Compiled(source), swizzle |-> Descriptors,
         bool |-> Bools, int |-> Ints, float |-> [n \in 0 .. Len(table) - 1 |-> table[n + 1]],
         batches |-> <<[first |-> 0, f32 |-> TRUE, vectors |-> table]>>,
         registers |-> Floats \o Uniform, mem |-> FloatsMem(vertices),
         vertices |-> vertices, position |-> 0, draws |-> Once, topologies |-> {}, most |-> 1,
         fresh |-> fresh]

-----------------------------------------------------------------------------
(* Vertices on the screen. *)

Rows == <<Vector(0, 1, 0, 0), Vector(1, 0, 0, 0), Vector(0, 0, 1, 0), Vector(0, 0, 0, 1)>>
Product == [k \in 1 .. 5 |->
    IF k = 5 THEN [op |-> "FLS", desc |-> 0]
    ELSE [op |-> "DP4", dest |-> 0, src1 |-> 31 + k, idx |-> 0, src2 |-> 5, src3 |-> 0, desc |-> k - 1]]
ProductDescriptors == [k \in 1 .. 4 |->
    [mask |-> {k - 1}, sel1 |-> <<0, 1, 2, 3>>, neg1 |-> FALSE, sel2 |-> <<0, 1, 2, 3>>, neg2 |-> FALSE,
     sel3 |-> <<0, 1, 2, 3>>]]

Position(p) == Vector(p[1], p[2], -8, 16)
Drawing(points, topology, batches, draws, topologies, most, fresh) ==
    LET vertices == [v \in 0 .. Len(points) - 1 |-> (1 :> Position(points[v + 1]))]
    IN  [source |-> <<>>, code |-> Product, swizzle |-> ProductDescriptors,
         bool |-> Bools, int |-> Ints, float |-> [n \in 0 .. 3 |-> Rows[n + 1]], batches |-> batches,
         registers |-> Mixed \o <<<<TriangleTopology, Word4(0, topology, 0, 0)>>>>,
         mem |-> MixedMem(vertices), vertices |-> vertices, position |-> 1,
         draws |-> draws, topologies |-> topologies, most |-> most, fresh |-> fresh]

InOne == <<[first |-> 0, f32 |-> FALSE, vectors |-> Rows]>>
InTwo == <<[first |-> 2, f32 |-> TRUE, vectors |-> SubSeq(Rows, 3, 4)],
           [first |-> 0, f32 |-> FALSE, vectors |-> SubSeq(Rows, 1, 2)]>>

FourAtOnce == {[indexed |-> FALSE, config |-> Word4(0, 0, 0, 0), count |-> 4]}
Corners == {<<-12, -4>>, <<3, 11>>}
Grid == {<<-16, -16>>, <<16, -12>>, <<-4, 4>>, <<-9, 15>>, <<1, -5>>}
Quads == {Drawing(<<a, b, c, d>>, t, InOne, FourAtOnce, {}, 4, FALSE) :
            a \in Corners, b \in Grid, c \in Grid, d \in Grid, t \in {1, 2}}

Outside == {<<-24, -4>>, <<4, 28>>, <<24, 20>>, <<-20, 20>>}
Cuts == {Drawing(<<a, b, c, d>>, t, InOne, FourAtOnce, {}, 4, FALSE) :
            a \in Corners, b \in Outside, c \in {<<-4, 4>>, <<1, -5>>}, d \in Outside, t \in {1, 2}}

InPieces == {[indexed |-> FALSE, config |-> Word4(0, 0, 0, 0), count |-> 1],
             [indexed |-> TRUE, config |-> Lists, count |-> 3]}
Five == <<<<-16, -16>>, <<12, -12>>, <<-4, 4>>, <<12, 12>>, <<0, 8>>>>
Assembled == {Drawing(Five, t, InTwo, InPieces, {0, 1, 2, 3}, 6, FALSE) : t \in {0, 1, 2}}

NewShader == <<Call(Always, <<Repeat(0, <<Scale(3, 1), If(Bool(0, TRUE), <<Mark(1)>>, <<Nop>>)>>), Mark(2)>>)>>
Uploads == {Tree(NewShader, TRUE),
            Drawing(Five, 0, InTwo, {[indexed |-> TRUE, config |-> Bytes, count |-> 2]}, {}, 2, TRUE)}

MCScenes == {Tree(s, FALSE) : s \in One \cup Two \cup Three \cup Four} \cup Quads \cup Assembled \cup Uploads \cup Cuts
MCEarlier == [n |-> 0, of |-> 0, out |-> [k \in 0 .. 7 |-> <<3, -8, -8, 16, 0, 0, 0, 0>>[k + 1]], ended |-> TRUE]
MCBursts == {1, 3, 5}
=============================================================================
