----------------------------------- MODULE Gpu -------------------------------
(****************************************************************************)
(* The GPU from the command lists it is given to the pixels its triangles   *)
(* are drawn on: src/gpu/commands.c, and the registers, the fetching of     *)
(* vertices and the assembly of triangles of src/gpu/gpu.c.  The shader is  *)
(* in VertexShader, the triangle's way to the screen in Raster.             *)
(*                                                                          *)
(* A guest program uploads a shader, its operand descriptors and uniforms   *)
(* in commands of its own choice and then draws vertices of its memory.     *)
(* scene says what it uploads and draws; it never changes.  A word of a     *)
(* register is the function from 0 .. 3 to its bytes.  Numbers of registers *)
(* are those of inc/gpu.h.                                                  *)
(****************************************************************************)
EXTENDS VertexShader, Raster

CONSTANTS
    Scenes,         \* what guests upload and draw
    Bursts,         \* the numbers of words of data in a command (bound)
    MaxRestarts,    \* the restarts (bound)
    Earlier         \* a vertex that was drawn before the first restart

VARIABLES
    scene,          \* what this guest uploads and draws
    gpu,            \* the GPU: its registers and memories, and what it has drawn
    guest           \* how much is uploaded, and the restarts

vars == <<scene, gpu, guest>>

CULL_MODE == \h40
VSVertexAttributeOutputMap == \h50
VertexAttributeConfig == \h200
IndexArrayConfig == \h227
NumVertices == \h228
TriggerDraw == \h22E
TriggerDrawIndexed == \h22F
TriangleTopology == \h25E
VSresttriangel == \h25F
VSBoolUniforms == \h2B0
VS_INTUNIFORM_I0 == \h2B1
VSMainOffset == \h2BA
VSInputRegisterMap == \h2BB
VSFloatUniformSetup == \h2C0
VSBeginLoadProgramData == \h2CB
VSLoadProgramData == \h2CC
VSBeginLoadSwizzleData == \h2D5
VSLoadSwizzleData == \h2D6

Registers ==
    {CULL_MODE, NumVertices, IndexArrayConfig, TriangleTopology, VSresttriangel, VSMainOffset,
     VSFloatUniformSetup, VSBeginLoadProgramData, VSBeginLoadSwizzleData}
      \cup (VSVertexAttributeOutputMap .. VSVertexAttributeOutputMap + 6)
      \cup (VertexAttributeConfig .. VertexAttributeConfig + 38)
      \cup (VSBoolUniforms .. VS_INTUNIFORM_I0 + 3)
      \cup {VSInputRegisterMap, VSInputRegisterMap + 1}

Word == [0 .. 3 -> 0 .. 255]
WordOf(n) == [i \in 0 .. 3 |-> (n \div <<1, 256, 65536, 16777216>>[i + 1]) % 256]
Number(w) == w[0] + 256 * w[1] + 65536 * w[2] + 16777216 * w[3]
Nibble(w, k) == (w[k \div 2] \div (IF k % 2 = 0 THEN 1 ELSE 16)) % 16

-----------------------------------------------------------------------------
(* Vertices in memory. *)

AttributeConfig(r, n) == r[VertexAttributeConfig + n]
LoaderConfig(r, l, n) == r[VertexAttributeConfig + (l + 1) * 3 + n]

\* The four bits of attribute n in the configuration.
AttributeBits(r, n) == IF n < 8 THEN Nibble(AttributeConfig(r, 1), n) ELSE Nibble(AttributeConfig(r, 2), n - 8)

GetComponent(r, l, n) == IF n < 8 THEN Nibble(LoaderConfig(r, l, 1), n) ELSE Nibble(LoaderConfig(r, l, 2), n - 8)

\* From attribute 8 on, one too few.
GetNumElements(r, n) == AttributeBits(r, n) \div 4 + IF n < 8 THEN 1 ELSE 0

GetFormat(r, n) == AttributeBits(r, n) % 4

GetElementSizeInBytes(r, n) ==
    CASE GetFormat(r, n) = 3 -> 4 [] GetFormat(r, n) = 2 -> 2 [] OTHER -> 1

GetStride(r, n) == GetNumElements(r, n) * GetElementSizeInBytes(r, n)

\* The loaders' components that are attribute a.
Places(r, a) ==
    LET count(l) == Nibble(LoaderConfig(r, l, 2), 7)
    IN  {p \in (0 .. 11) \X (0 .. 14) : p[2] < count(p[1]) /\ GetComponent(r, p[1], p[2]) = a}

\* A loader's components lie one after the other in its part of a vertex; of two
\* places for an attribute the later one counts.
Source(r, places) ==
    LET last == CHOOSE p \in places : \A q \in places : q[1] < p[1] \/ (q[1] = p[1] /\ q[2] <= p[2])
        l == last[1]
    IN  [address |-> 8 * Number(AttributeConfig(r, 0)) + Number(LoaderConfig(r, l, 0))
                       + MapThenSumSet(LAMBDA c : GetStride(r, GetComponent(r, l, c)), 0 .. last[2] - 1),
         stride |-> (LoaderConfig(r, l, 2)[2] + 256 * LoaderConfig(r, l, 2)[3]) % 4096]

\* The memory holds bytes, and a float at the address of its first.
Halfword(mem, at) == mem[at] + 256 * mem[at + 1]
Element(mem, at, format) ==
    CASE format = 0 -> ((mem[at] + 128) % 256) - 128
      [] format = 2 -> ((Halfword(mem, at) + 32768) % 65536) - 32768
      [] format \in {1, 3} -> mem[at]

\* The attributes of a vertex; one that no loader places has no elements.  What
\* is behind an attribute's elements is not initialised, and no scene's shader
\* reads it.
NumTotalAttributes(r) == Nibble(AttributeConfig(r, 2), 7) + 1
Attributes(r, mem, vertex) ==
    [a \in 0 .. NumTotalAttributes(r) - 1 |->
        LET places == Places(r, a)
            from == Source(r, places)
        IN  [i \in 0 .. (IF places = {} THEN 0 ELSE GetNumElements(r, a)) - 1 |->
                Element(mem, from.address + from.stride * vertex + i * GetElementSizeInBytes(r, a),
                        GetFormat(r, a))]]

\* The number of the vertex with a place in the draw.
VertexNumber(r, mem, indexed, place) ==
    LET config == r[IndexArrayConfig]
        at == 8 * Number(AttributeConfig(r, 0)) + Number([config EXCEPT ![3] = @ % 128])
    IN  CASE indexed /\ config[3] >= 128 -> Halfword(mem, at + 2 * place)
          [] indexed /\ config[3] < 128 -> mem[at + place]
          [] ~indexed -> place

-----------------------------------------------------------------------------
(* The shader's inputs and outputs. *)

getattribute_register_map(reg, data1, data2) ==
    IF reg < 8 THEN Nibble(data1, reg) ELSE Nibble(data2, reg - 7)

\* The attribute that is in each input register that has one.
InputRegisters(r, attributes) ==
    LET register(a) == getattribute_register_map(a, r[VSInputRegisterMap], r[VSInputRegisterMap + 1])
    IN  [n \in {register(a) : a \in DOMAIN attributes} |->
            attributes[CHOOSE a \in DOMAIN attributes :
                          register(a) = n /\ \A b \in DOMAIN attributes : register(b) = n => b <= a]]

\* Where the outputs 0 to 6 go; register 7's place is not initialised.
OutputRegisters(r) == [n \in 0 .. 6 |-> r[VSVertexAttributeOutputMap + n][0] % 32]

Uniforms(g) ==
    [bool |-> [n \in 0 .. 15 |-> (g.regs[VSBoolUniforms][n \div 8] \div 2 ^ (n % 8)) % 2 = 1],
     int |-> [n \in 0 .. 3 |-> [j \in 0 .. 2 |-> g.regs[VS_INTUNIFORM_I0 + n][j]]],
     float |-> g.float]

\* A shaded vertex: the how manyth it is, and its outputs.
Shaded(g, mem, vertex) ==
    LET s == RunShader(InputRegisters(g.regs, Attributes(g.regs, mem, vertex)),
                       g.regs[VSMainOffset][0] + 256 * g.regs[VSMainOffset][1],
                       Uniforms(g), OutputRegisters(g.regs), g.code, g.swizzle)
    IN  [n |-> g.fed + 1, of |-> vertex, out |-> s.output, ended |-> s.over /\ s.up]

-----------------------------------------------------------------------------
(* Triangles. *)

\* The frame after triangle n was drawn on some pixels.
Blended(frame, n, pixels) ==
    [p \in DOMAIN frame |-> IF p \in pixels THEN Append(frame[p], n) ELSE frame[p]]

\* What the clipper leaves of a triangle is drawn, each part in both orders.
Clipper_ProcessTriangle(g, v0, v1, v2) ==
    LET n == Len(g.sent) + 1
        cull == g.regs[CULL_MODE][0] % 4
        parts == IF PointIsOnLine(v0.out, v1.out, v2.out) THEN <<>>
                 ELSE Fan(Cut(<<Whole(v0.out), Whole(v1.out), Whole(v2.out)>>))
        DrawnTwice(frame, part) ==
            LET at == <<InitScreenCoordinates(part[1]), InitScreenCoordinates(part[2]),
                        InitScreenCoordinates(part[3])>>
            IN  Blended(Blended(frame, n, Covered(at, cull)), n, Covered(Reverse(at), cull))
    IN  [g EXCEPT !.sent = Append(@, <<v0, v1, v2>>), !.frame = FoldLeft(DrawnTwice, @, parts)]

\* A strip and a fan keep the vertex after the triangle that it completes.
Kept(g, vtx, topology) ==
    [g EXCEPT !.buffer[g.buffer_index] = vtx,
              !.strip_ready = @ \/ topology = 2 \/ g.buffer_index = 1,
              !.buffer_index = IF topology = 1 /\ @ # 0 THEN 0 ELSE 1]

PrimitiveAssembly_SubmitVertex(g, vtx) ==
    LET topology == g.regs[TriangleTopology][1] % 4
        list == topology \in {0, 3}
        Triangle(h) == Clipper_ProcessTriangle(h, g.buffer[0], g.buffer[1], vtx)
    IN  CASE list /\ g.buffer_index < 2 -> [g EXCEPT !.buffer[g.buffer_index] = vtx, !.buffer_index = @ + 1]
          [] list /\ g.buffer_index >= 2 -> Triangle([g EXCEPT !.buffer_index = 0])
          [] ~list -> Kept(IF g.strip_ready THEN Triangle(g) ELSE g, vtx, topology)

\* Drawing, one vertex after the other.
DrawVertex(g, mem, indexed, place) ==
    LET vtx == Shaded(g, mem, VertexNumber(g.regs, mem, indexed, place))
    IN  PrimitiveAssembly_SubmitVertex([g EXCEPT !.fed = @ + 1, !.last = {vtx}], vtx)

DrawVertices(g, mem, indexed) ==
    Repeated(LAMBDA x, k : DrawVertex(x, mem, indexed, k - 1), g, Number(g.regs[NumVertices]))

-----------------------------------------------------------------------------
(* Commands. *)

updateGPUintreg(g, data, ID, mask) ==
    IF ID \in Registers
       THEN [g EXCEPT !.regs[ID] = [i \in 0 .. 3 |-> IF i \in mask THEN data[i] ELSE @[i]]]
       ELSE g

\* words go to the cells of a memory that a register counts, from the one it names.
Loaded(memory, words, first) ==
    [a \in DOMAIN memory |-> IF a - first \in 0 .. Len(words) - 1 THEN words[a - first + 1] ELSE memory[a]]

LoadProgramData(g, words) ==
    LET first == Number(g.regs[VSBeginLoadProgramData])
    IN  [g EXCEPT !.code = Loaded(@, words, first),
                  !.regs[VSBeginLoadProgramData] = WordOf(first + Len(words))]

LoadSwizzleData(g, words) ==
    LET first == Number(g.regs[VSBeginLoadSwizzleData])
    IN  [g EXCEPT !.swizzle = Loaded(@, words, first),
                  !.regs[VSBeginLoadSwizzleData] = WordOf(first + Len(words))]

\* A float is sent in three or four bytes; other bytes than those of one float
\* are a number that no scene sends.
FloatBytes(x, width) == [i \in 0 .. width - 1 |-> [of |-> x, width |-> width, byte |-> i]]
Garbled == -1
FloatOf(bytes, width) == IF bytes = FloatBytes(bytes[0].of, width) THEN bytes[0].of ELSE Garbled

\* A vector comes in four words of a float each, or in three that hold 24 bits
\* for each component.  Either way its bytes are those of one number, of which
\* the last word is the lowest and the first component the lowest part.
Decoded(words) ==
    LET width == Len(words)
        byte(n) == words[width - n \div 4][n % 4]
    IN  [c \in Comp |-> FloatOf([i \in 0 .. width - 1 |-> byte(width * c + i)], width)]

\* The words are gathered over as many commands as it takes; a guest changes
\* their number between two vectors (bound).  A vector from 96 on is refused.
VectorWords(g) == IF g.regs[VSFloatUniformSetup][3] >= 128 THEN 4 ELSE 3
Completes(g, word) == Len(Append(g.tembuffer, word)) = VectorWords(g)
Refused(g, word) == Completes(g, word) /\ g.regs[VSFloatUniformSetup][0] % 128 > 95

FloatUniformWord(g, word) ==
    LET gathered == Append(g.tembuffer, word)
    IN  CASE ~Completes(g, word) -> [g EXCEPT !.tembuffer = gathered]
          [] Refused(g, word) -> [g EXCEPT !.tembuffer = <<>>]
          [] Completes(g, word) /\ ~Refused(g, word) ->
                [g EXCEPT !.tembuffer = <<>>,
                          !.float[g.regs[VSFloatUniformSetup][0] % 128] = Decoded(gathered),
                          !.regs[VSFloatUniformSetup][0] = @ + 1]

\* One word of a command: behind a vector that was refused its words are dropped.
NextWord(s, word) ==
    IF s.on THEN [gpu |-> FloatUniformWord(s.gpu, word), on |-> ~Refused(s.gpu, word)] ELSE s

\* Mutant (UniformsArrive): every command begins a new vector.
FloatUniformsFresh(g, words) ==
    Repeated(LAMBDA s, k : NextWord(s, words[k]), [gpu |-> [g EXCEPT !.tembuffer = <<>>], on |-> TRUE],
             Len(words)).gpu
FloatUniforms(g, words) ==
    Repeated(LAMBDA s, k : NextWord(s, words[k]), [gpu |-> g, on |-> TRUE], Len(words)).gpu

\* Mutant (TrianglesAsSubmitted): the place for the next vertex is kept.
RestartKeepsIndex(g, words, mask) ==
    updateGPUintreg(IF words[1][0] % 2 = 1
                       THEN [g EXCEPT !.strip_ready = FALSE, !.from = [fed |-> g.fed, sent |-> Len(g.sent)]]
                       ELSE g,
                    words[1], VSresttriangel, mask)
\* Bit 0 restarts, whatever the mask says.
RestartTriangle(g, words, mask) ==
    updateGPUintreg(IF words[1][0] % 2 = 1
                       THEN [g EXCEPT !.buffer_index = 0, !.strip_ready = FALSE,
                                      !.from = [fed |-> g.fed, sent |-> Len(g.sent)]]
                       ELSE g,
                    words[1], VSresttriangel, mask)

\* A register that is no port keeps the first word of several.  TRIGGER_IRQ is
\* in GspQueue.
writeGPUID(g, mem, ID, mask, words) ==
    CASE ID \in {TriggerDraw, TriggerDrawIndexed} -> DrawVertices(g, mem, ID = TriggerDrawIndexed)
      [] ID \in VSLoadProgramData .. VSLoadProgramData + 7 -> LoadProgramData(g, words)
      [] ID \in VSLoadSwizzleData .. VSLoadSwizzleData + 7 -> LoadSwizzleData(g, words)
      [] ID = VSresttriangel -> RestartTriangle(g, words, mask)
      [] ID = VSFloatUniformSetup ->
            FloatUniforms(updateGPUintreg(g, words[1], ID, mask), Tail(words))
      [] ID \in VSFloatUniformSetup + 1 .. VSFloatUniformSetup + 8 -> FloatUniforms(g, words)
      [] OTHER -> updateGPUintreg(g, words[1], ID, mask)

\* A command writes its words to one register, or to as many as it has words.
Command(ID, mask, words, grouping) == [ID |-> ID, mask |-> mask, words |-> words, grouping |-> grouping]
EachToItsOwn(g, mem, c) ==
    Repeated(LAMBDA x, j : writeGPUID(x, mem, c.ID + j - 1, c.mask, <<c.words[j]>>), g, Len(c.words))
Executed(g, mem, c) ==
    CASE c.mask = {} -> g
      [] c.mask # {} /\ c.grouping -> EachToItsOwn(g, mem, c)
      [] c.mask # {} /\ ~c.grouping -> writeGPUID(g, mem, c.ID, c.mask, c.words)

gpu_ExecuteCommands(g, mem, commands) ==
    Repeated(LAMBDA x, k : Executed(x, mem, commands[k]), g, Len(commands))

-----------------------------------------------------------------------------
(* What a guest sends.  A scene has                                           *)
(*   source: the shader as it is written, or <<>> for the matrix product      *)
(*   code, swizzle: its words           batches: the uniforms, each batch of   *)
(*   bool, int, float: the uniforms it   [first, f32, vectors]                *)
(*     means                                                                  *)
(*   registers: sequence of <<ID, word>>, set before anything else             *)
(*   mem: its memory                    vertices: the attributes in it         *)
(*   draws: what it may draw at once, each [indexed, config, count]           *)
(*   position: the attribute the shader reads                                 *)
(*   topologies: those it changes to    most: the vertices after a restart     *)
(*   fresh: whether the guest has still to upload it                           *)

ASSUME SceneAssumption ==
    /\ Bursts \subseteq Nat \ {0}
    /\ \A sc \in Scenes :
        /\ sc.code \in Seq(Range(sc.code)) /\ sc.swizzle \in Seq(Range(sc.swizzle))
        /\ sc.registers \in Seq(Registers \X Word)
        /\ sc.topologies \subseteq 0 .. 3
        /\ \A d \in sc.draws : d.indexed \in BOOLEAN /\ d.count \in Nat /\ d.config \in Word
        /\ sc.batches \in Seq(Range(sc.batches))
        /\ \A b \in Range(sc.batches) :
            /\ b.first \in Nat /\ b.f32 \in BOOLEAN /\ b.vectors \in Seq([Comp -> Int])
            /\ b.first + Len(b.vectors) <= 96
        /\ \A i, j \in DOMAIN sc.batches :
            LET b == sc.batches[i]
                c == sc.batches[j]
            IN  i < j => b.first + Len(b.vectors) <= c.first \/ c.first + Len(c.vectors) <= b.first

All == {0, 1, 2, 3}
Write(ID, word) == Command(ID, All, <<word>>, FALSE)

\* Word p of a vector's words.
UniformWord(v, width, p) ==
    [i \in 0 .. 3 |-> LET n == 4 * (width - p) + i
                      IN  FloatBytes(v[n \div width], width)[n % width]]

\* The words of the uniforms, with the configuration before each batch.
Items(batch) ==
    LET width == IF batch.f32 THEN 4 ELSE 3
    IN  <<[batch |-> batch]>> \o
        FlattenSeq([k \in DOMAIN batch.vectors |->
            [p \in 1 .. width |-> [word |-> UniformWord(batch.vectors[k], width, p)]]])
Stream(batches) == FlattenSeq([b \in DOMAIN batches |-> Items(batches[b])])

IsSetup(item) == "batch" \in DOMAIN item
SetupWord(batch) == [i \in 0 .. 3 |-> CASE i = 0 -> batch.first
                                        [] i = 3 -> IF batch.f32 THEN 128 ELSE 0
                                        [] OTHER -> 0]

\* The commands that send the next n items, a configuration only as the first.
UniformCommand(stream, sent, n, grouping) ==
    Command(IF IsSetup(stream[sent + 1]) THEN VSFloatUniformSetup ELSE VSFloatUniformSetup + 1, All,
            [k \in 1 .. n |-> IF IsSetup(stream[sent + k]) THEN SetupWord(stream[sent + k].batch)
                              ELSE stream[sent + k].word],
            grouping)

ProgramCommands(words, sent, n, grouping) ==
    (IF sent = 0 THEN <<Write(VSBeginLoadProgramData, WordOf(0))>> ELSE <<>>)
        \o <<Command(VSLoadProgramData, All, SubSeq(words, sent + 1, sent + n), grouping)>>

SwizzleCommands(words, sent, n, grouping) ==
    (IF sent = 0 THEN <<Write(VSBeginLoadSwizzleData, WordOf(0))>> ELSE <<>>)
        \o <<Command(VSLoadSwizzleData, All, SubSeq(words, sent + 1, sent + n), grouping)>>

RegisterCommands(sc) == [k \in DOMAIN sc.registers |-> Write(sc.registers[k][1], sc.registers[k][2])]

AllUniforms(sc) ==
    [b \in DOMAIN sc.batches |->
        UniformCommand(Items(sc.batches[b]), 0, Len(Items(sc.batches[b])), FALSE)]

\* Words of zeros: an instruction, and an operand descriptor.
NoInstruction == [op |-> "ADD", dest |-> 0, src1 |-> 0, idx |-> 0, src2 |-> 0, desc |-> 0]
NoDescriptor == [mask |-> {}, sel1 |-> <<0, 0, 0, 0>>, neg1 |-> FALSE, sel2 |-> <<0, 0, 0, 0>>,
                 neg2 |-> FALSE, sel3 |-> <<0, 0, 0, 0>>]

\* The GPU before anything is sent; vertices were drawn before.
Before ==
    [regs |-> [ID \in Registers |-> WordOf(0)],
     code |-> [a \in 0 .. 63 |-> NoInstruction], swizzle |-> [n \in 0 .. 31 |-> NoDescriptor],
     float |-> [n \in 0 .. 95 |-> Vector(0, 0, 0, 0)], tembuffer |-> <<>>,
     buffer |-> [slot \in 0 .. 1 |-> Earlier], buffer_index |-> 0, strip_ready |-> FALSE,
     frame |-> [p \in [x : Centres(16 * OffsetX, 16 * OffsetX + 32 * HalfWidth),
                        y : Centres(16 * OffsetY, 16 * OffsetY + 32 * HalfHeight)] |-> <<>>],
     fed |-> 0, sent |-> <<>>, from |-> [fed |-> 0, sent |-> 0], last |-> {}]

Init ==
    /\ scene \in Scenes
    /\ gpu = gpu_ExecuteCommands(Before, scene.mem,
                 RegisterCommands(scene)
                   \o IF scene.fresh THEN <<>>
                      ELSE ProgramCommands(scene.code, 0, Len(scene.code), FALSE)
                             \o SwizzleCommands(scene.swizzle, 0, Len(scene.swizzle), FALSE)
                             \o AllUniforms(scene))
    /\ guest = IF scene.fresh THEN [code |-> 0, swizzle |-> 0, uniforms |-> 0, restarts |-> 0]
               ELSE [code |-> Len(scene.code), swizzle |-> Len(scene.swizzle),
                     uniforms |-> Len(Stream(scene.batches)), restarts |-> 0]

Send(commands) == gpu' = gpu_ExecuteCommands(gpu, scene.mem, commands)

\* More than eight words of a command that counts its registers would leave the
\* port (bound).
UploadProgram ==
    \E n \in Bursts, grouping \in BOOLEAN :
        /\ guest.code + n <= Len(scene.code)
        /\ grouping => n <= 8
        /\ Send(ProgramCommands(scene.code, guest.code, n, grouping))
        /\ guest' = [guest EXCEPT !.code = @ + n]
        /\ UNCHANGED scene

UploadSwizzle ==
    \E n \in Bursts, grouping \in BOOLEAN :
        /\ guest.swizzle + n <= Len(scene.swizzle)
        /\ grouping => n <= 8
        /\ Send(SwizzleCommands(scene.swizzle, guest.swizzle, n, grouping))
        /\ guest' = [guest EXCEPT !.swizzle = @ + n]
        /\ UNCHANGED scene

UploadUniforms ==
    LET stream == Stream(scene.batches)
    IN  \E n \in Bursts, grouping \in BOOLEAN :
            /\ guest.uniforms + n <= Len(stream)
            /\ grouping => n <= 8
            /\ \A k \in 2 .. n : ~IsSetup(stream[guest.uniforms + k])
            /\ Send(<<UniformCommand(stream, guest.uniforms, n, grouping)>>)
            /\ guest' = [guest EXCEPT !.uniforms = @ + n]
            /\ UNCHANGED scene

Uploaded == /\ guest.code = Len(scene.code)
            /\ guest.swizzle = Len(scene.swizzle)
            /\ guest.uniforms = Len(Stream(scene.batches))

Draw ==
    /\ Uploaded
    /\ \E d \in scene.draws :
        /\ gpu.fed - gpu.from.fed + d.count <= scene.most
        /\ Send(<<Write(NumVertices, WordOf(d.count)), Write(IndexArrayConfig, d.config),
                  Write(IF d.indexed THEN TriggerDrawIndexed ELSE TriggerDraw, WordOf(1))>>)
    /\ UNCHANGED <<scene, guest>>

\* Another topology, and the restart that it needs.
Restart ==
    /\ Uploaded
    /\ guest.restarts < MaxRestarts
    /\ \E topology \in scene.topologies :
         Send(<<Command(TriangleTopology, {1}, <<WordOf(256 * topology)>>, FALSE),
                Write(VSresttriangel, WordOf(1))>>)
    /\ guest' = [guest EXCEPT !.restarts = @ + 1]
    /\ UNCHANGED scene

Next == UploadProgram \/ UploadSwizzle \/ UploadUniforms \/ Draw \/ Restart

Spec == Init /\ [][Next]_vars

-----------------------------------------------------------------------------
(* What drawing promises. *)

\* The triangles that the vertices make which were drawn since the last restart.
Expected(topology, fed) ==
    CASE topology \in {0, 3} -> [k \in 1 .. fed \div 3 |-> {3 * k - 2, 3 * k - 1, 3 * k}]
      [] topology = 1 -> [k \in 1 .. fed - 2 |-> {k, k + 1, k + 2}]
      [] topology = 2 -> [k \in 1 .. fed - 2 |-> {1, k + 1, k + 2}]

\* Since the last restart the triangles went on in order, each with its own
\* vertices, over however many draws: none of a vertex from before the restart,
\* none lost and none twice.  The first triangle of a fan is left out, which is
\* drawn with its second vertex and what was last in the buffer.
TrianglesAsSubmitted ==
    LET topology == gpu.regs[TriangleTopology][1] % 4
        sent == [k \in 1 .. Len(gpu.sent) - gpu.from.sent |->
                    {v.n - gpu.from.fed : v \in Range(gpu.sent[gpu.from.sent + k])}]
    IN  (IF topology = 2 /\ sent # <<>> THEN Tail(sent) ELSE sent)
            = Expected(topology, gpu.fed - gpu.from.fed)

Side(a, b, p) == (b.x - a.x) * (p.y - a.y) - (b.y - a.y) * (p.x - a.x)
StrictlyBetween(a, b, p) ==
    /\ Side(a, b, p) = 0
    /\ (p.x - a.x) * (p.x - b.x) + (p.y - a.y) * (p.y - b.y) < 0
StrictlyInside(a, b, c, p) ==
    \/ Side(a, b, p) > 0 /\ Side(b, c, p) > 0 /\ Side(c, a, p) > 0
    \/ Side(a, b, p) < 0 /\ Side(b, c, p) < 0 /\ Side(c, a, p) < 0

\* At its height v is to the left of the edge by less than a unit of the
\* screen's coordinates.  The code may take it for to the right.
JustLeft(v, a, b) ==
    LET d == b.y - a.y
    IN  \/ 0 < Side(a, b, v) /\ Side(a, b, v) < d
        \/ d < Side(a, b, v) /\ Side(a, b, v) < 0

\* Two triangles of a strip or fan that follow each other and lie on the two
\* sides of the edge they share, neither by less than the sixteenth of a pixel
\* that the code's division loses: no pixel whose centre is strictly inside one
\* of them or strictly between the ends of that edge is drawn by both and
\* blended twice; and when neither is cut or taken for a line one of the two
\* draws it, so that no seam shows.  The filling rule that the comment before
\* rasterizer_ProcessTriangle's biases states; when they are cut, the clipper's
\* crossings on the shared edge agree.
SharedEdgesDrawnOnce ==
    \A i \in gpu.from.sent + 1 .. Len(gpu.sent) - 1 :
        LET one == Range(gpu.sent[i])
            two == Range(gpu.sent[i + 1])
            refused(t) == PointIsOnLine(t[1].out, t[2].out, t[3].out)
            whole == /\ \A v \in one \cup two, k \in DOMAIN edges : IsInside(Whole(v.out), edges[k])
                     /\ ~refused(gpu.sent[i]) /\ ~refused(gpu.sent[i + 1])
        IN  \A a, b \in one \cap two, c \in one \ two, d \in two \ one :
              LET A == InitScreenCoordinates(Whole(a.out))
                  B == InitScreenCoordinates(Whole(b.out))
                  C == InitScreenCoordinates(Whole(c.out))
                  D == InitScreenCoordinates(Whole(d.out))
                  drawnBy(p) == {i, i + 1} \cap Range(gpu.frame[p])
              IN  (a # b /\ Side(A, B, C) * Side(A, B, D) < 0
                     /\ ~JustLeft(C, A, B) /\ ~JustLeft(D, A, B)) =>
                    \A p \in DOMAIN gpu.frame :
                        (\/ StrictlyInside(A, B, C, p)
                         \/ StrictlyInside(A, B, D, p)
                         \/ StrictlyBetween(A, B, p))
                          => /\ Cardinality(drawnBy(p)) <= 1
                             /\ whole => drawnBy(p) # {}

\* Once the last word of the uniforms is sent, every vector is where its batch's
\* configuration and its place in the batch say, however the words were divided
\* among commands of either kind.
UniformsArrive ==
    guest.uniforms = Len(Stream(scene.batches)) =>
        \A b \in DOMAIN scene.batches : \A k \in DOMAIN scene.batches[b].vectors :
            gpu.float[scene.batches[b].first + k - 1] = scene.batches[b].vectors[k]
=============================================================================
