------------------------------ MODULE Gpu_proofs -----------------------------
(****************************************************************************)
(* Theorems about the GPU, for any scenes that SceneAssumption allows, any  *)
(* number of words in a command, any number of vertices, draws and restarts *)
(* and any size of the screen: the triangles since the last restart are     *)
(* those that the vertices make, and every vector of the uniforms arrives.  *)
(*                                                                          *)
(* The shader and the pixels are left open: neither the assembly nor the    *)
(* uniforms depend on them.                                                 *)
(****************************************************************************)
EXTENDS Gpu, TLAPS, WellFoundedInduction

-----------------------------------------------------------------------------
(* A GPU's state is a record.  What a step leaves alone is said by field.     *)

Regs == [Registers -> [0 .. 3 -> Nat]]

Fields == {"regs", "code", "swizzle", "float", "tembuffer", "buffer", "buffer_index", "strip_ready",
           "frame", "fed", "sent", "from", "last"}
IsRecord(g) == DOMAIN g = Fields /\ g = [f \in DOMAIN g |-> g[f]]

IsGpu(g) == IsRecord(g) /\ g.regs \in Regs

SameTriangles(g, h) ==
    /\ h.buffer = g.buffer /\ h.buffer_index = g.buffer_index /\ h.strip_ready = g.strip_ready
    /\ h.fed = g.fed /\ h.sent = g.sent /\ h.from = g.from

SameUniforms(g, h) == h.float = g.float /\ h.tembuffer = g.tembuffer

\* The registers that commands write are none of the ports, and differ from each other.
LEMMA PortsApart ==
    /\ {CULL_MODE, NumVertices, IndexArrayConfig, TriangleTopology, VSresttriangel, VSFloatUniformSetup,
        VSBeginLoadProgramData, VSBeginLoadSwizzleData} \subseteq Registers
    /\ Registers \cap ({TriggerDraw, TriggerDrawIndexed} \cup (VSLoadProgramData .. VSLoadProgramData + 7)
                        \cup (VSLoadSwizzleData .. VSLoadSwizzleData + 7)
                        \cup (VSFloatUniformSetup + 1 .. VSFloatUniformSetup + 8)) = {}
    /\ TriangleTopology # VSFloatUniformSetup /\ TriangleTopology # VSBeginLoadProgramData
    /\ TriangleTopology # VSBeginLoadSwizzleData /\ TriangleTopology # VSresttriangel
    /\ VSFloatUniformSetup # VSBeginLoadProgramData /\ VSFloatUniformSetup # VSBeginLoadSwizzleData
BY DEF Registers, CULL_MODE, NumVertices, IndexArrayConfig, TriangleTopology, VSresttriangel, VSMainOffset,
    VSFloatUniformSetup, VSBeginLoadProgramData, VSBeginLoadSwizzleData, VSVertexAttributeOutputMap,
    VertexAttributeConfig, VSBoolUniforms, VS_INTUNIFORM_I0, VSInputRegisterMap, TriggerDraw,
    TriggerDrawIndexed, VSLoadProgramData, VSLoadSwizzleData

\* What a word counts is a natural number.
LEMMA NumberIsNat ==
    ASSUME NEW w \in [0 .. 3 -> Nat]
    PROVE  Number(w) \in Nat
BY DEF Number

\* A word's bytes are natural numbers.
LEMMA WordsAreNumbers == Word \subseteq [0 .. 3 -> Nat]
BY DEF Word

\* A number's lowest 32 bits are a word.
LEMMA WordOfIsWord ==
    ASSUME NEW n \in Int
    PROVE  WordOf(n) \in Word
<1>1. \A i \in 0 .. 3 : <<1, 256, 65536, 16777216>>[i + 1] \in {1, 256, 65536, 16777216}
  OBVIOUS
<1>2. \A i \in 0 .. 3 : (n \div <<1, 256, 65536, 16777216>>[i + 1]) % 256 \in 0 .. 255
  BY <1>1
<1> QED BY <1>2 DEF WordOf, Word

\* A write changes the masked bytes of its register, and nothing else.
LEMMA RegisterWritten ==
    ASSUME NEW g, IsGpu(g), NEW data \in [0 .. 3 -> Nat], NEW ID \in Registers, NEW mask
    PROVE  LET h == updateGPUintreg(g, data, ID, mask)
           IN  /\ IsGpu(h) /\ SameTriangles(g, h) /\ SameUniforms(g, h)
               /\ \A i \in 0 .. 3 : h.regs[ID][i] = IF i \in mask THEN data[i] ELSE g.regs[ID][i]
               /\ \A r \in Registers \ {ID} : h.regs[r] = g.regs[r]
BY DEF IsGpu, IsRecord, Fields, Regs, SameTriangles, SameUniforms, updateGPUintreg

\* An upload changes a memory of the shader and the register that counts its words.
LEMMA ProgramLoaded ==
    ASSUME NEW g, IsGpu(g), NEW words, Len(words) \in Nat
    PROVE  /\ LET h == LoadProgramData(g, words)
              IN  /\ IsGpu(h) /\ SameTriangles(g, h) /\ SameUniforms(g, h)
                  /\ \A r \in Registers \ {VSBeginLoadProgramData} : h.regs[r] = g.regs[r]
           /\ LET h == LoadSwizzleData(g, words)
              IN  /\ IsGpu(h) /\ SameTriangles(g, h) /\ SameUniforms(g, h)
                  /\ \A r \in Registers \ {VSBeginLoadSwizzleData} : h.regs[r] = g.regs[r]
<1>1. VSBeginLoadProgramData \in Registers /\ VSBeginLoadSwizzleData \in Registers
  BY PortsApart
<1>2. ASSUME NEW ID \in Registers
      PROVE  WordOf(Number(g.regs[ID]) + Len(words)) \in [0 .. 3 -> Nat]
  <2>1. Number(g.regs[ID]) \in Nat
    BY NumberIsNat DEF IsGpu, Regs
  <2>2. Number(g.regs[ID]) + Len(words) \in Int
    BY <2>1
  <2>3. WordOf(Number(g.regs[ID]) + Len(words)) \in Word
    BY <2>2, WordOfIsWord
  <2> QED BY <2>3, WordsAreNumbers
<1>3. LET h == LoadProgramData(g, words)
      IN  /\ IsGpu(h) /\ SameTriangles(g, h) /\ SameUniforms(g, h)
          /\ \A r \in Registers \ {VSBeginLoadProgramData} : h.regs[r] = g.regs[r]
  <2> DEFINE c == Loaded(g.code, words, Number(g.regs[VSBeginLoadProgramData]))
             v == WordOf(Number(g.regs[VSBeginLoadProgramData]) + Len(words))
  <2>1. v \in [0 .. 3 -> Nat]
    BY <1>1, <1>2
  <2>2. LoadProgramData(g, words) = [g EXCEPT !.code = c, !.regs[VSBeginLoadProgramData] = v]
    BY DEF LoadProgramData
  <2> HIDE DEF c, v
  <2>3. LET h == [g EXCEPT !.code = c, !.regs[VSBeginLoadProgramData] = v]
        IN  /\ IsGpu(h) /\ SameTriangles(g, h) /\ SameUniforms(g, h)
            /\ \A r \in Registers \ {VSBeginLoadProgramData} : h.regs[r] = g.regs[r]
    BY <1>1, <2>1 DEF IsGpu, IsRecord, Fields, Regs, SameTriangles, SameUniforms
  <2> QED BY <2>2, <2>3
<1>4. LET h == LoadSwizzleData(g, words)
      IN  /\ IsGpu(h) /\ SameTriangles(g, h) /\ SameUniforms(g, h)
          /\ \A r \in Registers \ {VSBeginLoadSwizzleData} : h.regs[r] = g.regs[r]
  <2> DEFINE c == Loaded(g.swizzle, words, Number(g.regs[VSBeginLoadSwizzleData]))
             v == WordOf(Number(g.regs[VSBeginLoadSwizzleData]) + Len(words))
  <2>1. v \in [0 .. 3 -> Nat]
    BY <1>1, <1>2
  <2>2. LoadSwizzleData(g, words) = [g EXCEPT !.swizzle = c, !.regs[VSBeginLoadSwizzleData] = v]
    BY DEF LoadSwizzleData
  <2> HIDE DEF c, v
  <2>3. LET h == [g EXCEPT !.swizzle = c, !.regs[VSBeginLoadSwizzleData] = v]
        IN  /\ IsGpu(h) /\ SameTriangles(g, h) /\ SameUniforms(g, h)
            /\ \A r \in Registers \ {VSBeginLoadSwizzleData} : h.regs[r] = g.regs[r]
    BY <1>1, <2>1 DEF IsGpu, IsRecord, Fields, Regs, SameTriangles, SameUniforms
  <2> QED BY <2>2, <2>3
<1> QED BY <1>3, <1>4

-----------------------------------------------------------------------------
(* Sequences of anything.                                                     *)

IsSequence(s) == \E X : s \in Seq(X)

\* What Append keeps and adds.
LEMMA Appended ==
    ASSUME NEW s, IsSequence(s), NEW e
    PROVE  LET t == Append(s, e)
           IN  /\ IsSequence(t) /\ Len(s) \in Nat /\ Len(t) = Len(s) + 1 /\ t[Len(s) + 1] = e
               /\ \A k \in 1 .. Len(s) : t[k] = s[k]
<1>1. PICK X : s \in Seq(X)
  BY DEF IsSequence
<1>2. s \in Seq(X \cup {e}) /\ e \in X \cup {e}
  BY <1>1
<1>3. Append(s, e) \in Seq(X \cup {e})
  BY <1>2
<1>4. IsSequence(Append(s, e))
  BY <1>3 DEF IsSequence
<1> QED BY <1>2, <1>4

-----------------------------------------------------------------------------
(* The assembly of triangles.                                                 *)

Topology(g) == g.regs[TriangleTopology][1] % 4
Fed(g) == g.fed - g.from.fed
Sent(g) == Len(g.sent) - g.from.sent
Nth(g, k) == {v.n - g.from.fed : v \in Range(g.sent[g.from.sent + k])}

IsAssembly(g) ==
    /\ g.fed \in Nat /\ g.from.fed \in Nat /\ g.from.fed <= g.fed
    /\ g.from.sent \in Nat /\ IsSequence(g.sent) /\ Len(g.sent) \in Nat /\ g.from.sent <= Len(g.sent)
    /\ DOMAIN g.buffer = 0 .. 1 /\ g.buffer = [slot \in DOMAIN g.buffer |-> g.buffer[slot]]
    /\ g.buffer_index \in 0 .. 2 /\ g.strip_ready \in BOOLEAN

ListAssembled(g) ==
    /\ g.buffer_index = Fed(g) % 3 /\ Sent(g) = Fed(g) \div 3
    /\ \A j \in 0 .. 1 : j < g.buffer_index => g.buffer[j].n = g.fed - g.buffer_index + j + 1
    /\ \A k \in 1 .. Sent(g) : Nth(g, k) = {3 * k - 2, 3 * k - 1, 3 * k}

StripAssembled(g) ==
    /\ g.buffer_index = Fed(g) % 2 /\ (g.strip_ready <=> Fed(g) >= 2)
    /\ Sent(g) = IF Fed(g) < 2 THEN 0 ELSE Fed(g) - 2
    /\ Fed(g) >= 1 => g.buffer[(Fed(g) - 1) % 2].n = g.fed
    /\ Fed(g) >= 2 => g.buffer[Fed(g) % 2].n = g.fed - 1
    /\ \A k \in 1 .. Sent(g) : Nth(g, k) = {k, k + 1, k + 2}

FanAssembled(g) ==
    /\ g.buffer_index = (IF Fed(g) = 0 THEN 0 ELSE 1) /\ (g.strip_ready <=> Fed(g) >= 1)
    /\ Sent(g) = IF Fed(g) = 0 THEN 0 ELSE Fed(g) - 1
    /\ Fed(g) >= 1 => g.buffer[0].n = g.from.fed + 1
    /\ Fed(g) >= 2 => g.buffer[1].n = g.fed
    /\ \A k \in 2 .. Sent(g) : Nth(g, k) = {1, k, k + 1}

Assembled(g) ==
    /\ IsAssembly(g)
    /\ Topology(g) \in {0, 3} => ListAssembled(g)
    /\ Topology(g) = 1 => StripAssembled(g)
    /\ Topology(g) = 2 => FanAssembled(g)

\* Nothing is drawn since the restart.
Blank(g) ==
    /\ IsAssembly(g) /\ Fed(g) = 0 /\ Sent(g) = 0 /\ g.buffer_index = 0 /\ ~g.strip_ready

\* With nothing drawn there is nothing to assemble, whatever the topology.
LEMMA BlankIsAssembled ==
    ASSUME NEW g, Blank(g)
    PROVE  Assembled(g)
BY DEF Blank, Assembled, ListAssembled, StripAssembled, FanAssembled, IsAssembly

\* Being assembled depends on the assembly's state and the topology only.
LEMMA SameTrianglesAssembled ==
    ASSUME NEW g, NEW h, SameTriangles(g, h)
    PROVE  /\ Blank(g) => Blank(h)
           /\ Assembled(g) /\ h.regs[TriangleTopology] = g.regs[TriangleTopology] => Assembled(h)
<1>1. Fed(h) = Fed(g) /\ Sent(h) = Sent(g)
  BY DEF SameTriangles, Fed, Sent
<1>2. \A k : Nth(h, k) = Nth(g, k)
  BY DEF SameTriangles, Nth
<1>3. IsAssembly(g) => IsAssembly(h)
  BY DEF SameTriangles, IsAssembly
<1>4. Blank(g) => Blank(h)
  BY <1>1, <1>3 DEF SameTriangles, Blank
<1>5. ListAssembled(g) => ListAssembled(h)
  BY <1>1, <1>2 DEF SameTriangles, ListAssembled
<1>6. StripAssembled(g) => StripAssembled(h)
  BY <1>1, <1>2 DEF SameTriangles, StripAssembled
<1>7. FanAssembled(g) => FanAssembled(h)
  BY <1>1, <1>2 DEF SameTriangles, FanAssembled
<1>8. h.regs[TriangleTopology] = g.regs[TriangleTopology] => Topology(h) = Topology(g)
  BY DEF Topology
<1> QED BY <1>3, <1>4, <1>5, <1>6, <1>7, <1>8 DEF Assembled

\* A triangle is sent, the last so far.
LEMMA TriangleSent ==
    ASSUME NEW g, IsGpu(g), IsAssembly(g), NEW v0, NEW v1, NEW v2
    PROVE  LET h == Clipper_ProcessTriangle(g, v0, v1, v2)
           IN  /\ IsGpu(h) /\ IsAssembly(h) /\ SameUniforms(g, h) /\ h.regs = g.regs
               /\ h.fed = g.fed /\ h.from = g.from /\ h.buffer = g.buffer
               /\ h.buffer_index = g.buffer_index /\ h.strip_ready = g.strip_ready
               /\ Sent(h) = Sent(g) + 1 /\ \A k \in 1 .. Sent(g) : Nth(h, k) = Nth(g, k)
               /\ Nth(h, Sent(h)) = {v0.n - g.from.fed, v1.n - g.from.fed, v2.n - g.from.fed}
<1> DEFINE h == Clipper_ProcessTriangle(g, v0, v1, v2)
           triangle == <<v0, v1, v2>>
<1>1. PICK f : h = [g EXCEPT !.sent = Append(@, triangle), !.frame = f]
  BY DEF Clipper_ProcessTriangle
<1> HIDE DEF h
<1>2. /\ IsGpu(h) /\ SameUniforms(g, h) /\ h.regs = g.regs /\ h.sent = Append(g.sent, triangle)
      /\ h.fed = g.fed /\ h.from = g.from /\ h.buffer = g.buffer
      /\ h.buffer_index = g.buffer_index /\ h.strip_ready = g.strip_ready
  <2> HIDE DEF triangle
  <2> QED BY <1>1 DEF IsGpu, IsRecord, Fields, SameUniforms
<1>3. /\ IsSequence(h.sent) /\ Len(g.sent) \in Nat /\ Len(h.sent) = Len(g.sent) + 1
      /\ h.sent[Len(g.sent) + 1] = triangle /\ \A k \in 1 .. Len(g.sent) : h.sent[k] = g.sent[k]
  <2> HIDE DEF triangle
  <2> QED BY <1>2, Appended DEF IsAssembly
<1>4. Range(triangle) = {v0, v1, v2}
  BY DEF Range
<1> HIDE DEF triangle
<1>5. IsAssembly(h) /\ Sent(h) = Sent(g) + 1
  BY <1>2, <1>3 DEF IsAssembly, Sent
<1>6. \A k \in 1 .. Sent(g) : h.sent[g.from.sent + k] = g.sent[g.from.sent + k]
  <2>1. \A k \in 1 .. Sent(g) : g.from.sent + k \in 1 .. Len(g.sent)
    BY DEF Sent, IsAssembly
  <2> QED BY <1>3, <2>1
<1>7. \A k \in 1 .. Sent(g) : Nth(h, k) = Nth(g, k)
  BY <1>2, <1>6 DEF Nth
<1>8. h.sent[h.from.sent + Sent(h)] = triangle
  BY <1>2, <1>3 DEF Sent, IsAssembly
<1>9. Nth(h, Sent(h)) = {v0.n - g.from.fed, v1.n - g.from.fed, v2.n - g.from.fed}
  BY <1>2, <1>4, <1>8 DEF Nth
<1> QED BY <1>2, <1>5, <1>7, <1>9 DEF h

\* The parts of PrimitiveAssembly_SubmitVertex: one more vertex is fed, the place
\* for the next one is chosen, a vertex is put into the buffer.
Counted(g, l) == [g EXCEPT !.fed = @ + 1, !.last = l]
PlacedAt(g, i) == [g EXCEPT !.buffer_index = i]
Buffered(g, v, i, ready) ==
    [g EXCEPT !.buffer[g.buffer_index] = v, !.strip_ready = ready, !.buffer_index = i]

\* Counting a vertex leaves the assembly as it is.
LEMMA VertexCounted ==
    ASSUME NEW g, IsGpu(g), IsAssembly(g), NEW l
    PROVE  LET h == Counted(g, l)
           IN  /\ IsGpu(h) /\ IsAssembly(h) /\ SameUniforms(g, h) /\ h.regs = g.regs
               /\ h.fed = g.fed + 1 /\ h.from = g.from /\ h.buffer = g.buffer
               /\ h.buffer_index = g.buffer_index /\ h.strip_ready = g.strip_ready
               /\ Sent(h) = Sent(g) /\ \A k : Nth(h, k) = Nth(g, k)
<1> DEFINE h == Counted(g, l)
<1>1. /\ IsGpu(h) /\ SameUniforms(g, h) /\ h.regs = g.regs /\ h.sent = g.sent
      /\ h.fed = g.fed + 1 /\ h.from = g.from /\ h.buffer = g.buffer
      /\ h.buffer_index = g.buffer_index /\ h.strip_ready = g.strip_ready
  BY DEF Counted, IsGpu, IsRecord, Fields, SameUniforms
<1> HIDE DEF h
<1>2. IsAssembly(h)
  BY <1>1 DEF IsAssembly
<1>3. Sent(h) = Sent(g) /\ \A k : Nth(h, k) = Nth(g, k)
  BY <1>1 DEF Sent, Nth
<1> QED BY <1>1, <1>2, <1>3 DEF h

\* So does choosing the place of the next vertex in the buffer, but for that place.
LEMMA PlaceChosen ==
    ASSUME NEW g, IsGpu(g), IsAssembly(g), NEW i \in 0 .. 2
    PROVE  LET h == PlacedAt(g, i)
           IN  /\ IsGpu(h) /\ IsAssembly(h) /\ SameUniforms(g, h) /\ h.regs = g.regs
               /\ h.fed = g.fed /\ h.from = g.from /\ h.buffer = g.buffer
               /\ h.buffer_index = i /\ h.strip_ready = g.strip_ready
               /\ Sent(h) = Sent(g) /\ \A k : Nth(h, k) = Nth(g, k)
<1> DEFINE h == PlacedAt(g, i)
<1>1. /\ IsGpu(h) /\ SameUniforms(g, h) /\ h.regs = g.regs /\ h.sent = g.sent
      /\ h.fed = g.fed /\ h.from = g.from /\ h.buffer = g.buffer
      /\ h.buffer_index = i /\ h.strip_ready = g.strip_ready
  BY DEF PlacedAt, IsGpu, IsRecord, Fields, SameUniforms
<1> HIDE DEF h
<1>2. IsAssembly(h)
  BY <1>1 DEF IsAssembly
<1>3. Sent(h) = Sent(g) /\ \A k : Nth(h, k) = Nth(g, k)
  BY <1>1 DEF Sent, Nth
<1> QED BY <1>1, <1>2, <1>3 DEF h

\* A vertex that is kept goes to the place that is chosen.
LEMMA VertexKept ==
    ASSUME NEW g, IsGpu(g), IsAssembly(g), g.buffer_index \in 0 .. 1, NEW v, NEW i \in 0 .. 2, NEW ready \in BOOLEAN
    PROVE  LET h == Buffered(g, v, i, ready)
           IN  /\ IsGpu(h) /\ IsAssembly(h) /\ SameUniforms(g, h) /\ h.regs = g.regs
               /\ h.fed = g.fed /\ h.from = g.from /\ h.strip_ready = ready /\ h.buffer_index = i
               /\ h.buffer[g.buffer_index] = v
               /\ \A j \in 0 .. 1 : j # g.buffer_index => h.buffer[j] = g.buffer[j]
               /\ Sent(h) = Sent(g) /\ \A k : Nth(h, k) = Nth(g, k)
<1> DEFINE h == Buffered(g, v, i, ready)
<1>1. /\ IsGpu(h) /\ SameUniforms(g, h) /\ h.regs = g.regs /\ h.sent = g.sent
      /\ h.fed = g.fed /\ h.from = g.from /\ h.strip_ready = ready /\ h.buffer_index = i
      /\ h.buffer = [g.buffer EXCEPT ![g.buffer_index] = v]
  BY DEF Buffered, IsGpu, IsRecord, Fields, SameUniforms
<1> HIDE DEF h
<1>2. /\ h.buffer[g.buffer_index] = v /\ \A j \in 0 .. 1 : j # g.buffer_index => h.buffer[j] = g.buffer[j]
      /\ DOMAIN h.buffer = 0 .. 1 /\ h.buffer = [slot \in DOMAIN h.buffer |-> h.buffer[slot]]
  BY <1>1 DEF IsAssembly
<1>3. IsAssembly(h)
  BY <1>1, <1>2 DEF IsAssembly
<1>4. Sent(h) = Sent(g) /\ \A k : Nth(h, k) = Nth(g, k)
  BY <1>1 DEF Sent, Nth
<1> QED BY <1>1, <1>2, <1>3, <1>4 DEF h

\* PrimitiveAssembly_SubmitVertex from its parts.
LEMMA SubmitParts ==
    ASSUME NEW g, IsGpu(g), IsAssembly(g), NEW v
    PROVE  LET h == PrimitiveAssembly_SubmitVertex(g, v)
               triangle(x) == Clipper_ProcessTriangle(x, g.buffer[0], g.buffer[1], v)
               d == IF g.strip_ready THEN triangle(g) ELSE g
           IN  /\ Topology(g) \in {0, 3} =>
                    h = IF g.buffer_index >= 2 THEN triangle(PlacedAt(g, 0))
                        ELSE Buffered(g, v, g.buffer_index + 1, g.strip_ready)
               /\ Topology(g) \in {1, 2} =>
                    h = Buffered(d, v, IF Topology(g) = 1 /\ d.buffer_index # 0 THEN 0 ELSE 1,
                                 d.strip_ready \/ Topology(g) = 2 \/ d.buffer_index = 1)
<1> DEFINE triangle(x) == Clipper_ProcessTriangle(x, g.buffer[0], g.buffer[1], v)
<1>1. g = [g EXCEPT !.buffer_index = @]
  BY DEF IsGpu, IsRecord, Fields
<1>2. ASSUME Topology(g) \in {0, 3}, g.buffer_index >= 2
      PROVE  PrimitiveAssembly_SubmitVertex(g, v) = triangle(PlacedAt(g, 0))
  BY <1>2 DEF PrimitiveAssembly_SubmitVertex, Topology, PlacedAt
<1>3. ASSUME Topology(g) \in {0, 3}, ~(g.buffer_index >= 2)
      PROVE  PrimitiveAssembly_SubmitVertex(g, v) = Buffered(g, v, g.buffer_index + 1, g.strip_ready)
  <2>1. PrimitiveAssembly_SubmitVertex(g, v) = [g EXCEPT !.buffer[g.buffer_index] = v, !.buffer_index = @ + 1]
    <3>1. g.buffer_index < 2
      BY <1>3 DEF IsAssembly
    <3> QED BY <1>3, <3>1 DEF PrimitiveAssembly_SubmitVertex, Topology
  <2>2. [g EXCEPT !.buffer[g.buffer_index] = v, !.buffer_index = @ + 1]
          = Buffered(g, v, g.buffer_index + 1, g.strip_ready)
    BY DEF Buffered, IsGpu, IsRecord, Fields
  <2> QED BY <2>1, <2>2
<1>4. ASSUME Topology(g) \in {1, 2}
      PROVE  LET d == IF g.strip_ready THEN triangle(g) ELSE g
             IN  PrimitiveAssembly_SubmitVertex(g, v)
                   = Buffered(d, v, IF Topology(g) = 1 /\ d.buffer_index # 0 THEN 0 ELSE 1,
                              d.strip_ready \/ Topology(g) = 2 \/ d.buffer_index = 1)
  <2> DEFINE d == IF g.strip_ready THEN triangle(g) ELSE g
  <2>1. PrimitiveAssembly_SubmitVertex(g, v) = Kept(d, v, Topology(g))
    BY <1>1, <1>4 DEF PrimitiveAssembly_SubmitVertex, Topology
  <2> HIDE DEF d
  <2>2. Kept(d, v, Topology(g))
          = Buffered(d, v, IF Topology(g) = 1 /\ d.buffer_index # 0 THEN 0 ELSE 1,
                     d.strip_ready \/ Topology(g) = 2 \/ d.buffer_index = 1)
    BY DEF Kept, Buffered
  <2> QED BY <2>1, <2>2 DEF d
<1> QED BY <1>2, <1>3, <1>4

Stepped(g, h) ==
    /\ IsGpu(h) /\ IsAssembly(h) /\ SameUniforms(g, h) /\ h.regs = g.regs
    /\ h.fed = g.fed + 1 /\ h.from = g.from

\* The next vertex of a list of triangles: the third one completes a triangle.
LEMMA ListStep ==
    ASSUME NEW g, IsGpu(g), IsAssembly(g), Topology(g) \in {0, 3}, ListAssembled(g),
           NEW l, NEW v, v.n = g.fed + 1
    PROVE  LET h == PrimitiveAssembly_SubmitVertex(Counted(g, l), v)
           IN  Stepped(g, h) /\ ListAssembled(h)
<1> DEFINE a == Counted(g, l)
           h == PrimitiveAssembly_SubmitVertex(a, v)
<1>1. /\ IsGpu(a) /\ IsAssembly(a) /\ SameUniforms(g, a) /\ a.regs = g.regs
      /\ a.fed = g.fed + 1 /\ a.from = g.from /\ a.buffer = g.buffer
      /\ a.buffer_index = g.buffer_index /\ a.strip_ready = g.strip_ready
      /\ Sent(a) = Sent(g) /\ \A k : Nth(a, k) = Nth(g, k)
  BY VertexCounted
<1> HIDE DEF a
<1>2. Topology(a) \in {0, 3}
  BY <1>1 DEF Topology
<1>3. Fed(a) = Fed(g) + 1 /\ Fed(g) \in Nat /\ Sent(g) \in Nat
  BY <1>1 DEF Fed, Sent, IsAssembly
<1>4. CASE g.buffer_index >= 2
  <2> DEFINE p == PlacedAt(a, 0)
  <2>1. h = Clipper_ProcessTriangle(p, g.buffer[0], g.buffer[1], v)
    BY <1>1, <1>2, <1>4, SubmitParts
  <2>2. /\ IsGpu(p) /\ IsAssembly(p) /\ SameUniforms(a, p) /\ p.regs = a.regs
        /\ p.fed = a.fed /\ p.from = a.from /\ p.buffer = a.buffer
        /\ p.buffer_index = 0 /\ p.strip_ready = a.strip_ready
        /\ Sent(p) = Sent(a) /\ \A k : Nth(p, k) = Nth(a, k)
    BY <1>1, PlaceChosen
  <2> HIDE DEF p, h
  <2>3. /\ IsGpu(h) /\ IsAssembly(h) /\ SameUniforms(p, h) /\ h.regs = p.regs
        /\ h.fed = p.fed /\ h.from = p.from /\ h.buffer = p.buffer
        /\ h.buffer_index = p.buffer_index /\ h.strip_ready = p.strip_ready
        /\ Sent(h) = Sent(p) + 1 /\ \A k \in 1 .. Sent(p) : Nth(h, k) = Nth(p, k)
        /\ Nth(h, Sent(h)) = {g.buffer[0].n - p.from.fed, g.buffer[1].n - p.from.fed, v.n - p.from.fed}
    BY <2>1, <2>2, TriangleSent
  <2>4. Stepped(g, h)
    BY <1>1, <2>2, <2>3 DEF Stepped, SameUniforms
  <2>5. g.buffer_index = 2 /\ Fed(g) % 3 = 2
    BY <1>4 DEF ListAssembled, IsAssembly
  <2>6. Fed(h) = Fed(g) + 1 /\ Sent(h) = Sent(g) + 1
    BY <1>1, <2>2, <2>3 DEF Fed, IsAssembly
  <2>7. Fed(h) % 3 = 0 /\ Sent(h) = Fed(h) \div 3 /\ Fed(g) + 1 = 3 * Sent(h)
    BY <1>3, <2>5, <2>6 DEF ListAssembled
  <2>8. g.buffer[0].n = g.fed - 1 /\ g.buffer[1].n = g.fed
    BY <2>5 DEF ListAssembled, IsAssembly
  <2>9. Nth(h, Sent(h)) = {3 * Sent(h) - 2, 3 * Sent(h) - 1, 3 * Sent(h)}
    <3>1. p.from.fed = g.from.fed
      BY <1>1, <2>2
    <3>2. /\ g.buffer[0].n - g.from.fed = 3 * Sent(h) - 2 /\ g.buffer[1].n - g.from.fed = 3 * Sent(h) - 1
          /\ v.n - g.from.fed = 3 * Sent(h)
      BY <2>7, <2>8 DEF Fed, IsAssembly
    <3> QED BY <2>3, <3>1, <3>2
  <2>10. \A k \in 1 .. Sent(h) : Nth(h, k) = {3 * k - 2, 3 * k - 1, 3 * k}
    <3>1. ASSUME NEW k \in 1 .. Sent(g) PROVE Nth(h, k) = Nth(g, k)
      BY <1>1, <2>2, <2>3
    <3>2. ASSUME NEW k \in 1 .. Sent(h) PROVE k \in 1 .. Sent(g) \/ k = Sent(h)
      BY <1>3, <2>6
    <3> QED BY <2>9, <3>1, <3>2 DEF ListAssembled
  <2>11. ListAssembled(h)
    <3>1. h.buffer_index = Fed(h) % 3
      BY <2>2, <2>3, <2>7
    <3>2. \A j \in 0 .. 1 : j < h.buffer_index => h.buffer[j].n = h.fed - h.buffer_index + j + 1
      BY <2>2, <2>3
    <3> QED BY <2>7, <2>10, <3>1, <3>2 DEF ListAssembled
  <2> QED BY <2>4, <2>11 DEF h, a
<1>5. CASE ~(g.buffer_index >= 2)
  <2>1. h = Buffered(a, v, a.buffer_index + 1, a.strip_ready)
    BY <1>1, <1>2, <1>5, SubmitParts
  <2>2. g.buffer_index \in 0 .. 1 /\ g.strip_ready \in BOOLEAN
    BY <1>5 DEF IsAssembly
  <2> HIDE DEF h
  <2>3. /\ IsGpu(h) /\ IsAssembly(h) /\ SameUniforms(a, h) /\ h.regs = a.regs
        /\ h.fed = a.fed /\ h.from = a.from /\ h.strip_ready = a.strip_ready
        /\ h.buffer_index = a.buffer_index + 1
        /\ h.buffer[a.buffer_index] = v
        /\ \A j \in 0 .. 1 : j # a.buffer_index => h.buffer[j] = a.buffer[j]
        /\ Sent(h) = Sent(a) /\ \A k : Nth(h, k) = Nth(a, k)
    BY <1>1, <2>1, <2>2, VertexKept
  <2>4. Stepped(g, h)
    BY <1>1, <2>3 DEF Stepped, SameUniforms
  <2>5. Fed(h) = Fed(g) + 1 /\ Sent(h) = Sent(g)
    BY <1>1, <2>3 DEF Fed, IsAssembly
  <2>6. h.buffer_index = Fed(h) % 3 /\ Sent(h) = Fed(h) \div 3
    BY <1>1, <1>3, <2>2, <2>3, <2>5 DEF ListAssembled
  <2>7. \A j \in 0 .. 1 : j < h.buffer_index => h.buffer[j].n = h.fed - h.buffer_index + j + 1
    BY <1>1, <2>2, <2>3 DEF ListAssembled, IsAssembly
  <2>8. \A k \in 1 .. Sent(h) : Nth(h, k) = {3 * k - 2, 3 * k - 1, 3 * k}
    BY <1>1, <2>3, <2>5 DEF ListAssembled
  <2>9. ListAssembled(h)
    BY <2>6, <2>7, <2>8 DEF ListAssembled
  <2> QED BY <2>4, <2>9 DEF h, a
<1> QED BY <1>4, <1>5

\* A strip or a fan draws a triangle when it is ready, and then keeps the vertex.
LEMMA KeepingStep ==
    ASSUME NEW g, IsGpu(g), IsAssembly(g), Topology(g) \in {1, 2}, g.buffer_index \in 0 .. 1,
           NEW l, NEW v
    PROVE  LET h == PrimitiveAssembly_SubmitVertex(Counted(g, l), v)
           IN  /\ Stepped(g, h)
               /\ h.buffer_index = (IF Topology(g) = 1 /\ g.buffer_index # 0 THEN 0 ELSE 1)
               /\ (h.strip_ready <=> g.strip_ready \/ Topology(g) = 2 \/ g.buffer_index = 1)
               /\ h.buffer[g.buffer_index] = v
               /\ \A j \in 0 .. 1 : j # g.buffer_index => h.buffer[j] = g.buffer[j]
               /\ Sent(h) = (IF g.strip_ready THEN Sent(g) + 1 ELSE Sent(g))
               /\ \A k \in 1 .. Sent(g) : Nth(h, k) = Nth(g, k)
               /\ g.strip_ready => Nth(h, Sent(h)) = {g.buffer[0].n - g.from.fed, g.buffer[1].n - g.from.fed,
                                                      v.n - g.from.fed}
<1> DEFINE a == Counted(g, l)
           d == IF a.strip_ready THEN Clipper_ProcessTriangle(a, a.buffer[0], a.buffer[1], v) ELSE a
           i == IF Topology(a) = 1 /\ d.buffer_index # 0 THEN 0 ELSE 1
           ready == d.strip_ready \/ Topology(a) = 2 \/ d.buffer_index = 1
           h == PrimitiveAssembly_SubmitVertex(a, v)
<1>1. /\ IsGpu(a) /\ IsAssembly(a) /\ SameUniforms(g, a) /\ a.regs = g.regs
      /\ a.fed = g.fed + 1 /\ a.from = g.from /\ a.buffer = g.buffer
      /\ a.buffer_index = g.buffer_index /\ a.strip_ready = g.strip_ready
      /\ Sent(a) = Sent(g) /\ \A k : Nth(a, k) = Nth(g, k)
  BY VertexCounted
<1> HIDE DEF a
<1>2. Topology(a) = Topology(g)
  BY <1>1 DEF Topology
<1>3. h = Buffered(d, v, i, ready)
  BY <1>1, <1>2, SubmitParts
<1>4. /\ IsGpu(d) /\ IsAssembly(d) /\ SameUniforms(a, d) /\ d.regs = a.regs
      /\ d.fed = a.fed /\ d.from = a.from /\ d.buffer = a.buffer
      /\ d.buffer_index = a.buffer_index /\ d.strip_ready = a.strip_ready
      /\ Sent(d) = (IF a.strip_ready THEN Sent(a) + 1 ELSE Sent(a))
      /\ \A k \in 1 .. Sent(a) : Nth(d, k) = Nth(a, k)
      /\ a.strip_ready => Nth(d, Sent(d)) = {a.buffer[0].n - a.from.fed, a.buffer[1].n - a.from.fed,
                                             v.n - a.from.fed}
  <2>1. CASE a.strip_ready
    <3> DEFINE c == Clipper_ProcessTriangle(a, a.buffer[0], a.buffer[1], v)
    <3>1. d = c
      BY <2>1
    <3>2. /\ IsGpu(c) /\ IsAssembly(c) /\ SameUniforms(a, c) /\ c.regs = a.regs
          /\ c.fed = a.fed /\ c.from = a.from /\ c.buffer = a.buffer
          /\ c.buffer_index = a.buffer_index /\ c.strip_ready = a.strip_ready
          /\ Sent(c) = Sent(a) + 1 /\ \A k \in 1 .. Sent(a) : Nth(c, k) = Nth(a, k)
          /\ Nth(c, Sent(c)) = {a.buffer[0].n - a.from.fed, a.buffer[1].n - a.from.fed, v.n - a.from.fed}
      BY <1>1, TriangleSent
    <3> HIDE DEF c, d
    <3> QED BY <2>1, <3>1, <3>2
  <2>2. CASE ~a.strip_ready
    BY <1>1, <2>2 DEF SameUniforms
  <2> QED BY <2>1, <2>2
<1> HIDE DEF d
<1>5. d.buffer_index \in 0 .. 1 /\ i \in 0 .. 2 /\ ready \in BOOLEAN
  BY <1>1, <1>4 DEF IsAssembly
<1> HIDE DEF i, ready, h
<1>6. /\ IsGpu(h) /\ IsAssembly(h) /\ SameUniforms(d, h) /\ h.regs = d.regs
      /\ h.fed = d.fed /\ h.from = d.from /\ h.strip_ready = ready /\ h.buffer_index = i
      /\ h.buffer[d.buffer_index] = v
      /\ \A j \in 0 .. 1 : j # d.buffer_index => h.buffer[j] = d.buffer[j]
      /\ Sent(h) = Sent(d) /\ \A k : Nth(h, k) = Nth(d, k)
  BY <1>3, <1>4, <1>5, VertexKept
<1>7. Stepped(g, h)
  BY <1>1, <1>4, <1>6 DEF Stepped, SameUniforms
<1>8. i = (IF Topology(g) = 1 /\ g.buffer_index # 0 THEN 0 ELSE 1)
  BY <1>1, <1>2, <1>4 DEF i
<1>9. ready = (g.strip_ready \/ Topology(g) = 2 \/ g.buffer_index = 1)
  BY <1>1, <1>2, <1>4 DEF ready
<1>10. /\ Sent(h) = (IF g.strip_ready THEN Sent(g) + 1 ELSE Sent(g))
       /\ \A k \in 1 .. Sent(g) : Nth(h, k) = Nth(g, k)
  BY <1>1, <1>4, <1>6
<1>11. g.strip_ready => Nth(h, Sent(h)) = {g.buffer[0].n - g.from.fed, g.buffer[1].n - g.from.fed,
                                           v.n - g.from.fed}
  BY <1>1, <1>4, <1>6
<1>12. h.buffer[g.buffer_index] = v /\ \A j \in 0 .. 1 : j # g.buffer_index => h.buffer[j] = g.buffer[j]
  BY <1>1, <1>4, <1>6
<1> QED BY <1>6, <1>7, <1>8, <1>9, <1>10, <1>11, <1>12 DEF h, a

\* The next vertex of a strip: from the third on each completes a triangle.
LEMMA StripStep ==
    ASSUME NEW g, IsGpu(g), IsAssembly(g), Topology(g) = 1, StripAssembled(g),
           NEW l, NEW v, v.n = g.fed + 1
    PROVE  LET h == PrimitiveAssembly_SubmitVertex(Counted(g, l), v)
           IN  Stepped(g, h) /\ StripAssembled(h)
<1> DEFINE h == PrimitiveAssembly_SubmitVertex(Counted(g, l), v)
<1>1. g.buffer_index \in 0 .. 1 /\ Fed(g) \in Nat /\ Sent(g) \in Nat /\ g.fed \in Nat /\ g.from.fed \in Nat
  BY DEF StripAssembled, Fed, Sent, IsAssembly
<1>0. /\ g.buffer_index = Fed(g) % 2 /\ (g.strip_ready <=> Fed(g) >= 2)
      /\ Sent(g) = IF Fed(g) < 2 THEN 0 ELSE Fed(g) - 2
      /\ Fed(g) >= 1 => g.buffer[(Fed(g) - 1) % 2].n = g.fed
      /\ Fed(g) >= 2 => g.buffer[Fed(g) % 2].n = g.fed - 1
      /\ \A k \in 1 .. Sent(g) : Nth(g, k) = {k, k + 1, k + 2}
  BY DEF StripAssembled
<1>2. /\ Stepped(g, h)
      /\ h.buffer_index = (IF g.buffer_index # 0 THEN 0 ELSE 1)
      /\ (h.strip_ready <=> g.strip_ready \/ g.buffer_index = 1)
      /\ h.buffer[g.buffer_index] = v
      /\ \A j \in 0 .. 1 : j # g.buffer_index => h.buffer[j] = g.buffer[j]
      /\ Sent(h) = (IF g.strip_ready THEN Sent(g) + 1 ELSE Sent(g))
      /\ \A k \in 1 .. Sent(g) : Nth(h, k) = Nth(g, k)
      /\ g.strip_ready => Nth(h, Sent(h)) = {g.buffer[0].n - g.from.fed, g.buffer[1].n - g.from.fed,
                                             v.n - g.from.fed}
  BY <1>1, KeepingStep
<1> HIDE DEF h
<1>3. Fed(h) = Fed(g) + 1 /\ h.fed = g.fed + 1
  BY <1>2 DEF Stepped, Fed, IsAssembly
<1>4. h.buffer_index = Fed(h) % 2 /\ (h.strip_ready <=> Fed(h) >= 2)
  BY <1>0, <1>1, <1>2, <1>3
<1>5. Sent(h) = IF Fed(h) < 2 THEN 0 ELSE Fed(h) - 2
  BY <1>0, <1>1, <1>2, <1>3
<1>6. g.buffer_index = (Fed(h) - 1) % 2
  BY <1>0, <1>1, <1>3
<1>7. h.buffer[(Fed(h) - 1) % 2].n = h.fed
  BY <1>2, <1>3, <1>6
<1>8. Fed(h) >= 2 => h.buffer[Fed(h) % 2].n = h.fed - 1
  <2>1. Fed(h) % 2 \in 0 .. 1 /\ Fed(h) % 2 # g.buffer_index
    BY <1>1, <1>3, <1>6
  <2>2. Fed(h) >= 2 => Fed(h) % 2 = (Fed(g) - 1) % 2
    BY <1>1, <1>3
  <2> QED BY <1>0, <1>1, <1>2, <1>3, <2>1, <2>2
<1>9. g.strip_ready => Nth(h, Sent(h)) = {Sent(h), Sent(h) + 1, Sent(h) + 2}
  <2>1. SUFFICES ASSUME g.strip_ready
                 PROVE  Nth(h, Sent(h)) = {Sent(h), Sent(h) + 1, Sent(h) + 2}
    OBVIOUS
  <2>2. Fed(g) >= 2 /\ Sent(h) = Fed(g) - 1
    BY <1>0, <1>1, <1>3, <1>5, <2>1
  <2>3. g.buffer[(Fed(g) - 1) % 2].n = g.fed /\ g.buffer[Fed(g) % 2].n = g.fed - 1
    BY <1>0, <1>1, <2>2
  <2>4. {(Fed(g) - 1) % 2, Fed(g) % 2} = {0, 1}
    BY <1>1
  <2>5. {g.buffer[0].n - g.from.fed, g.buffer[1].n - g.from.fed} = {Fed(g), Fed(g) - 1}
    <3>1. CASE Fed(g) % 2 = 0
      <4>1. (Fed(g) - 1) % 2 = 1
        BY <1>1, <3>1
      <4> QED BY <2>3, <3>1, <4>1 DEF Fed, IsAssembly
    <3>2. CASE Fed(g) % 2 = 1
      <4>1. (Fed(g) - 1) % 2 = 0
        BY <1>1, <3>2
      <4> QED BY <2>3, <3>2, <4>1 DEF Fed, IsAssembly
    <3>3. Fed(g) % 2 = 0 \/ Fed(g) % 2 = 1
      BY <1>1
    <3> QED BY <3>1, <3>2, <3>3
  <2>6. v.n - g.from.fed = Fed(g) + 1
    BY DEF Fed, IsAssembly
  <2>7. Nth(h, Sent(h)) = {Fed(g), Fed(g) - 1} \cup {Fed(g) + 1}
    BY <1>2, <2>1, <2>5, <2>6
  <2> QED BY <1>1, <2>2, <2>7
<1>10. \A k \in 1 .. Sent(h) : Nth(h, k) = {k, k + 1, k + 2}
  <2>1. ASSUME NEW k \in 1 .. Sent(h)
        PROVE  k \in 1 .. Sent(g) \/ (g.strip_ready /\ k = Sent(h))
    BY <1>1, <1>2
  <2> QED BY <1>0, <1>2, <1>9, <2>1
<1>11. StripAssembled(h)
  BY <1>4, <1>5, <1>7, <1>8, <1>10 DEF StripAssembled
<1> QED BY <1>2, <1>11 DEF h

\* The next vertex of a fan: from the second on each completes a triangle.
LEMMA FanStep ==
    ASSUME NEW g, IsGpu(g), IsAssembly(g), Topology(g) = 2, FanAssembled(g),
           NEW l, NEW v, v.n = g.fed + 1
    PROVE  LET h == PrimitiveAssembly_SubmitVertex(Counted(g, l), v)
           IN  Stepped(g, h) /\ FanAssembled(h)
<1> DEFINE h == PrimitiveAssembly_SubmitVertex(Counted(g, l), v)
<1>1. g.buffer_index \in 0 .. 1 /\ Fed(g) \in Nat /\ Sent(g) \in Nat /\ g.fed \in Nat /\ g.from.fed \in Nat
  BY DEF FanAssembled, Fed, Sent, IsAssembly
<1>0. /\ g.buffer_index = (IF Fed(g) = 0 THEN 0 ELSE 1) /\ (g.strip_ready <=> Fed(g) >= 1)
      /\ Sent(g) = IF Fed(g) = 0 THEN 0 ELSE Fed(g) - 1
      /\ Fed(g) >= 1 => g.buffer[0].n = g.from.fed + 1
      /\ Fed(g) >= 2 => g.buffer[1].n = g.fed
      /\ \A k \in 2 .. Sent(g) : Nth(g, k) = {1, k, k + 1}
  BY DEF FanAssembled
<1>2. /\ Stepped(g, h)
      /\ h.buffer_index = 1 /\ h.strip_ready
      /\ h.buffer[g.buffer_index] = v
      /\ \A j \in 0 .. 1 : j # g.buffer_index => h.buffer[j] = g.buffer[j]
      /\ Sent(h) = (IF g.strip_ready THEN Sent(g) + 1 ELSE Sent(g))
      /\ \A k \in 1 .. Sent(g) : Nth(h, k) = Nth(g, k)
      /\ g.strip_ready => Nth(h, Sent(h)) = {g.buffer[0].n - g.from.fed, g.buffer[1].n - g.from.fed,
                                             v.n - g.from.fed}
  BY <1>1, KeepingStep
<1> HIDE DEF h
<1>3. Fed(h) = Fed(g) + 1 /\ h.fed = g.fed + 1 /\ h.from = g.from
  BY <1>2 DEF Stepped, Fed, IsAssembly
<1>4. h.buffer_index = (IF Fed(h) = 0 THEN 0 ELSE 1) /\ (h.strip_ready <=> Fed(h) >= 1)
  BY <1>1, <1>2, <1>3
<1>5. Sent(h) = IF Fed(h) = 0 THEN 0 ELSE Fed(h) - 1
  BY <1>0, <1>1, <1>2, <1>3
<1>6. h.buffer[0].n = h.from.fed + 1
  BY <1>0, <1>1, <1>2, <1>3 DEF Fed
<1>7. Fed(h) >= 2 => h.buffer[1].n = h.fed
  BY <1>0, <1>1, <1>2, <1>3
<1>8. Sent(h) >= 2 => Nth(h, Sent(h)) = {1, Sent(h), Sent(h) + 1}
  <2>1. SUFFICES ASSUME Sent(h) >= 2
                 PROVE  Nth(h, Sent(h)) = {1, Sent(h), Sent(h) + 1}
    OBVIOUS
  <2>2. Fed(g) >= 2 /\ g.strip_ready /\ Sent(h) = Fed(g)
    BY <1>0, <1>1, <1>3, <1>5, <2>1
  <2>3. /\ g.buffer[0].n - g.from.fed = 1 /\ g.buffer[1].n - g.from.fed = Sent(h)
        /\ v.n - g.from.fed = Sent(h) + 1
    BY <1>0, <1>1, <2>2 DEF Fed
  <2> QED BY <1>2, <2>2, <2>3
<1>9. \A k \in 2 .. Sent(h) : Nth(h, k) = {1, k, k + 1}
  <2>1. ASSUME NEW k \in 2 .. Sent(h)
        PROVE  k \in 2 .. Sent(g) \/ (k = Sent(h) /\ Sent(h) >= 2)
    BY <1>1, <1>2
  <2> QED BY <1>0, <1>1, <1>2, <1>8, <2>1
<1>10. FanAssembled(h)
  BY <1>4, <1>5, <1>6, <1>7, <1>9 DEF FanAssembled
<1> QED BY <1>2, <1>10 DEF h

\* A vertex is drawn.
LEMMA VertexDrawn ==
    ASSUME NEW g, IsGpu(g), Assembled(g), NEW mem, NEW indexed, NEW place
    PROVE  LET h == DrawVertex(g, mem, indexed, place)
           IN  Stepped(g, h) /\ Assembled(h)
<1> DEFINE v == Shaded(g, mem, VertexNumber(g.regs, mem, indexed, place))
           h == PrimitiveAssembly_SubmitVertex(Counted(g, {v}), v)
<1>1. DrawVertex(g, mem, indexed, place) = h
  BY DEF DrawVertex, Counted
<1>2. v.n = g.fed + 1
  BY DEF Shaded
<1> HIDE DEF v
<1>3. Topology(g) \in 0 .. 3 /\ IsAssembly(g)
  <2>1. TriangleTopology \in Registers
    BY PortsApart
  <2>2. g.regs[TriangleTopology][1] \in Nat
    BY <2>1 DEF IsGpu, Regs
  <2> QED BY <2>2 DEF Assembled, Topology
<1>4. /\ Stepped(g, h)
      /\ Topology(g) \in {0, 3} => ListAssembled(h)
      /\ Topology(g) = 1 => StripAssembled(h)
      /\ Topology(g) = 2 => FanAssembled(h)
  <2>1. CASE Topology(g) \in {0, 3}
    BY <1>2, <1>3, <2>1, ListStep DEF Assembled
  <2>2. CASE Topology(g) = 1
    BY <1>2, <1>3, <2>2, StripStep DEF Assembled
  <2>3. CASE Topology(g) = 2
    BY <1>2, <1>3, <2>3, FanStep DEF Assembled
  <2> QED BY <1>3, <2>1, <2>2, <2>3
<1> HIDE DEF h
<1>5. Topology(h) = Topology(g)
  BY <1>4 DEF Stepped, Topology
<1> QED BY <1>1, <1>4, <1>5 DEF Assembled, Stepped

-----------------------------------------------------------------------------
(* Recursion along a count.                                                   *)

\* The order of the natural numbers, as a set of pairs.
Lt == {ss \in Nat \X Nat : ss[1] < ss[2]}

\* A set of numbers has a least one.
LEMMA Least ==
    ASSUME NEW T \in SUBSET Nat, T # {}
    PROVE  \E m \in T : \A y \in T : m <= y
<1>1. IsWellFoundedOn(Lt, Nat)
  BY NatLessThanWellFounded DEF OpToRel, Lt
<1>2. \E x \in T : \A y \in T : <<y, x>> \notin Lt
  BY <1>1, WFMin
<1>3. ASSUME NEW x \in T, NEW y \in T, <<y, x>> \notin Lt
      PROVE  x <= y
  <2>1. <<y, x>>[1] = y /\ <<y, x>>[2] = x
    OBVIOUS
  <2> QED BY <1>3, <2>1 DEF Lt
<1> QED BY <1>2, <1>3

\* Induction, for a set.
LEMMA SetInduction ==
    ASSUME NEW S, 0 \in S, \A n \in Nat : n \in S => n + 1 \in S
    PROVE  Nat \subseteq S
<1>1. SUFFICES ASSUME Nat \ S # {}
               PROVE  FALSE
  OBVIOUS
<1>2. PICK m \in Nat \ S : \A y \in Nat \ S : m <= y
  BY <1>1, Least
<1>3. m # 0 /\ m - 1 \in Nat
  BY <1>2
<1>4. m - 1 \in S
  BY <1>2, <1>3
<1> QED BY <1>2, <1>3, <1>4

\* The states after each vertex of a draw.
LEMMA VerticesInTurn ==
    ASSUME NEW g, NEW mem, NEW indexed, Number(g.regs[NumVertices]) \in Nat
    PROVE  LET n == Number(g.regs[NumVertices])
           IN  \E F : /\ F[0] = g /\ \A k \in 1 .. n : F[k] = DrawVertex(F[k - 1], mem, indexed, k - 1)
                      /\ DrawVertices(g, mem, indexed) = F[n]
<1> DEFINE n == Number(g.regs[NumVertices])
           Op(x, k) == DrawVertex(x, mem, indexed, k - 1)
           Eq(f, m) == f = [k \in 0 .. m |-> IF k = 0 THEN g ELSE Op(f[k - 1], k)]
           S == {m \in Nat : \E f : Eq(f, m)}
<1> HIDE DEF n, Op
<1>1. 0 \in S
  <2>1. [k \in 0 .. 0 |-> g] = [k \in 0 .. 0 |-> IF k = 0 THEN g ELSE Op([i \in 0 .. 0 |-> g][k - 1], k)]
    OBVIOUS
  <2> QED BY <2>1
<1>2. ASSUME NEW m \in Nat, m \in S
      PROVE  m + 1 \in S
  <2>1. PICK f : Eq(f, m)
    BY <1>2
  <2> DEFINE h == [k \in 0 .. m + 1 |-> IF k = m + 1 THEN Op(f[m], m + 1) ELSE f[k]]
  <2>2. h[m + 1] = Op(f[m], m + 1) /\ \A k \in 0 .. m : h[k] = f[k]
    OBVIOUS
  <2>3. h = [k \in 0 .. m + 1 |-> h[k]]
    OBVIOUS
  <2> HIDE DEF h
  <2>4. \A k \in 0 .. m + 1 : h[k] = IF k = 0 THEN g ELSE Op(h[k - 1], k)
    <3>1. \A k \in 0 .. m : f[k] = IF k = 0 THEN g ELSE Op(f[k - 1], k)
      BY <2>1
    <3>2. \A k \in 0 .. m + 1 : k # m + 1 => k \in 0 .. m /\ (k # 0 => k - 1 \in 0 .. m)
      OBVIOUS
    <3> QED BY <2>2, <3>1, <3>2
  <2>5. Eq(h, m + 1)
    BY <2>3, <2>4, Zenon
  <2> QED BY <2>5
<1>3. n \in S
  BY <1>1, <1>2, SetInduction DEF n
<1> DEFINE F == CHOOSE f : Eq(f, n)
<1>4. Eq(F, n)
  BY <1>3
<1>5. DrawVertices(g, mem, indexed) = F[n]
  BY DEF DrawVertices, Repeated, n, Op
<1> HIDE DEF F
<1>6. F[0] = g /\ \A k \in 1 .. n : F[k] = Op(F[k - 1], k)
  BY <1>3, <1>4 DEF n
<1> QED BY <1>5, <1>6 DEF n, Op

\* Drawing any number of vertices leaves them assembled.
LEMMA VerticesDrawn ==
    ASSUME NEW g, IsGpu(g), Assembled(g), NEW mem, NEW indexed
    PROVE  LET h == DrawVertices(g, mem, indexed)
           IN  IsGpu(h) /\ Assembled(h) /\ SameUniforms(g, h) /\ h.regs = g.regs
<1> DEFINE n == Number(g.regs[NumVertices])
<1>1. n \in Nat
  <2>1. NumVertices \in Registers
    BY PortsApart
  <2> QED BY <2>1, NumberIsNat DEF IsGpu, Regs
<1>2. PICK F : /\ F[0] = g /\ \A k \in 1 .. n : F[k] = DrawVertex(F[k - 1], mem, indexed, k - 1)
               /\ DrawVertices(g, mem, indexed) = F[n]
  BY <1>1, VerticesInTurn
<1> HIDE DEF n
<1> DEFINE P(h) == IsGpu(h) /\ Assembled(h) /\ SameUniforms(g, h) /\ h.regs = g.regs
           S == {k \in Nat : k <= n => P(F[k])}
<1>3. 0 \in S
  BY <1>2 DEF SameUniforms
<1>4. ASSUME NEW k \in Nat, k \in S
      PROVE  k + 1 \in S
  <2>1. SUFFICES ASSUME k + 1 <= n
                 PROVE  P(F[k + 1])
    OBVIOUS
  <2>2. P(F[k])
    BY <1>1, <1>4, <2>1
  <2>3. F[k + 1] = DrawVertex(F[k], mem, indexed, k)
    <3>1. k + 1 \in 1 .. n /\ (k + 1) - 1 = k
      BY <1>1, <2>1
    <3> QED BY <1>2, <3>1
  <2>4. Stepped(F[k], F[k + 1]) /\ Assembled(F[k + 1])
    BY <2>2, <2>3, VertexDrawn
  <2> QED BY <2>2, <2>4 DEF Stepped, SameUniforms
<1>5. n \in S
  BY <1>1, <1>3, <1>4, SetInduction
<1> QED BY <1>1, <1>2, <1>5

-----------------------------------------------------------------------------
(* Words of uniforms.                                                         *)

\* What is not about uniforms is as it was.
OnlyUniforms(g, h) ==
    IsGpu(h) /\ SameTriangles(g, h) /\ h.regs[TriangleTopology] = g.regs[TriangleTopology]

\* What the next word of a uniform does: it is kept, or the last one of a vector writes it.
LEMMA WordTaken ==
    ASSUME NEW g, IsGpu(g), NEW word
    PROVE  LET h == FloatUniformWord(g, word)
               gathered == Append(g.tembuffer, word)
               config == g.regs[VSFloatUniformSetup]
           IN  /\ OnlyUniforms(g, h)
               /\ h.regs[VSFloatUniformSetup][3] = config[3]
               /\ ~Completes(g, word) =>
                    h.tembuffer = gathered /\ h.float = g.float /\ h.regs = g.regs
               /\ (Completes(g, word) /\ config[0] % 128 <= 95) =>
                    /\ h.tembuffer = <<>>
                    /\ h.float = [g.float EXCEPT ![config[0] % 128] = Decoded(gathered)]
                    /\ h.regs[VSFloatUniformSetup][0] = config[0] + 1
<1> DEFINE h == FloatUniformWord(g, word)
           gathered == Append(g.tembuffer, word)
           config == g.regs[VSFloatUniformSetup]
<1>1. /\ VSFloatUniformSetup \in Registers /\ TriangleTopology \in Registers
      /\ VSFloatUniformSetup # TriangleTopology
  BY PortsApart
<1>2. CASE ~Completes(g, word)
  <2>1. h = [g EXCEPT !.tembuffer = gathered]
    BY <1>2 DEF FloatUniformWord, Refused
  <2> HIDE DEF gathered, h
  <2> QED BY <1>1, <1>2, <2>1 DEF OnlyUniforms, IsGpu, IsRecord, Fields, SameTriangles, gathered, h
<1>3. CASE Refused(g, word)
  <2>1. Completes(g, word) /\ config[0] % 128 > 95 /\ config[0] \in Nat
    BY <1>1, <1>3 DEF Refused, IsGpu, Regs
  <2>2. h = [g EXCEPT !.tembuffer = <<>>]
    BY <1>3, <2>1 DEF FloatUniformWord
  <2>3. ~(config[0] % 128 <= 95)
    BY <2>1
  <2> HIDE DEF gathered, h
  <2>4. OnlyUniforms(g, h) /\ h.regs = g.regs
    BY <1>1, <2>2 DEF OnlyUniforms, IsGpu, IsRecord, Fields, SameTriangles
  <2> QED BY <2>1, <2>3, <2>4 DEF gathered, h
<1>4. CASE Completes(g, word) /\ ~Refused(g, word)
  <2> DEFINE vector == Decoded(gathered)
             place == config[0] % 128
  <2>1. h = [g EXCEPT !.tembuffer = <<>>, !.float[place] = vector,
                      !.regs[VSFloatUniformSetup][0] = @ + 1]
    BY <1>4 DEF FloatUniformWord
  <2> HIDE DEF vector, place, h
  <2>2. /\ h.tembuffer = <<>> /\ h.float = [g.float EXCEPT ![place] = vector]
        /\ IsRecord(h) /\ SameTriangles(g, h)
    BY <2>1 DEF IsGpu, IsRecord, Fields, SameTriangles
  <2>3. /\ h.regs \in Regs /\ h.regs[TriangleTopology] = g.regs[TriangleTopology]
        /\ h.regs[VSFloatUniformSetup][0] = config[0] + 1 /\ h.regs[VSFloatUniformSetup][3] = config[3]
    BY <1>1, <2>1 DEF IsGpu, IsRecord, Fields, Regs
  <2> QED BY <1>4, <2>2, <2>3 DEF OnlyUniforms, IsGpu, vector, place, h
<1> QED BY <1>2, <1>3, <1>4

\* Two steps about uniforms are one.
LEMMA OnlyUniformsTwice ==
    ASSUME NEW f, NEW g, NEW h, OnlyUniforms(f, g), OnlyUniforms(g, h)
    PROVE  OnlyUniforms(f, h)
BY DEF OnlyUniforms, SameTriangles

\* The states after each word.
LEMMA WordsInTurn ==
    ASSUME NEW g, NEW words, Len(words) \in Nat
    PROVE  \E F : /\ F[0] = [gpu |-> g, on |-> TRUE]
                  /\ \A k \in 1 .. Len(words) : F[k] = NextWord(F[k - 1], words[k])
                  /\ FloatUniforms(g, words) = F[Len(words)].gpu
<1> DEFINE n == Len(words)
           s == [gpu |-> g, on |-> TRUE]
           Op(x, k) == NextWord(x, words[k])
           Eq(f, m) == f = [k \in 0 .. m |-> IF k = 0 THEN s ELSE Op(f[k - 1], k)]
           S == {m \in Nat : \E f : Eq(f, m)}
<1> HIDE DEF n, Op, s
<1>1. 0 \in S
  <2>1. [k \in 0 .. 0 |-> s] = [k \in 0 .. 0 |-> IF k = 0 THEN s ELSE Op([i \in 0 .. 0 |-> s][k - 1], k)]
    OBVIOUS
  <2> QED BY <2>1
<1>2. ASSUME NEW m \in Nat, m \in S
      PROVE  m + 1 \in S
  <2>1. PICK f : Eq(f, m)
    BY <1>2
  <2> DEFINE h == [k \in 0 .. m + 1 |-> IF k = m + 1 THEN Op(f[m], m + 1) ELSE f[k]]
  <2>2. h[m + 1] = Op(f[m], m + 1) /\ \A k \in 0 .. m : h[k] = f[k]
    OBVIOUS
  <2>3. h = [k \in 0 .. m + 1 |-> h[k]]
    OBVIOUS
  <2> HIDE DEF h
  <2>4. \A k \in 0 .. m + 1 : h[k] = IF k = 0 THEN s ELSE Op(h[k - 1], k)
    <3>1. \A k \in 0 .. m : f[k] = IF k = 0 THEN s ELSE Op(f[k - 1], k)
      BY <2>1
    <3>2. \A k \in 0 .. m + 1 : k # m + 1 => k \in 0 .. m /\ (k # 0 => k - 1 \in 0 .. m)
      OBVIOUS
    <3> QED BY <2>2, <3>1, <3>2
  <2>5. Eq(h, m + 1)
    BY <2>3, <2>4, Zenon
  <2> QED BY <2>5
<1>3. n \in S
  BY <1>1, <1>2, SetInduction DEF n
<1> DEFINE F == CHOOSE f : Eq(f, n)
<1>4. Eq(F, n)
  BY <1>3
<1>5. FloatUniforms(g, words) = F[n].gpu
  BY DEF FloatUniforms, Repeated, n, Op, s
<1> HIDE DEF F
<1>6. F[0] = s /\ \A k \in 1 .. n : F[k] = Op(F[k - 1], k)
  BY <1>3, <1>4 DEF n
<1> QED BY <1>5, <1>6 DEF n, Op, s

-----------------------------------------------------------------------------
(* Sequences one after the other.                                             *)

\* What \o keeps of its parts.
LEMMA Joined ==
    ASSUME NEW X, NEW s \in Seq(X), NEW t \in Seq(X), NEW u, u = s \o t
    PROVE  /\ u \in Seq(X) /\ Len(u) = Len(s) + Len(t)
           /\ Len(s) \in Nat /\ Len(t) \in Nat
           /\ \A k \in 1 .. Len(s) : u[k] = s[k]
           /\ \A k \in 1 .. Len(t) : u[Len(s) + k] = t[k]
OBVIOUS

AreSequences(seqs, X) ==
    /\ Len(seqs) \in Nat
    /\ Len(seqs) = 0 => seqs = <<>>
    /\ \A k \in 1 .. Len(seqs) : seqs[k] \in Seq(X)

\* Where each sequence begins.
Begins(off, seqs) ==
    /\ off \in [0 .. Len(seqs) -> Nat] /\ off[0] = 0
    /\ \A b \in 1 .. Len(seqs) : off[b] = off[b - 1] + Len(seqs[b])

\* FlattenSeq joins one sequence after the other.
LEMMA JoinedInTurn ==
    ASSUME NEW seqs, Len(seqs) \in Nat, Len(seqs) > 0
    PROVE  \E F : /\ F[1] = seqs[1] /\ \A k \in 2 .. Len(seqs) : F[k] = F[k - 1] \o seqs[k]
                  /\ FlattenSeq(seqs) = F[Len(seqs)]
<1> DEFINE n == Len(seqs)
           Op(x, k) == x \o seqs[k]
           Eq(f, m) == f = [k \in 1 .. m |-> IF k = 1 THEN seqs[k] ELSE Op(f[k - 1], k)]
           S == {m \in Nat : m > 0 => \E f : Eq(f, m)}
<1> HIDE DEF n, Op
<1>1. 0 \in S
  OBVIOUS
<1>2. ASSUME NEW m \in Nat, m \in S
      PROVE  m + 1 \in S
  <2>1. PICK f : m > 0 => Eq(f, m)
    BY <1>2
  <2> DEFINE h == [k \in 1 .. m + 1 |-> IF k = 1 THEN seqs[k] ELSE IF k = m + 1 THEN Op(f[m], m + 1) ELSE f[k]]
  <2>2. /\ h[1] = seqs[1]
        /\ m > 0 => h[m + 1] = Op(f[m], m + 1)
        /\ \A k \in 2 .. m : h[k] = f[k]
    OBVIOUS
  <2>3. h = [k \in 1 .. m + 1 |-> h[k]]
    OBVIOUS
  <2> HIDE DEF h
  <2>4. \A k \in 1 .. m + 1 : h[k] = IF k = 1 THEN seqs[k] ELSE Op(h[k - 1], k)
    <3>1. m > 0 => \A k \in 1 .. m : f[k] = IF k = 1 THEN seqs[k] ELSE Op(f[k - 1], k)
      BY <2>1
    <3>2. \A k \in 1 .. m + 1 : k = 1 \/ (m > 0 /\ k = m + 1) \/ (m > 0 /\ k \in 2 .. m /\ k - 1 \in 1 .. m)
      OBVIOUS
    <3>3. ASSUME m > 0, NEW k \in 1 .. m
          PROVE  h[k] = f[k]
      <4>1. k = 1 \/ k \in 2 .. m
        OBVIOUS
      <4>2. f[1] = seqs[1]
        BY <3>1, <3>3
      <4> QED BY <2>2, <4>1, <4>2
    <3>4. m > 0 => h[m] = f[m] /\ (m + 1) - 1 = m /\ m + 1 # 1
      BY <3>3
    <3>5. ASSUME m > 0, NEW k \in 2 .. m
          PROVE  h[k] = Op(h[k - 1], k)
      <4>1. k \in 1 .. m /\ k - 1 \in 1 .. m /\ k # 1
        OBVIOUS
      <4>2. f[k] = Op(f[k - 1], k)
        BY <3>1, <3>5, <4>1
      <4>3. h[k] = f[k] /\ h[k - 1] = f[k - 1]
        BY <3>3, <3>5, <4>1
      <4> QED BY <4>2, <4>3
    <3>6. m > 0 => h[m + 1] = Op(h[(m + 1) - 1], m + 1)
      BY <2>2, <3>4
    <3> QED BY <2>2, <3>2, <3>4, <3>5, <3>6
  <2>5. Eq(h, m + 1)
    BY <2>3, <2>4, Zenon
  <2> QED BY <2>5
<1>3. \E f : Eq(f, n)
  BY <1>1, <1>2, SetInduction DEF n
<1> DEFINE F == CHOOSE f : Eq(f, n)
<1>4. Eq(F, n)
  BY <1>3
<1>5. FlattenSeq(seqs) = F[n]
  <2>1. ~(n = 0)
    BY DEF n
  <2> QED BY <2>1, Zenon DEF FlattenSeq, n, Op
<1> HIDE DEF F
<1>6. F[1] = seqs[1] /\ \A k \in 2 .. n : F[k] = Op(F[k - 1], k)
  BY <1>4 DEF n
<1> QED BY <1>5, <1>6 DEF n, Op

\* What FlattenSeq makes of sequences.
LEMMA Flattened ==
    ASSUME NEW X, NEW seqs, AreSequences(seqs, X)
    PROVE  /\ FlattenSeq(seqs) \in Seq(X)
           /\ \E off : /\ Begins(off, seqs) /\ Len(FlattenSeq(seqs)) = off[Len(seqs)]
                      /\ \A b \in 1 .. Len(seqs) : \A i \in 1 .. Len(seqs[b]) :
                            FlattenSeq(seqs)[off[b - 1] + i] = seqs[b][i]
<1> DEFINE n == Len(seqs)
<1>1. n \in Nat /\ \A k \in 1 .. n : seqs[k] \in Seq(X) /\ Len(seqs[k]) \in Nat
  BY DEF AreSequences
<1>2. CASE n = 0
  <2> DEFINE off == [b \in 0 .. 0 |-> 0]
  <2>1. FlattenSeq(seqs) = seqs
    BY <1>2 DEF FlattenSeq
  <2>2. seqs = <<>>
    BY <1>2 DEF AreSequences
  <2>3. Begins(off, seqs) /\ off[Len(seqs)] = 0
    BY <1>2 DEF Begins
  <2> HIDE DEF off
  <2> QED BY <1>2, <2>1, <2>2, <2>3
<1>3. CASE n > 0
  <2>1. PICK F : /\ F[1] = seqs[1] /\ \A k \in 2 .. n : F[k] = F[k - 1] \o seqs[k]
                 /\ FlattenSeq(seqs) = F[n]
    BY <1>1, <1>3, JoinedInTurn
  <2> HIDE DEF n
  <2> DEFINE off == [b \in 0 .. n |-> IF b = 0 THEN 0 ELSE Len(F[b])]
             P(c) == /\ F[c] \in Seq(X) /\ off[c] = off[c - 1] + Len(seqs[c])
                     /\ off[c] \in Nat /\ Len(F[c]) = off[c]
                     /\ \A b \in 1 .. c : off[b] \in Nat /\ off[b - 1] \in Nat /\ off[b] <= off[c]
                                          /\ off[b] = off[b - 1] + Len(seqs[b])
                     /\ \A b \in 1 .. c : \A i \in 1 .. Len(seqs[b]) : F[c][off[b - 1] + i] = seqs[b][i]
             S == {m \in Nat : m >= 1 /\ m <= n => P(m)}
  <2>2. /\ off = [b \in 0 .. n |-> off[b]] /\ off[0] = 0
        /\ \A b \in 1 .. n : off[b] = Len(F[b])
    BY <1>1
  <2> HIDE DEF off
  <2>3. ASSUME 1 <= n
        PROVE  P(1)
    <3>1. F[1] \in Seq(X) /\ F[1] = seqs[1] /\ Len(seqs[1]) \in Nat
      BY <1>1, <2>1, <2>3
    <3>2. off[1] = Len(seqs[1]) /\ off[0] = 0
      <4>1. 1 \in 1 .. n
        BY <1>1, <2>3
      <4>2. off[1] = Len(F[1])
        BY <2>2, <4>1
      <4> QED BY <2>2, <3>1, <4>2
    <3>3. \A b \in 1 .. 1 : b = 1 /\ b - 1 = 0
      OBVIOUS
    <3> HIDE DEF S
    <3> QED BY <3>1, <3>2, <3>3
  <2>4. ASSUME NEW m \in Nat, m \in S
        PROVE  m + 1 \in S
    <3>1. SUFFICES ASSUME m + 1 <= n
                   PROVE  P(m + 1)
      OBVIOUS
    <3>2. CASE m = 0
      BY <2>3, <3>1, <3>2
    <3>3. CASE m >= 1
      <4>1. P(m)
        BY <1>1, <2>4, <3>1, <3>3
      <4>8. /\ F[m] \in Seq(X) /\ Len(F[m]) = off[m] /\ off[m] \in Nat
            /\ \A b \in 1 .. m : off[b] \in Nat /\ off[b - 1] \in Nat /\ off[b] <= off[m]
                                 /\ off[b] = off[b - 1] + Len(seqs[b])
            /\ \A b \in 1 .. m : \A i \in 1 .. Len(seqs[b]) : F[m][off[b - 1] + i] = seqs[b][i]
        BY <4>1
      <4> HIDE DEF P, S
      <4>2. m + 1 \in 2 .. n /\ (m + 1) - 1 = m /\ m + 1 \in 1 .. n
        BY <1>1, <3>1, <3>3
      <4>3. F[m + 1] = F[m] \o seqs[m + 1] /\ seqs[m + 1] \in Seq(X)
        BY <1>1, <2>1, <4>2
      <4>4. /\ F[m + 1] \in Seq(X) /\ Len(F[m + 1]) = Len(F[m]) + Len(seqs[m + 1])
            /\ Len(F[m]) \in Nat /\ Len(seqs[m + 1]) \in Nat
            /\ \A k \in 1 .. Len(F[m]) : F[m + 1][k] = F[m][k]
            /\ \A k \in 1 .. Len(seqs[m + 1]) : F[m + 1][Len(F[m]) + k] = seqs[m + 1][k]
        <5>1. F[m] \in Seq(X)
          BY <4>8
        <5> DEFINE s == F[m]
                   t == seqs[m + 1]
                   u == F[m + 1]
        <5>2. s \in Seq(X) /\ t \in Seq(X) /\ u = s \o t
          BY <4>3, <5>1
        <5> HIDE DEF s, t, u
        <5>3. /\ u \in Seq(X) /\ Len(u) = Len(s) + Len(t)
              /\ Len(s) \in Nat /\ Len(t) \in Nat
              /\ \A k \in 1 .. Len(s) : u[k] = s[k]
              /\ \A k \in 1 .. Len(t) : u[Len(s) + k] = t[k]
          BY <5>2, Joined
        <5> QED BY <5>3 DEF s, t, u
      <4>5. off[m + 1] = Len(F[m + 1]) /\ off[m + 1] = off[m] + Len(seqs[m + 1]) /\ off[m + 1] \in Nat
        <5>1. off[m + 1] = Len(F[m + 1])
          BY <2>2, <4>2
        <5>2. Len(F[m + 1]) = off[m] + Len(seqs[m + 1]) /\ Len(seqs[m + 1]) \in Nat /\ off[m] \in Nat
          BY <4>4, <4>8
        <5> QED BY <5>1, <5>2
      <4>6. ASSUME NEW b \in 1 .. m + 1
            PROVE  /\ off[b] \in Nat /\ off[b - 1] \in Nat /\ off[b] <= off[m + 1]
                   /\ off[b] = off[b - 1] + Len(seqs[b])
        <5>1. CASE b = m + 1
          BY <4>2, <4>4, <4>5, <4>8, <5>1
        <5>2. CASE b \in 1 .. m
          <6>1. /\ off[b] \in Nat /\ off[b - 1] \in Nat /\ off[b] <= off[m]
                /\ off[b] = off[b - 1] + Len(seqs[b])
            BY <4>8, <5>2
          <6>2. Len(F[m]) = off[m] /\ Len(seqs[m + 1]) \in Nat /\ off[m] \in Nat /\ off[m + 1] = off[m] + Len(seqs[m + 1])
            BY <4>4, <4>5, <4>8
          <6> QED BY <6>1, <6>2
        <5> QED BY <5>1, <5>2
      <4>7. ASSUME NEW b \in 1 .. m + 1, NEW i \in 1 .. Len(seqs[b])
            PROVE  F[m + 1][off[b - 1] + i] = seqs[b][i]
        <5>1. CASE b = m + 1
          BY <4>2, <4>4, <4>8, <5>1
        <5>2. CASE b \in 1 .. m
          <6>1. off[b] <= off[m] /\ off[b] = off[b - 1] + Len(seqs[b]) /\ off[b] \in Nat /\ off[b - 1] \in Nat
            BY <4>8, <5>2
          <6>4. F[m][off[b - 1] + i] = seqs[b][i]
            BY <4>8, <5>2
          <6>2. Len(seqs[b]) \in Nat
            BY <1>1, <4>2, <5>2
          <6>3. off[b - 1] + i \in 1 .. Len(F[m])
            <7>1. Len(F[m]) = off[m] /\ off[m] \in Nat
              BY <4>8
            <7> HIDE DEF off
            <7> QED BY <6>1, <6>2, <7>1
          <6> QED BY <4>4, <6>3, <6>4
        <5> QED BY <5>1, <5>2
      <4> QED BY <4>2, <4>4, <4>5, <4>6, <4>7 DEF P
    <3> QED BY <2>4, <3>2, <3>3
  <2>5. 0 \in S
    OBVIOUS
  <2>6. \A m \in 1 .. n : P(m)
    <3> HIDE DEF P
    <3>1. Nat \subseteq S
      BY <2>4, <2>5, SetInduction
    <3> QED BY <3>1
  <2>7. Begins(off, seqs)
    <3>1. \A b \in 0 .. n : off[b] \in Nat
      <4>1. \A b \in 1 .. n : off[b] \in Nat
        BY <2>6
      <4>2. \A b \in 0 .. n : b = 0 \/ b \in 1 .. n
        BY <1>1
      <4> QED BY <2>2, <4>1, <4>2
    <3>2. off \in [0 .. n -> Nat]
      BY <2>2, <3>1
    <3>3. \A b \in 1 .. n : off[b] = off[b - 1] + Len(seqs[b])
      BY <2>6
    <3> QED BY <2>2, <3>2, <3>3 DEF Begins, n
  <2>8. P(n)
    BY <1>1, <1>3, <2>6
  <2>9. /\ FlattenSeq(seqs) \in Seq(X) /\ Len(FlattenSeq(seqs)) = off[n]
        /\ \A b \in 1 .. n : \A i \in 1 .. Len(seqs[b]) : FlattenSeq(seqs)[off[b - 1] + i] = seqs[b][i]
    BY <2>1, <2>8
  <2> QED BY <2>7, <2>9 DEF n
<1> QED BY <1>1, <1>2, <1>3

-----------------------------------------------------------------------------
(* The words of a batch of uniforms.                                          *)

IsBatch(b) ==
    /\ b.first \in Nat /\ b.f32 \in BOOLEAN /\ b.vectors \in Seq([Comp -> Int])
    /\ b.first + Len(b.vectors) <= 96

Width(b) == IF b.f32 THEN 4 ELSE 3
SetupFor(b) == [batch |-> b]
WordFor(b, k, p) == [word |-> UniformWord(b.vectors[k], Width(b), p)]

\* A batch's items: its configuration, then the words of each vector in turn.
LEMMA ItemsAre ==
    ASSUME NEW b, IsBatch(b)
    PROVE  /\ IsSequence(Items(b)) /\ Len(b.vectors) \in Nat
           /\ Len(Items(b)) = 1 + Width(b) * Len(b.vectors)
           /\ Items(b)[1] = [batch |-> b]
           /\ \A k \in 1 .. Len(b.vectors), p \in 1 .. Width(b) :
                Items(b)[1 + Width(b) * (k - 1) + p] = WordFor(b, k, p)
<1> DEFINE v == Len(b.vectors)
           W == Width(b)
           words(k) == [p \in 1 .. W |-> WordFor(b, k, p)]
           seqs == [k \in 1 .. v |-> words(k)]
           X == {WordFor(b, k, p) : k \in 1 .. v, p \in 1 .. W}
           flat == FlattenSeq(seqs)
<1>1. v \in Nat /\ DOMAIN b.vectors = 1 .. v /\ W \in {3, 4}
  BY DEF IsBatch, Width
<1>2. Items(b) = <<[batch |-> b]>> \o flat
  <2> DEFINE given == [k \in DOMAIN b.vectors |->
                        [p \in 1 .. Width(b) |-> [word |-> UniformWord(b.vectors[k], Width(b), p)]]]
  <2>1. given = seqs
    BY <1>1 DEF WordFor
  <2>2. Items(b) = <<[batch |-> b]>> \o FlattenSeq(given)
    BY DEF Items, Width
  <2>3. flat = FlattenSeq(given)
    <3> HIDE DEF given, seqs
    <3> QED BY <2>1
  <2> HIDE DEF given, flat
  <2> QED BY <2>2, <2>3, Zenon
<1> HIDE DEF v, W
<1>3. ASSUME NEW k \in 1 .. v
      PROVE  words(k) \in Seq(X) /\ Len(words(k)) = W
  <2> DEFINE s == words(k)
  <2>1. W \in Nat /\ \A p \in 1 .. W : WordFor(b, k, p) \in X
    BY <1>1
  <2>2. s = [p \in 1 .. W |-> WordFor(b, k, p)]
    OBVIOUS
  <2> HIDE DEF s, X
  <2>3. s \in [1 .. W -> X]
    BY <2>1, <2>2
  <2>4. s \in Seq(X) /\ Len(s) = W
    BY <2>1, <2>3
  <2> QED BY <2>4 DEF s
<1>4. Len(seqs) = v /\ \A k \in 1 .. v : seqs[k] = words(k)
  BY <1>1
<1>5. Len(seqs) = 0 => seqs = <<>>
  BY <1>1, <1>4
<1> HIDE DEF words, seqs
<1>6. AreSequences(seqs, X)
  BY <1>1, <1>3, <1>4, <1>5 DEF AreSequences
<1> HIDE DEF X, flat
<1>7. flat \in Seq(X)
  BY <1>6, Flattened DEF flat
<1>8. PICK off : /\ Begins(off, seqs) /\ Len(flat) = off[Len(seqs)]
                 /\ \A k \in 1 .. Len(seqs) : \A i \in 1 .. Len(seqs[k]) : flat[off[k - 1] + i] = seqs[k][i]
  BY <1>6, Flattened DEF flat
<1>9. off[0] = 0 /\ \A k \in 1 .. v : off[k] = off[k - 1] + W
  BY <1>3, <1>4, <1>8 DEF Begins
<1>10. \A k \in 0 .. v : off[k] = W * k
  <2> DEFINE S == {k \in Nat : k <= v => off[k] = W * k}
  <2>1. 0 \in S
    BY <1>1, <1>9
  <2>2. ASSUME NEW k \in Nat, k \in S
        PROVE  k + 1 \in S
    <3>1. SUFFICES ASSUME k + 1 <= v
                   PROVE  off[k + 1] = W * (k + 1)
      OBVIOUS
    <3>2. off[k + 1] = off[k] + W
      <4>1. k + 1 \in 1 .. v /\ (k + 1) - 1 = k
        BY <1>1, <3>1
      <4> QED BY <1>9, <4>1
    <3>3. off[k] = W * k
      BY <1>1, <2>2, <3>1
    <3>4. CASE W = 3
      BY <3>2, <3>3, <3>4
    <3>5. CASE W = 4
      BY <3>2, <3>3, <3>5
    <3> QED BY <1>1, <3>4, <3>5
  <2> HIDE DEF S
  <2>3. Nat \subseteq S
    BY <2>1, <2>2, SetInduction
  <2> QED BY <1>1, <2>3 DEF S
<1>11. Len(flat) = W * v
  BY <1>1, <1>4, <1>8, <1>10
<1>12. \A k \in 1 .. v, p \in 1 .. W : flat[W * (k - 1) + p] = WordFor(b, k, p)
  <2>1. SUFFICES ASSUME NEW k \in 1 .. v, NEW p \in 1 .. W
                 PROVE  flat[W * (k - 1) + p] = WordFor(b, k, p)
    OBVIOUS
  <2>2. off[k - 1] = W * (k - 1)
    BY <1>1, <1>10
  <2>3. flat[off[k - 1] + p] = seqs[k][p]
    BY <1>1, <1>3, <1>4, <1>8
  <2>4. seqs[k][p] = WordFor(b, k, p)
    BY <1>4 DEF words
  <2> QED BY <2>2, <2>3, <2>4
<1> DEFINE Y == X \cup {[batch |-> b]}
<1>13. flat \in Seq(Y) /\ <<[batch |-> b]>> \in Seq(Y)
  BY <1>7
<1> HIDE DEF Y
<1> DEFINE head == <<[batch |-> b]>>
           items == Items(b)
<1>14. Len(head) = 1 /\ head[1] = [batch |-> b] /\ head \in Seq(Y)
  BY <1>13
<1> HIDE DEF head, items
<1>15. /\ items \in Seq(Y) /\ Len(items) = Len(head) + Len(flat)
       /\ Len(flat) \in Nat
       /\ \A k \in 1 .. Len(head) : items[k] = head[k]
       /\ \A k \in 1 .. Len(flat) : items[Len(head) + k] = flat[k]
  BY <1>2, <1>13, <1>14, Joined DEF head, items
<1>16. IsSequence(items) /\ Len(items) = 1 + W * v /\ items[1] = [batch |-> b]
  <2>1. IsSequence(items)
    BY <1>15 DEF IsSequence
  <2> QED BY <1>11, <1>14, <1>15, <2>1
<1>17. ASSUME NEW k \in 1 .. v, NEW p \in 1 .. W
       PROVE  items[1 + W * (k - 1) + p] = WordFor(b, k, p)
  <2>1. W * (k - 1) + p \in 1 .. Len(flat)
    <3>1. CASE W = 3
      BY <1>1, <1>11, <3>1
    <3>2. CASE W = 4
      BY <1>1, <1>11, <3>2
    <3> QED BY <1>1, <3>1, <3>2
  <2>2. 1 + W * (k - 1) + p = Len(head) + (W * (k - 1) + p)
    <3>1. CASE W = 3
      BY <1>1, <1>14, <3>1
    <3>2. CASE W = 4
      BY <1>1, <1>14, <3>2
    <3> QED BY <1>1, <3>1, <3>2
  <2> QED BY <1>12, <1>15, <2>1, <2>2
<1> QED BY <1>1, <1>16, <1>17 DEF v, W, items

-----------------------------------------------------------------------------
(* Where a word is in the stream of all batches.                              *)

AreBatches(batches) ==
    /\ Len(batches) \in Nat /\ DOMAIN batches = 1 .. Len(batches)
    /\ \A b \in 1 .. Len(batches) : IsBatch(batches[b])

ItemsOf(batches) == [b \in DOMAIN batches |-> Items(batches[b])]

Laid(batches, off) ==
    /\ off \in [0 .. Len(batches) -> Nat] /\ off[0] = 0
    /\ \A b \in 1 .. Len(batches) : off[b] = off[b - 1] + Len(Items(batches[b]))
    /\ Len(Stream(batches)) = off[Len(batches)]
    /\ \A b \in 1 .. Len(batches) : \A i \in 1 .. Len(Items(batches[b])) :
          Stream(batches)[off[b - 1] + i] = Items(batches[b])[i]

\* Behind which word each batch begins.
Starts(batches) == CHOOSE off : Laid(batches, off)

\* The batches' items follow each other in the stream.
LEMMA StartsLaid ==
    ASSUME NEW batches, AreBatches(batches)
    PROVE  Laid(batches, Starts(batches)) /\ IsSequence(Stream(batches))
<1> DEFINE n == Len(batches)
           seqs == ItemsOf(batches)
           X == UNION {Range(Items(batches[b])) : b \in 1 .. n}
<1>1. n \in Nat /\ DOMAIN batches = 1 .. n /\ \A b \in 1 .. n : IsBatch(batches[b])
  BY DEF AreBatches
<1>2. DOMAIN seqs = 1 .. n /\ Len(seqs) = n /\ \A b \in 1 .. n : seqs[b] = Items(batches[b])
  BY <1>1 DEF ItemsOf
<1>3. Len(seqs) = 0 => seqs = <<>>
  BY <1>1, <1>2 DEF ItemsOf
<1>4. Stream(batches) = FlattenSeq(seqs)
  BY DEF Stream, ItemsOf
<1> HIDE DEF n, seqs
<1>5. ASSUME NEW b \in 1 .. n
      PROVE  Items(batches[b]) \in Seq(X)
  <2> DEFINE s == Items(batches[b])
  <2>1. IsSequence(s)
    BY <1>1, ItemsAre
  <2>2. \A k \in DOMAIN s : s[k] \in X
    BY DEF Range
  <2> HIDE DEF s, X
  <2>3. PICK Y : s \in Seq(Y)
    BY <2>1 DEF IsSequence
  <2>4. s \in Seq(X)
    <3>1. Len(s) \in Nat /\ s \in [1 .. Len(s) -> X]
      BY <2>2, <2>3
    <3> QED BY <3>1
  <2> QED BY <2>4 DEF s
<1> HIDE DEF X
<1>6. AreSequences(seqs, X)
  BY <1>1, <1>2, <1>3, <1>5 DEF AreSequences
<1> DEFINE flat == FlattenSeq(seqs)
<1> HIDE DEF flat
<1>7. flat \in Seq(X)
  BY <1>6, Flattened DEF flat
<1>8. PICK off : /\ Begins(off, seqs) /\ Len(flat) = off[Len(seqs)]
                 /\ \A b \in 1 .. Len(seqs) : \A i \in 1 .. Len(seqs[b]) : flat[off[b - 1] + i] = seqs[b][i]
  BY <1>6, Flattened DEF flat
<1>9. Laid(batches, off)
  <2>1. off \in [0 .. n -> Nat] /\ off[0] = 0 /\ \A b \in 1 .. n : off[b] = off[b - 1] + Len(Items(batches[b]))
    BY <1>2, <1>8 DEF Begins
  <2>2. Len(flat) = off[n] /\ \A b \in 1 .. n : \A i \in 1 .. Len(Items(batches[b])) :
                                flat[off[b - 1] + i] = Items(batches[b])[i]
    BY <1>2, <1>8
  <2>3. Stream(batches) = flat
    BY <1>4 DEF flat
  <2> QED BY <2>1, <2>2, <2>3, Zenon DEF Laid, n
<1>10. Laid(batches, Starts(batches))
  BY <1>9, Zenon DEF Starts
<1>11. IsSequence(Stream(batches))
  <2>1. IsSequence(flat)
    BY <1>7, Zenon DEF IsSequence
  <2> QED BY <1>4, <2>1, Zenon DEF flat
<1> QED BY <1>10, <1>11

\* The word before which n are sent is, of batch b, the configuration (k and p 0)
\* or word p of the vector behind the first k.
Place(batches, n, b, k, p) ==
    /\ b \in 1 .. Len(batches) /\ k \in 0 .. Len(batches[b].vectors) /\ p \in 0 .. Width(batches[b]) - 1
    /\ k = Len(batches[b].vectors) => p = 0
    /\ n = Starts(batches)[b - 1] + 1 + Width(batches[b]) * k + p

\* A later batch does not begin before an earlier one.
LEMMA StartsGrow ==
    ASSUME NEW batches, AreBatches(batches), NEW b \in 0 .. Len(batches), NEW c \in 0 .. Len(batches), b <= c
    PROVE  Starts(batches)[b] <= Starts(batches)[c]
<1> DEFINE n == Len(batches)
           off == Starts(batches)
           S == {m \in Nat : b + m <= n => off[b] <= off[b + m]}
<1>1. n \in Nat /\ off \in [0 .. n -> Nat] /\ \A d \in 1 .. n : off[d] = off[d - 1] + Len(Items(batches[d]))
  BY StartsLaid DEF AreBatches, Laid
<1>2. \A d \in 1 .. n : Len(Items(batches[d])) \in Nat
  <2>1. ASSUME NEW d \in 1 .. n
        PROVE  Len(Items(batches[d])) \in Nat
    <3>1. IsSequence(Items(batches[d]))
      BY ItemsAre DEF AreBatches
    <3> QED BY <3>1 DEF IsSequence
  <2> QED BY <2>1
<1> HIDE DEF n, off
<1>3. b \in 0 .. n /\ c \in 0 .. n
  BY DEF n
<1>4. 0 \in S
  BY <1>1, <1>3
<1>5. ASSUME NEW m \in Nat, m \in S
      PROVE  m + 1 \in S
  <2>1. SUFFICES ASSUME b + (m + 1) <= n
                 PROVE  off[b] <= off[b + (m + 1)]
    OBVIOUS
  <2>2. off[b] <= off[b + m]
    BY <1>1, <1>3, <1>5, <2>1
  <2>3. b + m + 1 \in 1 .. n /\ (b + m + 1) - 1 = b + m /\ b + (m + 1) = b + m + 1 /\ b + m \in 0 .. n
    BY <1>1, <1>3, <2>1
  <2>4. off[b + m + 1] = off[b + m] + Len(Items(batches[b + m + 1])) /\ Len(Items(batches[b + m + 1])) \in Nat
    BY <1>1, <1>2, <2>3
  <2>5. off[b] \in Nat /\ off[b + m] \in Nat
    BY <1>1, <1>3, <2>3
  <2> QED BY <2>2, <2>3, <2>4, <2>5
<1>6. c - b \in S
  <2> HIDE DEF S
  <2>1. Nat \subseteq S
    BY <1>4, <1>5, SetInduction
  <2> QED BY <1>1, <1>3, <2>1
<1> QED BY <1>1, <1>3, <1>6 DEF off

-----------------------------------------------------------------------------
(* Counting by threes and by fours.                                           *)

\* A number of words is some whole vectors and a part of the next.
LEMMA Divided ==
    ASSUME NEW W \in {3, 4}, NEW V \in Nat, NEW i \in 0 .. W * V
    PROVE  \E k \in 0 .. V, p \in 0 .. W - 1 : (k = V => p = 0) /\ i = W * k + p
<1> DEFINE k == i \div W
           p == i % W
<1>1. CASE W = 3
  <2>1. k \in 0 .. V /\ p \in 0 .. W - 1 /\ (k = V => p = 0) /\ i = W * k + p
    BY <1>1
  <2> QED BY <2>1
<1>2. CASE W = 4
  <2>1. k \in 0 .. V /\ p \in 0 .. W - 1 /\ (k = V => p = 0) /\ i = W * k + p
    BY <1>2
  <2> QED BY <2>1
<1> QED BY <1>1, <1>2

\* And in one way only.
LEMMA DividedOnce ==
    ASSUME NEW W \in {3, 4}, NEW k \in Nat, NEW l \in Nat, NEW p \in 0 .. W - 1, NEW q \in 0 .. W - 1,
           W * k + p = W * l + q
    PROVE  k = l /\ p = q
<1>1. CASE W = 3
  BY <1>1
<1>2. CASE W = 4
  BY <1>2
<1> QED BY <1>1, <1>2

\* The part that is sent is no more than the whole.
LEMMA Counting ==
    ASSUME NEW W \in {3, 4}, NEW V \in Nat, NEW k \in 0 .. V, NEW p \in 0 .. W - 1, k = V => p = 0
    PROVE  /\ W * k \in Nat /\ W * V \in Nat /\ W * k + p <= W * V
           /\ W * (k + 1) = W * k + W /\ k > 0 => W * (k - 1) = W * k - W
<1>1. CASE W = 3
  BY <1>1
<1>2. CASE W = 4
  BY <1>2
<1> QED BY <1>1, <1>2

\* Every item of the stream is in a place of a batch.
LEMMA PlaceExists ==
    ASSUME NEW batches, AreBatches(batches), NEW n \in 1 .. Len(Stream(batches))
    PROVE  \E b, k, p : Place(batches, n, b, k, p)
<1> DEFINE N == Len(batches)
           off == Starts(batches)
           T == {c \in Nat : c <= N /\ n <= off[c]}
<1>1. /\ N \in Nat /\ off \in [0 .. N -> Nat] /\ off[0] = 0 /\ Len(Stream(batches)) = off[N]
      /\ \A d \in 1 .. N : off[d] = off[d - 1] + Len(Items(batches[d]))
  BY StartsLaid DEF AreBatches, Laid
<1> HIDE DEF N, off
<1>2. T # {} /\ T \in SUBSET Nat
  <2>1. N \in T
    BY <1>1
  <2> QED BY <2>1
<1>3. PICK b \in T : \A c \in T : b <= c
  BY <1>2, Least
<1>4. b \in 1 .. N /\ n <= off[b] /\ off[b - 1] < n
  <2>1. b \in Nat /\ b <= N /\ n <= off[b]
    BY <1>3
  <2>2. b # 0
    BY <1>1, <2>1
  <2>3. b - 1 \notin T
    <3>1. b - 1 \in T => b <= b - 1
      BY <1>3
    <3> QED BY <2>1, <3>1
  <2>4. b - 1 \in 0 .. N /\ b \in 1 .. N
    BY <1>1, <2>1, <2>2
  <2>5. off[b - 1] \in Nat
    BY <1>1, <2>4
  <2> QED BY <1>1, <2>1, <2>3, <2>4, <2>5
<1> DEFINE W == Width(batches[b])
           V == Len(batches[b].vectors)
           i == n - off[b - 1] - 1
<1>5. W \in {3, 4} /\ V \in Nat /\ Len(Items(batches[b])) = 1 + W * V
  <2>1. IsBatch(batches[b])
    BY <1>4 DEF AreBatches, N
  <2>2. V \in Nat /\ Len(Items(batches[b])) = 1 + W * V
    BY <2>1, ItemsAre
  <2>3. W \in {3, 4}
    BY DEF Width
  <2> QED BY <2>2, <2>3
<1> HIDE DEF W, V
<1>6. i \in 0 .. W * V /\ off[b - 1] \in Nat /\ n = off[b - 1] + 1 + i
  <2>1. off[b] = off[b - 1] + Len(Items(batches[b])) /\ off[b - 1] \in Nat /\ off[b] \in Nat
    BY <1>1, <1>4
  <2> QED BY <1>4, <1>5, <2>1
<1> HIDE DEF i
<1>7. PICK k \in 0 .. V, p \in 0 .. W - 1 : (k = V => p = 0) /\ i = W * k + p
  BY <1>5, <1>6, Divided
<1>8. n = off[b - 1] + 1 + W * k + p
  <2>1. W * k \in Nat
    BY <1>5, <1>7, Counting
  <2> QED BY <1>5, <1>6, <1>7, <2>1
<1>9. Place(batches, n, b, k, p)
  BY <1>4, <1>7, <1>8 DEF Place, N, off, W, V
<1> QED BY <1>9

\* Between the beginnings of its batch and of the next one, in whole numbers.
LEMMA PlaceWithin ==
    ASSUME NEW batches, AreBatches(batches), NEW n, NEW b, NEW k, NEW p, Place(batches, n, b, k, p)
    PROVE  /\ b \in 1 .. Len(batches) /\ IsBatch(batches[b]) /\ Len(batches) \in Nat
           /\ Width(batches[b]) \in {3, 4} /\ Len(batches[b].vectors) \in Nat
           /\ k \in 0 .. Len(batches[b].vectors) /\ p \in 0 .. Width(batches[b]) - 1
           /\ Starts(batches)[b - 1] \in Nat /\ Starts(batches)[b] \in Nat
           /\ Starts(batches)[b] = Starts(batches)[b - 1] + 1 + Width(batches[b]) * Len(batches[b].vectors)
           /\ n \in Nat /\ Starts(batches)[b - 1] < n /\ n <= Starts(batches)[b]
           /\ n <= Len(Stream(batches))
<1> DEFINE N == Len(batches)
           off == Starts(batches)
           W == Width(batches[b])
           V == Len(batches[b].vectors)
<1>1. /\ N \in Nat /\ off \in [0 .. N -> Nat] /\ Len(Stream(batches)) = off[N]
      /\ \A d \in 1 .. N : off[d] = off[d - 1] + Len(Items(batches[d]))
  BY StartsLaid DEF AreBatches, Laid
<1>2. b \in 1 .. N /\ IsBatch(batches[b])
  BY DEF Place, AreBatches
<1>3. V \in Nat /\ Len(Items(batches[b])) = 1 + W * V /\ W \in {3, 4}
  BY <1>2, ItemsAre DEF Width
<1>4. off[b] <= off[N]
  <2>1. b \in 0 .. N /\ N \in 0 .. N /\ b <= N
    BY <1>1, <1>2
  <2> QED BY <2>1, StartsGrow
<1>5. k \in 0 .. V /\ p \in 0 .. W - 1 /\ (k = V => p = 0) /\ n = off[b - 1] + 1 + W * k + p
  BY DEF Place
<1> HIDE DEF N, off, W, V
<1>6. off[b] = off[b - 1] + 1 + W * V /\ off[b - 1] \in Nat /\ off[b] \in Nat /\ off[N] \in Nat
  <2>1. b \in 0 .. N /\ b - 1 \in 0 .. N /\ N \in 0 .. N
    BY <1>1, <1>2
  <2>2. off[b] = off[b - 1] + Len(Items(batches[b])) /\ off[b - 1] \in Nat /\ off[b] \in Nat /\ off[N] \in Nat
    BY <1>1, <1>2, <2>1
  <2>3. W * V \in Nat
    BY <1>3, <1>5, Counting
  <2> QED BY <1>3, <2>2, <2>3
<1>7. n \in Nat /\ off[b - 1] < n /\ n <= off[b]
  <2>1. W * k \in Nat /\ W * V \in Nat /\ W * k + p <= W * V
    BY <1>3, <1>5, Counting
  <2>2. p \in Nat /\ n = off[b - 1] + 1 + W * k + p
    BY <1>3, <1>5
  <2> QED BY <1>6, <2>1, <2>2
<1>8. n <= off[N]
  BY <1>4, <1>6, <1>7
<1>9. n <= Len(Stream(batches))
  BY <1>1, <1>8
<1> QED BY <1>1, <1>2, <1>3, <1>5, <1>6, <1>7, <1>9 DEF N, off, W, V

\* It is in one place only.
LEMMA PlaceIsUnique ==
    ASSUME NEW batches, AreBatches(batches), NEW n,
           NEW b, NEW k, NEW p, Place(batches, n, b, k, p),
           NEW c, NEW l, NEW q, Place(batches, n, c, l, q)
    PROVE  b = c /\ k = l /\ p = q
<1> DEFINE off == Starts(batches)
<1>1. /\ b \in 1 .. Len(batches) /\ off[b - 1] < n /\ n <= off[b] /\ n \in Nat /\ off[b - 1] \in Nat /\ off[b] \in Nat
      /\ c \in 1 .. Len(batches) /\ off[c - 1] < n /\ n <= off[c] /\ off[c - 1] \in Nat /\ off[c] \in Nat
      /\ Len(batches) \in Nat
  BY PlaceWithin
<1>2. b = c
  <2>1. CASE b < c
    <3>1. b \in 0 .. Len(batches) /\ c - 1 \in 0 .. Len(batches) /\ b <= c - 1
      BY <1>1, <2>1
    <3>2. off[b] <= off[c - 1]
      BY <3>1, StartsGrow
    <3> QED BY <1>1, <3>2
  <2>2. CASE c < b
    <3>1. c \in 0 .. Len(batches) /\ b - 1 \in 0 .. Len(batches) /\ c <= b - 1
      BY <1>1, <2>2
    <3>2. off[c] <= off[b - 1]
      BY <3>1, StartsGrow
    <3> QED BY <1>1, <3>2
  <2> QED BY <1>1, <2>1, <2>2
<1> DEFINE W == Width(batches[b])
<1>3. /\ W \in {3, 4} /\ k \in Nat /\ l \in Nat /\ p \in 0 .. W - 1 /\ q \in 0 .. W - 1
      /\ n = off[b - 1] + 1 + W * k + p /\ n = off[b - 1] + 1 + W * l + q
  <2>1. W \in {3, 4}
    BY DEF Width
  <2>2. /\ k \in 0 .. Len(batches[b].vectors) /\ p \in 0 .. W - 1 /\ n = off[b - 1] + 1 + W * k + p
        /\ l \in 0 .. Len(batches[b].vectors) /\ q \in 0 .. W - 1 /\ n = off[b - 1] + 1 + W * l + q
    BY <1>2 DEF Place
  <2> QED BY <2>1, <2>2
<1> HIDE DEF W, off
<1>4. W * k + p = W * l + q
  <2>1. W * k \in Int /\ W * l \in Int /\ p \in Int /\ q \in Int
    BY <1>3
  <2>2. off[b - 1] \in Nat
    BY <1>1
  <2>3. off[b - 1] + 1 + W * k + p = off[b - 1] + 1 + W * l + q
    BY <1>3
  <2> DEFINE x == W * k
             y == W * l
             o == off[b - 1]
  <2>4. x \in Int /\ y \in Int /\ p \in Int /\ q \in Int /\ o \in Int /\ o + 1 + x + p = o + 1 + y + q
    BY <2>1, <2>2, <2>3
  <2> HIDE DEF x, y, o
  <2>5. x + p = y + q
    BY <2>4
  <2> QED BY <2>5 DEF x, y
<1>5. k = l /\ p = q
  BY <1>3, <1>4, DividedOnce
<1> QED BY <1>2, <1>5

\* The word at a place.
LEMMA WordAt ==
    ASSUME NEW batches, AreBatches(batches), NEW n, NEW b, NEW k, NEW p, Place(batches, n, b, k, p)
    PROVE  /\ p > 0 => Stream(batches)[n] = WordFor(batches[b], k + 1, p)
           /\ (p = 0 /\ k > 0) => Stream(batches)[n] = WordFor(batches[b], k, Width(batches[b]))
           /\ (p = 0 /\ k = 0) => Stream(batches)[n] = SetupFor(batches[b])
<1> DEFINE off == Starts(batches)
           W == Width(batches[b])
           V == Len(batches[b].vectors)
           items == Items(batches[b])
           s == Stream(batches)
           x == batches[b]
<1>1. /\ b \in 1 .. Len(batches) /\ IsBatch(x) /\ W \in {3, 4} /\ V \in Nat /\ k \in 0 .. V /\ p \in 0 .. W - 1
      /\ off[b - 1] \in Nat
  BY PlaceWithin
<1>2. (k = V => p = 0) /\ n = off[b - 1] + 1 + W * k + p
  BY DEF Place
<1>3. \A i \in 1 .. Len(items) : s[off[b - 1] + i] = items[i]
  BY <1>1, StartsLaid DEF Laid
<1>4. /\ Len(items) = 1 + W * V /\ items[1] = [batch |-> x]
      /\ \A l \in 1 .. V, q \in 1 .. W : items[1 + W * (l - 1) + q] = WordFor(x, l, q)
  BY <1>1, ItemsAre
<1> HIDE DEF off, W, V, items, s, x
<1>5. /\ 1 + W * k + p \in 1 .. Len(items) /\ n = off[b - 1] + (1 + W * k + p)
      /\ W * k + p + 1 = 1 + W * k + p
  <2>1. W * k \in Nat /\ W * V \in Nat /\ W * k + p <= W * V
    BY <1>1, <1>2, Counting
  <2>2. p \in Nat /\ n = off[b - 1] + 1 + W * k + p /\ Len(items) = 1 + W * V /\ off[b - 1] \in Nat
    BY <1>1, <1>2, <1>4
  <2> QED BY <2>1, <2>2
<1>6. s[n] = items[1 + W * k + p]
  BY <1>3, <1>5
<1>7. ASSUME p > 0
      PROVE  items[1 + W * k + p] = WordFor(x, k + 1, p)
  <2>1. k + 1 \in 1 .. V /\ p \in 1 .. W /\ (k + 1) - 1 = k
    BY <1>1, <1>2, <1>7
  <2>2. items[1 + W * ((k + 1) - 1) + p] = WordFor(x, k + 1, p)
    BY <1>4, <2>1
  <2> QED BY <2>1, <2>2
<1>8. ASSUME p = 0, k > 0
      PROVE  items[1 + W * k + p] = WordFor(x, k, W)
  <2>1. k \in 1 .. V /\ W \in 1 .. W
    BY <1>1, <1>8
  <2>2. items[1 + W * (k - 1) + W] = WordFor(x, k, W)
    BY <1>4, <2>1
  <2>3. 1 + W * (k - 1) + W = 1 + W * k + p
    <3>1. W * k \in Nat /\ W * (k - 1) = W * k - W /\ W \in Nat
      BY <1>1, <1>2, <1>8, Counting
    <3> QED BY <1>8, <3>1
  <2> QED BY <2>2, <2>3
<1>9. ASSUME p = 0, k = 0
      PROVE  items[1 + W * k + p] = [batch |-> x]
  <2>1. 1 + W * k + p = 1
    BY <1>1, <1>9
  <2> QED BY <1>4, <2>1
<1>10. p = 0 /\ k = 0 => s[n] = SetupFor(x)
  BY <1>6, <1>9 DEF SetupFor
<1> QED BY <1>6, <1>7, <1>8, <1>10 DEF s, x, W

-----------------------------------------------------------------------------
(* What comes out of a vector's words.                                        *)

\* The words of a vector are decoded to the vector, in either width.
LEMMA VectorDecoded ==
    ASSUME NEW v \in [Comp -> Int], NEW W \in {3, 4}
    PROVE  Decoded([p \in 1 .. W |-> UniformWord(v, W, p)]) = v
<1> DEFINE words == [p \in 1 .. W |-> UniformWord(v, W, p)]
           byte(n) == words[W - (n \div 4)][n % 4]
           bytes(c) == [i \in 0 .. W - 1 |-> byte(W * c + i)]
<1>1. Len(words) = W
  OBVIOUS
<1>2. Decoded(words) = [c \in Comp |-> FloatOf(bytes(c), W)]
  <2> DEFINE D(w) == [c \in Comp |->
                        FloatOf([i \in 0 .. w - 1 |-> words[w - ((w * c + i) \div 4)][(w * c + i) % 4]], w)]
  <2>1. Decoded(words) = D(Len(words))
    BY DEF Decoded
  <2>2. D(W) = [c \in Comp |-> FloatOf(bytes(c), W)]
    OBVIOUS
  <2> HIDE DEF D
  <2> QED BY <1>1, <2>1, <2>2
<1>3. ASSUME NEW n \in 0 .. 4 * W - 1
      PROVE  byte(n) = FloatBytes(v[n \div W], W)[n % W]
  <2>1. n \div 4 \in 0 .. W - 1 /\ n % 4 \in 0 .. 3 /\ 4 * (n \div 4) + (n % 4) = n
    <3>1. CASE W = 3
      BY <3>1
    <3>2. CASE W = 4
      BY <3>2
    <3> QED BY <3>1, <3>2
  <2> DEFINE p == W - (n \div 4)
             i == n % 4
  <2>2. p \in 1 .. W /\ i \in 0 .. 3 /\ 4 * (W - p) + i = n
    BY <2>1
  <2> HIDE DEF p, i
  <2>3. words[p] = UniformWord(v, W, p)
    BY <2>2
  <2> HIDE DEF words
  <2>4. UniformWord(v, W, p)[i] = FloatBytes(v[n \div W], W)[n % W]
    BY <2>2 DEF UniformWord
  <2> QED BY <2>3, <2>4 DEF p, i
<1>4. ASSUME NEW c \in Comp
      PROVE  FloatOf(bytes(c), W) = v[c]
  <2>1. ASSUME NEW i \in 0 .. W - 1
        PROVE  W * c + i \in 0 .. 4 * W - 1 /\ (W * c + i) \div W = c /\ (W * c + i) % W = i
    <3>1. CASE W = 3
      BY <3>1 DEF Comp
    <3>2. CASE W = 4
      BY <3>2 DEF Comp
    <3> QED BY <3>1, <3>2
  <2> HIDE DEF byte
  <2>2. ASSUME NEW i \in 0 .. W - 1
        PROVE  byte(W * c + i) = FloatBytes(v[c], W)[i]
    BY <1>3, <2>1
  <2>3. bytes(c) = FloatBytes(v[c], W)
    <3>1. bytes(c) = [i \in 0 .. W - 1 |-> FloatBytes(v[c], W)[i]]
      BY <2>2
    <3>2. FloatBytes(v[c], W) = [i \in 0 .. W - 1 |-> FloatBytes(v[c], W)[i]]
      BY DEF FloatBytes
    <3> QED BY <3>1, <3>2
  <2> HIDE DEF bytes
  <2>4. FloatBytes(v[c], W)[0].of = v[c]
    BY DEF FloatBytes
  <2> QED BY <2>3, <2>4 DEF FloatOf
<1> HIDE DEF bytes
<1>5. [c \in Comp |-> FloatOf(bytes(c), W)] = v
  BY <1>4
<1> QED BY <1>2, <1>5 DEF words

\* The place of the word before.
LEMMA PlaceBefore ==
    ASSUME NEW batches, AreBatches(batches), NEW n \in Nat,
           NEW c, NEW l, NEW q, Place(batches, n + 1, c, l, q)
    PROVE  /\ q > 0 => Place(batches, n, c, l, q - 1)
           /\ (q = 0 /\ l > 0) => Place(batches, n, c, l - 1, Width(batches[c]) - 1)
           /\ (q = 0 /\ l = 0 /\ n > 0) => \E b : Place(batches, n, b, Len(batches[b].vectors), 0)
<1> DEFINE off == Starts(batches)
           W == Width(batches[c])
           V == Len(batches[c].vectors)
<1>1. /\ c \in 1 .. Len(batches) /\ Len(batches) \in Nat /\ W \in {3, 4} /\ V \in Nat
      /\ l \in 0 .. V /\ q \in 0 .. W - 1 /\ off[c - 1] \in Nat /\ n + 1 <= Len(Stream(batches))
  BY PlaceWithin
<1>2. (l = V => q = 0) /\ n + 1 = off[c - 1] + 1 + W * l + q
  BY DEF Place
<1>3. W * l \in Nat /\ (l > 0 => W * (l - 1) = W * l - W)
  BY <1>1, <1>2, Counting
<1>4. ASSUME q > 0
      PROVE  Place(batches, n, c, l, q - 1)
  <2> HIDE DEF off, W, V
  <2>1. q - 1 \in 0 .. W - 1 /\ (l = V => q - 1 = 0) /\ n = off[c - 1] + 1 + W * l + (q - 1)
    <3> DEFINE m == W * l
    <3>1. m \in Nat /\ n + 1 = off[c - 1] + 1 + m + q
      BY <1>2, <1>3
    <3> HIDE DEF m
    <3>2. n = off[c - 1] + 1 + m + (q - 1)
      <4> DEFINE o == off[c - 1]
      <4>1. o \in Nat /\ q \in Int /\ n + 1 = o + 1 + m + q
        BY <1>1, <3>1
      <4> HIDE DEF o
      <4>2. n = o + 1 + m + (q - 1)
        BY <3>1, <4>1
      <4> QED BY <4>2 DEF o
    <3>3. q - 1 \in 0 .. W - 1
      BY <1>1, <1>4
    <3>4. l # V
      BY <1>2, <1>4
    <3> QED BY <3>2, <3>3, <3>4 DEF m
  <2>2. Place(batches, n, c, l, q - 1)
            <=> /\ c \in 1 .. Len(batches) /\ l \in 0 .. V /\ q - 1 \in 0 .. W - 1
                /\ (l = V => q - 1 = 0)
                /\ n = off[c - 1] + 1 + W * l + (q - 1)
    BY Zenon DEF Place, off, W, V
  <2>3. c \in 1 .. Len(batches) /\ l \in 0 .. V
    BY <1>1
  <2> QED BY <2>1, <2>2, <2>3, Zenon
<1>5. ASSUME q = 0, l > 0
      PROVE  Place(batches, n, c, l - 1, W - 1)
  <2> HIDE DEF off, W, V
  <2>1. /\ l - 1 \in 0 .. V /\ W - 1 \in 0 .. W - 1 /\ l - 1 # V
        /\ n = off[c - 1] + 1 + W * (l - 1) + (W - 1)
    BY <1>1, <1>2, <1>3, <1>5
  <2> QED BY <1>1, <2>1 DEF Place, off, W, V
<1>6. ASSUME q = 0, l = 0, n > 0
      PROVE  \E b : Place(batches, n, b, Len(batches[b].vectors), 0)
  <2>1. n = off[c - 1]
    <3>1. W * l = 0
      BY <1>1, <1>6
    <3> HIDE DEF off, W
    <3> QED BY <1>1, <1>2, <1>6, <3>1
  <2>2. PICK b, k, p : Place(batches, n, b, k, p)
    <3>1. n \in 1 .. Len(Stream(batches))
      <4>1. IsSequence(Stream(batches))
        BY StartsLaid
      <4>2. Len(Stream(batches)) \in Nat
        BY <4>1 DEF IsSequence
      <4> HIDE DEF off
      <4> QED BY <1>1, <1>6, <4>2
    <3> QED BY <3>1, PlaceExists
  <2> DEFINE X == Width(batches[b])
             U == Len(batches[b].vectors)
  <2>3. /\ b \in 1 .. Len(batches) /\ X \in {3, 4} /\ U \in Nat /\ k \in 0 .. U /\ p \in 0 .. X - 1
        /\ off[b - 1] \in Nat /\ off[b] \in Nat /\ off[b] = off[b - 1] + 1 + X * U
        /\ off[b - 1] < n /\ n <= off[b]
    BY <2>2, PlaceWithin
  <2>4. (k = U => p = 0) /\ n = off[b - 1] + 1 + X * k + p
    BY <2>2 DEF Place
  <2>5. b <= c - 1
    <3>1. CASE c - 1 <= b - 1
      <4>1. c - 1 \in 0 .. Len(batches) /\ b - 1 \in 0 .. Len(batches)
        <5>1. c \in 1 .. Len(batches) /\ b \in 1 .. Len(batches) /\ Len(batches) \in Nat
          BY <1>1, <2>3
        <5> QED BY <5>1
      <4>2. off[c - 1] <= off[b - 1]
        BY <3>1, <4>1, StartsGrow
      <4> HIDE DEF off
      <4> QED BY <2>1, <2>3, <4>2
    <3> HIDE DEF off
    <3> QED BY <1>1, <2>3, <3>1
  <2>6. off[b] <= off[c - 1]
    <3>1. c - 1 \in 0 .. Len(batches) /\ b \in 0 .. Len(batches)
      BY <1>1, <2>3
    <3> QED BY <2>5, <3>1, StartsGrow
  <2> HIDE DEF off, X, U
  <2>7. X * k \in Nat /\ X * U \in Nat
    BY <2>3, <2>4, Counting
  <2>8. X * k + p = X * U + 0
    BY <2>1, <2>3, <2>4, <2>6, <2>7
  <2>9. k = U /\ p = 0
    <3>1. k \in Nat /\ 0 \in 0 .. X - 1
      BY <2>3
    <3> QED BY <2>3, <2>8, <3>1, DividedOnce
  <2> QED BY <2>2, <2>9 DEF U
<1> QED BY <1>4, <1>5, <1>6

-----------------------------------------------------------------------------
(* The uniforms on their way.                                                 *)

\* No two batches send to one place.
Disjoint(batches) ==
    \A b, c \in 1 .. Len(batches) : b # c =>
        \/ batches[b].first + Len(batches[b].vectors) <= batches[c].first
        \/ batches[c].first + Len(batches[c].vectors) <= batches[b].first

SetUp(g, batch, k) ==
    /\ g.regs[VSFloatUniformSetup][0] = batch.first + k
    /\ g.regs[VSFloatUniformSetup][3] = (IF batch.f32 THEN 128 ELSE 0)

\* The first p words of the vector behind the first k.
WordsOf(batch, k, p) == [j \in 1 .. p |-> UniformWord(batch.vectors[k + 1], Width(batch), j)]
Gathered(g, batch, k, p) == g.tembuffer = WordsOf(batch, k, p)

\* The first n items have been sent: what the setup register and the buffer hold,
\* and which vectors have arrived.
Received(batches, g, n) ==
    /\ g.float = [c \in 0 .. 95 |-> g.float[c]]
    /\ n = 0 => g.tembuffer = <<>>
    /\ \A b, k, p : Place(batches, n, b, k, p) =>
            SetUp(g, batches[b], k) /\ Gathered(g, batches[b], k, p)
    /\ \A m \in 1 .. n : \A b, k : Place(batches, m, b, k, 0) /\ k > 0 =>
            g.float[batches[b].first + k - 1] = batches[b].vectors[k]

\* A step that leaves them alone.
Quiet(g, h) ==
    IsGpu(h) /\ SameUniforms(g, h) /\ h.regs[VSFloatUniformSetup] = g.regs[VSFloatUniformSetup]

\* A step that leaves them alone keeps what has been received.
LEMMA QuietlyReceived ==
    ASSUME NEW batches, NEW n, NEW g, NEW h, Received(batches, g, n), Quiet(g, h)
    PROVE  Received(batches, h, n)
<1>1. /\ h.float = g.float /\ h.tembuffer = g.tembuffer
      /\ h.regs[VSFloatUniformSetup] = g.regs[VSFloatUniformSetup]
  BY DEF Quiet, SameUniforms
<1>2. \A b, k, p : (SetUp(g, batches[b], k) <=> SetUp(h, batches[b], k))
                    /\ (Gathered(g, batches[b], k, p) <=> Gathered(h, batches[b], k, p))
  BY <1>1 DEF SetUp, Gathered
<1>3. h.float = [c \in 0 .. 95 |-> h.float[c]]
  <2>1. g.float = [c \in 0 .. 95 |-> g.float[c]]
    BY Zenon DEF Received
  <2> QED BY <1>1, <2>1
<1>4. \A b, k, p : Place(batches, n, b, k, p) =>
            SetUp(h, batches[b], k) /\ Gathered(h, batches[b], k, p)
  BY <1>2, Zenon DEF Received
<1>5. \A m \in 1 .. n : \A b, k : Place(batches, m, b, k, 0) /\ k > 0 =>
            h.float[batches[b].first + k - 1] = batches[b].vectors[k]
  <2>1. \A m \in 1 .. n : \A b, k : Place(batches, m, b, k, 0) /\ k > 0 =>
            g.float[batches[b].first + k - 1] = batches[b].vectors[k]
    BY Zenon DEF Received
  <2> QED BY <1>1, <2>1
<1>6. n = 0 => h.tembuffer = <<>>
  BY <1>1, Zenon DEF Received
<1> QED BY <1>3, <1>4, <1>5, <1>6, Zenon DEF Received

\* One word more of a vector.
LEMMA WordGathered ==
    ASSUME NEW batch, NEW k, NEW p \in Nat
    PROVE  /\ WordsOf(batch, k, 0) = <<>>
           /\ Len(WordsOf(batch, k, p)) = p
           /\ Append(WordsOf(batch, k, p), UniformWord(batch.vectors[k + 1], Width(batch), p + 1))
                = WordsOf(batch, k, p + 1)
<1> DEFINE W(j) == UniformWord(batch.vectors[k + 1], Width(batch), j)
           s == [j \in 1 .. p |-> W(j)]
           t == [j \in 1 .. p + 1 |-> W(j)]
           X == {W(j) : j \in 1 .. p + 1}
<1>1. WordsOf(batch, k, 0) = [j \in 1 .. 0 |-> W(j)] /\ WordsOf(batch, k, p) = s /\ WordsOf(batch, k, p + 1) = t
  BY DEF WordsOf
<1> HIDE DEF W
<1>2. [j \in 1 .. 0 |-> W(j)] = <<>>
  OBVIOUS
<1>3. s \in Seq(X) /\ Len(s) = p
  <2>1. \A j \in 1 .. p : W(j) \in X
    OBVIOUS
  <2> HIDE DEF X
  <2>2. s \in [1 .. p -> X]
    BY <2>1
  <2> HIDE DEF s
  <2>3. DOMAIN s = 1 .. p
    BY <2>2
  <2> QED BY <2>2, <2>3
<1>4. t \in Seq(X) /\ Len(t) = p + 1
  <2>1. \A j \in 1 .. p + 1 : W(j) \in X
    OBVIOUS
  <2> HIDE DEF X
  <2>2. t \in [1 .. p + 1 -> X]
    BY <2>1
  <2> HIDE DEF t
  <2>3. DOMAIN t = 1 .. p + 1
    BY <2>2
  <2> QED BY <2>2, <2>3
<1>5. W(p + 1) \in X /\ \A j \in 1 .. p : s[j] = t[j]
  OBVIOUS
<1>6. t[p + 1] = W(p + 1)
  OBVIOUS
<1> HIDE DEF s, t, X
<1>7. Append(s, W(p + 1)) = t
  <2> DEFINE u == Append(s, W(p + 1))
  <2>1. u \in Seq(X) /\ Len(u) = p + 1 /\ u[p + 1] = W(p + 1) /\ \A j \in 1 .. p : u[j] = s[j]
    BY <1>3, <1>5
  <2> HIDE DEF u
  <2>2. \A j \in 1 .. p + 1 : u[j] = t[j]
    <3>1. \A j \in 1 .. p + 1 : j = p + 1 \/ j \in 1 .. p
      OBVIOUS
    <3> QED BY <1>5, <1>6, <2>1, <3>1
  <2>3. u \in [1 .. p + 1 -> X] /\ t \in [1 .. p + 1 -> X]
    BY <1>4, <2>1
  <2>4. u = t
    BY <2>2, <2>3
  <2> QED BY <2>4 DEF u
<1> QED BY <1>1, <1>2, <1>3, <1>7 DEF W

\* The setup word of a batch.
LEMMA SetupStep ==
    ASSUME NEW batches, AreBatches(batches), NEW n \in Nat, NEW c, Place(batches, n + 1, c, 0, 0),
           NEW g, IsGpu(g), Received(batches, g, n)
    PROVE  LET h == updateGPUintreg(g, SetupWord(batches[c]), VSFloatUniformSetup, All)
           IN  Received(batches, h, n + 1) /\ OnlyUniforms(g, h)
<1> DEFINE word == SetupWord(batches[c])
           h == updateGPUintreg(g, word, VSFloatUniformSetup, All)
<1>1. /\ VSFloatUniformSetup \in Registers /\ TriangleTopology \in Registers
      /\ VSFloatUniformSetup # TriangleTopology
  BY PortsApart
<1>2. IsBatch(batches[c])
  BY PlaceWithin
<1>3. /\ word \in [0 .. 3 -> Nat] /\ word[0] = batches[c].first
      /\ word[3] = (IF batches[c].f32 THEN 128 ELSE 0)
  BY <1>2 DEF SetupWord, IsBatch
<1> HIDE DEF word
<1>4. /\ IsGpu(h) /\ SameTriangles(g, h) /\ SameUniforms(g, h)
      /\ \A i \in 0 .. 3 : h.regs[VSFloatUniformSetup][i] = IF i \in All THEN word[i] ELSE g.regs[VSFloatUniformSetup][i]
      /\ \A r \in Registers \ {VSFloatUniformSetup} : h.regs[r] = g.regs[r]
  BY <1>1, <1>3, RegisterWritten
<1> HIDE DEF h
<1>5. OnlyUniforms(g, h)
  BY <1>1, <1>4 DEF OnlyUniforms
<1>6. h.regs[VSFloatUniformSetup][0] = word[0] /\ h.regs[VSFloatUniformSetup][3] = word[3]
  BY <1>4 DEF All
<1>7. SetUp(h, batches[c], 0)
  BY <1>2, <1>3, <1>6 DEF SetUp, IsBatch
<1>8. h.tembuffer = <<>>
  <2>1. CASE n = 0
    BY <1>4, <2>1 DEF Received, SameUniforms
  <2>2. CASE n > 0
    <3>1. PICK b : Place(batches, n, b, Len(batches[b].vectors), 0)
      BY <2>2, PlaceBefore
    <3>4. \A d, k, p : Place(batches, n, d, k, p) => Gathered(g, batches[d], k, p)
      BY Zenon DEF Received
    <3>2. g.tembuffer = WordsOf(batches[b], Len(batches[b].vectors), 0)
      BY <3>1, <3>4, Zenon DEF Gathered
    <3>3. g.tembuffer = <<>>
      BY <3>2, WordGathered
    <3> QED BY <1>4, <3>3 DEF SameUniforms
  <2> QED BY <2>1, <2>2
<1>9. Gathered(h, batches[c], 0, 0)
  <2>1. WordsOf(batches[c], 0, 0) = <<>>
    BY WordGathered
  <2> QED BY <1>8, <2>1 DEF Gathered
<1>10. ASSUME NEW b, NEW k, NEW p, Place(batches, n + 1, b, k, p)
       PROVE  b = c /\ k = 0 /\ p = 0
  BY <1>10, PlaceIsUnique
<1>11. h.float = g.float /\ h.float = [d \in 0 .. 95 |-> h.float[d]]
  <2>1. h.float = g.float
    BY <1>4 DEF SameUniforms
  <2>2. g.float = [d \in 0 .. 95 |-> g.float[d]]
    BY Zenon DEF Received
  <2> QED BY <2>1, <2>2
<1>12. ASSUME NEW m \in 1 .. n + 1, NEW b, NEW k, Place(batches, m, b, k, 0), k > 0
       PROVE  h.float[batches[b].first + k - 1] = batches[b].vectors[k]
  <2>1. m # n + 1
    <3>1. CASE m = n + 1
      <4>1. k = 0
        BY <1>10, <1>12, <3>1
      <4> QED BY <1>12, <4>1
    <3> QED BY <3>1
  <2>2. m \in 1 .. n
    BY <2>1
  <2>4. \A i \in 1 .. n : \A d, j : Place(batches, i, d, j, 0) /\ j > 0 =>
            g.float[batches[d].first + j - 1] = batches[d].vectors[j]
    BY Zenon DEF Received
  <2>3. g.float[batches[b].first + k - 1] = batches[b].vectors[k]
    BY <1>12, <2>2, <2>4
  <2> QED BY <1>11, <2>3
<1>13. \A b, k, p : Place(batches, n + 1, b, k, p) =>
            SetUp(h, batches[b], k) /\ Gathered(h, batches[b], k, p)
  BY <1>7, <1>9, <1>10, Zenon
<1>14. n + 1 = 0 => h.tembuffer = <<>>
  BY <1>8
<1>16. \A m \in 1 .. n + 1 : \A b, k : Place(batches, m, b, k, 0) /\ k > 0 =>
            h.float[batches[b].first + k - 1] = batches[b].vectors[k]
  BY <1>12
<1>17. h.float = [d \in 0 .. 95 |-> h.float[d]]
  BY <1>11, Zenon
<1>15. Received(batches, h, n + 1)
  <2> DEFINE N == n + 1
  <2>1. /\ h.float = [d \in 0 .. 95 |-> h.float[d]]
        /\ N = 0 => h.tembuffer = <<>>
        /\ \A b, k, p : Place(batches, N, b, k, p) => SetUp(h, batches[b], k) /\ Gathered(h, batches[b], k, p)
        /\ \A m \in 1 .. N : \A b, k : Place(batches, m, b, k, 0) /\ k > 0 =>
              h.float[batches[b].first + k - 1] = batches[b].vectors[k]
    BY <1>13, <1>14, <1>16, <1>17
  <2> HIDE DEF N
  <2>2. Received(batches, h, N)
    BY <2>1, Zenon DEF Received
  <2> QED BY <2>2 DEF N
<1> QED BY <1>5, <1>15 DEF h, word

\* The definition of Received, conjunct by conjunct.
LEMMA ReceivedParts ==
    ASSUME NEW batches, NEW n, NEW g
    PROVE  Received(batches, g, n)
             <=> /\ g.float = [d \in 0 .. 95 |-> g.float[d]]
                 /\ n = 0 => g.tembuffer = <<>>
                 /\ \A b, k, p : Place(batches, n, b, k, p) =>
                        SetUp(g, batches[b], k) /\ Gathered(g, batches[b], k, p)
                 /\ \A m \in 1 .. n : \A b, k : Place(batches, m, b, k, 0) /\ k > 0 =>
                        g.float[batches[b].first + k - 1] = batches[b].vectors[k]
BY Zenon DEF Received

\* A word in the middle of a vector.
LEMMA MiddleStep ==
    ASSUME NEW batches, AreBatches(batches), NEW n \in Nat, NEW g, IsGpu(g), Received(batches, g, n),
           NEW c, NEW l, NEW q, Place(batches, n + 1, c, l, q), q > 0
    PROVE  LET word == UniformWord(batches[c].vectors[l + 1], Width(batches[c]), q)
               h == FloatUniformWord(g, word)
           IN  Received(batches, h, n + 1) /\ OnlyUniforms(g, h) /\ ~Refused(g, word)
<1> DEFINE batch == batches[c]
           W == Width(batch)
           word == UniformWord(batch.vectors[l + 1], W, q)
           h == FloatUniformWord(g, word)
           N == n + 1
<1>1. Place(batches, n, c, l, q - 1) /\ q \in 1 .. W - 1 /\ W \in {3, 4} /\ q - 1 \in Nat
  <2>1. W \in {3, 4} /\ q \in 0 .. W - 1
    BY PlaceWithin
  <2>2. Place(batches, n, c, l, q - 1)
    BY PlaceBefore
  <2> HIDE DEF W
  <2> QED BY <2>1, <2>2
<1>2. SetUp(g, batch, l) /\ Gathered(g, batch, l, q - 1)
  BY <1>1, ReceivedParts
<1>3. /\ Append(g.tembuffer, word) = WordsOf(batch, l, q)
      /\ Len(Append(g.tembuffer, word)) = q
  <2>1. (q - 1) + 1 = q
    BY <1>1
  <2>2. Append(WordsOf(batch, l, q - 1), UniformWord(batch.vectors[l + 1], Width(batch), (q - 1) + 1))
           = WordsOf(batch, l, (q - 1) + 1)
    BY <1>1, WordGathered
  <2>3. Append(WordsOf(batch, l, q - 1), word) = WordsOf(batch, l, q)
    BY <2>1, <2>2
  <2>4. Len(WordsOf(batch, l, q)) = q
    BY <1>1, WordGathered
  <2>5. g.tembuffer = WordsOf(batch, l, q - 1)
    BY <1>2 DEF Gathered
  <2> HIDE DEF word, batch
  <2> QED BY <2>3, <2>4, <2>5
<1>4. VectorWords(g) = W
  BY <1>2 DEF SetUp, VectorWords, Width
<1>5. ~Completes(g, word) /\ ~Refused(g, word)
  <2> HIDE DEF word, W
  <2> QED BY <1>1, <1>3, <1>4 DEF Completes, Refused
<1> HIDE DEF h, word, batch, W
<1>6. OnlyUniforms(g, h) /\ h.tembuffer = WordsOf(batch, l, q) /\ h.float = g.float /\ h.regs = g.regs
  <2>1. /\ OnlyUniforms(g, h) /\ h.tembuffer = Append(g.tembuffer, word)
        /\ h.float = g.float /\ h.regs = g.regs
    BY <1>5, WordTaken DEF h
  <2> QED BY <1>3, <2>1
<1>7. SetUp(h, batch, l) /\ Gathered(h, batch, l, q)
  BY <1>2, <1>6 DEF SetUp, Gathered
<1>8. ASSUME NEW b, NEW k, NEW p, Place(batches, n + 1, b, k, p)
      PROVE  b = c /\ k = l /\ p = q
  BY <1>8, PlaceIsUnique
<1>9. /\ g.float = [d \in 0 .. 95 |-> g.float[d]]
      /\ \A m \in 1 .. n : \A b, k : Place(batches, m, b, k, 0) /\ k > 0 =>
            g.float[batches[b].first + k - 1] = batches[b].vectors[k]
  BY ReceivedParts
<1>10. h.float = [d \in 0 .. 95 |-> h.float[d]]
  BY <1>6, <1>9
<1>11. ASSUME NEW m \in 1 .. n + 1, NEW b, NEW k, Place(batches, m, b, k, 0), k > 0
       PROVE  h.float[batches[b].first + k - 1] = batches[b].vectors[k]
  <2>1. m # n + 1
    <3>1. ASSUME m = n + 1
          PROVE  FALSE
      <4>1. 0 = q
        BY <1>8, <1>11, <3>1
      <4> QED BY <1>1, <4>1
    <3> QED BY <3>1
  <2>2. m \in 1 .. n
    BY <2>1
  <2> QED BY <1>6, <1>9, <1>11, <2>2
<1>12. \A b, k, p : Place(batches, n + 1, b, k, p) =>
            SetUp(h, batches[b], k) /\ Gathered(h, batches[b], k, p)
  BY <1>7, <1>8 DEF batch
<1>13. Received(batches, h, n + 1)
  <2>1. n + 1 # 0
    OBVIOUS
  <2>2. \A m \in 1 .. n + 1 : \A b, k : Place(batches, m, b, k, 0) /\ k > 0 =>
            h.float[batches[b].first + k - 1] = batches[b].vectors[k]
    BY <1>11
  <2> QED BY <1>10, <1>12, <2>1, <2>2, ReceivedParts
<1> QED BY <1>5, <1>6, <1>13 DEF h, word, batch, W

\* The last word of a vector.
LEMMA LastStep ==
    ASSUME NEW batches, AreBatches(batches), Disjoint(batches),
           NEW n \in Nat, NEW g, IsGpu(g), Received(batches, g, n),
           NEW c, NEW l, Place(batches, n + 1, c, l, 0), l > 0
    PROVE  LET word == UniformWord(batches[c].vectors[l], Width(batches[c]), Width(batches[c]))
               h == FloatUniformWord(g, word)
           IN  Received(batches, h, n + 1) /\ OnlyUniforms(g, h) /\ ~Refused(g, word)
<1> DEFINE batch == batches[c]
           W == Width(batch)
           word == UniformWord(batch.vectors[l], W, W)
           h == FloatUniformWord(g, word)
           place == batch.first + l - 1
           config == g.regs[VSFloatUniformSetup]
<1>1. /\ Place(batches, n, c, l - 1, W - 1) /\ W \in {3, 4} /\ IsBatch(batch)
      /\ l \in 1 .. Len(batch.vectors) /\ Len(batch.vectors) \in Nat
      /\ c \in 1 .. Len(batches) /\ Len(batches) \in Nat
  <2>1. /\ W \in {3, 4} /\ IsBatch(batch) /\ l \in 0 .. Len(batch.vectors) /\ Len(batch.vectors) \in Nat
        /\ c \in 1 .. Len(batches) /\ Len(batches) \in Nat
    BY PlaceWithin
  <2>2. Place(batches, n, c, l - 1, W - 1)
    BY PlaceBefore
  <2> HIDE DEF W, batch
  <2> QED BY <2>1, <2>2
<1>2. SetUp(g, batch, l - 1) /\ Gathered(g, batch, l - 1, W - 1)
  BY <1>1, ReceivedParts
<1>3. place \in 0 .. 95 /\ place % 128 = place /\ batch.vectors[l] \in [Comp -> Int] /\ batch.first \in Nat
  <2>1. batch.first \in Nat /\ batch.first + Len(batch.vectors) <= 96 /\ batch.vectors \in Seq([Comp -> Int])
    BY <1>1 DEF IsBatch
  <2> HIDE DEF batch
  <2>2. batch.vectors[l] \in [Comp -> Int]
    BY <1>1, <2>1
  <2>3. batch.first + Len(batch.vectors) <= 96 /\ batch.first \in Nat
    BY <2>1
  <2>4. place \in 0 .. 95
    <3> DEFINE f == batch.first
               L == Len(batch.vectors)
    <3>1. f \in Nat /\ L \in Nat /\ l \in 1 .. L /\ f + L <= 96
      BY <1>1, <2>3
    <3> HIDE DEF f, L
    <3>2. f + l - 1 \in 0 .. 95
      BY <3>1
    <3> QED BY <3>2 DEF f
  <2>5. place % 128 = place
    <3> HIDE DEF place
    <3> QED BY <2>4
  <2> QED BY <2>2, <2>3, <2>4, <2>5
<1>4. config[0] = place
  <2>1. config[0] = batch.first + (l - 1)
    BY <1>2 DEF SetUp
  <2> QED BY <1>1, <1>3, <2>1
<1>5. /\ Append(g.tembuffer, word) = WordsOf(batch, l - 1, W)
      /\ Len(Append(g.tembuffer, word)) = W
  <2>1. (W - 1) + 1 = W /\ W - 1 \in Nat /\ W \in Nat /\ (l - 1) + 1 = l
    <3> HIDE DEF W
    <3> QED BY <1>1
  <2>2. Append(WordsOf(batch, l - 1, W - 1),
               UniformWord(batch.vectors[(l - 1) + 1], Width(batch), (W - 1) + 1))
           = WordsOf(batch, l - 1, (W - 1) + 1)
    BY <2>1, WordGathered
  <2>3. Append(WordsOf(batch, l - 1, W - 1), word) = WordsOf(batch, l - 1, W)
    BY <2>1, <2>2
  <2>4. Len(WordsOf(batch, l - 1, W)) = W
    BY <2>1, WordGathered
  <2>5. g.tembuffer = WordsOf(batch, l - 1, W - 1)
    BY <1>2 DEF Gathered
  <2> HIDE DEF word, batch, W
  <2> QED BY <2>3, <2>4, <2>5
<1>6. WordsOf(batch, l - 1, W) = [p \in 1 .. W |-> UniformWord(batch.vectors[l], W, p)]
  <2>1. (l - 1) + 1 = l
    BY <1>1
  <2> QED BY <2>1 DEF WordsOf
<1>7. Decoded(Append(g.tembuffer, word)) = batch.vectors[l]
  <2> DEFINE v == batch.vectors[l]
  <2>1. Decoded([p \in 1 .. W |-> UniformWord(v, W, p)]) = v
    <3> HIDE DEF W, v
    <3> QED BY <1>1, <1>3, VectorDecoded DEF v
  <2> HIDE DEF word
  <2> QED BY <1>5, <1>6, <2>1
<1>8. VectorWords(g) = W
  BY <1>2 DEF SetUp, VectorWords, Width
<1>9. Completes(g, word) /\ ~Refused(g, word) /\ config[0] % 128 = place /\ config[0] % 128 <= 95
  <2>1. Completes(g, word)
    <3> HIDE DEF word, W
    <3> QED BY <1>5, <1>8 DEF Completes
  <2>2. config[0] % 128 = place /\ config[0] % 128 <= 95 /\ ~(config[0] % 128 > 95)
    <3> HIDE DEF config, place
    <3> QED BY <1>3, <1>4
  <2> QED BY <2>1, <2>2 DEF Refused
<1> HIDE DEF h, word, batch, W
<1>10. /\ OnlyUniforms(g, h) /\ h.tembuffer = <<>>
       /\ h.float = [g.float EXCEPT ![place] = batch.vectors[l]]
       /\ h.regs[VSFloatUniformSetup][0] = place + 1
       /\ h.regs[VSFloatUniformSetup][3] = config[3]
  <2>1. /\ OnlyUniforms(g, h) /\ h.regs[VSFloatUniformSetup][3] = config[3] /\ h.tembuffer = <<>>
        /\ h.float = [g.float EXCEPT ![config[0] % 128] = Decoded(Append(g.tembuffer, word))]
        /\ h.regs[VSFloatUniformSetup][0] = config[0] + 1
    BY <1>9, WordTaken DEF h
  <2> HIDE DEF config, place
  <2> QED BY <1>4, <1>7, <1>9, <2>1
<1>11. SetUp(h, batch, l) /\ Gathered(h, batch, l, 0)
  <2>1. place + 1 = batch.first + l
    BY <1>1, <1>3
  <2>2. WordsOf(batch, l, 0) = <<>>
    BY WordGathered
  <2> QED BY <1>2, <1>10, <2>1, <2>2 DEF SetUp, Gathered
<1>12. ASSUME NEW b, NEW k, NEW p, Place(batches, n + 1, b, k, p)
       PROVE  b = c /\ k = l /\ p = 0
  BY <1>12, PlaceIsUnique
<1>13. /\ g.float = [d \in 0 .. 95 |-> g.float[d]]
       /\ \A m \in 1 .. n : \A b, k : Place(batches, m, b, k, 0) /\ k > 0 =>
             g.float[batches[b].first + k - 1] = batches[b].vectors[k]
  BY ReceivedParts
<1>14. /\ h.float = [d \in 0 .. 95 |-> h.float[d]]
       /\ h.float[place] = batch.vectors[l]
       /\ \A d \in (0 .. 95) \ {place} : h.float[d] = g.float[d]
  <2> HIDE DEF place
  <2>1. DOMAIN g.float = 0 .. 95
    BY <1>13
  <2> QED BY <1>3, <1>10, <2>1
<1>15. ASSUME NEW m \in 1 .. n + 1, NEW b, NEW k, Place(batches, m, b, k, 0), k > 0
       PROVE  h.float[batches[b].first + k - 1] = batches[b].vectors[k]
  <2>1. CASE m = n + 1
    <3>1. b = c /\ k = l
      BY <1>12, <1>15, <2>1
    <3> QED BY <1>14, <3>1 DEF batch
  <2>2. CASE m # n + 1
    <3>1. m \in 1 .. n
      BY <2>2
    <3>2. g.float[batches[b].first + k - 1] = batches[b].vectors[k]
      BY <1>13, <1>15, <3>1
    <3>3. /\ IsBatch(batches[b]) /\ Len(batches[b].vectors) \in Nat /\ k \in 0 .. Len(batches[b].vectors)
          /\ b \in 1 .. Len(batches)
      BY <1>15, PlaceWithin
    <3> DEFINE other == batches[b].first + k - 1
    <3>4. other \in 0 .. 95
      <4> DEFINE f == batches[b].first
                 L == Len(batches[b].vectors)
      <4>1. f \in Nat /\ f + L <= 96
        BY <3>3 DEF IsBatch
      <4>2. L \in Nat /\ k \in 1 .. L
        BY <1>15, <3>3
      <4> HIDE DEF f, L
      <4>3. f + k - 1 \in 0 .. 95
        BY <4>1, <4>2
      <4> QED BY <4>3 DEF f
    <3>5. other # place
      <4>1. CASE b = c
        <5>1. k # l
          <6>1. ASSUME k = l
                PROVE  FALSE
            <7>1. n + 1 = m
              BY <1>15, <4>1, <6>1 DEF Place
            <7> QED BY <2>2, <7>1
          <6> QED BY <6>1
        <5>2. batches[b].first = batch.first
          BY <4>1 DEF batch
        <5> DEFINE f == batch.first
        <5>3. f \in Nat /\ l \in Int /\ k \in Int
          BY <1>1, <1>3, <3>3
        <5> HIDE DEF f
        <5>4. f + k - 1 # f + l - 1
          BY <5>1, <5>3
        <5> QED BY <5>2, <5>4 DEF f
      <4>2. CASE b # c
        <5>1. \/ batches[b].first + Len(batches[b].vectors) <= batch.first
              \/ batch.first + Len(batch.vectors) <= batches[b].first
          BY <1>1, <3>3, <4>2 DEF Disjoint, batch
        <5>2. batches[b].first \in Nat
          BY <3>3 DEF IsBatch
        <5> DEFINE f == batch.first
                   L == Len(batch.vectors)
                   e == batches[b].first
                   M == Len(batches[b].vectors)
        <5>3. f \in Nat /\ e \in Nat /\ L \in Nat /\ M \in Nat /\ l \in 1 .. L /\ k \in 1 .. M
          BY <1>1, <1>3, <1>15, <3>3, <5>2
        <5>4. e + M <= f \/ f + L <= e
          BY <5>1
        <5> HIDE DEF e, f, L, M
        <5>5. e + k - 1 # f + l - 1
          BY <5>3, <5>4
        <5> QED BY <5>5 DEF e, f
      <4> QED BY <4>1, <4>2
    <3> HIDE DEF place
    <3> QED BY <1>14, <3>2, <3>4, <3>5
  <2> QED BY <2>1, <2>2
<1>16. \A b, k, p : Place(batches, n + 1, b, k, p) =>
            SetUp(h, batches[b], k) /\ Gathered(h, batches[b], k, p)
  BY <1>11, <1>12 DEF batch
<1>17. Received(batches, h, n + 1)
  <2>1. n + 1 # 0
    OBVIOUS
  <2>2. \A m \in 1 .. n + 1 : \A b, k : Place(batches, m, b, k, 0) /\ k > 0 =>
            h.float[batches[b].first + k - 1] = batches[b].vectors[k]
    BY <1>15
  <2> HIDE DEF place
  <2> QED BY <1>14, <1>16, <2>1, <2>2, ReceivedParts
<1> QED BY <1>9, <1>10, <1>17 DEF h, word, batch, W

-----------------------------------------------------------------------------
(* Commands of uniforms.                                                      *)

\* The word that is sent for an item.
Sending(item) == IF IsSetup(item) THEN SetupWord(item.batch) ELSE item.word

\* One item more of the stream is received.
LEMMA ItemStep ==
    ASSUME NEW batches, AreBatches(batches), Disjoint(batches),
           NEW n \in Nat, n + 1 <= Len(Stream(batches)), NEW g, IsGpu(g), Received(batches, g, n)
    PROVE  LET item == Stream(batches)[n + 1]
               h == IF IsSetup(item) THEN updateGPUintreg(g, Sending(item), VSFloatUniformSetup, All)
                    ELSE FloatUniformWord(g, Sending(item))
           IN  /\ Received(batches, h, n + 1) /\ OnlyUniforms(g, h)
               /\ IsSetup(item) \/ ~Refused(g, Sending(item))
<1> DEFINE item == Stream(batches)[n + 1]
<1>1. PICK c, l, q : Place(batches, n + 1, c, l, q)
  <2>1. Len(Stream(batches)) \in Nat
    BY StartsLaid DEF IsSequence
  <2>2. n + 1 \in 1 .. Len(Stream(batches))
    BY <2>1
  <2> QED BY <2>2, PlaceExists
<1> DEFINE batch == batches[c]
           W == Width(batch)
<1>2. /\ W \in {3, 4} /\ l \in 0 .. Len(batch.vectors) /\ Len(batch.vectors) \in Nat /\ q \in 0 .. W - 1
  BY <1>1, PlaceWithin
<1>3. /\ q > 0 => item = WordFor(batch, l + 1, q)
      /\ (q = 0 /\ l > 0) => item = WordFor(batch, l, W)
      /\ (q = 0 /\ l = 0) => item = SetupFor(batch)
  BY <1>1, WordAt
<1> HIDE DEF item, batch, W
<1>4. q > 0 \/ (q = 0 /\ l > 0) \/ (q = 0 /\ l = 0)
  BY <1>2
<1>5. CASE q > 0
  <2>1. item = [word |-> UniformWord(batch.vectors[l + 1], W, q)]
    BY <1>3, <1>5 DEF WordFor, W
  <2>2. ~IsSetup(item) /\ Sending(item) = UniformWord(batch.vectors[l + 1], W, q)
    BY <2>1 DEF IsSetup, Sending
  <2> QED BY <1>1, <1>5, <2>2, MiddleStep DEF item, batch, W
<1>6. CASE q = 0 /\ l > 0
  <2>1. item = [word |-> UniformWord(batch.vectors[l], W, W)]
    BY <1>3, <1>6 DEF WordFor, W
  <2>2. ~IsSetup(item) /\ Sending(item) = UniformWord(batch.vectors[l], W, W)
    BY <2>1 DEF IsSetup, Sending
  <2> QED BY <1>1, <1>6, <2>2, LastStep DEF item, batch, W
<1>7. CASE q = 0 /\ l = 0
  <2>1. item = [batch |-> batch]
    BY <1>3, <1>7 DEF SetupFor
  <2>2. IsSetup(item) /\ Sending(item) = SetupWord(batch)
    BY <2>1 DEF IsSetup, Sending
  <2> QED BY <1>1, <1>7, <2>2, SetupStep DEF item, batch
<1> QED BY <1>4, <1>5, <1>6, <1>7

\* Words that are no configuration.
LEMMA WordsReceived ==
    ASSUME NEW batches, AreBatches(batches), Disjoint(batches),
           NEW n \in Nat, NEW words, Len(words) \in Nat, n + Len(words) <= Len(Stream(batches)),
           \A i \in 1 .. Len(words) :
                ~IsSetup(Stream(batches)[n + i]) /\ words[i] = Sending(Stream(batches)[n + i]),
           NEW g, IsGpu(g), Received(batches, g, n)
    PROVE  LET h == FloatUniforms(g, words)
           IN  Received(batches, h, n + Len(words)) /\ OnlyUniforms(g, h)
<1> DEFINE m == Len(words)
           stream == Stream(batches)
           P(s, k) == s.on = TRUE /\ Received(batches, s.gpu, n + k) /\ OnlyUniforms(g, s.gpu)
<1>1. PICK F : /\ F[0] = [gpu |-> g, on |-> TRUE] /\ \A k \in 1 .. m : F[k] = NextWord(F[k - 1], words[k])
               /\ FloatUniforms(g, words) = F[m].gpu
  BY WordsInTurn
<1> DEFINE S == {k \in Nat : k <= m => P(F[k], k)}
<1>2. Len(stream) \in Nat
  BY StartsLaid DEF IsSequence
<1> HIDE DEF m, stream
<1>3. m \in Nat /\ n + m <= Len(stream) /\ \A i \in 1 .. m : ~IsSetup(stream[n + i]) /\ words[i] = Sending(stream[n + i])
  BY DEF m, stream
<1>4. 0 \in S
  <2>1. F[0].on = TRUE /\ F[0].gpu = g /\ n + 0 = n
    BY <1>1
  <2>2. OnlyUniforms(g, g)
    BY DEF OnlyUniforms, SameTriangles
  <2> QED BY <2>1, <2>2
<1>5. ASSUME NEW k \in Nat, k \in S
      PROVE  k + 1 \in S
  <2> HIDE DEF P
  <2>1. SUFFICES ASSUME k + 1 <= m
                 PROVE  P(F[k + 1], k + 1)
    OBVIOUS
  <2> USE DEF P
  <2> DEFINE f == F[k].gpu
             word == words[k + 1]
             h == FloatUniformWord(f, word)
  <2>2. F[k].on = TRUE /\ Received(batches, f, n + k) /\ OnlyUniforms(g, f) /\ IsGpu(f)
    BY <1>3, <1>5, <2>1 DEF OnlyUniforms
  <2>3. F[k + 1] = NextWord(F[k], word)
    <3>1. k + 1 \in 1 .. m /\ (k + 1) - 1 = k
      BY <1>3, <2>1
    <3> QED BY <1>1, <3>1
  <2>4. /\ n + (k + 1) = (n + k) + 1 /\ k + 1 \in 1 .. m /\ n + k \in Nat /\ (n + k) + 1 <= Len(stream)
    BY <1>2, <1>3, <2>1
  <2>5. ~IsSetup(stream[(n + k) + 1]) /\ word = Sending(stream[(n + k) + 1])
    BY <1>3, <2>4
  <2> HIDE DEF f, word, h
  <2>6. Received(batches, h, (n + k) + 1) /\ OnlyUniforms(f, h) /\ ~Refused(f, word)
    BY <2>2, <2>4, <2>5, ItemStep DEF stream, h
  <2>7. OnlyUniforms(g, h)
    BY <2>2, <2>6, OnlyUniformsTwice
  <2>8. F[k + 1].on = TRUE /\ F[k + 1].gpu = h
    <3>1. F[k + 1] = [gpu |-> h, on |-> ~Refused(f, word)]
      BY <2>2, <2>3 DEF NextWord, f, h
    <3>2. F[k + 1].gpu = h
      BY <3>1
    <3>3. F[k + 1].on = ~Refused(f, word)
      <4> DEFINE b == ~Refused(f, word)
      <4>1. F[k + 1] = [gpu |-> h, on |-> b]
        BY <3>1
      <4> HIDE DEF b
      <4>2. F[k + 1].on = b
        BY <4>1
      <4> QED BY <4>2 DEF b
    <3>4. ~Refused(f, word) = TRUE
      BY <2>6, Zenon
    <3> QED BY <3>2, <3>3, <3>4, Zenon
  <2> QED BY <2>4, <2>6, <2>7, <2>8
<1>6. m \in S
  <2> HIDE DEF S
  <2>1. Nat \subseteq S
    BY <1>4, <1>5, SetInduction
  <2> QED BY <1>3, <2>1
<1> QED BY <1>1, <1>3, <1>6 DEF m

\* One write to the setup register or the port behind it.
LEMMA ItemsWritten ==
    ASSUME NEW batches, AreBatches(batches), Disjoint(batches), NEW mem,
           NEW n \in Nat, NEW words, IsSequence(words), Len(words) > 0,
           n + Len(words) <= Len(Stream(batches)),
           \A i \in 1 .. Len(words) : words[i] = Sending(Stream(batches)[n + i]),
           \A i \in 2 .. Len(words) : ~IsSetup(Stream(batches)[n + i]),
           NEW ID, IF IsSetup(Stream(batches)[n + 1]) THEN ID = VSFloatUniformSetup
                   ELSE ID \in VSFloatUniformSetup + 1 .. VSFloatUniformSetup + 8,
           NEW g, IsGpu(g), Received(batches, g, n)
    PROVE  LET h == writeGPUID(g, mem, ID, All, words)
           IN  Received(batches, h, n + Len(words)) /\ OnlyUniforms(g, h)
<1> DEFINE m == Len(words)
           stream == Stream(batches)
           h == writeGPUID(g, mem, ID, All, words)
<1>1. m \in Nat /\ m > 0
  BY DEF IsSequence
<1>2. CASE IsSetup(stream[n + 1])
  <2> DEFINE f == updateGPUintreg(g, words[1], VSFloatUniformSetup, All)
             rest == Tail(words)
  <2>1. h = FloatUniforms(f, rest)
    <3>1. ID = VSFloatUniformSetup
      BY <1>2
    <3>2. /\ ID \notin {TriggerDraw, TriggerDrawIndexed}
          /\ ID \notin VSLoadProgramData .. VSLoadProgramData + 7
          /\ ID \notin VSLoadSwizzleData .. VSLoadSwizzleData + 7
          /\ ID # VSresttriangel
          /\ ID \notin VSFloatUniformSetup + 1 .. VSFloatUniformSetup + 8
      BY <3>1 DEF TriggerDraw, TriggerDrawIndexed, VSLoadProgramData, VSLoadSwizzleData, VSresttriangel,
                  VSFloatUniformSetup
    <3> QED BY <3>1, <3>2, Zenon DEF writeGPUID
  <2>2. words[1] = Sending(stream[n + 1]) /\ n + 1 <= Len(stream)
    <3>1. Len(stream) \in Nat
      BY StartsLaid DEF IsSequence
    <3>2. 1 \in 1 .. m
      BY <1>1
    <3> HIDE DEF stream, m
    <3> QED BY <1>1, <3>1, <3>2 DEF stream, m
  <2>3. Received(batches, f, n + 1) /\ OnlyUniforms(g, f)
    <3> HIDE DEF f
    <3>1. f = updateGPUintreg(g, Sending(stream[n + 1]), VSFloatUniformSetup, All)
      BY <2>2 DEF f
    <3> QED BY <1>2, <2>2, <3>1, ItemStep
  <2>4. Len(rest) = m - 1 /\ \A i \in 1 .. m - 1 : rest[i] = words[i + 1]
    BY <1>1 DEF IsSequence
  <2> HIDE DEF f, rest, h
  <2>5. n + 1 \in Nat /\ Len(rest) \in Nat /\ (n + 1) + Len(rest) = n + m
    BY <1>1, <2>4
  <2>6. ASSUME NEW i \in 1 .. Len(rest)
        PROVE  ~IsSetup(stream[(n + 1) + i]) /\ rest[i] = Sending(stream[(n + 1) + i])
    <3>1. i + 1 \in 2 .. m /\ i + 1 \in 1 .. m /\ n + (i + 1) = (n + 1) + i /\ i \in 1 .. m - 1
      BY <1>1, <2>4
    <3> QED BY <2>4, <3>1
  <2>7. IsGpu(f)
    BY <2>3 DEF OnlyUniforms
  <2>8. Received(batches, FloatUniforms(f, rest), (n + 1) + Len(rest)) /\ OnlyUniforms(f, FloatUniforms(f, rest))
    BY <2>3, <2>5, <2>6, <2>7, WordsReceived
  <2> QED BY <2>1, <2>3, <2>5, <2>8, OnlyUniformsTwice DEF h
<1>3. CASE ~IsSetup(stream[n + 1])
  <2>1. h = FloatUniforms(g, words)
    <3>1. ID \in VSFloatUniformSetup + 1 .. VSFloatUniformSetup + 8
      BY <1>3
    <3>2. /\ ID \notin {TriggerDraw, TriggerDrawIndexed}
          /\ ID \notin VSLoadProgramData .. VSLoadProgramData + 7
          /\ ID \notin VSLoadSwizzleData .. VSLoadSwizzleData + 7
          /\ ID # VSresttriangel
          /\ ID # VSFloatUniformSetup
      BY <3>1 DEF TriggerDraw, TriggerDrawIndexed, VSLoadProgramData, VSLoadSwizzleData, VSresttriangel,
                  VSFloatUniformSetup
    <3> QED BY <3>1, <3>2, Zenon DEF writeGPUID
  <2>2. ASSUME NEW i \in 1 .. m
        PROVE  ~IsSetup(stream[n + i]) /\ words[i] = Sending(stream[n + i])
    <3>1. i = 1 \/ i \in 2 .. m
      BY <1>1
    <3> QED BY <1>3, <3>1
  <2> QED BY <1>1, <2>1, <2>2, WordsReceived
<1> QED BY <1>2, <1>3

\* The states after each word of a command that counts its registers.
LEMMA RegistersInTurn ==
    ASSUME NEW g, NEW mem, NEW c, Len(c.words) \in Nat
    PROVE  \E F : /\ F[0] = g
                  /\ \A j \in 1 .. Len(c.words) :
                        F[j] = writeGPUID(F[j - 1], mem, c.ID + j - 1, c.mask, <<c.words[j]>>)
                  /\ EachToItsOwn(g, mem, c) = F[Len(c.words)]
<1> DEFINE n == Len(c.words)
           Op(x, j) == writeGPUID(x, mem, c.ID + j - 1, c.mask, <<c.words[j]>>)
           Eq(f, m) == f = [j \in 0 .. m |-> IF j = 0 THEN g ELSE Op(f[j - 1], j)]
           S == {m \in Nat : \E f : Eq(f, m)}
<1> HIDE DEF n, Op
<1>1. 0 \in S
  <2>1. [k \in 0 .. 0 |-> g] = [k \in 0 .. 0 |-> IF k = 0 THEN g ELSE Op([i \in 0 .. 0 |-> g][k - 1], k)]
    OBVIOUS
  <2> QED BY <2>1
<1>2. ASSUME NEW m \in Nat, m \in S
      PROVE  m + 1 \in S
  <2>1. PICK f : Eq(f, m)
    BY <1>2
  <2> DEFINE h == [k \in 0 .. m + 1 |-> IF k = m + 1 THEN Op(f[m], m + 1) ELSE f[k]]
  <2>2. h[m + 1] = Op(f[m], m + 1) /\ \A k \in 0 .. m : h[k] = f[k]
    OBVIOUS
  <2>3. h = [k \in 0 .. m + 1 |-> h[k]]
    OBVIOUS
  <2> HIDE DEF h
  <2>4. \A k \in 0 .. m + 1 : h[k] = IF k = 0 THEN g ELSE Op(h[k - 1], k)
    <3>1. \A k \in 0 .. m : f[k] = IF k = 0 THEN g ELSE Op(f[k - 1], k)
      BY <2>1
    <3>2. \A k \in 0 .. m + 1 : k # m + 1 => k \in 0 .. m /\ (k # 0 => k - 1 \in 0 .. m)
      OBVIOUS
    <3> QED BY <2>2, <3>1, <3>2
  <2>5. Eq(h, m + 1)
    BY <2>3, <2>4, Zenon
  <2> QED BY <2>5
<1>3. n \in S
  BY <1>1, <1>2, SetInduction DEF n
<1> DEFINE F == CHOOSE f : Eq(f, n)
<1>4. Eq(F, n)
  BY <1>3
<1>5. EachToItsOwn(g, mem, c) = F[n]
  BY DEF EachToItsOwn, Repeated, n, Op
<1> HIDE DEF F
<1>6. F[0] = g /\ \A k \in 1 .. n : F[k] = Op(F[k - 1], k)
  BY <1>3, <1>4
<1> QED BY <1>5, <1>6 DEF n, Op

\* A command of uniforms, of either kind.
LEMMA CommandReceived ==
    ASSUME NEW batches, AreBatches(batches), Disjoint(batches), NEW mem,
           NEW n \in Nat, NEW m \in Nat \ {0}, n + m <= Len(Stream(batches)),
           \A i \in 2 .. m : ~IsSetup(Stream(batches)[n + i]),
           NEW grouping \in BOOLEAN, grouping => m <= 8,
           NEW g, IsGpu(g), Received(batches, g, n)
    PROVE  LET h == Executed(g, mem, UniformCommand(Stream(batches), n, m, grouping))
           IN  Received(batches, h, n + m) /\ OnlyUniforms(g, h)
<1> DEFINE stream == Stream(batches)
           words == [k \in 1 .. m |-> Sending(stream[n + k])]
           ID == IF IsSetup(stream[n + 1]) THEN VSFloatUniformSetup ELSE VSFloatUniformSetup + 1
           cmd == UniformCommand(stream, n, m, grouping)
           h == Executed(g, mem, cmd)
<1>1. cmd.ID = ID /\ cmd.mask = All /\ cmd.words = words /\ cmd.grouping = grouping /\ cmd.mask # {}
  BY DEF UniformCommand, Command, Sending, All
<1>2. IsSequence(words) /\ Len(words) = m /\ \A i \in 1 .. m : words[i] = Sending(stream[n + i])
  <2> DEFINE X == {Sending(stream[n + k]) : k \in 1 .. m}
  <2>1. \A k \in 1 .. m : Sending(stream[n + k]) \in X
    OBVIOUS
  <2>2. \A i \in 1 .. m : words[i] = Sending(stream[n + i])
    OBVIOUS
  <2> HIDE DEF X, stream
  <2>3. words \in [1 .. m -> X]
    BY <2>1
  <2> HIDE DEF words
  <2>4. words \in Seq(X) /\ Len(words) = m
    BY <2>3
  <2>5. IsSequence(words)
    BY <2>4 DEF IsSequence
  <2> QED BY <2>2, <2>4, <2>5
<1>3. Len(stream) \in Nat
  BY StartsLaid DEF IsSequence
<1> HIDE DEF words, cmd
<1>4. CASE ~grouping
  <2>1. h = writeGPUID(g, mem, ID, All, words)
    BY <1>1, <1>4 DEF Executed
  <2>2. IF IsSetup(stream[n + 1]) THEN ID = VSFloatUniformSetup
        ELSE ID \in VSFloatUniformSetup + 1 .. VSFloatUniformSetup + 8
    BY DEF VSFloatUniformSetup
  <2> HIDE DEF ID, h
  <2>3. LET f == writeGPUID(g, mem, ID, All, words)
        IN  Received(batches, f, n + Len(words)) /\ OnlyUniforms(g, f)
    <3>1. \A i \in 1 .. Len(words) : words[i] = Sending(stream[n + i])
      BY <1>2
    <3>2. \A i \in 2 .. Len(words) : ~IsSetup(stream[n + i])
      BY <1>2
    <3>3. Len(words) > 0 /\ n + Len(words) <= Len(stream)
      BY <1>2
    <3> QED BY <1>2, <2>2, <3>1, <3>2, <3>3, ItemsWritten
  <2> QED BY <1>2, <2>1, <2>3 DEF h, cmd
<1>5. CASE grouping
  <2>1. PICK F : /\ F[0] = g
                 /\ \A j \in 1 .. m : F[j] = writeGPUID(F[j - 1], mem, ID + j - 1, All, <<words[j]>>)
                 /\ EachToItsOwn(g, mem, cmd) = F[m]
    <3> HIDE DEF ID
    <3>1. Len(cmd.words) = m /\ cmd.words = words /\ cmd.ID = ID /\ cmd.mask = All
      BY <1>1, <1>2
    <3>2. PICK F : /\ F[0] = g
                   /\ \A j \in 1 .. Len(cmd.words) :
                        F[j] = writeGPUID(F[j - 1], mem, cmd.ID + j - 1, cmd.mask, <<cmd.words[j]>>)
                   /\ EachToItsOwn(g, mem, cmd) = F[Len(cmd.words)]
      <4>1. Len(cmd.words) \in Nat
        BY <3>1
      <4> HIDE DEF h, stream
      <4> QED BY <4>1, RegistersInTurn, SMT
    <3> QED BY <3>1, <3>2
  <2>2. h = F[m]
    BY <1>1, <1>5, <2>1 DEF Executed
  <2> DEFINE S == {j \in Nat : j <= m => Received(batches, F[j], n + j) /\ OnlyUniforms(g, F[j])}
  <2>3. 0 \in S
    <3>1. OnlyUniforms(g, g) /\ n + 0 = n
      BY DEF OnlyUniforms, SameTriangles
    <3> QED BY <2>1, <3>1
  <2>4. ASSUME NEW j \in Nat, j \in S
        PROVE  j + 1 \in S
    <3>1. SUFFICES ASSUME j + 1 <= m
                   PROVE  Received(batches, F[j + 1], n + (j + 1)) /\ OnlyUniforms(g, F[j + 1])
      OBVIOUS
    <3>2. Received(batches, F[j], n + j) /\ OnlyUniforms(g, F[j]) /\ IsGpu(F[j])
      BY <2>4, <3>1 DEF OnlyUniforms
    <3> DEFINE one == <<words[j + 1]>>
               id == ID + (j + 1) - 1
    <3>3. F[j + 1] = writeGPUID(F[j], mem, id, All, one)
      <4>1. j + 1 \in 1 .. m /\ (j + 1) - 1 = j
        BY <3>1
      <4> HIDE DEF ID
      <4> QED BY <2>1, <4>1
    <3>4. IsSequence(one) /\ Len(one) = 1 /\ one[1] = words[j + 1]
      <4> DEFINE w == words[j + 1]
      <4>1. <<w>> \in Seq({w}) /\ Len(<<w>>) = 1 /\ <<w>>[1] = w
        OBVIOUS
      <4> QED BY <4>1 DEF IsSequence
    <3>5. words[j + 1] = Sending(stream[(n + j) + 1]) /\ (n + j) + 1 <= Len(stream) /\ n + j \in Nat
      <4>1. j + 1 \in 1 .. m /\ n + (j + 1) = (n + j) + 1
        BY <3>1
      <4> HIDE DEF stream
      <4>2. (n + j) + 1 <= Len(stream)
        BY <1>3, <4>1 DEF stream
      <4> QED BY <1>2, <4>1, <4>2
    <3>6. IF IsSetup(stream[(n + j) + 1]) THEN id = VSFloatUniformSetup
          ELSE id \in VSFloatUniformSetup + 1 .. VSFloatUniformSetup + 8
      <4>1. CASE j = 0
        BY <4>1 DEF VSFloatUniformSetup
      <4>2. CASE j > 0
        <5>1. j + 1 \in 2 .. m /\ n + (j + 1) = (n + j) + 1 /\ j + 1 <= 8
          BY <1>5, <3>1, <4>2
        <5>2. ~IsSetup(stream[(n + j) + 1])
          BY <5>1
        <5> HIDE DEF stream
        <5> QED BY <4>2, <5>1, <5>2 DEF VSFloatUniformSetup
      <4> QED BY <4>1, <4>2
    <3> HIDE DEF one, id
    <3>7. LET f == writeGPUID(F[j], mem, id, All, one)
          IN  Received(batches, f, (n + j) + Len(one)) /\ OnlyUniforms(F[j], f)
      <4>1. \A i \in 1 .. Len(one) : i = 1
        BY <3>4
      <4>2. \A i \in 1 .. Len(one) : one[i] = Sending(stream[(n + j) + i])
        BY <3>4, <3>5, <4>1
      <4>3. \A i \in 2 .. Len(one) : ~IsSetup(stream[(n + j) + i])
        BY <3>4
      <4>4. Len(one) > 0 /\ (n + j) + Len(one) <= Len(stream)
        BY <3>4, <3>5
      <4> QED BY <3>2, <3>4, <3>5, <3>6, <4>2, <4>3, <4>4, ItemsWritten
    <3>8. (n + j) + Len(one) = n + (j + 1)
      BY <3>4
    <3> QED BY <3>2, <3>3, <3>7, <3>8, OnlyUniformsTwice
  <2>5. m \in S
    <3> HIDE DEF S
    <3>1. Nat \subseteq S
      BY <2>3, <2>4, SetInduction
    <3> QED BY <3>1
  <2> HIDE DEF h
  <2> QED BY <2>2, <2>5 DEF h, cmd
<1> QED BY <1>4, <1>5

-----------------------------------------------------------------------------
(* Commands one after the other.                                              *)

\* Commands are executed one after the other.
LEMMA CommandsInTurn ==
    ASSUME NEW g, NEW mem, NEW commands, Len(commands) \in Nat
    PROVE  \E F : /\ F[0] = g
                  /\ \A k \in 1 .. Len(commands) : F[k] = Executed(F[k - 1], mem, commands[k])
                  /\ gpu_ExecuteCommands(g, mem, commands) = F[Len(commands)]
<1> DEFINE n == Len(commands)
           Op(x, k) == Executed(x, mem, commands[k])
           Eq(f, m) == f = [k \in 0 .. m |-> IF k = 0 THEN g ELSE Op(f[k - 1], k)]
           S == {m \in Nat : \E f : Eq(f, m)}
<1> HIDE DEF n, Op
<1>1. 0 \in S
  <2>1. [k \in 0 .. 0 |-> g] = [k \in 0 .. 0 |-> IF k = 0 THEN g ELSE Op([i \in 0 .. 0 |-> g][k - 1], k)]
    OBVIOUS
  <2> QED BY <2>1
<1>2. ASSUME NEW m \in Nat, m \in S
      PROVE  m + 1 \in S
  <2>1. PICK f : Eq(f, m)
    BY <1>2
  <2> DEFINE h == [k \in 0 .. m + 1 |-> IF k = m + 1 THEN Op(f[m], m + 1) ELSE f[k]]
  <2>2. h[m + 1] = Op(f[m], m + 1) /\ \A k \in 0 .. m : h[k] = f[k]
    OBVIOUS
  <2>3. h = [k \in 0 .. m + 1 |-> h[k]]
    OBVIOUS
  <2> HIDE DEF h
  <2>4. \A k \in 0 .. m + 1 : h[k] = IF k = 0 THEN g ELSE Op(h[k - 1], k)
    <3>1. \A k \in 0 .. m : f[k] = IF k = 0 THEN g ELSE Op(f[k - 1], k)
      BY <2>1
    <3>2. \A k \in 0 .. m + 1 : k # m + 1 => k \in 0 .. m /\ (k # 0 => k - 1 \in 0 .. m)
      OBVIOUS
    <3> QED BY <2>2, <3>1, <3>2
  <2>5. Eq(h, m + 1)
    BY <2>3, <2>4, Zenon
  <2> QED BY <2>5
<1>3. n \in S
  BY <1>1, <1>2, SetInduction DEF n
<1> DEFINE F == CHOOSE f : Eq(f, n)
<1>4. Eq(F, n)
  BY <1>3
<1>5. gpu_ExecuteCommands(g, mem, commands) = F[n]
  BY DEF gpu_ExecuteCommands, Repeated, n, Op
<1> HIDE DEF F
<1>6. F[0] = g /\ \A k \in 1 .. n : F[k] = Op(F[k - 1], k)
  BY <1>3, <1>4
<1> QED BY <1>5, <1>6 DEF n, Op

\* Two lists of commands.
LEMMA CommandsJoined ==
    ASSUME NEW g, NEW mem, NEW X, NEW s \in Seq(X), NEW t \in Seq(X)
    PROVE  gpu_ExecuteCommands(g, mem, s \o t)
             = gpu_ExecuteCommands(gpu_ExecuteCommands(g, mem, s), mem, t)
<1> DEFINE u == s \o t
           a == Len(s)
           b == Len(t)
<1>1. /\ u \in Seq(X) /\ Len(u) = a + b /\ a \in Nat /\ b \in Nat
      /\ \A k \in 1 .. a : u[k] = s[k]
      /\ \A k \in 1 .. b : u[a + k] = t[k]
  OBVIOUS
<1>2. PICK H : /\ H[0] = g /\ \A k \in 1 .. Len(u) : H[k] = Executed(H[k - 1], mem, u[k])
               /\ gpu_ExecuteCommands(g, mem, u) = H[Len(u)]
  <2> HIDE DEF u
  <2>1. Len(u) \in Nat
    BY <1>1
  <2> QED BY <2>1, CommandsInTurn
<1>3. PICK F : /\ F[0] = g /\ \A k \in 1 .. a : F[k] = Executed(F[k - 1], mem, s[k])
               /\ gpu_ExecuteCommands(g, mem, s) = F[a]
  BY CommandsInTurn
<1>4. PICK G : /\ G[0] = F[a] /\ \A k \in 1 .. b : G[k] = Executed(G[k - 1], mem, t[k])
               /\ gpu_ExecuteCommands(F[a], mem, t) = G[b]
  BY CommandsInTurn
<1> HIDE DEF u, a, b
<1>5. H[a] = F[a]
  <2> DEFINE S == {k \in Nat : k <= a => H[k] = F[k]}
  <2>1. 0 \in S
    BY <1>2, <1>3
  <2>2. ASSUME NEW k \in Nat, k \in S
        PROVE  k + 1 \in S
    <3>1. SUFFICES ASSUME k + 1 <= a
                   PROVE  H[k + 1] = F[k + 1]
      OBVIOUS
    <3>2. k + 1 \in 1 .. a /\ k + 1 \in 1 .. Len(u) /\ (k + 1) - 1 = k /\ k <= a
      BY <1>1, <3>1
    <3>3. H[k] = F[k]
      BY <2>2, <3>2
    <3>4. H[k + 1] = Executed(H[k], mem, u[k + 1])
      BY <1>2, <3>2
    <3>5. F[k + 1] = Executed(F[k], mem, s[k + 1])
      BY <1>3, <3>2
    <3>6. u[k + 1] = s[k + 1]
      BY <1>1, <3>2
    <3> QED BY <3>3, <3>4, <3>5, <3>6
  <2> HIDE DEF S
  <2>3. Nat \subseteq S
    BY <2>1, <2>2, SetInduction
  <2> QED BY <1>1, <2>3 DEF S
<1>6. H[a + b] = G[b]
  <2> DEFINE S == {k \in Nat : k <= b => H[a + k] = G[k]}
  <2>1. 0 \in S
    <3>1. a + 0 = a
      BY <1>1
    <3> QED BY <1>4, <1>5, <3>1
  <2>2. ASSUME NEW k \in Nat, k \in S
        PROVE  k + 1 \in S
    <3>1. SUFFICES ASSUME k + 1 <= b
                   PROVE  H[a + (k + 1)] = G[k + 1]
      OBVIOUS
    <3>2. k + 1 \in 1 .. b /\ a + (k + 1) \in 1 .. Len(u) /\ (k + 1) - 1 = k /\ (a + (k + 1)) - 1 = a + k /\ k <= b
      BY <1>1, <3>1
    <3>3. H[a + k] = G[k]
      BY <2>2, <3>2
    <3>4. H[a + (k + 1)] = Executed(H[a + k], mem, u[a + (k + 1)])
      BY <1>2, <3>2
    <3>5. G[k + 1] = Executed(G[k], mem, t[k + 1])
      BY <1>4, <3>2
    <3>6. u[a + (k + 1)] = t[k + 1]
      BY <1>1, <3>2
    <3> QED BY <3>3, <3>4, <3>5, <3>6
  <2> HIDE DEF S
  <2>3. Nat \subseteq S
    BY <2>1, <2>2, SetInduction
  <2> QED BY <1>1, <2>3 DEF S
<1> QED BY <1>1, <1>2, <1>3, <1>4, <1>6 DEF u

\* No command does nothing.
LEMMA NoCommand ==
    ASSUME NEW g, NEW mem
    PROVE  gpu_ExecuteCommands(g, mem, <<>>) = g
<1> DEFINE s == <<>>
<1>1. Len(s) = 0
  OBVIOUS
<1> HIDE DEF s
<1>2. Len(s) \in Nat
  BY <1>1
<1>3. PICK F : /\ F[0] = g /\ \A k \in 1 .. Len(s) : F[k] = Executed(F[k - 1], mem, s[k])
               /\ gpu_ExecuteCommands(g, mem, s) = F[Len(s)]
  BY <1>2, CommandsInTurn
<1> QED BY <1>1, <1>3 DEF s

\* One command is executed,
LEMMA OneCommand ==
    ASSUME NEW g, NEW mem, NEW c
    PROVE  gpu_ExecuteCommands(g, mem, <<c>>) = Executed(g, mem, c)
<1> DEFINE s == <<c>>
<1>1. Len(s) = 1 /\ s[1] = c
  OBVIOUS
<1> HIDE DEF s
<1>2. Len(s) \in Nat
  BY <1>1
<1>3. PICK F : /\ F[0] = g /\ \A k \in 1 .. Len(s) : F[k] = Executed(F[k - 1], mem, s[k])
               /\ gpu_ExecuteCommands(g, mem, s) = F[Len(s)]
  BY <1>2, CommandsInTurn
<1>4. F[1] = Executed(F[0], mem, s[1])
  BY <1>1, <1>3
<1> QED BY <1>1, <1>3, <1>4 DEF s

\* two are executed in order,
LEMMA TwoCommands ==
    ASSUME NEW g, NEW mem, NEW c, NEW d
    PROVE  gpu_ExecuteCommands(g, mem, <<c, d>>) = Executed(Executed(g, mem, c), mem, d)
<1> DEFINE s == <<c, d>>
<1>1. Len(s) = 2 /\ s[1] = c /\ s[2] = d
  OBVIOUS
<1> HIDE DEF s
<1>2. Len(s) \in Nat
  BY <1>1
<1>3. PICK F : /\ F[0] = g /\ \A k \in 1 .. Len(s) : F[k] = Executed(F[k - 1], mem, s[k])
               /\ gpu_ExecuteCommands(g, mem, s) = F[Len(s)]
  BY <1>2, CommandsInTurn
<1>4. F[1] = Executed(F[0], mem, s[1]) /\ F[2] = Executed(F[1], mem, s[2])
  BY <1>1, <1>3
<1> QED BY <1>1, <1>3, <1>4 DEF s

\* and so are three.
LEMMA ThreeCommands ==
    ASSUME NEW g, NEW mem, NEW c, NEW d, NEW e
    PROVE  gpu_ExecuteCommands(g, mem, <<c, d, e>>)
             = Executed(Executed(Executed(g, mem, c), mem, d), mem, e)
<1> DEFINE s == <<c, d, e>>
<1>1. Len(s) = 3 /\ s[1] = c /\ s[2] = d /\ s[3] = e
  OBVIOUS
<1> HIDE DEF s
<1>2. Len(s) \in Nat
  BY <1>1
<1>3. PICK F : /\ F[0] = g /\ \A k \in 1 .. Len(s) : F[k] = Executed(F[k - 1], mem, s[k])
               /\ gpu_ExecuteCommands(g, mem, s) = F[Len(s)]
  BY <1>2, CommandsInTurn
<1>4. /\ F[1] = Executed(F[0], mem, s[1]) /\ F[2] = Executed(F[1], mem, s[2])
      /\ F[3] = Executed(F[2], mem, s[3])
  BY <1>1, <1>3
<1> QED BY <1>1, <1>3, <1>4 DEF s

\* Short sequences joined.
LEMMA Paired ==
    ASSUME NEW c, NEW d
    PROVE  <<>> \o <<d>> = <<d>> /\ <<c>> \o <<d>> = <<c, d>>
<1>1. <<>> \o <<d>> = <<d>>
  <2> DEFINE s == <<>> \o <<d>>
             t == <<d>>
  <2>1. s \in Seq({d}) /\ Len(s) = 1 /\ s[1] = d
    OBVIOUS
  <2>2. t \in Seq({d}) /\ Len(t) = 1 /\ t[1] = d
    OBVIOUS
  <2> HIDE DEF s, t
  <2>3. s \in [1 .. 1 -> {d}] /\ t \in [1 .. 1 -> {d}] /\ \A i \in 1 .. 1 : i = 1
    BY <2>1, <2>2
  <2>4. s = t
    BY <2>1, <2>2, <2>3
  <2> QED BY <2>4 DEF s, t
<1>2. <<c>> \o <<d>> = <<c, d>>
  <2> DEFINE s == <<c>> \o <<d>>
             t == <<c, d>>
  <2>1. s \in Seq({c, d}) /\ Len(s) = 2 /\ s[1] = c /\ s[2] = d
    OBVIOUS
  <2>2. t \in Seq({c, d}) /\ Len(t) = 2 /\ t[1] = c /\ t[2] = d
    OBVIOUS
  <2> HIDE DEF s, t
  <2>3. s \in [1 .. 2 -> {c, d}] /\ t \in [1 .. 2 -> {c, d}] /\ \A i \in 1 .. 2 : i = 1 \/ i = 2
    BY <2>1, <2>2
  <2>4. s = t
    BY <2>1, <2>2, <2>3
  <2> QED BY <2>4 DEF s, t
<1> QED BY <1>1, <1>2

-----------------------------------------------------------------------------
(* Commands about other things.                                               *)

\* What uniforms and triangles are made from is as it was.
Apart(g, h) ==
    /\ IsGpu(h) /\ SameTriangles(g, h) /\ SameUniforms(g, h)
    /\ h.regs[TriangleTopology] = g.regs[TriangleTopology]
    /\ h.regs[VSFloatUniformSetup] = g.regs[VSFloatUniformSetup]

\* Two steps apart from uniforms and triangles are one.
LEMMA ApartTwice ==
    ASSUME NEW f, NEW g, NEW h, Apart(f, g), Apart(g, h)
    PROVE  Apart(f, h)
BY DEF Apart, SameTriangles, SameUniforms

\* Such a step keeps the triangles assembled and the uniforms received.
LEMMA ApartKeeps ==
    ASSUME NEW g, NEW h, Apart(g, h)
    PROVE  /\ Assembled(g) => Assembled(h)
           /\ Blank(g) => Blank(h)
           /\ \A batches, n : Received(batches, g, n) => Received(batches, h, n)
<1>1. Quiet(g, h)
  BY DEF Apart, Quiet
<1>2. \A batches, n : Received(batches, g, n) => Received(batches, h, n)
  BY <1>1, QuietlyReceived
<1>3. (Assembled(g) => Assembled(h)) /\ (Blank(g) => Blank(h))
  BY SameTrianglesAssembled DEF Apart
<1> QED BY <1>2, <1>3

WriteTo(ID, mask, word) == Command(ID, mask, <<word>>, FALSE)

\* A command to a register that is no port writes the register.
LEMMA PlainWrite ==
    ASSUME NEW g, NEW mem, NEW ID \in Registers \ {VSresttriangel, VSFloatUniformSetup},
           NEW mask, mask # {}, NEW word
    PROVE  Executed(g, mem, WriteTo(ID, mask, word)) = updateGPUintreg(g, word, ID, mask)
<1> DEFINE words == <<word>>
           cmd == Command(ID, mask, words, FALSE)
<1>1. /\ ID \notin {TriggerDraw, TriggerDrawIndexed}
      /\ ID \notin VSLoadProgramData .. VSLoadProgramData + 7
      /\ ID \notin VSLoadSwizzleData .. VSLoadSwizzleData + 7
      /\ ID \notin VSFloatUniformSetup + 1 .. VSFloatUniformSetup + 8
      /\ ID # VSresttriangel /\ ID # VSFloatUniformSetup
  BY PortsApart
<1>2. words[1] = word
  OBVIOUS
<1> HIDE DEF words
<1>3. cmd.ID = ID /\ cmd.mask = mask /\ cmd.words = words /\ cmd.grouping = FALSE
  BY DEF Command
<1> HIDE DEF cmd
<1>4. Executed(g, mem, cmd) = writeGPUID(g, mem, ID, mask, words)
  BY <1>3 DEF Executed
<1>5. writeGPUID(g, mem, ID, mask, words) = updateGPUintreg(g, words[1], ID, mask)
  BY <1>1 DEF writeGPUID
<1> QED BY <1>2, <1>4, <1>5 DEF words, cmd, WriteTo

\* It is apart from uniforms and triangles unless it is about them.
LEMMA PlainWriteApart ==
    ASSUME NEW g, IsGpu(g), NEW mem,
           NEW ID \in Registers \ {VSresttriangel, VSFloatUniformSetup, TriangleTopology}, NEW word \in Word
    PROVE  Apart(g, Executed(g, mem, Write(ID, word)))
<1>1. Executed(g, mem, Write(ID, word)) = updateGPUintreg(g, word, ID, All)
  <2>1. All # {}
    BY DEF All
  <2>2. Write(ID, word) = WriteTo(ID, All, word)
    BY DEF Write, WriteTo
  <2> QED BY <2>1, <2>2, PlainWrite
<1>2. word \in [0 .. 3 -> Nat]
  BY WordsAreNumbers
<1>3. TriangleTopology \in Registers /\ VSFloatUniformSetup \in Registers
  BY PortsApart
<1> DEFINE h == updateGPUintreg(g, word, ID, All)
<1>4. /\ IsGpu(h) /\ SameTriangles(g, h) /\ SameUniforms(g, h)
      /\ \A r \in Registers \ {ID} : h.regs[r] = g.regs[r]
  BY <1>2, RegisterWritten
<1> HIDE DEF h
<1> QED BY <1>1, <1>3, <1>4 DEF Apart, h

\* One write to the ports that a program or operand descriptors are loaded through.
LEMMA PortWritten ==
    ASSUME NEW g, IsGpu(g), NEW mem, NEW mask, NEW words, Len(words) \in Nat,
           NEW ID \in (VSLoadProgramData .. VSLoadProgramData + 7) \cup (VSLoadSwizzleData .. VSLoadSwizzleData + 7)
    PROVE  Apart(g, writeGPUID(g, mem, ID, mask, words))
<1>1. /\ TriangleTopology \in Registers /\ VSFloatUniformSetup \in Registers
      /\ TriangleTopology # VSBeginLoadProgramData /\ TriangleTopology # VSBeginLoadSwizzleData
      /\ VSFloatUniformSetup # VSBeginLoadProgramData /\ VSFloatUniformSetup # VSBeginLoadSwizzleData
  BY PortsApart
<1>2. CASE ID \in VSLoadProgramData .. VSLoadProgramData + 7
  <2>1. /\ ID \notin {TriggerDraw, TriggerDrawIndexed}
        /\ ID \notin VSLoadSwizzleData .. VSLoadSwizzleData + 7
        /\ ID # VSresttriangel /\ ID # VSFloatUniformSetup
        /\ ID \notin VSFloatUniformSetup + 1 .. VSFloatUniformSetup + 8
    BY <1>2 DEF TriggerDraw, TriggerDrawIndexed, VSLoadProgramData, VSLoadSwizzleData, VSresttriangel,
                VSFloatUniformSetup
  <2>2. writeGPUID(g, mem, ID, mask, words) = LoadProgramData(g, words)
    BY <1>2, <2>1, Zenon DEF writeGPUID
  <2> DEFINE h == LoadProgramData(g, words)
  <2>3. /\ IsGpu(h) /\ SameTriangles(g, h) /\ SameUniforms(g, h)
        /\ \A r \in Registers \ {VSBeginLoadProgramData} : h.regs[r] = g.regs[r]
    BY ProgramLoaded
  <2> HIDE DEF h
  <2> QED BY <1>1, <2>2, <2>3 DEF Apart, h
<1>3. CASE ID \in VSLoadSwizzleData .. VSLoadSwizzleData + 7
  <2>1. /\ ID \notin {TriggerDraw, TriggerDrawIndexed}
        /\ ID \notin VSLoadProgramData .. VSLoadProgramData + 7
        /\ ID # VSresttriangel /\ ID # VSFloatUniformSetup
        /\ ID \notin VSFloatUniformSetup + 1 .. VSFloatUniformSetup + 8
    BY <1>3 DEF TriggerDraw, TriggerDrawIndexed, VSLoadProgramData, VSLoadSwizzleData, VSresttriangel,
                VSFloatUniformSetup
  <2>2. writeGPUID(g, mem, ID, mask, words) = LoadSwizzleData(g, words)
    BY <1>3, <2>1, Zenon DEF writeGPUID
  <2> DEFINE h == LoadSwizzleData(g, words)
  <2>3. /\ IsGpu(h) /\ SameTriangles(g, h) /\ SameUniforms(g, h)
        /\ \A r \in Registers \ {VSBeginLoadSwizzleData} : h.regs[r] = g.regs[r]
    BY ProgramLoaded
  <2> HIDE DEF h
  <2> QED BY <1>1, <2>2, <2>3 DEF Apart, h
<1> QED BY <1>2, <1>3

\* So is a command to the ports of the shader's memories, in either form.
LEMMA PortCommand ==
    ASSUME NEW g, IsGpu(g), NEW mem, NEW words, Len(words) \in Nat,
           NEW grouping \in BOOLEAN, grouping => Len(words) <= 8,
           NEW ID \in {VSLoadProgramData, VSLoadSwizzleData}
    PROVE  Apart(g, Executed(g, mem, Command(ID, All, words, grouping)))
<1> DEFINE cmd == Command(ID, All, words, grouping)
           m == Len(words)
<1>1. cmd.ID = ID /\ cmd.mask = All /\ cmd.words = words /\ cmd.grouping = grouping /\ cmd.mask # {}
  BY DEF Command, All
<1> HIDE DEF cmd
<1>2. CASE ~grouping
  <2>1. Executed(g, mem, cmd) = writeGPUID(g, mem, ID, All, words)
    BY <1>1, <1>2 DEF Executed
  <2>2. ID \in (VSLoadProgramData .. VSLoadProgramData + 7) \cup (VSLoadSwizzleData .. VSLoadSwizzleData + 7)
    BY DEF VSLoadProgramData, VSLoadSwizzleData
  <2> QED BY <2>1, <2>2, PortWritten DEF cmd
<1>3. CASE grouping
  <2> HIDE DEF m
  <2>1. m \in Nat /\ m <= 8 /\ Len(cmd.words) = m
    BY <1>1, <1>3 DEF m
  <2>2. PICK F : /\ F[0] = g
                 /\ \A j \in 1 .. Len(cmd.words) :
                      F[j] = writeGPUID(F[j - 1], mem, cmd.ID + j - 1, cmd.mask, <<cmd.words[j]>>)
                 /\ EachToItsOwn(g, mem, cmd) = F[Len(cmd.words)]
    <3>1. Len(cmd.words) \in Nat
      BY <2>1
    <3> QED BY <3>1, RegistersInTurn
  <2>3. Executed(g, mem, cmd) = F[m]
    BY <1>1, <1>3, <2>1, <2>2 DEF Executed
  <2> DEFINE S == {j \in Nat : j <= m => Apart(g, F[j])}
  <2>4. 0 \in S
    BY <2>2 DEF Apart, SameTriangles, SameUniforms
  <2>5. ASSUME NEW j \in Nat, j \in S
        PROVE  j + 1 \in S
    <3>1. SUFFICES ASSUME j + 1 <= m
                   PROVE  Apart(g, F[j + 1])
      OBVIOUS
    <3>2. Apart(g, F[j]) /\ IsGpu(F[j])
      BY <2>1, <2>5, <3>1 DEF Apart
    <3> DEFINE one == <<words[j + 1]>>
               id == ID + (j + 1) - 1
    <3>3. F[j + 1] = writeGPUID(F[j], mem, id, All, one)
      <4>1. j + 1 \in 1 .. Len(cmd.words) /\ (j + 1) - 1 = j
        BY <2>1, <3>1
      <4> QED BY <1>1, <2>2, <4>1
    <3>4. Len(one) \in Nat
      <4> DEFINE w == words[j + 1]
      <4>1. Len(<<w>>) = 1
        OBVIOUS
      <4> QED BY <4>1
    <3>5. id \in (VSLoadProgramData .. VSLoadProgramData + 7) \cup (VSLoadSwizzleData .. VSLoadSwizzleData + 7)
      BY <2>1, <3>1 DEF VSLoadProgramData, VSLoadSwizzleData
    <3> HIDE DEF one, id
    <3>6. Apart(F[j], F[j + 1])
      BY <3>2, <3>3, <3>4, <3>5, PortWritten
    <3> QED BY <3>2, <3>6, ApartTwice
  <2>6. m \in S
    <3> HIDE DEF S
    <3>1. Nat \subseteq S
      BY <2>4, <2>5, SetInduction
    <3> QED BY <2>1, <3>1
  <2> QED BY <2>1, <2>3, <2>6 DEF cmd
<1> QED BY <1>2, <1>3

\* The words of a program and of its operand descriptors.
LEMMA WordsUploaded ==
    ASSUME NEW g, IsGpu(g), NEW mem, NEW X, NEW words \in Seq(X), NEW sent \in Nat, NEW n \in Nat,
           sent + n <= Len(words), NEW grouping \in BOOLEAN, grouping => n <= 8
    PROVE  /\ Apart(g, gpu_ExecuteCommands(g, mem, ProgramCommands(words, sent, n, grouping)))
           /\ Apart(g, gpu_ExecuteCommands(g, mem, SwizzleCommands(words, sent, n, grouping)))
<1> DEFINE part == SubSeq(words, sent + 1, sent + n)
<1>1. Len(part) = n
  OBVIOUS
<1> HIDE DEF part
<1>2. WordOf(0) \in Word
  BY WordOfIsWord
<1>3. ASSUME NEW first \in {VSBeginLoadProgramData, VSBeginLoadSwizzleData},
             NEW ID \in {VSLoadProgramData, VSLoadSwizzleData}
      PROVE  LET load == Command(ID, All, part, grouping)
             IN  /\ Apart(g, gpu_ExecuteCommands(g, mem, <<load>>))
                 /\ Apart(g, gpu_ExecuteCommands(g, mem, <<Write(first, WordOf(0)), load>>))
  <2> DEFINE load == Command(ID, All, part, grouping)
             f == Executed(g, mem, Write(first, WordOf(0)))
  <2>1. \A e : IsGpu(e) => Apart(e, Executed(e, mem, load))
    BY <1>1, PortCommand
  <2>2. Apart(g, f)
    <3>1. first \in Registers \ {VSresttriangel, VSFloatUniformSetup, TriangleTopology}
      BY PortsApart DEF VSresttriangel, VSBeginLoadProgramData, VSBeginLoadSwizzleData
    <3> QED BY <1>2, <3>1, PlainWriteApart
  <2> HIDE DEF load, f
  <2>3. Apart(g, Executed(f, mem, load))
    <3>1. IsGpu(f)
      BY <2>2 DEF Apart
    <3> QED BY <2>1, <2>2, <3>1, ApartTwice
  <2>4. gpu_ExecuteCommands(g, mem, <<load>>) = Executed(g, mem, load)
    BY OneCommand
  <2>5. gpu_ExecuteCommands(g, mem, <<Write(first, WordOf(0)), load>>) = Executed(f, mem, load)
    BY TwoCommands DEF f
  <2> QED BY <2>1, <2>3, <2>4, <2>5 DEF load
<1>4. Apart(g, gpu_ExecuteCommands(g, mem, ProgramCommands(words, sent, n, grouping)))
  <2> DEFINE load == Command(VSLoadProgramData, All, part, grouping)
             first == Write(VSBeginLoadProgramData, WordOf(0))
  <2>1. ProgramCommands(words, sent, n, grouping) = IF sent = 0 THEN <<first, load>> ELSE <<load>>
    BY Paired, Zenon DEF ProgramCommands, part
  <2>2. Apart(g, gpu_ExecuteCommands(g, mem, <<load>>)) /\ Apart(g, gpu_ExecuteCommands(g, mem, <<first, load>>))
    BY <1>3
  <2> HIDE DEF load, first
  <2> QED BY <2>1, <2>2
<1>5. Apart(g, gpu_ExecuteCommands(g, mem, SwizzleCommands(words, sent, n, grouping)))
  <2> DEFINE load == Command(VSLoadSwizzleData, All, part, grouping)
             first == Write(VSBeginLoadSwizzleData, WordOf(0))
  <2>1. SwizzleCommands(words, sent, n, grouping) = IF sent = 0 THEN <<first, load>> ELSE <<load>>
    BY Paired, Zenon DEF SwizzleCommands, part
  <2>2. Apart(g, gpu_ExecuteCommands(g, mem, <<load>>)) /\ Apart(g, gpu_ExecuteCommands(g, mem, <<first, load>>))
    BY <1>3
  <2> HIDE DEF load, first
  <2> QED BY <2>1, <2>2
<1> QED BY <1>4, <1>5

-----------------------------------------------------------------------------
(* Drawing and restarting.                                                    *)

\* A draw.
LEMMA DrawKeeps ==
    ASSUME NEW g, IsGpu(g), Assembled(g), NEW batches, NEW n, Received(batches, g, n), NEW mem,
           NEW count \in Nat, NEW config \in Word, NEW indexed \in BOOLEAN
    PROVE  LET h == gpu_ExecuteCommands(g, mem,
                        <<Write(NumVertices, WordOf(count)), Write(IndexArrayConfig, config),
                          Write(IF indexed THEN TriggerDrawIndexed ELSE TriggerDraw, WordOf(1))>>)
           IN  IsGpu(h) /\ Assembled(h) /\ Received(batches, h, n)
<1> DEFINE f1 == Executed(g, mem, Write(NumVertices, WordOf(count)))
           f2 == Executed(f1, mem, Write(IndexArrayConfig, config))
           ID == IF indexed THEN TriggerDrawIndexed ELSE TriggerDraw
           h == Executed(f2, mem, Write(ID, WordOf(1)))
<1>1. /\ NumVertices \in Registers \ {VSresttriangel, VSFloatUniformSetup, TriangleTopology}
      /\ IndexArrayConfig \in Registers \ {VSresttriangel, VSFloatUniformSetup, TriangleTopology}
  BY PortsApart DEF NumVertices, IndexArrayConfig, VSresttriangel, VSFloatUniformSetup, TriangleTopology
<1>2. Apart(g, f1)
  <2>1. WordOf(count) \in Word
    BY WordOfIsWord
  <2> QED BY <1>1, <2>1, PlainWriteApart
<1> HIDE DEF f1
<1>3. Apart(f1, f2)
  <2>1. IsGpu(f1)
    BY <1>2 DEF Apart
  <2> QED BY <1>1, <2>1, PlainWriteApart
<1> HIDE DEF f2
<1>4. IsGpu(f2) /\ Assembled(f2) /\ Received(batches, f2, n)
  <2>1. Apart(g, f2)
    BY <1>2, <1>3, ApartTwice
  <2> QED BY <2>1, ApartKeeps DEF Apart
<1>5. h = DrawVertices(f2, mem, ID = TriggerDrawIndexed)
  <2> DEFINE words == <<WordOf(1)>>
             cmd == Write(ID, WordOf(1))
  <2>1. cmd.ID = ID /\ cmd.mask = All /\ cmd.words = words /\ cmd.grouping = FALSE /\ cmd.mask # {}
    BY DEF Write, Command, All
  <2> HIDE DEF words, cmd, ID
  <2>2. h = writeGPUID(f2, mem, ID, All, words)
    BY <2>1 DEF Executed, cmd
  <2>3. ID \in {TriggerDraw, TriggerDrawIndexed}
    BY DEF ID
  <2>4. /\ ID \notin VSLoadProgramData .. VSLoadProgramData + 7
        /\ ID \notin VSLoadSwizzleData .. VSLoadSwizzleData + 7
        /\ ID # VSresttriangel /\ ID # VSFloatUniformSetup
        /\ ID \notin VSFloatUniformSetup + 1 .. VSFloatUniformSetup + 8
    BY <2>3 DEF TriggerDraw, TriggerDrawIndexed, VSLoadProgramData, VSLoadSwizzleData, VSresttriangel,
                VSFloatUniformSetup
  <2>5. writeGPUID(f2, mem, ID, All, words) = DrawVertices(f2, mem, ID = TriggerDrawIndexed)
    BY <2>3, <2>4, Zenon DEF writeGPUID
  <2> QED BY <2>2, <2>5
<1> DEFINE drawn == DrawVertices(f2, mem, ID = TriggerDrawIndexed)
<1>6. IsGpu(drawn) /\ Assembled(drawn) /\ SameUniforms(f2, drawn) /\ drawn.regs = f2.regs
  BY <1>4, VerticesDrawn
<1> HIDE DEF drawn, ID
<1>7. Received(batches, drawn, n)
  <2>1. Quiet(f2, drawn)
    BY <1>6 DEF Quiet
  <2> QED BY <1>4, <2>1, QuietlyReceived
<1> DEFINE a == Write(NumVertices, WordOf(count))
           b == Write(IndexArrayConfig, config)
           c == Write(ID, WordOf(1))
<1>8. gpu_ExecuteCommands(g, mem, <<a, b, c>>) = h
  <2> HIDE DEF a, b, c, h
  <2>1. gpu_ExecuteCommands(g, mem, <<a, b, c>>) = Executed(Executed(Executed(g, mem, a), mem, b), mem, c)
    BY ThreeCommands
  <2> QED BY <2>1, Zenon DEF a, b, c, h, f1, f2
<1> HIDE DEF h, a, b, c
<1>9. gpu_ExecuteCommands(g, mem, <<a, b, c>>) = drawn
  BY <1>5, <1>8 DEF drawn
<1>10. LET z == gpu_ExecuteCommands(g, mem, <<a, b, c>>)
       IN  IsGpu(z) /\ Assembled(z) /\ Received(batches, z, n)
  BY <1>6, <1>7, <1>9
<1> QED BY <1>10, Zenon DEF a, b, c, ID

\* A write to the restart register: bit 0 begins anew.
LEMMA RestartWritten ==
    ASSUME NEW g, IsGpu(g), IsAssembly(g), NEW mem, NEW word \in Word
    PROVE  LET h == Executed(g, mem, Write(VSresttriangel, word))
           IN  /\ IsGpu(h) /\ SameUniforms(g, h) /\ (word[0] % 2 = 1 \/ Blank(g) => Blank(h))
               /\ h.regs[VSFloatUniformSetup] = g.regs[VSFloatUniformSetup]
<1> DEFINE words == <<word>>
           cmd == Write(VSresttriangel, word)
           h == Executed(g, mem, cmd)
           f == IF word[0] % 2 = 1
                   THEN [g EXCEPT !.buffer_index = 0, !.strip_ready = FALSE,
                                  !.from = [fed |-> g.fed, sent |-> Len(g.sent)]]
                   ELSE g
<1>1. words[1] = word
  OBVIOUS
<1>2. cmd.ID = VSresttriangel /\ cmd.mask = All /\ cmd.words = words /\ cmd.grouping = FALSE /\ cmd.mask # {}
  BY DEF Write, Command, All
<1> HIDE DEF words, cmd
<1>3. h = writeGPUID(g, mem, VSresttriangel, All, words)
  BY <1>2 DEF Executed
<1>4. writeGPUID(g, mem, VSresttriangel, All, words) = RestartTriangle(g, words, All)
  <2>1. /\ VSresttriangel \notin {TriggerDraw, TriggerDrawIndexed}
        /\ VSresttriangel \notin VSLoadProgramData .. VSLoadProgramData + 7
        /\ VSresttriangel \notin VSLoadSwizzleData .. VSLoadSwizzleData + 7
        /\ VSresttriangel # VSFloatUniformSetup
        /\ VSresttriangel \notin VSFloatUniformSetup + 1 .. VSFloatUniformSetup + 8
    BY DEF TriggerDraw, TriggerDrawIndexed, VSLoadProgramData, VSLoadSwizzleData, VSresttriangel,
           VSFloatUniformSetup
  <2> DEFINE ID == VSresttriangel
  <2> HIDE DEF ID
  <2>2. writeGPUID(g, mem, ID, All, words) = RestartTriangle(g, words, All)
    BY <2>1, Zenon DEF writeGPUID, ID
  <2> QED BY <2>2 DEF ID
<1>5. RestartTriangle(g, words, All) = updateGPUintreg(f, word, VSresttriangel, All)
  BY <1>1 DEF RestartTriangle
<1>6. /\ IsGpu(f) /\ SameUniforms(g, f) /\ f.regs = g.regs /\ f.fed = g.fed /\ f.sent = g.sent /\ f.buffer = g.buffer
      /\ word[0] % 2 = 1 => f.buffer_index = 0 /\ f.strip_ready = FALSE /\ f.from = [fed |-> g.fed, sent |-> Len(g.sent)]
      /\ word[0] % 2 # 1 => f = g
  <2>1. CASE word[0] % 2 = 1
    BY <2>1 DEF IsGpu, IsRecord, Fields, SameUniforms
  <2>2. CASE word[0] % 2 # 1
    BY <2>2 DEF SameUniforms
  <2> QED BY <2>1, <2>2
<1> HIDE DEF f
<1>7. word[0] % 2 = 1 \/ Blank(g) => Blank(f)
  <2>1. CASE word[0] % 2 = 1
    <3>1. f.from.fed = g.fed /\ f.from.sent = Len(g.sent)
      BY <1>6, <2>1
    <3>2. f.buffer_index = 0 /\ f.strip_ready = FALSE
      BY <1>6, <2>1
    <3>3. IsAssembly(f)
      <4>1. /\ g.fed \in Nat /\ IsSequence(g.sent) /\ Len(g.sent) \in Nat /\ DOMAIN g.buffer = 0 .. 1
            /\ g.buffer = [slot \in DOMAIN g.buffer |-> g.buffer[slot]]
        BY DEF IsAssembly
      <4>2. /\ f.fed = g.fed /\ f.sent = g.sent /\ f.buffer = g.buffer
        BY <1>6
      <4>3. DOMAIN f.buffer = 0 .. 1 /\ f.buffer = [slot \in DOMAIN f.buffer |-> f.buffer[slot]]
        BY <4>1, <4>2
      <4>4. f.buffer_index \in 0 .. 2
        BY <3>2
      <4>5. f.strip_ready \in BOOLEAN
        BY <3>2, Zenon
      <4> QED BY <3>1, <4>1, <4>2, <4>3, <4>4, <4>5 DEF IsAssembly
    <3> QED BY <1>6, <3>1, <3>2, <3>3 DEF Blank, Fed, Sent, IsAssembly
  <2>2. CASE word[0] % 2 # 1
    BY <1>6, <2>2
  <2> QED BY <2>1, <2>2
<1> DEFINE e == updateGPUintreg(f, word, VSresttriangel, All)
<1>8. /\ IsGpu(e) /\ SameTriangles(f, e) /\ SameUniforms(f, e)
      /\ \A r \in Registers \ {VSresttriangel} : e.regs[r] = f.regs[r]
  <2>1. VSresttriangel \in Registers /\ word \in [0 .. 3 -> Nat]
    BY PortsApart, WordsAreNumbers
  <2> QED BY <1>6, <2>1, RegisterWritten
<1>9. VSFloatUniformSetup \in Registers \ {VSresttriangel}
  BY PortsApart DEF VSFloatUniformSetup, VSresttriangel
<1> HIDE DEF e, h
<1>10. h = e
  BY <1>3, <1>4, <1>5 DEF e
<1>11. Blank(f) => Blank(e)
  BY <1>8, SameTrianglesAssembled
<1> QED BY <1>6, <1>7, <1>8, <1>9, <1>10, <1>11 DEF SameUniforms, h, cmd

RestartCommands(topology) ==
    <<Command(TriangleTopology, {1}, <<WordOf(256 * topology)>>, FALSE), Write(VSresttriangel, WordOf(1))>>

\* A restart, with the topology that it is for.
LEMMA RestartKeeps ==
    ASSUME NEW g, IsGpu(g), Assembled(g), NEW batches, NEW n, Received(batches, g, n), NEW mem,
           NEW topology \in 0 .. 3
    PROVE  LET h == gpu_ExecuteCommands(g, mem, RestartCommands(topology))
           IN  IsGpu(h) /\ Assembled(h) /\ Received(batches, h, n)
<1> DEFINE word == WordOf(256 * topology)
           a == Command(TriangleTopology, {1}, <<word>>, FALSE)
           b == Write(VSresttriangel, WordOf(1))
           f == Executed(g, mem, a)
           h == Executed(f, mem, b)
<1>1. TriangleTopology \in Registers \ {VSresttriangel, VSFloatUniformSetup} /\ VSFloatUniformSetup \in Registers
  BY PortsApart
<1>2. word \in [0 .. 3 -> Nat]
  <2>1. word \in Word
    BY WordOfIsWord
  <2> QED BY <2>1, WordsAreNumbers
<1> HIDE DEF word, a, f
<1>3. f = updateGPUintreg(g, word, TriangleTopology, {1})
  <2> DEFINE mask == {1}
             ID == TriangleTopology
  <2>1. mask # {} /\ ID \in Registers \ {VSresttriangel, VSFloatUniformSetup}
    BY <1>1
  <2> HIDE DEF mask, ID
  <2>2. Executed(g, mem, WriteTo(ID, mask, word)) = updateGPUintreg(g, word, ID, mask)
    BY <2>1, PlainWrite
  <2> QED BY <2>2, Zenon DEF mask, ID, a, f, WriteTo
<1>4. IsGpu(f) /\ SameTriangles(g, f) /\ SameUniforms(g, f) /\ f.regs[VSFloatUniformSetup] = g.regs[VSFloatUniformSetup]
  BY <1>1, <1>2, <1>3, RegisterWritten
<1>5. IsAssembly(f) /\ Received(batches, f, n)
  <2>1. Quiet(g, f)
    BY <1>4 DEF Quiet
  <2>2. IsAssembly(f)
    BY <1>4 DEF Assembled, IsAssembly, SameTriangles
  <2> QED BY <2>1, <2>2, QuietlyReceived
<1>6. WordOf(1) \in Word /\ WordOf(1)[0] % 2 = 1
  <2>1. WordOf(1)[0] = (1 \div <<1, 256, 65536, 16777216>>[1]) % 256
    BY DEF WordOf
  <2>2. <<1, 256, 65536, 16777216>>[1] = 1
    OBVIOUS
  <2>3. WordOf(1)[0] = 1
    BY <2>1, <2>2
  <2> QED BY <2>3, WordOfIsWord
<1>7. IsGpu(h) /\ SameUniforms(f, h) /\ Blank(h) /\ h.regs[VSFloatUniformSetup] = f.regs[VSFloatUniformSetup]
  BY <1>4, <1>5, <1>6, RestartWritten
<1> HIDE DEF b, h
<1>8. Assembled(h) /\ Received(batches, h, n)
  <2>1. Quiet(f, h)
    BY <1>7 DEF Quiet
  <2> QED BY <1>5, <1>7, <2>1, BlankIsAssembled, QuietlyReceived
<1>9. gpu_ExecuteCommands(g, mem, <<a, b>>) = h
  BY TwoCommands DEF f, h
<1>10. LET z == gpu_ExecuteCommands(g, mem, <<a, b>>)
       IN  IsGpu(z) /\ Assembled(z) /\ Received(batches, z, n)
  BY <1>7, <1>8, <1>9
<1> QED BY <1>10, Zenon DEF a, b, word, RestartCommands

-----------------------------------------------------------------------------
(* What the first state holds.                                                *)

\* Nothing is drawn, and no uniform is on its way.
Begun(g) ==
    /\ IsGpu(g) /\ Blank(g) /\ g.tembuffer = <<>>
    /\ g.float = [c \in 0 .. 95 |-> g.float[c]]

\* The GPU at the start.
LEMMA BeforeBegun == Begun(Before)
<1>1. IsRecord(Before)
  BY DEF IsRecord, Fields, Before
<1>2. Before.regs \in Regs
  <2>1. WordOf(0) \in [0 .. 3 -> Nat]
    BY WordOfIsWord, WordsAreNumbers
  <2>2. [ID \in Registers |-> WordOf(0)] \in Regs
    BY <2>1 DEF Regs
  <2> QED BY <2>2 DEF Before
<1>3. /\ Before.fed = 0 /\ Before.sent = <<>> /\ Before.from = [fed |-> 0, sent |-> 0]
      /\ Before.buffer = [slot \in 0 .. 1 |-> Earlier] /\ Before.buffer_index = 0
      /\ Before.strip_ready = FALSE /\ Before.tembuffer = <<>>
      /\ Before.float = [n \in 0 .. 95 |-> Vector(0, 0, 0, 0)]
  BY DEF Before
<1>4. IsSequence(<<>>) /\ Len(<<>>) = 0
  <2>1. <<>> \in Seq({}) /\ Len(<<>>) = 0
    OBVIOUS
  <2> QED BY <2>1 DEF IsSequence
<1> HIDE DEF Before
<1>5. Before.from.fed = 0 /\ Before.from.sent = 0 /\ IsSequence(Before.sent) /\ Len(Before.sent) = 0
  BY <1>3, <1>4
<1>6. DOMAIN Before.buffer = 0 .. 1 /\ Before.buffer = [slot \in DOMAIN Before.buffer |-> Before.buffer[slot]]
  BY <1>3
<1>7. Before.strip_ready \in BOOLEAN
  BY <1>3, Zenon
<1>8. IsAssembly(Before)
  <2>1. Before.fed \in Nat /\ Before.buffer_index \in 0 .. 2 /\ Before.from.fed <= Before.fed
        /\ Before.from.fed \in Nat /\ Before.from.sent \in Nat
        /\ Len(Before.sent) \in Nat /\ Before.from.sent <= Len(Before.sent)
    BY <1>3, <1>5
  <2> QED BY <1>5, <1>6, <1>7, <2>1, Zenon DEF IsAssembly
<1>9. Blank(Before)
  BY <1>3, <1>5, <1>8 DEF Blank, Fed, Sent
<1>10. Before.float = [c \in 0 .. 95 |-> Before.float[c]]
  BY <1>3
<1> QED BY <1>1, <1>2, <1>3, <1>9, <1>10 DEF Begun, IsGpu

\* A configuration without words behind it.
LEMMA NoWords ==
    ASSUME NEW g, NEW words, Len(words) = 0
    PROVE  FloatUniforms(g, words) = g
<1>1. Len(words) \in Nat
  OBVIOUS
<1>2. PICK F : /\ F[0] = [gpu |-> g, on |-> TRUE] /\ \A k \in 1 .. Len(words) : F[k] = NextWord(F[k - 1], words[k])
               /\ FloatUniforms(g, words) = F[Len(words)].gpu
  BY <1>1, WordsInTurn
<1>3. F[0].gpu = g
  BY <1>2
<1> QED BY <1>2, <1>3

\* The registers that are set before anything else.
LEMMA FirstWrites ==
    ASSUME NEW g, Begun(g), NEW mem, NEW ID \in Registers, NEW word \in Word
    PROVE  Begun(Executed(g, mem, Write(ID, word)))
<1> DEFINE h == Executed(g, mem, Write(ID, word))
           e == updateGPUintreg(g, word, ID, All)
<1>1. word \in [0 .. 3 -> Nat] /\ IsGpu(g) /\ IsAssembly(g)
  BY WordsAreNumbers DEF Begun, Blank
<1>2. IsGpu(e) /\ SameTriangles(g, e) /\ SameUniforms(g, e)
  BY <1>1, RegisterWritten
<1> HIDE DEF e
<1>3. Begun(e)
  <2>1. Blank(e)
    BY <1>2, SameTrianglesAssembled DEF Begun
  <2>2. e.tembuffer = <<>> /\ e.float = g.float
    BY <1>2 DEF Begun, SameUniforms
  <2>3. g.float = [c \in 0 .. 95 |-> g.float[c]]
    BY Zenon DEF Begun
  <2>4. e.float = [c \in 0 .. 95 |-> e.float[c]]
    BY <2>2, <2>3
  <2> QED BY <1>2, <2>1, <2>2, <2>4 DEF Begun
<1>4. CASE ID \notin {VSresttriangel, VSFloatUniformSetup}
  <2>1. All # {}
    BY DEF All
  <2>2. Write(ID, word) = WriteTo(ID, All, word)
    BY DEF Write, WriteTo
  <2>3. h = e
    BY <1>4, <2>1, <2>2, PlainWrite DEF e
  <2> QED BY <1>3, <2>3
<1>5. CASE ID = VSFloatUniformSetup
  <2> DEFINE words == <<word>>
             cmd == Write(ID, word)
             rest == Tail(words)
  <2>1. words[1] = word /\ Len(rest) = 0
    OBVIOUS
  <2>2. cmd.ID = ID /\ cmd.mask = All /\ cmd.words = words /\ cmd.grouping = FALSE /\ cmd.mask # {}
    BY DEF Write, Command, All
  <2> HIDE DEF words, cmd
  <2>3. h = writeGPUID(g, mem, ID, All, words)
    BY <2>2 DEF Executed, cmd
  <2>4. writeGPUID(g, mem, ID, All, words) = FloatUniforms(updateGPUintreg(g, words[1], ID, All), Tail(words))
    <3>1. /\ ID \notin {TriggerDraw, TriggerDrawIndexed}
          /\ ID \notin VSLoadProgramData .. VSLoadProgramData + 7
          /\ ID \notin VSLoadSwizzleData .. VSLoadSwizzleData + 7
          /\ ID # VSresttriangel
          /\ ID \notin VSFloatUniformSetup + 1 .. VSFloatUniformSetup + 8
      BY <1>5 DEF TriggerDraw, TriggerDrawIndexed, VSLoadProgramData, VSLoadSwizzleData, VSresttriangel,
                  VSFloatUniformSetup
    <3> QED BY <1>5, <3>1, Zenon DEF writeGPUID
  <2> HIDE DEF rest
  <2>5. h = FloatUniforms(e, rest)
    BY <2>1, <2>3, <2>4 DEF e, rest
  <2>6. FloatUniforms(e, rest) = e
    BY <2>1, NoWords
  <2> QED BY <1>3, <2>5, <2>6
<1>6. CASE ID = VSresttriangel
  <2>1. IsGpu(h) /\ SameUniforms(g, h) /\ Blank(h)
    BY <1>1, <1>6, RestartWritten DEF Begun
  <2> HIDE DEF h
  <2>2. h.tembuffer = <<>> /\ h.float = g.float
    BY <2>1 DEF Begun, SameUniforms
  <2>3. g.float = [c \in 0 .. 95 |-> g.float[c]]
    BY Zenon DEF Begun
  <2>4. h.float = [c \in 0 .. 95 |-> h.float[c]]
    BY <2>2, <2>3
  <2> QED BY <2>1, <2>2, <2>4 DEF Begun, h
<1> QED BY <1>4, <1>5, <1>6

\* All of the registers that are set first.
LEMMA RegistersSet ==
    ASSUME NEW g, Begun(g), NEW mem, NEW sc, sc.registers \in Seq(Registers \X Word)
    PROVE  /\ Begun(gpu_ExecuteCommands(g, mem, RegisterCommands(sc)))
           /\ IsSequence(RegisterCommands(sc))
<1> DEFINE s == RegisterCommands(sc)
           m == Len(sc.registers)
<1>1. m \in Nat /\ DOMAIN sc.registers = 1 .. m
  OBVIOUS
<1>2. ASSUME NEW k \in 1 .. m
      PROVE  sc.registers[k][1] \in Registers /\ sc.registers[k][2] \in Word
  <2>1. sc.registers[k] \in Registers \X Word
    BY <1>1
  <2> QED BY <2>1
<1>3. s = [k \in 1 .. m |-> Write(sc.registers[k][1], sc.registers[k][2])]
  BY <1>1 DEF RegisterCommands
<1> HIDE DEF s, m
<1>4. Len(s) = m /\ \A k \in 1 .. m : s[k] = Write(sc.registers[k][1], sc.registers[k][2])
  BY <1>1, <1>3
<1>5. IsSequence(s)
  <2> DEFINE X == {s[k] : k \in 1 .. m}
  <2>1. \A k \in 1 .. m : s[k] \in X
    OBVIOUS
  <2>2. s = [k \in 1 .. m |-> s[k]]
    BY <1>3
  <2> HIDE DEF X
  <2>3. s \in [1 .. m -> X]
    BY <2>1, <2>2
  <2>4. s \in Seq(X)
    BY <1>1, <2>3
  <2> QED BY <2>4 DEF IsSequence
<1>6. PICK F : /\ F[0] = g /\ \A k \in 1 .. Len(s) : F[k] = Executed(F[k - 1], mem, s[k])
               /\ gpu_ExecuteCommands(g, mem, s) = F[Len(s)]
  <2>1. Len(s) \in Nat
    BY <1>1, <1>4
  <2> QED BY <2>1, CommandsInTurn
<1> DEFINE S == {k \in Nat : k <= m => Begun(F[k])}
<1>7. 0 \in S
  BY <1>6
<1>8. ASSUME NEW k \in Nat, k \in S
      PROVE  k + 1 \in S
  <2>1. SUFFICES ASSUME k + 1 <= m
                 PROVE  Begun(F[k + 1])
    OBVIOUS
  <2>2. k + 1 \in 1 .. m /\ (k + 1) - 1 = k /\ k <= m
    BY <1>1, <2>1
  <2>3. F[k + 1] = Executed(F[k], mem, s[k + 1])
    BY <1>4, <1>6, <2>2
  <2>4. Begun(F[k])
    BY <1>8, <2>2
  <2> DEFINE ID == sc.registers[k + 1][1]
             word == sc.registers[k + 1][2]
  <2>5. ID \in Registers /\ word \in Word
    BY <1>2, <2>2
  <2>6. s[k + 1] = Write(ID, word)
    BY <1>4, <2>2
  <2> HIDE DEF ID, word
  <2> QED BY <2>3, <2>4, <2>5, <2>6, FirstWrites
<1>9. m \in S
  <2> HIDE DEF S
  <2>1. Nat \subseteq S
    BY <1>7, <1>8, SetInduction
  <2> QED BY <1>1, <2>1
<1> QED BY <1>4, <1>5, <1>6, <1>9 DEF s

\* Of any batches nothing has been received then.
LEMMA NothingReceived ==
    ASSUME NEW batches, AreBatches(batches), NEW g, Begun(g)
    PROVE  Received(batches, g, 0)
<1>1. ASSUME NEW b, NEW k, NEW p, Place(batches, 0, b, k, p)
      PROVE  FALSE
  <2>1. Starts(batches)[b - 1] \in Nat /\ Starts(batches)[b - 1] < 0
    BY <1>1, PlaceWithin
  <2> QED BY <2>1
<1>2. g.float = [c \in 0 .. 95 |-> g.float[c]] /\ g.tembuffer = <<>>
  BY Zenon DEF Begun
<1>3. \A m \in 1 .. 0 : FALSE
  OBVIOUS
<1> QED BY <1>1, <1>2, <1>3, ReceivedParts

\* The batches start one after the other.
LEMMA Ascending ==
    ASSUME NEW batches, AreBatches(batches)
    PROVE  \A d, e \in 0 .. Len(batches) : d <= e => Starts(batches)[d] <= Starts(batches)[e]
<1> TAKE d, e \in 0 .. Len(batches)
<1> HAVE d <= e
<1> QED BY StartsGrow

\* A configuration is the first item of its batch, and no other item is one.
LEMMA SetupFirst ==
    ASSUME NEW batches, AreBatches(batches), NEW b \in 1 .. Len(batches),
           NEW i \in 2 .. Len(Items(batches[b]))
    PROVE  ~IsSetup(Stream(batches)[Starts(batches)[b - 1] + i])
<1> DEFINE off == Starts(batches)
           N == Len(batches)
           m == Len(Items(batches[b]))
           n == off[b - 1] + i
<1>1. /\ N \in Nat /\ off \in [0 .. N -> Nat] /\ off[0] = 0 /\ Len(Stream(batches)) = off[N]
      /\ \A d \in 1 .. N : off[d] = off[d - 1] + Len(Items(batches[d]))
  BY StartsLaid DEF AreBatches, Laid
<1>2. m \in Nat
  <2>1. IsSequence(Items(batches[b]))
    BY ItemsAre DEF AreBatches
  <2> QED BY <2>1 DEF IsSequence
<1>13. \A d, e \in 0 .. N : d <= e => off[d] <= off[e]
  BY Ascending, Zenon
<1> HIDE DEF off, N, m
<1>3. b \in 1 .. N /\ i \in 2 .. m /\ b \in 0 .. N /\ N \in 0 .. N /\ b - 1 \in 0 .. N /\ b <= N
  BY <1>1 DEF N, m
<1>4. off[b] = off[b - 1] + m /\ off[b - 1] \in Nat /\ off[b] \in Nat /\ off[N] \in Nat
  BY <1>1, <1>3 DEF m
<1>5. off[b] <= off[N]
  BY <1>3, <1>13
<1>6. n \in 1 .. off[N] /\ off[b - 1] + 1 < n /\ n <= off[b]
  <2> DEFINE lo == off[b - 1]
             hi == off[b]
             top == off[N]
  <2>1. lo \in Nat /\ hi = lo + m /\ hi <= top /\ top \in Nat /\ m \in Nat /\ i \in Int /\ 2 <= i /\ i <= m
        /\ n = lo + i
    BY <1>2, <1>3, <1>4, <1>5
  <2> HIDE DEF lo, hi, top, n
  <2>2. n \in 1 .. top /\ lo + 1 < n /\ n <= hi
    BY <2>1
  <2> QED BY <2>2 DEF lo, hi, top
<1> HIDE DEF n
<1>7. PICK c, k, p : Place(batches, n, c, k, p)
  <2>1. n \in 1 .. Len(Stream(batches))
    BY <1>1, <1>6
  <2> QED BY <2>1, PlaceExists
<1> DEFINE W == Width(batches[c])
<1>8. /\ c \in 1 .. N /\ W \in {3, 4} /\ off[c - 1] \in Nat /\ off[c] \in Nat
      /\ k \in 0 .. Len(batches[c].vectors) /\ Len(batches[c].vectors) \in Nat /\ p \in 0 .. W - 1
  BY <1>7, PlaceWithin DEF off, N
<1>9. n = off[c - 1] + 1 + W * k + p /\ off[c - 1] < n /\ n <= off[c]
  BY <1>7, PlaceWithin DEF Place, off
<1>10. p > 0 \/ (p = 0 /\ k > 0)
  <2>1. ASSUME p = 0, k = 0
        PROVE  FALSE
    <3>1. n = off[c - 1] + 1
      <4>1. W * k = 0
        BY <1>8, <2>1
      <4> HIDE DEF W
      <4> QED BY <1>8, <1>9, <2>1, <4>1
    <3>2. CASE c <= b
      <4>1. c - 1 \in 0 .. N /\ c - 1 <= b - 1
        BY <1>1, <1>3, <1>8, <3>2
      <4>2. off[c - 1] <= off[b - 1]
        BY <1>3, <4>1, <1>13
      <4> QED BY <1>4, <1>6, <1>8, <3>1, <4>2
    <3>3. CASE b < c
      <4>1. c - 1 \in 0 .. N /\ b <= c - 1
        BY <1>1, <1>3, <1>8, <3>3
      <4>2. off[b] <= off[c - 1]
        BY <1>3, <4>1, <1>13
      <4> DEFINE hi == off[b]
                 at == off[c - 1]
      <4>3. hi \in Nat /\ at \in Nat /\ hi <= at /\ n = at + 1 /\ n <= hi
        BY <1>4, <1>6, <1>8, <3>1, <4>2
      <4> HIDE DEF hi, at
      <4> QED BY <4>3
    <3>4. c \in Int /\ b \in Int
      BY <1>3, <1>8
    <3> QED BY <3>2, <3>3, <3>4
  <2>2. p \in Nat /\ k \in Nat
    <3> HIDE DEF W
    <3> QED BY <1>8
  <2> QED BY <2>1, <2>2
<1> HIDE DEF W
<1>11. CASE p > 0
  <2>1. Stream(batches)[n] = WordFor(batches[c], k + 1, p)
    BY <1>7, <1>11, WordAt
  <2> QED BY <2>1 DEF IsSetup, WordFor, n, off
<1>12. CASE p = 0 /\ k > 0
  <2>1. Stream(batches)[n] = WordFor(batches[c], k, Width(batches[c]))
    BY <1>7, <1>12, WordAt
  <2> QED BY <2>1 DEF IsSetup, WordFor, n, off
<1> QED BY <1>10, <1>11, <1>12

\* The uniforms, a command for each batch.
LEMMA UniformsSent ==
    ASSUME NEW sc, AreBatches(sc.batches), Disjoint(sc.batches), NEW mem,
           NEW g, IsGpu(g), Received(sc.batches, g, 0)
    PROVE  LET h == gpu_ExecuteCommands(g, mem, AllUniforms(sc))
           IN  /\ Received(sc.batches, h, Len(Stream(sc.batches))) /\ OnlyUniforms(g, h)
               /\ IsSequence(AllUniforms(sc))
<1> DEFINE batches == sc.batches
           stream == Stream(batches)
           off == Starts(batches)
           N == Len(batches)
           s == AllUniforms(sc)
           m(b) == Len(Items(batches[b]))
<1>1. /\ N \in Nat /\ off \in [0 .. N -> Nat] /\ off[0] = 0 /\ Len(stream) = off[N]
      /\ \A b \in 1 .. N : off[b] = off[b - 1] + m(b)
      /\ \A b \in 1 .. N : \A i \in 1 .. m(b) : stream[off[b - 1] + i] = Items(batches[b])[i]
  BY StartsLaid DEF AreBatches, Laid
<1>2. ASSUME NEW b \in 1 .. N
      PROVE  m(b) \in Nat /\ m(b) > 0
  <2>1. IsBatch(batches[b])
    BY DEF AreBatches
  <2> DEFINE W == Width(batches[b])
             V == Len(batches[b].vectors)
  <2>2. m(b) = 1 + W * V /\ V \in Nat /\ W \in {3, 4}
    BY <2>1, ItemsAre DEF Width
  <2> HIDE DEF W, V, m
  <2>3. W * V \in Nat
    BY <2>2
  <2> QED BY <2>2, <2>3
<1>3. s = [b \in 1 .. N |-> UniformCommand(Items(batches[b]), 0, m(b), FALSE)]
  BY DEF AllUniforms, AreBatches
<1>4. ASSUME NEW b \in 1 .. N
      PROVE  UniformCommand(Items(batches[b]), 0, m(b), FALSE) = UniformCommand(stream, off[b - 1], m(b), FALSE)
  <2> DEFINE items == Items(batches[b])
             o == off[b - 1]
             n == m(b)
             Word1(i) == IF IsSetup(items[0 + i]) THEN SetupWord(items[0 + i].batch) ELSE items[0 + i].word
             Word2(i) == IF IsSetup(stream[o + i]) THEN SetupWord(stream[o + i].batch) ELSE stream[o + i].word
  <2>1. n \in Nat /\ n > 0 /\ o \in Nat /\ \A i \in 1 .. n : stream[o + i] = items[i]
    <3>1. b - 1 \in 0 .. N
      BY <1>1
    <3> QED BY <1>1, <1>2, <3>1
  <2> HIDE DEF items, o, n, stream
  <2>2. \A i \in 1 .. n : 0 + i = i
    BY <2>1
  <2>3. \A i \in 1 .. n : Word1(i) = Word2(i)
    BY <2>1, <2>2
  <2>4. stream[o + 1] = items[0 + 1]
    <3>1. 1 \in 1 .. n /\ 0 + 1 = 1
      BY <2>1
    <3> QED BY <2>1, <3>1
  <2> DEFINE words1 == [i \in 1 .. n |-> Word1(i)]
             words2 == [i \in 1 .. n |-> Word2(i)]
             ID1 == IF IsSetup(items[0 + 1]) THEN VSFloatUniformSetup ELSE VSFloatUniformSetup + 1
             ID2 == IF IsSetup(stream[o + 1]) THEN VSFloatUniformSetup ELSE VSFloatUniformSetup + 1
  <2>5. UniformCommand(items, 0, n, FALSE) = Command(ID1, All, words1, FALSE)
    BY Zenon DEF UniformCommand
  <2>6. UniformCommand(stream, o, n, FALSE) = Command(ID2, All, words2, FALSE)
    BY Zenon DEF UniformCommand
  <2>7. words1 = words2
    <3> HIDE DEF Word1, Word2
    <3>1. words1 = [i \in 1 .. n |-> words1[i]] /\ words2 = [i \in 1 .. n |-> words2[i]]
      OBVIOUS
    <3>2. \A i \in 1 .. n : words1[i] = Word1(i) /\ words2[i] = Word2(i)
      OBVIOUS
    <3> HIDE DEF words1, words2
    <3>3. \A i \in 1 .. n : words1[i] = words2[i]
      BY <2>3, <3>2
    <3> QED BY <3>1, <3>3
  <2>8. ID1 = ID2
    BY <2>4
  <2> HIDE DEF words1, words2, ID1, ID2
  <2>9. UniformCommand(items, 0, n, FALSE) = UniformCommand(stream, o, n, FALSE)
    BY <2>5, <2>6, <2>7, <2>8
  <2> QED BY <2>9 DEF items, o, n, m
<1> DEFINE cmd(b) == UniformCommand(Items(batches[b]), 0, m(b), FALSE)
<1> HIDE DEF s, N, off, stream, m
<1>5. Len(s) = N /\ \A b \in 1 .. N : s[b] = UniformCommand(stream, off[b - 1], m(b), FALSE)
  <2> HIDE DEF cmd
  <2>1. s = [b \in 1 .. N |-> cmd(b)] /\ N \in Nat
    BY <1>1, <1>3 DEF cmd
  <2>2. Len(s) = N /\ \A b \in 1 .. N : s[b] = cmd(b)
    BY <2>1
  <2>3. \A b \in 1 .. N : cmd(b) = UniformCommand(stream, off[b - 1], m(b), FALSE)
    BY <1>4 DEF cmd
  <2> QED BY <2>2, <2>3
<1>6. IsSequence(s)
  <2> DEFINE X == {s[b] : b \in 1 .. N}
  <2>1. \A b \in 1 .. N : s[b] \in X
    OBVIOUS
  <2>2. s = [b \in 1 .. N |-> s[b]]
    BY <1>3
  <2> HIDE DEF X
  <2>3. s \in [1 .. N -> X]
    BY <2>1, <2>2
  <2>4. s \in Seq(X)
    BY <1>1, <2>3
  <2> QED BY <2>4 DEF IsSequence
<1>7. PICK F : /\ F[0] = g /\ \A b \in 1 .. Len(s) : F[b] = Executed(F[b - 1], mem, s[b])
               /\ gpu_ExecuteCommands(g, mem, s) = F[Len(s)]
  <2>1. Len(s) \in Nat
    BY <1>1, <1>5
  <2> QED BY <2>1, CommandsInTurn
<1> DEFINE P(b) == Received(batches, F[b], off[b]) /\ OnlyUniforms(g, F[b])
           S == {b \in Nat : b <= N => P(b)}
<1>8. 0 \in S
  <2>1. OnlyUniforms(g, g)
    BY DEF OnlyUniforms, SameTriangles
  <2> QED BY <1>1, <1>7, <2>1
<1>9. ASSUME NEW b \in Nat, b \in S
      PROVE  b + 1 \in S
  <2> HIDE DEF P
  <2>1. SUFFICES ASSUME b + 1 <= N
                 PROVE  P(b + 1)
    OBVIOUS
  <2>2. b + 1 \in 1 .. N /\ (b + 1) - 1 = b /\ b <= N /\ b \in 0 .. N /\ b + 1 \in 0 .. N /\ N \in 0 .. N
    BY <1>1, <2>1
  <2>3. F[b + 1] = Executed(F[b], mem, s[b + 1])
    BY <1>5, <1>7, <2>2
  <2>4. Received(batches, F[b], off[b]) /\ OnlyUniforms(g, F[b])
    BY <1>9, <2>2 DEF P
  <2> DEFINE n == off[b]
             k == m(b + 1)
  <2>5. s[b + 1] = UniformCommand(stream, n, k, FALSE)
    BY <1>5, <2>2
  <2>6. n \in Nat /\ k \in Nat \ {0} /\ n + k = off[b + 1] /\ n + k <= Len(stream)
    <3>1. n \in Nat /\ off[b + 1] = n + m(b + 1) /\ m(b + 1) \in Nat /\ m(b + 1) > 0
      BY <1>1, <1>2, <2>2
    <3>2. off[b + 1] <= off[N]
      BY <2>2, StartsGrow DEF off, N
    <3> QED BY <1>1, <3>1, <3>2
  <2>7. ASSUME NEW i \in 2 .. k
        PROVE  ~IsSetup(stream[n + i])
    <3> DEFINE d == b + 1
    <3>1. d \in 1 .. Len(batches) /\ d - 1 = b /\ i \in 2 .. Len(Items(batches[d]))
      BY <2>2 DEF N, m
    <3> HIDE DEF d
    <3>2. ~IsSetup(Stream(batches)[Starts(batches)[d - 1] + i])
      BY <3>1, SetupFirst
    <3> QED BY <3>1, <3>2 DEF stream, off
  <2> HIDE DEF n, k
  <2>8. IsGpu(F[b])
    BY <2>4 DEF OnlyUniforms
  <2> DEFINE h == Executed(F[b], mem, UniformCommand(stream, n, k, FALSE))
  <2>9. Received(batches, h, n + k) /\ OnlyUniforms(F[b], h)
    <3>1. Received(batches, F[b], n)
      BY <2>4 DEF n
    <3> QED BY <2>6, <2>7, <2>8, <3>1, CommandReceived DEF stream
  <2> HIDE DEF h
  <2>10. F[b + 1] = h
    BY <2>3, <2>5 DEF h
  <2> QED BY <2>4, <2>6, <2>9, <2>10, OnlyUniformsTwice DEF P
<1>10. N \in S
  <2> HIDE DEF S
  <2>1. Nat \subseteq S
    BY <1>8, <1>9, SetInduction
  <2> QED BY <1>1, <2>1
<1>11. Received(batches, F[N], off[N]) /\ OnlyUniforms(g, F[N])
  BY <1>1, <1>10
<1> QED BY <1>1, <1>5, <1>6, <1>7, <1>11 DEF s, stream

-----------------------------------------------------------------------------
(* The invariant, and what it gives.                                          *)

\* Commands behind others are executed behind them.
LEMMA BothExecuted ==
    ASSUME NEW g, NEW mem, NEW s, NEW t, IsSequence(s), IsSequence(t)
    PROVE  /\ gpu_ExecuteCommands(g, mem, s \o t) = gpu_ExecuteCommands(gpu_ExecuteCommands(g, mem, s), mem, t)
           /\ IsSequence(s \o t)
<1>1. PICK X : s \in Seq(X)
  BY DEF IsSequence
<1>2. PICK Y : t \in Seq(Y)
  BY DEF IsSequence
<1> DEFINE Z == X \cup Y
<1>3. s \in Seq(Z)
  BY <1>1
<1>4. t \in Seq(Z)
  BY <1>2
<1> HIDE DEF Z
<1>5. s \o t \in Seq(Z)
  BY <1>3, <1>4
<1>6. IsSequence(s \o t)
  BY <1>5 DEF IsSequence
<1>7. gpu_ExecuteCommands(g, mem, s \o t) = gpu_ExecuteCommands(gpu_ExecuteCommands(g, mem, s), mem, t)
  BY <1>3, <1>4, CommandsJoined
<1> QED BY <1>6, <1>7

\* The commands of an upload are a sequence.
LEMMA UploadsAreSequences ==
    ASSUME NEW words, NEW sent, NEW n, NEW grouping
    PROVE  /\ IsSequence(ProgramCommands(words, sent, n, grouping))
           /\ IsSequence(SwizzleCommands(words, sent, n, grouping))
<1>1. ASSUME NEW c, NEW d
      PROVE  IsSequence((IF sent = 0 THEN <<c>> ELSE <<>>) \o <<d>>)
  <2>1. <<c>> \in Seq({c, d}) /\ <<>> \in Seq({c, d}) /\ <<d>> \in Seq({c, d})
    OBVIOUS
  <2> DEFINE X == {c, d}
             s == IF sent = 0 THEN <<c>> ELSE <<>>
             t == <<d>>
  <2>2. s \in Seq(X) /\ t \in Seq(X)
    BY <2>1
  <2> HIDE DEF X, s, t
  <2>3. s \o t \in Seq(X)
    BY <2>2
  <2> QED BY <2>3 DEF IsSequence, s, t
<1> QED BY <1>1 DEF ProgramCommands, SwizzleCommands

\* What SceneAssumption says of a scene, in the words of this module.
LEMMA SceneIs ==
    ASSUME NEW sc \in Scenes
    PROVE  /\ AreBatches(sc.batches) /\ Disjoint(sc.batches)
           /\ sc.code \in Seq(Range(sc.code)) /\ sc.swizzle \in Seq(Range(sc.swizzle))
           /\ sc.registers \in Seq(Registers \X Word) /\ sc.topologies \subseteq 0 .. 3
           /\ \A d \in sc.draws : d.indexed \in BOOLEAN /\ d.count \in Nat /\ d.config \in Word
<1>1. /\ sc.code \in Seq(Range(sc.code)) /\ sc.swizzle \in Seq(Range(sc.swizzle))
      /\ sc.registers \in Seq(Registers \X Word) /\ sc.topologies \subseteq 0 .. 3
      /\ \A d \in sc.draws : d.indexed \in BOOLEAN /\ d.count \in Nat /\ d.config \in Word
  BY SceneAssumption, Zenon
<1> DEFINE batches == sc.batches
<1>2. batches \in Seq(Range(batches))
  BY SceneAssumption, Zenon
<1>3. \A b \in Range(batches) : IsBatch(b)
  BY SceneAssumption, Zenon DEF IsBatch
<1>4. \A i, j \in DOMAIN batches : i < j =>
          \/ batches[i].first + Len(batches[i].vectors) <= batches[j].first
          \/ batches[j].first + Len(batches[j].vectors) <= batches[i].first
  BY SceneAssumption, Zenon
<1> HIDE DEF batches
<1>5. Len(batches) \in Nat /\ DOMAIN batches = 1 .. Len(batches)
  BY <1>2
<1>6. AreBatches(batches)
  <2>1. ASSUME NEW b \in 1 .. Len(batches)
        PROVE  IsBatch(batches[b])
    <3>1. batches[b] \in Range(batches)
      BY <1>5 DEF Range
    <3> QED BY <1>3, <3>1
  <2> QED BY <1>5, <2>1 DEF AreBatches
<1>7. Disjoint(batches)
  <2> SUFFICES ASSUME NEW b \in 1 .. Len(batches), NEW c \in 1 .. Len(batches), b # c
               PROVE  \/ batches[b].first + Len(batches[b].vectors) <= batches[c].first
                      \/ batches[c].first + Len(batches[c].vectors) <= batches[b].first
    BY DEF Disjoint
  <2>1. b < c \/ c < b
    BY <1>5
  <2>2. b \in DOMAIN batches /\ c \in DOMAIN batches
    BY <1>5
  <2>3. CASE b < c
    BY <1>4, <2>2, <2>3, Zenon
  <2>4. CASE c < b
    BY <1>4, <2>2, <2>4, Zenon
  <2> QED BY <2>1, <2>3, <2>4
<1> QED BY <1>1, <1>6, <1>7 DEF batches

\* n items of the uniforms of a scene are sent, and its triangles are assembled.
Holding(sc, g, n) == IsGpu(g) /\ Assembled(g) /\ Received(sc.batches, g, n)

\* What the guest has sent before its first step.
LEMMA FirstState ==
    ASSUME NEW sc \in Scenes
    PROVE  LET g == gpu_ExecuteCommands(Before, sc.mem, RegisterCommands(sc)
                      \o IF sc.fresh THEN <<>>
                         ELSE ProgramCommands(sc.code, 0, Len(sc.code), FALSE)
                                \o SwizzleCommands(sc.swizzle, 0, Len(sc.swizzle), FALSE)
                                \o AllUniforms(sc))
           IN  Holding(sc, g, IF sc.fresh THEN 0 ELSE Len(Stream(sc.batches)))
<1> DEFINE mem == sc.mem
           r == RegisterCommands(sc)
           p == ProgramCommands(sc.code, 0, Len(sc.code), FALSE)
           q == SwizzleCommands(sc.swizzle, 0, Len(sc.swizzle), FALSE)
           u == AllUniforms(sc)
           g0 == gpu_ExecuteCommands(Before, mem, r)
           g1 == gpu_ExecuteCommands(g0, mem, p)
           g2 == gpu_ExecuteCommands(g1, mem, q)
           g3 == gpu_ExecuteCommands(g2, mem, u)
<1>1. Begun(g0) /\ IsSequence(r)
  BY SceneIs, BeforeBegun, RegistersSet
<1>2. IsSequence(p) /\ IsSequence(q) /\ IsSequence(<<>>)
  <2>1. <<>> \in Seq({})
    OBVIOUS
  <2> QED BY <2>1, UploadsAreSequences DEF IsSequence
<1>3. AreBatches(sc.batches) /\ Disjoint(sc.batches)
  BY SceneIs
<1>4. IsGpu(g0) /\ Assembled(g0) /\ Received(sc.batches, g0, 0)
  <2> HIDE DEF g0
  <2> QED BY <1>1, <1>3, NothingReceived, BlankIsAssembled DEF Begun
<1>5. Apart(g0, g1) /\ Apart(g1, g2)
  <2>1. sc.code \in Seq(Range(sc.code)) /\ Len(sc.code) \in Nat /\ 0 + Len(sc.code) <= Len(sc.code)
    BY SceneIs
  <2>2. sc.swizzle \in Seq(Range(sc.swizzle)) /\ Len(sc.swizzle) \in Nat /\ 0 + Len(sc.swizzle) <= Len(sc.swizzle)
    BY SceneIs
  <2> HIDE DEF g0, mem
  <2>3. Apart(g0, g1)
    BY <1>4, <2>1, WordsUploaded
  <2>4. IsGpu(g1)
    BY <2>3 DEF Apart
  <2> HIDE DEF g1
  <2>5. Apart(g1, g2)
    BY <2>2, <2>4, WordsUploaded
  <2> QED BY <2>3, <2>5
<1>6. IsGpu(g2) /\ Assembled(g2) /\ Received(sc.batches, g2, 0)
  <2> HIDE DEF g0, g1, g2
  <2>1. Apart(g0, g2)
    BY <1>5, ApartTwice
  <2> QED BY <1>4, <2>1, ApartKeeps DEF Apart
<1>7. Received(sc.batches, g3, Len(Stream(sc.batches))) /\ OnlyUniforms(g2, g3) /\ IsSequence(u)
  <2> HIDE DEF g2, mem
  <2> QED BY <1>3, <1>6, UniformsSent
<1>8. IsGpu(g3) /\ Assembled(g3)
  <2> HIDE DEF g2, g3
  <2> QED BY <1>6, <1>7, SameTrianglesAssembled DEF OnlyUniforms
<1> HIDE DEF p, q, r, u
<1>9. gpu_ExecuteCommands(Before, mem, r \o <<>>) = g0
  BY <1>1, <1>2, BothExecuted, NoCommand
<1>10. gpu_ExecuteCommands(Before, mem, r \o (p \o q \o u)) = g3
  <2>1. IsSequence(p \o q) /\ IsSequence(p \o q \o u)
    BY <1>2, <1>7, BothExecuted
  <2>2. gpu_ExecuteCommands(Before, mem, r \o (p \o q \o u)) = gpu_ExecuteCommands(g0, mem, p \o q \o u)
    BY <1>1, <2>1, BothExecuted
  <2>3. gpu_ExecuteCommands(g0, mem, p \o q \o u) = gpu_ExecuteCommands(gpu_ExecuteCommands(g0, mem, p \o q), mem, u)
    BY <1>7, <2>1, BothExecuted
  <2>4. gpu_ExecuteCommands(g0, mem, p \o q) = g2
    BY <1>2, BothExecuted
  <2> QED BY <2>2, <2>3, <2>4
<1>11. CASE sc.fresh
  <2> HIDE DEF g0
  <2> QED BY <1>4, <1>9, <1>11 DEF Holding, p, q, r, u
<1>12. CASE ~sc.fresh
  <2> HIDE DEF g3
  <2> QED BY <1>7, <1>8, <1>10, <1>12 DEF Holding, p, q, r, u
<1> QED BY <1>11, <1>12

\* What a guest has sent of its uniforms has been taken as it is meant, and the
\* vertices since the last restart are in triangles or in the buffer.
IInv ==
    /\ scene \in Scenes
    /\ guest \in [code : Nat, swizzle : Nat, uniforms : Nat, restarts : Nat]
    /\ guest.uniforms <= Len(Stream(scene.batches))
    /\ Holding(scene, gpu, guest.uniforms)

\* The uniforms' words are a number of words.
LEMMA StreamLength ==
    ASSUME NEW sc \in Scenes
    PROVE  Len(Stream(sc.batches)) \in Nat
<1>1. IsSequence(Stream(sc.batches))
  BY SceneIs, StartsLaid
<1> QED BY <1>1 DEF IsSequence

\* The invariant holds at first.
LEMMA InitIInv == Init => IInv
<1> SUFFICES ASSUME Init
             PROVE  IInv
  OBVIOUS
<1>1. scene \in Scenes
  BY DEF Init
<1>2. Holding(scene, gpu, IF scene.fresh THEN 0 ELSE Len(Stream(scene.batches)))
  BY <1>1, FirstState, Zenon DEF Init
<1>3. Len(scene.code) \in Nat /\ Len(scene.swizzle) \in Nat /\ Len(Stream(scene.batches)) \in Nat
  <2>1. scene.code \in Seq(Range(scene.code)) /\ scene.swizzle \in Seq(Range(scene.swizzle))
    BY <1>1, SceneIs
  <2> QED BY <1>1, <2>1, StreamLength
<1>4. guest = IF scene.fresh THEN [code |-> 0, swizzle |-> 0, uniforms |-> 0, restarts |-> 0]
              ELSE [code |-> Len(scene.code), swizzle |-> Len(scene.swizzle),
                    uniforms |-> Len(Stream(scene.batches)), restarts |-> 0]
  BY DEF Init
<1>5. CASE scene.fresh
  <2>1. guest = [code |-> 0, swizzle |-> 0, uniforms |-> 0, restarts |-> 0]
    BY <1>4, <1>5
  <2>2. Holding(scene, gpu, 0)
    BY <1>2, <1>5
  <2> QED BY <1>1, <1>3, <2>1, <2>2 DEF IInv
<1>6. CASE ~scene.fresh
  <2>1. guest = [code |-> Len(scene.code), swizzle |-> Len(scene.swizzle),
                 uniforms |-> Len(Stream(scene.batches)), restarts |-> 0]
    BY <1>4, <1>6
  <2>2. Holding(scene, gpu, Len(Stream(scene.batches)))
    BY <1>2, <1>6
  <2> QED BY <1>1, <1>3, <2>1, <2>2 DEF IInv
<1> QED BY <1>5, <1>6

\* Every step keeps it.
LEMMA NextIInv == IInv /\ [Next]_vars => IInv'
<1> SUFFICES ASSUME IInv, [Next]_vars
             PROVE  IInv'
  OBVIOUS
<1> USE DEF IInv
<1> DEFINE total == Len(Stream(scene.batches))
           sent == guest.uniforms
<1>1. /\ scene \in Scenes /\ sent \in Nat /\ total \in Nat /\ sent <= total
      /\ guest \in [code : Nat, swizzle : Nat, uniforms : Nat, restarts : Nat]
  BY StreamLength
<1>2. IsGpu(gpu) /\ Assembled(gpu) /\ Received(scene.batches, gpu, sent)
  BY DEF Holding
<1>3. ASSUME NEW n, n \in Bursts
      PROVE  n \in Nat /\ n \in Nat \ {0}
  BY <1>3, SceneAssumption
<1>4. CASE UploadProgram
  <2>1. PICK n \in Bursts, grouping \in BOOLEAN :
            /\ guest.code + n <= Len(scene.code)
            /\ grouping => n <= 8
            /\ gpu' = gpu_ExecuteCommands(gpu, scene.mem, ProgramCommands(scene.code, guest.code, n, grouping))
            /\ guest' = [guest EXCEPT !.code = @ + n]
            /\ UNCHANGED scene
    BY <1>4 DEF UploadProgram, Send
  <2>2. n \in Nat /\ guest.code \in Nat /\ scene.code \in Seq(Range(scene.code))
    BY <1>1, <1>3, SceneIs
  <2>3. Apart(gpu, gpu')
    BY <1>2, <2>1, <2>2, WordsUploaded
  <2>4. Holding(scene, gpu', sent)
    BY <1>2, <2>3, ApartKeeps DEF Holding, Apart
  <2>5. /\ guest' \in [code : Nat, swizzle : Nat, uniforms : Nat, restarts : Nat]
        /\ guest'.uniforms = sent /\ scene' = scene
    BY <1>1, <2>1, <2>2
  <2> QED BY <1>1, <2>4, <2>5
<1>5. CASE UploadSwizzle
  <2>1. PICK n \in Bursts, grouping \in BOOLEAN :
            /\ guest.swizzle + n <= Len(scene.swizzle)
            /\ grouping => n <= 8
            /\ gpu' = gpu_ExecuteCommands(gpu, scene.mem, SwizzleCommands(scene.swizzle, guest.swizzle, n, grouping))
            /\ guest' = [guest EXCEPT !.swizzle = @ + n]
            /\ UNCHANGED scene
    BY <1>5 DEF UploadSwizzle, Send
  <2>2. n \in Nat /\ guest.swizzle \in Nat /\ scene.swizzle \in Seq(Range(scene.swizzle))
    BY <1>1, <1>3, SceneIs
  <2>3. Apart(gpu, gpu')
    BY <1>2, <2>1, <2>2, WordsUploaded
  <2>4. Holding(scene, gpu', sent)
    BY <1>2, <2>3, ApartKeeps DEF Holding, Apart
  <2>5. /\ guest' \in [code : Nat, swizzle : Nat, uniforms : Nat, restarts : Nat]
        /\ guest'.uniforms = sent /\ scene' = scene
    BY <1>1, <2>1, <2>2
  <2> QED BY <1>1, <2>4, <2>5
<1>6. CASE UploadUniforms
  <2>1. PICK n \in Bursts, grouping \in BOOLEAN :
            /\ sent + n <= total
            /\ grouping => n <= 8
            /\ \A k \in 2 .. n : ~IsSetup(Stream(scene.batches)[sent + k])
            /\ gpu' = gpu_ExecuteCommands(gpu, scene.mem,
                          <<UniformCommand(Stream(scene.batches), sent, n, grouping)>>)
            /\ guest' = [guest EXCEPT !.uniforms = @ + n]
            /\ UNCHANGED scene
    BY <1>6 DEF UploadUniforms, Send
  <2>2. n \in Nat /\ n \in Nat \ {0} /\ AreBatches(scene.batches) /\ Disjoint(scene.batches)
    BY <1>1, <1>3, SceneIs
  <2>3. gpu' = Executed(gpu, scene.mem, UniformCommand(Stream(scene.batches), sent, n, grouping))
    BY <2>1, OneCommand
  <2>4. Received(scene.batches, gpu', sent + n) /\ OnlyUniforms(gpu, gpu')
    BY <1>1, <1>2, <2>1, <2>2, <2>3, CommandReceived
  <2>5. Holding(scene, gpu', sent + n)
    BY <1>2, <2>4, SameTrianglesAssembled DEF Holding, OnlyUniforms
  <2>6. /\ guest' \in [code : Nat, swizzle : Nat, uniforms : Nat, restarts : Nat]
        /\ guest'.uniforms = sent + n /\ scene' = scene
    BY <1>1, <2>1, <2>2
  <2> QED BY <1>1, <2>1, <2>5, <2>6
<1>7. CASE Draw
  <2>1. PICK d \in scene.draws :
            gpu' = gpu_ExecuteCommands(gpu, scene.mem,
                       <<Write(NumVertices, WordOf(d.count)), Write(IndexArrayConfig, d.config),
                         Write(IF d.indexed THEN TriggerDrawIndexed ELSE TriggerDraw, WordOf(1))>>)
    BY <1>7 DEF Draw, Send
  <2>2. d.indexed \in BOOLEAN /\ d.count \in Nat /\ d.config \in Word
    BY <1>1, SceneIs
  <2>3. Holding(scene, gpu', sent)
    BY <1>2, <2>1, <2>2, DrawKeeps DEF Holding
  <2>4. scene' = scene /\ guest' = guest
    BY <1>7 DEF Draw
  <2> QED BY <1>1, <2>3, <2>4
<1>8. CASE Restart
  <2>1. PICK topology \in scene.topologies :
            gpu' = gpu_ExecuteCommands(gpu, scene.mem, RestartCommands(topology))
    BY <1>8 DEF Restart, Send, RestartCommands
  <2>2. topology \in 0 .. 3
    BY <1>1, SceneIs
  <2> DEFINE h == gpu_ExecuteCommands(gpu, scene.mem, RestartCommands(topology))
  <2>6. IsGpu(h) /\ Assembled(h) /\ Received(scene.batches, h, sent)
    BY <1>2, <2>2, RestartKeeps, Zenon
  <2> HIDE DEF h
  <2>7. gpu' = h
    BY <2>1 DEF h
  <2>3. Holding(scene, gpu', sent)
    BY <2>6, <2>7 DEF Holding
  <2>4. scene' = scene /\ guest' = [guest EXCEPT !.restarts = @ + 1]
    BY <1>8 DEF Restart
  <2>5. /\ guest' \in [code : Nat, swizzle : Nat, uniforms : Nat, restarts : Nat]
        /\ guest'.uniforms = sent
    BY <1>1, <2>4
  <2> QED BY <1>1, <2>3, <2>4, <2>5
<1>9. CASE UNCHANGED vars
  BY <1>9 DEF vars
<1> QED BY <1>4, <1>5, <1>6, <1>7, <1>8, <1>9 DEF Next

\* However drawing is divided and whatever comes between, the vertices that were
\* fed since the last restart are in triangles of their topology, or in the buffer.
LEMMA AssembledAsSubmitted == IInv => TrianglesAsSubmitted
<1> SUFFICES ASSUME IInv
             PROVE  TrianglesAsSubmitted
  OBVIOUS
<1> DEFINE t == Topology(gpu)
           f == Fed(gpu)
           s == Sent(gpu)
           sent == [k \in 1 .. s |-> Nth(gpu, k)]
<1>1. IsGpu(gpu) /\ Assembled(gpu)
  BY DEF IInv, Holding
<1>2. t \in 0 .. 3
  <2>1. gpu.regs[TriangleTopology][1] \in Nat
    <3>1. gpu.regs[TriangleTopology] \in [0 .. 3 -> Nat]
      BY <1>1, PortsApart DEF IsGpu, Regs
    <3> QED BY <3>1
  <2> QED BY <2>1 DEF Topology
<1>3. f \in Nat /\ s \in Nat
  BY <1>1 DEF Assembled, IsAssembly, Fed, Sent
<1>4. TrianglesAsSubmitted <=> (IF t = 2 /\ sent # <<>> THEN Tail(sent) ELSE sent) = Expected(t, f)
  BY Zenon DEF TrianglesAsSubmitted, Topology, Fed, Sent, Nth
<1>5. CASE t \in {0, 3}
  <2>1. ListAssembled(gpu)
    BY <1>1, <1>5 DEF Assembled
  <2>2. s = f \div 3 /\ \A k \in 1 .. s : Nth(gpu, k) = {3 * k - 2, 3 * k - 1, 3 * k}
    BY <2>1 DEF ListAssembled
  <2> HIDE DEF t, f, s
  <2>3. Expected(t, f) = [k \in 1 .. f \div 3 |-> {3 * k - 2, 3 * k - 1, 3 * k}]
    BY <1>5 DEF Expected
  <2>4. sent = Expected(t, f)
    BY <2>2, <2>3
  <2> QED BY <1>4, <1>5, <2>4
<1>6. CASE t = 1
  <2>1. StripAssembled(gpu)
    BY <1>1, <1>6 DEF Assembled
  <2>2. s = (IF f < 2 THEN 0 ELSE f - 2) /\ \A k \in 1 .. s : Nth(gpu, k) = {k, k + 1, k + 2}
    BY <2>1 DEF StripAssembled
  <2> HIDE DEF t, f, s
  <2>3. Expected(t, f) = [k \in 1 .. f - 2 |-> {k, k + 1, k + 2}]
    BY <1>6 DEF Expected
  <2>4. 1 .. s = 1 .. f - 2
    BY <1>3, <2>2
  <2>5. sent = Expected(t, f)
    BY <2>2, <2>3, <2>4
  <2> QED BY <1>4, <1>6, <2>5
<1>7. CASE t = 2
  <2>1. FanAssembled(gpu)
    BY <1>1, <1>7 DEF Assembled
  <2>2. s = (IF f = 0 THEN 0 ELSE f - 1) /\ \A k \in 2 .. s : Nth(gpu, k) = {1, k, k + 1}
    BY <2>1 DEF FanAssembled
  <2> HIDE DEF t, f, s
  <2>3. Expected(t, f) = [k \in 1 .. f - 2 |-> {1, k + 1, k + 2}]
    BY <1>7 DEF Expected
  <2>4. CASE s = 0
    <3>1. sent = <<>>
      BY <2>4
    <3>2. 1 .. f - 2 = {}
      BY <1>3, <2>2, <2>4
    <3>3. Expected(t, f) = <<>>
      BY <2>3, <3>2
    <3> QED BY <1>4, <3>1, <3>3
  <2>5. CASE s > 0
    <3> DEFINE X == {Nth(gpu, k) : k \in 1 .. s}
    <3>1. sent \in Seq(X) /\ Len(sent) = s /\ sent # <<>> /\ \A k \in 1 .. s : sent[k] = Nth(gpu, k)
      <4>1. \A k \in 1 .. s : Nth(gpu, k) \in X
        OBVIOUS
      <4> HIDE DEF X
      <4>2. sent \in [1 .. s -> X]
        BY <4>1
      <4> QED BY <1>3, <2>5, <4>2
    <3> HIDE DEF sent, X
    <3>2. Tail(sent) = [k \in 1 .. s - 1 |-> sent[k + 1]]
      <4> DEFINE rest == Tail(sent)
      <4>1. rest \in Seq(X) /\ Len(rest) = s - 1 /\ \A k \in 1 .. s - 1 : rest[k] = sent[k + 1]
        BY <1>3, <2>5, <3>1
      <4> HIDE DEF rest
      <4>2. DOMAIN rest = 1 .. s - 1 /\ rest = [k \in DOMAIN rest |-> rest[k]]
        BY <4>1
      <4>3. rest = [k \in 1 .. s - 1 |-> sent[k + 1]]
        BY <4>1, <4>2
      <4> QED BY <4>3 DEF rest
    <3>3. \A k \in 1 .. s - 1 : sent[k + 1] = {1, k + 1, k + 2}
      <4> TAKE k \in 1 .. s - 1
      <4>1. k + 1 \in 2 .. s /\ k + 1 \in 1 .. s /\ (k + 1) + 1 = k + 2
        BY <1>3
      <4> QED BY <2>2, <3>1, <4>1
    <3>4. s - 1 = f - 2
      BY <1>3, <2>2, <2>5
    <3>5. Tail(sent) = Expected(t, f)
      BY <2>3, <3>2, <3>3, <3>4
    <3> QED BY <1>4, <1>7, <3>1, <3>5 DEF sent
  <2> QED BY <1>3, <2>4, <2>5
<1> QED BY <1>2, <1>5, <1>6, <1>7

\* Every word of the uniforms was taken when the last is sent, so that the last
\* word of each vector was.
LEMMA ReceivedArrives == IInv => UniformsArrive
<1> SUFFICES ASSUME IInv, guest.uniforms = Len(Stream(scene.batches)),
                    NEW b \in DOMAIN scene.batches, NEW k \in DOMAIN scene.batches[b].vectors
             PROVE  gpu.float[scene.batches[b].first + k - 1] = scene.batches[b].vectors[k]
  BY DEF UniformsArrive
<1> DEFINE batches == scene.batches
           off == Starts(batches)
           N == Len(batches)
           W == Width(batches[b])
           V == Len(batches[b].vectors)
           o == off[b - 1]
           total == Len(Stream(batches))
           n == o + 1 + W * k
<1>1. AreBatches(batches) /\ Received(batches, gpu, total)
  BY SceneIs DEF IInv, Holding
<1>2. b \in 1 .. N /\ N \in Nat /\ IsBatch(batches[b])
  BY <1>1 DEF AreBatches
<1>3. k \in 1 .. V /\ V \in Nat /\ W \in {3, 4}
  BY <1>2 DEF IsBatch, Width
<1>4. Place(batches, n, b, k, 0)
  <2>1. 0 \in 0 .. W - 1 /\ n = o + 1 + W * k + 0 /\ k \in 0 .. V
    <3>1. o \in Nat /\ W * k \in Nat
      <4>1. off \in [0 .. N -> Nat] /\ b - 1 \in 0 .. N
        BY <1>1, <1>2, StartsLaid DEF Laid
      <4>2. W * k \in Nat
        <5> HIDE DEF W
        <5> QED BY <1>3
      <4> HIDE DEF off, W
      <4> QED BY <4>1, <4>2
    <3> HIDE DEF W, V, o
    <3> QED BY <1>3, <3>1
  <2> HIDE DEF n
  <2> QED BY <1>2, <2>1 DEF Place
<1>5. n \in 1 .. total
  <2>1. n \in Nat /\ o \in Nat /\ o < n /\ n <= total
    BY <1>1, <1>4, PlaceWithin
  <2>2. total \in Nat
    BY StreamLength DEF IInv
  <2> HIDE DEF n, o, total
  <2> QED BY <2>1, <2>2
<1>6. \A m \in 1 .. total : \A d, l : Place(batches, m, d, l, 0) /\ l > 0 =>
          gpu.float[batches[d].first + l - 1] = batches[d].vectors[l]
  BY <1>1, Zenon DEF Received
<1>7. k > 0
  BY <1>3
<1> HIDE DEF n, total, batches
<1>8. gpu.float[batches[b].first + k - 1] = batches[b].vectors[k]
  BY <1>4, <1>5, <1>6, <1>7
<1> QED BY <1>8 DEF batches

\* However often a guest draws and restarts and whatever its draws' counts are:
\* the triangles since the last restart are those its vertices make.
THEOREM TrianglesStayAsSubmitted == Spec => []TrianglesAsSubmitted
<1>1. Init => IInv
  BY InitIInv
<1>2. IInv /\ [Next]_vars => IInv'
  BY NextIInv
<1>3. IInv => TrianglesAsSubmitted
  BY AssembledAsSubmitted
<1> QED BY <1>1, <1>2, <1>3, PTL DEF Spec

\* For any batches that do not overlap, of either width and in commands of any
\* length and kind, every vector arrives whole and in its place.
THEOREM UniformsAlwaysArrive == Spec => []UniformsArrive
<1>1. Init => IInv
  BY InitIInv
<1>2. IInv /\ [Next]_vars => IInv'
  BY NextIInv
<1>3. IInv => UniformsArrive
  BY ReceivedArrives
<1> QED BY <1>1, <1>2, <1>3, PTL DEF Spec
=============================================================================
