------------------------ MODULE ControlMemory_proofs ------------------------
(***************************************************************************)
(* Theorems about the supervisor calls that change the memory map, for any *)
(* layout of the regions and any arguments of the guest.                   *)
(***************************************************************************)
EXTENDS ControlMemory, MemMap_proofs

-----------------------------------------------------------------------------
Grant == [addr : Address, size : Address, from : Address]

Block == [addr : Address, size : Address, ptr : Byte \cup {NoByte}, given : BOOLEAN]

SvcTypeOK == /\ calls = <<>>
             /\ linearalloced \in Address
             /\ granted \in SUBSET Grant

(* What has been granted stays in the table, wherever a reorder moves it.  *)
GrantsAreMapped ==
  \A g \in granted : \E i \in Indices : mappings[i].base = g.addr /\ mappings[i].size = g.size

SvcInv == MapInv /\ SvcTypeOK /\ GrantsAreMapped /\ MirrorsMeet

LEMMA RegionTypes ==
  /\ Space \in Nat \ {0} /\ Page \in Nat \ {0} /\ HeapBase \in Address
  /\ LinearBase \in Address /\ FontBase \in Address /\ LinearEnd \in Address
  /\ LinearSize \in Nat /\ LinearBase + LinearSize = LinearEnd /\ LinearEnd < Space
  /\ MaxLinear \in Nat
BY SpaceAssumption, RegionsAssumption DEF LinearSize, Address

LEMMA PageFits == Page \in Address
BY RegionsAssumption, SpaceAssumption DEF Address

LEMMA LineByteTyped == ASSUME NEW addr \in Address PROVE LineByte(addr) \in Byte
<1>1. addr + Space - LinearBase \in Nat
  BY RegionTypes DEF Address
<1> DEFINE x == addr + Space - LinearBase
<1> HIDE DEF x
<1>2. x % Space \in Nat
  BY <1>1, InAddress, SpaceAssumption DEF x, Address
<1>3. "LINEmembuffer" \in Buffer
  BY LineBufferAssumption DEF Buffer
<1> QED  BY <1>2, <1>3 DEF LineByte, x, Byte

(* mem_rawaddr finds a byte of the host's inside the mapping it looks at.  *)
LEMMA RawaddrFacts ==
  ASSUME MapTypeOK, NEW addr \in Address, NEW size \in Address, ~ mem_rawaddrFails(addr, size)
  PROVE  \E i \in Indices : /\ mappings[i] \in Mapping /\ Contains(mappings[i], addr, size)
                            /\ mem_rawaddr(addr, size) = ByteAt(mappings[i], addr)
                            /\ mem_rawaddr(addr, size) \in Byte
<1> DEFINE i == Min(Holding(addr, size))
           m == mappings[i]
<1>1. mappings \in Seq(Mapping) /\ Holding(addr, size) # {}
  BY DEF MapTypeOK, mem_rawaddrFails
<1>2. i \in Indices /\ m \in Mapping
  BY <1>1, FirstHolding
<1>3. i \in Holding(addr, size)
  <2>1. Holding(addr, size) \in SUBSET Nat
    BY DEF Holding, Indices
  <2> QED  BY <1>1, <2>1, MinIsLeast
<1>4. Contains(m, addr, size)
  BY <1>3, Zenon DEF Holding
<1>5. mem_rawaddr(addr, size) = ByteAt(m, addr)
  BY DEF mem_rawaddr
<1> HIDE DEF i, m
<1>6. ByteAt(m, addr) \in Byte
  <2>1. m.off + (addr - m.base) \in Nat /\ m.buf \in Buffer
    BY <1>2, <1>4, SpaceAssumption DEF Mapping, Address, Contains
  <2> QED  BY <2>1 DEF ByteAt, Byte
<1> QED  BY <1>2, <1>4, <1>5, <1>6 DEF m

-----------------------------------------------------------------------------
(* The steps, as what they do to the table and to what has been granted.   *)

(* Steps that grant nothing. *)
LEMMA KeepsGrants ==
  ASSUME SvcInv, UNCHANGED granted,
         \A i \in Indices : \E k \in Indices' : mappings'[k] = mappings[i]
  PROVE  GrantsAreMapped' /\ MirrorsMeet'
<1>1. GrantsAreMapped'
  <2>1. ASSUME NEW g \in granted
        PROVE  \E k \in Indices' : mappings'[k].base = g.addr /\ mappings'[k].size = g.size
    <3>1. PICK i \in Indices : mappings[i].base = g.addr /\ mappings[i].size = g.size
      BY DEF SvcInv, GrantsAreMapped
    <3>2. PICK k \in Indices' : mappings'[k] = mappings[i]
      OBVIOUS
    <3> QED  BY <3>1, <3>2
  <2> QED  BY <2>1, Zenon DEF GrantsAreMapped
<1>2. ASSUME NEW g \in granted, g.addr + g.size < Space, g.from + g.size < Space,
             NEW k \in 0 .. g.size - 1
      PROVE  (Backing(g.addr + k) \cap Backing(g.from + k))' # {}
  <2>1. Backing(g.addr + k) \cap Backing(g.from + k) # {}
    BY <1>2 DEF SvcInv, MirrorsMeet
  <2>2. g \in Grant
    BY DEF SvcInv, SvcTypeOK
  <2>3. g.addr + k \in Address /\ g.from + k \in Address
    BY <1>2, <2>2, SpaceAssumption DEF Grant, Address
  <2>4. PICK a \in Address, b \in Address : a = g.addr + k /\ b = g.from + k
    BY <2>3
  <2>5. Backing(a) \subseteq Backing(a)' /\ Backing(b) \subseteq Backing(b)'
    BY EntriesKept
  <2>6. (Backing(g.addr + k) \cap Backing(g.from + k))' = Backing(a)' \cap Backing(b)'
    BY <2>4
  <2> QED  BY <2>1, <2>4, <2>5, <2>6
<1>3. MirrorsMeet'
  BY <1>2, Zenon DEF MirrorsMeet
<1> QED  BY <1>1, <1>3

(* A mapping is added, and granted to the guest. *)
LEMMA GrantKeeps ==
  ASSUME SvcInv, NEW m \in Mapping, NEW addr \in Address, NEW size \in Address,
         NEW from \in Address, AddMapping(m), m.base = addr, m.size = size,
         Granted(addr, size, from),
         \/ from = addr
         \/ \E i \in Indices : /\ mappings[i] \in Mapping /\ Contains(mappings[i], from, size)
                               /\ ByteAt(mappings[i], from) = [buf |-> m.buf, off |-> m.off]
  PROVE  GrantsAreMapped' /\ MirrorsMeet' /\ granted' \in SUBSET Grant
<1> DEFINE g0 == [addr |-> addr, size |-> size, from |-> from]
           n == Len(mappings)
<1>0. MapTypeOK /\ mappings \in Seq(Mapping) /\ granted \in SUBSET Grant /\ n \in Nat
  BY DEF SvcInv, SvcTypeOK, MapInv, MapTypeOK
<1>1. \A i \in Indices : \E k \in Indices' : mappings'[k] = mappings[i]
  BY <1>0, AddedFacts
<1>2. CASE UNCHANGED mappings
  <2>1. granted' = granted
    BY <1>0, <1>2 DEF Granted
  <2> QED  BY <1>0, <1>1, <2>1, KeepsGrants
<1>3. CASE mappings' = Append(mappings, m)
  <2>1. /\ Len(mappings') = n + 1 /\ mappings'[n + 1] = m
        /\ \A i \in 1 .. n : mappings'[i] = mappings[i]
    BY <1>0, <1>3
  <2>2. granted' = granted \cup {g0}
    BY <1>0, <2>1 DEF Granted
  <2>3. g0 \in Grant /\ g0.addr = addr /\ g0.size = size /\ g0.from = from
    BY DEF Grant
  <2> HIDE DEF g0
  <2>4. n + 1 \in Indices'
    BY <1>0, <2>1 DEF Indices
  <2>5. GrantsAreMapped'
    <3>1. ASSUME NEW g \in granted
          PROVE  \E k \in Indices' : mappings'[k].base = g.addr /\ mappings'[k].size = g.size
      <4>1. PICK i \in Indices : mappings[i].base = g.addr /\ mappings[i].size = g.size
        BY DEF SvcInv, GrantsAreMapped
      <4>2. PICK k \in Indices' : mappings'[k] = mappings[i]
        BY <1>1
      <4> QED  BY <4>1, <4>2
    <3>2. \E k \in Indices' : mappings'[k].base = g0.addr /\ mappings'[k].size = g0.size
      BY <2>1, <2>3, <2>4
    <3> QED  BY <2>2, <3>1, <3>2 DEF GrantsAreMapped
  <2>6. ASSUME addr + size < Space, from + size < Space, NEW k \in 0 .. size - 1
        PROVE  (Backing(addr + k) \cap Backing(from + k))' # {}
    <3>0. /\ m.base \in Nat /\ m.size \in Nat /\ addr \in Nat /\ size \in Nat /\ from \in Nat
          /\ k \in Nat /\ m.off \in Nat
      BY SpaceAssumption DEF Mapping, Address
    <3>1. PICK a \in Address, b \in Address : a = addr + k /\ b = from + k
      BY <2>6, <3>0, SpaceAssumption DEF Address
    <3>2. Inside(m, a, 1) /\ ByteAt(m, a) = [buf |-> m.buf, off |-> m.off + k]
      BY <3>0, <3>1 DEF Inside, ByteAt
    <3>3. ByteAt(m, a) \in Backing(a)'
      BY <2>1, <2>4, <3>2 DEF Backing, Behind
    <3>4. CASE from = addr
      BY <3>1, <3>3, <3>4
    <3>5. CASE \E i \in Indices : /\ mappings[i] \in Mapping /\ Contains(mappings[i], from, size)
                                  /\ ByteAt(mappings[i], from) = [buf |-> m.buf, off |-> m.off]
      <4>1. PICK i \in Indices : /\ mappings[i] \in Mapping /\ Contains(mappings[i], from, size)
                                 /\ ByteAt(mappings[i], from) = [buf |-> m.buf, off |-> m.off]
        BY <3>5
      <4> DEFINE s == mappings[i]
      <4>2. s.base \in Nat /\ s.size \in Nat /\ s.off \in Nat /\ End(s) <= s.base + s.size
        <5>1. s.base \in Nat /\ s.size \in Nat /\ s.off \in Nat
          BY <4>1, SpaceAssumption DEF Mapping, Address
        <5> DEFINE x == s.base + s.size
        <5>2. x \in Nat  BY <5>1
        <5> HIDE DEF x
        <5>3. x % Space <= x
          BY <5>2, SpaceAssumption
        <5> QED  BY <5>1, <5>3 DEF End, x
      <4>3. (from + size) % Space = from + size
        <5>1. from + size \in Nat  BY <3>0
        <5> QED  BY <2>6, <5>1, NoWrap
      <4>4. s.base <= from /\ from + size <= End(s)
        BY <4>1, <4>3 DEF Contains
      <4>5. End(s) \in Nat
        BY <4>1, EndTyped, SpaceAssumption DEF Address
      <4>6. s.base <= from /\ from + size <= s.base + s.size
        BY <3>0, <4>2, <4>4, <4>5
      <4>7. /\ s.buf = m.buf /\ s.off + (from - s.base) = m.off
        BY <4>1 DEF ByteAt
      <4>8. mappings'[i] = s /\ i \in Indices'
        BY <1>0, <2>1 DEF Indices
      <4> HIDE DEF s
      <4>9. Inside(s, b, 1) /\ ByteAt(s, b) = ByteAt(m, a)
        <5>1. s.base <= b /\ b + 1 <= s.base + s.size
          BY <3>0, <3>1, <4>2, <4>6
        <5>2. s.off + (b - s.base) = m.off + k
          BY <3>0, <3>1, <4>2, <4>7
        <5> QED  BY <3>2, <4>7, <5>1, <5>2 DEF Inside, ByteAt
      <4>10. ByteAt(m, a) \in Backing(b)'
        BY <4>8, <4>9 DEF Backing, Behind
      <4> QED  BY <3>1, <3>3, <4>10
    <3> QED  BY <3>4, <3>5
  <2>7. ASSUME NEW g \in granted, g.addr + g.size < Space, g.from + g.size < Space,
               NEW k \in 0 .. g.size - 1
        PROVE  (Backing(g.addr + k) \cap Backing(g.from + k))' # {}
    <3>1. Backing(g.addr + k) \cap Backing(g.from + k) # {}
      BY <2>7 DEF SvcInv, MirrorsMeet
    <3>2. g \in Grant
      BY <1>0
    <3>3. PICK a \in Address, b \in Address : a = g.addr + k /\ b = g.from + k
      BY <2>7, <3>2, SpaceAssumption DEF Grant, Address
    <3>4. Backing(a) \subseteq Backing(a)' /\ Backing(b) \subseteq Backing(b)'
      BY <1>1, EntriesKept
    <3> QED  BY <3>1, <3>3, <3>4
  <2>8. MirrorsMeet'
    <3> SUFFICES ASSUME NEW g \in granted', g.addr + g.size < Space, g.from + g.size < Space,
                        NEW k \in 0 .. g.size - 1
                 PROVE  (Backing(g.addr + k) \cap Backing(g.from + k))' # {}
      BY DEF MirrorsMeet
    <3>1. CASE g \in granted
      BY <2>7, <3>1
    <3>2. CASE g = g0
      BY <2>3, <2>6, <3>2
    <3> QED  BY <2>2, <3>1, <3>2
  <2> QED  BY <1>0, <2>2, <2>3, <2>5, <2>8
<1> QED  BY <1>2, <1>3 DEF AddMapping

(* A reorder, or a call that stops the program: nothing is granted. *)
LEMMA ReorderKeeps ==
  ASSUME SvcInv, mem_Reorder, UNCHANGED <<linearalloced, granted>>
  PROVE  SvcInv'
<1>1. MapTypeOK
  BY DEF SvcInv, MapInv
<1>2. GrantsAreMapped' /\ MirrorsMeet'
  BY <1>1, EntriesMoved, KeepsGrants
<1>3. MapInv'
  BY ReorderKeepsInv DEF SvcInv
<1>4. SvcTypeOK'
  BY DEF SvcInv, SvcTypeOK, mem_Reorder
<1> QED  BY <1>2, <1>3, <1>4 DEF SvcInv

LEMMA StopKeeps ==
  ASSUME SvcInv, NEW addr \in Address, NEW size \in Address, Stop(addr, size, "exit"),
         UNCHANGED <<linearalloced, granted>>
  PROVE  SvcInv'
<1>1. /\ UNCHANGED mappings /\ stopped' \in {"no", "exit", "wild"} /\ calls' = calls
      /\ calls' \in Seq(Call) /\ access' \in Access
  <2>1. size \in Nat /\ calls \in Seq(Call)
    BY SpaceAssumption DEF Address, SvcInv, MapInv, MapTypeOK
  <2>2. calls' = calls
    BY DEF Stop, Touched
  <2> QED  BY <2>1, <2>2, StopTypes
<1>2. GrantsAreMapped' /\ MirrorsMeet'
  BY <1>1, KeepsGrants DEF Indices
<1>3. MapInv'
  BY <1>1, AccessKeepsInv DEF SvcInv
<1> QED  BY <1>1, <1>2, <1>3 DEF SvcInv, SvcTypeOK

LEMMA IdleKeeps ==
  ASSUME SvcInv, UNCHANGED <<mapvars, linearalloced, granted>>
  PROVE  SvcInv'
<1>1. UNCHANGED <<mappings, access, calls, stopped>>
  BY DEF mapvars
<1>2. MapInv'
  BY <1>1 DEF SvcInv, MapInv, MapTypeOK, OverlapsEnclose, Indices
<1>3. GrantsAreMapped' /\ MirrorsMeet'
  BY <1>1, KeepsGrants DEF Indices
<1> QED  BY <1>1, <1>2, <1>3 DEF SvcInv, SvcTypeOK

(* A mapping that is not counted as granted: svcMapMemoryBlock. *)
LEMMA ShareKeeps ==
  ASSUME SvcInv, NEW base \in Address, NEW size \in Address, NEW byte \in Byte,
         mem_AddMappingShared(base, size, byte), UNCHANGED <<linearalloced, granted>>
  PROVE  SvcInv'
<1>1. PICK m \in Mapping : AddMapping(m)
  BY SharedIsAdd, Zenon
<1>2. MapInv'
  BY <1>1, AddKeepsInv DEF SvcInv
<1>3. MapTypeOK
  BY DEF SvcInv, MapInv
<1>4. GrantsAreMapped' /\ MirrorsMeet'
  BY <1>1, <1>3, AddedFacts, KeepsGrants
<1>5. calls' = calls
  BY <1>1 DEF AddMapping
<1> QED  BY <1>2, <1>4, <1>5 DEF SvcInv, SvcTypeOK

(* What is mapped and granted. *)
LEMMA SharedGrantKeeps ==
  ASSUME SvcInv, NEW base \in Address, NEW size \in Address, NEW from \in Address,
         NEW byte \in Byte, mem_AddMappingShared(base, size, byte), Granted(base, size, from),
         \/ from = base
         \/ \E i \in Indices : /\ mappings[i] \in Mapping /\ Contains(mappings[i], from, size)
                               /\ ByteAt(mappings[i], from) = byte
  PROVE  MapInv' /\ calls' = calls /\ GrantsAreMapped' /\ MirrorsMeet' /\ granted' \in SUBSET Grant
<1> DEFINE m == [base |-> base, size |-> size, buf |-> byte.buf, off |-> byte.off]
<1>1. m \in Mapping /\ AddMapping(m) /\ m.base = base /\ m.size = size
  BY DEF Mapping, Byte, mem_AddMappingShared
<1>2. byte = [buf |-> m.buf, off |-> m.off]
  BY DEF Byte
<1> HIDE DEF m
<1>3. MapInv' /\ calls' = calls
  BY <1>1, AddKeepsInv DEF SvcInv, AddMapping
<1>4. \/ from = base
      \/ \E i \in Indices : /\ mappings[i] \in Mapping /\ Contains(mappings[i], from, size)
                            /\ ByteAt(mappings[i], from) = [buf |-> m.buf, off |-> m.off]
  BY <1>2
<1>5. GrantsAreMapped' /\ MirrorsMeet' /\ granted' \in SUBSET Grant
  BY <1>1, <1>4, GrantKeeps
<1> QED  BY <1>3, <1>5

LEMMA CommitNextLinearKeeps ==
  ASSUME SvcInv, NEW size \in Address, CommitNextLinear(size)
  PROVE  SvcInv'
<1> DEFINE addr == (LinearBase + linearalloced) % Space
           byte == [buf |-> "LINEmembuffer", off |-> linearalloced]
<1>1. linearalloced \in Nat /\ size \in Nat
  BY SpaceAssumption DEF SvcInv, SvcTypeOK, Address
<1>2. addr \in Address
  <2>1. LinearBase + linearalloced \in Nat
    BY <1>1, RegionTypes DEF Address
  <2> QED  BY <2>1, InAddress
<1>3. byte \in Byte
  BY <1>1, LineBufferAssumption DEF Byte, Buffer
<1>4. mem_AddMappingShared(addr, size, byte) /\ Granted(addr, size, addr)
  BY DEF CommitNextLinear
<1> HIDE DEF addr, byte
<1>5. MapInv' /\ calls' = calls /\ GrantsAreMapped' /\ MirrorsMeet' /\ granted' \in SUBSET Grant
  BY <1>2, <1>3, <1>4, SharedGrantKeeps
<1>6. linearalloced' \in Address
  BY <1>1, InAddress DEF CommitNextLinear, AfterCommit
<1> QED  BY <1>5, <1>6 DEF SvcInv, SvcTypeOK

LEMMA CommitAtKeeps ==
  ASSUME SvcInv, NEW addr \in Address, NEW size \in Address, CommitAt(addr, size)
  PROVE  SvcInv'
<1>1. UNCHANGED linearalloced /\ Granted(addr, size, addr)
  BY DEF CommitAt
<1>2. CASE UNCHANGED mapvars
  <2>1. UNCHANGED mappings /\ Len(mappings) \in Nat
    BY <1>2 DEF mapvars, SvcInv, MapInv, MapTypeOK
  <2>2. granted' = granted
    BY <1>1, <2>1 DEF Granted
  <2> QED  BY <1>1, <1>2, <2>2, IdleKeeps
<1>3. CASE \E m \in Mapping : m.base = addr /\ m.size = size /\ AddMapping(m)
  <2>1. PICK m \in Mapping : m.base = addr /\ m.size = size /\ AddMapping(m)
    BY <1>3
  <2>2. GrantsAreMapped' /\ MirrorsMeet' /\ granted' \in SUBSET Grant
    BY <1>1, <2>1, GrantKeeps
  <2>3. MapInv' /\ calls' = calls
    BY <2>1, AddKeepsInv DEF SvcInv, AddMapping
  <2> QED  BY <1>1, <2>2, <2>3 DEF SvcInv, SvcTypeOK
<1>4. mem_AddSegment(addr, size)
  BY DEF CommitAt
<1> QED  BY <1>2, <1>3, <1>4, SegmentIsAdd

LEMMA MirrorKeeps ==
  ASSUME SvcInv, NEW addr0 \in Address, NEW addr1 \in Address, NEW size \in Address,
         Mirror(addr0, addr1, size)
  PROVE  SvcInv'
<1>1. CASE mem_rawaddrFails(addr1, size)
  BY <1>1, StopKeeps DEF Mirror
<1>2. CASE ~ mem_rawaddrFails(addr1, size)
  <2>1. PICK i \in Indices : /\ mappings[i] \in Mapping /\ Contains(mappings[i], addr1, size)
                             /\ mem_rawaddr(addr1, size) = ByteAt(mappings[i], addr1)
                             /\ mem_rawaddr(addr1, size) \in Byte
    BY <1>2, RawaddrFacts DEF SvcInv, MapInv
  <2> DEFINE byte == mem_rawaddr(addr1, size)
  <2>2. /\ mem_AddMappingShared(addr0, size, byte) /\ Granted(addr0, size, addr1)
        /\ UNCHANGED linearalloced
    BY <1>2 DEF Mirror, MirroredByte
  <2> HIDE DEF byte
  <2>3. \E j \in Indices : /\ mappings[j] \in Mapping /\ Contains(mappings[j], addr1, size)
                           /\ ByteAt(mappings[j], addr1) = byte
    BY <2>1 DEF byte
  <2>4. byte \in Byte
    BY <2>1 DEF byte
  <2>5. MapInv' /\ calls' = calls /\ GrantsAreMapped' /\ MirrorsMeet' /\ granted' \in SUBSET Grant
    BY <2>2, <2>3, <2>4, SharedGrantKeeps
  <2> QED  BY <2>2, <2>5 DEF SvcInv, SvcTypeOK
<1> QED  BY <1>1, <1>2

-----------------------------------------------------------------------------
BlocksTyped == blocks \in Seq(Block)

LEMMA BlockNats == \A b \in Block : b.addr \in Nat /\ b.size \in Nat
BY SpaceAssumption DEF Block, Address

(* A new block is appended to the list. *)
LEMMA NewBlockTyped ==
  ASSUME BlocksTyped, NEW addr \in Address, NEW size \in Address,
         NEW ptr \in Byte \cup {NoByte}, NEW given \in BOOLEAN,
         NewBlock(addr, size, ptr, given)
  PROVE  BlocksTyped'
<1> DEFINE b == [addr |-> addr, size |-> size, ptr |-> ptr, given |-> given]
<1>1. b \in Block
  BY Zenon DEF Block
<1>2. blocks' = Append(blocks, b)
  BY DEF NewBlock
<1> HIDE DEF b
<1> QED  BY <1>1, <1>2 DEF BlocksTyped

LEMMA NextLinearAddress ==
  ASSUME SvcInv PROVE (LinearBase + linearalloced) % Space \in Address
<1>1. LinearBase + linearalloced \in Nat
  BY RegionTypes DEF SvcInv, SvcTypeOK, Address
<1> QED  BY <1>1, InAddress

LEMMA ControlKeeps ==
  ASSUME SvcInv, NEW op, NEW addr0 \in Address, NEW addr1 \in Address, NEW size \in Address,
         svcControlMemory(op, addr0, addr1, size)
  PROVE  SvcInv'
<1>1. \/ CommitNextLinear(size) \/ CommitAt(HeapBase, size) \/ CommitAt(addr0, size)
      \/ Mirror(addr0, addr1, size)
  BY DEF svcControlMemory
<1> QED  BY <1>1, RegionTypes, CommitNextLinearKeeps, CommitAtKeeps, MirrorKeeps

LEMMA CreateKeeps ==
  ASSUME SvcInv, BlocksTyped, NEW addr \in Address, NEW size \in Address,
         svcCreateMemoryBlock(addr, size)
  PROVE  SvcInv' /\ BlocksTyped'
<1>1. ASSUME NewBlock((LinearBase + linearalloced) % Space, size, NoByte, TRUE),
             CommitNextLinear(size)
      PROVE  SvcInv' /\ BlocksTyped'
  BY <1>1, CommitNextLinearKeeps, NextLinearAddress, NewBlockTyped
<1>2. ASSUME NEW newaddr \in Addresses, NewBlock(newaddr, size, NoByte, FALSE),
             UNCHANGED <<mapvars, linearalloced, granted>>
      PROVE  SvcInv' /\ BlocksTyped'
  <2>1. newaddr \in Address
    BY InputsAssumption DEF Address
  <2> QED  BY <1>2, <2>1, IdleKeeps, NewBlockTyped
<1>3. ASSUME ~ mem_rawaddrFails(addr, size),
             NewBlock(addr, size, mem_rawaddr(addr, size), FALSE),
             UNCHANGED <<mapvars, linearalloced, granted>>
      PROVE  SvcInv' /\ BlocksTyped'
  <2>1. mem_rawaddr(addr, size) \in Byte
    BY <1>3, RawaddrFacts DEF SvcInv, MapInv
  <2> QED  BY <1>3, <2>1, IdleKeeps, NewBlockTyped
<1>4. ASSUME Stop(addr, size, "exit"), UNCHANGED <<linearalloced, blocks, granted>>
      PROVE  SvcInv' /\ BlocksTyped'
  BY <1>4, StopKeeps DEF BlocksTyped
<1> QED  BY <1>1, <1>2, <1>3, <1>4 DEF svcCreateMemoryBlock

LEMMA MapBlockKeeps ==
  ASSUME SvcInv, BlocksTyped, svcMapMemoryBlock
  PROVE  SvcInv' /\ BlocksTyped'
<1>0. UNCHANGED <<linearalloced, blocks, granted>>
  BY DEF svcMapMemoryBlock
<1>1. ASSUME NEW k \in DOMAIN blocks, NEW addr \in Addresses, MapAllocBlock(blocks[k], addr)
      PROVE  SvcInv'
  <2> DEFINE b == blocks[k]
             base == IF addr = 0 THEN b.addr ELSE addr
             byte == IF b.ptr = NoByte THEN LineByte(b.addr) ELSE b.ptr
  <2>1. b \in Block
    BY <1>1 DEF BlocksTyped
  <2> HIDE DEF b
  <2>2. base \in Address /\ b.size \in Address
    BY <2>1, InputsAssumption DEF Block, Address
  <2>3. byte \in Byte
    <3>1. LineByte(b.addr) \in Byte
      BY <2>1, LineByteTyped DEF Block
    <3>2. b.ptr \in Byte \cup {NoByte}
      BY <2>1 DEF Block
    <3> QED  BY <3>1, <3>2
  <2>4. mem_AddMappingShared(base, b.size, byte)
    BY <1>1 DEF MapAllocBlock, b
  <2> HIDE DEF base, byte
  <2> QED  BY <1>0, <2>2, <2>3, <2>4, ShareKeeps
<1>2. ASSUME NEW addr \in Addresses, MapSharedBuffer(addr, Page)
      PROVE  SvcInv'
  <2> DEFINE byte == [buf |-> "GSPsharedbuff", off |-> 0]
  <2>1. byte \in Byte
    BY LineBufferAssumption DEF Byte, Buffer
  <2>2. addr \in Address /\ Page \in Address
    BY InputsAssumption, PageFits DEF Address
  <2>3. mem_AddMappingShared(addr, Page, byte)
    BY <1>2 DEF MapSharedBuffer
  <2> HIDE DEF byte
  <2> QED  BY <1>0, <2>1, <2>2, <2>3, ShareKeeps
<1>3. ASSUME MapSharedFont(Page) PROVE SvcInv'
  <2> DEFINE byte == LineByte(FontBase)
  <2>1. byte \in Byte /\ FontBase \in Address /\ Page \in Address
    BY RegionTypes, LineByteTyped, PageFits
  <2>2. mem_AddMappingShared(FontBase, Page, byte)
    BY <1>3 DEF MapSharedFont
  <2> HIDE DEF byte
  <2> QED  BY <1>0, <2>1, <2>2, ShareKeeps
<1>4. SvcInv'
  BY <1>1, <1>2, <1>3 DEF svcMapMemoryBlock
<1> QED  BY <1>0, <1>4 DEF BlocksTyped

LEMMA SvcNextKeepsInv ==
  ASSUME SvcInv, BlocksTyped, [SvcNext]_svcvars
  PROVE  SvcInv' /\ BlocksTyped'
<1>1. ASSUME NEW op \in Op, NEW addr0 \in Addresses, NEW addr1 \in Addresses,
             NEW size \in Sizes, svcControlMemory(op, addr0, addr1, size)
      PROVE  SvcInv' /\ BlocksTyped'
  <2>1. addr0 \in Address /\ addr1 \in Address /\ size \in Address
    BY InputsAssumption DEF Address
  <2>2. UNCHANGED blocks
    BY <1>1 DEF svcControlMemory
  <2> QED  BY <1>1, <2>1, <2>2, ControlKeeps DEF BlocksTyped
<1>2. ASSUME NEW addr \in Addresses, NEW size \in Sizes, svcCreateMemoryBlock(addr, size)
      PROVE  SvcInv' /\ BlocksTyped'
  <2>1. addr \in Address /\ size \in Address
    BY InputsAssumption DEF Address
  <2> QED  BY <1>2, <2>1, CreateKeeps
<1>3. CASE svcMapMemoryBlock
  BY <1>3, MapBlockKeeps
<1>4. CASE Rearrange
  BY <1>4, ReorderKeeps DEF Rearrange, BlocksTyped
<1>5. CASE UNCHANGED svcvars
  BY <1>5, IdleKeeps DEF svcvars, mapvars, BlocksTyped
<1> QED  BY <1>1, <1>2, <1>3, <1>4, <1>5 DEF SvcNext

LEMMA SvcInitHasInv == SvcInit => SvcInv /\ BlocksTyped
<1> SUFFICES ASSUME SvcInit PROVE SvcInv /\ BlocksTyped
  OBVIOUS
<1>1. MapInv
  BY InitHasInv DEF SvcInit
<1>2. linearalloced \in Address /\ granted = {} /\ blocks = <<>> /\ calls = <<>>
  BY SpaceAssumption DEF SvcInit, MapInit, Address
<1>3. GrantsAreMapped /\ MirrorsMeet
  BY <1>2 DEF GrantsAreMapped, MirrorsMeet
<1> QED  BY <1>1, <1>2, <1>3 DEF SvcInv, SvcTypeOK, BlocksTyped

(* The inductive invariant of the supervisor calls. *)
THEOREM SvcInvariance == SvcSpec => [](SvcInv /\ BlocksTyped)
BY SvcInitHasInv, SvcNextKeepsInv, PTL DEF SvcSpec

(* Memory that svcControlMemory has granted can be read and written from   *)
(* then on, whatever else is mapped or moved.                              *)
THEOREM GrantsStayServed == SvcSpec => []GrantsAreServed
<1>1. ASSUME SvcInv, NEW g \in granted, g.addr + g.size < Space,
             NEW a \in g.addr .. g.addr + g.size - 1
      PROVE  Serving(a) # {}
  <2>1. PICK i \in Indices : mappings[i].base = g.addr /\ mappings[i].size = g.size
    BY <1>1 DEF SvcInv, GrantsAreMapped
  <2>2. g.addr \in Nat /\ g.size \in Nat
    BY <1>1, SpaceAssumption DEF SvcInv, SvcTypeOK, Grant, Address
  <2>3. (g.addr + g.size) % Space = g.addr + g.size
    BY <1>1, <2>2, NoWrap
  <2>4. a \in Nat /\ g.addr <= a /\ a + 1 <= g.addr + g.size
    BY <1>1, <2>2
  <2>5. (a + 1) % Space = a + 1
    <3>1. a + 1 \in Nat /\ a + 1 < Space  BY <1>1, <2>2, <2>4, SpaceAssumption
    <3> DEFINE x == a + 1
    <3> HIDE DEF x
    <3>2. x % Space = x  BY <3>1, NoWrap DEF x
    <3> QED  BY <3>2 DEF x
  <2>6. i \in Serving(a)
    BY <2>1, <2>3, <2>4, <2>5 DEF Serving, Behind, Inside, Contains, End
  <2> QED  BY <2>6
<1>2. SvcInv => GrantsAreServed
  BY <1>1 DEF GrantsAreServed
<1> QED  BY <1>2, SvcInvariance, PTL

(* What is stored at a mirror can be read back at the address it mirrors.  *)
THEOREM MirrorsStay == SvcSpec => []MirrorsMeet
<1>1. SvcInv => MirrorsMeet
  BY DEF SvcInv
<1> QED  BY <1>1, SvcInvariance, PTL

-----------------------------------------------------------------------------
(* Memory blocks in linear memory.  linearalloced is a u32 that nothing    *)
(* resets: that it does not come around to 0 is a hypothesis.              *)
LinearFits == MaxLinear + LinearSize < Space

BlockEnds(b) == LinearBase <= b.addr /\ b.addr + b.size <= LinearBase + linearalloced

BlocksBelow ==
  /\ linearalloced <= MaxLinear + LinearSize
  /\ linearalloced <= LinearSize => \A k \in DOMAIN blocks : blocks[k].given => BlockEnds(blocks[k])

(* Linear memory is handed out from the bottom up. *)
LEMMA LinearGrows ==
  ASSUME LinearFits, SvcInv, NEW size \in Address, size <= LinearSize,
         linearalloced <= MaxLinear, CommitNextLinear(size)
  PROVE  linearalloced' = linearalloced + size /\ linearalloced' <= MaxLinear + LinearSize
<1>1. linearalloced \in Nat /\ size \in Nat /\ linearalloced + size < Space
  BY RegionTypes DEF SvcInv, SvcTypeOK, Address, LinearFits
<1>2. linearalloced' = linearalloced + size
  <2> DEFINE x == linearalloced + size
  <2>1. x \in Nat /\ x < Space  BY <1>1
  <2>2. linearalloced' = x % Space  BY DEF CommitNextLinear, AfterCommit
  <2> HIDE DEF x
  <2>3. linearalloced' = x  BY <2>1, <2>2, NoWrap
  <2> QED  BY <2>3 DEF x
<1> QED  BY <1>1, <1>2, RegionTypes

LEMMA BlocksStay ==
  ASSUME SvcInv, BlocksTyped, BlocksBelow, BlocksApart, UNCHANGED blocks,
         linearalloced' \in Nat, linearalloced <= linearalloced',
         linearalloced' <= MaxLinear + LinearSize
  PROVE  BlocksBelow' /\ BlocksApart'
<1>1. linearalloced \in Nat
  BY SpaceAssumption DEF SvcInv, SvcTypeOK, Address
<1>2. \A k \in DOMAIN blocks : blocks[k].addr \in Nat /\ blocks[k].size \in Nat
  <2>1. \A k \in DOMAIN blocks : blocks[k] \in Block
    BY DEF BlocksTyped
  <2> QED  BY <2>1, BlockNats
<1>3. BlocksBelow'
  BY <1>1, <1>2, RegionTypes DEF BlocksBelow, BlockEnds, Address
<1>4. BlocksApart'
  BY <1>1, RegionTypes DEF BlocksApart
<1> QED  BY <1>3, <1>4

LEMMA BlockOfOther ==
  ASSUME BlocksTyped, BlocksBelow, BlocksApart, UNCHANGED linearalloced, NEW addr \in Address,
         NEW size \in Address, NEW ptr, NewBlock(addr, size, ptr, FALSE)
  PROVE  BlocksBelow' /\ BlocksApart'
<1> DEFINE b == [addr |-> addr, size |-> size, ptr |-> ptr, given |-> FALSE]
           n == Len(blocks)
<1>1. blocks \in Seq(Block) /\ n \in Nat
  BY DEF BlocksTyped
<1>2. /\ DOMAIN blocks' = 1 .. n + 1 /\ DOMAIN blocks = 1 .. n
      /\ \A k \in 1 .. n : blocks'[k] = blocks[k]
      /\ blocks'[n + 1] = b
  BY <1>1 DEF NewBlock
<1>3. b.given = FALSE
  OBVIOUS
<1> HIDE DEF b, n
<1>4. BlocksBelow'
  BY <1>1, <1>2, <1>3 DEF BlocksBelow, BlockEnds
<1>5. BlocksApart'
  BY <1>1, <1>2, <1>3 DEF BlocksApart
<1> QED  BY <1>4, <1>5

LEMMA BlockOfLinear ==
  ASSUME LinearFits, SvcInv, BlocksTyped, BlocksBelow, BlocksApart, NEW size \in Address,
         size <= LinearSize, linearalloced <= MaxLinear, CommitNextLinear(size),
         NewBlock((LinearBase + linearalloced) % Space, size, NoByte, TRUE)
  PROVE  BlocksBelow' /\ BlocksApart'
<1> DEFINE base == (LinearBase + linearalloced) % Space
           b == [addr |-> base, size |-> size, ptr |-> NoByte, given |-> TRUE]
           n == Len(blocks)
<1>1. blocks \in Seq(Block) /\ n \in Nat /\ linearalloced \in Nat /\ size \in Nat
  BY SpaceAssumption DEF BlocksTyped, SvcInv, SvcTypeOK, Address
<1>2. /\ DOMAIN blocks' = 1 .. n + 1 /\ DOMAIN blocks = 1 .. n
      /\ \A k \in 1 .. n : blocks'[k] = blocks[k]
      /\ blocks'[n + 1] = b
  BY <1>1 DEF NewBlock
<1>3. b.addr = base /\ b.size = size
  OBVIOUS
<1>4. linearalloced' = linearalloced + size /\ linearalloced' <= MaxLinear + LinearSize
  BY LinearGrows
<1>5. \A k \in 1 .. n : blocks[k].addr \in Nat /\ blocks[k].size \in Nat
  <2>1. \A k \in 1 .. n : blocks[k] \in Block
    BY <1>1
  <2> QED  BY <2>1, BlockNats
<1>6. linearalloced' <= LinearSize => base = LinearBase + linearalloced
  <2> DEFINE x == LinearBase + linearalloced
  <2>1. ASSUME linearalloced' <= LinearSize PROVE x \in Nat /\ x < Space
    BY <1>1, <1>4, <2>1, RegionTypes DEF Address
  <2>2. base = x % Space
    OBVIOUS
  <2> HIDE DEF x, base
  <2>3. ASSUME linearalloced' <= LinearSize PROVE base = x
    BY <2>1, <2>2, <2>3, NoWrap
  <2> QED  BY <2>3 DEF x
<1>7. LinearBase \in Nat /\ LinearSize \in Nat
  BY RegionTypes DEF Address
<1> HIDE DEF b, n, base
<1>8. linearalloced' <= LinearSize => linearalloced <= LinearSize
  BY <1>1, <1>4, <1>7
<1>9. ASSUME linearalloced' <= LinearSize, NEW k \in 1 .. n, blocks[k].given
      PROVE  /\ LinearBase <= blocks[k].addr
             /\ blocks[k].addr + blocks[k].size <= LinearBase + linearalloced
  BY <1>2, <1>8, <1>9 DEF BlocksBelow, BlockEnds
<1>10. BlocksBelow'
  <2>1. ASSUME linearalloced' <= LinearSize, NEW k \in 1 .. n + 1, blocks'[k].given
        PROVE  /\ LinearBase <= blocks'[k].addr
               /\ blocks'[k].addr + blocks'[k].size <= LinearBase + linearalloced'
    <3>1. CASE k = n + 1
      BY <1>1, <1>2, <1>3, <1>4, <1>6, <1>7, <2>1, <3>1
    <3>2. CASE k \in 1 .. n
      BY <1>1, <1>2, <1>4, <1>5, <1>7, <1>9, <2>1, <3>2
    <3> QED  BY <1>1, <3>1, <3>2
  <2> QED  BY <1>2, <1>4, <2>1 DEF BlocksBelow, BlockEnds
<1>11. BlocksApart'
  <2> SUFFICES ASSUME linearalloced' <= LinearSize, NEW j \in 1 .. n + 1, NEW k \in 1 .. n + 1,
                      j # k, blocks'[j].given, blocks'[k].given
               PROVE  \/ blocks'[j].addr + blocks'[j].size <= blocks'[k].addr
                      \/ blocks'[k].addr + blocks'[k].size <= blocks'[j].addr
    BY <1>2 DEF BlocksApart
  <2>1. CASE j \in 1 .. n /\ k \in 1 .. n
    BY <1>2, <1>8, <2>1 DEF BlocksApart
  <2>2. CASE j = n + 1 /\ k \in 1 .. n
    BY <1>2, <1>3, <1>6, <1>9, <2>2
  <2>3. CASE k = n + 1 /\ j \in 1 .. n
    BY <1>2, <1>3, <1>6, <1>9, <2>3
  <2> QED  BY <1>1, <2>1, <2>2, <2>3
<1> QED  BY <1>10, <1>11

LEMMA SvcNextKeepsBlocks ==
  ASSUME LinearFits, SvcInv, BlocksTyped, BlocksBelow, BlocksApart, [SvcNext]_svcvars
  PROVE  BlocksBelow' /\ BlocksApart'
<1>0. linearalloced \in Nat /\ linearalloced <= MaxLinear + LinearSize
  BY SpaceAssumption DEF SvcInv, SvcTypeOK, Address, BlocksBelow
<1>1. ASSUME UNCHANGED <<linearalloced, blocks>>
      PROVE  BlocksBelow' /\ BlocksApart'
  BY <1>0, <1>1, BlocksStay
<1>2. ASSUME NEW size \in Address, size <= LinearSize, linearalloced <= MaxLinear,
             CommitNextLinear(size), UNCHANGED blocks
      PROVE  BlocksBelow' /\ BlocksApart'
  <2>1. linearalloced' = linearalloced + size /\ linearalloced' <= MaxLinear + LinearSize
    BY <1>2, LinearGrows
  <2>2. size \in Nat
    BY SpaceAssumption DEF Address
  <2>3. linearalloced' \in Nat /\ linearalloced <= linearalloced'
    BY <1>0, <2>1, <2>2
  <2> QED  BY <1>2, <2>1, <2>3, BlocksStay
<1>3. ASSUME NEW op \in Op, NEW addr0 \in Addresses, NEW addr1 \in Addresses,
             NEW size \in Sizes, svcControlMemory(op, addr0, addr1, size)
      PROVE  BlocksBelow' /\ BlocksApart'
  <2>1. size \in Address
    BY InputsAssumption DEF Address
  <2>2. UNCHANGED blocks
    BY <1>3 DEF svcControlMemory
  <2>3. CASE size <= LinearSize /\ linearalloced <= MaxLinear /\ CommitNextLinear(size)
    BY <1>2, <2>1, <2>2, <2>3
  <2>4. CASE UNCHANGED linearalloced
    BY <1>1, <2>2, <2>4
  <2>5. \/ size <= LinearSize /\ linearalloced <= MaxLinear /\ CommitNextLinear(size)
        \/ UNCHANGED linearalloced
    BY <1>3, Zenon DEF svcControlMemory, CommitAt, Mirror
  <2> QED  BY <2>3, <2>4, <2>5
<1>4. ASSUME NEW addr \in Addresses, NEW size \in Sizes, svcCreateMemoryBlock(addr, size)
      PROVE  BlocksBelow' /\ BlocksApart'
  <2>1. addr \in Address /\ size \in Address /\ \A newaddr \in Addresses : newaddr \in Address
    BY InputsAssumption DEF Address
  <2>2. CASE /\ LinearCommits(0, 0, size) /\ linearalloced <= MaxLinear
             /\ NewBlock((LinearBase + linearalloced) % Space, size, NoByte, TRUE)
             /\ CommitNextLinear(size)
    BY <2>1, <2>2, BlockOfLinear DEF LinearCommits
  <2>3. CASE /\ \E newaddr \in Addresses : NewBlock(newaddr, size, NoByte, FALSE)
             /\ UNCHANGED linearalloced
    BY <2>1, <2>3, BlockOfOther
  <2>4. CASE /\ NewBlock(addr, size, mem_rawaddr(addr, size), FALSE)
             /\ UNCHANGED linearalloced
    BY <2>1, <2>4, BlockOfOther
  <2>5. CASE UNCHANGED <<linearalloced, blocks>>
    BY <1>1, <2>5
  <2> QED  BY <1>4, <2>2, <2>3, <2>4, <2>5, Zenon DEF svcCreateMemoryBlock
<1>5. CASE svcMapMemoryBlock
  BY <1>1, <1>5 DEF svcMapMemoryBlock
<1>6. CASE Rearrange
  BY <1>1, <1>6 DEF Rearrange
<1>7. CASE UNCHANGED svcvars
  BY <1>1, <1>7 DEF svcvars
<1> QED  BY <1>3, <1>4, <1>5, <1>6, <1>7, Zenon DEF SvcNext

(* Two memory blocks never share a byte of linear memory until there is no *)
(* more of it, as long as the counter of what has been handed out does not *)
(* come around to 0.                                                       *)
THEOREM BlocksStayApart == LinearFits => (SvcSpec => []BlocksApart)
<1> SUFFICES ASSUME LinearFits PROVE SvcSpec => []BlocksApart
  OBVIOUS
<1> DEFINE Inv == BlocksBelow /\ BlocksApart
<1>1. SvcInit => Inv
  BY RegionTypes DEF SvcInit, BlocksBelow, BlocksApart
<1>2. Inv /\ SvcInv /\ BlocksTyped /\ [SvcNext]_svcvars => Inv'
  BY SvcNextKeepsBlocks
<1>3. Inv => BlocksApart
  OBVIOUS
<1> HIDE DEF Inv
<1> QED  BY <1>1, <1>2, <1>3, SvcInvariance, PTL DEF SvcSpec
=============================================================================
