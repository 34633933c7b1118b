--------------------------- MODULE MemMap_proofs ---------------------------
(***************************************************************************)
(* Theorems about the memory map, for any address space, any table size    *)
(* and any requests to map memory.                                         *)
(***************************************************************************)
EXTENDS MemMap, FiniteSetTheorems, SequenceTheorems, TLAPS

-----------------------------------------------------------------------------
(* Min of the community modules is what its name says.  The library has    *)
(* the least element of a set of naturals from theorems that take an       *)
(* operator; here it comes from the well-foundedness of the strict subset  *)
(* order on finite sets, which takes none.                                 *)

(* A nonempty set of naturals has a least element: the smallest of the     *)
(* intervals from 0 to one of its elements ends there.                     *)
LEMMA NatLeast ==
  ASSUME NEW S \in SUBSET Nat, S # {}
  PROVE  \E m \in S : \A n \in S : m <= n
<1> DEFINE T == {0 .. n : n \in S}
<1>1. IsWellFoundedOn(StrictSubsetOrdering(Nat), FiniteSubsetsOf(Nat))
  BY FS_StrictSubsetOrderingWellFounded
<1>2. ASSUME NEW n \in S PROVE 0 .. n \in FiniteSubsetsOf(Nat)
  <2>1. n \in Nat  OBVIOUS
  <2>2. IsFiniteSet(0 .. n)  BY <2>1, FS_Interval
  <2>3. 0 .. n \in SUBSET Nat  BY <2>1
  <2> QED  BY <2>2, <2>3, Zenon DEF FiniteSubsetsOf
<1>3. T \subseteq FiniteSubsetsOf(Nat) /\ T # {}
  BY <1>2
<1>4. \E X \in T : \A Y \in T : ~ (<<Y, X>> \in StrictSubsetOrdering(Nat))
  <2> HIDE DEF T
  <2> QED  BY <1>1, <1>3, WFMin
<1>5. PICK m \in S : \A n \in S : ~ (<<0 .. n, 0 .. m>> \in StrictSubsetOrdering(Nat))
  BY <1>4, Zenon
<1>6. ASSUME NEW n \in S, n < m PROVE FALSE
  <2>1. /\ 0 .. n \in SUBSET Nat /\ 0 .. m \in SUBSET Nat
        /\ 0 .. n \subseteq 0 .. m /\ 0 .. n # 0 .. m
    BY <1>6
  <2>2. <<0 .. n, 0 .. m>> \in StrictSubsetOrdering(Nat)
    BY <2>1 DEF StrictSubsetOrdering
  <2> QED  BY <1>5, <2>2, Zenon
<1> QED  BY <1>6

(* Min picks that element. *)
LEMMA MinIsLeast ==
  ASSUME NEW S \in SUBSET Nat, S # {}
  PROVE  Min(S) \in S /\ \A n \in S : Min(S) <= n
BY NatLeast DEF Min

(* Max of a finite set: the mirror image of Min. *)
LEMMA MaxIsGreatest ==
  ASSUME NEW n \in Nat, NEW S \in SUBSET (1 .. n), S # {}
  PROVE  Max(S) \in S /\ \A i \in S : i <= Max(S)
<1> DEFINE M == {n - i : i \in S}
<1>1. M \in SUBSET Nat /\ M # {}
  <2>1. ASSUME NEW i \in S PROVE n - i \in Nat
    <3>1. i \in 1 .. n  OBVIOUS
    <3> QED  BY <3>1
  <2>2. \E i \in S : TRUE  OBVIOUS
  <2> QED  BY <2>1, <2>2
<1>2. PICK m \in M : \A k \in M : m <= k
  BY <1>1, NatLeast
<1>3. PICK i \in S : m = n - i
  BY <1>2
<1>4. \A j \in S : j <= i
  BY <1>2, <1>3
<1> QED  BY <1>4 DEF Max

-----------------------------------------------------------------------------
(* The arithmetic of u32: sums modulo Space. *)

(* Sums below Space do not wrap around. *)
LEMMA NoWrap == ASSUME NEW x \in Nat, x < Space PROVE x % Space = x
BY SpaceAssumption

LEMMA WrapOnce == ASSUME NEW x \in Nat, x < Space PROVE (x + Space) % Space = x
BY SpaceAssumption

LEMMA InAddress == ASSUME NEW x \in Nat PROVE x % Space \in Address
BY SpaceAssumption DEF Address

LEMMA Divided ==
  ASSUME NEW x \in Nat
  PROVE  \E q \in Nat, r \in 0 .. Space - 1 : x = (Space * q) + r /\ r = x % Space
<1>1. /\ x \div Space \in Nat /\ x % Space \in 0 .. Space - 1
      /\ x = Space * (x \div Space) + (x % Space)
  BY SpaceAssumption, SMTT(20)
<1> QED  BY <1>1

LEMMA Remainder ==
  ASSUME NEW q \in Nat, NEW r \in 0 .. Space - 1
  PROVE  ((Space * q) + r) % Space = r
BY SpaceAssumption, SMTT(20)

(* A sum may be reduced before more is added to it. *)
LEMMA WrapAnytime ==
  ASSUME NEW x \in Nat, NEW y \in Nat
  PROVE  ((x % Space) + y) % Space = (x + y) % Space
<1>1. PICK q \in Nat, r \in 0 .. Space - 1 : x = (Space * q) + r /\ r = x % Space
  BY Divided
<1>2. r + y \in Nat
  BY SpaceAssumption
<1>3. PICK q2 \in Nat, r2 \in 0 .. Space - 1 :
        r + y = (Space * q2) + r2 /\ r2 = (r + y) % Space
  BY <1>2, Divided
<1>4. x + y = (Space * (q + q2)) + r2
  <2>1. x + y = (Space * q) + (Space * q2) + r2
    <3> DEFINE a == Space * q
               b == Space * q2
    <3>1. a \in Nat /\ b \in Nat  BY SpaceAssumption
    <3>2. x = a + r  BY <1>1
    <3>3. r + y = b + r2  BY <1>3
    <3> HIDE DEF a, b
    <3>4. x + y = a + b + r2  BY <3>1, <3>2, <3>3, SpaceAssumption
    <3> QED  BY <3>4 DEF a, b
  <2>2. Space * (q + q2) = (Space * q) + (Space * q2)
    BY SpaceAssumption
  <2> QED  BY <2>1, <2>2
<1>5. (x + y) % Space = r2
  <2>1. q + q2 \in Nat  OBVIOUS
  <2> QED  BY <1>4, <2>1, Remainder
<1> QED  BY <1>1, <1>3, <1>5

LEMMA TurnOff == ASSUME NEW x \in Nat PROVE (x + Space) % Space = x % Space
<1>1. x % Space \in Nat /\ x % Space < Space
  BY SpaceAssumption
<1> DEFINE r == x % Space
<1>2. (r + Space) % Space = r
  <2> HIDE DEF r
  <2>1. r \in Nat /\ r < Space  BY <1>1 DEF r
  <2> QED  BY <2>1, WrapOnce
<1>3. (r + Space) % Space = (x + Space) % Space
  BY WrapAnytime, SpaceAssumption
<1> QED  BY <1>2, <1>3

-----------------------------------------------------------------------------

MapInv == MapTypeOK /\ OverlapsEnclose

(* What Overlaps does not refuse: see OverlapsEnclose. *)
LEMMA OverlapsMisses ==
  ASSUME NEW a \in Mapping, NEW b \in Mapping, Plain(a), Plain(b),
         Meet(a, b), ~ Overlaps(a, b)
  PROVE  Encloses(b, a)
<1>1. a.base \in Nat /\ a.size \in Nat /\ b.base \in Nat /\ b.size \in Nat /\ Space \in Nat
  BY SpaceAssumption DEF Mapping, Address
<1>2. End(a) = a.base + a.size /\ End(b) = b.base + b.size
  BY <1>1, NoWrap DEF End, Plain
<1> QED  BY <1>1, <1>2 DEF Meet, Overlaps, Encloses

-----------------------------------------------------------------------------
(* Adding a mapping keeps the types and OverlapsEnclose. *)
LEMMA AddKeepsInv ==
  ASSUME MapInv, NEW m \in Mapping, AddMapping(m)
  PROVE  MapInv'
<1>1. CASE Refusal(m)
  <2>1. UNCHANGED mapvars  BY <1>1 DEF AddMapping, mapvars
  <2> QED  BY <2>1 DEF MapInv, MapTypeOK, OverlapsEnclose, mapvars, Indices
<1>2. CASE ~ Refusal(m)
  <2> DEFINE n == Len(mappings)
  <2>1. /\ mappings' = Append(mappings, m) /\ mappings \in Seq(Mapping)
        /\ n < MaxMappings /\ \A j \in Indices : ~ Overlaps(mappings[j], m)
    BY <1>2, MaxMappingsAssumption DEF AddMapping, Refusal, MapInv, MapTypeOK
  <2>2. /\ mappings' \in Seq(Mapping) /\ Len(mappings') = n + 1 /\ n \in Nat
        /\ mappings'[n + 1] = m /\ \A i \in 1 .. n : mappings'[i] = mappings[i]
        /\ \A i \in 1 .. n : mappings[i] \in Mapping
    BY <2>1
  <2>3. MapTypeOK'
    <3>1. n + 1 <= MaxMappings  BY <2>1, <2>2, MaxMappingsAssumption
    <3>2. stopped' = stopped /\ calls' = calls /\ access' = access  BY DEF AddMapping
    <3> QED  BY <2>2, <3>1, <3>2 DEF MapTypeOK, MapInv
  <2>4. ASSUME NEW i \in 1 .. n, Plain(mappings[i]), Plain(m)
        PROVE  /\ Meet(mappings[i], m) => Encloses(m, mappings[i])
               /\ Meet(m, mappings[i]) => Encloses(m, mappings[i])
    <3>1. mappings[i] \in Mapping /\ ~ Overlaps(mappings[i], m)
      BY <2>1, <2>2 DEF Indices
    <3>2. Meet(m, mappings[i]) <=> Meet(mappings[i], m)
      BY DEF Meet
    <3> QED  BY <2>4, <3>1, <3>2, OverlapsMisses
  <2>5. ASSUME NEW i \in 1 .. n + 1, NEW j \in 1 .. n + 1, i # j,
               Plain(mappings'[i]), Plain(mappings'[j]), Meet(mappings'[i], mappings'[j])
        PROVE  Encloses(mappings'[i], mappings'[j]) \/ Encloses(mappings'[j], mappings'[i])
    <3>1. CASE i \in 1 .. n /\ j \in 1 .. n
      BY <2>2, <2>5, <3>1 DEF MapInv, OverlapsEnclose, Indices
    <3>2. CASE i = n + 1 /\ j \in 1 .. n
      BY <2>2, <2>4, <2>5, <3>2
    <3>3. CASE i \in 1 .. n /\ j = n + 1
      BY <2>2, <2>4, <2>5, <3>3
    <3> QED  BY <2>2, <2>5, <3>1, <3>2, <3>3
  <2>6. OverlapsEnclose'
    BY <2>2, <2>5 DEF OverlapsEnclose, Indices
  <2> QED  BY <2>3, <2>6 DEF MapInv
<1> QED  BY <1>1, <1>2

(* The entries of the table are mappings. *)
LEMMA EntriesTyped ==
  ASSUME mappings \in Seq(Mapping)
  PROVE  \A k \in Indices : mappings[k] \in Mapping
BY DEF Indices

(* A permutation of the entries: no mapping is in two places. *)
LEMMA MovedFacts ==
  ASSUME mappings \in Seq(Mapping), NEW p \in Orders, mappings' = Moved(p)
  PROVE  /\ mappings' \in Seq(Mapping) /\ Len(mappings') = Len(mappings)
         /\ \A i \in Indices : p[i] \in Indices /\ mappings'[i] = mappings[p[i]]
         /\ \A i, j \in Indices : i # j => p[i] # p[j]
         /\ \A j \in Indices : \E i \in Indices : p[i] = j
<1>1. /\ p \in [Indices -> Indices]
      /\ \A i, j \in Indices : p[i] = p[j] => i = j
      /\ \A j \in Indices : \E i \in Indices : p[i] = j
  BY DEF Orders, Bijection, Injection, Surjection, IsInjective
<1>2. \A i \in Indices : mappings[p[i]] \in Mapping
  <2>1. \A k \in Indices : mappings[k] \in Mapping
    BY EntriesTyped
  <2> QED  BY <1>1, <2>1, Zenon
<1>3. mappings' \in [1 .. Len(mappings) -> Mapping] /\ Len(mappings) \in Nat
  BY <1>2 DEF Moved, Indices
<1>4. mappings' \in Seq(Mapping) /\ Len(mappings') = Len(mappings)
  BY <1>3, SeqDef, LenProperties
<1>5. \A i \in Indices : p[i] \in Indices /\ mappings'[i] = mappings[p[i]]
  BY <1>1 DEF Moved
<1> QED  BY <1>1, <1>4, <1>5, Zenon

(* mem_Reorder keeps the types and OverlapsEnclose. *)
LEMMA ReorderKeepsInv ==
  ASSUME MapInv, mem_Reorder
  PROVE  MapInv'
<1>1. PICK p \in Orders : mappings' = Moved(p)
  BY DEF mem_Reorder
<1>2. mappings \in Seq(Mapping)  BY DEF MapInv, MapTypeOK
<1>3. /\ mappings' \in Seq(Mapping) /\ Len(mappings') = Len(mappings)
      /\ \A i \in Indices : p[i] \in Indices /\ mappings'[i] = mappings[p[i]]
      /\ \A i, j \in Indices : i # j => p[i] # p[j]
  BY <1>1, <1>2, MovedFacts
<1>4. MapTypeOK'
  BY <1>3 DEF MapInv, MapTypeOK, mem_Reorder
<1>5. ASSUME NEW i \in Indices, NEW j \in Indices, i # j,
             Plain(mappings'[i]), Plain(mappings'[j]), Meet(mappings'[i], mappings'[j])
      PROVE  Encloses(mappings'[i], mappings'[j]) \/ Encloses(mappings'[j], mappings'[i])
  <2>1. /\ p[i] \in Indices /\ p[j] \in Indices /\ p[i] # p[j]
        /\ mappings'[i] = mappings[p[i]] /\ mappings'[j] = mappings[p[j]]
    BY <1>3, <1>5, Zenon
  <2> QED  BY <1>5, <2>1, Zenon DEF MapInv, OverlapsEnclose
<1>6. OverlapsEnclose'
  <2>1. Indices' = Indices  BY <1>3 DEF Indices
  <2> QED  BY <1>5, <2>1, Zenon DEF OverlapsEnclose
<1> QED  BY <1>4, <1>6 DEF MapInv

(* Accesses leave the table alone. *)
LEMMA AccessKeepsInv ==
  ASSUME MapInv, UNCHANGED mappings, stopped' \in {"no", "exit", "wild"},
         calls' \in Seq(Call), access' \in Access
  PROVE  MapInv'
BY DEF MapInv, MapTypeOK, OverlapsEnclose, Indices

-----------------------------------------------------------------------------
(* The calls of mem_Write and mem_Read. *)

(* The mapping a lookup finds is one of the table that answers it. *)
LEMMA FirstHolding ==
  ASSUME mappings \in Seq(Mapping), NEW addr, NEW sz, Holding(addr, sz) # {}
  PROVE  /\ Min(Holding(addr, sz)) \in Indices
         /\ mappings[Min(Holding(addr, sz))] \in Mapping
<1>1. Holding(addr, sz) \in SUBSET Nat /\ Holding(addr, sz) \subseteq Indices
  BY DEF Holding, Indices
<1>2. Min(Holding(addr, sz)) \in Indices
  BY <1>1, MinIsLeast
<1> QED  BY <1>2, EntriesTyped

LEMMA LastHolding ==
  ASSUME mappings \in Seq(Mapping), NEW addr, NEW sz, Holding(addr, sz) # {}
  PROVE  LET m == mappings[Max(Holding(addr, sz))]
         IN  m \in Mapping /\ Max(Holding(addr, sz)) \in Indices /\ Contains(m, addr, sz)
<1>1. Holding(addr, sz) \in SUBSET (1 .. Len(mappings)) /\ Len(mappings) \in Nat
  BY DEF Holding, Indices
<1>2. Max(Holding(addr, sz)) \in Holding(addr, sz)
  BY <1>1, MaxIsGreatest
<1>3. Max(Holding(addr, sz)) \in Indices
  BY <1>2 DEF Holding
<1>4. Contains(mappings[Max(Holding(addr, sz))], addr, sz)
  BY <1>2, Zenon DEF Holding
<1> QED  BY <1>3, <1>4, EntriesTyped

LEMMA EndTyped == ASSUME NEW m \in Mapping PROVE End(m) \in Address
<1>1. m.base + m.size \in Nat
  BY SpaceAssumption DEF Mapping, Address
<1> QED  BY <1>1, InAddress DEF End

(* The cut: both parts have bytes, together they have those of the call,   *)
(* and the mapping that it was cut at holds the first.                     *)
LEMMA PartsFit ==
  ASSUME mappings \in Seq(Mapping), NEW c \in Call,
         Holding(c.addr, c.size) = {}, Holding(c.addr, 1) # {}
  PROVE  /\ Part1Size(c) \in Address \ {0} /\ Part2Size(c) \in Address \ {0}
         /\ Part1Size(c) + Part2Size(c) = c.size
         /\ Holding(c.addr, Part1Size(c)) # {}
<1> DEFINE i == Max(Holding(c.addr, 1))
           m == mappings[i]
           e == End(m)
           a == c.addr
           s == c.size
<1>1. m \in Mapping /\ i \in Indices /\ Contains(m, a, 1)
  BY LastHolding
<1>2. a \in Address /\ s \in 1 .. Space - 1
  BY SpaceAssumption DEF Call, Address
<1>3. e \in Address
  <2> HIDE DEF m
  <2> QED  BY <1>1, EndTyped
<1>4. ~ Contains(m, a, s)
  BY <1>1 DEF Holding
<1> DEFINE p2 == (a + s + Space - e) % Space
           p1 == (s + Space - p2) % Space
<1>5. Part2Size(c) = p2 /\ Part1Size(c) = p1
  BY DEF Part2Size, Part1Size
<1> HIDE DEF e, a, s
<1>6. m.base <= a /\ (a + 1) % Space <= e /\ ~ ((a + s) % Space <= e)
  BY <1>1, <1>4 DEF Contains, e
<1>7. /\ p2 \in 1 .. s - 1 /\ p1 = s - p2 /\ (a + p1) % Space = e
  <2>1. a \in 0 .. Space - 1 /\ e \in 0 .. Space - 1 /\ s \in 1 .. Space - 1 /\ Space \in Nat \ {0}
    BY <1>2, <1>3, SpaceAssumption DEF Address
  <2>2. ASSUME p2 \in 1 .. s - 1, a + s - p2 = e \/ a + s - p2 = e + Space
        PROVE  p1 = s - p2 /\ (a + p1) % Space = e
    <3> HIDE DEF p2
    <3>1. s - p2 \in Nat /\ s - p2 < Space /\ s + Space - p2 = (s - p2) + Space
      BY <2>1, <2>2
    <3>2. p1 = s - p2
      <4> DEFINE x == s - p2
      <4>1. x \in Nat /\ x < Space /\ s + Space - p2 = x + Space  BY <3>1
      <4> HIDE DEF x
      <4>2. p1 = x  BY <4>1, WrapOnce
      <4> QED  BY <4>2 DEF x
    <3> HIDE DEF p1
    <3>3. a + p1 = e \/ a + p1 = e + Space
      BY <2>1, <2>2, <3>2
    <3>4. (a + p1) % Space = e
      BY <2>1, <3>3, NoWrap, WrapOnce
    <3> QED  BY <3>2, <3>4
  <2>3. CASE a + s < Space
    <3>1. (a + s) % Space = a + s /\ (a + 1) % Space = a + 1
      BY <2>1, <2>3, NoWrap
    <3>2. a + s > e /\ a + 1 <= e
      BY <1>6, <2>1, <3>1
    <3> DEFINE x == a + s - e
    <3>3. x \in 1 .. s - 1 /\ x < Space /\ a + s + Space - e = x + Space /\ a + s - x = e
      BY <2>1, <3>2
    <3>4. p2 = x
      <4> HIDE DEF x
      <4> QED  BY <3>3, WrapOnce
    <3>5. p2 \in 1 .. s - 1 /\ a + s - p2 = e
      <4> HIDE DEF x, p2
      <4> QED  BY <3>3, <3>4
    <3> QED  BY <2>2, <3>5
  <2>4. CASE a + s >= Space
    <3>1. (a + s) % Space = a + s - Space
      <4> DEFINE x == a + s - Space
      <4>1. x \in Nat /\ x < Space /\ a + s = x + Space  BY <2>1, <2>4
      <4> HIDE DEF x
      <4>2. (a + s) % Space = x  BY <4>1, WrapOnce
      <4> QED  BY <4>2 DEF x
    <3>2. a + s - Space > e
      BY <1>6, <2>1, <2>4, <3>1
    <3>3. a = Space - 1
      <4>1. SUFFICES ASSUME a + 1 < Space PROVE FALSE
        BY <2>1
      <4>2. (a + 1) % Space = a + 1
        BY <2>1, <4>1, NoWrap
      <4> QED  BY <1>6, <2>1, <3>2, <4>2
    <3> DEFINE x == s - 1 - e
    <3>4. /\ x \in 1 .. s - 1 /\ x < Space /\ a + s + Space - e = (x + Space) + Space
          /\ a + s - x = e + Space
      BY <2>1, <3>2, <3>3
    <3>5. p2 = x
      <4> HIDE DEF x
      <4>1. x + Space \in Nat /\ x \in Nat  BY <2>1, <3>4
      <4>2. ((x + Space) + Space) % Space = x
        BY <3>4, <4>1, TurnOff, WrapOnce
      <4> QED  BY <3>4, <4>2
    <3>6. p2 \in 1 .. s - 1 /\ a + s - p2 = e + Space
      <4> HIDE DEF x, p2
      <4> QED  BY <3>4, <3>5
    <3> QED  BY <2>2, <3>6
  <2> QED  BY <2>1, <2>3, <2>4
<1> HIDE DEF p1, p2
<1>8. Contains(m, a, p1)
  <2>1. (a + p1) % Space <= End(m)
    BY <1>3, <1>7, SpaceAssumption DEF e, Address
  <2> QED  BY <1>6, <2>1 DEF Contains
<1>9. i \in Holding(a, p1)
  BY <1>1, <1>8, Zenon DEF Holding
<1>10. p1 \in Address \ {0} /\ p2 \in Address \ {0} /\ p1 + p2 = s
  BY <1>2, <1>7, SpaceAssumption DEF Address
<1> QED  BY <1>5, <1>9, <1>10 DEF a, s

(* The bytes of an access inside a mapping are bytes of its block. *)
LEMMA BytesTyped ==
  ASSUME NEW m \in Mapping, NEW addr \in Address, NEW sz \in Nat, Inside(m, addr, sz)
  PROVE  /\ BytesOf(m, addr, sz) \in Seq(Byte) /\ Len(BytesOf(m, addr, sz)) = sz
         /\ \A k \in 1 .. sz : BytesOf(m, addr, sz)[k] = ByteAt(m, addr + k - 1)
<1>1. ASSUME NEW k \in 1 .. sz PROVE ByteAt(m, addr + k - 1) \in Byte
  <2>1. m.off + ((addr + k - 1) - m.base) \in Nat
    BY SpaceAssumption DEF Mapping, Address, Inside
  <2>2. m.buf \in Buffer
    BY DEF Mapping
  <2> QED  BY <2>1, <2>2 DEF ByteAt, Byte
<1>2. BytesOf(m, addr, sz) \in [1 .. sz -> Byte]
  BY <1>1 DEF BytesOf
<1>3. \A k \in 1 .. sz : BytesOf(m, addr, sz)[k] = ByteAt(m, addr + k - 1)
  BY DEF BytesOf
<1> QED  BY <1>2, <1>3, SeqDef, LenProperties

LEMMA StopTypes ==
  ASSUME calls \in Seq(Call), NEW addr \in Address, NEW sz \in Nat,
         NEW how \in {"no", "exit", "wild"}, Stop(addr, sz, how)
  PROVE  /\ UNCHANGED mappings /\ stopped' \in {"no", "exit", "wild"}
         /\ calls' \in Seq(Call) /\ access' \in Access
BY DEF Stop, Touched, Access

(* A load or a store of a word. *)
LEMMA WordTypes ==
  ASSUME mappings \in Seq(Mapping), calls \in Seq(Call), NEW addr \in Address,
         NEW sz \in {1, 2, 4}, AccessWord(addr, sz)
  PROVE  /\ UNCHANGED mappings /\ stopped' \in {"no", "exit", "wild"}
         /\ calls' \in Seq(Call) /\ access' \in Access
<1>0. sz \in Nat  OBVIOUS
<1>1. CASE Holding(addr, sz) = {}
  BY <1>0, <1>1, StopTypes DEF AccessWord, print_illegal
<1>2. CASE Holding(addr, sz) # {}
  <2> DEFINE m == mappings[Min(Holding(addr, sz))]
  <2>1. m \in Mapping
    BY <1>2, FirstHolding
  <2>2. CASE ~ Inside(m, addr, sz)
    BY <1>0, <1>2, <2>2, StopTypes DEF AccessWord
  <2>3. CASE Inside(m, addr, sz)
    <3>1. Touched(addr, sz, BytesOf(m, addr, sz), "no")
      BY <1>2, <2>3 DEF AccessWord
    <3> HIDE DEF m
    <3>2. BytesOf(m, addr, sz) \in Seq(Byte)
      BY <1>0, <2>1, <2>3, BytesTyped
    <3> DEFINE bytes == BytesOf(m, addr, sz)
    <3> HIDE DEF bytes
    <3>3. Touched(addr, sz, bytes, "no") /\ bytes \in Seq(Byte)
      BY <3>1, <3>2 DEF bytes
    <3> QED  BY <1>0, <3>3 DEF Touched, Access
  <2> QED  BY <2>2, <2>3
<1> QED  BY <1>1, <1>2

(* One call leaves the table alone and the calls typed. *)
LEMMA CallKeepsTypes ==
  ASSUME MapTypeOK, stopped = "no", RunCall
  PROVE  /\ UNCHANGED mappings /\ stopped' \in {"no", "exit", "wild"}
         /\ calls' \in Seq(Call) /\ access' \in Access
<1> DEFINE c == Head(calls)
<1>1. calls \in Seq(Call) /\ mappings \in Seq(Mapping) /\ c \in Call /\ Tail(calls) \in Seq(Call)
  BY DEF MapTypeOK, RunCall
<1>2. CASE Serve(c)
  <2> DEFINE m == mappings[Min(Holding(c.addr, c.size))]
             more == BytesOf(m, c.addr, c.size)
  <2>1. m \in Mapping /\ Inside(m, c.addr, c.size)
    BY <1>1, <1>2, FirstHolding DEF Serve
  <2>2. c.addr \in Address /\ c.size \in Nat
    BY <1>1, SpaceAssumption DEF Call, Address
  <2>3. more \in Seq(Byte)
    <3> HIDE DEF m, c
    <3> QED  BY <2>1, <2>2, BytesTyped
  <2>4. access' = [access EXCEPT !.bytes = @ \o more]
    BY <1>2 DEF Serve
  <2>5. access' \in Access
    <3> HIDE DEF more
    <3>1. access \in Access  BY DEF MapTypeOK
    <3>2. access.bytes \o more \in Seq(Byte)  BY <2>3, <3>1 DEF Access
    <3> QED  BY <2>4, <3>1, <3>2, Zenon DEF Access
  <2> QED  BY <1>1, <1>2, <2>5 DEF Serve
<1>3. CASE Cut(c)
  <2> DEFINE c1 == [c EXCEPT !.size = Part1Size(c)]
             c2 == [c EXCEPT !.addr = SecondStart(c.addr, Part1Size(c)), !.size = Part2Size(c)]
  <2>1. Part1Size(c) \in Address \ {0} /\ Part2Size(c) \in Address \ {0}
    BY <1>1, <1>3, PartsFit DEF Cut
  <2>2. SecondStart(c.addr, Part1Size(c)) \in Address
    <3>1. c.addr + Part1Size(c) \in Nat
      BY <1>1, <2>1, SpaceAssumption DEF Call, Address
    <3> QED  BY <3>1, InAddress DEF SecondStart
  <2>3. c1 \in Call /\ c2 \in Call
    BY <1>1, <2>1, <2>2, Zenon DEF Call
  <2>4. calls' = << c1, c2 >> \o Tail(calls)
    BY <1>3 DEF Cut
  <2> HIDE DEF c1, c2
  <2>5. calls' \in Seq(Call)
    BY <1>1, <2>3, <2>4
  <2> QED  BY <1>3, <2>5 DEF Cut, MapTypeOK
<1>4. ASSUME NEW how \in {"exit", "wild"}, EndsAt(c, how)
      PROVE  /\ UNCHANGED mappings /\ stopped' \in {"no", "exit", "wild"}
             /\ calls' \in Seq(Call) /\ access' \in Access
  BY <1>4 DEF EndsAt, MapTypeOK
<1> QED  BY <1>2, <1>3, <1>4, Zenon DEF RunCall

-----------------------------------------------------------------------------
(* Whatever asks for memory, a mapping is added or refused. *)
LEMMA SegmentIsAdd ==
  ASSUME NEW base \in Address, NEW size \in Address, mem_AddSegment(base, size)
  PROVE  \/ UNCHANGED mapvars
         \/ \E m \in Mapping : m.base = base /\ m.size = size /\ AddMapping(m)
<1>1. CASE FreshBlocks = {}
  BY <1>1 DEF mem_AddSegment
<1>2. CASE FreshBlocks # {}
  <2> DEFINE m == [base |-> base, size |-> size,
                   buf |-> CHOOSE b \in FreshBlocks : TRUE, off |-> 0]
  <2>1. (CHOOSE b \in FreshBlocks : TRUE) \in Heap
    BY <1>2 DEF FreshBlocks
  <2>2. m \in Mapping
    BY <2>1 DEF Mapping, Buffer
  <2>3. AddMapping(m) /\ m.base = base /\ m.size = size
    BY <1>2 DEF mem_AddSegment
  <2> QED  BY <2>2, <2>3, Zenon
<1> QED  BY <1>1, <1>2

LEMMA SharedIsAdd ==
  ASSUME NEW base \in Address, NEW size \in Address, NEW byte \in Byte,
         mem_AddMappingShared(base, size, byte)
  PROVE  \E m \in Mapping : m.base = base /\ m.size = size /\ AddMapping(m)
<1> DEFINE m == [base |-> base, size |-> size, buf |-> byte.buf, off |-> byte.off]
<1>1. m \in Mapping
  BY DEF Mapping, Byte
<1>2. AddMapping(m) /\ m.base = base /\ m.size = size
  BY DEF mem_AddMappingShared
<1> QED  BY <1>1, <1>2, Zenon

(* The steps of the memory map, as what they do to the table: a mapping is *)
(* added or refused, the entries move, or the table stays.                 *)
LEMMA Steps ==
  ASSUME MapTypeOK, MapNext
  PROVE  \/ \E m \in Mapping, r \in Ranges : /\ m.base = r.base /\ m.size = r.size
                                             /\ AddMapping(m)
         \/ mem_Reorder
         \/ /\ UNCHANGED mappings /\ stopped' \in {"no", "exit", "wild"}
            /\ calls' \in Seq(Call) /\ access' \in Access
<1>0. /\ calls \in Seq(Call) /\ stopped = "no" /\ access \in Access
      /\ mappings \in Seq(Mapping)
  BY DEF MapTypeOK, MapNext
<1>1. CASE \E r \in Ranges : mem_AddSegment(r.base, r.size)
  <2>1. PICK r \in Ranges : mem_AddSegment(r.base, r.size)
    BY <1>1
  <2>2. r.base \in Address /\ r.size \in Address
    BY RangesAssumption DEF Address
  <2>3. CASE UNCHANGED mapvars
    BY <1>0, <2>3 DEF mapvars
  <2>4. CASE \E m \in Mapping : m.base = r.base /\ m.size = r.size /\ AddMapping(m)
    BY <2>4
  <2> QED  BY <2>1, <2>2, <2>3, <2>4, SegmentIsAdd, Zenon
<1>2. CASE \E r \in Ranges, b \in Starts : mem_AddMappingShared(r.base, r.size, b)
  <2>1. PICK r \in Ranges, b \in Starts : mem_AddMappingShared(r.base, r.size, b)
    BY <1>2
  <2>2. r.base \in Address /\ r.size \in Address /\ b \in Byte
    BY RangesAssumption DEF Address, Byte, Buffer
  <2>3. \E m \in Mapping : m.base = r.base /\ m.size = r.size /\ AddMapping(m)
    BY <2>1, <2>2, SharedIsAdd, Zenon
  <2> QED  BY <2>3
<1>3. CASE \E addr \in Address, sz \in {1, 2, 4} : AccessWord(addr, sz)
  <2>1. PICK addr \in Address, sz \in {1, 2, 4} : AccessWord(addr, sz)
    BY <1>3
  <2> QED  BY <1>0, <2>1, WordTypes
<1>4. CASE \E addr \in Address, size \in Lengths, op \in {"mem_Read", "mem_Write"} :
             Transfer(op, addr, size)
  <2>1. PICK addr \in Address, size \in Lengths, op \in {"mem_Read", "mem_Write"} :
          Transfer(op, addr, size)
    BY <1>4
  <2>2. [op |-> op, addr |-> addr, size |-> size] \in Call
    BY RangesAssumption DEF Call, Address
  <2>3. calls' \in Seq(Call)
    BY <2>1, <2>2 DEF Transfer
  <2>4. access' \in Access
    BY <2>1, RangesAssumption DEF Transfer, Access
  <2> QED  BY <1>0, <2>1, <2>3, <2>4 DEF Transfer
<1>5. CASE \E addr \in Address, size \in Lengths :
             mem_rawaddrFails(addr, size) /\ Stop(addr, size, "exit")
  <2>1. PICK addr \in Address, size \in Lengths : Stop(addr, size, "exit")
    BY <1>5
  <2>2. size \in Nat
    BY RangesAssumption
  <2> QED  BY <1>0, <2>1, <2>2, StopTypes
<1>6. CASE mem_Reorder
  BY <1>6
<1>7. CASE RunCall
  BY <1>0, <1>7, CallKeepsTypes
<1> QED  BY <1>1, <1>2, <1>3, <1>4, <1>5, <1>6, <1>7 DEF MapNext

LEMMA NextKeepsInv ==
  ASSUME MapInv, [MapNext]_mapvars
  PROVE  MapInv'
<1>1. CASE MapNext
  <2>1. MapTypeOK  BY DEF MapInv
  <2> QED  BY <1>1, <2>1, Steps, AddKeepsInv, ReorderKeepsInv, AccessKeepsInv, Zenon
<1>2. CASE UNCHANGED mapvars
  BY <1>2 DEF MapInv, MapTypeOK, OverlapsEnclose, Indices, mapvars
<1> QED  BY <1>1, <1>2

LEMMA InitHasInv == MapInit => MapInv
<1> SUFFICES ASSUME MapInit PROVE MapInv
  OBVIOUS
<1>1. access \in Access
  BY SpaceAssumption DEF MapInit, Access, Address
<1> QED  BY <1>1, MaxMappingsAssumption DEF MapInit, MapInv, MapTypeOK, OverlapsEnclose, Indices

(* The inductive invariant of the memory map. *)
THEOREM MapInvariance == MapSpec => []MapInv
BY InitHasInv, NextKeepsInv, PTL DEF MapSpec

(* The table never has more than MAX_MAPPINGS entries, all of them ranges  *)
(* of the address space.                                                   *)
THEOREM MapTypeCorrect == MapSpec => []MapTypeOK
<1>1. MapInv => MapTypeOK  BY DEF MapInv
<1> QED  BY <1>1, MapInvariance, PTL

(* Mappings that overlap, which Overlaps lets happen, enclose each other.  *)
THEOREM OverlapsOnlyEnclose == MapSpec => []OverlapsEnclose
<1>1. MapInv => OverlapsEnclose  BY DEF MapInv
<1> QED  BY <1>1, MapInvariance, PTL

-----------------------------------------------------------------------------
(* A step that keeps every entry somewhere keeps the bytes behind each     *)
(* address and those that serve it.                                        *)
LEMMA EntriesKept ==
  ASSUME \A i \in Indices : \E k \in Indices' : mappings'[k] = mappings[i],
         NEW a \in Address
  PROVE  Backing(a) \subseteq Backing(a)' /\ ServingBytes(a) \subseteq ServingBytes(a)'
<1>1. ASSUME NEW i \in Indices
      PROVE  /\ i \in Behind(a) => ByteAt(mappings[i], a) \in Backing(a)'
             /\ i \in Serving(a) => ByteAt(mappings[i], a) \in ServingBytes(a)'
  <2>1. PICK k \in Indices' : mappings'[k] = mappings[i]
    OBVIOUS
  <2>2. i \in Behind(a) => k \in Behind(a)'
    BY <2>1, Zenon DEF Behind
  <2>3. i \in Serving(a) => k \in Serving(a)'
    BY <2>1, <2>2, Zenon DEF Serving, Behind
  <2> QED  BY <2>1, <2>2, <2>3, Zenon DEF Backing, ServingBytes
<1>2. Behind(a) \subseteq Indices /\ Serving(a) \subseteq Indices
  BY DEF Behind, Serving
<1> QED  BY <1>1, <1>2, Zenon DEF Backing, ServingBytes

(* An addition leaves the entries there are in their places. *)
LEMMA AddedFacts ==
  ASSUME MapTypeOK, NEW m \in Mapping, AddMapping(m)
  PROVE  /\ Indices \subseteq Indices' /\ Indices' \in SUBSET Nat
         /\ \A i \in Indices : mappings'[i] = mappings[i]
         /\ \A i \in Indices, k \in Indices' : k <= i => k \in Indices
<1>1. mappings \in Seq(Mapping)
  BY DEF MapTypeOK
<1>2. CASE mappings' = mappings
  BY <1>1, <1>2 DEF Indices
<1>3. CASE mappings' = Append(mappings, m)
  BY <1>1, <1>3 DEF Indices
<1> QED  BY <1>2, <1>3 DEF AddMapping

LEMMA AddKeepsLookups ==
  ASSUME MapTypeOK, NEW m \in Mapping, AddMapping(m), NEW a \in Address,
         NEW b \in ServingBytes(a), ServingBytes(a) = {b}
  PROVE  Lookup(a)' = b
<1>1. /\ Indices \subseteq Indices' /\ Indices' \in SUBSET Nat
      /\ \A i \in Indices : mappings'[i] = mappings[i]
      /\ \A i \in Indices, k \in Indices' : k <= i => k \in Indices
  BY AddedFacts
<1>2. PICK i \in Serving(a) : b = ByteAt(mappings[i], a)
  BY DEF ServingBytes
<1>3. i \in Indices /\ i \in Serving(a)'
  BY <1>1, <1>2, Zenon DEF Serving, Behind
<1>4. Serving(a)' \in SUBSET Nat /\ Serving(a)' # {}
  <2>1. Serving(a)' \subseteq Indices'  BY DEF Serving, Behind
  <2> QED  BY <1>1, <1>3, <2>1
<1> DEFINE k == Min(Serving(a)')
<1>5. k \in Serving(a)' /\ k <= i
  BY <1>3, <1>4, MinIsLeast
<1>6. k \in Indices
  <2>1. k \in Indices'  BY <1>5 DEF Serving, Behind
  <2> QED  BY <1>1, <1>3, <1>5, <2>1
<1>7. mappings'[k] = mappings[k]
  BY <1>1, <1>6
<1>8. k \in Serving(a)
  <2> HIDE DEF k
  <2> QED  BY <1>5, <1>6, <1>7, Zenon DEF Serving, Behind
<1>9. Lookup(a)' = ByteAt(mappings[k], a)
  BY <1>7 DEF Lookup
<1> QED  BY <1>8, <1>9 DEF ServingBytes

LEMMA EntriesMoved ==
  ASSUME MapTypeOK, mem_Reorder
  PROVE  \A i \in Indices : \E k \in Indices' : mappings'[k] = mappings[i]
<1>1. PICK p \in Orders : mappings' = Moved(p)
  BY DEF mem_Reorder
<1>2. /\ mappings' \in Seq(Mapping) /\ Len(mappings') = Len(mappings)
      /\ \A i \in Indices : p[i] \in Indices /\ mappings'[i] = mappings[p[i]]
      /\ \A j \in Indices : \E i \in Indices : p[i] = j
  BY <1>1, MovedFacts DEF MapTypeOK
<1> TAKE j \in Indices
<1>3. PICK i \in Indices : p[i] = j
  BY <1>2
<1>4. i \in Indices' /\ mappings'[i] = mappings[j]
  BY <1>2, <1>3 DEF Indices
<1> QED  BY <1>4

LEMMA ReorderKeepsLookups ==
  ASSUME MapTypeOK, mem_Reorder, NEW a \in Address,
         NEW b \in ServingBytes(a), ServingBytes(a) = {b}
  PROVE  Lookup(a)' = b
<1>1. PICK p \in Orders : mappings' = Moved(p)
  BY DEF mem_Reorder
<1>2. /\ mappings' \in Seq(Mapping) /\ Len(mappings') = Len(mappings)
      /\ \A i \in Indices : p[i] \in Indices /\ mappings'[i] = mappings[p[i]]
      /\ \A j \in Indices : \E i \in Indices : p[i] = j
  BY <1>1, MovedFacts DEF MapTypeOK
<1>3. Indices' = Indices /\ Indices \in SUBSET Nat
  BY <1>2 DEF Indices
<1>4. \A i \in Indices : \E k \in Indices' : mappings'[k] = mappings[i]
  BY EntriesMoved
<1>5. b \in ServingBytes(a)'
  BY <1>4, EntriesKept
<1>6. Serving(a)' \in SUBSET Nat /\ Serving(a)' # {}
  BY <1>3, <1>5 DEF ServingBytes, Serving, Behind
<1> DEFINE k == Min(Serving(a)')
<1>7. k \in Serving(a)'
  BY <1>6, MinIsLeast
<1>8. k \in Indices
  BY <1>3, <1>7 DEF Serving, Behind
<1>9. p[k] \in Serving(a) /\ mappings'[k] = mappings[p[k]]
  <2> HIDE DEF k
  <2> QED  BY <1>2, <1>7, <1>8, Zenon DEF Serving, Behind
<1>10. Lookup(a)' = ByteAt(mappings[p[k]], a)
  BY <1>9 DEF Lookup
<1> QED  BY <1>9, <1>10 DEF ServingBytes

(* No address ever loses a byte behind it. *)
THEOREM NoByteIsLost == MapSpec => BackingKept
<1>1. ASSUME MapInv, [MapNext]_mapvars, NEW a \in Address
      PROVE  Backing(a) \subseteq Backing(a)'
  <2> MapTypeOK
    BY <1>1 DEF MapInv
  <2>1. ASSUME NEW m \in Mapping, AddMapping(m)
        PROVE  \A i \in Indices : \E k \in Indices' : mappings'[k] = mappings[i]
    BY <2>1, AddedFacts
  <2>2. ASSUME mem_Reorder
        PROVE  \A i \in Indices : \E k \in Indices' : mappings'[k] = mappings[i]
    BY <2>2, EntriesMoved
  <2>3. UNCHANGED mappings => Backing(a)' = Backing(a)
    BY DEF Backing, Behind, Indices
  <2>4. CASE MapNext
    BY <1>1, <2>1, <2>2, <2>3, <2>4, Steps, EntriesKept, Zenon
  <2>5. CASE UNCHANGED mapvars
    BY <2>3, <2>5 DEF mapvars
  <2> QED  BY <1>1, <2>4, <2>5
<1>2. MapInv /\ [MapNext]_mapvars
        => [\A a \in Address : Backing(a) \subseteq Backing(a)']_mapvars
  BY <1>1
<1> QED  BY <1>2, MapInvariance, PTL DEF MapSpec, BackingKept

(* An address that one byte serves keeps going to it. *)
THEOREM LookupsNeverMove == MapSpec => LookupsStay
<1>1. ASSUME MapInv, MapNext, NEW a \in Address, NEW b \in ServingBytes(a),
             ServingBytes(a) = {b}
      PROVE  Lookup(a)' = b
  <2>1. MapTypeOK  BY <1>1 DEF MapInv
  <2>2. ASSUME UNCHANGED mappings PROVE Lookup(a)' = b
    <3>1. Lookup(a)' = Lookup(a)
      BY <2>2 DEF Lookup, Serving, Behind, Indices
    <3>2. Serving(a) \in SUBSET Nat /\ Serving(a) # {}
      BY <1>1 DEF ServingBytes, Serving, Behind, Indices
    <3>3. Lookup(a) \in ServingBytes(a)
      BY <3>2, MinIsLeast DEF Lookup, ServingBytes
    <3> QED  BY <1>1, <3>1, <3>3
  <2> QED  BY <1>1, <2>1, <2>2, Steps, AddKeepsLookups, ReorderKeepsLookups, Zenon
<1>2. MapInv /\ [MapNext]_mapvars
        => [\A a \in Address :
              \A b \in ServingBytes(a) : ServingBytes(a) = {b} => Lookup(a)' = b]_mapvars
  BY <1>1
<1> QED  BY <1>2, MapInvariance, PTL DEF MapSpec, LookupsStay

-----------------------------------------------------------------------------
(* Transfers that mem_Read and mem_Write cut.                              *)

(* The calls that are left go on where the access stopped, and the first   *)
(* of two has a mapping.                                                   *)
CallsFollow ==
  /\ Len(calls) <= 2
  /\ calls # <<>> => /\ stopped = "no"
                     /\ calls[1].addr = (access.addr + Len(access.bytes)) % Space
  /\ Len(calls) = 1 => Len(access.bytes) + calls[1].size = access.size
  /\ Len(calls) = 2 => /\ Len(access.bytes) + calls[1].size + calls[2].size = access.size
                       /\ calls[2].addr = (calls[1].addr + calls[1].size) % Space
                       /\ Holding(calls[1].addr, calls[1].size) # {}

(* An access that has ended without ending the program has touched every   *)
(* byte it asked for, or none.                                             *)
WholeTransfers ==
  stopped = "no" /\ calls = <<>> => access.bytes = <<>> \/ Len(access.bytes) = access.size

(* The steps, as what they do to the access and the calls. *)
LEMMA AccessSteps ==
  ASSUME MapTypeOK, MapNext
  PROVE  \/ UNCHANGED <<access, calls, stopped>> /\ calls = <<>>
         \/ UNCHANGED mappings /\ calls = <<>> /\ calls' = <<>> /\ access'.bytes = <<>>
         \/ /\ UNCHANGED mappings /\ calls = <<>> /\ calls' = <<>>
            /\ \E i \in Indices, addr \in Address, sz \in Nat :
                 /\ Inside(mappings[i], addr, sz)
                 /\ access' = [addr |-> addr, size |-> sz,
                               bytes |-> BytesOf(mappings[i], addr, sz)]
         \/ /\ UNCHANGED <<mappings, stopped>> /\ calls = <<>>
            /\ \E c \in Call : /\ calls' = <<c>>
                               /\ access' = [addr |-> c.addr, size |-> c.size, bytes |-> <<>>]
         \/ RunCall
<1>1. CASE calls = <<>> /\ \E r \in Ranges : mem_AddSegment(r.base, r.size)
  BY <1>1, Zenon DEF mem_AddSegment, AddMapping, mapvars
<1>2. CASE /\ calls = <<>>
           /\ \E r \in Ranges, b \in Starts : mem_AddMappingShared(r.base, r.size, b)
  BY <1>2, Zenon DEF mem_AddMappingShared, AddMapping
<1>3. ASSUME NEW addr \in Address, NEW sz \in {1, 2, 4}, AccessWord(addr, sz), calls = <<>>
      PROVE  \/ UNCHANGED mappings /\ calls' = <<>> /\ access'.bytes = <<>>
             \/ /\ UNCHANGED mappings /\ calls' = <<>>
                /\ \E i \in Indices : /\ Inside(mappings[i], addr, sz)
                                     /\ access' = [addr |-> addr, size |-> sz,
                                                   bytes |-> BytesOf(mappings[i], addr, sz)]
  <2>1. CASE Holding(addr, sz) = {}
    BY <1>3, <2>1 DEF AccessWord, print_illegal, Stop, Touched
  <2>2. CASE Holding(addr, sz) # {}
    <3> DEFINE i == Min(Holding(addr, sz))
    <3>1. i \in Indices
      BY <2>2, FirstHolding DEF MapTypeOK
    <3>2. CASE ~ Inside(mappings[i], addr, sz)
      BY <1>3, <2>2, <3>2 DEF AccessWord, Stop, Touched
    <3>3. CASE Inside(mappings[i], addr, sz)
      <4>1. Touched(addr, sz, BytesOf(mappings[i], addr, sz), "no")
        BY <1>3, <2>2, <3>3 DEF AccessWord
      <4> HIDE DEF i
      <4> QED  BY <1>3, <3>1, <3>3, <4>1, Zenon DEF Touched
    <3> QED  BY <3>2, <3>3
  <2> QED  BY <2>1, <2>2
<1>4. CASE /\ calls = <<>>
           /\ \E addr \in Address, sz \in {1, 2, 4} : AccessWord(addr, sz)
  <2>1. PICK addr \in Address, sz \in {1, 2, 4} : AccessWord(addr, sz)
    BY <1>4
  <2>2. sz \in Nat  OBVIOUS
  <2> QED  BY <1>3, <1>4, <2>1, <2>2, Zenon
<1>5. CASE /\ calls = <<>>
           /\ \E addr \in Address, size \in Lengths, op \in {"mem_Read", "mem_Write"} :
                Transfer(op, addr, size)
  <2>1. PICK addr \in Address, size \in Lengths, op \in {"mem_Read", "mem_Write"} :
          Transfer(op, addr, size)
    BY <1>5
  <2> DEFINE c == [op |-> op, addr |-> addr, size |-> size]
  <2>2. c \in Call /\ c.addr = addr /\ c.size = size
    BY RangesAssumption DEF Call, Address
  <2>3. /\ calls' = <<c>> /\ UNCHANGED <<mappings, stopped>>
        /\ access' = [addr |-> c.addr, size |-> c.size, bytes |-> <<>>]
    BY <2>1, <2>2 DEF Transfer
  <2> QED  BY <1>5, <2>2, <2>3, Zenon
<1>6. CASE /\ calls = <<>>
           /\ \E addr \in Address, size \in Lengths :
                mem_rawaddrFails(addr, size) /\ Stop(addr, size, "exit")
  BY <1>6 DEF Stop, Touched
<1>7. CASE calls = <<>> /\ mem_Reorder
  BY <1>7 DEF mem_Reorder
<1>8. CASE RunCall
  BY <1>8
<1> QED  BY <1>1, <1>2, <1>4, <1>5, <1>6, <1>7, <1>8 DEF MapNext

(* A list of one or two calls, and what is left of it. *)
LEMMA OneOrTwo ==
  ASSUME NEW s \in Seq(Call), s # <<>>, Len(s) <= 2
  PROVE  /\ Len(s) \in {1, 2} /\ Head(s) \in Call /\ Head(s) = s[1] /\ Tail(s) \in Seq(Call)
         /\ Len(s) = 1 => Tail(s) = <<>>
         /\ Len(s) = 2 => Len(Tail(s)) = 1 /\ Tail(s)[1] = s[2] /\ Tail(s) # <<>>
<1>1. Len(s) \in Nat \ {0}
  BY EmptySeq
<1>2. /\ Head(s) \in Call /\ Tail(s) \in Seq(Call) /\ Len(Tail(s)) = Len(s) - 1
      /\ \A i \in 1 .. Len(Tail(s)) : Tail(s)[i] = s[i + 1]
  BY HeadTailProperties
<1> DEFINE n == Len(s)
           t == Tail(s)
<1>3. n \in {1, 2} /\ Head(s) = s[1]
  <2>1. n \in Nat \ {0} /\ n <= 2  BY <1>1
  <2> HIDE DEF n
  <2>2. n \in {1, 2}  BY <2>1
  <2> QED  BY <2>2
<1>4. Len(s) = 1 => Tail(s) = <<>>
  <2>1. Tail(s) # <<>> => Len(Tail(s)) # 0
    BY <1>2, EmptySeq
  <2> QED  BY <1>2, <2>1
<1>5. ASSUME Len(s) = 2 PROVE Len(Tail(s)) = 1 /\ Tail(s)[1] = s[2] /\ Tail(s) # <<>>
  <2>1. Len(t) = 1 /\ t[1] = s[2]
    <3>1. /\ t \in Seq(Call) /\ Len(t) = n - 1 /\ n = 2
          /\ \A i \in 1 .. Len(t) : t[i] = s[i + 1]
      BY <1>2, <1>5
    <3> HIDE DEF t, n
    <3> QED  BY <3>1
  <2> HIDE DEF t
  <2>2. t # <<>>
    BY <2>1
  <2> QED  BY <2>1, <2>2 DEF t
<1> QED  BY <1>2, <1>3, <1>4, <1>5

(* A call that is served, that is cut, or that ends the program. *)
LEMMA RunKeepsCalls ==
  ASSUME MapTypeOK, stopped = "no", CallsFollow, RunCall
  PROVE  CallsFollow' /\ WholeTransfers'
<1> DEFINE c == Head(calls)
           n == Len(access.bytes)
<1>1. /\ calls \in Seq(Call) /\ mappings \in Seq(Mapping) /\ access \in Access
      /\ calls # <<>> /\ Len(calls) <= 2
  BY DEF MapTypeOK, RunCall, CallsFollow
<1>7. /\ c \in Call /\ c = calls[1] /\ Len(calls) \in {1, 2}
      /\ Len(calls) = 1 => Tail(calls) = <<>>
      /\ Len(calls) = 2 => /\ Len(Tail(calls)) = 1 /\ Tail(calls)[1] = calls[2]
                           /\ Tail(calls) # <<>>
  BY <1>1, OneOrTwo
<1>2. c.addr \in Address /\ c.size \in Nat /\ access.addr \in Nat /\ n \in Nat
  BY <1>1, <1>7, SpaceAssumption DEF Call, Address, Access
<1>3. UNCHANGED mappings /\ access' \in Access /\ calls' \in Seq(Call)
  BY CallKeepsTypes
<1>4. CASE Serve(c)
  <2> DEFINE m == mappings[Min(Holding(c.addr, c.size))]
             more == BytesOf(m, c.addr, c.size)
  <2>1. m \in Mapping /\ Inside(m, c.addr, c.size)
    BY <1>1, <1>4, FirstHolding DEF Serve
  <2>2. more \in Seq(Byte) /\ Len(more) = c.size
    <3> HIDE DEF m, c
    <3> QED  BY <1>2, <2>1, BytesTyped
  <2> HIDE DEF more
  <2>3. access' = [access EXCEPT !.bytes = @ \o more] /\ calls' = Tail(calls)
    BY <1>4 DEF Serve, more
  <2>4. /\ access'.addr = access.addr /\ access'.size = access.size
        /\ access'.bytes = access.bytes \o more
    BY <1>1, <2>3 DEF Access
  <2>5. Len(access'.bytes) = n + c.size
    <3>1. access.bytes \in Seq(Byte)  BY <1>1 DEF Access
    <3> QED  BY <2>2, <2>4, <3>1, ConcatProperties
  <2>6. CASE Len(calls) = 1
    <3>1. calls' = <<>>
      BY <1>7, <2>3, <2>6
    <3>2. n + c.size = access.size
      BY <1>1, <1>7, <2>6 DEF CallsFollow
    <3> QED  BY <2>4, <2>5, <3>1, <3>2 DEF CallsFollow, WholeTransfers
  <2>7. CASE Len(calls) = 2
    <3>1. Len(calls') = 1 /\ calls'[1] = calls[2] /\ calls' # <<>>
      BY <1>7, <2>3, <2>7
    <3>2. n + c.size + calls[2].size = access.size
      BY <1>1, <1>7, <2>7 DEF CallsFollow
    <3>3. c.addr = (access.addr + n) % Space /\ calls[2].addr = (c.addr + c.size) % Space
      BY <1>1, <1>7, <2>7 DEF CallsFollow
    <3>4. calls[2].addr = ((access.addr + n) + c.size) % Space
      <4> DEFINE x == access.addr + n
      <4>1. x \in Nat  BY <1>2
      <4>2. c.addr = x % Space  BY <3>3
      <4> HIDE DEF x, c
      <4>3. (c.addr + c.size) % Space = (x + c.size) % Space
        BY <1>2, <4>1, <4>2, WrapAnytime
      <4> QED  BY <3>3, <4>3 DEF x
    <3>5. (access.addr + n) + c.size = access'.addr + Len(access'.bytes)
      BY <1>2, <2>4, <2>5
    <3>6. stopped' = "no"
      BY <1>4 DEF Serve
    <3> QED  BY <2>4, <2>5, <3>1, <3>2, <3>4, <3>5, <3>6 DEF CallsFollow, WholeTransfers
  <2> QED  BY <1>7, <2>6, <2>7
<1>5. CASE Cut(c)
  <2> DEFINE c1 == [c EXCEPT !.size = Part1Size(c)]
             c2 == [c EXCEPT !.addr = SecondStart(c.addr, Part1Size(c)), !.size = Part2Size(c)]
  <2>1. /\ Part1Size(c) \in Address \ {0} /\ Part2Size(c) \in Address \ {0}
        /\ Part1Size(c) + Part2Size(c) = c.size /\ Holding(c.addr, Part1Size(c)) # {}
    <3> HIDE DEF c
    <3> QED  BY <1>1, <1>7, <1>5, PartsFit DEF Cut
  <2>2. /\ c1.addr = c.addr /\ c1.size = Part1Size(c) /\ c2.size = Part2Size(c)
        /\ c2.addr = (c.addr + Part1Size(c)) % Space
    BY <1>7, Zenon DEF Call, SecondStart
  <2>3. Len(calls) = 1
    BY <1>7, <1>5 DEF Cut, CallsFollow
  <2>4. calls' = << c1, c2 >> \o Tail(calls) /\ access' = access /\ stopped' = "no"
    BY <1>5 DEF Cut
  <2>9. c1 \in Call /\ c2 \in Call
    <3>1. c.addr + Part1Size(c) \in Nat
      BY <1>2, <2>1, SpaceAssumption DEF Address
    <3>2. SecondStart(c.addr, Part1Size(c)) \in Address
      BY <3>1, InAddress DEF SecondStart
    <3> QED  BY <1>7, <2>1, <3>2, Zenon DEF Call
  <2> HIDE DEF c1, c2
  <2>5. Len(calls') = 2 /\ calls'[1] = c1 /\ calls'[2] = c2
    <3> DEFINE pair == << c1, c2 >>
    <3>1. pair \in Seq(Call) /\ Len(pair) = 2 /\ pair[1] = c1 /\ pair[2] = c2
      BY <2>9
    <3> HIDE DEF pair
    <3>2. calls' = pair
      BY <1>7, <2>3, <2>4, <3>1, ConcatEmptySeq DEF pair
    <3> QED  BY <3>1, <3>2
  <2>6. c.addr = (access.addr + n) % Space /\ n + c.size = access.size
    BY <1>1, <1>7, <2>3 DEF CallsFollow
  <2>7. n + c1.size + c2.size = access.size
    BY <1>2, <2>1, <2>2, <2>6, SpaceAssumption DEF Address
  <2>8. Holding(calls[1].addr, calls[1].size)' # {}
    <3>1. c1.addr = c.addr /\ calls'[1].addr = c.addr /\ calls'[1].size = Part1Size(c)
      BY <2>2, <2>5
    <3>2. Holding(calls[1].addr, calls[1].size)' = Holding(c.addr, Part1Size(c))
      <4> HIDE DEF c
      <4> QED  BY <1>3, <3>1, Zenon DEF Holding, Indices
    <3> QED  BY <2>1, <3>2
  <2>10. calls'[2].addr = (calls'[1].addr + calls'[1].size) % Space
    BY <2>2, <2>5
  <2>11. calls' # <<>>
    BY <2>5
  <2> QED  BY <2>2, <2>4, <2>5, <2>6, <2>7, <2>8, <2>10, <2>11 DEF CallsFollow, WholeTransfers
<1>6. ASSUME NEW how \in {"exit", "wild"}, EndsAt(c, how)
      PROVE  CallsFollow' /\ WholeTransfers'
  BY <1>6 DEF EndsAt, CallsFollow, WholeTransfers
<1> QED  BY <1>4, <1>5, <1>6, Zenon DEF RunCall

LEMMA NextKeepsCalls ==
  ASSUME MapTypeOK, CallsFollow, WholeTransfers, [MapNext]_mapvars
  PROVE  CallsFollow' /\ WholeTransfers'
<1>1. CASE UNCHANGED <<access, calls, stopped>> /\ calls = <<>>
  BY <1>1 DEF CallsFollow, WholeTransfers
<1>2. CASE UNCHANGED mappings /\ calls = <<>> /\ calls' = <<>> /\ access'.bytes = <<>>
  BY <1>2 DEF CallsFollow, WholeTransfers
<1>3. CASE /\ UNCHANGED mappings /\ calls = <<>> /\ calls' = <<>>
           /\ \E i \in Indices, addr \in Address, sz \in Nat :
                /\ Inside(mappings[i], addr, sz)
                /\ access' = [addr |-> addr, size |-> sz,
                              bytes |-> BytesOf(mappings[i], addr, sz)]
  <2>1. PICK i \in Indices, addr \in Address, sz \in Nat :
               /\ Inside(mappings[i], addr, sz)
               /\ access' = [addr |-> addr, size |-> sz,
                             bytes |-> BytesOf(mappings[i], addr, sz)]
    BY <1>3
  <2> DEFINE bytes == BytesOf(mappings[i], addr, sz)
  <2>2. Len(bytes) = sz
    BY <2>1, EntriesTyped, BytesTyped DEF MapTypeOK
  <2> HIDE DEF bytes
  <2>3. access' = [addr |-> addr, size |-> sz, bytes |-> bytes]
    BY <2>1 DEF bytes
  <2>4. Len(access'.bytes) = access'.size
    BY <2>2, <2>3
  <2> QED  BY <1>3, <2>4 DEF CallsFollow, WholeTransfers
<1>4. CASE /\ UNCHANGED <<mappings, stopped>> /\ calls = <<>>
           /\ \E c \in Call : /\ calls' = <<c>>
                              /\ access' = [addr |-> c.addr, size |-> c.size, bytes |-> <<>>]
           /\ MapNext
  <2>1. PICK c \in Call : /\ calls' = <<c>>
                          /\ access' = [addr |-> c.addr, size |-> c.size, bytes |-> <<>>]
    BY <1>4
  <2>2. c.addr \in Nat /\ c.addr < Space /\ c.size \in Nat
    BY SpaceAssumption DEF Call, Address
  <2>3. (c.addr + 0) % Space = c.addr
    BY <2>2, NoWrap
  <2>4. stopped' = "no"
    BY <1>4 DEF MapNext
  <2> QED  BY <2>1, <2>2, <2>3, <2>4 DEF CallsFollow, WholeTransfers
<1>5. CASE RunCall /\ MapNext
  BY <1>5, RunKeepsCalls DEF MapNext
<1>6. CASE UNCHANGED mapvars
  BY <1>6 DEF mapvars, CallsFollow, WholeTransfers, Holding, Indices
<1> QED  BY <1>1, <1>2, <1>3, <1>4, <1>5, <1>6, AccessSteps, Zenon

(* An access touches all the bytes it was asked for, in however many parts *)
(* it was cut, or none: mem_Read and mem_Write never come back with half   *)
(* of a transfer done.                                                     *)
THEOREM TransfersAreWhole == MapSpec => []WholeTransfers
<1>1. MapInit => CallsFollow /\ WholeTransfers
  BY DEF MapInit, CallsFollow, WholeTransfers
<1>2. /\ MapInv /\ CallsFollow /\ WholeTransfers /\ [MapNext]_mapvars
      => CallsFollow' /\ WholeTransfers'
  BY NextKeepsCalls DEF MapInv
<1> QED  BY <1>1, <1>2, MapInvariance, PTL DEF MapSpec

-----------------------------------------------------------------------------
(* The refinement of AddressSpace, for mappings that do not go over the    *)
(* top of the address space.                                               *)

RangesEnd == \A r \in Ranges : r.base + r.size <= Space

TableEnds == \A i \in Indices : mappings[i].base + mappings[i].size <= Space

(* Every byte touched is behind the address it was touched for. *)
BytesPlaced ==
  \A k \in 1 .. Len(access.bytes) :
    access.bytes[k] \in Backing((access.addr + k - 1) % Space)

(* The step of the memory map keeps every entry. *)
LEMMA NextKeepsEntries ==
  ASSUME MapTypeOK, [MapNext]_mapvars
  PROVE  \A i \in Indices : \E k \in Indices' : mappings'[k] = mappings[i]
<1>1. ASSUME NEW m \in Mapping, AddMapping(m)
      PROVE  \A i \in Indices : \E k \in Indices' : mappings'[k] = mappings[i]
  BY <1>1, AddedFacts
<1>2. CASE mem_Reorder
  BY <1>2, EntriesMoved
<1>3. CASE UNCHANGED mappings
  BY <1>3 DEF Indices
<1>4. CASE UNCHANGED mapvars
  BY <1>3, <1>4 DEF mapvars
<1> QED  BY <1>1, <1>2, <1>3, <1>4, Steps, Zenon

LEMMA NextKeepsEnds ==
  ASSUME RangesEnd, MapTypeOK, TableEnds, [MapNext]_mapvars
  PROVE  TableEnds'
<1>0. \A i \in Indices : mappings[i] \in Mapping
  BY EntriesTyped DEF MapTypeOK
<1>1. ASSUME NEW m \in Mapping, NEW r \in Ranges, m.base = r.base, m.size = r.size,
             AddMapping(m)
      PROVE  TableEnds'
  <2>1. mappings \in Seq(Mapping) /\ m.base + m.size <= Space
    BY <1>1 DEF MapTypeOK, RangesEnd
  <2>2. CASE mappings' = mappings
    BY <2>2 DEF TableEnds, Indices
  <2>3. CASE mappings' = Append(mappings, m)
    <3>1. /\ Len(mappings') = Len(mappings) + 1 /\ Len(mappings) \in Nat
          /\ \A i \in 1 .. Len(mappings) : mappings'[i] = mappings[i]
          /\ mappings'[Len(mappings) + 1] = m
      BY <2>1, <2>3, AppendProperties, LenProperties
    <3> QED  BY <2>1, <3>1 DEF TableEnds, Indices
  <2> QED  BY <1>1, <2>2, <2>3 DEF AddMapping
<1>2. CASE mem_Reorder
  <2>1. PICK p \in Orders : mappings' = Moved(p)
    BY <1>2 DEF mem_Reorder
  <2>2. /\ Len(mappings') = Len(mappings)
        /\ \A i \in Indices : p[i] \in Indices /\ mappings'[i] = mappings[p[i]]
    BY <2>1, MovedFacts DEF MapTypeOK
  <2> QED  BY <2>2 DEF TableEnds, Indices
<1>3. CASE UNCHANGED mappings
  BY <1>3 DEF TableEnds, Indices
<1>4. CASE UNCHANGED mapvars
  BY <1>3, <1>4 DEF mapvars
<1> QED  BY <1>1, <1>2, <1>3, <1>4, Steps, Zenon

(* An access inside a mapping touches what is behind its addresses. *)
LEMMA InsideIsBehind ==
  ASSUME TableEnds, NEW i \in Indices, mappings[i] \in Mapping, NEW addr \in Address,
         NEW sz \in Nat, Inside(mappings[i], addr, sz), NEW k \in 1 .. sz
  PROVE  BytesOf(mappings[i], addr, sz)[k] \in Backing((addr + k - 1) % Space)
<1> DEFINE a == addr + k - 1
           m == mappings[i]
<1>1. m.base + m.size <= Space /\ m.base \in Nat /\ m.size \in Nat /\ addr \in Nat
  BY SpaceAssumption DEF TableEnds, Mapping, Address
<1>2. a \in Nat /\ a < Space /\ m.base <= a /\ a + 1 <= m.base + m.size
  <2>1. m.base <= addr /\ addr + sz <= m.base + m.size  BY DEF Inside
  <2> HIDE DEF m
  <2> QED  BY <1>1, <2>1, SpaceAssumption
<1>3. i \in Behind(a)
  BY <1>2 DEF Behind, Inside
<1>4. ByteAt(m, a) \in Backing(a)
  BY <1>3 DEF Backing
<1>5. a % Space = a
  <2> HIDE DEF a
  <2> QED  BY <1>2, NoWrap
<1>6. BytesOf(m, addr, sz)[k] = ByteAt(m, a)
  BY DEF BytesOf
<1> QED  BY <1>4, <1>5, <1>6

LEMMA ServeKeepsPlaced ==
  ASSUME MapTypeOK, TableEnds, BytesPlaced, CallsFollow, calls # <<>>, Serve(Head(calls))
  PROVE  BytesPlaced'
<1> DEFINE c == Head(calls)
           n == Len(access.bytes)
           i == Min(Holding(c.addr, c.size))
           more == BytesOf(mappings[i], c.addr, c.size)
<1>1. /\ calls \in Seq(Call) /\ mappings \in Seq(Mapping) /\ access \in Access
      /\ Len(calls) <= 2
  BY DEF MapTypeOK, CallsFollow
<1>2. c \in Call /\ c = calls[1]
  BY <1>1, OneOrTwo
<1>3. /\ c.addr \in Address /\ c.size \in Nat /\ access.addr \in Nat /\ n \in Nat
      /\ access.bytes \in Seq(Byte)
  BY <1>1, <1>2, SpaceAssumption DEF Call, Address, Access
<1>4. i \in Indices /\ mappings[i] \in Mapping /\ Inside(mappings[i], c.addr, c.size)
  BY <1>1, FirstHolding DEF Serve
<1> HIDE DEF i, c
<1>5. more \in Seq(Byte) /\ Len(more) = c.size
  BY <1>3, <1>4, BytesTyped
<1>6. /\ access'.addr = access.addr /\ access'.bytes = access.bytes \o more
      /\ UNCHANGED mappings
  BY <1>1 DEF Serve, Access, c, i
<1>7. c.addr = (access.addr + n) % Space
  BY <1>1, <1>2 DEF CallsFollow
<1>8. \A a : Backing(a)' = Backing(a)
  BY <1>6, Zenon DEF Backing, Behind, Indices
<1> DEFINE both == access.bytes \o more
<1>9. /\ Len(both) = n + c.size
      /\ \A k \in 1 .. n + c.size : both[k] = IF k <= n THEN access.bytes[k] ELSE more[k - n]
  <2> DEFINE b == access.bytes
  <2>1. b \in Seq(Byte) /\ more \in Seq(Byte) /\ Len(b) = n /\ Len(more) = c.size
    BY <1>3, <1>5
  <2>2. both = b \o more
    OBVIOUS
  <2> HIDE DEF b, more, both, n
  <2>3. /\ Len(b \o more) = Len(b) + Len(more)
        /\ \A k \in 1 .. Len(b) + Len(more) :
             (b \o more)[k] = IF k <= Len(b) THEN b[k] ELSE more[k - Len(b)]
    BY <2>1, ConcatProperties
  <2>4. /\ Len(both) = n + c.size
        /\ \A k \in 1 .. n + c.size : both[k] = IF k <= n THEN b[k] ELSE more[k - n]
    BY ONLY <2>1, <2>2, <2>3
  <2> QED  BY <2>4, Zenon DEF b
<1>10. \A j \in 1 .. c.size : more[j] \in Backing((c.addr + j - 1) % Space)
  BY <1>3, <1>4, InsideIsBehind
<1>11. \A j \in 1 .. n : access.bytes[j] \in Backing((access.addr + j - 1) % Space)
  BY DEF BytesPlaced
<1>12. ASSUME NEW j \in 1 .. c.size
       PROVE  (c.addr + j - 1) % Space = (access.addr + (n + j) - 1) % Space
  <2> DEFINE x == access.addr + n
             y == j - 1
  <2>1. /\ x \in Nat /\ y \in Nat /\ c.addr \in Nat
        /\ c.addr + j - 1 = c.addr + y /\ access.addr + (n + j) - 1 = x + y
    <3> HIDE DEF n
    <3> QED  BY <1>3, SpaceAssumption DEF Address
  <2>2. c.addr = x % Space
    BY <1>7
  <2> HIDE DEF x, y, n
  <2>3. ((x % Space) + y) % Space = (x + y) % Space
    BY <2>1, WrapAnytime
  <2> QED  BY <2>1, <2>2, <2>3
<1> HIDE DEF more, both, n
<1>13. ASSUME NEW k \in 1 .. n + c.size
       PROVE  both[k] \in Backing((access.addr + k - 1) % Space)
  <2>1. CASE k <= n
    <3>1. k \in 1 .. n /\ both[k] = access.bytes[k]
      BY <1>3, <1>9, <2>1
    <3> QED  BY <1>11, <3>1
  <2>2. CASE ~ (k <= n)
    <3>1. PICK j \in 1 .. c.size : j = k - n /\ k = n + j
      BY <1>3, <2>2
    <3>2. both[k] = more[j]
      BY <1>9, <2>2, <3>1
    <3>3. (c.addr + j - 1) % Space = (access.addr + k - 1) % Space
      BY <1>12, <3>1
    <3>4. more[j] \in Backing((c.addr + j - 1) % Space)
      BY <1>10
    <3> QED  BY <3>2, <3>3, <3>4
  <2> QED  BY <2>1, <2>2
<1>14. access'.bytes = both
  BY <1>6 DEF both
<1> QED  BY <1>6, <1>8, <1>9, <1>13, <1>14 DEF BytesPlaced

LEMMA NextKeepsPlaced ==
  ASSUME MapTypeOK, TableEnds, CallsFollow, BytesPlaced, [MapNext]_mapvars
  PROVE  BytesPlaced'
<1>0. access \in Access /\ \A i \in Indices : mappings[i] \in Mapping
  BY EntriesTyped DEF MapTypeOK
<1>1. CASE UNCHANGED access
  <2>1. ASSUME NEW k \in 1 .. Len(access.bytes)
        PROVE  access.bytes[k] \in Backing((access.addr + k - 1) % Space)'
    <3>1. PICK a \in Address : a = (access.addr + k - 1) % Space
      <4>1. access.addr + k - 1 \in Nat
        BY <1>0, SpaceAssumption DEF Access, Address
      <4> DEFINE x == access.addr + k - 1
      <4> HIDE DEF x
      <4>2. x % Space \in Address
        BY <4>1, InAddress DEF x
      <4> QED  BY <4>2 DEF x
    <3>2. access.bytes[k] \in Backing(a)
      BY <3>1 DEF BytesPlaced
    <3>3. Backing(a) \subseteq Backing(a)'
      BY NextKeepsEntries, EntriesKept
    <3>4. a = ((access.addr + k - 1) % Space)'
      BY <1>1, <3>1
    <3> QED  BY <3>2, <3>3, <3>4
  <2> QED  BY <1>1, <2>1 DEF BytesPlaced
<1>2. CASE access'.bytes = <<>>
  BY <1>2 DEF BytesPlaced
<1>3. CASE /\ UNCHANGED mappings
           /\ \E i \in Indices, addr \in Address, sz \in Nat :
                /\ Inside(mappings[i], addr, sz)
                /\ access' = [addr |-> addr, size |-> sz,
                              bytes |-> BytesOf(mappings[i], addr, sz)]
  <2>1. PICK i \in Indices, addr \in Address, sz \in Nat :
               /\ Inside(mappings[i], addr, sz)
               /\ access' = [addr |-> addr, size |-> sz,
                             bytes |-> BytesOf(mappings[i], addr, sz)]
    BY <1>3
  <2> DEFINE bytes == BytesOf(mappings[i], addr, sz)
  <2>2. Len(bytes) = sz
    BY <1>0, <2>1, BytesTyped
  <2>3. \A k \in 1 .. sz : bytes[k] \in Backing((addr + k - 1) % Space)
    BY <1>0, <2>1, InsideIsBehind
  <2>4. \A a : Backing(a)' = Backing(a)
    BY <1>3, Zenon DEF Backing, Behind, Indices
  <2> HIDE DEF bytes
  <2>5. access'.addr = addr /\ access'.bytes = bytes
    BY <2>1 DEF bytes
  <2> QED  BY <2>2, <2>3, <2>4, <2>5 DEF BytesPlaced
<1>4. CASE RunCall
  <2>1. calls # <<>>
    BY <1>4 DEF RunCall
  <2>2. CASE Serve(Head(calls))
    BY <2>1, <2>2, ServeKeepsPlaced
  <2>3. CASE Cut(Head(calls))
    BY <1>1, <2>3 DEF Cut
  <2>4. ASSUME NEW how \in {"exit", "wild"}, EndsAt(Head(calls), how)
        PROVE  BytesPlaced'
    BY <1>1, <2>4 DEF EndsAt
  <2> QED  BY <1>4, <2>2, <2>3, <2>4, Zenon DEF RunCall
<1>5. CASE \E c \in Call : access' = [addr |-> c.addr, size |-> c.size, bytes |-> <<>>]
  BY <1>2, <1>5
<1>6. CASE UNCHANGED mapvars
  BY <1>1, <1>6 DEF mapvars
<1> QED  BY <1>1, <1>2, <1>3, <1>4, <1>5, <1>6, AccessSteps, Zenon

(* A step of the table is a step of the address space it stands for. *)
LEMMA StepIsAddressSpace ==
  ASSUME MapTypeOK, BytesPlaced', access' \in Access, [MapNext]_mapvars
  PROVE  [AddressSpaceOf!Next]_<<[a \in Address |-> Backing(a)], access>>
<1> DEFINE backing == [a \in Address |-> Backing(a)]
<1>1. CASE UNCHANGED access
  <2>1. \A a \in Address : Backing(a) \subseteq Backing(a)'
    BY NextKeepsEntries, EntriesKept
  <2>2. \A a \in AddressSpaceOf!Address : backing[a] \subseteq backing'[a]
    BY <2>1 DEF AddressSpaceOf!Address, Address
  <2> QED  BY <1>1, <2>2 DEF AddressSpaceOf!Next, AddressSpaceOf!Extend
<1>2. CASE UNCHANGED mappings
  <2>1. \A a : Backing(a)' = Backing(a)
    BY <1>2, Zenon DEF Backing, Behind, Indices
  <2>2. UNCHANGED backing
    BY <2>1
  <2>3. access'.addr \in Nat /\ DOMAIN access'.bytes = 1 .. Len(access'.bytes)
    BY SpaceAssumption DEF Access, Address
  <2>4. ASSUME NEW k \in DOMAIN access'.bytes
        PROVE  access'.bytes[k] \in backing[(access'.addr + k - 1) % Space]
    <3>1. k \in 1 .. Len(access'.bytes) /\ access'.addr + k - 1 \in Nat
      BY <2>3
    <3> DEFINE x == access'.addr + k - 1
    <3> HIDE DEF x
    <3>2. x % Space \in Address
      BY <3>1, InAddress DEF x
    <3>3. access'.bytes[k] \in Backing(x % Space)
      BY <2>1, <3>1 DEF BytesPlaced, x
    <3> QED  BY <3>2, <3>3 DEF x
  <2> QED  BY <2>2, <2>4 DEF AddressSpaceOf!Next, AddressSpaceOf!Touch
<1>3. CASE UNCHANGED mapvars
  BY <1>1, <1>3 DEF mapvars
<1>4. MapNext => UNCHANGED access \/ UNCHANGED mappings
  BY Steps, Zenon DEF AddMapping, mem_Reorder
<1> QED  BY <1>1, <1>2, <1>3, <1>4

(* Guest memory reads like the memory of AddressSpace, whatever is mapped, *)
(* refused and reordered, and whatever a transfer is cut into: an address  *)
(* never loses a byte behind it, and an access touches bytes behind the    *)
(* addresses it names.                                                     *)
THEOREM ReadsLikeMemory == RangesEnd => (MapSpec => ImplementsAddressSpace)
<1> SUFFICES ASSUME RangesEnd PROVE MapSpec => ImplementsAddressSpace
  OBVIOUS
<1> DEFINE PlacedInv == MapInv /\ CallsFollow /\ WholeTransfers /\ TableEnds /\ BytesPlaced
<1>1. MapInit => PlacedInv
  BY InitHasInv
    DEF MapInit, CallsFollow, WholeTransfers, TableEnds, Indices, BytesPlaced
<1>2. PlacedInv /\ [MapNext]_mapvars => PlacedInv'
  BY NextKeepsInv, NextKeepsCalls, NextKeepsEnds, NextKeepsPlaced DEF MapInv
<1>3. MapInit => AddressSpaceOf!Init
  BY DEF MapInit, AddressSpaceOf!Init, AddressSpaceOf!Address, Address, Backing, Behind, Indices
<1>4. PlacedInv /\ PlacedInv' /\ [MapNext]_mapvars
        => [AddressSpaceOf!Next]_<<[a \in Address |-> Backing(a)], access>>
  <2> SUFFICES ASSUME PlacedInv, PlacedInv', [MapNext]_mapvars
               PROVE  [AddressSpaceOf!Next]_<<[a \in Address |-> Backing(a)], access>>
    OBVIOUS
  <2>1. MapTypeOK /\ BytesPlaced' /\ access' \in Access
    BY DEF MapInv, MapTypeOK
  <2> QED  BY <2>1, StepIsAddressSpace
<1> HIDE DEF PlacedInv
<1> QED  BY <1>1, <1>2, <1>3, <1>4, PTL DEF MapSpec, ImplementsAddressSpace, AddressSpaceOf!Spec
=============================================================================
