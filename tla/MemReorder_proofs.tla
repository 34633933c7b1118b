------------------------- MODULE MemReorder_proofs -------------------------
(***************************************************************************)
(* Theorems about the counters of accesses and the selection sort of       *)
(* mem_Reorder, for any table and any counts.                              *)
(***************************************************************************)
EXTENDS MemReorder, MemMap_proofs

-----------------------------------------------------------------------------
(* The sort runs between the calls of mem_Read and mem_Write, and there is *)
(* a counter for every mapping.                                            *)
CountersFit == /\ accesses \in Seq(Nat) /\ Len(accesses) = Len(mappings)
               /\ round \in 0 .. Len(mappings)
               /\ round > 0 => calls = <<>>

ReorderInv == MapTypeOK /\ CountersFit /\ BusiestFirst

(* Among finitely many entries there is one that none is busier than: the  *)
(* one with the fewest busier ones.                                        *)
LEMMA BusiestExists ==
  ASSUME NEW i \in Nat, NEW n \in Nat, i <= n, NEW a \in [1 .. n -> Nat], 0 < i
  PROVE  \E m \in i .. n : \A j \in i .. n : a[j] <= a[m]
<1> DEFINE Ahead(m) == {j \in i .. n : a[j] > a[m]}
           T == {Ahead(m) : m \in i .. n}
<1>1. IsWellFoundedOn(StrictSubsetOrdering(Nat), FiniteSubsetsOf(Nat))
  BY FS_StrictSubsetOrderingWellFounded
<1>2. ASSUME NEW m \in i .. n PROVE Ahead(m) \in FiniteSubsetsOf(Nat)
  <2>1. IsFiniteSet(i .. n) /\ Ahead(m) \subseteq i .. n /\ Ahead(m) \in SUBSET Nat
    BY FS_Interval
  <2>2. IsFiniteSet(Ahead(m))
    BY <2>1, FS_Subset, Zenon
  <2> QED  BY <2>1, <2>2, Zenon DEF FiniteSubsetsOf
<1>3. T \subseteq FiniteSubsetsOf(Nat) /\ T # {}
  <2>1. i \in i .. n  OBVIOUS
  <2> HIDE DEF Ahead
  <2> QED  BY <1>2, <2>1
<1>4. \E X \in T : \A Y \in T : ~ (<<Y, X>> \in StrictSubsetOrdering(Nat))
  <2> HIDE DEF T
  <2> QED  BY <1>1, <1>3, WFMin
<1>5. PICK m \in i .. n :
        \A k \in i .. n : ~ (<<Ahead(k), Ahead(m)>> \in StrictSubsetOrdering(Nat))
  BY <1>4, Zenon
<1>6. ASSUME NEW k \in i .. n, a[k] > a[m] PROVE FALSE
  <2>1. /\ a[k] \in Nat /\ a[m] \in Nat
        /\ \A j \in i .. n : a[j] \in Nat
    OBVIOUS
  <2>2. Ahead(k) \subseteq Ahead(m) /\ k \in Ahead(m) /\ k \notin Ahead(k)
    BY <1>6, <2>1
  <2>3. Ahead(k) \in SUBSET Nat /\ Ahead(m) \in SUBSET Nat
    OBVIOUS
  <2>4. <<Ahead(k), Ahead(m)>> \in StrictSubsetOrdering(Nat)
    <3> HIDE DEF Ahead
    <3> QED  BY <2>2, <2>3 DEF StrictSubsetOrdering
  <2> QED  BY <1>5, <2>4, Zenon
<1>7. \A k \in i .. n : a[k] \in Nat
  OBVIOUS
<1>8. \A k \in i .. n : a[k] <= a[m]
  BY <1>6, <1>7
<1> QED  BY <1>8

(* The entry a round of the sort brings forward. *)
LEMMA FirstBusiestIs ==
  ASSUME CountersFit, NEW i \in Indices
  PROVE  /\ FirstBusiest(i) \in i .. Len(mappings)
         /\ \A j \in i .. Len(mappings) : accesses[j] <= accesses[FirstBusiest(i)]
<1> DEFINE n == Len(mappings)
           S == {m \in i .. n : \A j \in i .. n : accesses[j] <= accesses[m]}
<1>1. accesses \in [1 .. n -> Nat] /\ n \in Nat /\ i \in 1 .. n
  BY LenProperties DEF CountersFit, Indices
<1>2. S \in SUBSET Nat /\ S # {}
  <2> HIDE DEF n
  <2>1. \E m \in i .. n : \A j \in i .. n : accesses[j] <= accesses[m]
    <3>1. i \in Nat /\ i <= n /\ 0 < i  BY <1>1
    <3> QED  BY <1>1, <3>1, BusiestExists
  <2> QED  BY <1>1, <2>1
<1>3. PICK f \in S : \A m \in S : f <= m
  BY <1>2, NatLeast
<1> HIDE DEF n
<1>4. ASSUME NEW j \in i .. n
      PROVE  /\ ~ Busier(accesses[j], accesses[f])
             /\ j < f => Busier(accesses[f], accesses[j])
  <2>1. accesses[j] \in Nat /\ accesses[f] \in Nat /\ accesses[j] <= accesses[f]
    BY <1>1, <1>3
  <2>2. ASSUME j < f, accesses[j] = accesses[f] PROVE FALSE
    <3>1. j \in S
      BY <1>3, <2>2
    <3> QED  BY <1>1, <1>3, <2>2, <3>1
  <2> QED  BY <2>1, <2>2 DEF Busier
<1>5. FirstBusiest(i) \in i .. n /\ \A j \in i .. n : ~ Busier(accesses[j], accesses[FirstBusiest(i)])
  <2>1. f \in i .. n  OBVIOUS
  <2> HIDE DEF S
  <2> QED  BY <1>4, <2>1 DEF FirstBusiest, n
<1> QED
  <2> DEFINE g == FirstBusiest(i)
  <2> HIDE DEF g
  <2>1. g \in i .. n /\ \A j \in i .. n : ~ Busier(accesses[j], accesses[g])
    BY <1>5 DEF g
  <2>2. \A j \in i .. n : accesses[j] <= accesses[g]
    BY <1>1, <2>1 DEF Busier
  <2> QED  BY <2>1, <2>2 DEF g, n

(* What a swap does to a list. *)
LEMMA SwapAt ==
  ASSUME NEW S, NEW s \in Seq(S), NEW i, NEW m, NEW k \in 1 .. Len(s)
  PROVE  Swap(s, i, m)[k] = IF k = i THEN s[m] ELSE IF k = m THEN s[i] ELSE s[k]
BY DEF Swap

(* Both together, for the elements of a set. *)
LEMMA SwapFacts ==
  ASSUME NEW S, NEW s \in Seq(S), NEW i \in 1 .. Len(s), NEW m \in 1 .. Len(s)
  PROVE  /\ Swap(s, i, m) \in Seq(S) /\ Len(Swap(s, i, m)) = Len(s)
         /\ \A k \in 1 .. Len(s) :
              Swap(s, i, m)[k] = IF k = i THEN s[m] ELSE IF k = m THEN s[i] ELSE s[k]
<1>1. Swap(s, i, m) = [k \in 1 .. Len(s) |-> IF k = m THEN s[i] ELSE IF k = i THEN s[m] ELSE s[k]]
  BY DEF Swap
<1>2. \A k \in 1 .. Len(s) :
        Swap(s, i, m)[k] = IF k = i THEN s[m] ELSE IF k = m THEN s[i] ELSE s[k]
  BY <1>1
<1>3. \A k \in 1 .. Len(s) : s[k] \in S
  OBVIOUS
<1>4. Swap(s, i, m) \in [1 .. Len(s) -> S] /\ Len(s) \in Nat
  BY <1>1, <1>3
<1> HIDE DEF Swap
<1>5. Swap(s, i, m) \in Seq(S) /\ Len(Swap(s, i, m)) = Len(s)
  BY <1>4, SeqDef, LenProperties
<1> QED  BY <1>2, <1>5

(* A round of the sort is a reorder of MemMap: the order that swaps two    *)
(* entries loses none.                                                     *)
LEMMA RoundIsReorder ==
  ASSUME ReorderInv, SortRound
  PROVE  mem_Reorder
<1> DEFINE n == Len(mappings)
           m == FirstBusiest(round)
           p == [k \in Indices |-> IF k = round THEN m ELSE IF k = m THEN round ELSE k]
<1>1. mappings \in Seq(Mapping) /\ n \in Nat /\ round \in Indices /\ mappings # <<>>
  BY DEF ReorderInv, MapTypeOK, SortRound, Indices
<1>2. m \in Indices
  BY <1>1, FirstBusiestIs DEF ReorderInv, Indices
<1>3. mappings' = Swap(mappings, round, m)
  BY DEF SortRound
<1> HIDE DEF m
<1>4. p \in Orders
  <2>1. p \in [Indices -> Indices]
    BY <1>1, <1>2
  <2>2. \A j, k \in Indices : p[j] = p[k] => j = k
    BY <1>1, <1>2
  <2>3. ASSUME NEW j \in Indices PROVE \E k \in Indices : p[k] = j
    <3>1. p[round] = m /\ p[m] = round /\ (j # m /\ j # round => p[j] = j)
      BY <1>1, <1>2
    <3> HIDE DEF p
    <3> QED  BY <1>1, <1>2, <3>1, Zenon
  <2> HIDE DEF p
  <2> QED  BY <2>1, <2>2, <2>3 DEF Orders, Bijection, Injection, Surjection, IsInjective
<1>5. mappings' = Moved(p)
  <2>1. /\ \A k \in Indices : mappings'[k] = mappings[p[k]]
        /\ mappings' \in Seq(Mapping) /\ Len(mappings') = n
    <3>1. /\ mappings' \in Seq(Mapping) /\ Len(mappings') = n
          /\ \A k \in 1 .. n : mappings'[k] = IF k = round THEN mappings[m]
                                ELSE IF k = m THEN mappings[round] ELSE mappings[k]
      <4>1. round \in 1 .. Len(mappings) /\ m \in 1 .. Len(mappings)
        BY <1>1, <1>2 DEF Indices
      <4>2. mappings' \in Seq(Mapping)
        BY <1>1, <1>3, <4>1, SwapFacts
      <4>3. Len(mappings') = n
        BY <1>1, <1>3, <4>1, SwapFacts
      <4>4. \A k \in 1 .. Len(mappings) :
              Swap(mappings, round, m)[k] = IF k = round THEN mappings[m]
                                            ELSE IF k = m THEN mappings[round] ELSE mappings[k]
        <5>1. mappings \in Seq(Mapping)
          BY <1>1
        <5> QED  BY <5>1, SwapAt
      <4> QED  BY <1>3, <4>2, <4>3, <4>4, Zenon
    <3>2. \A k \in Indices : p[k] = IF k = round THEN m ELSE IF k = m THEN round ELSE k
      OBVIOUS
    <3> HIDE DEF p
    <3> QED  BY <3>1, <3>2 DEF Indices
  <2>2. mappings' = [k \in 1 .. n |-> mappings'[k]]
    BY <2>1
  <2> HIDE DEF p, n
  <2>3. mappings' = [k \in Indices |-> mappings[p[k]]]
    BY <2>1, <2>2 DEF Indices, n
  <2> QED  BY <2>3 DEF Moved
<1> HIDE DEF p
<1> QED  BY <1>1, <1>4, <1>5 DEF mem_Reorder, SortRound

(* A round puts what is busiest of the rest in its place. *)
LEMMA RoundSorts ==
  ASSUME ReorderInv, SortRound
  PROVE  CountersFit' /\ BusiestFirst'
<1> DEFINE n == Len(mappings)
           m == FirstBusiest(round)
<1>1. /\ mappings \in Seq(Mapping) /\ accesses \in Seq(Nat) /\ n \in Nat /\ Len(accesses) = n
      /\ round \in 1 .. n - 1 /\ round \in Indices
  BY DEF ReorderInv, CountersFit, MapTypeOK, SortRound, Indices
<1>2. m \in round .. n /\ \A j \in round .. n : accesses[j] <= accesses[m]
  BY <1>1, FirstBusiestIs DEF ReorderInv
<1>3. mappings' = Swap(mappings, round, m) /\ accesses' = Swap(accesses, round, m)
  BY DEF SortRound
<1> HIDE DEF m, n
<1>4. m \in 1 .. n /\ round \in 1 .. n
  BY <1>1, <1>2
<1>5. Len(mappings') = n
  BY <1>1, <1>3, <1>4, SwapFacts DEF n
<1>6. /\ accesses' \in Seq(Nat) /\ Len(accesses') = n
      /\ \A k \in 1 .. n : accesses'[k] = IF k = round THEN accesses[m]
                                          ELSE IF k = m THEN accesses[round] ELSE accesses[k]
  <2>1. round \in 1 .. Len(accesses) /\ m \in 1 .. Len(accesses)
    BY <1>1, <1>4
  <2>2. accesses' \in Seq(Nat)
    BY <1>1, <1>3, <2>1, SwapFacts
  <2>3. Len(accesses') = n
    BY <1>1, <1>3, <2>1, SwapFacts
  <2>4. \A k \in 1 .. Len(accesses) :
          Swap(accesses, round, m)[k] = IF k = round THEN accesses[m]
                                        ELSE IF k = m THEN accesses[round] ELSE accesses[k]
    <3>1. accesses \in Seq(Nat)
      BY <1>1
    <3> QED  BY <3>1, SwapAt
  <2> QED  BY <1>1, <1>3, <2>2, <2>3, <2>4, Zenon
<1>7. CountersFit'
  BY <1>1, <1>5, <1>6 DEF CountersFit, SortRound, ReorderInv
<1>8. ASSUME NEW i \in 1 .. n, NEW j \in 1 .. n, i < round + 1, i < j
      PROVE  accesses'[j] <= accesses'[i]
  <2>1. \A k \in 1 .. n : accesses[k] \in Nat
    BY <1>1
  <2>2. \A h, k \in 1 .. n : h < round /\ h < k => accesses[k] <= accesses[h]
    BY DEF ReorderInv, BusiestFirst, Indices, n
  <2>3. CASE i = round
    <3>1. accesses'[i] = accesses[m] /\ j \in round .. n
      BY <1>6, <1>8, <2>3
    <3>2. accesses'[j] = accesses[j] \/ accesses'[j] = accesses[round]
      BY <1>1, <1>6, <1>8, <2>3
    <3>3. round \in round .. n
      BY <1>1
    <3> QED  BY <1>2, <3>1, <3>2, <3>3
  <2>4. CASE i < round
    <3>1. accesses'[i] = accesses[i]
      BY <1>1, <1>2, <1>6, <2>4
    <3>2. \E k \in 1 .. n : i < k /\ accesses'[j] = accesses[k]
      BY <1>1, <1>2, <1>4, <1>6, <1>8, <2>4
    <3> QED  BY <2>2, <2>4, <3>1, <3>2
  <2> QED  BY <1>1, <1>8, <2>3, <2>4
<1>9. BusiestFirst'
  BY <1>5, <1>8 DEF BusiestFirst, Indices, SortRound
<1> QED  BY <1>7, <1>9

-----------------------------------------------------------------------------
(* Whatever else runs leaves a counter for every mapping.                  *)
LEMMA CountFits ==
  ASSUME accesses \in Seq(Nat), NEW i \in 1 .. Len(accesses), NEW by \in Nat, Count(i, by)
  PROVE  accesses' \in Seq(Nat) /\ Len(accesses') = Len(accesses)
<1>1. accesses[i] + by \in Nat
  OBVIOUS
<1>2. accesses' = [accesses EXCEPT ![i] = accesses[i] + by]
  BY DEF Count
<1> QED  BY <1>1, <1>2, ExceptSeq

LEMMA CountWordFits ==
  ASSUME MapTypeOK, CountersFit, NEW addr, NEW sz, NEW by \in Nat, CountWord(addr, sz, by)
  PROVE  accesses' \in Seq(Nat) /\ Len(accesses') = Len(accesses)
<1>1. accesses \in Seq(Nat) /\ Len(accesses) = Len(mappings) /\ mappings \in Seq(Mapping)
  BY DEF CountersFit, MapTypeOK
<1>2. CASE Holding(addr, sz) = {}
  BY <1>1, <1>2 DEF CountWord
<1>3. CASE Holding(addr, sz) # {}
  <2>1. PICK i \in 1 .. Len(accesses) : Count(i, by)
    BY <1>1, <1>3, FirstHolding DEF CountWord, Indices
  <2> QED  BY <1>1, <2>1, CountFits
<1> QED  BY <1>2, <1>3

LEMMA CountCallFits ==
  ASSUME MapTypeOK, CountersFit, NEW c \in Call, CountCall(c)
  PROVE  accesses' \in Seq(Nat) /\ Len(accesses') = Len(accesses)
<1>1. /\ accesses \in Seq(Nat) /\ Len(accesses) = Len(mappings) /\ mappings \in Seq(Mapping)
      /\ c.size \in Nat
  BY SpaceAssumption DEF CountersFit, MapTypeOK, Call, Address
<1>2. CASE Holding(c.addr, c.size) # {}
  <2>1. PICK i \in 1 .. Len(accesses) : Count(i, c.size)
    BY <1>1, <1>2, FirstHolding DEF CountCall, Indices
  <2> QED  BY <1>1, <2>1, CountFits
<1>3. CASE Holding(c.addr, c.size) = {} /\ c.op = "mem_Read" /\ Holding(c.addr, 1) # {}
  <2>1. PICK i \in 1 .. Len(accesses) : Count(i, c.size)
    BY <1>1, <1>3, LastHolding DEF CountCall, Indices
  <2> QED  BY <1>1, <2>1, CountFits
<1>4. CASE Holding(c.addr, c.size) = {} /\ ~ (c.op = "mem_Read" /\ Holding(c.addr, 1) # {})
  BY <1>1, <1>4 DEF CountCall
<1> QED  BY <1>2, <1>3, <1>4

LEMMA CountAddedFits ==
  ASSUME MapTypeOK, CountersFit, CountAdded,
         UNCHANGED mapvars \/ \E m \in Mapping : AddMapping(m)
  PROVE  /\ accesses' \in Seq(Nat) /\ Len(accesses') = Len(mappings')
         /\ Len(mappings) <= Len(mappings')
<1>1. accesses \in Seq(Nat) /\ Len(accesses) = Len(mappings) /\ mappings \in Seq(Mapping)
  BY DEF CountersFit, MapTypeOK
<1>2. CASE mappings' = mappings
  BY <1>1, <1>2 DEF CountAdded
<1>3. CASE \E m \in Mapping : mappings' = Append(mappings, m)
  <2>1. Len(mappings') = Len(mappings) + 1 /\ Len(mappings) \in Nat
    BY <1>1, <1>3
  <2>2. accesses' = Append(accesses, 0)
    BY <2>1 DEF CountAdded
  <2> QED  BY <1>1, <2>1, <2>2
<1> QED  BY <1>2, <1>3 DEF AddMapping, mapvars

(* Steps between two reorders. *)
LEMMA OutsideTheSort ==
  ASSUME ReorderInv, round = 0, round' \in {0, 1}, round' = 1 => calls' = <<>> /\ mappings' # <<>>,
         mappings' \in Seq(Mapping), accesses' \in Seq(Nat), Len(accesses') = Len(mappings')
  PROVE  CountersFit' /\ BusiestFirst'
<1>1. BusiestFirst'
  BY DEF BusiestFirst, Indices
<1>2. Len(mappings') \in Nat /\ (mappings' # <<>> => Len(mappings') # 0)
  BY EmptySeq
<1>3. CountersFit'
  BY <1>2 DEF CountersFit
<1> QED  BY <1>1, <1>3

LEMMA NextKeepsReorderInv ==
  ASSUME ReorderInv, MapTypeOK', [ReorderNext]_reordervars
  PROVE  CountersFit' /\ BusiestFirst'
<1>0. /\ MapTypeOK /\ CountersFit /\ mappings' \in Seq(Mapping)
      /\ accesses \in Seq(Nat) /\ Len(accesses) = Len(mappings)
  BY DEF ReorderInv, MapTypeOK, CountersFit
<1>1. ASSUME UNCHANGED mapvars \/ \E m \in Mapping : AddMapping(m), CountAdded,
             round = 0, UNCHANGED round
      PROVE  CountersFit' /\ BusiestFirst'
  <2>1. accesses' \in Seq(Nat) /\ Len(accesses') = Len(mappings')
    BY <1>0, <1>1, CountAddedFits
  <2> QED  BY <1>0, <1>1, <2>1, OutsideTheSort
<1>2. ASSUME NEW r \in Ranges, mem_AddSegment(r.base, r.size), CountAdded, round = 0,
             UNCHANGED round
      PROVE  CountersFit' /\ BusiestFirst'
  <2>1. r.base \in Address /\ r.size \in Address
    BY RangesAssumption DEF Address
  <2>2. UNCHANGED mapvars \/ \E m \in Mapping : AddMapping(m)
    BY <1>2, <2>1, SegmentIsAdd, Zenon
  <2> QED  BY <1>1, <1>2, <2>2
<1>3. ASSUME NEW r \in Ranges, NEW b \in Starts, mem_AddMappingShared(r.base, r.size, b),
             CountAdded, round = 0, UNCHANGED round
      PROVE  CountersFit' /\ BusiestFirst'
  <2>1. r.base \in Address /\ r.size \in Address /\ b \in Byte
    BY RangesAssumption DEF Address, Byte, Buffer
  <2>2. UNCHANGED mapvars \/ \E m \in Mapping : AddMapping(m)
    BY <1>3, <2>1, SharedIsAdd, Zenon
  <2> QED  BY <1>1, <1>3, <2>2
<1>4. ASSUME round = 0, UNCHANGED <<round, mappings>>,
             accesses' \in Seq(Nat), Len(accesses') = Len(accesses)
      PROVE  CountersFit' /\ BusiestFirst'
  BY <1>0, <1>4, OutsideTheSort
<1>5. ASSUME NEW addr \in Address, NEW sz \in {1, 2, 4}, AccessWord(addr, sz),
             NEW by \in {1, 4}, CountWord(addr, sz, by), round = 0, UNCHANGED round
      PROVE  CountersFit' /\ BusiestFirst'
  <2>1. accesses' \in Seq(Nat) /\ Len(accesses') = Len(accesses)
    BY <1>0, <1>5, CountWordFits
  <2>2. UNCHANGED mappings
    BY <1>0, <1>5, WordTypes DEF MapTypeOK
  <2> QED  BY <1>4, <1>5, <2>1, <2>2
<1>6. ASSUME NEW addr \in Address, NEW size \in Lengths, NEW op \in {"mem_Read", "mem_Write"},
             Transfer(op, addr, size), UNCHANGED accesses, round = 0, UNCHANGED round
      PROVE  CountersFit' /\ BusiestFirst'
  BY <1>0, <1>4, <1>6 DEF Transfer
<1>7. ASSUME NEW addr \in Address, NEW size \in Lengths, round = 0, UNCHANGED round,
             IF mem_rawaddrFails(addr, size)
               THEN Stop(addr, size, "exit") /\ UNCHANGED accesses
               ELSE BelowBound /\ CountWord(addr, size, 1) /\ UNCHANGED mapvars
      PROVE  CountersFit' /\ BusiestFirst'
  <2>1. CASE mem_rawaddrFails(addr, size)
    BY <1>0, <1>4, <1>7, <2>1 DEF Stop, Touched
  <2>2. CASE ~ mem_rawaddrFails(addr, size)
    <3>1. accesses' \in Seq(Nat) /\ Len(accesses') = Len(accesses)
      BY <1>0, <1>7, <2>2, CountWordFits
    <3> QED  BY <1>4, <1>7, <2>2, <3>1 DEF mapvars
  <2> QED  BY <2>1, <2>2
<1>8. ASSUME BeginReorder, round = 0, calls = <<>>
      PROVE  CountersFit' /\ BusiestFirst'
  BY <1>0, <1>8, OutsideTheSort DEF BeginReorder, mapvars
<1>9. ASSUME RunCall, stopped = "no", CountCall(Head(calls)), UNCHANGED round
      PROVE  CountersFit' /\ BusiestFirst'
  <2>1. calls \in Seq(Call) /\ calls # <<>> /\ Head(calls) \in Call
    BY <1>0, <1>9 DEF RunCall, MapTypeOK
  <2>2. accesses' \in Seq(Nat) /\ Len(accesses') = Len(accesses)
    BY <1>0, <1>9, <2>1, CountCallFits
  <2>3. round = 0
    BY <1>0, <2>1, LenProperties DEF CountersFit, MapTypeOK
  <2>4. UNCHANGED mappings
    BY <1>0, <1>9, CallKeepsTypes
  <2> QED  BY <1>4, <1>9, <2>2, <2>3, <2>4
<1>10. CASE SortRound
  BY <1>10, RoundSorts
<1>11. CASE EndReorder
  <2>1. /\ UNCHANGED mappings /\ round' = 0 /\ mappings \in Seq(Mapping)
        /\ accesses' = [i \in 1 .. Len(mappings) |-> 0]
    BY <1>0, <1>11 DEF EndReorder, mapvars, Indices, MapTypeOK
  <2>2. accesses' \in Seq(Nat) /\ Len(accesses') = Len(mappings)
    BY <2>1
  <2>3. BusiestFirst'
    BY <2>1 DEF BusiestFirst, Indices
  <2> QED  BY <2>1, <2>2, <2>3, LenProperties DEF CountersFit
<1>12. CASE UNCHANGED reordervars
  BY <1>12 DEF reordervars, ReorderInv, CountersFit, BusiestFirst, Indices
<1> QED
  BY <1>2, <1>3, <1>5, <1>6, <1>7, <1>8, <1>9, <1>10, <1>11, <1>12, Zenon DEF ReorderNext

(* Every step of the counters and the sort is one of MemMap.               *)
LEMMA StepIsMapStep ==
  ASSUME ReorderInv, [ReorderNext]_reordervars
  PROVE  [MapNext]_mapvars
<1>1. CASE UNCHANGED reordervars
  BY <1>1 DEF reordervars, mapvars
<1>2. CASE stopped = "no" /\ SortRound
  <2>1. calls = <<>>
    BY <1>2 DEF ReorderInv, CountersFit, SortRound
  <2> QED  BY <1>2, <2>1, RoundIsReorder DEF MapNext
<1>3. CASE BeginReorder \/ EndReorder
  BY <1>3 DEF BeginReorder, EndReorder
<1>4. CASE stopped = "no" /\ RunCall
  BY <1>4 DEF MapNext
<1>5. CASE /\ stopped = "no" /\ calls = <<>>
           /\ \/ \E r \in Ranges : mem_AddSegment(r.base, r.size)
              \/ \E r \in Ranges, b \in Starts : mem_AddMappingShared(r.base, r.size, b)
              \/ \E addr \in Address, sz \in {1, 2, 4} : AccessWord(addr, sz)
              \/ \E addr \in Address, size \in Lengths, op \in {"mem_Read", "mem_Write"} :
                   Transfer(op, addr, size)
              \/ \E addr \in Address, size \in Lengths :
                   mem_rawaddrFails(addr, size) /\ Stop(addr, size, "exit")
              \/ UNCHANGED mapvars
  BY <1>5, Zenon DEF MapNext
<1> QED  BY <1>1, <1>2, <1>3, <1>4, <1>5, Zenon DEF ReorderNext

-----------------------------------------------------------------------------
(* The counters and the sort are invisible to the users of the memory map. *)
THEOREM SortIsReorder == ReorderSpec => ImplementsMemMap
<1> DEFINE Inv == MapInv /\ CountersFit /\ BusiestFirst
<1>1. ReorderInit => Inv
  BY InitHasInv DEF ReorderInit, MapInit, CountersFit, BusiestFirst, Indices
<1>2. Inv /\ [ReorderNext]_reordervars => Inv' /\ [MapNext]_mapvars
  <2> SUFFICES ASSUME Inv, [ReorderNext]_reordervars PROVE Inv' /\ [MapNext]_mapvars
    OBVIOUS
  <2>1. ReorderInv
    BY DEF MapInv, ReorderInv
  <2>2. [MapNext]_mapvars
    BY <2>1, StepIsMapStep
  <2>3. MapInv'
    BY <2>2, NextKeepsInv
  <2>4. CountersFit' /\ BusiestFirst'
    BY <2>1, <2>3, NextKeepsReorderInv DEF MapInv
  <2> QED  BY <2>2, <2>3, <2>4
<1>3. ReorderInit => MapInit
  BY DEF ReorderInit
<1> HIDE DEF Inv
<1> QED  BY <1>1, <1>2, <1>3, PTL DEF ReorderSpec, ImplementsMemMap, MapSpec

(* The lookups that run after a reorder meet the busiest mappings first.   *)
THEOREM SortPutsBusiestFirst == ReorderSpec => []BusiestFirst
<1> DEFINE Inv == CountersFit /\ BusiestFirst
<1>1. ReorderInit => Inv
  BY DEF ReorderInit, MapInit, CountersFit, BusiestFirst, Indices
<1>2. Inv /\ MapInv /\ MapInv' /\ [ReorderNext]_reordervars => Inv'
  BY NextKeepsReorderInv DEF MapInv, ReorderInv
<1>3. Inv => BusiestFirst
  OBVIOUS
<1>4. ReorderSpec => []MapInv
  BY SortIsReorder, MapInvariance, PTL DEF ImplementsMemMap
<1> HIDE DEF Inv
<1> QED  BY <1>1, <1>2, <1>3, <1>4, PTL DEF ReorderSpec
=============================================================================
