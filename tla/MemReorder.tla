----------------------------- MODULE MemReorder -----------------------------
(***************************************************************************)
(* The counters of accesses of src/mem.c, compiled in by MEM_REORDER, and  *)
(* the selection sort of mem_Reorder that puts the busiest mappings first. *)
(* Every step is one of MemMap.                                            *)
(***************************************************************************)
EXTENDS MemMap

CONSTANT MaxAccesses          \* bound: no access once a counter has reached it

ASSUME MaxAccessesAssumption == MaxAccesses \in Nat

VARIABLES accesses,           \* accesses[i] is mappings[i].accesses
          round               \* the round of the sort, 0 when it is not running

reordervars == <<mappings, access, calls, stopped, accesses, round>>

ReorderInit == MapInit /\ accesses = <<>> /\ round = 0

(* A mapping that has been added starts with a counter of 0.               *)
CountAdded ==
  accesses' = IF Len(mappings') > Len(mappings) THEN Append(accesses, 0) ELSE accesses

Count(i, by) == accesses' = [accesses EXCEPT ![i] = @ + by]

(* Reads of a word count four, every other access of a word one.           *)
CountWord(addr, sz, by) ==
  IF Holding(addr, sz) = {} THEN UNCHANGED accesses ELSE Count(Min(Holding(addr, sz)), by)

(* mem_Read and mem_Write count the bytes where they are served.  When it  *)
(* cuts, mem_Read also counts what it was asked for in the mapping it cuts *)
(* at; mem_Write does so in no mapping's counter.                          *)
CountCall(c) ==
  IF Holding(c.addr, c.size) # {} THEN Count(Min(Holding(c.addr, c.size)), c.size)
  ELSE IF c.op = "mem_Read" /\ Holding(c.addr, 1) # {}
    THEN Count(Max(Holding(c.addr, 1)), c.size)
  ELSE UNCHANGED accesses

-----------------------------------------------------------------------------
(* The selection sort, one round per step: round i swaps entry i with the  *)
(* first of the entries from i on whose count is the largest.              *)
(* Mutant: the least busy mapping comes first.                             *)
BusierTurned(a, b) == a < b

Busier(a, b) == a > b

FirstBusiest(i) ==
  CHOOSE m \in i .. Len(mappings) :
    \A j \in i .. Len(mappings) : /\ ~Busier(accesses[j], accesses[m])
                                  /\ j < m => Busier(accesses[m], accesses[j])

(* Mutant: the entry at i is not kept.                                     *)
SwapHalf(entries, i, max) == [entries EXCEPT ![i] = entries[max]]

Swap(entries, i, max) == [entries EXCEPT ![i] = entries[max], ![max] = entries[i]]

BeginReorder == /\ mappings # <<>>
                /\ round' = 1
                /\ UNCHANGED <<mapvars, accesses>>

SortRound ==
  /\ round \in 1 .. Len(mappings) - 1
  /\ mappings' = Swap(mappings, round, FirstBusiest(round))
  /\ accesses' = Swap(accesses, round, FirstBusiest(round))
  /\ round' = round + 1
  /\ UNCHANGED <<access, calls, stopped>>

EndReorder == /\ round > 0 /\ round >= Len(mappings)
              /\ accesses' = [i \in Indices |-> 0]
              /\ round' = 0
              /\ UNCHANGED mapvars

-----------------------------------------------------------------------------
BelowBound == \A i \in Indices : accesses[i] < MaxAccesses

ReorderNext ==
  /\ stopped = "no"
  /\ \/ /\ calls = <<>> /\ round = 0
        /\ \/ /\ \/ \E r \in Ranges : mem_AddSegment(r.base, r.size) /\ CountAdded
                 \/ \E r \in Ranges, b \in Starts :
                      mem_AddMappingShared(r.base, r.size, b) /\ CountAdded
                 \/ \E addr \in Address, sz \in {1, 2, 4} :
                      /\ BelowBound
                      /\ AccessWord(addr, sz)
                      /\ \E by \in IF sz = 4 THEN {1, 4} ELSE {1} : CountWord(addr, sz, by)
                 \/ \E addr \in Address, size \in Lengths, op \in {"mem_Read", "mem_Write"} :
                      BelowBound /\ Transfer(op, addr, size) /\ UNCHANGED accesses
                 \/ \E addr \in Address, size \in Lengths :
                      IF mem_rawaddrFails(addr, size)
                        THEN Stop(addr, size, "exit") /\ UNCHANGED accesses
                        ELSE BelowBound /\ CountWord(addr, size, 1) /\ UNCHANGED mapvars
              /\ UNCHANGED round
           \/ BeginReorder
     \/ RunCall /\ CountCall(Head(calls)) /\ UNCHANGED round
     \/ SortRound \/ EndReorder

ReorderSpec == ReorderInit /\ [][ReorderNext]_reordervars

-----------------------------------------------------------------------------
(* The sort puts the busiest mappings first, so that the loops over the    *)
(* table find them first: when it ends nothing behind an entry is busier.  *)
BusiestFirst ==
  \A i, j \in Indices : i < round /\ i < j => accesses[j] <= accesses[i]

(* The counters and the sort only refine MemMap: a round permutes whole    *)
(* entries, it neither loses one nor leaves one in two places.             *)
ImplementsMemMap == MapSpec
=============================================================================
