------------------------------- MODULE MemMap -------------------------------
(***************************************************************************)
(* The memory map of src/mem.c: the table of mappings from ranges of guest *)
(* addresses to host memory, the lookups of every access, and the reorder  *)
(* that the scheduler runs after each slice (src/arm11/threads.c).         *)
(*                                                                         *)
(* Abstractions.  The contents of memory are left out: an access is the    *)
(* list of host bytes it touches, in the order of the guest addresses.     *)
(* The access counters are left out too, so mem_Reorder may leave the      *)
(* table in any order; module MemReorder adds the counters and the sort.   *)
(* mem_Write and mem_Read call themselves; every call is a step, and       *)
(* nothing else happens while calls remains.                               *)
(*                                                                         *)
(* An address is below Space, 2^32 in the program, and every sum of        *)
(* addresses is taken modulo Space as u32 arithmetic does.                 *)
(***************************************************************************)
EXTENDS Naturals, Sequences, FiniteSetsExt

CONSTANTS Space,              \* 2^32
          MaxMappings,        \* MAX_MAPPINGS
          Heap,               \* blocks calloc can return; when all are used it fails
          Shared,             \* the emulator's own buffers that mappings can share
          GdbPort,            \* global_gdb_port is set
          Ranges,             \* bound: the ranges mapped, [base, size]
          Starts,             \* bound: where mappings share the emulator's buffers
          Lengths             \* bound: the sizes of bulk transfers

ASSUME SpaceAssumption == Space \in Nat \ {0}
ASSUME MaxMappingsAssumption == MaxMappings \in Nat \ {0}
ASSUME GdbPortAssumption == GdbPort \in BOOLEAN
ASSUME RangesAssumption == /\ Ranges \subseteq [base : 0 .. Space - 1, size : 0 .. Space - 1]
                           /\ Starts \subseteq [buf : Shared, off : Nat]
                           /\ Lengths \subseteq 1 .. Space - 1

VARIABLES mappings,           \* mappings[1 .. num_mappings]
          access,             \* the last access and the host bytes it touched
          calls,              \* the calls of mem_Write and mem_Read yet to run
          stopped             \* "no", "exit" after exit(1), "wild" after an access
                              \* outside every mapping or outside the table

mapvars == <<mappings, access, calls, stopped>>

Address == 0 .. Space - 1
Buffer == Heap \cup Shared
Byte == [buf : Buffer, off : Nat]

(* memmap_t; phys points into the host block buf, off bytes from its start. *)
Mapping == [base : Address, size : Address, buf : Buffer, off : Nat]

Indices == 1 .. Len(mappings)

Access == [addr : Address, size : Nat, bytes : Seq(Byte)]

Call == [op : {"mem_Read", "mem_Write"}, addr : Address, size : Address \ {0}]

MapTypeOK == /\ mappings \in Seq(Mapping)
             /\ Len(mappings) <= MaxMappings
             /\ access \in Access
             /\ calls \in Seq(Call)
             /\ stopped \in {"no", "exit", "wild"}

-----------------------------------------------------------------------------
End(m) == (m.base + m.size) % Space

(* Overlaps(a, b), a being in the table and b the new mapping.             *)
(* Mutant: the test of the end of b is not made.                           *)
OverlapsStart(a, b) == a.base <= b.base /\ b.base < End(a)

Overlaps(a, b) == \/ a.base <= b.base /\ b.base < End(a)
                  \/ a.base < End(b) /\ End(b) < End(a)

Contains(m, addr, sz) == m.base <= addr /\ (addr + sz) % Space <= End(m)

(* The access stays inside the mapping: what Contains says unless a sum    *)
(* has wrapped around.                                                     *)
Inside(m, addr, sz) == m.base <= addr /\ addr + sz <= m.base + m.size

ByteAt(m, addr) == [buf |-> m.buf, off |-> m.off + (addr - m.base)]

Holding(addr, sz) == {i \in Indices : Contains(mappings[i], addr, sz)}

-----------------------------------------------------------------------------
MapInit == /\ mappings = <<>>
           /\ access = [addr |-> 0, size |-> 0, bytes |-> <<>>]
           /\ calls = <<>>
           /\ stopped = "no"

(* Why AddMapping and mem_AddMappingShared refuse a mapping.               *)
(* Mutant: the test for a full table comes one mapping late.               *)
RefusalLate(m) ==
  IF m.size = 0 \/ Len(mappings) = MaxMappings + 1 THEN TRUE
  ELSE \E j \in Indices : Overlaps(mappings[j], m)

Refusal(m) ==
  IF m.size = 0 \/ Len(mappings) = MaxMappings THEN TRUE
  ELSE \E j \in Indices : Overlaps(mappings[j], m)

(* Append the mapping, or refuse it and leave the table alone.             *)
(* Mutant: the newest mapping comes first.                                 *)
AddMappingInFront(m) ==
  /\ mappings' = IF Refusal(m) THEN mappings ELSE <<m>> \o mappings
  /\ UNCHANGED <<access, calls, stopped>>

AddMapping(m) ==
  /\ mappings' = IF Refusal(m) THEN mappings ELSE Append(mappings, m)
  /\ UNCHANGED <<access, calls, stopped>>

(* AddMapping's memory comes from calloc, which can fail. *)
FreshBlocks == {b \in Heap : \A i \in Indices : mappings[i].buf # b}

mem_AddSegment(base, size) ==
  IF FreshBlocks = {}
    THEN UNCHANGED mapvars
    ELSE AddMapping([base |-> base, size |-> size,
                     buf |-> CHOOSE b \in FreshBlocks : TRUE, off |-> 0])

mem_AddMappingShared(base, size, byte) ==
  AddMapping([base |-> base, size |-> size, buf |-> byte.buf, off |-> byte.off])

-----------------------------------------------------------------------------
Touched(addr, size, bytes, how) ==
  /\ access' = [addr |-> addr, size |-> size, bytes |-> bytes]
  /\ stopped' = how
  /\ UNCHANGED <<mappings, calls>>

Stop(addr, size, how) == Touched(addr, size, <<>>, how)

(* print_illegal: the program exits unless a debugger is attached, and     *)
(* then the access is skipped.                                             *)
print_illegal(addr, size) == Stop(addr, size, IF GdbPort THEN "no" ELSE "exit")

BytesOf(m, addr, sz) == [k \in 1 .. sz |-> ByteAt(m, addr + k - 1)]

(* mem_Read8 .. mem_Write32: the first mapping that contains the access    *)
(* serves it.  Close to the top of the address space the sum in Contains   *)
(* wraps around and the access falls outside of the mapping it accepted.   *)
AccessWord(addr, sz) ==
  IF Holding(addr, sz) = {}
    THEN print_illegal(addr, sz)
    ELSE LET m == mappings[Min(Holding(addr, sz))]
         IN  IF Inside(m, addr, sz) THEN Touched(addr, sz, BytesOf(m, addr, sz), "no")
                                    ELSE Stop(addr, sz, "wild")

-----------------------------------------------------------------------------
(* A transfer of many bytes. *)
Transfer(op, addr, size) ==
  /\ access' = [addr |-> addr, size |-> size, bytes |-> <<>>]
  /\ calls' = <<[op |-> op, addr |-> addr, size |-> size]>>
  /\ UNCHANGED <<mappings, stopped>>

(* The first mapping that contains it serves the call.                     *)
Serve(c) ==
  LET m == mappings[Min(Holding(c.addr, c.size))]
  IN  /\ Holding(c.addr, c.size) # {} /\ Inside(m, c.addr, c.size)
      /\ access' = [access EXCEPT !.bytes = @ \o BytesOf(m, c.addr, c.size)]
      /\ calls' = Tail(calls)
      /\ UNCHANGED <<mappings, stopped>>

(* Where a transfer is cut that no mapping contains: at the end of the     *)
(* last mapping that has its first byte.                                   *)
(* Mutant: the second part starts one byte late.                           *)
SecondStartLate(addr, part1) == (addr + part1 + 1) % Space

SecondStart(addr, part1) == (addr + part1) % Space

Part2Size(c) == (c.addr + c.size + Space - End(mappings[Max(Holding(c.addr, 1))])) % Space

Part1Size(c) == (c.size + Space - Part2Size(c)) % Space

Cut(c) ==
  /\ Holding(c.addr, c.size) = {} /\ Holding(c.addr, 1) # {}
  /\ calls' = << [c EXCEPT !.size = Part1Size(c)],
                 [c EXCEPT !.addr = SecondStart(c.addr, Part1Size(c)), !.size = Part2Size(c)] >>
              \o Tail(calls)
  /\ UNCHANGED <<mappings, access, stopped>>

(* When no mapping contains the transfer, mem_Write counts it in the entry *)
(* after the last one, which is outside the array when the table is full;  *)
(* mem_Read counts it in the entry map, 0xdeadc0de when nothing has the    *)
(* first byte, before it looks whether it is.  What a write outside the    *)
(* array does is up to the build.                                          *)
MayLeaveTable(c) ==
  /\ Holding(c.addr, c.size) = {}
  /\ CASE c.op = "mem_Write" -> Len(mappings) = MaxMappings
       [] c.op = "mem_Read"  -> Holding(c.addr, 1) = {}

MayBeWild(c) ==
  \/ MayLeaveTable(c)
  \/ /\ Holding(c.addr, c.size) # {}
     /\ ~Inside(mappings[Min(Holding(c.addr, c.size))], c.addr, c.size)

EndsAt(c, how) == /\ stopped' = how
                  /\ calls' = <<>>
                  /\ UNCHANGED <<mappings, access>>

(* One call of mem_Write or mem_Read. *)
RunCall ==
  /\ calls # <<>>
  /\ LET c == Head(calls)
     IN  \/ Serve(c)
         \/ Cut(c)
         \/ Holding(c.addr, 1) = {} /\ Holding(c.addr, c.size) = {} /\ EndsAt(c, "exit")
         \/ MayBeWild(c) /\ EndsAt(c, "wild")

(* mem_rawaddr does not split: a range in two mappings ends the program.   *)
mem_rawaddrFails(addr, size) == Holding(addr, size) = {}

mem_rawaddr(addr, size) == ByteAt(mappings[Min(Holding(addr, size))], addr)

-----------------------------------------------------------------------------
(* mem_Reorder moves whole entries; the first lookups go to the new order. *)
(* Mutant: the entries move without their bases.                           *)
MovedHalf(p) == [i \in Indices |-> [mappings[p[i]] EXCEPT !.base = mappings[i].base]]

Moved(p) == [i \in Indices |-> mappings[p[i]]]

Orders == Bijection(Indices, Indices)

mem_Reorder == /\ mappings # <<>>     \* threads_Execute runs once a program is loaded
               /\ \E p \in Orders : mappings' = Moved(p)
               /\ UNCHANGED <<access, calls, stopped>>

-----------------------------------------------------------------------------
(* Everything the loader, the supervisor calls, the interpreter and the    *)
(* services do to guest memory.                                            *)
MapNext ==
  /\ stopped = "no"
  /\ \/ /\ calls = <<>>
        /\ \/ \E r \in Ranges : mem_AddSegment(r.base, r.size)
           \/ \E r \in Ranges, b \in Starts : mem_AddMappingShared(r.base, r.size, b)
           \/ \E addr \in Address, sz \in {1, 2, 4} : AccessWord(addr, sz)
           \/ \E addr \in Address, size \in Lengths, op \in {"mem_Read", "mem_Write"} :
                Transfer(op, addr, size)
           \/ \E addr \in Address, size \in Lengths :
                mem_rawaddrFails(addr, size) /\ Stop(addr, size, "exit")
           \/ mem_Reorder
     \/ RunCall

MapSpec == MapInit /\ [][MapNext]_mapvars

-----------------------------------------------------------------------------
(* The host bytes behind an address.                                       *)
Behind(a) == {i \in Indices : Inside(mappings[i], a, 1)}

Backing(a) == {ByteAt(mappings[i], a) : i \in Behind(a)}

(* Those that serve an access of one byte, and the one that does.  A       *)
(* mapping whose end has wrapped around serves no single byte.             *)
Serving(a) == {i \in Behind(a) : Contains(mappings[i], a, 1)}

ServingBytes(a) == {ByteAt(mappings[i], a) : i \in Serving(a)}

Lookup(a) == ByteAt(mappings[Min(Serving(a))], a)

(* The table implements the address space: no address ever loses a byte    *)
(* behind it, whatever is mapped, refused or reordered in between, and     *)
(* every access, also one cut over several mappings, touches bytes behind  *)
(* the addresses it names.                                                 *)
AddressSpaceOf == INSTANCE AddressSpace WITH
                    backing <- [a \in Address |-> Backing(a)]

ImplementsAddressSpace == AddressSpaceOf!Spec

(* An address keeps every byte behind it. *)
BackingKept == [][\A a \in Address : Backing(a) \subseteq Backing(a)']_mapvars

(* An address that one byte serves keeps going to that byte over a call of *)
(* mem_Reorder or the mapping of more memory: the values of the guest stay *)
(* where they are while the table moves under them.                        *)
LookupsStay ==
  [][\A a \in Address :
       \A b \in ServingBytes(a) : ServingBytes(a) = {b} => Lookup(a)' = b]_mapvars

(* Mappings whose end does not wrap around. *)
Plain(m) == m.base + m.size < Space

Meet(a, b) == a.base < b.base + b.size /\ b.base < a.base + a.size

Encloses(b, a) == b.base < a.base /\ a.base + a.size <= b.base + b.size

(* What Overlaps lets through: two mappings only meet when one starts      *)
(* before the other and reaches to its end or beyond.                      *)
OverlapsEnclose ==
  \A i, j \in Indices :
    i # j /\ Plain(mappings[i]) /\ Plain(mappings[j]) /\ Meet(mappings[i], mappings[j])
      => Encloses(mappings[i], mappings[j]) \/ Encloses(mappings[j], mappings[i])
=============================================================================
