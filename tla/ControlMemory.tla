--------------------------- MODULE ControlMemory ---------------------------
(***************************************************************************)
(* The supervisor calls that change the memory map of a guest              *)
(* (src/syscalls/memory.c): svcControlMemory, svcMapMemoryBlock and        *)
(* svcCreateMemoryBlock, over the table of src/mem.c.  LINEmembuffer is    *)
(* the block the emulator hands out as linear memory, which the GPU        *)
(* reaches too; linearalloced is how much of it has been handed out.       *)
(*                                                                         *)
(* Handles are left out: blocks lists the memory blocks that exist, a      *)
(* supervisor call names one of them.  Addresses keep the order of the     *)
(* constants below, with Page for 0x1000.                                  *)
(***************************************************************************)
EXTENDS MemMap

CONSTANTS Page,               \* 0x1000, the alignment the calls ask for
          CodeBase,           \* 0x00100000
          HeapBase,           \* 0x08000000
          LinearBase,         \* 0x14000000
          FontBase,           \* 0x18000000
          LinearEnd,          \* 0x1C000000
          Addresses,          \* bound: the addresses the guest passes
          Sizes,              \* bound: the sizes the guest passes
          MaxBlocks,          \* bound: the memory blocks it creates
          MaxLinear           \* bound: no linear commit once more has been handed out

ASSUME RegionsAssumption ==
  /\ {Page, CodeBase, HeapBase, LinearBase, FontBase, LinearEnd, MaxBlocks, MaxLinear} \subseteq Nat
  /\ 0 < Page /\ Page < Space /\ CodeBase < HeapBase /\ HeapBase < LinearBase
  /\ LinearBase < FontBase /\ FontBase < LinearEnd /\ LinearEnd < Space
ASSUME InputsAssumption == Addresses \subseteq 0 .. Space - 1 /\ Sizes \subseteq 0 .. Space - 1
ASSUME LineBufferAssumption == "LINEmembuffer" \in Shared /\ "GSPsharedbuff" \in Shared

VARIABLES linearalloced,
          blocks,             \* the MEM_TYPE_ALLOC handles: misc[0], misc[1], misc_ptr[0],
                              \* and whether svcControlMemory_wrap gave misc[0]
          granted             \* history: what svcControlMemory has granted the guest

svcvars == <<mappings, access, calls, stopped, linearalloced, blocks, granted>>

LinearSize == LinearEnd - LinearBase          \* 0x8000000, the length of LINEmembuffer

NoByte == [buf |-> "NULL", off |-> 0]

LineByte(addr) == [buf |-> "LINEmembuffer", off |-> (addr + Space - LinearBase) % Space]

(* op: its low byte, and CONTROL_GSP_FLAG. *)
Op == [code : {"FREE", "RESERVE", "COMMIT", "MAP", "UNMAP", "PROTECT"}, linear : BOOLEAN]

-----------------------------------------------------------------------------
Aligned(x) == x % Page = 0

(* The checks of svcControlMemory_wrap, for op 0x10003, op 1 and the rest. *)
(* The sums wrap around.                                                   *)
LinearParams(addr0, addr1, size) ==
  /\ addr1 = 0
  /\ addr0 # 0 => /\ addr0 >= LinearBase
                  /\ (IF size = 0 THEN (addr0 + size) % Space ELSE addr0) < LinearEnd

FreeParams(addr0, size) ==
  /\ addr0 >= HeapBase
  /\ (IF size = 0 THEN addr0 ELSE (addr0 + size) % Space) > LinearEnd

HeapParams(addr0, size) ==
  /\ addr0 >= HeapBase
  /\ (IF size = 0 THEN addr0 ELSE (addr0 + size) % Space) < LinearBase

MirrorParams(addr1, size) ==
  /\ size = 0 => addr1 < LinearBase
  /\ addr1 >= CodeBase
  /\ (addr1 + size) % Space < LinearBase

Accepted(op, addr0, addr1, size) ==
  /\ Aligned(addr0) /\ Aligned(addr1) /\ Aligned(size)
  /\ CASE op.linear /\ op.code = "COMMIT" -> LinearParams(addr0, addr1, size)
       [] ~op.linear /\ op.code = "FREE"  -> FreeParams(addr0, size)
       [] OTHER -> /\ HeapParams(addr0, size)
                   /\ ~op.linear /\ op.code \in {"MAP", "UNMAP"} => MirrorParams(addr1, size)
  /\ op.code # "RESERVE"

-----------------------------------------------------------------------------
Granted(addr, size, from) ==
  granted' = IF Len(mappings') > Len(mappings)
               THEN granted \cup {[addr |-> addr, size |-> size, from |-> from]}
               ELSE granted

(* The next bytes of LINEmembuffer, whatever AddMapping then says.  The    *)
(* one test for more than there is looks at this call's size only.         *)
(* Mutant: what has been handed out is not counted.                        *)
AfterCommitUncounted(size) == linearalloced

AfterCommit(size) == (linearalloced + size) % Space

CommitNextLinear(size) ==
  LET addr == (LinearBase + linearalloced) % Space
  IN  /\ linearalloced' = AfterCommit(size)
      /\ mem_AddMappingShared(addr, size, [buf |-> "LINEmembuffer", off |-> linearalloced])
      /\ Granted(addr, size, addr)

(* Linear memory at an address of the guest's choice is ordinary memory,   *)
(* and always at the base of the heap.                                     *)
CommitAt(addr0, size) == /\ mem_AddSegment(addr0, size)
                         /\ Granted(addr0, size, addr0)
                         /\ UNCHANGED linearalloced

(* MAP: a second address for memory the guest has, if one mapping holds it *)
(* Mutant: the mirror starts one byte off.                                 *)
MirroredByteOff(addr1, size) == [mem_rawaddr(addr1, size) EXCEPT !.off = @ + 1]

MirroredByte(addr1, size) == mem_rawaddr(addr1, size)

Mirror(addr0, addr1, size) ==
  IF mem_rawaddrFails(addr1, size)
    THEN Stop(addr1, size, "exit") /\ UNCHANGED <<linearalloced, granted>>
    ELSE /\ mem_AddMappingShared(addr0, size, MirroredByte(addr1, size))
         /\ Granted(addr0, size, addr1)
         /\ UNCHANGED linearalloced

-----------------------------------------------------------------------------
SvcInit == MapInit /\ linearalloced = 0 /\ blocks = <<>> /\ granted = {}

LinearCommits(addr0, addr1, size) ==
  /\ Accepted([code |-> "COMMIT", linear |-> TRUE], addr0, addr1, size)
  /\ 0 < size /\ size <= LinearSize

(* FREE, UNMAP and PROTECT do nothing.                                     *)
svcControlMemory(op, addr0, addr1, size) ==
  /\ Accepted(op, addr0, addr1, size) /\ size > 0
  /\ \/ /\ op.code = "COMMIT" /\ op.linear /\ size <= LinearSize
        /\ linearalloced <= MaxLinear
        /\ IF addr0 = 0 THEN CommitNextLinear(size) ELSE CommitAt(HeapBase, size)
     \/ op.code = "COMMIT" /\ ~op.linear /\ CommitAt(addr0, size)
     \/ op.code = "MAP" /\ Mirror(addr0, addr1, size)
  /\ UNCHANGED blocks

(* A block at address 0 is committed at once; when the commit is refused   *)
(* before it has an address, newaddr and so misc[0] are whatever was on    *)
(* the stack.  A block at another address is memory the guest has.         *)
NewBlock(addr, size, ptr, given) ==
  blocks' = Append(blocks, [addr |-> addr, size |-> size, ptr |-> ptr, given |-> given])

svcCreateMemoryBlock(addr, size) ==
  /\ Len(blocks) < MaxBlocks
  /\ \/ /\ addr = 0 /\ LinearCommits(0, 0, size)
        /\ linearalloced <= MaxLinear
        /\ NewBlock((LinearBase + linearalloced) % Space, size, NoByte, TRUE)
        /\ CommitNextLinear(size)
     \/ /\ addr = 0 /\ ~LinearCommits(0, 0, size)
        /\ \E newaddr \in Addresses : NewBlock(newaddr, size, NoByte, FALSE)
        /\ UNCHANGED <<mapvars, linearalloced, granted>>
     \/ /\ addr # 0 /\ ~mem_rawaddrFails(addr, size)
        /\ NewBlock(addr, size, mem_rawaddr(addr, size), FALSE)
        /\ UNCHANGED <<mapvars, linearalloced, granted>>
     \/ /\ addr # 0 /\ mem_rawaddrFails(addr, size)
        /\ Stop(addr, size, "exit")
        /\ UNCHANGED <<linearalloced, blocks, granted>>

(* svcMapMemoryBlock returns 0 whether or not the mapping was refused. *)
MapAllocBlock(b, addr) ==
  mem_AddMappingShared(IF addr = 0 THEN b.addr ELSE addr, b.size,
                       IF b.ptr = NoByte THEN LineByte(b.addr) ELSE b.ptr)

MapSharedBuffer(addr, size) ==
  mem_AddMappingShared(addr, size, [buf |-> "GSPsharedbuff", off |-> 0])

MapSharedFont(size) == mem_AddMappingShared(FontBase, size, LineByte(FontBase))

svcMapMemoryBlock ==
  /\ \/ \E k \in DOMAIN blocks, addr \in Addresses : MapAllocBlock(blocks[k], addr)
     \/ \E addr \in Addresses : MapSharedBuffer(addr, Page)
     \/ MapSharedFont(Page)
  /\ UNCHANGED <<linearalloced, blocks, granted>>

Rearrange == mem_Reorder /\ UNCHANGED <<linearalloced, blocks, granted>>

SvcNext ==
  /\ stopped = "no"
  /\ \/ \E op \in Op, addr0, addr1 \in Addresses, size \in Sizes :
          svcControlMemory(op, addr0, addr1, size)
     \/ \E addr \in Addresses, size \in Sizes : svcCreateMemoryBlock(addr, size)
     \/ svcMapMemoryBlock
     \/ Rearrange

SvcSpec == SvcInit /\ [][SvcNext]_svcvars

-----------------------------------------------------------------------------
(* Memory that svcControlMemory has granted can be read and written from   *)
(* then on, whatever else is mapped or moved.                              *)
GrantsAreServed ==
  \A g \in granted :
    g.addr + g.size < Space =>
      \A a \in g.addr .. g.addr + g.size - 1 : Serving(a) # {}

(* What is stored at a mirror can be read back at the address it mirrors:  *)
(* a byte of the host's is behind both, for the life of the process.       *)
MirrorsMeet ==
  \A g \in granted :
    g.addr + g.size < Space /\ g.from + g.size < Space =>
      \A k \in 0 .. g.size - 1 : Backing(g.addr + k) \cap Backing(g.from + k) # {}

(* Until linear memory is exhausted no two memory blocks share a byte of   *)
(* it, although creating a block does not look whether it was mapped.      *)
BlocksApart ==
  linearalloced <= LinearSize =>
    \A j, k \in DOMAIN blocks :
      j # k /\ blocks[j].given /\ blocks[k].given =>
        \/ blocks[j].addr + blocks[j].size <= blocks[k].addr
        \/ blocks[k].addr + blocks[k].size <= blocks[j].addr
=============================================================================
