---------------------------- MODULE AddressSpace ----------------------------
(***************************************************************************)
(* What the memory map (src/mem.c) promises to everything that reads or    *)
(* writes guest memory.  A guest address is backed by bytes of host        *)
(* memory: by none, by one, or, where mappings overlap, by several.  An    *)
(* address never loses a byte that backs it, and an access touches, for    *)
(* each guest address it covers, one of the bytes that back it.  Where     *)
(* every address has at most one, this is a flat memory.                   *)
(***************************************************************************)
EXTENDS Naturals, Sequences

CONSTANT Space                \* guest addresses are 0 .. Space - 1

VARIABLES backing,            \* the host bytes behind every guest address
          access              \* the last access: its address and the bytes it touched

Address == 0 .. Space - 1

Init == /\ backing = [a \in Address |-> {}]
        /\ access.bytes = <<>>

(* New mappings add to what backs an address. *)
Extend == /\ \A a \in Address : backing[a] \subseteq backing'[a]
          /\ UNCHANGED access

(* A load or a store of the addresses from addr on, or more of it.         *)
Touch == /\ \A k \in DOMAIN access'.bytes :
              access'.bytes[k] \in backing[(access'.addr + k - 1) % Space]
         /\ UNCHANGED backing

Next == Extend \/ Touch

Spec == Init /\ [][Next]_<<backing, access>>
=============================================================================
