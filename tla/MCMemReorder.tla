---------------------------- MODULE MCMemReorder ----------------------------
(***************************************************************************)
(* Instances of MemReorder for TLC: few addresses, and ranges that touch,  *)
(* enclose each other and end at the top of the address space, where the   *)
(* sum of their base and size wraps around to 0.                           *)
(***************************************************************************)
EXTENDS MemReorder

At(base, size) == [base |-> base, size |-> size]

(* Of eight addresses: neighbours up to the top, and one around the first. *)
FourRanges == {At(2, 2), At(4, 2), At(1, 4), At(6, 2)}

LinearStart == {[buf |-> "LINEmembuffer", off |-> 0]}
=============================================================================
