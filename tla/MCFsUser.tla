------------------------------- MODULE MCFsUser ------------------------------
(* A small instance of FsUser: bytes 0 and 1, files of up to two bytes. *)
EXTENDS FsUser, TLC

MCEarlier == {<<>>, <<0>>, <<1>>, <<1, 1>>}
MCFlags == {{}, {"read"}, {"read", "write"}, {"write", "create"}, {"read", "write", "create"}}
MCMaxThings == [k \in Kinds |-> IF k \in {"SaveData", "ExtData"} THEN 3 ELSE 2]
MCStock == {<<1, 1>>}
MCPayloads == {<<1>>}
\* The answer decides nothing that follows, and no property is about it.
MCView == <<kind, fs, arch, guest>>

MCSymmetry == Permutations(Names) \cup Permutations(Handles)
MCRomImage == <<1, 1>>
=============================================================================
